# nexcore-x-ui in TLA+

nexcore-x-ui is a panel around one xray-core child process.  It keeps the
inbounds, their clients, quotas, outbounds and block rules in SQLite, builds
xray's config from these tables, restarts xray when they change, reads xray's
traffic counters back into the tables, and cuts off clients that are over their
quota or expired.  It also updates itself, binds domains behind nginx, serves
HTTPS with a certificate it reloads, tells a webhook who is online, and lets
operators and programs in.  This directory holds specifications of all that, the
TLC runs that check them and TLAPS proofs of their safety properties.

    src/web/controller, controller/api   HTTP handlers (one goroutine each)
    src/web/job, web/web.go              cron jobs (each run a goroutine, runs may overlap)
    src/web/service                      the operations on tables and on xray
    src/xray                             the child process
    src/database                         the tables, migrations, first run
    src/main.go                          start, the signal loop (reload on SIGHUP), the CLI
    src/update.sh, nexcore-x-ui.sh       what stops and starts the panel from outside

Handlers and jobs share the tables (one SQLite connection: statements and
transactions are serial, sequences of them are not), package variables (the mutex,
the `Process` pointer `p` and `isNeedXrayRestart` of `service/xray.go`, the setting
cache, the buffers), and the child.  Nothing else orders them.

## Inventory

| Part | State | Operations | What is hard | What makes it correct |
|---|---|---|---|---|
| xray process control (`xray.go`, `process.go`, `check_xray_running_job.go`, `controller/inbound.go`, `main.go`) | mutex, `p`, restart flag, checkTime, the crons | RestartXray, StopXray, SetToNeedRestart, the 10 s tick, the 30 s check, UpdateXray, SIGHUP | the flag is consumed before the tables are read; Start returns before the fork; Stop gives up after 5 s; a reload swaps the Server | no change is lost; a failed read does not stop a running xray; xray converges to the tables |
| traffic and quotas (`client_traffic.go`, `inbound.go`, `xray_traffic_job.go`) | up/down, total, expiry, enable of rows; xray's counters | AddTraffic, AddTrafficByEmail, Reset*, SetLimits, DisableExpired, UpdateInbound, EnsureRow | counters that are in neither place; whole-row saves of stale copies; disabling is not cutting off | nothing counted twice, nothing lost unaccounted, quotas enforced, disabled clients cut off |
| clients and rows (`client.go`, `inbound.go`) | settings.clients[], client_traffics | Add/Update/DeleteClient, AddInbound(s), Del*, sync at boot | one edit is many statements; crashes; the sync | every client has its row; its counts survive edits |
| routing and config (`xray.go`, `outbound.go`, `block_rule.go`, `xray_dryrun.go`) | inbounds, outbounds, block_rules | CRUD, dry run, GetXrayConfig | check-then-save with seconds in between; order of prepended rules | xray accepts what is enabled; rules take effect |
| self-update (`update.go`, `update.sh`) | applyMu, progress, the script, the files | ApplyLatest, the updater's steps | the mutex outlives success; two services; a stop without a start | one update at a time; the panel comes back |
| domain binding (`domain_binding.go`) | nginx's files and what it has loaded, an inbound | BindDomain, UnbindDomain | eight steps with a rollback by hand | all or nothing, and xray serves it |
| certificates (`cert.go`, `cert_loader.go`) | two files, the cached pair and its times | Save, Delete, renewals, reload | two renames, two stats, two reads | a new pair is noticed |
| online users, webhook (`online_ip_service.go`, `online_webhook.go`) | the log, the tail, maps with a TTL, lastSent | tail, tick, SendNow | truncation, restarts, lost and late posts | the receiver ends up with the last state |
| settings (`setting.go`, `entity.go`, `secret.go`, `main.go`) | settings, their cache, the key of the secrets | GetAllSetting, UpdateAllSetting, getString, saveSetting, rotation, the `setting` command | whole settings written back from copies, key by key, by two processes; a fill races an invalidation; one `.tmp` for the key | the last word holds; what is saved whole is sound; readers see the last write |
| login (`index.go`, `user.go`, `session.go`, `magic.go`) | the user, cookies, throttles, links | login, updateUser, links | bcrypt between check and effect; one link, many visits | sessions end with the password; a link works once; the throttle holds |
| API calls (`token.go`, `middleware.go`, `ratelimit.go`) | api_tokens, buckets, touch batches | the middlewares, revoke, flush | time read before the lock; GC; flushes of rows that were revoked | the budget holds; revoked is refused |
| API log (`apilog.go`, `logging.go`) | the buffer, batches, api_logs | add, flush, Purge | ticker and threshold both take the buffer | an audit log: every call once, and gone for good |
| start (`db.go`, `migrations.go`, `setup.go`, `main.go`) | bookkeeping, rows, the first user | InitDB, RunFirstRunSetup, reset | no transaction; panel and CLI at once; death anywhere | an upgrade is whole |

Share links, firewall and host status, translations, the frontend, the installer
and `util/` (but for the key file) are not modelled: formatting, external commands,
clients, or pure functions without state of the server.  `PROJECT.json` lists each part with its
reason, and the hazards with their lines.

## Modules

### XrayControl

One module for the whole control loop.  A goroutine is a running handler or
tick; `Main` is the signal loop.  `pc` follows the code: `flag` (a handler that
has written and not yet called SetToNeedRestart), `lock` (waiting for the
mutex), `read` (inside GetXrayConfig; one table per step, others write in
between), `stopping`/`halting` (inside Process.Stop), `start`, and `swap` (what
UpdateXray and a reload do between their stop and their restart).  A Process
object is in one of the states unused, spawning (Start has returned, the
goroutine it left has not forked), booting, serving, term, killed, gone.
IsRunning, the port conflict of two children, the finalizer of NewProcess and
the reload that registers the tick on the Server it replaces are in it.
History: `unnoticed` marks changes that by the code's own design nobody acts
upon (handlers without SetToNeedRestart; a tick whose RestartXray fails and only
logs).

### XrayPause

XrayControl with a memory of the operator's last wish (`paused`): a stop of a running
xray (the code refuses any other) that ended while nothing else was going on, and no
request since.

### TrafficLedger

The counts (`used` = up + down), limits and switches of one inbound and its
clients.  Every SQL statement is a step and so is every transaction.  A traffic
job fetches and resets the counters (GetTraffic), adds them to the inbound, then
to the clients, disabling who is over; a request is one statement (ResetTraffic,
SetLimits, ...) or a chain: the load of a row, the save of all its columns after
the dry run, EnsureRow (read, write) for each client.  `Reload` is a tick with
its restart in one step: how restarts work is XrayControl's subject.  Histories:
`served`, `lost` (bytes that went with a counter or a failed transaction),
`cleared`, `unnoticed` (a handler told nobody, or, `ReloadFails`, the tick that took the
flag could not restart xray; until the flag is next raised).

### ClientRegistry

Which clients the inbounds list and which have rows, with row ids (a row that is
deleted and inserted again has lost its counts).  A request is its chain of
statements; Boot is a crash anywhere followed by SyncAllClientTraffics.  Rows of
bulk-created inbounds, which the code does not make, are marked `unsynced`.

### XrayConfig

The tables the config is built from.  An inbound is its port, protocol, outbound
tag, switch and whether xray accepts it (`ok`), the only thing the dry run
tells.  Requests go through checkPortExist, checkProtocolSingleton, GetInbound,
the snapshot of the candidate, `xray -test`, and the save with its unique
indexes, each a step; deletion of an outbound is its two statements; a bulk creation
is one transaction.  `RoutingRules` is the list GetXrayConfig produces and `Exit` the
first match.

### Handlers = XrayConfig, ClientRegistry

The HTTP handlers over both services: which service each family calls, and how xray
gets to know.  A handler whose service has returned `owes` SetToNeedRestart, or a
restart of its own with SetToNeedRestart if that fails (UpdateInbound of the panel);
the tick takes the flag at any time, and may then fail (`TickFails`); a death of the panel forgets flag and debts and
starts xray with what the tables hold.  A restart is one step, as XrayControl is about
its steps.  The two services share no state, so a behaviour moves one `part`.
Histories: `stale` (the config has changed since xray was started with it), `lapse` (a
deletion of an outbound failed between its two statements, or a tick that had taken the
flag; until the flag is next raised).

### HostOps = SelfUpdate, DomainBinding, Certificates

What the panel does to its host, composed in the one process they share.

 - `SelfUpdate`: a request is at work on one of the UpdateServices of the running
   Server (`Detached` stands for that of a Server a reload has replaced); it takes
   applyMu, fetches the metadata, writes `.update-dispatch.sh` (absent, partial,
   whole) and starts an updater, whose steps are those of `update.sh`.  History:
   `sent`.
 - `DomainBinding`: BindDomain and UnbindDomain, one step per command or write,
   each of which may fail, with the rollback of each failure; what nginx has
   loaded (`live`) beside what its files say (`conf`).  A reload may fail or be given
   up as late whether or not nginx runs and has loaded the files; a failed write
   leaves a half file.  Histories: `crossed` (calls that overlap, which needs a reload
   in between or an unbinding), `left` (what a call has left behind: a half file, or
   doubt about what nginx has loaded), `missed` (inbounds that a failed restart has not
   put into xray).
 - `Certificates`: content is named by its writer, so it also tells the
   modification time.  Save is open, fill, rename, per file, through a `<file>.tmp`
   that overlapping saves share; a renewal writes in place.  The loader's reload is
   two stats, the comparison, two reads and the store.
 - `HostOps` adds what they do to each other: the updater stops and starts the
   process; a process or a SIGHUP reload needs a pair that loads, and ends for good
   without one (`vain`).

### OnlineReport

Connections write lines to xray's access log; the tailer reads them, waits at the
end of the file and reopens it on a reset or after a truncation; `byEmail` ages by
`GrowsOld`; the tick compares the snapshot with lastSent, posts, and an unanswered
post may or may not have arrived, at once or later.  Histories: `unread`, `astray`
(the receiver was told something that lastSent does not know of, which nothing
repairs before the next change), and `Lost` (the line that told of a user is gone).

### PanelAccess = SettingCache, PanelLogin, ApiAccess, ApiLog, Startup, SettingTable

The ways into the panel.  Its six parts share the process that is started and
restarted, and no state: a behaviour moves one `part` and leaves the rest at its
start.  PanelAccess counts calls, restarts and writers, and decides which of them the
bounds allow.

 - `SettingCache`: one setting, the API token of old installs, behind its cache:
   getString is a lookup, a read and a fill; saveSetting a find, a write and an
   invalidation; a rotation is two saves.  Histories: `raced` (a fill with a row that
   has been written since), `outside` (the command line wrote the table).
 - `PanelLogin`: a login step by step (two throttles, bcrypt, rehash, records,
   cookie), updateUser, the command line's UpdateFirstUser, links and their visits.  A
   hash is a number, `era` counts the password changes; a cookie carries both.
   History: `undone` (a rehash has taken back a password change).
 - `ApiAccess`: a call finds its token, touches it, reads the time, gets the lock
   of the bucket; beside it the handlers of api_tokens, the flusher, the GC, the clock,
   a reload (new buckets, same map of touches) and a restart.
 - `ApiLog`: the buffer, its batches, the table and Purge in chunks.  `AuditLog` is what
   it promises, in four actions (Record, Write, Lose, Purge); under the mapping
   pending <- the calls in the buffer or in a batch, logged <- the table, ApiLog
   implements it.
 - `Startup`: the panel and a command of the CLI run the migrations on one
   database, one statement per step; each may die anywhere and start again; then
   RunFirstRunSetup, the first token, cmd_reset.
 - `SettingTable`: who writes the settings as a whole.  A request reads them all, binds
   its body over them, validates them (the pair loads, an entry that is on has a path)
   and saves them key by key; a command saves its keys beside them, from another
   process; either may fail at any save.  The seed of the secrets is created in
   `.secret-key` through a `.tmp` of a fixed name, by whichever process needs it first,
   or instead of one that it cannot read.
   Six keys stand for the table: the pair, a masked secret, the template, and the two
   of the secure entry.  Histories: `meant` (what was last asked for a key), `lost`
   (keys that a form has written back from before that), which `overtaken` tells for each
   form that is open, `torn`, `blanked` (a command set the path to blanks), `clashed` (two
   made the key at once, or one made it again).

### MC modules

`MCXrayControl`, `MCXrayPause`, `MCTrafficLedger`, `MCHandlers`, `MCXrayConfig`,
`MCHostOps`, `MCOnlineReport` and `MCPanelAccess` declare the model values, the plans, homes and
template of the runs, and the symmetries (interchangeable goroutines, objects,
contents, clients, requests, ports, domains).  Runs with liveness use none.

## Runs

| Run | Question | Bounds |
|---|---|---|
| control | no change lost, no child stopped without a complete config | 2 handlers and Main, 2 tables (one required), 2 contents, 2 Process objects, 2 disturbances, reloads; finalizers and checks at any time |
| control_live | convergence, orphans | the same with 1 table and no reload |
| control_reload | is a raised flag consumed? Not after a SIGHUP reload | 1 handler |
| ledger | no byte charged twice, no disabled client forgotten | 1 client, 1 job, 2 requests at once out of 3, 1 failure |
| ledger_live | accounting to the byte; quotas enforced; the disabled cut off | 2 clients, 2 overlapping jobs, 1 sweep |
| ledger_edit | do edits keep the counts? No: EnsureRow saves what it read | 2 clients, 1 job, 1 request |
| xray_pause | does a stop by the operator hold? No: the 30 s check undoes it | 1 handler, no reload |
| handlers | no change unnoticed; only valid rows enabled, unbinding, rules take effect; rows cover clients, counts survive | config: 2 ports, 1 outbound, 1 block rule, 2 overlapping requests out of 3 of 17 kinds; clients: 2 inbounds, 3 emails, 6 edits one at a time of 8 kinds; deaths of the panel anywhere (1 among the edits); ticks and failures at any time |
| config_blocked | do block rules come first? Not for relayed inbounds | 1 request at a time |
| host | the update lock, the panel's return, all-or-nothing bindings, new certificates | 2 services, 2 requests, 2 updaters, 1 reload, 2 domains, 2 bindings, 1 unbinding, 2 uploads, 1 renewal, 1 removal, any 2 calls (MaxCalls) |
| online | acknowledged is told; comings and goings are told | 2 users of one email, 2 lines, 2 faults, the test button |
| access | sessions, links, rotation, throttle; budget, revocation, the audit log, upgrade; the last word, sound settings | 3 calls of any kind (MaxCalls), 3 queries and tokens, 2 logins, 1 change, 2 visits of 1 link, Threshold 2, 4 hashes, the CLI, 1 restart; 3 API calls on 1 token with Burst 1, 4 instants; 4 log entries, threshold 2; 2 processes and 4 starts, 2 tokens, 2 clients; 2 writers of settings out of 2 forms and the CLI (MaxWriters) |

The bounds reach the cases that matter.  Two handlers and Main give a restart, a
writer and a reload at the same time; two Process objects a dying child and its
successor on the same ports; MaxDisturb 2 a fault or request on top of another;
two tables distinguish one read before a write from one read after, and a required
from an optional one.  One byte is enough for the ledger's quota because plans have a
total of 1: counts reach it and, with resets and saves of stale counts, come back to
it.  In `handlers` two inbounds with distinct emails make renames, deletions and
creations meet; it takes 6 edits to create, edit, delete and create again; three
requests on the config are create - edit - enable, two of them overlapping, and between
their returns and their flags a tick may pass.  In
`host` two calls are two of anything, over a reload and failures at each step: two
updaters over one script, an upload over a renewal, a binding over its unbinding.  In
`online` two lines are a line lost and a line read; two faults are a failed post and
a restart.  In `access` a race takes a reader and two writers; a throttle of 2 with two
logins has one under way when the other reaches it; a budget of one call and one per
tick is exceeded by any two too many, and at 3 ticks the GC (Idle 2) has dropped a
bucket that a late caller (Stall 1) comes back to.  Four starts are a crash, its
repetition, and a command beside each.  Two writers of settings are a form over a form
or over a command, meeting at any save of each.

What runs assume of the environment, by constant: `Home` (an email belongs to
one inbound), `Editor` of one element in `handlers` (edits of clients do not overlap
there), `Alone` in `handlers` (a bulk enable and the two-statement deletion of an
outbound must not overlap other requests for the properties to hold; that a
creation, a toggled outbound and an edited block rule do not either only keeps the run
small: what a creation would meet on its way an edit meets too), `Timely` in
`control_live` (the 30 s check does not fire twice within one restart and the
finalizer waits for the fork), `OneEmail` in `online`, `Idle` against `Stall` in `access` (a bucket that is
dropped would be full again, although its latest caller and the next may each have
stalled between time.Now and the lock: (Idle + 1 - 2 * Stall) * Refill >= Burst).  Without them, but for the
part of `Alone` that only saves states, the properties fail; the findings and limits
below say where.  `Timely` also holds in `xray_pause`.

Deadlock is checked but for four runs.  In `control_reload` the tick is left on the
stopped cron, and once the other disturbances are spent nothing can step, which is
what it shows.  In `host`, `online` and `access` calls, lines and faults are bounded by
MaxCalls, MaxReloads, MaxLines, MaxFaults, MaxRestarts, MaxClock, MaxStarts and
MaxWriters, and a panel whose calls are all answered, or one that is down for good, stops.
In `handlers` the panel at rest is a step that changes nothing, taken only when no
request is under way and the flag is down: any other standstill is a deadlock.

Fairness.  `control_live`: goroutines that are not blocked go on (WF of their
steps), the Go mutex does not starve a waiter (SF of Acquire; its starvation
mode), children start, exit and are reaped, cron fires.  `ledger_live`: cron runs the
traffic job and the restart tick for ever (of a Server that no SIGHUP has replaced),
accepted requests return.  `online`: the
tailer, the ticker and the clock go on, and a restart of xray comes to its end; they
are goroutines that loop for ever.  Nothing is fair that depends on a user, a failure
or the receiver: requests, expiry, crashes, reloads, faults and late posts may never
happen.

## Findings

`PROJECT.json` quotes the lines.  The code and its own documents disagree here, each
shown by a run:

 - After SIGHUP, `startTask` of the new controllers registers the restart tick on
   `global.GetWebServer()`, still the old Server with a stopped cron: the flag
   is never consumed again (`control_reload`).
 - EnsureRow, meant to leave up/down alone, saves the counts it read over what a
   traffic job added in between (`ledger_edit`).
 - Relay rules are prepended after, hence before, the block rules
   (`config_blocked`).
 - The 30 s check takes a stop by the operator for a crash: after two misses it raises
   the flag, and the next tick starts the xray that was stopped and was to stay so
   (`xray_pause`; `controller/api_panel.go:459-462`).

And here without a run of their own; the module named does what the code does, and
the property excepts it by a history or a bound:

 - DelInbound and DeleteMany leave the rows of their clients
   (`service/client_traffic.go:316-318`; ClientRegistry).
 - SetEnableMany enables by id rows that an edit has changed since it validated them
   (`inbound_dryrun_test.go:93-96`; `Alone` of XrayConfig).
 - A reader that missed the cache can put an old value after the invalidation
   (`setting.go:74-75`; `raced` of SettingCache).
 - A PATCH of one setting writes back all the others as it read them, over what someone
   else has saved since (`docs/API.md:196` "merge"; `lost` of SettingTable), and a save
   that fails half way, or meets another, leaves settings that were never validated
   (`torn`).
 - The secure entry written by the command line is said to take effect on a SIGHUP
   (`setting.go:390-391`); a reload keeps the setting cache, so it takes a restart unless the
   key was not cached (SettingCache).
 - The panel and the command line may each create `.secret-key`; one of them then
   encrypts with a seed nobody else will find.  A file that is there and cannot be read,
   or is short, is taken for none: another key replaces it, against "creating it ... if
   it doesn't exist" (`util/secret/secret.go:117-120`; `clashed` of SettingTable).
 - A binding whose WriteFile fails leaves its half-written conf
   (`domain_binding.go:13-14`; `left` of DomainBinding).
 - A SIGHUP with a pair that does not load ends the process
   (`main.go:149-153`; `vain` of HostOps).
 - applyMu, called global, is per service and per Server (`update.go:71`; SelfUpdate).
 - After a truncation the tailer skips what was written before it looked
   (`online_ip_service.go:106`; `Lost`).
 - A save of a pair is not atomic (`cert.go:131`; Certificates).
 - First-run credentials are not printed when the insert of webPort fails after that
   of the user, or the process dies in between (`main.go:78-79`; Startup).
 - The API log's "hard ceiling" is never reached, as the buffer is swapped long before
   (`apilog.go:30`; ApiLog), and no cron purges it (`model.go:109-110`): only
   DELETE /access-logs does.

## Proofs

Every safety property that a passing run checks, every invariant and every action
property, is also a theorem, for all values of the constants that the assumptions of
the modules and the hypotheses named below allow.  A theorem of one module is one
inductive invariant: its initial and its step lemma have one step per action, and its
parts are lemmas where a step disturbs them.

| Module | Theorem | States | Hypothesis |
|---|---|---|---|
| XrayControlProofs | TypeCorrect, NoWakeupIsLost, StaleReadsAreNoticed | TypeOK, NoLostWakeup, StaleReadIsNoticed | |
| | ChildIsKept | StoppedOnlyWithAReplacement | |
| TrafficLedgerProofs | Typed, DisabledNeverForgotten, NothingChargedTwice | TypeOK, DisabledIsNoticed, NoOverCount | |
| | NothingForgotten | Conserved | no edits: `Kinds \subseteq {"expire"}` |
| HandlersProofs | Typed, NoChangeIsLost, RulesTakeEffect | TypeOK, ChangesAreNoticed, RulesApply | |
| | EnabledStaysValid | EnabledIsValid | `"enable" \in Alone` |
| | DeletionUnbinds | UnboundWhenDeleted | `"dropOutbound" \in Alone` |
| | ClientsHaveRows, RowsSurvive | RowsCoverClients, CountsSurvive | OneEditor, OwnEmails |
| HostOpsProofs | Typed, UpdatesAreGuarded, DownComesBack | TypeOK, LockGuardsUpdates, DownIsComingBack | |
| | PairIsNeverMissed, BindingsAreWhole, BoundInboundsReachXray | NewPairIsNoticed, BindingIsWhole, BoundReachesXray | |
| OnlineReportProofs | ReportIsTyped, TickKnowsReceiver | TypeOK, AckedIsTold | |
| SettingCacheProofs, PanelLoginProofs | CacheFollowsTheRow, AccessIsGuarded | of the parts alone | |
| PanelAccessProofs | AccessIsTyped | TypeOK | |
| | CacheFollowsTheRow, RotatedStaysRefused | CacheIsTheRow, RotatedIsRefused | |
| | SessionsEnd, LinksWorkOnce, GuessesAreBounded | NoStaleSession, OneLoginPerLink, ThrottleHolds | |
| | RevokedStaysOut, BudgetIsKept | RevokedIsRefused, BudgetHolds | |
| | AccessIsAudited | AuditedOnce (a refinement) | |
| | UpgradesAreWhole | UpgradeIsWhole | |
| | LastWordIsKept, WholeIsSound | LastWordHolds, WholeSettingsAreSound | |

The hypotheses are those under which the runs check the same property, and without them
it fails: an edit of a client does write an old count back (`ledger_edit`), a bulk
enable that overlaps an edit does enable what xray rejects, two editors of one inbound
do lose a client.  The assumptions on constants ask for finite sets of clients, jobs,
emails and logins where a property counts or sums, for the right types elsewhere, and
name what the model needs to tell apart.

### Along which argument

XrayControl.  NoLostWakeup is not inductive: a restart that ends must have read what
the tables hold or have been overtaken by a write that somebody will act upon.  The
invariant adds MutualExclusion (only the holder of the mutex is inside RestartXray, so
`p` and its config change in one place), CleanLocals, and StaleReadIsNoticed, which
speaks of the restart while it reads.  ChildIsKept adds Staged (only a stop is halting
xray; a restart that stops it has read every table); the finalizer leaves `p` alone, so
only the holder of the mutex stops it.

TrafficLedger.  DisabledIsNoticed joins the shape of the accounts and of the program
counters: a step that disables a client, or enables an inbound's switch, puts its actor
on the way to the flag.  NoOverCount needs ReadsAreOld: what a handler has read and will
write back is no more than was served before the bytes now under way, so the save of a
stale row can lose bytes and cannot invent any; IdleIsEmpty says a job holds bytes only
between its query and AddTrafficByEmail.  Conserved is the same sum as an equation.  What
is under way is a sum over jobs: that such a sum exists, is one and changes with one
summand only is proved first (SumsExist, SumsAgree).

Handlers.  A part moves at a time (ConfigMove, ClientMove), so each invariant is of its
part: ConfigInv says what a request carries at each place, and that a kind that is alone
is (Exclusive).  Over it, ValidInv follows validity from the dry run to the save,
DropsAreUnbound an outbound from the first statement of its deletion to the second, and
RowInv the rows: what the editor has read is still in the table (FoundIsCurrent), what it
deletes is of no client (DropsUnlisted), and a client has its row or the editor is on its
way to it (ClientsCovered).  FlagInv and the moves of the two parts give
ChangesAreNoticed: a request that is not at rest leaves the config as it is.  RulesApply
is about the list GetXrayConfig builds: a port names one inbound (PortsApart), and the
first match of a list made by prepending is that of the part that comes first (LeastOf).

HostOps.  LockInv: the mutex of a service is held, and nothing dispatched, just while
one request works on it.  DownIsQuiet: a panel that is down handles none.  CertInv
follows each content through the two renames: OneCopy and Gone say that one that was
replaced does not come back, so what the loader saw when it took the times it still
reads, or it is gone for good (SeenIsRead).  BindInv keeps with every binding what it
has made so far (Progress), that another call of its domain would have `crossed` it
(Apart, ConfIsOwn), that nginx has loaded nothing of one it has not been told to load
(NotLoaded), and whose half files there are (HalfKnown).

OnlineReport.  AckedIsTold is inductive by itself: whatever changes what the receiver
holds either makes lastSent the same or sets `astray`.  The types say that the tailer
stays within what was ever logged.

The audit log.  AuditedOnce is the specification of AuditLog under the mapping.  LogInv
says that a call which has ended is in one place (CallsPlaced), that no two batches, the
buffer and the ticker's batch share a call (BatchesApart), and that the buffer stays
below the threshold, which is why the cap never drops anything.  Each step of ApiLog is
then one of the four abstract actions, or none.

The token cache.  Who may put an old value into the cache?  Only a Fill whose row has
been written since it was read (FillsAreFresh).  ReplacedForGood (a token that a
rotation has cleared is never the row again) and ReplacedIsUncached (nor in the cache,
once the rotation has invalidated it) carry a rotated token to its refusal.

Login.  CookiesAreOfNow extends NoStaleSession to the cookies that logins are still to
make; LinksAreSpent says that the visits the conditional UPDATE has let through spent
links of their own; ThrottleHolds is inductive with its types, by counting: a failure
that adds one to a record takes its login out of those that may still fail.

API calls.  RefusedStop: a call that came with a refused token stops at the lookup, and
none is undone by what the flusher writes.  The budget is proved over a bucket's level,
what it would have held at time 0: the order in which calls of different times reach the
lock does not matter to it, a call that passes lowers it by one, and a window of calls
is paid by the level, or, once the bucket has been dropped, by the time gone by (Paid).
Levels bounds how far behind a late caller may leave it.  The attempt corrected the
model's assumption on the constants: the caller that comes late and the one before it
may each be `Stall` behind, so a dropped bucket is full again only if
(Idle + 1 - 2 * Stall) * Refill is at least Burst; with one Stall in place of two (Idle 3,
Stall 2, Burst and Refill 1) TLC violates BudgetHolds.  The code's 10 minutes against a
burst that refills in seconds leave room for stalls of minutes.

Start.  HalfDone: what a process has visited of its migration is done, whoever did it;
HashedOnce: what it has found is not ahead of the table.  So a migration may be cut
short and repeated, by either process, over its own result.

Settings.  LastWord asks what a form that is open has in its copy: of a key that nobody
else was asked to set meanwhile, the last word (CopiesAreKnown, SavesAreKnown), and
nothing masked (NothingMaskedIsRead).  KeyIsOne: unless two make the key at once or one
makes it again (`clashed`), the seed on disk, the seed held and the seed of the secret
are one.  For WholeSettingsAreSound, AloneEndsWell says where a writer that is still
alone will leave the settings, key by key (After): Sound, or sound but for a blank path
that a command asked for (Fine).  A command saves one key, or the path before the switch
(CommandsAreOrdered), and no key twice (OncePerKey).

PanelAccess.  Every step is a step of a part or leaves its variables alone (TokenIsSafe,
LoginIsSafe, ApiIsSafe, LogIsSafe, StartIsSafe, TableIsSafe), so what holds of the parts
holds of the whole.  SettingCache and PanelLogin are proved about as specifications of
their own (CacheSpec, LoginSpec), which Spec implements.

### Only model-checked

The liveness properties, which with fairness and ENABLED are out of the prover's reach:
Converges, OrphansReaped, QuotaIsEnforced, DisabledIsCutOff, ChangesAreTold.  The
properties of the four runs that end in a violation are false.  No module uses recursive
operators.  Where a sum or a first match asks for induction, the proof takes a minimal
counterexample of a well-founded relation instead (MinimalSubset over the subsets of a
finite set, LeastOf over the naturals), as the library's induction theorems cannot be used.

## Abstractions and limits

Up and down are one count.  Contents of tables, settings JSON, tags and keys are
model values.  Whether xray accepts a row is nondeterministic when the row is
written and fixed after.  SQLite is a set of atomic statements; a failed
statement changes nothing.  Two panels never share a database.  Clocks are single
events (`Expire`, `TimePasses`, `GrowsOld`) or, for the rate limit, a counter of
seconds; timers are steps that may be taken at any time.  Of eleven migrations two
change data and are modelled.

Weaknesses of the code that a property names and excepts, as it would fail otherwise:
the tick that takes the flag and fails, which every property about the flag excepts until
it is next raised (`unnoticed`, `lapse`, `missed`; a boot that cannot read the tables
counts as one for `missed`); an nginx that runs and did not reload, where BindDomain
reports success all the same, and the half file of a failed write (`left`; BindingIsWhole);
`-secureEntryPath "  "`, which passes its test, is trimmed and leaves an entry that is on
without a path (`blanked`; WholeSettingsAreSound); the key made again because it could not
be read (`clashed`; LastWordHolds).

Left out of a module although the code has it: an injectBlockRules or injectUserOutbounds
that fails, which GetXrayConfig only logs, so that rules are missing from the list
(XrayConfig); a SIGHUP, after which no tick runs (`control_reload`), from TrafficLedger and
Handlers, where the tick is said to come; a start of xray that fails after the old one was
stopped, from Handlers and DomainBinding (the 30 s check then asks again: XrayControl).

Known weaknesses of the code the models reproduce and no property is about:
patchSettings and resetInboundTraffic raise no flag; rows of bulk-created inbounds
appear at the next edit or start; DeleteByEmail is not limited to its inbound; a save of
a deleted inbound inserts it again; checkProtocolSingleton looks at the outbound of the
request and the save keeps the one of the row; the dry run knows no user outbounds;
editing a port renames the tag that block rules name; a rotation that fails half way
leaves no token; one that finds no row, after the command line has reset the settings,
while another request is creating it, adds a second row that nobody reads, and the token
it meant to replace stays good; a client
whose connection lives long drops out of its inbound's count while its email is online;
updateUser logs its own user out; a failure after the window drops a late block; links outlive a change of the password; an updater that gives up keeps the
mutex until a restart; without sqlite3, cmd_reset deletes the database, which Startup leaves out.

## Plan

Order: the control loop and its proofs, the ledger, the registry, the config, the host,
the webhook, access; then the handlers over registry and config, the settings as a
whole, and the audit log with its refinement.  These are done.  What is left:

1. Model: the counts by inbound of OnlineReport (state, emailToTag); the rename of a
   token.  The connection layer (gzip, HTTP on the HTTPS port) and share links carry no
   state.
2. Abstract specifications and refinements: XrayControl against "tables, and an xray
   that follows them"; OnlineReport's tick against a channel that delivers the last
   snapshot.
3. Proofs: the safety properties of the runs are done.  What is left goes with the
   refinements of 2, and the hypotheses that could be weakened: Conserved beside requests
   that change only limits and switches, EnabledIsValid with bulk enables that overlap
   creations.
