---------------------------- MODULE TrafficLedger ----------------------------
(***************************************************************************)
(* Byte counts, quotas and the enable switch of one inbound and of its     *)
(* clients:                                                                *)
(*   web/service/client_traffic.go   the client_traffics rows              *)
(*   web/service/inbound.go          the inbounds row, UpdateInbound       *)
(*   web/job/xray_traffic_job.go     xray's counters into both             *)
(*   web/job/check_inbound_job.go, web/controller/api/v1.go                *)
(*                                                                         *)
(* Every SQL statement is a step, and so is every transaction: the pool    *)
(* has one connection (database/db.go), so nothing runs inside one.        *)
(* Which clients there are is ClientRegistry's subject; here it is fixed.  *)
(* How xray is restarted is XrayControl's; here Reload is one step.        *)
(***************************************************************************)
EXTENDS Naturals, FiniteSets, FiniteSetsExt

CONSTANTS
    Client,      \* the emails of the inbound's clients
    Job,         \* runs of XrayTrafficJob (cron lets them overlap)
    Request,     \* handlers of requests, and runs of CheckInboundJob
    Plan,        \* limits: [total |-> bytes or 0, expires |-> BOOLEAN]
    Kinds,       \* the multi-step requests that occur
    MaxServed,   \* bound on the bytes served
    MaxOps,      \* bound on the requests
    MaxFaults    \* bound on the failures

Kind == {"edit", "client", "inreset", "expire"}
Limits == [total : Nat, expires : BOOLEAN]
Account == [used : Nat, plan : Limits, on : BOOLEAN]

ASSUME ConstantsOK ==
    /\ Plan \subseteq Limits
    /\ Kinds \subseteq Kind
    /\ IsFiniteSet(Client) /\ IsFiniteSet(Job)
    /\ MaxServed \in Nat /\ MaxOps \in Nat /\ MaxFaults \in Nat

VARIABLES
    inb,            \* the inbounds row
    row,            \* row[c]: the client_traffics row of client c
    late,           \* the expiry times have passed
    active,         \* clients in the config xray runs
    stat,           \* stat[c]: xray's counter of client c (and their sum, of the inbound)
    needRestart,    \* isNeedXrayRestart
    jpc, delta,     \* a traffic job: where it is, what it fetched
    rpc, kind,      \* a request: where it is, what it does
    rin,            \* its copy of the inbounds row
    todo,           \* the clients it has yet to write
    read,           \* the count it read of the client it is writing, as [{c} -> Nat]
    served,         \* history: bytes xray served for the client
    lost,           \* history: bytes that were dropped on the way
    cleared,        \* history: bytes that ResetTraffic has set to 0
    unnoticed,      \* history: the tables changed and nobody was told, or the tick that was
                    \* told failed; no flag was raised and xray not restarted since
    ops, faults     \* requests and failures so far

xrayVars == <<active, stat>>
jobVars == <<jpc, delta>>
reqVars == <<rpc, kind, rin, todo, read>>
history == <<served, lost, cleared, unnoticed>>
vars == <<inb, row, late, xrayVars, needRestart, jobVars, reqVars, history, ops, faults>>

NoAccount == [used |-> 0, plan |-> [total |-> 0, expires |-> FALSE], on |-> FALSE]
Nothing == [c \in {} |-> 0]
Zero == [c \in Client |-> 0]
PerClient == [Client -> Nat]

TypeOK ==
    /\ inb \in Account
    /\ row \in [Client -> Account]
    /\ late \in BOOLEAN
    /\ active \in SUBSET Client
    /\ stat \in PerClient
    /\ needRestart \in BOOLEAN
    /\ jpc \in [Job -> {"idle", "inbound", "client", "flag"}]
    /\ delta \in [Job -> PerClient]
    /\ rpc \in [Request -> {"idle", "save", "rows", "write", "expire", "flag"}]
    /\ kind \in [Request -> Kind]
    /\ rin \in [Request -> Account]
    /\ todo \in [Request -> SUBSET Client]
    /\ DOMAIN read = Request
    /\ \A r \in Request : DOMAIN read[r] \subseteq Client /\ \A c \in DOMAIN read[r] : read[r][c] \in Nat
    /\ served \in PerClient /\ lost \in PerClient /\ cleared \in PerClient
    /\ unnoticed \in BOOLEAN
    /\ ops \in 0..MaxOps /\ faults \in 0..MaxFaults
    /\ \A r \in Request : todo[r] # {} => rpc[r] \in {"rows", "write", "expire"}

\* DisableInvalidInbounds, AddTrafficByEmail: over the quota, or expired.
Over(a) == (a.plan.total > 0 /\ a.used >= a.plan.total) \/ (a.plan.expires /\ late)

\* GetXrayConfig leaves out disabled clients, and everything of a disabled inbound.
Enabled == IF inb.on THEN {c \in Client : row[c].on} ELSE {}

Op == ops < MaxOps /\ ops' = ops + 1 /\ UNCHANGED faults
Fault == faults < MaxFaults /\ faults' = faults + 1 /\ UNCHANGED ops
Free == UNCHANGED <<ops, faults>>

Plus(f, g) == [c \in Client |-> f[c] + g[c]]
Total(f, S) == MapThenSumSet(LAMBDA x : f[x], S)

Init ==
    \E l \in Plan :
        /\ inb = [used |-> 0, plan |-> l, on |-> TRUE]
        /\ row = [d \in Client |-> inb]
        /\ late = FALSE
        /\ active = Client
        /\ stat = Zero
        /\ needRestart = FALSE
        /\ jpc = [j \in Job |-> "idle"]
        /\ delta = [j \in Job |-> Zero]
        /\ rpc = [r \in Request |-> "idle"]
        /\ kind = [r \in Request |-> "edit"]
        /\ rin = [r \in Request |-> NoAccount]
        /\ todo = [r \in Request |-> {}]
        /\ read = [r \in Request |-> Nothing]
        /\ served = Zero /\ lost = Zero /\ cleared = Zero
        /\ unnoticed = FALSE
        /\ ops = 0 /\ faults = 0

-----------------------------------------------------------------------------
(* Time, and xray.                                                          *)

Expire ==
    /\ ~late /\ late' = TRUE
    /\ UNCHANGED <<inb, row, xrayVars, needRestart, jobVars, reqVars, history, ops, faults>>

Serve(c) ==
    /\ c \in active
    /\ Total(served, Client) < MaxServed
    /\ stat' = [stat EXCEPT ![c] = @ + 1]
    /\ served' = [served EXCEPT ![c] = @ + 1]
    /\ UNCHANGED <<inb, row, late, active, needRestart, jobVars, reqVars, lost, cleared, unnoticed,
                   ops, faults>>

\* The counters live in the child: they end with it.
Counters(next) ==
    /\ active' = next
    /\ stat' = Zero
    /\ lost' = Plus(lost, stat)

\* Mutant: the config counts as unchanged while the inbound is enabled.
SameWhileEnabled ==
    /\ needRestart /\ needRestart' = FALSE /\ unnoticed' = FALSE
    /\ IF inb.on THEN UNCHANGED <<xrayVars, lost>> ELSE Counters(Enabled)
    /\ UNCHANGED <<inb, row, late, jobVars, reqVars, served, cleared, ops, faults>>

\* The 10 s tick and RestartXray(false), which keeps a child whose config is
\* the same.
Reload ==
    /\ needRestart /\ needRestart' = FALSE /\ unnoticed' = FALSE
    /\ IF Enabled = active THEN UNCHANGED <<xrayVars, lost>> ELSE Counters(Enabled)
    /\ UNCHANGED <<inb, row, late, jobVars, reqVars, served, cleared, ops, faults>>

\* The tick has taken the flag, RestartXray fails, and the error is only logged.  It
\* fails before xray is touched (a table cannot be read): xray goes on as it was.  Or
\* xray is stopped and does not start: nobody is served before a Restart.
ReloadFails ==
    /\ Fault
    /\ needRestart /\ needRestart' = FALSE
    /\ \/ unnoticed' = (unnoticed \/ Enabled # active) /\ UNCHANGED <<xrayVars, lost>>
       \/ unnoticed' = FALSE /\ Counters({})
    /\ UNCHANGED <<inb, row, late, jobVars, reqVars, served, cleared>>

\* A crash, a stop or a forced restart.
Restart ==
    /\ Fault
    /\ Counters(Enabled) /\ unnoticed' = FALSE
    /\ UNCHANGED <<inb, row, late, needRestart, jobVars, reqVars, served, cleared>>

-----------------------------------------------------------------------------
(* XrayTrafficJob.Run.                                                      *)
JobAt(j, l) == jpc' = [jpc EXCEPT ![j] = l]
InFlight(j) == Total(delta[j], Client)

\* Mutant: the query does not reset the counters.
Peek(j) ==
    /\ jpc[j] = "idle"
    /\ JobAt(j, "inbound")
    /\ delta' = [delta EXCEPT ![j] = stat]
    /\ UNCHANGED <<inb, row, late, active, stat, needRestart, reqVars, history, ops, faults>>

\* QueryStats with reset: the counters move to the job.
GetTraffic(j) ==
    /\ jpc[j] = "idle"
    /\ JobAt(j, "inbound")
    /\ delta' = [delta EXCEPT ![j] = stat]
    /\ stat' = Zero
    /\ UNCHANGED <<inb, row, late, active, needRestart, reqVars, history, ops, faults>>

\* xray resets the counters and the answer is lost (10 s deadline).
GetTrafficFails(j) ==
    /\ jpc[j] = "idle" /\ Fault
    /\ stat' = Zero
    /\ lost' = Plus(lost, stat)
    /\ UNCHANGED <<inb, row, late, active, needRestart, jobVars, reqVars, served, cleared,
                   unnoticed>>

\* up = up + ?, in a transaction of its own; its failure is only logged.
AddTraffic(j) ==
    /\ jpc[j] = "inbound"
    /\ JobAt(j, "client")
    /\ \/ inb' = [inb EXCEPT !.used = @ + InFlight(j)] /\ UNCHANGED <<ops, faults>>
       \/ Fault /\ UNCHANGED inb
    /\ UNCHANGED <<row, late, xrayVars, needRestart, delta, reqVars, history>>

\* Mutant: only rows that are enabled are updated.
SkipsDisabled(j) ==
    /\ jpc[j] = "client"
    /\ row' = [c \in Client |-> IF row[c].on THEN [row[c] EXCEPT !.used = @ + delta[j][c]]
                                ELSE row[c]]
    /\ JobAt(j, "idle")
    /\ delta' = [delta EXCEPT ![j] = Zero]
    /\ UNCHANGED <<inb, late, xrayVars, needRestart, reqVars, history, ops, faults>>

\* Mutant: the quota is compared with the count before the bytes are added.
QuotaBeforeAdding(j) ==
    /\ jpc[j] = "client"
    /\ LET Cut(c) == delta[j][c] > 0 /\ row[c].on /\ Over(row[c])
       IN  /\ row' = [c \in Client |-> [row[c] EXCEPT !.used = @ + delta[j][c],
                                                      !.on = @ /\ ~Cut(c)]]
           /\ JobAt(j, IF \E c \in Client : Cut(c) THEN "flag" ELSE "idle")
    /\ delta' = [delta EXCEPT ![j] = Zero]
    /\ UNCHANGED <<inb, late, xrayVars, needRestart, reqVars, history, ops, faults>>

\* One transaction: add, and disable whoever is now over the quota or expired.
\* Besides the clients with traffic xray reports some without.
AddTrafficByEmail(j) ==
    /\ jpc[j] = "client"
    /\ \E idle \in SUBSET {c \in Client : delta[j][c] = 0} :
          LET Added(c) == [row[c] EXCEPT !.used = @ + delta[j][c]]
              Cut(c) == c \notin idle /\ row[c].on /\ Over(Added(c))
          IN  /\ row' = [c \in Client |-> [Added(c) EXCEPT !.on = @ /\ ~Cut(c)]]
              /\ JobAt(j, IF \E c \in Client : Cut(c) THEN "flag" ELSE "idle")
    /\ delta' = [delta EXCEPT ![j] = Zero]
    /\ UNCHANGED <<inb, late, xrayVars, needRestart, reqVars, history, ops, faults>>

\* The transaction is rolled back, the bytes are gone.
AddTrafficByEmailFails(j) ==
    /\ jpc[j] = "client" /\ Fault
    /\ JobAt(j, "idle")
    /\ delta' = [delta EXCEPT ![j] = Zero]
    /\ lost' = Plus(lost, delta[j])
    /\ UNCHANGED <<inb, row, late, xrayVars, needRestart, reqVars, served, cleared, unnoticed>>

JobFlag(j) ==
    /\ jpc[j] = "flag"
    /\ JobAt(j, "idle")
    /\ needRestart' = TRUE /\ unnoticed' = FALSE
    /\ UNCHANGED <<inb, row, late, xrayVars, delta, reqVars, served, lost, cleared, ops, faults>>

-----------------------------------------------------------------------------
(* Requests of one statement; those that change the config then raise the   *)
(* flag (or, in the panel, restart at once).                                *)
At(r, l) == rpc' = [rpc EXCEPT ![r] = l]
Only == UNCHANGED <<late, xrayVars, needRestart, jobVars, kind, rin, todo, read, served, lost,
                    unnoticed>>
System == <<late, xrayVars, needRestart, jobVars, history>>

\* ResetTraffic: up = 0, down = 0, nothing else.
ResetTraffic(r, c) ==
    /\ rpc[r] = "idle" /\ Op
    /\ row' = [row EXCEPT ![c].used = 0]
    /\ cleared' = [cleared EXCEPT ![c] = @ + row[c].used]
    /\ Only /\ UNCHANGED <<inb, rpc>>

ResetTrafficMany(r) ==
    /\ rpc[r] = "idle" /\ Op
    /\ inb' = [inb EXCEPT !.used = 0]
    /\ Only /\ UNCHANGED <<row, cleared, rpc>>

\* Mutant: the limits are written and no restart is asked for.
SetLimitsSilently(r, c) ==
    /\ rpc[r] = "idle" /\ Op
    /\ \E l \in Plan, on \in BOOLEAN :
          row' = [row EXCEPT ![c].plan = l, ![c].on = on]
    /\ Only /\ UNCHANGED <<inb, cleared, rpc>>

\* Any of the three fields, with one UPDATE.
SetLimits(r, c) ==
    /\ rpc[r] = "idle" /\ Op
    /\ \E l \in Plan, on \in BOOLEAN :
          row' = [row EXCEPT ![c].plan = l, ![c].on = on]
    /\ At(r, "flag")
    /\ Only /\ UNCHANGED <<inb, cleared>>

SetEnableMany(r) ==
    /\ rpc[r] = "idle" /\ Op
    /\ \E on \in BOOLEAN : inb' = [inb EXCEPT !.on = on]
    /\ At(r, "flag")
    /\ Only /\ UNCHANGED <<row, cleared>>

\* CheckInboundJob, and the request that runs the same UPDATE.
DisableInvalidInbounds(r) ==
    /\ rpc[r] = "idle"
    /\ inb.on /\ Over(inb)
    /\ inb' = [inb EXCEPT !.on = FALSE]
    /\ At(r, "flag")
    /\ Only /\ UNCHANGED <<row, cleared, ops, faults>>

SetToNeedRestart(r) ==
    /\ rpc[r] = "flag"
    /\ At(r, "idle")
    /\ needRestart' = TRUE /\ unnoticed' = FALSE
    /\ UNCHANGED <<inb, row, late, xrayVars, jobVars, kind, rin, todo, read, served, lost, cleared,
                   ops, faults>>

-----------------------------------------------------------------------------
(* DisableExpired: a SELECT, then an UPDATE for each row.                   *)
DisableExpired(r) ==
    /\ rpc[r] = "idle" /\ Op
    /\ "expire" \in Kinds /\ late
    /\ LET S == {c \in Client : row[c].on /\ row[c].plan.expires}
       IN  S # {} /\ todo' = [todo EXCEPT ![r] = S]
    /\ At(r, "expire")
    /\ UNCHANGED <<inb, row, kind, rin, read, System>>

ExpireRow(r, c) ==
    /\ rpc[r] = "expire" /\ c \in todo[r]
    /\ row' = [row EXCEPT ![c].on = FALSE]
    /\ todo' = [todo EXCEPT ![r] = @ \ {c}]
    /\ At(r, IF todo[r] = {c} THEN "flag" ELSE "expire")
    /\ UNCHANGED <<inb, kind, rin, read, System, ops, faults>>

\* The handler answers 500 and raises no flag for the rows already written.
ExpireFails(r) ==
    /\ rpc[r] = "expire" /\ Fault
    /\ todo' = [todo EXCEPT ![r] = {}]
    /\ At(r, "idle")
    /\ unnoticed' = TRUE
    /\ UNCHANGED <<inb, row, kind, rin, read, late, xrayVars, needRestart, jobVars, served, lost,
                   cleared>>

-----------------------------------------------------------------------------
(* UpdateInbound and its callers.                                           *)

\* GetInbound, or the form the browser loaded: a copy of the whole row, some of
\* it changed.  "edit" may change limits and switch, "client" only the list of
\* clients, "inreset" the counts.
Copy(k, l, on) ==
    CASE k = "edit" -> [inb EXCEPT !.plan = l, !.on = on]
      [] k = "client" -> inb
      [] k = "inreset" -> [inb EXCEPT !.used = 0]

Load(r) ==
    /\ rpc[r] = "idle" /\ Op
    /\ \E k \in Kinds \ {"expire"}, l \in Plan, on \in BOOLEAN :
          /\ kind' = [kind EXCEPT ![r] = k]
          /\ rin' = [rin EXCEPT ![r] = Copy(k, l, on)]
    /\ At(r, "save")
    /\ UNCHANGED <<inb, row, todo, read, System>>

\* resetInboundTraffic raises no flag for what it writes.
Silently(r) == unnoticed' = (unnoticed \/ kind[r] = "inreset")

\* Save writes every column of the copy.
Save(r) ==
    /\ rpc[r] = "save"
    /\ inb' = rin[r]
    /\ todo' = [todo EXCEPT ![r] = Client]
    /\ At(r, "rows")
    /\ Silently(r)
    /\ UNCHANGED <<row, kind, rin, read, late, xrayVars, needRestart, jobVars, served, lost,
                   cleared, ops, faults>>

\* A finished handler's locals are gone.
Forget(r) ==
    /\ kind' = [kind EXCEPT ![r] = "edit"]
    /\ rin' = [rin EXCEPT ![r] = NoAccount]

\* The port or the (protocol, outbound) is taken, or the dry run refuses.
Refused(r) ==
    /\ rpc[r] = "save"
    /\ At(r, "idle") /\ Forget(r)
    /\ UNCHANGED <<inb, row, todo, read, System, ops, faults>>

\* EnsureRow for each client: First ...
EnsureRead(r, c) ==
    /\ rpc[r] = "rows" /\ c \in todo[r]
    /\ read' = [read EXCEPT ![r] = [d \in {c} |-> row[d].used]]
    /\ todo' = [todo EXCEPT ![r] = @ \ {c}]
    /\ At(r, "write")
    /\ UNCHANGED <<inb, row, kind, rin, System, ops, faults>>

\* ... then Save of every column, the counts it read included.
EnsureSave(r) ==
    /\ rpc[r] = "write"
    /\ row' = [c \in Client |->
                  IF c \in DOMAIN read[r]
                  THEN [used |-> read[r][c], plan |-> rin[r].plan, on |-> rin[r].on]
                  ELSE row[c]]
    /\ read' = [read EXCEPT ![r] = Nothing]
    /\ At(r, "rows")
    /\ Silently(r)
    /\ UNCHANGED <<inb, kind, rin, todo, late, xrayVars, needRestart, jobVars, served, lost,
                   cleared, ops, faults>>

\* Its error is ignored.
EnsureFails(r) ==
    /\ rpc[r] = "write" /\ Fault
    /\ read' = [read EXCEPT ![r] = Nothing]
    /\ At(r, "rows")
    /\ UNCHANGED <<inb, row, kind, rin, todo, System>>

\* AddClient and UpdateClient run EnsureRow once more for the client itself.
EnsureAgain(r, c) ==
    /\ rpc[r] = "rows" /\ todo[r] = {} /\ kind[r] = "client"
    /\ todo' = [todo EXCEPT ![r] = {c}]
    /\ kind' = [kind EXCEPT ![r] = "edit"]
    /\ UNCHANGED <<inb, row, rpc, rin, read, System, ops, faults>>

\* Mutant: the loop over the clients ends early.
UpdatedEarly(r) ==
    /\ rpc[r] = "rows" /\ kind[r] # "client"
    /\ At(r, IF kind[r] = "inreset" THEN "idle" ELSE "flag")
    /\ Forget(r)
    /\ UNCHANGED <<inb, row, todo, read, System, ops, faults>>

\* The handler raises the flag, unless it is resetInboundTraffic.
Updated(r) ==
    /\ rpc[r] = "rows" /\ todo[r] = {} /\ kind[r] # "client"
    /\ At(r, IF kind[r] = "inreset" THEN "idle" ELSE "flag")
    /\ Forget(r)
    /\ UNCHANGED <<inb, row, todo, read, System, ops, faults>>

-----------------------------------------------------------------------------
JobStep(j) ==
    \/ GetTraffic(j) \/ AddTraffic(j) \/ AddTrafficByEmail(j) \/ JobFlag(j)

\* What a handler does once its request has been accepted.
RequestStep(r) ==
    \/ SetToNeedRestart(r)
    \/ Save(r) \/ EnsureSave(r) \/ Updated(r)
    \/ \E c \in Client : ExpireRow(r, c) \/ EnsureRead(r, c) \/ EnsureAgain(r, c)

Arrival(r) ==
    \/ ResetTrafficMany(r) \/ SetEnableMany(r) \/ DisableExpired(r) \/ Load(r)
    \/ \E c \in Client : ResetTraffic(r, c) \/ SetLimits(r, c)

Failure ==
    \/ Restart \/ ReloadFails
    \/ \E j \in Job : GetTrafficFails(j) \/ AddTrafficByEmailFails(j)
    \/ \E r \in Request : ExpireFails(r) \/ EnsureFails(r)

Next ==
    \/ Expire \/ Reload \/ Failure
    \/ \E c \in Client : Serve(c)
    \/ \E j \in Job : JobStep(j)
    \/ \E r \in Request :
          Arrival(r) \/ RequestStep(r) \/ Refused(r) \/ DisableInvalidInbounds(r)

Spec == Init /\ [][Next]_vars

\* cron runs the traffic job and the restart job for ever; a handler returns.  (In a
\* panel that has taken a SIGHUP nobody runs the restart job any more: XrayControl's
\* FlagConsumed shows that, and this is a panel that has taken none.)
FairSpec ==
    /\ Spec
    /\ WF_vars(Reload)
    /\ \A j \in Job : WF_vars(JobStep(j))
    /\ \A r \in Request : WF_vars(RequestStep(r))

-----------------------------------------------------------------------------
(* Properties.                                                              *)

\* Fetched by traffic jobs and not yet added to the row of c.
Fetched(c) == Total([j \in Job |-> delta[j][c]], Job)

\* However jobs, edits, resets and restarts interleave, no byte is charged
\* twice: what the row holds and what is under way is at most what was served.
NoOverCount == \A c \in Client : row[c].used + stat[c] + Fetched(c) <= served[c]

\* Where no edit of the inbound runs, every byte served is in the row, under
\* way, cleared by a reset, or lost with a counter that was lost.
Conserved ==
    \A c \in Client :
        served[c] = row[c].used + stat[c] + Fetched(c) + cleared[c] + lost[c]

\* The request will raise the flag before it ends.
WillFlag(r) ==
    \/ rpc[r] \in {"flag", "expire"}
    \/ rpc[r] \in {"rows", "write"} /\ kind[r] # "inreset"

\* xray serves a client that the tables have disabled only while the flag is
\* up, or a job or handler is on its way to raise it.  Two things are excepted, until
\* the flag is next raised: a handler that changed the tables and told nobody, and a
\* tick that took the flag and failed (controller/inbound.go:41-46).
DisabledIsNoticed ==
    \/ active \subseteq Enabled
    \/ needRestart \/ unnoticed
    \/ \E j \in Job : jpc[j] = "flag"
    \/ \E r \in Request : WillFlag(r)

\* Bytes that xray has counted and that exhaust the quota, or come after the
\* expiry, disable the client, unless the limits change or the bytes are lost.
OverWith(c, bytes) == Over([row[c] EXCEPT !.used = @ + bytes])
QuotaIsEnforced ==
    \A c \in Client :
        (row[c].on /\ stat[c] > 0 /\ OverWith(c, stat[c]))
            ~> (~row[c].on \/ ~OverWith(c, stat[c] + Fetched(c)) \/ lost[c] > 0)

\* A disabled client is taken out of xray, or enabled again, unless nobody was told
\* or the tick that was told failed.
DisabledIsCutOff ==
    \A c \in Client :
        (c \in active /\ c \notin Enabled) ~> (c \notin active \/ c \in Enabled \/ unnoticed)

\* client_traffic.go:105-106: an edit of the inbound or of a client leaves the
\* counts of the clients alone.
EditKeepsCounts ==
    [][\A r \in Request : EnsureSave(r) => \A c \in Client : row'[c].used = row[c].used]_vars
=============================================================================
