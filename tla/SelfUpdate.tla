----------------------------- MODULE SelfUpdate ------------------------------
(***************************************************************************)
(* The panel's update of itself:                                           *)
(*   web/service/update.go          ApplyLatest and its progress           *)
(*   web/controller/api_panel.go, api/v1.go   one UpdateService each       *)
(*   update.sh                      the script it hands the work to        *)
(*   main.go                        SIGHUP builds new controllers          *)
(*                                                                         *)
(* ApplyLatest downloads update.sh next to the binary and starts it in a   *)
(* unit of its own (an updater); the script fetches and verifies the       *)
(* release, stops the panel, swaps the files and starts it.  Releases are  *)
(* abstracted to whether the files in place are complete.                  *)
(***************************************************************************)
EXTENDS Naturals, FiniteSets

CONSTANTS
    Service,      \* the UpdateServices of the running Server
    Detached,     \* stands for the one of a Server that has been replaced
    Request,      \* calls of ApplyLatest
    Updater,      \* the transient units
    MaxReloads,   \* bound on the reloads
    DiskFull      \* whether copying the files can fail

VARIABLES
    up,           \* the panel's process runs
    lock,         \* applyMu: the services whose mutex is held
    progress,     \* progress.State of each service
    pc, svc,      \* a request: where it is, its service
    script,       \* .update-dispatch.sh
    upc,          \* an updater: where it is
    files,        \* the binary and its companions in the install directory
    sent,         \* history: services that have dispatched since the panel started
    reloads

memory == <<lock, progress, pc, svc, sent>>
vars == <<up, memory, script, upc, files, reloads>>

ApplyState == {"idle", "downloading", "restarting", "error"}
Working == {"meta", "create", "fill", "dispatch"}

TypeOK ==
    /\ up \in BOOLEAN
    /\ lock \subseteq Service
    /\ progress \in [Service -> ApplyState]
    /\ pc \in [Request -> {"idle", "failing"} \cup Working]
    /\ svc \in [Request -> Service \cup {Detached}]
    /\ script \in {"absent", "partial", "whole"}
    /\ upc \in [Updater -> {"unused", "fetch", "stop", "swap", "start", "ended"}]
    /\ files \in {"complete", "torn"}
    /\ sent \subseteq lock
    /\ reloads \in 0..MaxReloads

Forgotten ==
    /\ lock' = {} /\ sent' = {}
    /\ progress' = [s \in Service |-> "idle"]

Init ==
    /\ up = TRUE
    /\ lock = {} /\ sent = {}
    /\ progress = [s \in Service |-> "idle"]
    /\ pc = [r \in Request |-> "idle"]
    /\ svc = [r \in Request |-> Detached]
    /\ script = "absent"
    /\ upc = [u \in Updater |-> "unused"]
    /\ files = "complete"
    /\ reloads = 0

At(r, from, to) == pc[r] = from /\ pc' = [pc EXCEPT ![r] = to]

\* setProgress, touchProgress, failProgress on the request's own service.
Report(r, state) ==
    progress' = [s \in Service |-> IF s = svc[r] THEN state ELSE progress[s]]

-----------------------------------------------------------------------------
(* ApplyLatest                                                              *)

\* TryLock, then the first setProgress.  A call that finds the mutex held is
\* refused and changes nothing.
TryLock(r, s) ==
    /\ up
    /\ At(r, "idle", "meta")
    /\ s \notin lock
    /\ lock' = lock \cup {s}
    /\ svc' = [svc EXCEPT ![r] = s]
    /\ progress' = [progress EXCEPT ![s] = "downloading"]
    /\ UNCHANGED <<up, script, upc, files, sent, reloads>>

\* fetchRelease finds the tag; touchProgress before the download.
FetchRelease(r) ==
    /\ At(r, "meta", "create")
    /\ Report(r, "downloading")
    /\ UNCHANGED <<up, lock, svc, script, upc, files, sent, reloads>>

\* downloadFile: os.Create truncates the script, io.Copy fills it.
CreateScript(r) ==
    /\ At(r, "create", "fill")
    /\ script' = "partial"
    /\ UNCHANGED <<up, lock, progress, svc, upc, files, sent, reloads>>

FillScript(r) ==
    /\ At(r, "fill", "dispatch")
    /\ script' = "whole"
    /\ Report(r, "restarting")
    /\ UNCHANGED <<up, lock, svc, upc, files, sent, reloads>>

\* Mutant: the mutex is released when ApplyLatest returns.
DispatchAndUnlock(r, u) ==
    /\ At(r, "dispatch", "idle")
    /\ upc[u] = "unused"
    /\ upc' = [upc EXCEPT ![u] = "fetch"]
    /\ lock' = lock \ {svc[r]}
    /\ sent' = sent \cup ({svc[r]} \cap Service)
    /\ UNCHANGED <<up, progress, svc, script, files, reloads>>

\* systemd-run returns at once; the mutex stays held until the process dies.
Dispatch(r, u) ==
    /\ At(r, "dispatch", "idle")
    /\ upc[u] = "unused"
    /\ upc' = [upc EXCEPT ![u] = "fetch"]
    /\ sent' = sent \cup ({svc[r]} \cap Service)
    /\ UNCHANGED <<up, lock, progress, svc, script, files, reloads>>

\* Any step may fail: unlock() first, failProgress after it.
Unlock(r) ==
    /\ pc[r] \in Working
    /\ pc' = [pc EXCEPT ![r] = "failing"]
    /\ lock' = lock \ {svc[r]}
    /\ UNCHANGED <<up, progress, svc, script, upc, files, sent, reloads>>

FailProgress(r) ==
    /\ At(r, "failing", "idle")
    /\ Report(r, "error")
    /\ UNCHANGED <<up, lock, svc, script, upc, files, sent, reloads>>

\* SIGHUP: the new Server's controllers embed new UpdateServices; requests of
\* the old one go on with theirs.
Reload ==
    /\ up /\ reloads < MaxReloads
    /\ reloads' = reloads + 1
    /\ Forgotten
    /\ svc' = [r \in Request |-> Detached]
    /\ UNCHANGED <<up, pc, script, upc, files>>

-----------------------------------------------------------------------------
(* update.sh.  bash reads the script as it goes: at the end of a partial one *)
(* it just ends.                                                            *)

Reads(u, from, to) ==
    /\ upc[u] = from
    /\ upc' = [upc EXCEPT ![u] = to]

\* The release is there, its checksum is right and it unpacks.
Verified(u) ==
    /\ Reads(u, "fetch", "stop")
    /\ UNCHANGED <<up, memory, script, files, reloads>>

\* Mutant: the panel is stopped before the release is verified.
GivesUpLate(u) ==
    /\ upc[u] \in {"fetch", "swap"}
    /\ upc' = [upc EXCEPT ![u] = "ended"]
    /\ UNCHANGED <<up, memory, script, files, reloads>>

\* Nothing to do, no network, or a checksum that does not match.
GivesUp(u) ==
    /\ Reads(u, "fetch", "ended")
    /\ UNCHANGED <<up, memory, script, files, reloads>>

CutShort(u) ==
    /\ script # "whole"
    /\ upc[u] \in {"fetch", "stop", "swap", "start"}
    /\ upc' = [upc EXCEPT ![u] = "ended"]
    /\ UNCHANGED <<up, memory, script, files, reloads>>

\* The process and all it remembers are gone.
Killed ==
    /\ up' = FALSE
    /\ Forgotten
    /\ pc' = [r \in Request |-> "idle"]
    /\ svc' = [r \in Request |-> Detached]

\* systemctl stop
StopPanel(u) ==
    /\ Reads(u, "stop", "swap")
    /\ Killed
    /\ UNCHANGED <<script, files, reloads>>

\* install, rm -rf, cp: file by file, then the unit file.
Swap(u) ==
    /\ Reads(u, "swap", "start")
    /\ files' = "complete"
    /\ UNCHANGED <<up, memory, script, reloads>>

\* set -e: the script ends at the copy that fails.
SwapFails(u) ==
    /\ DiskFull
    /\ Reads(u, "swap", "ended")
    /\ files' = "torn"
    /\ UNCHANGED <<up, memory, script, reloads>>

\* systemctl start does nothing if the panel runs.
StartPanel(u) ==
    /\ Reads(u, "start", "ended")
    /\ up' = TRUE
    /\ UNCHANGED <<memory, script, files, reloads>>

\* The process ends at once: its Server does not start.
StartInVain(u) ==
    /\ ~up
    /\ Reads(u, "start", "ended")
    /\ UNCHANGED <<up, memory, script, files, reloads>>

-----------------------------------------------------------------------------

Work(r) ==
    \/ FetchRelease(r) \/ CreateScript(r) \/ FillScript(r)
    \/ \E u \in Updater : Dispatch(r, u)
    \/ Unlock(r) \/ FailProgress(r)

Script(u) ==
    \/ Verified(u) \/ GivesUp(u) \/ CutShort(u)
    \/ Swap(u) \/ SwapFails(u)

\* SIGHUP, and no Server starts.
ReloadEnds ==
    /\ up /\ reloads < MaxReloads
    /\ reloads' = reloads + 1
    /\ Killed
    /\ UNCHANGED <<script, upc, files>>

Next ==
    \/ \E r \in Request : Work(r) \/ \E s \in Service : TryLock(r, s)
    \/ Reload
    \/ \E u \in Updater : Script(u) \/ StopPanel(u) \/ StartPanel(u)

Spec == Init /\ [][Next]_vars

-----------------------------------------------------------------------------

Holds(r, s) == svc[r] = s /\ pc[r] \in Working
Active == {u \in Updater : upc[u] \in {"fetch", "stop", "swap", "start"}}

\* update.go:71, 185-186: an update that ends without an updater on its way
\* gives the mutex back, on every path; of the requests on one service at most
\* one is at work, and none while its updater is about to stop the panel.
LockGuardsUpdates ==
    \A s \in Service :
        /\ s \in lock \ sent => \E r \in Request : Holds(r, s)
        /\ Cardinality({r \in Request : Holds(r, s)}) <= 1
        /\ s \in sent => \A r \in Request : ~Holds(r, s)

=============================================================================
