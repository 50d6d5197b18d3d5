----------------------------- MODULE XrayControl -----------------------------
(***************************************************************************)
(* The control of the xray child process by the panel:                     *)
(*   web/service/xray.go    RestartXray, StopXray, the restart flag        *)
(*   xray/process.go        the Process object and the child it runs       *)
(*   web/job, controllers   the goroutines that call them                  *)
(*   main.go, web/web.go    the reload on SIGHUP                           *)
(*                                                                         *)
(* The database is the set of tables GetXrayConfig reads, one statement    *)
(* each, in the order of their numbers.  A goroutine is one running        *)
(* request handler or one running cron tick (cron starts every tick in a   *)
(* goroutine of its own, so ticks overlap); Main is the signal loop.       *)
(***************************************************************************)
EXTENDS Naturals

CONSTANTS
    Handler,     \* goroutines of requests and of cron ticks
    Main,        \* the goroutine of main.go's signal loop
    NTables,     \* the number of tables GetXrayConfig reads
    Required,    \* the tables whose read error makes GetXrayConfig fail
    Value,       \* contents a table can have
    Omitted,     \* what the config holds for a table that could not be read
    Proc,        \* xray.Process objects
    NoProc,      \* the nil pointer p
    NoOne,       \* the holder of a free mutex
    Timely,      \* TRUE: the 30 s check never overtakes a restart (see below)
    Reloads,     \* whether the operator ever reloads the panel
    MaxDisturb   \* bound on what the environment does unasked

Table == 1..NTables
Goroutine == Handler \cup {Main}
Config == [Table -> Value]
Blank == [t \in Table |-> Omitted]
Candidate == [Table -> Value \cup {Omitted}]

ASSUME ConstantsOK ==
    /\ NTables \in Nat \ {0}
    /\ Required \subseteq Table
    /\ Main \notin Handler
    /\ Omitted \notin Value
    /\ NoProc \notin Proc
    /\ NoOne \notin Goroutine
    /\ Value # {}
    /\ Timely \in BOOLEAN
    /\ Reloads \in BOOLEAN
    /\ MaxDisturb \in Nat

VARIABLES
    tbl,          \* the rows in the database
    needRestart,  \* isNeedXrayRestart
    lock,         \* the holder of the package mutex of xray.go
    p,            \* the current Process object
    pst,          \* pst[q]: how far the child of Process q is
    pcfg,         \* the config p was made with (of no other Process is it read)
    missed,       \* Processes whose finalizer ran before their child was forked
    pc, job,      \* where each goroutine is, and what for
    rd, cand,     \* tables read so far, and the config built from them
    checkTime,    \* CheckXrayRunningJob.checkTime, capped at MissesToFlag
    server,       \* "up", or "starting" while a reload runs startTask
    gen,          \* the Server whose cron runs
    webServer,    \* the Server that global.GetWebServer returns
    tickOn,       \* the Server whose cron holds the restart function
    disturb,      \* environment steps taken so far
    unnoticed     \* history: a change of the tables nobody will act upon

procVars == <<p, pst, pcfg, missed>>
goVars == <<pc, job, rd, cand>>
serverVars == <<checkTime, server, gen, webServer, tickOn>>
vars == <<tbl, needRestart, lock, procVars, goVars, serverVars, disturb, unnoticed>>

ProcState == {"unused", "spawning", "booting", "serving", "term", "killed", "gone"}
PC == {"idle", "flag", "lock", "halt", "halting", "swap", "read", "stopping", "start"}

\* Callers that leave RestartXray's error to the next tick, drop it, or stop
\* xray before they restart it.
RestartJob == {"tick", "panel", "force", "boot"}
StopJob == {"stop", "swap", "reload"}
Job == RestartJob \cup StopJob \cup {"api"}
MissesToFlag == 2

TypeOK ==
    /\ tbl \in Config
    /\ needRestart \in BOOLEAN
    /\ lock \in Goroutine \cup {NoOne}
    /\ p \in Proc \cup {NoProc}
    /\ pst \in [Proc -> ProcState]
    /\ pcfg \in Candidate
    /\ missed \in SUBSET Proc
    /\ pc \in [Goroutine -> PC]
    /\ job \in [Goroutine -> Job]
    /\ rd \in [Goroutine -> 0..NTables]
    /\ cand \in [Goroutine -> Candidate]
    /\ checkTime \in 0..MissesToFlag
    /\ server \in {"up", "starting"}
    /\ gen \in Nat /\ webServer \in Nat /\ tickOn \in Nat
    /\ disturb \in 0..MaxDisturb
    /\ unnoticed \in BOOLEAN

-----------------------------------------------------------------------------
(* process.IsRunning: cmd.Process is set and ProcessState is still nil. It  *)
(* is false between the return of Start and the moment the goroutine that   *)
(* Start left behind has forked the child ("spawning").                     *)
IsRunning(q) == pst[q] \in {"booting", "serving", "term", "killed"}
IsXrayRunning == p # NoProc /\ IsRunning(p)

\* A child holds the listening ports from the time it serves until it is
\* reaped; one told to stop while it boots may hold them or not, so it counts.
HoldsPorts(q) == pst[q] \in {"serving", "term", "killed"}

\* A child that is alive, or will be, and has not been told to stop.
Live(q) == pst[q] \in {"spawning", "booting", "serving"}

\* Inside RestartXray, with the mutex held.
Restarting(g) == pc[g] \in {"read", "stopping", "start"}

\* Callers that restart because the tables changed.
NoticedJob == {"tick", "panel"}

\* A restart some goroutine is committed to because the tables changed.
Notice ==
    \/ needRestart
    \/ \E g \in Goroutine : pc[g] = "flag"
    \/ \E g \in Goroutine : pc[g] = "lock" /\ job[g] \in NoticedJob

\* Everything the goroutine has read so far is still what the table holds.
Fresh(g) == \A t \in Table : cand[g][t] \in {tbl[t], Omitted}

Quiet(g) == pc[g] = "idle" /\ server = "up"
Disturb == disturb < MaxDisturb /\ disturb' = disturb + 1

Init ==
    \E c \in Config :
        /\ tbl = c
        /\ needRestart = FALSE
        /\ lock = NoOne
        /\ p = NoProc
        /\ pst = [q \in Proc |-> "unused"]
        /\ pcfg = Blank
        /\ missed = {}
        /\ pc = [g \in Goroutine |-> IF g = Main THEN "lock" ELSE "idle"]
        /\ job = [g \in Goroutine |-> IF g = Main THEN "boot" ELSE "api"]
        /\ rd = [g \in Goroutine |-> 0]
        /\ cand = [g \in Goroutine |-> Blank]
        /\ checkTime = 0
        /\ server = "starting"
        /\ gen = 0 /\ webServer = 0 /\ tickOn = 0
        /\ disturb = 0
        /\ unnoticed = FALSE

-----------------------------------------------------------------------------
(* Where a goroutine goes next; a call that returns leaves no locals.       *)
Goto(g, l) == pc' = [pc EXCEPT ![g] = l]
Begin(g, l, j) == Goto(g, l) /\ job' = [job EXCEPT ![g] = j] /\ UNCHANGED <<rd, cand>>
Leave(g, l) ==
    /\ lock' = NoOne
    /\ Goto(g, l)
    /\ rd' = [rd EXCEPT ![g] = 0]
    /\ cand' = [cand EXCEPT ![g] = Blank]
    /\ UNCHANGED job

Write == \E t \in Table, v \in Value : tbl[t] # v /\ tbl' = [tbl EXCEPT ![t] = v]

-----------------------------------------------------------------------------
(* The callers.                                                             *)

\* Mutant: a handler that forgets SetToNeedRestart.
ForgetsFlag(g) ==
    /\ Quiet(g) /\ Disturb
    /\ Write
    /\ Begin(g, "idle", "api")
    /\ UNCHANGED <<needRestart, lock, procVars, serverVars, unnoticed>>

\* A handler of /api/v1, ClientService, or a job that disables what is over
\* its quota: write, then raise the flag.
WriteThenFlag(g) ==
    /\ Quiet(g) /\ Disturb
    /\ Write
    /\ Begin(g, "flag", "api")
    /\ UNCHANGED <<needRestart, lock, procVars, serverVars, unnoticed>>

SetToNeedRestart(g) ==
    /\ pc[g] = "flag"
    /\ needRestart' = TRUE
    /\ Begin(g, "idle", "api")
    /\ UNCHANGED <<tbl, lock, procVars, serverVars, disturb, unnoticed>>

\* The panel's own edits restart at once, and raise the flag if that fails.
PanelWrite(g) ==
    /\ Quiet(g) /\ Disturb
    /\ Write
    /\ Begin(g, "lock", "panel")
    /\ UNCHANGED <<needRestart, lock, procVars, serverVars, unnoticed>>

\* Handlers that change what GetXrayConfig reads and tell nobody.
SilentWrite(g) ==
    /\ Quiet(g) /\ Disturb
    /\ Write
    /\ unnoticed' = TRUE
    /\ UNCHANGED <<needRestart, lock, procVars, goVars, serverVars>>

\* The 10 s tick: only the cron of the running server fires.
Tick(g) ==
    /\ pc[g] = "idle" /\ tickOn = gen
    /\ needRestart
    /\ needRestart' = FALSE
    /\ Begin(g, "lock", "tick")
    /\ UNCHANGED <<tbl, lock, procVars, serverVars, disturb, unnoticed>>

ForceRestart(g) ==
    /\ Quiet(g) /\ Disturb
    /\ Begin(g, "lock", "force")
    /\ UNCHANGED <<tbl, needRestart, lock, procVars, serverVars, unnoticed>>

StopXray(g) ==
    /\ Quiet(g) /\ Disturb
    /\ Begin(g, "lock", "stop")
    /\ UNCHANGED <<tbl, needRestart, lock, procVars, serverVars, unnoticed>>

UpdateXray(g) ==
    /\ Quiet(g) /\ Disturb
    /\ Begin(g, "lock", "swap")
    /\ UNCHANGED <<tbl, needRestart, lock, procVars, serverVars, unnoticed>>

\* The binary is replaced with the mutex free; the deferred restart follows.
Swapped(g) ==
    /\ pc[g] = "swap"
    /\ Begin(g, "lock", "force")
    /\ UNCHANGED <<tbl, needRestart, lock, procVars, serverVars, disturb, unnoticed>>

\* SIGHUP: Stop of the old Server starts with StopXray.
Reload ==
    /\ Reloads /\ Quiet(Main) /\ Disturb
    /\ Begin(Main, "lock", "reload")
    /\ UNCHANGED <<tbl, needRestart, lock, procVars, serverVars, unnoticed>>

\* The old cron stops, a new Server starts.  Its controllers register the
\* restart function on the Server that global.GetWebServer still returns.
NewServer ==
    /\ pc[Main] = "swap" /\ job[Main] = "reload"
    /\ Begin(Main, "lock", "boot")
    /\ server' = "starting"
    /\ gen' = gen + 1
    /\ tickOn' = webServer
    /\ UNCHANGED <<tbl, needRestart, lock, procVars, checkTime, webServer, disturb, unnoticed>>

\* startTask goes on to schedule the 30 s check, main.go publishes the Server.
Booted == server' = "up" /\ webServer' = gen /\ checkTime' = 0 /\ UNCHANGED <<gen, tickOn>>
Ended(g) == IF job[g] = "boot" THEN Booted ELSE UNCHANGED serverVars

\* Mutant: the count of misses is not kept from one check to the next.
ForgetsMisses ==
    /\ server = "up"
    /\ checkTime' = IF IsXrayRunning THEN 0 ELSE 1
    /\ UNCHANGED <<tbl, needRestart, lock, procVars, goVars, server, gen, webServer,
                   tickOn, disturb, unnoticed>>

CheckXrayRunning ==
    /\ server = "up"
    /\ IF IsXrayRunning
       THEN checkTime' = 0 /\ UNCHANGED needRestart
       ELSE /\ Timely => /\ lock = NoOne /\ ~needRestart
                         /\ \A g \in Goroutine : pc[g] # "lock"
                         /\ \A q \in Proc : pst[q] # "spawning"
            /\ checkTime' = IF checkTime < MissesToFlag THEN checkTime + 1 ELSE checkTime
            /\ needRestart' = (needRestart \/ checkTime' = MissesToFlag)
    /\ UNCHANGED <<tbl, lock, procVars, goVars, server, gen, webServer, tickOn,
                   disturb, unnoticed>>

-----------------------------------------------------------------------------
(* StopXray and RestartXray, under the mutex.                               *)

Acquire(g) ==
    /\ pc[g] = "lock" /\ lock = NoOne
    /\ lock' = g
    /\ Goto(g, IF job[g] \in StopJob THEN "halt" ELSE "read")
    /\ UNCHANGED <<tbl, needRestart, procVars, job, rd, cand, serverVars, disturb, unnoticed>>

\* Signal(SIGTERM) to the current child.
Terminate == pst' = [pst EXCEPT ![p] = IF @ = "killed" THEN @ ELSE "term"]

\* The 5 s are over: Kill, and return without waiting for the child to be reaped.
Kill == pst' = [pst EXCEPT ![p] = "killed"]

AfterHalt(g) == Leave(g, IF job[g] = "stop" THEN "idle" ELSE "swap")

Halt(g) ==
    /\ pc[g] = "halt"
    /\ IF IsXrayRunning
       THEN /\ Terminate /\ Goto(g, "halting")
            /\ UNCHANGED <<lock, job, rd, cand>>
       ELSE AfterHalt(g) /\ UNCHANGED pst
    /\ UNCHANGED <<tbl, needRestart, p, pcfg, missed, serverVars, disturb, unnoticed>>

HaltGone(g) ==
    /\ pc[g] = "halting" /\ ~IsRunning(p)
    /\ AfterHalt(g)
    /\ UNCHANGED <<tbl, needRestart, procVars, serverVars, disturb, unnoticed>>

HaltDeadline(g) ==
    /\ pc[g] = "halting" /\ IsRunning(p)
    /\ Kill
    /\ AfterHalt(g)
    /\ UNCHANGED <<tbl, needRestart, p, pcfg, missed, serverVars, disturb, unnoticed>>

\* GetXrayConfig, one statement at a time; other handlers write in between.
ReadTable(g) ==
    /\ pc[g] = "read" /\ rd[g] < NTables
    /\ rd' = [rd EXCEPT ![g] = @ + 1]
    /\ cand' = [cand EXCEPT ![g][rd[g] + 1] = tbl[rd[g] + 1]]
    /\ UNCHANGED <<tbl, needRestart, lock, procVars, pc, job, serverVars, disturb, unnoticed>>

\* Mutant: an error also skips the table after the one that failed.
SkipsTwo(g) ==
    /\ pc[g] = "read" /\ rd[g] < NTables /\ rd[g] + 1 \notin Required
    /\ Disturb
    /\ rd' = [rd EXCEPT ![g] = @ + 2]
    /\ UNCHANGED <<tbl, needRestart, lock, procVars, pc, job, cand, serverVars, unnoticed>>

\* Disabled clients, block rules and outbounds: an error leaves them out.
ReadSkipped(g) ==
    /\ pc[g] = "read" /\ rd[g] < NTables /\ rd[g] + 1 \notin Required
    /\ Disturb
    /\ rd' = [rd EXCEPT ![g] = @ + 1]
    /\ UNCHANGED <<tbl, needRestart, lock, procVars, pc, job, cand, serverVars, unnoticed>>

\* Only the panel's own edits do something about an error of RestartXray.
Failed(g) == Leave(g, IF job[g] = "panel" THEN "flag" ELSE "idle")

\* The template or the inbounds: RestartXray returns the error.
ReadFails(g) ==
    /\ pc[g] = "read" /\ rd[g] < NTables /\ rd[g] + 1 \in Required
    /\ Disturb
    /\ Failed(g)
    /\ Ended(g)
    /\ unnoticed' = (unnoticed \/ job[g] = "tick")
    /\ UNCHANGED <<tbl, needRestart, procVars>>

\* What the restart leaves behind: nothing unnoticed when the config is the
\* database's, something when a table was left out of it.
Settled(g) ==
    unnoticed' = IF cand[g] = tbl THEN FALSE
                 ELSE unnoticed \/ \E t \in Table : cand[g][t] = Omitted

Complete(g) == pc[g] = "read" /\ rd[g] = NTables
Unchanged(g) == job[g] \notin {"force", "boot"} /\ pcfg = cand[g]

ConfigUnchanged(g) ==
    /\ Complete(g) /\ IsXrayRunning /\ Unchanged(g)
    /\ Leave(g, "idle")
    /\ Settled(g)
    /\ UNCHANGED <<tbl, needRestart, procVars, serverVars, disturb>>

\* Mutant: RestartXray stops the child first and reads the database after.
BounceBeforeRead(g) ==
    /\ pc[g] = "read" /\ rd[g] = 0 /\ IsXrayRunning
    /\ Terminate
    /\ UNCHANGED <<tbl, needRestart, lock, p, pcfg, missed, goVars,
                   serverVars, disturb, unnoticed>>

BounceRunning(g) ==
    /\ Complete(g) /\ IsXrayRunning /\ ~Unchanged(g)
    /\ Terminate
    /\ Goto(g, "stopping")
    /\ UNCHANGED <<tbl, needRestart, lock, p, pcfg, missed, job, rd, cand,
                   serverVars, disturb, unnoticed>>

StopGone(g) ==
    /\ pc[g] = "stopping" /\ ~IsRunning(p)
    /\ Goto(g, "start")
    /\ UNCHANGED <<tbl, needRestart, lock, procVars, job, rd, cand, serverVars,
                   disturb, unnoticed>>

StopDeadline(g) ==
    /\ pc[g] = "stopping" /\ IsRunning(p)
    /\ Kill
    /\ Goto(g, "start")
    /\ UNCHANGED <<tbl, needRestart, lock, p, pcfg, missed, job, rd, cand,
                   serverVars, disturb, unnoticed>>

StartFresh(g) ==
    /\ Complete(g) /\ ~IsXrayRunning
    /\ Goto(g, "start")
    /\ UNCHANGED <<tbl, needRestart, lock, procVars, job, rd, cand, serverVars,
                   disturb, unnoticed>>

\* A new Process object; objects without a child are interchangeable.
NewProcess(g, q, s) ==
    /\ pc[g] = "start" /\ pst[q] \in {"unused", "gone"}
    /\ p' = q
    /\ pst' = [pst EXCEPT ![q] = s]
    /\ pcfg' = cand[g]
    /\ missed' = missed \ {q}
    /\ Ended(g)

\* Mutant: the flag is cleared when the restart is done, not when it begins.
StartClearsFlag(g) ==
    /\ \E q \in Proc : NewProcess(g, q, "spawning")
    /\ Leave(g, "idle")
    /\ Settled(g)
    /\ needRestart' = FALSE
    /\ UNCHANGED <<tbl, disturb>>

\* Start returns before the goroutine it leaves behind has forked the child.
Start(g) ==
    /\ \E q \in Proc : NewProcess(g, q, "spawning")
    /\ Leave(g, "idle")
    /\ Settled(g)
    /\ UNCHANGED <<tbl, needRestart, disturb>>

\* The config cannot be written, or preflightBinary refuses the binary.
StartFails(g) ==
    /\ Disturb
    /\ \E q \in Proc : NewProcess(g, q, "gone")
    /\ Failed(g)
    /\ UNCHANGED <<tbl, needRestart, unnoticed>>

-----------------------------------------------------------------------------
(* The children, and the garbage collector.                                 *)
Child(q, s) ==
    /\ pst' = [pst EXCEPT ![q] = s]
    /\ UNCHANGED <<tbl, needRestart, lock, p, pcfg, missed, goVars, serverVars, unnoticed>>

Spawn(q) == pst[q] = "spawning" /\ Child(q, "booting") /\ UNCHANGED disturb

PortsFree(q) == \A r \in Proc \ {q} : ~HoldsPorts(r)
Serve(q) == pst[q] = "booting" /\ PortsFree(q) /\ Child(q, "serving") /\ UNCHANGED disturb
BindConflict(q) == pst[q] = "booting" /\ ~PortsFree(q) /\ Child(q, "gone") /\ UNCHANGED disturb

\* The child crashes, or fork or exec fails.
Crash(q) == Live(q) /\ Child(q, "gone") /\ Disturb

Exit(q) == pst[q] \in {"term", "killed"} /\ Child(q, "gone") /\ UNCHANGED disturb

\* Mutant: no finalizer.
NoFinalizer(q) == FALSE /\ q # p /\ UNCHANGED vars

\* NewProcess sets a finalizer that calls Stop, once, when nothing refers to
\* the Process any more; Stop does nothing to a child not yet forked.
Finalize(q) ==
    /\ q # p
    /\ IF IsRunning(q)
       THEN /\ q \notin missed /\ pst[q] # "killed"
            /\ pst' = [pst EXCEPT ![q] = "killed"] /\ UNCHANGED missed
       ELSE /\ pst[q] = "spawning" /\ ~Timely
            /\ missed' = missed \cup {q} /\ UNCHANGED pst
    /\ UNCHANGED <<tbl, needRestart, lock, p, pcfg, goVars, serverVars, disturb, unnoticed>>

-----------------------------------------------------------------------------
Request(g) ==
    \/ WriteThenFlag(g) \/ PanelWrite(g) \/ SilentWrite(g)
    \/ ForceRestart(g) \/ StopXray(g) \/ UpdateXray(g)

Step(g) ==
    \/ SetToNeedRestart(g) \/ Swapped(g)
    \/ Halt(g) \/ HaltGone(g) \/ HaltDeadline(g)
    \/ ReadTable(g) \/ ReadSkipped(g) \/ ReadFails(g)
    \/ ConfigUnchanged(g) \/ BounceRunning(g) \/ StopGone(g) \/ StopDeadline(g)
    \/ StartFresh(g) \/ Start(g) \/ StartFails(g)

ChildStep(q) ==
    Spawn(q) \/ Serve(q) \/ BindConflict(q) \/ Crash(q) \/ Exit(q) \/ Finalize(q)

Next ==
    \/ \E g \in Handler : Request(g) \/ Tick(g)
    \/ \E g \in Goroutine : Acquire(g) \/ Step(g)
    \/ Reload \/ NewServer \/ CheckXrayRunning
    \/ \E q \in Proc : ChildStep(q)

Spec == Init /\ [][Next]_vars

-----------------------------------------------------------------------------
(* Safety.                                                                  *)

\* No lost wake-up: while the current child runs a config other than the
\* database's, some goroutine is still committed to a restart for it, in spite
\* of the compare-and-swap of the flag, the reads made table by table and the
\* writes in between (SetToNeedRestart, IsNeedRestartAndSetFalse, RestartXray).
NoLostWakeup ==
    p # NoProc /\ Live(p) /\ pcfg # tbl =>
        \/ Notice \/ unnoticed
        \/ \E g \in Goroutine : Restarting(g) /\ job[g] \in NoticedJob

\* A restart that read a table before it changed is followed by another one.
StaleReadIsNoticed ==
    \A g \in Goroutine : Restarting(g) => Fresh(g) \/ Notice \/ unnoticed

\* RestartXray does not touch the running child before it has read every
\* table, so an error of GetXrayConfig leaves the child serving.
StoppedOnlyWithAReplacement ==
    [][\A q \in Proc :
          q = p /\ pst[q] \in {"booting", "serving"} /\ pst'[q] \in {"term", "killed"} =>
              \E g \in Goroutine :
                  lock = g /\ (rd[g] = NTables \/ job[g] \in StopJob)]_vars

-----------------------------------------------------------------------------
(* Liveness: goroutines run, children start and exit, the timers of cron     *)
(* fire, and a Go mutex does not starve a waiter (its starvation mode).      *)
Fairness ==
    /\ \A g \in Goroutine : WF_vars(Step(g)) /\ SF_vars(Acquire(g))
    /\ WF_vars(\E g \in Handler : Tick(g))
    /\ WF_vars(NewServer) /\ WF_vars(CheckXrayRunning)
    /\ \A q \in Proc : WF_vars(ChildStep(q))

FairSpec == Spec /\ Fairness

\* Once nobody disturbs it the panel ends up, and stays, with xray serving what
\* the database holds, unless a change went unnoticed: after crashes, failed
\* starts, stops, overlapping restarts and port conflicts.
Converges ==
    <>[](unnoticed \/ (p # NoProc /\ pst[p] = "serving" /\ pcfg = tbl))

\* A child the panel no longer points to does not stay alive.
OrphansReaped == \A q \in Proc : Live(q) /\ q # p ~> ~Live(q) \/ q = p

\* inbound.go and api_panel.go leave failed restarts to the next cron tick:
\* a raised flag is consumed.
FlagConsumed == needRestart ~> ~needRestart
=============================================================================
