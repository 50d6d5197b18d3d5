-------------------------- MODULE XrayControlProofs --------------------------
(* Proofs that XrayControl loses no wake-up, for any number of handlers,     *)
(* tables, contents and Process objects.                                     *)
EXTENDS XrayControl, TLAPS

\* The part of a goroutine's program that RestartXray and StopXray protect.
Inside(g) == pc[g] \in {"halt", "halting", "read", "stopping", "start"}

MutualExclusion == \A g \in Goroutine : Inside(g) => lock = g

\* A goroutine outside RestartXray has read nothing yet.
CleanLocals == \A g \in Goroutine : ~Restarting(g) => cand[g] = Blank

\* What NoLostWakeup asks for when the child is out of date.
Covered ==
    \/ Notice \/ unnoticed
    \/ \E g \in Goroutine : Restarting(g) /\ job[g] \in NoticedJob

IInv ==
    TypeOK /\ MutualExclusion /\ CleanLocals /\ StaleReadIsNoticed /\ NoLostWakeup

-----------------------------------------------------------------------------
LEMMA TypeInit == Init => TypeOK
<1> SUFFICES ASSUME NEW c \in Config,
                    Init!(c)
             PROVE  TypeOK
  BY DEF Init
<1>1. Blank \in Candidate
  BY DEF Blank, Candidate
<1>2. /\ c \in [Table -> Value]
      /\ 0 \in 0..NTables /\ 0 \in 0..MaxDisturb
  BY ConstantsOK DEF ConstantsOK, Config
<1>3. pc \in [Goroutine -> PC] /\ job \in [Goroutine -> Job]
  BY DEF PC, Job, RestartJob, StopJob
<1>4. pst \in [Proc -> ProcState]
  BY DEF ProcState
<1>5. rd \in [Goroutine -> 0..NTables] /\ cand \in [Goroutine -> Candidate]
  BY <1>1, <1>2
<1>6. checkTime \in 0..MissesToFlag /\ gen \in Nat /\ webServer \in Nat /\ tickOn \in Nat
  BY DEF MissesToFlag
<1>7. needRestart \in BOOLEAN /\ unnoticed \in BOOLEAN
  OBVIOUS
<1>8. disturb \in 0..MaxDisturb /\ pcfg \in Candidate /\ server \in {"up", "starting"}
  BY <1>1, <1>2
<1>9. lock \in Goroutine \cup {NoOne} /\ p \in Proc \cup {NoProc} /\ missed \in SUBSET Proc
  OBVIOUS
<1> QED
  BY <1>3, <1>4, <1>5, <1>6, <1>7, <1>8, <1>9 DEF TypeOK

LEMMA TypeDisturb == ASSUME TypeOK, Disturb PROVE disturb' \in 0..MaxDisturb
  BY ConstantsOK DEF ConstantsOK, TypeOK, Disturb

LEMMA TypeBegin ==
  ASSUME TypeOK, NEW g \in Goroutine, NEW l \in PC, NEW j \in Job, Begin(g, l, j)
  PROVE  /\ pc' \in [Goroutine -> PC]
         /\ job' \in [Goroutine -> Job]
         /\ rd' \in [Goroutine -> 0..NTables]
         /\ cand' \in [Goroutine -> Candidate]
  BY DEF TypeOK, Begin, Goto

LEMMA TypeWrite == ASSUME TypeOK, Write PROVE tbl' \in Config
  BY DEF TypeOK, Write, Config

LEMMA TypeRequest ==
  ASSUME TypeOK, NEW g \in Handler, Request(g) \/ Tick(g)
  PROVE  TypeOK'
<1> g \in Goroutine
  BY DEF Goroutine
<1> DEFINE Asks == WriteThenFlag(g) \/ PanelWrite(g) \/ ForceRestart(g) \/ StopXray(g)
                   \/ UpdateXray(g) \/ Tick(g)
<1>1. CASE Asks
  <2>1. PICK l \in PC, j \in Job : Begin(g, l, j)
    BY <1>1 DEF WriteThenFlag, PanelWrite, ForceRestart, StopXray, UpdateXray, Tick,
       PC, Job, RestartJob, StopJob
  <2>2. tbl' \in Config
    BY <1>1, TypeWrite DEF WriteThenFlag, PanelWrite, ForceRestart, StopXray, UpdateXray, Tick,
       TypeOK
  <2>3. disturb' \in 0..MaxDisturb
    BY <1>1, TypeDisturb DEF WriteThenFlag, PanelWrite, ForceRestart, StopXray, UpdateXray,
       Tick, TypeOK
  <2>4. needRestart' \in BOOLEAN /\ unnoticed' \in BOOLEAN
    BY <1>1 DEF WriteThenFlag, PanelWrite, ForceRestart, StopXray, UpdateXray, Tick, TypeOK
  <2>5. UNCHANGED <<lock, procVars, serverVars>>
    BY <1>1 DEF WriteThenFlag, PanelWrite, ForceRestart, StopXray, UpdateXray, Tick
  <2> QED
    BY <2>1, <2>2, <2>3, <2>4, <2>5, TypeBegin DEF TypeOK, procVars, serverVars
<1>2. CASE SilentWrite(g)
  <2>1. tbl' \in Config /\ disturb' \in 0..MaxDisturb
    BY <1>2, TypeWrite, TypeDisturb DEF SilentWrite
  <2> QED
    BY <1>2, <2>1 DEF SilentWrite, procVars, goVars, serverVars, TypeOK
<1> QED
  BY <1>1, <1>2 DEF Request

\* What a call that returns does to the variables it owns.
LEMMA TypeLeave ==
  ASSUME TypeOK, NEW g \in Goroutine, NEW l \in PC, Leave(g, l)
  PROVE  /\ lock' \in Goroutine \cup {NoOne}
         /\ pc' \in [Goroutine -> PC]
         /\ job' \in [Goroutine -> Job]
         /\ rd' \in [Goroutine -> 0..NTables]
         /\ cand' \in [Goroutine -> Candidate]
<1>1. Blank \in Candidate
  BY DEF Blank, Candidate
<1>2. 0 \in 0..NTables
  BY ConstantsOK DEF ConstantsOK
<1> QED
  BY <1>1, <1>2 DEF TypeOK, Leave, Goto

LEMMA TypeStep ==
  ASSUME TypeOK, NEW g \in Goroutine, Acquire(g) \/ Step(g)
  PROVE  TypeOK'
<1> USE ConstantsOK DEF ConstantsOK
<1>1. CASE Acquire(g) \/ SetToNeedRestart(g) \/ Swapped(g)
  <2>1. CASE Acquire(g)
    BY <2>1 DEF Acquire, Goto, procVars, serverVars, TypeOK, PC
  <2>2. CASE SetToNeedRestart(g) \/ Swapped(g)
    <3>1. PICK l \in PC, j \in Job : Begin(g, l, j)
      BY <2>2 DEF SetToNeedRestart, Swapped, PC, Job, RestartJob, StopJob
    <3>2. needRestart' \in BOOLEAN
      BY <2>2 DEF SetToNeedRestart, Swapped, TypeOK
    <3>3. UNCHANGED <<tbl, lock, procVars, serverVars, disturb, unnoticed>>
      BY <2>2 DEF SetToNeedRestart, Swapped
    <3> QED
      BY <3>1, <3>2, <3>3, TypeBegin DEF TypeOK, procVars, serverVars
  <2> QED
    BY <1>1, <2>1, <2>2
<1>2. CASE Halt(g) \/ HaltGone(g) \/ HaltDeadline(g)
  <2>1. CASE Halt(g) /\ IsXrayRunning
    BY <1>2, <2>1 DEF Halt, Terminate, Goto, serverVars, TypeOK, ProcState, PC
  <2>2. CASE Leave(g, IF job[g] = "stop" THEN "idle" ELSE "swap")
    BY <1>2, <2>2, TypeLeave DEF Halt, HaltGone, HaltDeadline, AfterHalt, Kill, Terminate, Goto,
       procVars, serverVars, TypeOK, ProcState, PC
  <2> QED
    BY <1>2, <2>1, <2>2 DEF Halt, HaltGone, HaltDeadline, AfterHalt
<1>3. CASE ReadTable(g)
  <2>1. rd[g] + 1 \in Table /\ rd[g] + 1 \in 0..NTables
    BY <1>3 DEF ReadTable, TypeOK, Table
  <2>2. tbl[rd[g] + 1] \in Value \cup {Omitted}
    BY <2>1 DEF TypeOK, Config
  <2>3. cand' \in [Goroutine -> Candidate]
    BY <1>3, <2>1, <2>2 DEF ReadTable, TypeOK, Candidate
  <2> QED
    BY <1>3, <2>1, <2>3 DEF ReadTable, TypeOK, procVars, serverVars
<1>4. CASE ReadSkipped(g)
  BY <1>4 DEF ReadSkipped, Disturb, procVars, serverVars, TypeOK
<1>5. CASE ReadFails(g)
  <2>1. Failed(g) /\ disturb' \in 0..MaxDisturb /\ unnoticed' \in BOOLEAN
    BY <1>5 DEF ReadFails, Disturb, TypeOK
  <2> QED
    BY <1>5, <2>1, TypeLeave DEF ReadFails, Failed, Ended, Booted, procVars, serverVars,
       TypeOK, PC, MissesToFlag
<1>6. CASE ConfigUnchanged(g)
  BY <1>6, TypeLeave DEF ConfigUnchanged, Settled, procVars, serverVars, TypeOK, PC
<1>7. CASE BounceRunning(g) \/ StopGone(g) \/ StopDeadline(g) \/ StartFresh(g)
  BY <1>7 DEF BounceRunning, StopGone, StopDeadline, StartFresh, Terminate, Kill, Goto,
     procVars, serverVars, TypeOK, PC, ProcState
<1>8. CASE Start(g) \/ StartFails(g)
  <2> PICK q \in Proc, s \in {"spawning", "gone"} : NewProcess(g, q, s)
    BY <1>8 DEF Start, StartFails
  <2>1. /\ p' \in Proc \cup {NoProc} /\ pst' \in [Proc -> ProcState]
        /\ pcfg' \in Candidate /\ missed' \in SUBSET Proc
        /\ checkTime' \in 0..MissesToFlag /\ server' \in {"up", "starting"}
        /\ gen' \in Nat /\ webServer' \in Nat /\ tickOn' \in Nat
    BY DEF NewProcess, Ended, Booted, serverVars, TypeOK, ProcState, MissesToFlag
  <2>2. PICK l \in PC : Leave(g, l)
    BY <1>8 DEF Start, StartFails, Failed, PC
  <2>3. tbl' = tbl /\ needRestart' = needRestart /\ UNCHANGED needRestart
    BY <1>8 DEF Start, StartFails
  <2>4. disturb' \in 0..MaxDisturb
    BY <1>8 DEF Start, StartFails, Disturb, TypeOK
  <2>5. unnoticed' \in BOOLEAN
    BY <1>8 DEF Start, StartFails, Settled, TypeOK
  <2> QED
    BY <2>1, <2>2, <2>3, <2>4, <2>5, TypeLeave DEF TypeOK
<1> QED
  BY <1>1, <1>2, <1>3, <1>4, <1>5, <1>6, <1>7, <1>8 DEF Step

LEMMA TypeChild ==
  ASSUME TypeOK, NEW q \in Proc, ChildStep(q)
  PROVE  TypeOK'
  BY ConstantsOK DEF ConstantsOK, ChildStep, Spawn, Serve, BindConflict, Crash, Exit,
     Finalize, Child, Disturb, goVars, serverVars, TypeOK, ProcState

LEMMA TypePanel ==
  ASSUME TypeOK, Reload \/ NewServer \/ CheckXrayRunning
  PROVE  TypeOK'
<1>1. CASE Reload \/ NewServer
  <2>1. PICK l \in PC, j \in Job : Begin(Main, l, j)
    BY <1>1 DEF Reload, NewServer, PC, Job, RestartJob, StopJob
  <2>2. disturb' \in 0..MaxDisturb
    BY <1>1, TypeDisturb DEF Reload, NewServer, TypeOK
  <2>3. UNCHANGED <<tbl, needRestart, lock, procVars, checkTime, unnoticed>>
    BY <1>1 DEF Reload, NewServer, serverVars, TypeOK
  <2>4. /\ server' \in {"up", "starting"}
        /\ gen' \in Nat /\ webServer' \in Nat /\ tickOn' \in Nat
    BY <1>1 DEF Reload, NewServer, serverVars, TypeOK
  <2> QED
    BY <2>1, <2>2, <2>3, <2>4, TypeBegin DEF procVars, TypeOK, Goroutine
<1>2. CASE CheckXrayRunning
  <2>1. checkTime' \in 0..MissesToFlag
    BY <1>2 DEF CheckXrayRunning, TypeOK, MissesToFlag
  <2>2. needRestart' \in BOOLEAN
    BY <1>2, Zenon DEF CheckXrayRunning, TypeOK
  <2> QED
    BY <1>2, <2>1, <2>2 DEF CheckXrayRunning, procVars, goVars, TypeOK
<1> QED
  BY <1>1, <1>2

LEMMA TypeNext == ASSUME TypeOK, [Next]_vars PROVE TypeOK'
<1>1. CASE UNCHANGED vars
  BY <1>1 DEF vars, procVars, goVars, serverVars, TypeOK
<1> QED
  BY <1>1, TypeRequest, TypeStep, TypeChild, TypePanel DEF Next

\* Every variable keeps to the values its comment gives it.
THEOREM TypeCorrect == Spec => []TypeOK
  BY TypeInit, TypeNext, PTL DEF Spec

-----------------------------------------------------------------------------
(* The mutex of xray.go.                                                     *)

\* A goroutine that goes elsewhere outside the protected part.
LEMMA BeginOutside ==
  ASSUME TypeOK, MutualExclusion, UNCHANGED lock,
         NEW g \in Goroutine, NEW l \in {"idle", "flag", "lock"}, NEW j, Begin(g, l, j)
  PROVE  MutualExclusion'
  BY DEF MutualExclusion, Inside, Begin, Goto, TypeOK

LEMMA LeaveOutside ==
  ASSUME TypeOK, MutualExclusion, NEW g \in Goroutine, Inside(g),
         NEW l \in {"idle", "flag", "swap"}, Leave(g, l)
  PROVE  /\ MutualExclusion'
         /\ \A h \in Goroutine : ~Inside(h)' /\ ~Restarting(h)'
  BY DEF MutualExclusion, Inside, Restarting, Leave, Goto, TypeOK

LEMMA MutualExclusionNext ==
  ASSUME TypeOK, MutualExclusion, [Next]_vars
  PROVE  MutualExclusion'
<1>1. CASE UNCHANGED <<lock, goVars>>
  BY <1>1 DEF MutualExclusion, Inside, goVars
<1>2. ASSUME NEW g \in Handler, Request(g) \/ Tick(g)
      PROVE  MutualExclusion'
  BY <1>1, <1>2, BeginOutside DEF Request, Tick, WriteThenFlag, PanelWrite, SilentWrite,
     ForceRestart, StopXray, UpdateXray, Goroutine
<1>3. ASSUME NEW g \in Goroutine, Acquire(g)
      PROVE  MutualExclusion'
  BY <1>3, ConstantsOK DEF ConstantsOK, Acquire, MutualExclusion, Inside, Goto, TypeOK
<1>4. ASSUME NEW g \in Goroutine, Step(g)
      PROVE  MutualExclusion'
  <2>1. CASE SetToNeedRestart(g) \/ Swapped(g)
    BY <2>1, BeginOutside DEF SetToNeedRestart, Swapped
  <2>2. CASE \E l \in {"idle", "flag", "swap"} : Leave(g, l) /\ Inside(g)
    BY <2>2, LeaveOutside
  <2>3. CASE \E l \in PC : Goto(g, l) /\ lock' = lock /\ Inside(g)
    BY <2>3 DEF MutualExclusion, Inside, Goto, TypeOK
  <2>4. CASE ReadTable(g) \/ ReadSkipped(g)
    BY <2>4 DEF ReadTable, ReadSkipped, MutualExclusion, Inside
  <2>5. CASE Halt(g) \/ HaltGone(g) \/ HaltDeadline(g) \/ ReadFails(g) \/ ConfigUnchanged(g)
             \/ Start(g) \/ StartFails(g)
    BY <2>2, <2>3, <2>5 DEF Halt, HaltGone, HaltDeadline, AfterHalt, ReadFails, Failed,
       ConfigUnchanged, Complete, Start, StartFails, NewProcess, Inside, PC
  <2>6. CASE BounceRunning(g) \/ StopGone(g) \/ StopDeadline(g) \/ StartFresh(g)
    BY <2>3, <2>6 DEF BounceRunning, StopGone, StopDeadline, StartFresh, Complete, Inside, PC
  <2> QED
    BY <1>4, <2>1, <2>4, <2>5, <2>6 DEF Step
<1>5. CASE Reload \/ NewServer
  BY <1>5, BeginOutside DEF Reload, NewServer, Goroutine
<1>6. CASE CheckXrayRunning \/ (\E q \in Proc : ChildStep(q)) \/ UNCHANGED vars
  BY <1>1, <1>6 DEF CheckXrayRunning, ChildStep, Spawn, Serve, BindConflict, Crash, Exit,
     Finalize, Child, vars
<1> QED
  BY <1>2, <1>3, <1>4, <1>5, <1>6 DEF Next

-----------------------------------------------------------------------------
(* Locals.                                                                   *)
LEMMA CleanLocalsNext ==
  ASSUME TypeOK, CleanLocals, [Next]_vars
  PROVE  CleanLocals'
<1>1. CASE UNCHANGED goVars
  BY <1>1 DEF CleanLocals, Restarting, goVars
<1>2. ASSUME NEW g \in Goroutine, NEW l \in {"idle", "flag", "lock"}, NEW j, Begin(g, l, j),
             ~Restarting(g)
      PROVE  CleanLocals'
  BY <1>2 DEF CleanLocals, Restarting, Begin, Goto, TypeOK
<1>3. ASSUME NEW g \in Handler, Request(g) \/ Tick(g)
      PROVE  CleanLocals'
  BY <1>1, <1>2, <1>3 DEF Request, Tick, WriteThenFlag, PanelWrite, SilentWrite,
     ForceRestart, StopXray, UpdateXray, Quiet, Restarting, Goroutine
<1>4. ASSUME NEW g \in Goroutine, Acquire(g) \/ Step(g)
      PROVE  CleanLocals'
  <2>1. CASE SetToNeedRestart(g) \/ Swapped(g)
    BY <2>1, <1>2 DEF SetToNeedRestart, Swapped, Restarting
  <2>2. ASSUME NEW l \in PC, Leave(g, l) PROVE CleanLocals'
    BY <2>2 DEF CleanLocals, Restarting, Leave, Goto, TypeOK
  <2>3. ASSUME NEW l \in PC, Goto(g, l), UNCHANGED cand,
               Restarting(g) => l \in {"read", "stopping", "start"}
        PROVE  CleanLocals'
    BY <2>3 DEF CleanLocals, Restarting, Goto, TypeOK
  <2>4. CASE ReadTable(g) \/ ReadSkipped(g)
    BY <2>4 DEF ReadTable, ReadSkipped, CleanLocals, Restarting, TypeOK
  <2>5. CASE Halt(g) \/ HaltGone(g) \/ HaltDeadline(g)
    BY <2>2, <2>3, <2>5 DEF Halt, HaltGone, HaltDeadline, AfterHalt, Restarting, PC
  <2>6. CASE ReadFails(g) \/ ConfigUnchanged(g) \/ Start(g) \/ StartFails(g)
    BY <2>2, <2>6 DEF ReadFails, Failed, ConfigUnchanged, Start, StartFails, PC
  <2>7. CASE Acquire(g)
    BY <2>3, <2>7 DEF Acquire, Restarting, PC
  <2>8. CASE BounceRunning(g) \/ StopGone(g) \/ StopDeadline(g) \/ StartFresh(g)
    BY <2>3, <2>8 DEF BounceRunning, StopGone, StopDeadline, StartFresh, PC
  <2> QED
    BY <1>4, <2>1, <2>4, <2>5, <2>6, <2>7, <2>8 DEF Step
<1>5. CASE Reload \/ NewServer
  BY <1>2, <1>5 DEF Reload, NewServer, Quiet, Restarting, Goroutine
<1>6. CASE CheckXrayRunning \/ (\E q \in Proc : ChildStep(q)) \/ UNCHANGED vars
  BY <1>1, <1>6 DEF CheckXrayRunning, ChildStep, Spawn, Serve, BindConflict, Crash, Exit,
     Finalize, Child, vars
<1> QED
  BY <1>3, <1>4, <1>5, <1>6 DEF Next

-----------------------------------------------------------------------------
(* What becomes of a notice: it is there, or its goroutine holds the mutex.  *)

LEMMA WriteIsNoticed ==
  ASSUME TypeOK, NEW g \in Handler, WriteThenFlag(g) \/ PanelWrite(g) \/ SilentWrite(g)
  PROVE  Notice' \/ unnoticed'
  BY DEF WriteThenFlag, PanelWrite, SilentWrite, Begin, Goto, Notice, NoticedJob, TypeOK,
     Goroutine

LEMMA NoticeKept ==
  ASSUME TypeOK, [Next]_vars, Notice
  PROVE  Notice' \/ \E g \in Goroutine : Acquire(g) /\ job[g] \in NoticedJob
<1>1. ASSUME NEW g \in Goroutine, NEW l \in PC, NEW j, Goto(g, l), job' = [job EXCEPT ![g] = j],
             UNCHANGED needRestart, pc[g] \notin {"flag", "lock"}
      PROVE  Notice'
  BY <1>1 DEF Notice, Goto, TypeOK
<1>2. ASSUME UNCHANGED needRestart, UNCHANGED pc, UNCHANGED job
      PROVE  Notice'
  BY <1>2 DEF Notice
<1>3. ASSUME NEW g \in Handler, Request(g)
      PROVE  Notice'
  <2>1. CASE SilentWrite(g)
    BY <1>2, <2>1 DEF SilentWrite, goVars
  <2>2. CASE ~SilentWrite(g)
    BY <1>1, <1>3, <2>2 DEF Request, WriteThenFlag, PanelWrite, ForceRestart, StopXray,
       UpdateXray, Quiet, Begin, PC, Goroutine
  <2> QED
    BY <2>1, <2>2
<1>4. ASSUME NEW g \in Handler, Tick(g)
      PROVE  Notice'
  BY <1>4 DEF Tick, Begin, Goto, Notice, NoticedJob, TypeOK, Goroutine
<1>5. ASSUME NEW g \in Goroutine, Step(g)
      PROVE  Notice'
  <2>1. CASE SetToNeedRestart(g)
    BY <2>1 DEF SetToNeedRestart, Notice
  <2>2. CASE Swapped(g)
    BY <1>1, <2>2 DEF Swapped, Begin, PC
  <2>3. ASSUME NEW l \in PC, Goto(g, l), UNCHANGED <<job, needRestart>>,
               pc[g] \notin {"flag", "lock"}
        PROVE  Notice'
    BY <2>3 DEF Notice, Goto, TypeOK
  <2>4. CASE ReadTable(g) \/ ReadSkipped(g)
    BY <1>2, <2>4 DEF ReadTable, ReadSkipped
  <2>5. CASE Halt(g) \/ HaltGone(g) \/ HaltDeadline(g)
    BY <2>3, <2>5 DEF Halt, HaltGone, HaltDeadline, AfterHalt, Leave, PC
  <2>6. CASE ReadFails(g) \/ ConfigUnchanged(g) \/ Start(g) \/ StartFails(g)
    BY <2>3, <2>6 DEF ReadFails, Failed, ConfigUnchanged, Complete, Start, StartFails,
       NewProcess, Leave, PC
  <2>7. CASE BounceRunning(g) \/ StopGone(g) \/ StopDeadline(g) \/ StartFresh(g)
    BY <2>3, <2>7 DEF BounceRunning, StopGone, StopDeadline, StartFresh, Complete, PC
  <2> QED
    BY <1>5, <2>1, <2>2, <2>4, <2>5, <2>6, <2>7 DEF Step
<1>6. ASSUME NEW g \in Goroutine, Acquire(g)
      PROVE  Notice' \/ job[g] \in NoticedJob
  BY <1>6 DEF Acquire, Notice, Goto, TypeOK
<1>7. CASE Reload \/ NewServer
  BY <1>1, <1>7 DEF Reload, NewServer, Quiet, Begin, Goroutine, PC
<1>8. CASE CheckXrayRunning
  BY <1>8 DEF CheckXrayRunning, Notice, goVars
<1>9. CASE (\E q \in Proc : ChildStep(q)) \/ UNCHANGED vars
  BY <1>2, <1>9 DEF ChildStep, Spawn, Serve, BindConflict, Crash, Exit,
     Finalize, Child, vars, goVars
<1> QED
  BY <1>3, <1>4, <1>5, <1>6, <1>7, <1>8, <1>9 DEF Next

-----------------------------------------------------------------------------
(* Stale reads.                                                              *)

\* A goroutine inside RestartXray keeps the mutex, so no other one is.
LEMMA AloneInside ==
  ASSUME MutualExclusion, NEW g \in Goroutine, NEW h \in Goroutine, Inside(g), Inside(h)
  PROVE  g = h
  BY DEF MutualExclusion

LEMMA StaleReadNext ==
  ASSUME TypeOK, MutualExclusion, CleanLocals, StaleReadIsNoticed, [Next]_vars
  PROVE  StaleReadIsNoticed'
<1> SUFFICES ASSUME NEW g \in Goroutine, Restarting(g)', ~Notice', ~unnoticed'
             PROVE  Fresh(g)'
  BY DEF StaleReadIsNoticed
<1>1. ASSUME NEW h \in Handler, WriteThenFlag(h) \/ PanelWrite(h) \/ SilentWrite(h)
      PROVE  FALSE
  BY <1>1, WriteIsNoticed
<1>2. ASSUME NEW h \in Goroutine, Inside(h), NEW l \in {"idle", "flag", "swap"}, Leave(h, l)
      PROVE  FALSE
  BY <1>2, LeaveOutside
<1>3. ASSUME Restarting(g), UNCHANGED tbl, UNCHANGED cand, UNCHANGED unnoticed,
             ~\E h \in Goroutine : Acquire(h)
      PROVE  Fresh(g)'
  BY <1>3, NoticeKept DEF StaleReadIsNoticed, Fresh
<1>4. ASSUME ~Restarting(g), UNCHANGED cand
      PROVE  Fresh(g)'
  BY <1>4 DEF CleanLocals, Fresh, Blank
<1>5. ASSUME UNCHANGED <<tbl, cand>>, UNCHANGED unnoticed, ~\E h \in Goroutine : Acquire(h)
      PROVE  Fresh(g)'
  BY <1>3, <1>4, <1>5
<1>6. ASSUME NEW h \in Goroutine, Acquire(h)
      PROVE  Fresh(g)'
  <2>1. ~Restarting(g)
    <3>1. lock = NoOne /\ NoOne \notin Goroutine
      BY <1>6, ConstantsOK DEF ConstantsOK, Acquire
    <3> QED
      BY <3>1 DEF MutualExclusion, Inside, Restarting
  <2> QED
    BY <1>4, <1>6, <2>1 DEF Acquire
<1>7. ASSUME NEW h \in Goroutine, ReadTable(h), ~\E k \in Goroutine : Acquire(k)
      PROVE  Fresh(g)'
  <2>1. Restarting(g) /\ g = h
    BY <1>7, AloneInside DEF ReadTable, Restarting, Inside
  <2>2. Fresh(g)
    BY <1>7, <2>1, NoticeKept DEF ReadTable, StaleReadIsNoticed
  <2> QED
    BY <1>7, <2>1, <2>2 DEF ReadTable, Fresh, TypeOK, Candidate
<1> DEFINE Still == UNCHANGED <<tbl, cand>> /\ UNCHANGED unnoticed
<1>8. ASSUME NEW h \in Handler, Request(h) \/ Tick(h)
      PROVE  Still
  BY <1>1, <1>8 DEF Request, ForceRestart, StopXray, UpdateXray, Tick, Begin
<1>9. ASSUME NEW h \in Goroutine, Step(h), ~ReadTable(h)
      PROVE  Still
  <2>1. CASE SetToNeedRestart(h) \/ Swapped(h)
    BY <2>1 DEF SetToNeedRestart, Swapped, Begin
  <2>2. CASE Halt(h) \/ HaltGone(h) \/ HaltDeadline(h)
    BY <1>2, <2>2 DEF Halt, HaltGone, HaltDeadline, AfterHalt, Inside
  <2>3. CASE ReadFails(h) \/ ConfigUnchanged(h) \/ Start(h) \/ StartFails(h)
    BY <1>2, <2>3 DEF ReadFails, Failed, ConfigUnchanged, Complete, Start, StartFails,
       NewProcess, Inside
  <2>4. CASE ReadSkipped(h) \/ BounceRunning(h) \/ StopGone(h) \/ StopDeadline(h) \/ StartFresh(h)
    BY <2>4 DEF ReadSkipped, BounceRunning, StopGone, StopDeadline, StartFresh
  <2> QED
    BY <1>9, <2>1, <2>2, <2>3, <2>4 DEF Step
<1>10. CASE Reload \/ NewServer \/ CheckXrayRunning \/ UNCHANGED vars
  <2>1. Still
    BY <1>10 DEF Reload, NewServer, CheckXrayRunning, vars, Begin, goVars
  <2> QED
    BY <1>5, <1>6, <2>1
<1>11. ASSUME NEW q \in Proc, ChildStep(q)
       PROVE  Still
  BY <1>11 DEF ChildStep, Spawn, Serve, BindConflict, Crash, Exit, Finalize, Child, goVars
<1> QED
  BY <1>5, <1>6, <1>7, <1>8, <1>9, <1>10, <1>11 DEF Next

-----------------------------------------------------------------------------
(* Wake-ups.                                                                 *)

\* What a restart that completes has seen, or leaves for the next one.
LEMMA SettledIsCovered ==
  ASSUME TypeOK, StaleReadIsNoticed, NEW g \in Goroutine, Restarting(g), Settled(g),
         cand[g] # tbl
  PROVE  Notice \/ unnoticed'
<1>1. CASE Fresh(g)
  <2>1. cand[g] \in Candidate /\ tbl \in Config
    BY DEF TypeOK
  <2>2. PICK t \in Table : cand[g][t] # tbl[t]
    BY <2>1 DEF Candidate, Config
  <2>3. cand[g][t] = Omitted
    BY <1>1, <2>2 DEF Fresh
  <2> QED
    BY <2>3 DEF Settled
<1>2. CASE unnoticed
  BY <1>2 DEF Settled
<1> QED
  BY <1>1, <1>2 DEF StaleReadIsNoticed

LEMMA CoveredKept ==
  ASSUME TypeOK, [Next]_vars, Covered,
         ~\E g \in Goroutine : ConfigUnchanged(g) \/ Start(g) \/ StartFails(g)
  PROVE  Covered'
<1>1. CASE Notice
  <2>1. ASSUME NEW g \in Goroutine, Acquire(g), job[g] \in NoticedJob PROVE Covered'
    BY <2>1 DEF Acquire, Goto, Covered, Restarting, NoticedJob, StopJob, TypeOK
  <2> QED
    BY <1>1, <2>1, NoticeKept DEF Covered
<1>2. CASE unnoticed
  <2>1. unnoticed'
    BY <1>2 DEF Next, Request, WriteThenFlag, PanelWrite, SilentWrite, ForceRestart, StopXray,
       UpdateXray, Tick, Acquire, Step, SetToNeedRestart, Swapped, Halt, HaltGone, HaltDeadline,
       ReadTable, ReadSkipped, ReadFails, BounceRunning, StopGone, StopDeadline, StartFresh,
       Reload, NewServer, CheckXrayRunning, ChildStep, Spawn, Serve, BindConflict, Crash, Exit,
       Finalize, Child, vars
  <2> QED
    BY <2>1 DEF Covered
<1>3. ASSUME NEW g \in Goroutine, Restarting(g), job[g] \in NoticedJob
      PROVE  Covered'
  <2>1. ASSUME UNCHANGED pc, UNCHANGED job PROVE Covered'
    BY <1>3, <2>1 DEF Covered, Restarting
  <2>2. ASSUME NEW h \in Goroutine, h # g, NEW l, Goto(h, l), NEW j,
               job' \in {job, [job EXCEPT ![h] = j]}
        PROVE  Covered'
    BY <1>3, <2>2 DEF Covered, Restarting, Goto, TypeOK
  <2>3. ASSUME NEW h \in Handler, Request(h) \/ Tick(h)
        PROVE  Covered'
    BY <1>3, <2>1, <2>2, <2>3 DEF Request, WriteThenFlag, PanelWrite, SilentWrite, ForceRestart,
       StopXray, UpdateXray, Tick, Quiet, Begin, goVars, Restarting, Goroutine
  <2>4. ASSUME NEW h \in Goroutine, h # g, Acquire(h) \/ Step(h)
        PROVE  Covered'
    BY <2>1, <2>2, <2>4 DEF Acquire, Step, SetToNeedRestart, Swapped, Halt, HaltGone,
       HaltDeadline, AfterHalt, ReadTable, ReadSkipped, ReadFails, Failed, BounceRunning,
       StopGone, StopDeadline, StartFresh, Begin, Leave, procVars
  <2>5. CASE ReadFails(g)
    BY <1>3, <2>5 DEF ReadFails, Failed, Leave, Goto, Covered, Notice, NoticedJob, TypeOK
  <2>6. ASSUME NEW l \in {"stopping", "start"}, Goto(g, l), UNCHANGED job PROVE Covered'
    BY <1>3, <2>6 DEF Goto, Covered, Restarting, TypeOK
  <2>7. ASSUME Acquire(g) \/ Step(g) PROVE Covered'
    BY <1>3, <2>1, <2>5, <2>6, <2>7 DEF Acquire, Step, SetToNeedRestart, Swapped, Halt, HaltGone,
       HaltDeadline, ReadTable, ReadSkipped, BounceRunning, StopGone, StopDeadline, StartFresh,
       Restarting
  <2>8. CASE Reload \/ NewServer
    <3>1. Main # g
      BY <1>3, <2>8 DEF Reload, NewServer, Quiet, Restarting
    <3>2. PICK l \in {"lock"}, j \in {"reload", "boot"} : Begin(Main, l, j)
      BY <2>8 DEF Reload, NewServer
    <3>3. Main \in Goroutine
      BY DEF Goroutine
    <3>4. Goto(Main, l) /\ job' \in {job, [job EXCEPT ![Main] = j]}
      BY <3>2 DEF Begin
    <3> QED
      BY <2>2, <3>1, <3>3, <3>4
  <2>9. CASE CheckXrayRunning \/ (\E q \in Proc : ChildStep(q)) \/ UNCHANGED vars
    BY <2>1, <2>9 DEF CheckXrayRunning, ChildStep, Spawn, Serve, BindConflict, Crash, Exit,
       Finalize, Child, vars, goVars
  <2> QED
    BY <2>3, <2>4, <2>7, <2>8, <2>9 DEF Next
<1> QED
  BY <1>1, <1>2, <1>3 DEF Covered

LEMMA WakeupNext ==
  ASSUME IInv, [Next]_vars
  PROVE  NoLostWakeup'
<1> USE DEF IInv
<1> SUFFICES ASSUME (p # NoProc)', Live(p)', (pcfg # tbl)'
             PROVE  Covered'
  BY DEF NoLostWakeup, Covered
<1>1. ASSUME NEW g \in Handler, WriteThenFlag(g) \/ PanelWrite(g) \/ SilentWrite(g)
      PROVE  Covered'
  BY <1>1, WriteIsNoticed DEF Covered
<1>2. ASSUME NEW g \in Goroutine, ConfigUnchanged(g) \/ Start(g)
      PROVE  Covered'
  <2>1. /\ Restarting(g) /\ Settled(g) /\ cand[g] # tbl
        /\ ~\E h \in Goroutine : Acquire(h)
    <3>1. Inside(g) /\ lock = g
      BY <1>2 DEF ConfigUnchanged, Complete, Start, NewProcess, Inside, MutualExclusion
    <3>2. ~\E h \in Goroutine : Acquire(h)
      BY <3>1, ConstantsOK DEF ConstantsOK, Acquire
    <3>3. pcfg' = cand[g] /\ tbl' = tbl
      BY <1>2 DEF ConfigUnchanged, Unchanged, Start, NewProcess, procVars, IsXrayRunning,
         Complete
    <3> QED
      BY <1>2, <3>2, <3>3 DEF ConfigUnchanged, Complete, Start, NewProcess, Restarting
  <2> QED
    BY <2>1, SettledIsCovered, NoticeKept DEF Covered
<1>3. ASSUME NEW g \in Goroutine, StartFails(g)
      PROVE  FALSE
  BY <1>3 DEF StartFails, NewProcess, Live, TypeOK
<1>4. ASSUME UNCHANGED tbl, UNCHANGED p, UNCHANGED pcfg, p \in Proc => (Live(p)' => Live(p)),
             ~\E g \in Goroutine : ConfigUnchanged(g) \/ Start(g) \/ StartFails(g)
      PROVE  Covered'
  <2>1. p \in Proc
    BY <1>4 DEF TypeOK
  <2>2. Covered
    BY <1>4, <2>1 DEF NoLostWakeup, Covered
  <2> QED
    BY <1>4, <2>2, CoveredKept
<1> DEFINE Same == UNCHANGED tbl /\ UNCHANGED <<p, pcfg>> /\ (p \in Proc => (Live(p)' => Live(p)))
<1>5. ASSUME NEW g \in Handler, Request(g) \/ Tick(g)
      PROVE  Covered' \/ Same
  BY <1>1, <1>5 DEF Request, ForceRestart, StopXray, UpdateXray, Tick, procVars, Live
<1>6. ASSUME NEW g \in Goroutine, Acquire(g) \/ Step(g)
      PROVE  Covered' \/ Same
  BY <1>2, <1>3, <1>6 DEF Acquire, Step, SetToNeedRestart, Swapped, Halt, HaltGone,
     HaltDeadline, ReadTable, ReadSkipped, ReadFails, BounceRunning, StopGone, StopDeadline,
     StartFresh, Terminate, Kill, procVars, Live, TypeOK
<1>7. ASSUME Reload \/ NewServer \/ CheckXrayRunning \/ UNCHANGED vars
      PROVE  Same
  BY <1>7 DEF Reload, NewServer, CheckXrayRunning, vars, procVars, Live
<1>8. ASSUME NEW q \in Proc, ChildStep(q)
      PROVE  Same
  BY <1>8 DEF ChildStep, Spawn, Serve, BindConflict, Crash, Exit, Finalize, Child, Live, TypeOK
<1>9. Same /\ ~(\E g \in Goroutine : ConfigUnchanged(g) \/ Start(g) \/ StartFails(g))
          => Covered'
  BY <1>4
<1> HIDE DEF Same, IInv
<1> QED
  BY <1>2, <1>3, <1>5, <1>6, <1>7, <1>8, <1>9 DEF Next

LEMMA IInvInit == Init => IInv
<1>1. ASSUME Init PROVE MutualExclusion /\ CleanLocals /\ StaleReadIsNoticed /\ NoLostWakeup
  BY <1>1 DEF Init, MutualExclusion, Inside, CleanLocals, Restarting, StaleReadIsNoticed,
     NoLostWakeup
<1> QED
  BY <1>1, TypeInit DEF IInv

LEMMA IInvNext == IInv /\ [Next]_vars => IInv'
  BY TypeNext, MutualExclusionNext, CleanLocalsNext, StaleReadNext, WakeupNext DEF IInv

\* Whatever the interleaving of handlers, ticks, reloads and children, xray does
\* not go on with an outdated config that nobody is going to replace.
THEOREM NoWakeupIsLost == Spec => []NoLostWakeup
<1>1. IInv => NoLostWakeup
  BY DEF IInv
<1> QED
  BY <1>1, IInvInit, IInvNext, PTL DEF Spec

\* A table written after a restart read it leads to another restart.
THEOREM StaleReadsAreNoticed == Spec => []StaleReadIsNoticed
<1>1. IInv => StaleReadIsNoticed
  BY DEF IInv
<1> QED
  BY <1>1, IInvInit, IInvNext, PTL DEF Spec
-----------------------------------------------------------------------------
(* Who stops a child.                                                        *)

\* Only a stop is halting xray, and a restart that stops it has read all.
Staged ==
    \A g \in Goroutine :
        /\ pc[g] \in {"halt", "halting"} => job[g] \in StopJob
        /\ pc[g] = "stopping" => rd[g] = NTables

LEMMA StagedNext == ASSUME TypeOK, Staged, [Next]_vars PROVE Staged'
<1>1. CASE UNCHANGED goVars
  BY <1>1 DEF Staged, goVars
<1>2. ASSUME NEW g \in Goroutine, NEW l \in {"idle", "flag", "lock"}, NEW j, Begin(g, l, j)
      PROVE  Staged'
  BY <1>2 DEF Staged, Begin, Goto, TypeOK
<1>3. ASSUME NEW g \in Handler, Request(g) \/ Tick(g)
      PROVE  Staged'
  BY <1>1, <1>2, <1>3 DEF Request, Tick, WriteThenFlag, PanelWrite, SilentWrite,
     ForceRestart, StopXray, UpdateXray, Goroutine
<1>4. ASSUME NEW g \in Goroutine, Acquire(g) \/ Step(g)
      PROVE  Staged'
  <2>1. CASE SetToNeedRestart(g) \/ Swapped(g)
    BY <2>1, <1>2 DEF SetToNeedRestart, Swapped
  <2>2. ASSUME NEW l \in {"idle", "flag", "swap"}, Leave(g, l) PROVE Staged'
    BY <2>2 DEF Staged, Leave, Goto, TypeOK
  <2>3. ASSUME NEW l \in PC, Goto(g, l), UNCHANGED <<job, rd>>,
               l \in {"halt", "halting"} => job[g] \in StopJob,
               l = "stopping" => rd[g] = NTables
        PROVE  Staged'
    BY <2>3 DEF Staged, Goto, TypeOK
  <2>4. CASE ReadTable(g) \/ ReadSkipped(g)
    BY <2>4 DEF ReadTable, ReadSkipped, Staged, TypeOK
  <2>5. CASE Halt(g) \/ HaltGone(g) \/ HaltDeadline(g)
    BY <2>2, <2>3, <2>5 DEF Halt, HaltGone, HaltDeadline, AfterHalt, Staged, PC
  <2>6. CASE ReadFails(g) \/ ConfigUnchanged(g) \/ Start(g) \/ StartFails(g)
    BY <2>2, <2>6 DEF ReadFails, Failed, ConfigUnchanged, Start, StartFails
  <2>7. CASE Acquire(g)
    BY <2>3, <2>7 DEF Acquire, PC
  <2>8. CASE BounceRunning(g) \/ StopGone(g) \/ StopDeadline(g) \/ StartFresh(g)
    BY <2>3, <2>8 DEF BounceRunning, StopGone, StopDeadline, StartFresh, Complete, PC
  <2> QED
    BY <1>4, <2>1, <2>4, <2>5, <2>6, <2>7, <2>8 DEF Step
<1>5. CASE Reload \/ NewServer
  BY <1>2, <1>5 DEF Reload, NewServer, Goroutine
<1>6. CASE CheckXrayRunning \/ (\E q \in Proc : ChildStep(q)) \/ UNCHANGED vars
  BY <1>1, <1>6 DEF CheckXrayRunning, ChildStep, Spawn, Serve, BindConflict, Crash, Exit,
     Finalize, Child, vars
<1> QED
  BY <1>3, <1>4, <1>5, <1>6 DEF Next

\* The current child is told to stop, or killed.
Stopped(q) == q = p /\ pst[q] \in {"booting", "serving"} /\ pst'[q] \in {"term", "killed"}

\* Its finalizer leaves the current child alone, so only the holder of the mutex
\* stops it, and it holds the mutex for a stop, or with every table read.
LEMMA StoppedByHolder ==
  ASSUME TypeOK, MutualExclusion, Staged, [Next]_vars, NEW q \in Proc, Stopped(q)
  PROVE  \E g \in Goroutine : lock = g /\ (rd[g] = NTables \/ job[g] \in StopJob)
<1>1. CASE UNCHANGED pst
  BY <1>1 DEF Stopped
<1>2. ASSUME NEW g \in Handler, Request(g) \/ Tick(g)
      PROVE  FALSE
  BY <1>1, <1>2 DEF Stopped, Request, Tick, WriteThenFlag, PanelWrite, SilentWrite, ForceRestart,
     StopXray, UpdateXray, procVars
<1>3. ASSUME NEW g \in Goroutine, Acquire(g) \/ Step(g)
      PROVE  lock = g /\ (rd[g] = NTables \/ job[g] \in StopJob)
  <2>1. CASE Halt(g) \/ HaltGone(g) \/ HaltDeadline(g) \/ BounceRunning(g) \/ StopDeadline(g)
    BY <2>1 DEF Halt, HaltGone, HaltDeadline, BounceRunning, StopDeadline, Complete,
       MutualExclusion, Inside, Staged, Stopped, procVars
  <2>2. CASE Start(g) \/ StartFails(g)
    BY <2>2 DEF Start, StartFails, NewProcess, Stopped, TypeOK
  <2>3. CASE \/ Acquire(g) \/ SetToNeedRestart(g) \/ Swapped(g) \/ ReadTable(g) \/ ReadSkipped(g)
             \/ ReadFails(g) \/ ConfigUnchanged(g) \/ StopGone(g) \/ StartFresh(g)
    BY <2>3 DEF Acquire, SetToNeedRestart, Swapped, ReadTable, ReadSkipped, ReadFails,
       ConfigUnchanged, StopGone, StartFresh, procVars, Stopped
  <2> QED
    BY <1>3, <2>1, <2>2, <2>3 DEF Step
<1>4. CASE Reload \/ NewServer \/ CheckXrayRunning \/ UNCHANGED vars
  BY <1>1, <1>4 DEF Reload, NewServer, CheckXrayRunning, procVars, vars
<1>5. ASSUME NEW r \in Proc, ChildStep(r)
      PROVE  FALSE
  BY <1>5 DEF ChildStep, Spawn, Serve, BindConflict, Crash, Exit, Finalize, Child, Stopped, TypeOK
<1> QED
  BY <1>2, <1>3, <1>4, <1>5 DEF Next

\* xray.go:342-356: whatever fails while the config is read, the child that serves
\* is left alone; it is told to stop by a stop, or with a config to replace it.
THEOREM ChildIsKept == Spec => StoppedOnlyWithAReplacement
<1>1. Init => Staged
  BY DEF Init, Staged
<1>2. Staged /\ IInv /\ [Next]_vars => Staged'
  BY StagedNext DEF IInv
<1>3. Staged /\ IInv /\ [Next]_vars =>
      [\A q \in Proc :
          q = p /\ pst[q] \in {"booting", "serving"} /\ pst'[q] \in {"term", "killed"} =>
              \E g \in Goroutine :
                  lock = g /\ (rd[g] = NTables \/ job[g] \in StopJob)]_vars
  BY StoppedByHolder DEF IInv, Stopped
<1> QED
  BY <1>1, <1>2, <1>3, IInvInit, IInvNext, PTL DEF Spec, StoppedOnlyWithAReplacement
=============================================================================
