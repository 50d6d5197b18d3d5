-------------------------- MODULE OnlineReportProofs --------------------------
(***************************************************************************)
(* OnlineReport for any number of users and emails: what the tick believes *)
(* the receiver to hold, across the tail, restarts and lost answers.       *)
(***************************************************************************)
EXTENDS OnlineReport, SequenceTheorems, TLAPS

-----------------------------------------------------------------------------
(* The types, one part of the system at a time                              *)

XrayTyped ==
    /\ connected \subseteq User /\ unread \subseteq connected
    /\ log \in Seq(User) /\ Len(log) <= lines /\ lines \in 0..MaxLines
    /\ restarting \in BOOLEAN
    /\ resetCh \in BOOLEAN /\ tail \in {"read", "eof"} /\ pos \in 0..MaxLines
    /\ byEmail \in [User -> {"absent", "fresh", "old"}]

HookTyped ==
    /\ url \in BOOLEAN /\ astray \in BOOLEAN /\ tick \in {"idle", "wait"}
    /\ current \subseteq User /\ lastSent \subseteq User /\ told \subseteq User
    /\ late \subseteq SUBSET User /\ faults \in 0..MaxFaults

LEMMA TypesSplit == TypeOK <=> XrayTyped /\ HookTyped
BY DEF TypeOK, XrayTyped, HookTyped

LEMMA FaultsBounded == ASSUME HookTyped, Fault PROVE faults' \in 0..MaxFaults
  BY ReportConstants DEF ReportConstants, HookTyped, Fault

\* The tail does not pass the end of the log, nor the log what was ever written.
LEMMA XrayTypedNext == ASSUME XrayTyped, [Next]_vars PROVE XrayTyped'
<1> USE DEF XrayTyped
<1>1. Len(log) \in Nat /\ Len(<<>>) = 0 /\ <<>> \in Seq(User) /\ MaxLines \in Nat
  BY LenProperties, EmptySeq, ReportConstants DEF ReportConstants
<1>2. ASSUME NEW u \in User, Connect(u) PROVE XrayTyped'
  <2>1. log' \in Seq(User) /\ Len(log') = Len(log) + 1
    BY <1>2, AppendProperties DEF Connect
  <2> QED
    BY <1>1, <1>2, <2>1 DEF Connect
<1>3. ASSUME NEW u \in User, Disconnect(u) \/ TouchEmail(u) PROVE XrayTyped'
  BY <1>3 DEF Disconnect, TouchEmail, xrayVars
<1>4. CASE StartXray \/ Truncate \/ RestartPanel
  <2>1. log' \in {log, <<>>} /\ UNCHANGED lines
    BY <1>4 DEF StartXray, Truncate, RestartPanel
  <2>2. log' \in Seq(User) /\ Len(log') <= lines' /\ Len(log) \in 0..MaxLines
    <3>1. CASE log' = log
      BY <1>1, <2>1, <3>1
    <3>2. CASE log' = <<>>
      BY <1>1, <2>1, <3>2
    <3> QED
      BY <2>1, <3>1, <3>2
  <2> QED
    BY <1>1, <1>4, <2>1, <2>2 DEF StartXray, Truncate, RestartPanel, onlineVars
<1>5. CASE OnXrayRestart \/ CollectOld
  BY <1>5 DEF OnXrayRestart, CollectOld, xrayVars
<1>6. CASE HandleLine
  <2>1. pos + 1 \in 1..Len(log) /\ log[pos + 1] \in User /\ pos' \in 0..MaxLines
    BY <1>1, <1>6, ElementOfSeq DEF HandleLine
  <2> QED
    BY <1>6, <2>1 DEF HandleLine, xrayVars
<1>7. CASE AtEof \/ Reopen \/ ReadOn
  <2>1. Len(log) \in 0..MaxLines /\ pos' \in {pos, Len(log)}
    BY <1>1, <1>7 DEF AtEof, Reopen, ReadOn
  <2>2. resetCh' \in BOOLEAN /\ tail' \in {"read", "eof"}
    BY <1>7 DEF AtEof, Reopen, ReadOn
  <2>3. UNCHANGED <<connected, log, lines, restarting, byEmail, unread>>
    BY <1>7 DEF AtEof, Reopen, ReadOn, xrayVars
  <2> QED
    BY <1>1, <2>1, <2>2, <2>3
<1>8. ASSUME NEW u \in User, GrowsOld(u) PROVE XrayTyped'
  BY <1>8 DEF GrowsOld, xrayVars
<1>9. CASE UNCHANGED <<xrayVars, onlineVars>>
  BY <1>9 DEF xrayVars, onlineVars
<1>10. CASE Tick \/ Unanswered \/ ArrivesLate \/ SendNow \/ SetUrl \/ UNCHANGED vars
  BY <1>9, <1>10 DEF Tick, Push, Answered, Unanswered, ArrivesLate, SendNow, SetUrl, vars
<1> QED
  BY <1>2, <1>3, <1>4, <1>5, <1>6, <1>7, <1>8, <1>10 DEF Next, TailLoop, Time

LEMMA HookTypedNext == ASSUME HookTyped, [Next]_vars PROVE HookTyped'
<1> USE DEF HookTyped
<1>0. Online \subseteq User
  BY DEF Online
<1>1. CASE UNCHANGED <<hookVars, faults>>
  BY <1>1 DEF hookVars
<1>2. CASE \/ \E u \in User : Connect(u) \/ Disconnect(u) \/ TouchEmail(u)
           \/ OnXrayRestart \/ TailLoop \/ Time \/ CollectOld \/ UNCHANGED vars
  BY <1>1, <1>2 DEF Connect, Disconnect, TouchEmail, OnXrayRestart, TailLoop, HandleLine, AtEof,
     Reopen, ReadOn, Time, GrowsOld, CollectOld, vars
<1>3. CASE StartXray \/ Truncate
  BY <1>3, FaultsBounded DEF StartXray, Truncate, hookVars
<1>4. CASE Push \/ Answered \/ ArrivesLate \/ SendNow
  BY <1>0, <1>4 DEF Push, Answered, ArrivesLate, SendNow, Told
<1>5. CASE Unanswered
  BY <1>5, FaultsBounded DEF Unanswered
<1>6. CASE SetUrl \/ RestartPanel
  BY <1>6, FaultsBounded DEF SetUrl, RestartPanel
<1> QED
  BY <1>2, <1>3, <1>4, <1>5, <1>6 DEF Next, Tick

\* Every step that changes what the receiver holds either makes lastSent the
\* same or remembers that it did not.
LEMMA AckedNext == ASSUME AckedIsTold, [Next]_vars PROVE AckedIsTold'
<1> USE DEF AckedIsTold
<1>1. CASE UNCHANGED <<lastSent, told, astray>>
  BY <1>1
<1>2. CASE Answered \/ RestartPanel
  BY <1>2 DEF Answered, RestartPanel
<1>3. CASE Unanswered
  BY <1>3 DEF Unanswered
<1>4. CASE ArrivesLate
  <2>1. PICK snap \in late : Told(snap)
    BY <1>4 DEF ArrivesLate
  <2>2. CASE astray \/ snap # told
    BY <2>1, <2>2 DEF Told
  <2>3. CASE ~astray /\ snap = told
    BY <1>4, <2>1, <2>3 DEF Told, ArrivesLate
  <2> QED
    BY <2>2, <2>3
<1>5. CASE \/ \E u \in User : Connect(u) \/ Disconnect(u) \/ TouchEmail(u)
           \/ StartXray \/ OnXrayRestart \/ TailLoop \/ Truncate \/ Time \/ CollectOld
           \/ Push \/ SendNow \/ SetUrl \/ UNCHANGED vars
  BY <1>1, <1>5 DEF Connect, Disconnect, TouchEmail, StartXray, OnXrayRestart, TailLoop, HandleLine,
     AtEof, Reopen, ReadOn, Truncate, Time, GrowsOld, CollectOld, Push, SendNow, SetUrl, hookVars, vars
<1> QED
  BY <1>2, <1>3, <1>4, <1>5 DEF Next, Tick

-----------------------------------------------------------------------------
(* The theorems                                                             *)

\* The tailer stays within the log, whatever is truncated or begun anew, and
\* only connected users can be unread.
THEOREM ReportIsTyped == Spec => []TypeOK
<1>1. Init => XrayTyped /\ HookTyped
  <2> SUFFICES ASSUME Init PROVE XrayTyped /\ HookTyped
    OBVIOUS
  <2>1. log = <<>> /\ log \in Seq(User) /\ Len(log) = 0
    BY EmptySeq DEF Init
  <2>2. 0 \in 0..MaxLines /\ 0 \in 0..MaxFaults
    BY ReportConstants DEF ReportConstants
  <2>3. XrayTyped
    <3>1. byEmail \in [User -> {"absent", "fresh", "old"}]
      BY DEF Init
    <3>2. pos \in 0..MaxLines /\ lines \in 0..MaxLines /\ Len(log) <= lines
      BY <2>1, <2>2 DEF Init
    <3>3. connected \subseteq User /\ unread \subseteq connected
      BY DEF Init
    <3> QED
      BY <2>1, <3>1, <3>2, <3>3 DEF Init, XrayTyped
  <2>4. HookTyped
    BY <2>2 DEF Init, HookTyped
  <2> QED
    BY <2>3, <2>4
<1>2. XrayTyped /\ HookTyped /\ [Next]_vars => XrayTyped' /\ HookTyped'
  BY XrayTypedNext, HookTypedNext
<1> QED
  BY <1>1, <1>2, TypesSplit, PTL DEF Spec

\* online_webhook.go:14-15: however posts fail, arrive late or are sent by hand
\* and however often the panel restarts, the tick knows what the receiver holds
\* unless a post that was not acknowledged, or not its own, has arrived there.
THEOREM TickKnowsReceiver == Spec => []AckedIsTold
<1>1. Init => AckedIsTold
  BY DEF Init, AckedIsTold
<1>2. AckedIsTold /\ [Next]_vars => AckedIsTold'
  BY AckedNext
<1> QED
  BY <1>1, <1>2, PTL DEF Spec
=============================================================================
