----------------------------- MODULE OnlineReport ----------------------------
(***************************************************************************)
(* Who is online, and who is told:                                         *)
(*   web/service/online_ip_service.go   the tail of xray's access log,     *)
(*                                      byEmail and its TTL                *)
(*   web/service/online_webhook.go      the push of snapshots              *)
(*   web/job/xray_traffic_job.go        TouchEmail                         *)
(*   web/service/xray.go                what a restart of xray does        *)
(*                                                                         *)
(* A user is an email at an address.  A line of the log is the user it     *)
(* tells of.  state and emailToTag, which mirror byEmail by inbound, are   *)
(* left out.  Time is the step that makes an entry older than the TTL.     *)
(***************************************************************************)
EXTENDS Naturals, Sequences, FiniteSets

CONSTANTS
    User,
    EmailOf,        \* the email of a user
    MaxLines,       \* bound on the lines logged
    MaxFaults,      \* bound on restarts, truncations, changes of the URL
                    \* and posts that go wrong
    Testing         \* whether the operator may push the test button

ASSUME ReportConstants ==
    MaxLines \in Nat /\ MaxFaults \in Nat /\ Testing \in BOOLEAN

VARIABLES
    connected,      \* users with a connection through xray that carries traffic
    log, lines,     \* the access log, and the number of lines ever written
    restarting,     \* a new xray runs, OnXrayRestart has not been called
    tail,           \* the tailer reads, or waits at the end of the file
    pos,            \* lines of the file the tailer is past
    resetCh,        \* a reset is waiting in resetCh
    byEmail,        \* a user: not there, within the TTL, older
    unread,         \* history: connected users of whom byEmail was not told,
                    \* or has forgotten
    url,            \* onlineWebhookUrl is set
    tick, current,  \* where the tick is, the snapshot it sends
    lastSent,
    late,           \* posts under way that the tick does not wait for
    told,           \* what the receiver holds of this node
    astray,         \* history: the receiver was told what lastSent is not
    faults

xrayVars == <<connected, log, lines, restarting>>
onlineVars == <<tail, pos, resetCh, byEmail, unread>>
hookVars == <<url, tick, current, lastSent, late, told, astray>>
vars == <<xrayVars, onlineVars, hookVars, faults>>

TypeOK ==
    /\ connected \subseteq User
    /\ log \in Seq(User) /\ Len(log) <= lines /\ lines \in 0..MaxLines
    /\ restarting \in BOOLEAN /\ resetCh \in BOOLEAN
    /\ tail \in {"read", "eof"} /\ pos \in 0..MaxLines
    /\ byEmail \in [User -> {"absent", "fresh", "old"}]
    /\ unread \subseteq connected
    /\ url \in BOOLEAN /\ astray \in BOOLEAN
    /\ tick \in {"idle", "wait"}
    /\ {current, lastSent, told} \subseteq SUBSET User
    /\ late \subseteq SUBSET User
    /\ faults \in 0..MaxFaults

Init ==
    /\ connected = {} /\ log = <<>> /\ lines = 0 /\ restarting = FALSE
    /\ tail = "read" /\ pos = 0 /\ resetCh = FALSE /\ unread = {}
    /\ byEmail = [u \in User |-> "absent"]
    /\ url \in BOOLEAN
    /\ tick = "idle" /\ current = {} /\ lastSent = {}
    /\ late = {} /\ told = {} /\ astray = FALSE /\ faults = 0

\* GetIPsByEmail
Online == {u \in User : byEmail[u] = "fresh"}

Fault == faults < MaxFaults /\ faults' = faults + 1

-----------------------------------------------------------------------------
(* xray                                                                     *)

Connect(u) ==
    /\ u \notin connected /\ lines < MaxLines
    /\ connected' = connected \cup {u}
    /\ unread' = unread \cup {u}
    /\ log' = Append(log, u) /\ lines' = lines + 1
    /\ UNCHANGED <<restarting, tail, pos, resetCh, byEmail, hookVars, faults>>

Disconnect(u) ==
    /\ u \in connected
    /\ connected' = connected \ {u}
    /\ unread' = unread \ {u}
    /\ UNCHANGED <<log, lines, restarting, tail, pos, resetCh, byEmail, hookVars, faults>>

\* RestartXray: a new child, which may begin a new log.
StartXray ==
    /\ Fault
    /\ restarting' = TRUE
    /\ connected' = {} /\ unread' = {}
    /\ log' \in {log, <<>>}
    /\ UNCHANGED <<lines, tail, pos, resetCh, byEmail, hookVars>>

\* Its end: OnXrayRestart empties the maps, of what the new child has logged
\* too, and leaves a reset for the tailer, if there is none.
OnXrayRestart ==
    /\ restarting
    /\ restarting' = FALSE
    /\ byEmail' = [u \in User |-> "absent"]
    /\ unread' = connected
    /\ resetCh' = TRUE
    /\ UNCHANGED <<connected, log, lines, tail, pos, hookVars, faults>>

-----------------------------------------------------------------------------
(* OnlineIPService                                                          *)

\* Mutant: a line is read together with the next one.
HandleTwoLines ==
    /\ tail = "read" /\ pos < Len(log)
    /\ pos' = pos + 2
    /\ byEmail' = [byEmail EXCEPT ![log[pos + 1]] = "fresh"]
    /\ unread' = unread \ {log[pos + 1]}
    /\ UNCHANGED <<xrayVars, tail, resetCh, hookVars, faults>>

\* handleLine: recordEmail.
HandleLine ==
    /\ tail = "read" /\ pos < Len(log)
    /\ pos' = pos + 1
    /\ byEmail' = [byEmail EXCEPT ![log[pos + 1]] = "fresh"]
    /\ unread' = unread \ {log[pos + 1]}
    /\ UNCHANGED <<xrayVars, tail, resetCh, hookVars, faults>>

AtEof ==
    /\ tail = "read" /\ pos >= Len(log)
    /\ tail' = "eof"
    /\ UNCHANGED <<xrayVars, pos, resetCh, byEmail, unread, hookVars, faults>>

\* A reset, or a file that has become shorter: it is opened again, at its end.
Reopen ==
    /\ tail = "eof"
    /\ resetCh \/ Len(log) < pos
    /\ tail' = "read"
    /\ pos' = Len(log)
    /\ resetCh' = FALSE
    /\ UNCHANGED <<xrayVars, byEmail, unread, hookVars, faults>>

\* Half a second has gone by.
ReadOn ==
    /\ tail = "eof"
    /\ pos <= Len(log)
    /\ tail' = "read"
    /\ UNCHANGED <<xrayVars, pos, resetCh, byEmail, unread, hookVars, faults>>

\* truncateLoop, whatever has been read.
Truncate ==
    /\ Fault
    /\ log # <<>>
    /\ log' = <<>>
    /\ UNCHANGED <<connected, lines, restarting, onlineVars, hookVars>>

\* Five minutes without a line or traffic of the email: the traffic job comes
\* every ten seconds.
GrowsOld(u) ==
    /\ byEmail[u] = "fresh"
    /\ \A c \in connected : EmailOf[c] # EmailOf[u]
    /\ byEmail' = [byEmail EXCEPT ![u] = "old"]
    /\ UNCHANGED <<xrayVars, tail, pos, resetCh, unread, hookVars, faults>>

\* Every address of the email, those past the TTL included.
TouchEmail(c) ==
    /\ c \in connected
    /\ byEmail' = [u \in User |-> IF EmailOf[u] = EmailOf[c] /\ byEmail[u] = "old"
                                  THEN "fresh" ELSE byEmail[u]]
    /\ UNCHANGED <<xrayVars, tail, pos, resetCh, unread, hookVars, faults>>

\* gcLoop
CollectOld ==
    /\ byEmail' = [u \in User |-> IF byEmail[u] = "old" THEN "absent" ELSE byEmail[u]]
    /\ UNCHANGED <<xrayVars, tail, pos, resetCh, unread, hookVars, faults>>

-----------------------------------------------------------------------------
(* OnlineWebhookService                                                     *)

\* Mutants: hasDiff looks at the number of entries, or for new ones only.
MoreOrLess == Cardinality(Online) # Cardinality(lastSent)
NewOnes == ~(Online \subseteq lastSent)

HasDiff == Online # lastSent

\* A tick that finds no difference does nothing.
Push ==
    /\ tick = "idle" /\ url
    /\ HasDiff
    /\ tick' = "wait"
    /\ current' = Online
    /\ UNCHANGED <<xrayVars, onlineVars, url, lastSent, late, told, astray, faults>>

\* The receiver replaces what it holds and answers 2xx.
Answered ==
    /\ tick = "wait"
    /\ tick' = "idle" /\ current' = {}
    /\ told' = current
    /\ lastSent' = current
    /\ astray' = FALSE
    /\ UNCHANGED <<xrayVars, onlineVars, url, late, faults>>

\* Mutant: the error of send is logged and not heeded.
UnansweredIsSent ==
    /\ Fault
    /\ tick = "wait"
    /\ tick' = "idle" /\ current' = {}
    /\ lastSent' = current
    /\ UNCHANGED <<xrayVars, onlineVars, url, late, told, astray>>

\* validateWebhookURL objects, or there is no 2xx: the post was lost, or
\* arrived all the same, or will.
Unanswered ==
    /\ Fault
    /\ tick = "wait"
    /\ tick' = "idle" /\ current' = {}
    /\ \/ UNCHANGED <<late, told, astray>>
       \/ told' = current /\ astray' = TRUE /\ UNCHANGED late
       \/ late' = late \cup {current} /\ UNCHANGED <<told, astray>>
    /\ UNCHANGED <<xrayVars, onlineVars, url, lastSent>>

\* Somebody else's snapshot replaces what the receiver holds.
Told(snap) == told' = snap /\ astray' = (astray \/ snap # told)

ArrivesLate ==
    /\ \E snap \in late : Told(snap) /\ late' = late \ {snap}
    /\ UNCHANGED <<xrayVars, onlineVars, url, tick, current, lastSent, faults>>

\* SendNow does not wait for the tick and leaves lastSent alone.  (One such
\* post under way at a time.)
SendNow ==
    /\ Testing /\ url
    /\ late = {}
    /\ late' = {Online}
    /\ UNCHANGED <<xrayVars, onlineVars, url, tick, current, lastSent, told, astray, faults>>

\* PATCH /settings
SetUrl ==
    /\ Fault
    /\ url' = ~url
    /\ UNCHANGED <<xrayVars, onlineVars, tick, current, lastSent, late, told, astray>>

\* The panel starts afresh, and xray with it.
RestartPanel ==
    /\ Fault
    /\ connected' = {} /\ unread' = {} /\ restarting' = FALSE
    /\ tail' = "read" /\ pos' = Len(log) /\ resetCh' = FALSE
    /\ byEmail' = [u \in User |-> "absent"]
    /\ tick' = "idle" /\ current' = {}
    /\ lastSent' = {}
    /\ astray' = (told # {})
    /\ UNCHANGED <<log, lines, url, late, told>>

-----------------------------------------------------------------------------

TailLoop == HandleLine \/ AtEof \/ Reopen \/ ReadOn
Time == \E u \in User : GrowsOld(u)
Tick == Push \/ Answered

Next ==
    \/ \E u \in User : Connect(u) \/ Disconnect(u) \/ TouchEmail(u)
    \/ StartXray \/ OnXrayRestart
    \/ TailLoop \/ Truncate \/ Time \/ CollectOld
    \/ Tick \/ Unanswered \/ ArrivesLate
    \/ SendNow \/ SetUrl \/ RestartPanel

\* The tailer, the ticker and the clock go on, and a restart of xray comes to
\* its end.
Spec ==
    /\ Init /\ [][Next]_vars
    /\ WF_vars(OnXrayRestart) /\ WF_vars(TailLoop) /\ WF_vars(Time) /\ WF_vars(Tick)

-----------------------------------------------------------------------------

\* online_webhook.go:14-15: lastSent is what the receiver holds, after every
\* failure and retry of the tick itself.
AckedIsTold == astray \/ told = lastSent

\* No line that the tailer has still to read tells of u.
Lost(u) == u \in unread /\ u \notin {log[i] : i \in (pos + 1)..Len(log)}

\* online_webhook.go:6-14 and 19-20: the receiver learns of a user who stays
\* connected and of an email that has gone, across the log, the tail, the
\* snapshots, failed posts and the URL being off for a while.
ChangesAreTold ==
    \A u \in User :
        LET Gone == \A c \in connected : EmailOf[c] # EmailOf[u] IN
        /\ u \in connected /\ url ~> u \in told \/ u \notin connected \/ ~url \/ astray \/ Lost(u)
        /\ Gone /\ url ~> u \notin told \/ ~Gone \/ ~url \/ astray
=============================================================================
