------------------------------- MODULE HostOps -------------------------------
(***************************************************************************)
(* What the panel does to its host, together: its update (SelfUpdate), the *)
(* binding of domains (DomainBinding) and its certificate (Certificates).  *)
(* They meet in the panel's process:                                       *)
(*   main.go       SIGHUP stops the Server and starts a new one, twice if  *)
(*                 need be; a process whose Server does not start ends,    *)
(*                 with status 0, and systemd leaves it at that            *)
(*   web/web.go    a Server starts if its certificate loads, and loads it  *)
(*   update.sh     stops and starts the process                            *)
(***************************************************************************)
EXTENDS Naturals, FiniteSets

CONSTANTS
    Service, Detached, Request, Updater, MaxReloads, DiskFull,
    Domain, Bind, Unbind,
    Upload, Renewal, Removal, Shipped, Rewriters,
    MaxCalls        \* bound on the calls of all kinds

VARIABLES
    up, lock, progress, pc, svc, script, upc, files, sent, reloads,
    nginx, acme, confd, conf, stray, live, inbounds, applied, flag, missed, inflight,
    nodeAddress, bpc, dom, env, crossed, left,
    disk, tmp, wpc, fd, cached, mtime, lpc, statted, read,
    vain,       \* history: a process has ended for want of a certificate
    calls

U == INSTANCE SelfUpdate
D == INSTANCE DomainBinding
C == INSTANCE Certificates

updateVars == <<up, lock, progress, pc, svc, script, upc, files, sent, reloads>>
bindVars == <<nginx, acme, confd, conf, stray, live, inbounds, applied, flag, missed, inflight,
              nodeAddress, bpc, dom, env, crossed, left>>
certVars == <<disk, tmp, wpc, fd, cached, mtime, lpc, statted, read>>
vars == <<updateVars, bindVars, certVars, vain, calls>>

ASSUME HostConstants ==
    /\ Detached \notin Service
    /\ MaxReloads \in Nat /\ MaxCalls \in Nat
    /\ DiskFull \in BOOLEAN /\ Rewriters \in BOOLEAN
    /\ Bind \cap Unbind = {}
    /\ {D!None, D!Torn} \cap (Bind \cup Domain) = {}
    /\ Upload \cap Renewal = {} /\ Removal \cap (Upload \cup Renewal) = {}
    /\ Shipped \notin C!Writer
    /\ {C!Torn, C!Missing} \cap (C!Writer \cup {Shipped}) = {}

TypeOK == U!TypeOK /\ D!TypeOK /\ C!TypeOK /\ vain \in BOOLEAN /\ calls \in 0..MaxCalls

Init == U!Init /\ D!Init /\ C!Init /\ vain = FALSE /\ calls = 0

-----------------------------------------------------------------------------
(* One part at a time                                                       *)

OfUpdate(A) == A /\ UNCHANGED <<bindVars, certVars>>
OfBinding(A) == A /\ UNCHANGED <<updateVars, certVars>>
OfCertificate(A) == A /\ UNCHANGED <<updateVars, bindVars>>

\* A call arrives; only acme.sh works while the panel is down.
Call ==
    /\ calls < MaxCalls
    /\ calls' = calls + 1
    /\ UNCHANGED vain
    /\ \/ OfUpdate(\E r \in Request, s \in Service : U!TryLock(r, s))
       \/ up /\ OfBinding(\E b \in Bind, d \in Domain : D!Begin(b, d))
       \/ up /\ OfBinding(\E u \in Unbind, d \in Domain : D!BeginUnbind(u, d))
       \/ OfCertificate(\E w \in C!Writer : C!Begin(w) /\ (up \/ w \in Renewal))

Update(r) == OfUpdate(U!Work(r)) /\ UNCHANGED <<vain, calls>>
RunScript(u) == OfUpdate(U!Script(u)) /\ UNCHANGED <<vain, calls>>
BindDomain(b) == OfBinding(D!Step(b)) /\ UNCHANGED <<vain, calls>>
UnbindDomain(u) == OfBinding(D!UnbindStep(u)) /\ UNCHANGED <<vain, calls>>
RestartXray == up /\ OfBinding(D!RestartXray \/ D!RestartFails) /\ UNCHANGED <<vain, calls>>
Write(w) == OfCertificate(C!Write(w)) /\ UNCHANGED <<vain, calls>>
WatchLoop == up /\ OfCertificate(C!Reload) /\ UNCHANGED <<vain, calls>>

-----------------------------------------------------------------------------
(* All parts at once                                                        *)

StopPanel(u) == U!StopPanel(u) /\ D!Killed /\ C!Killed /\ UNCHANGED <<vain, calls>>

StartPanel(u) ==
    /\ U!StartPanel(u)
    /\ IF up THEN UNCHANGED <<bindVars, certVars>> ELSE D!Booted /\ C!Booted
    /\ vain' = FALSE
    /\ UNCHANGED calls

StartInVain(u) ==
    /\ ~C!Whole
    /\ U!StartInVain(u)
    /\ vain' = TRUE
    /\ UNCHANGED <<bindVars, certVars, calls>>

Sighup == U!Reload /\ D!NewServer /\ C!Booted /\ UNCHANGED <<vain, calls>>

\* Neither the new Server nor the revived one starts: runWebServer returns.
SighupEnds ==
    /\ ~C!Whole
    /\ U!ReloadEnds
    /\ D!Killed /\ C!Killed
    /\ vain' = TRUE
    /\ UNCHANGED calls

Next ==
    \/ Call
    \/ \E r \in Request : Update(r)
    \/ \E u \in Updater : RunScript(u) \/ StopPanel(u) \/ StartPanel(u) \/ StartInVain(u)
    \/ \E b \in Bind : BindDomain(b)
    \/ \E u \in Unbind : UnbindDomain(u)
    \/ \E w \in C!Writer : Write(w)
    \/ RestartXray \/ WatchLoop
    \/ Sighup \/ SighupEnds

Spec == Init /\ [][Next]_vars

-----------------------------------------------------------------------------

LockGuardsUpdates == U!LockGuardsUpdates
BindingIsWhole == D!BindingIsWhole
BoundReachesXray == up => D!BoundReachesXray

\* update.sh:131-180: while the panel is down an updater is on its way to
\* start it, unless one of three things has come in between: another request
\* has cut the script short, the files could not be copied, or the process
\* did start and found a certificate that did not go with its key.
DownIsComingBack ==
    ~up => \/ \E u \in Updater : upc[u] \in {"swap", "start"}
           \/ script # "whole" \/ files = "torn" \/ vain

\* cert_loader.go:3-8: a pair that is written over the old one is served
\* without a restart, however the writes of its two files fall between the
\* stats and the reads of a reload: the loader never takes the files for the
\* ones it serves when they are others.
NewPairIsNoticed == C!Whole /\ mtime = disk => cached = disk["cert"]

=============================================================================
