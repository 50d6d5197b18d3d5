---------------------------- MODULE HostOpsProofs ----------------------------
(* For any number of calls, updaters, domains and writers of certificates:  *)
(* the mutex of an update is held for as long as it should be, a panel that *)
(* is down is coming back, a binding is all or nothing, and a new pair of   *)
(* certificate files never goes unnoticed.                                  *)
EXTENDS HostOps, FiniteSetTheorems, TLAPS

-----------------------------------------------------------------------------
(* Each part moves by its own actions.                                      *)
UpdateMove ==
    \/ \E r \in Request : U!Work(r) \/ \E s \in Service : U!TryLock(r, s)
    \/ \E u \in Updater : U!Script(u) \/ U!StopPanel(u) \/ U!StartPanel(u) \/ U!StartInVain(u)
    \/ U!Reload \/ U!ReloadEnds

BindMove ==
    \/ \E b \in Bind : D!Step(b) \/ \E d \in Domain : D!Begin(b, d)
    \/ \E u \in Unbind : D!UnbindStep(u) \/ \E d \in Domain : D!BeginUnbind(u, d)
    \/ D!RestartXray \/ D!RestartFails \/ D!Killed \/ D!Booted \/ D!NewServer

CertMove ==
    \/ \E w \in C!Writer : C!Begin(w) \/ C!Write(w)
    \/ C!Reload \/ C!Killed \/ C!Booted

LEMMA Moves ==
    ASSUME [Next]_vars
    PROVE  /\ UpdateMove \/ UNCHANGED updateVars
           /\ BindMove \/ UNCHANGED bindVars
           /\ CertMove \/ UNCHANGED certVars
<1>1. CASE Call
  BY <1>1 DEF Call, OfUpdate, OfBinding, OfCertificate, UpdateMove, BindMove, CertMove
<1>2. CASE \/ \E r \in Request : Update(r)
           \/ \E u \in Updater : RunScript(u)
           \/ \E b \in Bind : BindDomain(b)
           \/ \E u \in Unbind : UnbindDomain(u)
           \/ \E w \in C!Writer : Write(w)
           \/ RestartXray \/ WatchLoop
  BY <1>2 DEF Update, RunScript, BindDomain, UnbindDomain, Write, RestartXray, WatchLoop, OfUpdate,
     OfBinding, OfCertificate, UpdateMove, BindMove, CertMove
<1>3. CASE \E u \in Updater : StopPanel(u) \/ StartPanel(u) \/ StartInVain(u)
  BY <1>3 DEF StopPanel, StartPanel, StartInVain, UpdateMove, BindMove, CertMove
<1>4. CASE Sighup \/ SighupEnds
  BY <1>4 DEF Sighup, SighupEnds, UpdateMove, BindMove, CertMove
<1>5. CASE UNCHANGED vars
  BY <1>5 DEF vars
<1> QED
  BY <1>1, <1>2, <1>3, <1>4, <1>5 DEF Next

-----------------------------------------------------------------------------
(* The mutex of the updates.                                                *)
Held(s) == \E r \in Request : U!Holds(r, s)

\* The mutex of a service is held, and nothing dispatched, just while a request
\* on it is at work, and that request is the only one.
LockInv ==
    \A s \in Service :
        /\ s \in lock \ sent <=> Held(s)
        /\ \A q, r \in Request : U!Holds(q, s) /\ U!Holds(r, s) => q = r

UpdateInv == U!TypeOK /\ LockInv

LEMMA InitUpdate == U!Init => UpdateInv
<1> SUFFICES ASSUME U!Init
             PROVE  UpdateInv
  OBVIOUS
<1>1. U!TypeOK
  BY HostConstants DEF U!Init, U!TypeOK, HostConstants, U!ApplyState
<1>2. LockInv
  BY DEF U!Init, LockInv, Held, U!Holds, U!Working
<1> QED
  BY <1>1, <1>2 DEF UpdateInv

LEMMA UpdateTypedNext ==
    ASSUME UpdateInv, UpdateMove
    PROVE  U!TypeOK'
<1> USE DEF UpdateInv, U!TypeOK
<1>1. ASSUME NEW r \in Request, NEW s \in Service, U!TryLock(r, s)
      PROVE  U!TypeOK'
  BY <1>1 DEF U!TryLock, U!At, U!ApplyState, U!Working
<1>2. ASSUME NEW r \in Request, U!FetchRelease(r) \/ U!FillScript(r) \/ U!FailProgress(r)
      PROVE  U!TypeOK'
  <2>1. pc' \in [Request -> {"idle", "failing"} \cup U!Working]
    BY <1>2 DEF U!FetchRelease, U!FillScript, U!FailProgress, U!At, U!Working
  <2>2. progress' \in [Service -> U!ApplyState]
    BY <1>2 DEF U!FetchRelease, U!FillScript, U!FailProgress, U!Report, U!ApplyState
  <2> QED
    BY <1>2, <2>1, <2>2 DEF U!FetchRelease, U!FillScript, U!FailProgress
<1>3. ASSUME NEW r \in Request, U!CreateScript(r)
      PROVE  U!TypeOK'
  BY <1>3 DEF U!CreateScript, U!At, U!Working
<1>4. ASSUME NEW r \in Request, NEW u \in Updater, U!Dispatch(r, u)
      PROVE  U!TypeOK'
  <2>1. U!Holds(r, svc[r])
    BY <1>4 DEF U!Dispatch, U!At, U!Holds, U!Working
  <2>2. {svc[r]} \cap Service \subseteq lock
    BY <2>1 DEF LockInv, Held
  <2> QED
    BY <1>4, <2>2 DEF U!Dispatch, U!At
<1>5. ASSUME NEW r \in Request, U!Unlock(r)
      PROVE  U!TypeOK'
  <2>1. U!Holds(r, svc[r])
    BY <1>5 DEF U!Unlock, U!Holds
  <2>2. svc[r] \notin sent
    BY <2>1 DEF LockInv, Held
  <2> QED
    BY <1>5, <2>2 DEF U!Unlock
<1>6. ASSUME NEW u \in Updater,
             \/ U!Verified(u) \/ U!GivesUp(u) \/ U!CutShort(u) \/ U!Swap(u) \/ U!SwapFails(u)
             \/ U!StartPanel(u) \/ U!StartInVain(u)
      PROVE  U!TypeOK'
  <2>1. UNCHANGED <<lock, progress, pc, svc, sent, script, reloads>>
    BY <1>6 DEF U!Verified, U!GivesUp, U!CutShort, U!Swap, U!SwapFails, U!StartPanel, U!StartInVain,
       U!memory
  <2>2. upc' \in [Updater -> {"unused", "fetch", "stop", "swap", "start", "ended"}]
    BY <1>6 DEF U!Verified, U!GivesUp, U!CutShort, U!Swap, U!SwapFails, U!StartPanel,
       U!StartInVain, U!Reads
  <2>3. up' \in BOOLEAN /\ files' \in {"complete", "torn"}
    BY <1>6 DEF U!Verified, U!GivesUp, U!CutShort, U!Swap, U!SwapFails, U!StartPanel, U!StartInVain
  <2> QED
    BY <2>1, <2>2, <2>3
<1>7. ASSUME NEW u \in Updater, U!StopPanel(u)
      PROVE  U!TypeOK'
  BY <1>7 DEF U!StopPanel, U!Reads, U!Killed, U!Forgotten, U!ApplyState
<1>8. ASSUME U!Reload \/ U!ReloadEnds
      PROVE  U!TypeOK'
  <2>1. reloads' \in 0..MaxReloads
    BY <1>8, HostConstants DEF U!Reload, U!ReloadEnds, HostConstants
  <2> QED
    BY <1>8, <2>1 DEF U!Reload, U!ReloadEnds, U!Killed, U!Forgotten, U!ApplyState
<1> QED
  BY <1>1, <1>2, <1>3, <1>4, <1>5, <1>6, <1>7, <1>8 DEF UpdateMove, U!Work, U!Script

LEMMA LockNext ==
    ASSUME UpdateInv, UpdateMove
    PROVE  LockInv'
<1> USE DEF UpdateInv
<1>1. ASSUME NEW r \in Request, NEW s \in Service, U!TryLock(r, s)
      PROVE  LockInv'
  <2>1. ~Held(s) /\ s \notin sent
    BY <1>1 DEF U!TryLock, LockInv, U!TypeOK
  <2>2. /\ \A q \in Request \ {r} : pc'[q] = pc[q] /\ svc'[q] = svc[q]
        /\ pc[r] = "idle" /\ pc'[r] = "meta" /\ svc'[r] = s
    BY <1>1 DEF U!TryLock, U!At, U!TypeOK
  <2>3. \A q \in Request, x \in Service :
            U!Holds(q, x)' <=> IF q = r THEN x = s ELSE U!Holds(q, x)
    BY <2>2 DEF U!Holds, U!Working
  <2>4. lock' = lock \cup {s} /\ UNCHANGED sent
    BY <1>1 DEF U!TryLock
  <2>5. \A x \in Service : ~U!Holds(r, x)
    BY <2>2 DEF U!Holds, U!Working
  <2> QED
    BY <2>1, <2>3, <2>4, <2>5 DEF LockInv, Held
<1>2. ASSUME NEW r \in Request,
             U!FetchRelease(r) \/ U!CreateScript(r) \/ U!FillScript(r) \/ U!FailProgress(r)
      PROVE  LockInv'
  <2>1. UNCHANGED <<svc, lock, sent>>
    BY <1>2 DEF U!FetchRelease, U!CreateScript, U!FillScript, U!FailProgress
  <2>2. \A q \in Request : pc'[q] \in U!Working <=> pc[q] \in U!Working
    BY <1>2 DEF U!FetchRelease, U!CreateScript, U!FillScript, U!FailProgress, U!At, U!Working,
       U!TypeOK
  <2> QED
    BY <2>1, <2>2 DEF LockInv, Held, U!Holds
<1>3. ASSUME NEW r \in Request, U!Unlock(r) \/ \E u \in Updater : U!Dispatch(r, u)
      PROVE  LockInv'
  <2>1. /\ UNCHANGED svc
        /\ \A q \in Request \ {r} : pc'[q] = pc[q]
        /\ pc[r] \in U!Working /\ pc'[r] \notin U!Working
    BY <1>3 DEF U!Unlock, U!Dispatch, U!At, U!Working, U!TypeOK
  <2>2. \A q \in Request, x \in Service : U!Holds(q, x)' <=> q # r /\ U!Holds(q, x)
    BY <2>1 DEF U!Holds
  <2>3. U!Holds(r, svc[r])
    BY <2>1 DEF U!Holds
  <2>4. \A s \in Service : s \in lock' \ sent' <=> s \in lock \ sent /\ s # svc[r]
    BY <1>3 DEF U!Unlock, U!Dispatch
  <2>5. \A s \in Service : Held(s)' <=> Held(s) /\ s # svc[r]
    BY <2>2, <2>3 DEF LockInv, Held, U!Holds
  <2> QED
    BY <2>2, <2>4, <2>5 DEF LockInv
<1>4. ASSUME NEW u \in Updater, U!Script(u) \/ U!StartPanel(u) \/ U!StartInVain(u)
      PROVE  LockInv'
  <2>1. UNCHANGED <<svc, pc, lock, sent>>
    BY <1>4 DEF U!Script, U!Verified, U!GivesUp, U!CutShort, U!Swap, U!SwapFails, U!StartPanel,
       U!StartInVain, U!memory
  <2> QED
    BY <2>1 DEF LockInv, Held, U!Holds
<1>5. ASSUME U!Reload \/ U!ReloadEnds \/ \E u \in Updater : U!StopPanel(u)
      PROVE  LockInv'
  <2>1. lock' = {} /\ sent' = {} /\ svc' = [r \in Request |-> Detached]
    BY <1>5 DEF U!Reload, U!ReloadEnds, U!StopPanel, U!Killed, U!Forgotten
  <2> QED
    BY <2>1, HostConstants DEF LockInv, Held, U!Holds, HostConstants
<1> QED
  BY <1>1, <1>2, <1>3, <1>4, <1>5 DEF UpdateMove, U!Work

LEMMA UpdateInvNext ==
    ASSUME UpdateInv, [Next]_vars
    PROVE  UpdateInv'
<1>1. CASE UpdateMove
  BY <1>1, UpdateTypedNext, LockNext DEF UpdateInv
<1>2. CASE UNCHANGED updateVars
  BY <1>2 DEF updateVars, UpdateInv, U!TypeOK, LockInv, Held, U!Holds
<1> QED
  BY <1>1, <1>2, Moves

LEMMA AtMostOne ==
    ASSUME NEW S, \A x, y \in S : x = y
    PROVE  U!Cardinality(S) <= 1
<1>1. U!Cardinality(S) = Cardinality(S)
  BY DEF U!Cardinality, Cardinality
<1>2. CASE S = {}
  BY <1>1, <1>2, FS_EmptySet
<1>3. ASSUME NEW x \in S
      PROVE  U!Cardinality(S) <= 1
  <2>1. S = {x}
    BY <1>3
  <2> QED
    BY <1>1, <2>1, FS_Singleton
<1> QED
  BY <1>2, <1>3

LEMMA LockInvGuards == LockInv => LockGuardsUpdates
<1> SUFFICES ASSUME LockInv, NEW s \in Service
             PROVE  /\ s \in lock \ sent => \E r \in Request : U!Holds(r, s)
                    /\ U!Cardinality({r \in Request : U!Holds(r, s)}) <= 1
                    /\ s \in sent => \A r \in Request : ~U!Holds(r, s)
  BY DEF LockGuardsUpdates, U!LockGuardsUpdates
<1>1. U!Cardinality({r \in Request : U!Holds(r, s)}) <= 1
  BY AtMostOne DEF LockInv
<1> QED
  BY <1>1 DEF LockInv, Held

\* update.go:71, 185-186: whatever updates, reloads, stops and failures do,
\* the mutex of a service is held while one request works on it and no longer.
THEOREM UpdatesAreGuarded == Spec => []LockGuardsUpdates
<1>1. Init => UpdateInv
  BY InitUpdate DEF Init
<1>2. UpdateInv /\ [Next]_vars => UpdateInv'
  BY UpdateInvNext
<1>3. UpdateInv => LockGuardsUpdates
  BY LockInvGuards DEF UpdateInv
<1> QED
  BY <1>1, <1>2, <1>3, PTL DEF Spec

-----------------------------------------------------------------------------
(* A panel that is down is coming back.                                     *)
DownIsQuiet == ~up => \A r \in Request : pc[r] = "idle"

LEMMA DownIsQuietNext ==
    ASSUME UpdateInv, DownIsQuiet, [Next]_vars
    PROVE  DownIsQuiet'
<1> USE DEF DownIsQuiet
<1>1. ASSUME NEW r \in Request, NEW s \in Service, U!TryLock(r, s)
      PROVE  DownIsQuiet'
  BY <1>1 DEF U!TryLock
<1>2. ASSUME NEW r \in Request, U!Work(r)
      PROVE  DownIsQuiet'
  <2>1. pc[r] # "idle" /\ UNCHANGED up
    BY <1>2 DEF U!Work, U!FetchRelease, U!CreateScript, U!FillScript, U!Dispatch, U!Unlock,
       U!FailProgress, U!At, U!Working
  <2> QED
    BY <2>1
<1>3. ASSUME NEW u \in Updater, U!Script(u) \/ U!StartPanel(u) \/ U!StartInVain(u)
      PROVE  DownIsQuiet'
  <2>1. UNCHANGED pc /\ (UNCHANGED up \/ up')
    BY <1>3 DEF U!Script, U!Verified, U!GivesUp, U!CutShort, U!Swap, U!SwapFails, U!StartPanel,
       U!StartInVain, U!memory
  <2> QED
    BY <2>1
<1>4. ASSUME U!Reload \/ U!ReloadEnds \/ \E u \in Updater : U!StopPanel(u)
      PROVE  DownIsQuiet'
  BY <1>4 DEF U!Reload, U!ReloadEnds, U!StopPanel, U!Killed
<1>5. CASE UNCHANGED updateVars
  BY <1>5 DEF updateVars
<1> QED
  BY <1>1, <1>2, <1>3, <1>4, <1>5, Moves DEF UpdateMove

LEMMA ComingBackNext ==
    ASSUME UpdateInv, DownIsQuiet, DownIsComingBack, [Next]_vars
    PROVE  DownIsComingBack'
<1> USE DEF DownIsComingBack, UpdateInv
<1>1. CASE up'
  BY <1>1
<1> SUFFICES ASSUME ~up'
             PROVE  DownIsComingBack'
  BY <1>1
<1>2. ASSUME NEW u \in Updater, StopPanel(u)
      PROVE  DownIsComingBack'
  <2>1. upc'[u] = "swap"
    BY <1>2 DEF StopPanel, U!StopPanel, U!Reads, U!TypeOK
  <2> QED
    BY <2>1
<1>3. CASE SighupEnds \/ \E u \in Updater : StartInVain(u)
  BY <1>3 DEF SighupEnds, StartInVain
<1>4. CASE Sighup \/ \E u \in Updater : StartPanel(u)
  BY <1>4 DEF Sighup, StartPanel, U!Reload, U!StartPanel
<1>5. ASSUME NEW u \in Updater, RunScript(u)
      PROVE  DownIsComingBack'
  <2>1. U!Script(u) /\ UNCHANGED vain
    BY <1>5 DEF RunScript, OfUpdate
  <2>2. UNCHANGED up /\ UNCHANGED script /\ \A x \in Updater \ {u} : upc'[x] = upc[x]
    BY <2>1 DEF U!Script, U!Verified, U!GivesUp, U!CutShort, U!Swap, U!SwapFails, U!Reads, U!TypeOK
  <2>3. CASE U!Verified(u) \/ U!GivesUp(u)
    <3>1. upc[u] = "fetch" /\ UNCHANGED files
      BY <2>3 DEF U!Verified, U!GivesUp, U!Reads
    <3> QED
      BY <2>1, <2>2, <3>1
  <2>4. CASE U!CutShort(u)
    BY <2>2, <2>4 DEF U!CutShort
  <2>5. CASE U!Swap(u)
    <3>1. upc'[u] = "start"
      BY <2>5 DEF U!Swap, U!Reads, U!TypeOK
    <3> QED
      BY <3>1
  <2>6. CASE U!SwapFails(u)
    BY <2>6 DEF U!SwapFails
  <2> QED
    BY <2>1, <2>3, <2>4, <2>5, <2>6 DEF U!Script
<1>6. ASSUME NEW r \in Request, Update(r)
      PROVE  DownIsComingBack'
  <2>1. U!Work(r)
    BY <1>6 DEF Update, OfUpdate
  <2>2. pc[r] # "idle" /\ UNCHANGED up
    BY <2>1 DEF U!Work, U!FetchRelease, U!CreateScript, U!FillScript, U!Dispatch, U!Unlock,
       U!FailProgress, U!At, U!Working
  <2> QED
    BY <2>2 DEF DownIsQuiet
<1>7. CASE Call
  <2>1. UNCHANGED <<up, upc, script, files, vain>>
    BY <1>7 DEF Call, OfUpdate, OfBinding, OfCertificate, U!TryLock, updateVars
  <2> QED
    BY <2>1
<1>8. CASE \/ \E b \in Bind : BindDomain(b)
           \/ \E u \in Unbind : UnbindDomain(u)
           \/ \E w \in C!Writer : Write(w)
           \/ RestartXray \/ WatchLoop \/ UNCHANGED vars
  <2>1. UNCHANGED updateVars /\ UNCHANGED vain
    BY <1>8 DEF BindDomain, UnbindDomain, Write, RestartXray, WatchLoop, OfBinding, OfCertificate,
       vars
  <2> QED
    BY <2>1 DEF updateVars
<1> QED
  BY <1>2, <1>3, <1>4, <1>5, <1>6, <1>7, <1>8 DEF Next

\* update.sh:131-180: a panel that is down has an updater on its way to start
\* it, unless its script was cut short, the files could not be copied, or the
\* process did start and found no pair of certificate files.
THEOREM DownComesBack == Spec => []DownIsComingBack
<1> DEFINE Inv == UpdateInv /\ DownIsQuiet /\ DownIsComingBack
<1>1. Init => Inv
  BY InitUpdate DEF Init, U!Init, DownIsQuiet, DownIsComingBack
<1>2. Inv /\ [Next]_vars => Inv'
  BY UpdateInvNext, DownIsQuietNext, ComingBackNext
<1> QED
  BY <1>1, <1>2, PTL DEF Spec

-----------------------------------------------------------------------------
(* The certificate's files and its loader.                                  *)

\* The writer of the pair p will not write the file f any more.
Placed(p, f) ==
    \/ p = Shipped
    \/ wpc[p].at = "over"
    \/ f = "cert" /\ wpc[p].on = "key"
    \/ wpc[p].on = f /\ wpc[p].at = "move"

\* The content p of the file f has been replaced and cannot come back.
Gone(p, f) == Placed(p, f) /\ disk[f] # p /\ tmp[f] # p

OneCopy ==
    \A p \in C!Pair, f \in C!File :
        /\ disk[f] = p \/ tmp[f] = p => Placed(p, f)
        /\ ~(disk[f] = p /\ tmp[f] = p)

\* What the loader has seen of the certificate p that it took the time of: it
\* reads p itself, or p is gone.
SeenIsRead ==
    \A p \in C!Pair :
        /\ lpc \in {"statKey", "compare"} /\ statted["cert"] = p =>
               disk["cert"] = p \/ Gone(p, "cert")
        /\ lpc \in {"readKey", "store"} /\ statted["cert"] = p /\ read \in C!Pair =>
               read = p \/ Gone(p, "cert")
        /\ mtime["cert"] = p => cached = p \/ Gone(p, "cert")

UploadsFill == \A w \in C!Writer : wpc[w].at \in {"fill", "move"} => w \in Upload

CertInv == C!TypeOK /\ UploadsFill /\ OneCopy /\ SeenIsRead

LEMMA CertNames ==
    /\ C!Torn \notin C!Pair /\ C!Missing \notin C!Pair
    /\ Shipped \in C!Pair /\ Shipped \notin C!Writer
    /\ \A w \in C!Writer : w \in C!Pair <=> w \notin Removal
    /\ Upload \cap Renewal = {} /\ Removal \cap (Upload \cup Renewal) = {}
BY HostConstants DEF HostConstants, C!Pair, C!Writer

LEMMA InitCert == C!Init => CertInv
<1> SUFFICES ASSUME C!Init
             PROVE  CertInv
  OBVIOUS
<1>1. C!TypeOK
  BY DEF C!Init, C!TypeOK, C!File, C!Content, C!Pair, C!Idle
<1>2. OneCopy
  BY CertNames DEF C!Init, OneCopy, Placed, C!File
<1>3. SeenIsRead
  BY DEF C!Init, SeenIsRead, C!File
<1>4. UploadsFill
  BY DEF C!Init, UploadsFill, C!Idle
<1> QED
  BY <1>1, <1>2, <1>3, <1>4 DEF CertInv

\* Where a writer goes.
LEMMA Place ==
    ASSUME C!TypeOK, NEW w \in C!Writer
    PROVE  /\ wpc[w] = [at |-> wpc[w].at, on |-> wpc[w].on]
           /\ wpc[w].at \in {"idle", "open", "fill", "move", "over"}
           /\ wpc[w].on \in C!File
           /\ \A x : [wpc EXCEPT ![w] = x] =
                       [v \in C!Writer |-> IF v = w THEN x ELSE wpc[v]]
BY DEF C!TypeOK

LEMMA CertTypedNext ==
    ASSUME CertInv, CertMove
    PROVE  C!TypeOK' /\ UploadsFill'
<1> USE DEF CertInv
<1>1. ASSUME NEW w \in C!Writer,
             \/ C!Begin(w) \/ C!Open(w) \/ C!Fill(w) \/ C!Rename(w) \/ C!SaveFails(w)
             \/ C!Overwrite(w) \/ C!Remove(w)
      PROVE  C!TypeOK' /\ UploadsFill'
  <2>1. wpc' \in [C!Writer -> [at : {"idle", "open", "fill", "move", "over"}, on : C!File]]
    BY <1>1 DEF C!TypeOK, C!Begin, C!Open, C!Fill, C!Rename, C!SaveFails, C!Overwrite, C!Remove,
       C!Goes, C!Proceeds, C!Over, C!File
  <2>2. UploadsFill'
    <3>1. \A v \in C!Writer \ {w} : wpc'[v] = wpc[v]
      BY <1>1 DEF C!TypeOK, C!Begin, C!Open, C!Fill, C!Rename, C!SaveFails, C!Overwrite, C!Remove,
         C!Goes, C!Proceeds
    <3>2. wpc'[w].at \in {"fill", "move"} => w \in Upload
      BY <1>1, Place DEF C!TypeOK, C!Begin, C!Open, C!Fill, C!Rename, C!SaveFails, C!Overwrite,
         C!Remove, C!Goes, C!Proceeds, C!Over, UploadsFill
    <3> QED
      BY <3>1, <3>2 DEF UploadsFill
  <2>3. disk' \in [C!File -> C!Content] /\ tmp' \in [C!File -> C!Content]
    <3>1. /\ {C!Torn, C!Missing} \subseteq C!Content
          /\ wpc[w].on \in C!File
          /\ w \in Renewal \/ wpc[w].at = "fill" => w \in C!Content
      BY Place DEF C!Content, C!Pair, UploadsFill
    <3> QED
      BY <1>1, <3>1 DEF C!TypeOK, C!Begin, C!Open, C!Fill, C!Rename, C!SaveFails, C!Overwrite,
         C!Remove, C!Goes
  <2>4. fd' \in [C!Writer -> {"none", "tmp", "disk"}]
    <3>1. CASE C!Rename(w)
      BY <3>1 DEF C!TypeOK, C!Rename
    <3>2. CASE ~C!Rename(w)
      BY <1>1, <3>2 DEF C!TypeOK, C!Begin, C!Open, C!Fill, C!SaveFails, C!Overwrite, C!Remove
    <3> QED
      BY <3>1, <3>2
  <2>5. UNCHANGED <<cached, mtime, lpc, statted, read>>
    BY <1>1 DEF C!Begin, C!Open, C!Fill, C!Rename, C!SaveFails, C!Overwrite, C!Remove, C!loaderVars
  <2> QED
    BY <2>1, <2>2, <2>3, <2>4, <2>5 DEF C!TypeOK
<1>2. CASE C!Reload
  <2>1. UNCHANGED <<disk, tmp, wpc, fd>>
    BY <1>2 DEF C!Reload, C!StatCert, C!StatKey, C!Compare, C!ReadKey, C!Store, C!fileVars
  <2>2. /\ cached' \in C!Pair /\ mtime' \in [C!File -> C!Content]
        /\ lpc' \in {"wait", "statKey", "compare", "readKey", "store"}
        /\ statted' \in [C!File -> C!Content] /\ read' \in C!Content
    BY <1>2 DEF C!TypeOK, C!Reload, C!StatCert, C!StatKey, C!Compare, C!ReadKey, C!Store, C!File,
       C!Content
  <2> QED
    BY <2>1, <2>2 DEF C!TypeOK, UploadsFill
<1>3. CASE C!Killed
  BY <1>3 DEF C!TypeOK, C!Killed, C!Over, C!File, UploadsFill
<1>4. CASE C!Booted
  BY <1>4 DEF C!TypeOK, C!Booted, C!Whole, C!Parses, C!File, UploadsFill
<1> QED
  BY <1>1, <1>2, <1>3, <1>4 DEF CertMove, C!Write

\* No writer writes a content twice, and one that was replaced stays away.
LastsOrGone ==
    \A p \in C!Pair, f \in C!File :
        /\ Gone(p, f) => Gone(p, f)'
        /\ disk[f] = p => disk'[f] = p \/ Gone(p, f)'

LEMMA WriterStep ==
    ASSUME CertInv,
           C!Killed \/ \E w \in C!Writer : C!Begin(w) \/ C!Write(w)
    PROVE  OneCopy' /\ LastsOrGone
<1> USE DEF CertInv
<1>1. \A p \in C!Pair, f \in C!File : Placed(p, f) => Placed(p, f)'
  <2>1. CASE C!Killed
    BY <2>1, CertNames DEF C!Killed, C!TypeOK, C!Over, Placed, C!Pair, C!Writer
  <2>2. ASSUME NEW w \in C!Writer,
               \/ C!Begin(w) \/ C!Open(w) \/ C!Fill(w) \/ C!Rename(w) \/ C!SaveFails(w)
               \/ C!Overwrite(w) \/ C!Remove(w),
               NEW p \in C!Pair, NEW f \in C!File, Placed(p, f)
        PROVE  Placed(p, f)'
    <3>1. \A v \in C!Writer \ {w} : wpc'[v] = wpc[v]
      BY <2>2 DEF C!TypeOK, C!Begin, C!Open, C!Fill, C!Rename, C!SaveFails, C!Overwrite, C!Remove,
         C!Goes, C!Proceeds
    <3>2. CASE p = w
      BY <2>2, <3>2, Place DEF C!TypeOK, C!Begin, C!Open, C!Fill, C!Rename, C!SaveFails,
         C!Overwrite, C!Remove, C!Goes, C!Proceeds, C!Over, Placed, C!File
    <3>3. CASE p # w
      BY <2>2, <3>1, <3>3 DEF Placed, C!Pair, C!Writer
    <3> QED
      BY <3>2, <3>3
  <2> QED
    BY <2>1, <2>2 DEF C!Write
<1>2. ASSUME UNCHANGED <<disk, tmp>>
      PROVE  OneCopy' /\ LastsOrGone
  BY <1>1, <1>2 DEF OneCopy, LastsOrGone, Gone
<1>3. ASSUME NEW w \in C!Writer, NEW g \in C!File, g = wpc[w].on, C!Fill(w) \/ C!Overwrite(w)
      PROVE  OneCopy' /\ LastsOrGone
  <2>1. w \in C!Pair /\ w # Shipped
    BY <1>3, CertNames DEF C!Fill, C!Overwrite, C!Goes, UploadsFill
  <2>2. ~Placed(w, g)
    BY <1>3, <2>1 DEF C!Fill, C!Overwrite, C!Goes, Placed, C!File
  <2>3. Placed(w, g)'
    BY <1>3, <2>1, Place DEF C!Fill, C!Overwrite, C!Goes, C!Proceeds, C!Over, Placed, C!File, C!TypeOK
  <2>4. /\ \A f \in C!File \ {g} : disk'[f] = disk[f] /\ tmp'[f] = tmp[f]
        /\ \/ disk'[g] = w /\ tmp'[g] = tmp[g]
           \/ disk'[g] = disk[g] /\ tmp'[g] = w
           \/ disk'[g] = disk[g] /\ tmp'[g] = tmp[g]
    BY <1>3, <2>1 DEF C!Fill, C!Overwrite, C!TypeOK
  <2>5. disk[g] # w /\ tmp[g] # w
    BY <1>3, <2>1, <2>2 DEF OneCopy
  <2>6. ASSUME NEW p \in C!Pair, NEW f \in C!File
        PROVE  /\ disk'[f] = p \/ tmp'[f] = p => Placed(p, f)'
               /\ ~(disk'[f] = p /\ tmp'[f] = p)
    BY <1>1, <2>3, <2>4, <2>5 DEF OneCopy
  <2>7. ASSUME NEW p \in C!Pair, NEW f \in C!File
        PROVE  /\ Gone(p, f) => Gone(p, f)'
               /\ disk[f] = p => disk'[f] = p \/ Gone(p, f)'
    <3>1. CASE f = g /\ p = w
      BY <2>2, <2>5, <3>1 DEF Gone
    <3>2. CASE f # g \/ p # w
      BY <1>1, <2>4, <3>2 DEF OneCopy, Gone
    <3> QED
      BY <3>1, <3>2
  <2> QED
    BY <2>6, <2>7 DEF OneCopy, LastsOrGone
<1>4. ASSUME NEW w \in C!Writer, NEW g \in C!File, g = wpc[w].on,
             C!Open(w) \/ C!Rename(w) \/ C!Remove(w)
      PROVE  OneCopy' /\ LastsOrGone
  <2>1. /\ \A f \in C!File \ {g} : disk'[f] = disk[f] /\ tmp'[f] = tmp[f]
        /\ \/ disk'[g] = disk[g] /\ tmp'[g] = C!Torn
           \/ disk'[g] = tmp[g] /\ tmp'[g] = C!Missing
           \/ disk'[g] = C!Missing /\ tmp'[g] = tmp[g]
    BY <1>4 DEF C!Open, C!Rename, C!Remove, C!TypeOK
  <2> QED
    BY <1>1, <1>4, <2>1, CertNames DEF OneCopy, LastsOrGone, Gone
<1>5. ASSUME C!Killed \/ \E w \in C!Writer : C!Begin(w) \/ C!SaveFails(w)
      PROVE  UNCHANGED <<disk, tmp>>
  BY <1>5 DEF C!Killed, C!Begin, C!SaveFails
<1> QED
  BY <1>2, <1>3, <1>4, <1>5, Place DEF C!Write

LEMMA CertInvNext ==
    ASSUME CertInv, [Next]_vars
    PROVE  CertInv'
<1> USE DEF CertInv
<1>1. CASE \E w \in C!Writer : C!Begin(w) \/ C!Write(w)
  <2>1. UNCHANGED <<cached, mtime, lpc, statted, read>>
    BY <1>1 DEF C!Begin, C!Write, C!Open, C!Fill, C!Rename, C!SaveFails, C!Overwrite, C!Remove,
       C!loaderVars
  <2>2. SeenIsRead'
    BY <1>1, <2>1, WriterStep DEF SeenIsRead, LastsOrGone, C!File
  <2> QED
    BY <1>1, <2>2, WriterStep, CertTypedNext DEF CertMove
<1>2. CASE C!Killed
  <2>1. UNCHANGED <<disk, cached, mtime, statted, read>> /\ lpc' = "wait"
    BY <1>2 DEF C!Killed
  <2>2. SeenIsRead'
    BY <1>2, <2>1, WriterStep DEF SeenIsRead, LastsOrGone, C!File
  <2> QED
    BY <1>2, <2>2, WriterStep, CertTypedNext DEF CertMove
<1>3. CASE C!Reload \/ C!Booted
  <2>1. UNCHANGED <<disk, tmp, wpc>>
    BY <1>3 DEF C!Reload, C!StatCert, C!StatKey, C!Compare, C!ReadKey, C!Store, C!fileVars, C!Booted
  <2>2. \A p \in C!Pair : Gone(p, "cert")' <=> Gone(p, "cert")
    BY <2>1 DEF Gone, Placed
  <2>3. OneCopy'
    BY <2>1 DEF OneCopy, Placed
  <2>4. ASSUME C!StatCert \/ C!StatKey
        PROVE  SeenIsRead'
    BY <2>1, <2>2, <2>4 DEF C!StatCert, C!StatKey, SeenIsRead, C!TypeOK, C!File
  <2>5. ASSUME C!Compare
        PROVE  SeenIsRead'
    BY <2>1, <2>2, <2>5 DEF C!Compare, SeenIsRead
  <2>6. ASSUME C!ReadKey
        PROVE  SeenIsRead'
    BY <2>1, <2>2, <2>6, CertNames DEF C!ReadKey, SeenIsRead
  <2>7. ASSUME C!Store
        PROVE  SeenIsRead'
    BY <2>1, <2>2, <2>7 DEF C!Store, SeenIsRead
  <2>8. ASSUME C!Booted
        PROVE  SeenIsRead'
    BY <2>1, <2>8 DEF C!Booted, SeenIsRead
  <2> QED
    BY <1>3, <2>3, <2>4, <2>5, <2>6, <2>7, <2>8, CertTypedNext DEF CertMove, C!Reload
<1>4. CASE UNCHANGED certVars
  BY <1>4 DEF certVars, C!TypeOK, C!Whole, UploadsFill, OneCopy, Placed, Gone, SeenIsRead
<1> QED
  BY <1>1, <1>2, <1>3, <1>4, Moves DEF CertMove

\* cert_loader.go:3-8: however the writes of the two files fall between the
\* stats and the reads of the loader, it never takes a pair on disk for the one
\* it serves when it is another.
THEOREM PairIsNeverMissed == Spec => []NewPairIsNoticed
<1>1. Init => CertInv
  BY InitCert DEF Init
<1>2. CertInv /\ [Next]_vars => CertInv'
  BY CertInvNext
<1>3. CertInv => NewPairIsNoticed
  BY DEF CertInv, SeenIsRead, Gone, NewPairIsNoticed, C!Whole, C!Parses
<1> QED
  BY <1>1, <1>2, <1>3, PTL DEF Spec

-----------------------------------------------------------------------------
(* The binding of domains.                                                  *)

\* Past the opening of its conf, and not yet taking it back.
Written == {"test", "reload", "start", "node", "undoConf", "flag", "ok", "killed"}
HasInbound == {"open", "write", "test", "reload", "start", "node", "undoConf", "undoInbound",
               "flag", "ok"}

\* No call has overlapped b, nor followed it on its domain.
Alone(b) == b \notin crossed

DomKnown ==
    /\ \A c \in D!Call : bpc[c] # "idle" => dom[c] \in Domain
    /\ \A b \in Bind : bpc[b] = "write" => env[b].dir

InboundKept ==
    \A b \in Bind :
        /\ bpc[b] \in HasInbound => b \in inbounds
        /\ b \in inbounds => bpc[b] \in HasInbound \cup {"killed"}

\* A conf on disk, or loaded, is that of a call of the domain that wrote it.
ConfIsOwn ==
    \A b \in Bind, d \in Domain :
        /\ conf[d] = b => dom[b] = d /\ env[b].dir /\ bpc[b] \in Written
        /\ live[d] = b => bpc[b] \in Written \cup {"undoInbound", "failed"}

\* A call that is alone is at work alone, and nobody works on its domain after
\* it.
Apart ==
    \A b \in Bind, c \in D!Call :
        Alone(b) /\ c # b /\ c \in D!Active =>
            /\ b \notin D!Active
            /\ bpc[b] \in {"flag", "ok"} => dom[c] # dom[b]

NotLoaded ==
    \A b \in Bind, d \in Domain :
        /\ Alone(b) /\ left[b] # "unsure"
        /\ bpc[b] \in {"test", "reload", "start", "undoConf", "undoInbound", "failed"}
        => live[d] # b

\* How far a call that is alone has come.
Progress(b) ==
    /\ bpc[b] = "write" => conf[dom[b]] = D!Torn
    /\ env[b].dir /\ bpc[b] \in {"test", "reload", "start", "node", "flag", "ok"} =>
           conf[dom[b]] = b
    /\ env[b].dir /\ left[b] # "unsure" /\ bpc[b] \in {"node", "flag", "ok"} =>
           live[dom[b]] = b
    /\ bpc[b] \in {"reload", "start"} => D!Sound
    /\ bpc[b] = "start" /\ left[b] # "unsure" => nginx # "running"

HalfKnown ==
    /\ D!HalfFilesAreKnown
    /\ \A b \in Bind : left[b] = "half" => bpc[b] \in {"undoInbound", "failed", "killed"}

BindInv ==
    /\ D!TypeOK /\ DomKnown /\ InboundKept /\ ConfIsOwn /\ Apart /\ NotLoaded /\ HalfKnown
    /\ \A b \in Bind : Alone(b) => Progress(b)

LEMMA BindNames ==
    /\ D!None \notin Bind /\ D!Torn \notin Bind
    /\ Bind \cap Unbind = {} /\ D!Call = Bind \cup Unbind
BY HostConstants DEF HostConstants, D!Call

LEMMA InitBind == D!Init => BindInv
<1> SUFFICES ASSUME D!Init
             PROVE  BindInv
  OBVIOUS
<1>1. D!TypeOK
  BY DEF D!Init, D!TypeOK, D!Call
<1>2. \A c \in D!Call : bpc[c] = "idle"
  BY DEF D!Init
<1>3. DomKnown /\ Apart /\ NotLoaded /\ \A b \in Bind : Progress(b)
  BY <1>2 DEF DomKnown, Apart, NotLoaded, Progress, D!Call, D!Active, D!Busy, D!UnbindBusy
<1>4. InboundKept /\ ConfIsOwn
  BY <1>2, BindNames DEF InboundKept, HasInbound, ConfIsOwn, D!Init, D!Call
<1>5. HalfKnown
  BY DEF HalfKnown, D!HalfFilesAreKnown, D!Init, D!None, D!Torn
<1> QED
  BY <1>1, <1>3, <1>4, <1>5 DEF BindInv

\* What the step of a call can touch: its own place and environment, the conf
\* of its domain, and what nginx has loaded, which it loads from disk.
CallStep(x) == (x \in Bind /\ D!Step(x)) \/ (x \in Unbind /\ D!UnbindStep(x))

LEMMA StepShape ==
    ASSUME D!TypeOK, NEW x \in D!Call, CallStep(x)
    PROVE  /\ UNCHANGED <<dom, crossed>>
           /\ \A c \in D!Call \ {x} : bpc'[c] = bpc[c]
           /\ bpc[x] \in D!Busy \cup D!UnbindBusy \cup {"flag"}
           /\ \A b \in Bind \ {x} : env'[b] = env[b] /\ left'[b] = left[b]
           /\ \A d \in Domain : d # dom[x] => conf'[d] = conf[d]
           /\ live' = live \/ live' = conf
           /\ bpc[x] = "flag" => UNCHANGED <<conf, live, nginx>> /\ bpc'[x] = "ok"
<1> USE DEF D!TypeOK, D!At, D!Busy, D!UnbindBusy, D!nginxVars, D!xrayVars, D!callVars
<1>1. CASE \/ D!DetectEnvironment(x) \/ D!InstallNginx(x) \/ D!InstallAcme(x) \/ D!NoConflict(x)
           \/ D!AcquireCert(x) \/ D!GivesUp(x)
  BY <1>1 DEF D!DetectEnvironment, D!InstallNginx, D!InstallAcme, D!NoConflict, D!AcquireCert,
     D!GivesUp, D!Fails
<1>2. CASE D!AddInbound(x) \/ D!OpenConf(x) \/ D!WriteConf(x) \/ D!WriteFails(x)
  BY <1>2 DEF D!AddInbound, D!OpenConf, D!WriteConf, D!WriteFails, D!Leaves
<1>3. CASE \/ D!TestConf(x) \/ D!TestFails(x) \/ D!ReloadNginx(x) \/ D!ReloadFails(x)
           \/ D!StartNginx(x) \/ D!StartFails(x)
  BY <1>3 DEF D!TestConf, D!TestFails, D!ReloadNginx, D!ReloadFails, D!StartNginx, D!StartFails,
     D!Starts, D!Leaves
<1>4. CASE D!UndoConf(x) \/ D!UndoInbound(x) \/ D!SetNodeAddress(x) \/ D!SetToNeedRestart(x)
  BY <1>4 DEF D!UndoConf, D!UndoInbound, D!SetNodeAddress, D!SetToNeedRestart
<1>5. CASE D!RemoveConf(x) \/ D!TestRemoved(x) \/ D!ReloadRemoved(x) \/ D!UnbindFails(x)
  BY <1>5 DEF D!RemoveConf, D!TestRemoved, D!ReloadRemoved, D!UnbindFails
<1> QED
  BY <1>1, <1>2, <1>3, <1>4, <1>5 DEF CallStep, D!Step, D!UnbindStep

LEMMA BindTypedNext ==
    ASSUME BindInv, BindMove
    PROVE  D!TypeOK'
<1> USE DEF BindInv, D!TypeOK
<1>1. ASSUME NEW x \in D!Call, CallStep(x)
      PROVE  D!TypeOK'
  <2> USE DEF D!At, D!Busy, D!UnbindBusy, D!nginxVars, D!xrayVars, D!callVars
  <2>1. dom[x] \in Domain
    BY <1>1, StepShape DEF DomKnown
  <2> USE DEF CallStep, D!Step, D!UnbindStep, D!DetectEnvironment, D!InstallNginx, D!InstallAcme,
      D!NoConflict, D!AcquireCert, D!GivesUp, D!Fails, D!AfterNginx, D!AddInbound, D!OpenConf,
      D!WriteConf, D!WriteFails, D!TestConf, D!TestFails, D!ReloadNginx, D!ReloadFails,
      D!StartNginx, D!StartFails, D!Starts, D!Leaves, D!UndoConf, D!UndoInbound, D!SetNodeAddress, D!SetToNeedRestart,
      D!RemoveConf, D!TestRemoved, D!ReloadRemoved, D!UnbindFails
  <2>2. bpc' \in [D!Call -> D!Busy \cup D!UnbindBusy \cup {"idle", "flag", "ok", "failed", "killed"}]
    BY <1>1
  <2>3. inflight' \subseteq inflight /\ (x \in inflight' => bpc'[x] \in D!Busy)
    BY <1>1, BindNames
  <2>4. /\ nginx' \in {"absent", "stopped", "running"} /\ acme' \in BOOLEAN /\ flag' \in BOOLEAN
        /\ confd' \in BOOLEAN
        /\ stray' \subseteq Domain /\ nodeAddress' \in Domain \cup {D!None}
    BY <1>1, <2>1
  <2>5. /\ inbounds' \subseteq Bind /\ applied' \subseteq Bind /\ crossed' \subseteq Bind
        /\ missed' \subseteq Bind /\ left' \in [Bind -> {"nothing", "half", "unsure"}]
    BY <1>1, <2>1
  <2>6. /\ conf' \in [Domain -> Bind \cup {D!None, D!Torn}]
    BY <1>1, <2>1
  <2>7. live' = live \/ (live' = conf /\ D!Sound)
    BY <1>1 DEF D!Loadable
  <2>8. \/ env' = env
        \/ env' = [env EXCEPT ![x] = [dir |-> confd, acme |-> acme]]
        \/ env' = [env EXCEPT ![x] = [dir |-> confd, acme |-> TRUE]]
    BY <1>1
  <2> HIDE DEF CallStep, D!Step, D!UnbindStep
  <2>9. env' \in [Bind -> [dir : BOOLEAN, acme : BOOLEAN]]
    <3>1. \A e \in [dir : BOOLEAN, acme : BOOLEAN] :
              [env EXCEPT ![x] = e] \in [Bind -> [dir : BOOLEAN, acme : BOOLEAN]]
      OBVIOUS
    <3>2. /\ [dir |-> confd, acme |-> acme] \in [dir : BOOLEAN, acme : BOOLEAN]
          /\ [dir |-> confd, acme |-> TRUE] \in [dir : BOOLEAN, acme : BOOLEAN]
      BY Zenon
    <3> QED
      BY <2>8, <3>1, <3>2
  <2>10. live' \in [Domain -> Bind \cup {D!None}]
    BY <2>7 DEF D!Sound
  <2>11. dom' \in [D!Call -> Domain \cup {D!None}]
    BY <1>1, StepShape
  <2>12. inflight' \subseteq {b \in Bind : bpc'[b] \in D!Busy}
    BY <1>1, <2>3, StepShape, BindNames
  <2> QED
    BY <2>2, <2>4, <2>5, <2>6, <2>9, <2>10, <2>11, <2>12
<1>2. ASSUME NEW d \in Domain,
             \/ \E b \in Bind : D!Begin(b, d)
             \/ \E u \in Unbind : D!BeginUnbind(u, d)
      PROVE  D!TypeOK'
  BY <1>2, BindNames DEF D!Begin, D!BeginUnbind, D!Arrives, D!At, D!Busy, D!UnbindBusy, D!nginxVars,
     D!xrayVars
<1>3. CASE D!RestartXray \/ D!RestartFails \/ D!Killed \/ D!Booted \/ D!NewServer
  BY <1>3 DEF D!RestartXray, D!RestartFails, D!Applies, D!Misses, D!Killed, D!Booted,
     D!NewServer, D!Busy, D!UnbindBusy, D!nginxVars,
     D!xrayVars, D!callVars
<1> QED
  BY <1>1, <1>2, <1>3, BindNames DEF BindMove, CallStep
LEMMA DomKnownNext ==
    ASSUME BindInv, BindMove
    PROVE  DomKnown'
<1> USE DEF BindInv, DomKnown
<1>1. ASSUME NEW x \in D!Call, CallStep(x)
      PROVE  DomKnown'
  <2>1. \A c \in D!Call : bpc'[c] # "idle" => dom'[c] \in Domain
    BY <1>1, StepShape DEF D!Busy, D!UnbindBusy
  <2>2. x \in Bind /\ bpc'[x] = "write" => env'[x].dir
    BY <1>1, BindNames DEF CallStep, D!TypeOK, D!At, D!Step, D!UnbindStep, D!DetectEnvironment,
       D!InstallNginx, D!InstallAcme, D!NoConflict,
       D!AcquireCert, D!GivesUp, D!Fails, D!AfterNginx, D!AddInbound, D!OpenConf, D!WriteConf,
       D!WriteFails, D!TestConf, D!TestFails, D!ReloadNginx, D!ReloadFails, D!StartNginx,
       D!StartFails, D!Starts, D!Leaves, D!UndoConf, D!UndoInbound, D!SetNodeAddress,
       D!SetToNeedRestart, D!callVars
  <2> QED
    BY <1>1, <2>1, <2>2, StepShape, BindNames
<1>2. ASSUME NEW d \in Domain,
             \/ \E b \in Bind : D!Begin(b, d)
             \/ \E u \in Unbind : D!BeginUnbind(u, d)
      PROVE  DomKnown'
  BY <1>2, BindNames DEF D!Begin, D!BeginUnbind, D!Arrives, D!At, D!TypeOK
<1>3. CASE D!RestartXray \/ D!RestartFails \/ D!Killed \/ D!Booted \/ D!NewServer
  BY <1>3, BindNames DEF D!RestartXray, D!RestartFails, D!Applies, D!Misses, D!Killed, D!Booted,
     D!NewServer, D!callVars, D!TypeOK,
     D!Active, D!Busy, D!UnbindBusy
<1> QED
  BY <1>1, <1>2, <1>3, BindNames DEF BindMove, CallStep

LEMMA InboundNext ==
    ASSUME BindInv, BindMove
    PROVE  InboundKept'
<1> USE DEF BindInv, InboundKept
<1>1. ASSUME NEW x \in D!Call, CallStep(x)
      PROVE  InboundKept'
  <2>1. x \in Unbind => inbounds' = inbounds
    BY <1>1, BindNames DEF CallStep, D!UnbindStep, D!RemoveConf, D!TestRemoved, D!ReloadRemoved,
       D!UnbindFails, D!xrayVars
  <2>2. ASSUME x \in Bind
        PROVE  /\ bpc'[x] \in HasInbound => x \in inbounds'
               /\ x \in inbounds' => bpc'[x] \in HasInbound \cup {"killed"}
               /\ \A b \in Bind \ {x} : b \in inbounds' <=> b \in inbounds
    <3> USE DEF D!TypeOK, D!At, D!xrayVars, HasInbound
    <3>1. D!Step(x)
      BY <1>1, <2>2, BindNames DEF CallStep
    <3>2. CASE \/ D!DetectEnvironment(x) \/ D!InstallNginx(x) \/ D!InstallAcme(x) \/ D!NoConflict(x)
               \/ D!AcquireCert(x) \/ D!GivesUp(x)
      BY <2>2, <3>2 DEF D!DetectEnvironment, D!InstallNginx, D!InstallAcme, D!NoConflict, D!AcquireCert,
         D!GivesUp, D!Fails, D!AfterNginx
    <3>3. CASE D!AddInbound(x) \/ D!OpenConf(x) \/ D!WriteConf(x) \/ D!WriteFails(x)
      BY <2>2, <3>3 DEF D!AddInbound, D!OpenConf, D!WriteConf, D!WriteFails, D!Leaves
    <3>4. CASE \/ D!TestConf(x) \/ D!TestFails(x) \/ D!ReloadNginx(x) \/ D!ReloadFails(x)
               \/ D!StartNginx(x) \/ D!StartFails(x)
      BY <2>2, <3>4 DEF D!TestConf, D!TestFails, D!ReloadNginx, D!ReloadFails, D!StartNginx,
         D!StartFails, D!Starts, D!Leaves
    <3>5. CASE D!UndoConf(x) \/ D!UndoInbound(x) \/ D!SetNodeAddress(x) \/ D!SetToNeedRestart(x)
      BY <2>2, <3>5 DEF D!UndoConf, D!UndoInbound, D!SetNodeAddress, D!SetToNeedRestart
    <3> QED
      BY <3>1, <3>2, <3>3, <3>4, <3>5 DEF D!Step
  <2> QED
    BY <1>1, <2>1, <2>2, StepShape, BindNames
<1>2. ASSUME NEW d \in Domain,
             \/ \E b \in Bind : D!Begin(b, d)
             \/ \E u \in Unbind : D!BeginUnbind(u, d)
      PROVE  InboundKept'
  BY <1>2, BindNames DEF D!Begin, D!BeginUnbind, D!At, D!TypeOK, D!xrayVars, HasInbound
<1>3. CASE D!RestartXray \/ D!RestartFails \/ D!Killed \/ D!Booted \/ D!NewServer
  BY <1>3, BindNames DEF D!RestartXray, D!RestartFails, D!Applies, D!Misses, D!Killed, D!Booted,
     D!NewServer, D!callVars, D!TypeOK,
     HasInbound, D!Active, D!Busy
<1> QED
  BY <1>1, <1>2, <1>3, BindNames DEF BindMove, CallStep

LEMMA ConfNext ==
    ASSUME BindInv, BindMove
    PROVE  ConfIsOwn'
<1> USE DEF BindInv, ConfIsOwn
<1>1. ASSUME NEW x \in D!Call, CallStep(x)
      PROVE  ConfIsOwn'
  <2>1. ASSUME x \in Unbind
        PROVE  \A d \in Domain : conf'[d] = conf[d] \/ conf'[d] = D!None
    BY <1>1, <2>1, BindNames DEF CallStep, D!UnbindStep, D!RemoveConf, D!TestRemoved,
       D!ReloadRemoved, D!UnbindFails, D!TypeOK, D!nginxVars
  <2>2. ASSUME x \in Bind
        PROVE  \A d \in Domain :
                   /\ conf'[d] = conf[d] \/ conf'[d] \in {D!None, D!Torn} \/ conf'[d] = x
                   /\ conf'[d] = x => dom[x] = d /\ env'[x].dir /\ bpc'[x] \in Written
                   /\ conf[d] = x => bpc'[x] \in Written \cup {"undoInbound"}
                   /\ live[d] = x => bpc'[x] \in Written \cup {"undoInbound", "failed"}
    <3> USE DEF D!TypeOK, D!At, D!nginxVars, D!callVars, Written
    <3>1. D!Step(x)
      BY <1>1, <2>2, BindNames DEF CallStep
    <3>2. CASE \/ D!DetectEnvironment(x) \/ D!InstallNginx(x) \/ D!InstallAcme(x) \/ D!NoConflict(x)
               \/ D!AcquireCert(x) \/ D!GivesUp(x)
      BY <2>2, <3>2 DEF D!DetectEnvironment, D!InstallNginx, D!InstallAcme, D!NoConflict, D!AcquireCert,
         D!GivesUp, D!Fails, D!AfterNginx
    <3>3. CASE D!AddInbound(x) \/ D!OpenConf(x) \/ D!WriteConf(x) \/ D!WriteFails(x)
      BY <2>2, <3>3, BindNames DEF D!AddInbound, D!OpenConf, D!WriteConf, D!WriteFails, D!Leaves, DomKnown
    <3>4. CASE \/ D!TestConf(x) \/ D!TestFails(x) \/ D!ReloadNginx(x) \/ D!ReloadFails(x)
               \/ D!StartNginx(x) \/ D!StartFails(x)
      BY <2>2, <3>4 DEF D!TestConf, D!TestFails, D!ReloadNginx, D!ReloadFails, D!StartNginx,
         D!StartFails, D!Starts, D!Leaves
    <3>5. CASE D!UndoConf(x) \/ D!UndoInbound(x) \/ D!SetNodeAddress(x) \/ D!SetToNeedRestart(x)
      BY <2>2, <3>5, BindNames DEF D!UndoConf, D!UndoInbound, D!SetNodeAddress, D!SetToNeedRestart
    <3> QED
      BY <3>1, <3>2, <3>3, <3>4, <3>5 DEF D!Step
  <2>3. ASSUME NEW b \in Bind, NEW d \in Domain
        PROVE  /\ conf'[d] = b => dom'[b] = d /\ env'[b].dir /\ bpc'[b] \in Written
               /\ live'[d] = b => bpc'[b] \in Written \cup {"undoInbound", "failed"}
    BY <1>1, <2>1, <2>2, StepShape, BindNames
  <2> QED
    BY <2>3
<1>2. ASSUME NEW d \in Domain,
             \/ \E b \in Bind : D!Begin(b, d)
             \/ \E u \in Unbind : D!BeginUnbind(u, d)
      PROVE  ConfIsOwn'
  BY <1>2, BindNames DEF D!Begin, D!BeginUnbind, D!Arrives, D!At, D!TypeOK, D!nginxVars, Written
<1>3. CASE D!RestartXray \/ D!RestartFails \/ D!Killed \/ D!Booted \/ D!NewServer
  BY <1>3, BindNames DEF D!RestartXray, D!RestartFails, D!Applies, D!Misses, D!Killed, D!Booted,
     D!NewServer, D!callVars, D!nginxVars,
     D!TypeOK, Written
<1> QED
  BY <1>1, <1>2, <1>3, BindNames DEF BindMove, CallStep

LEMMA ApartNext ==
    ASSUME BindInv, BindMove
    PROVE  Apart'
<1> USE DEF BindInv, Apart, Alone
<1>1. ASSUME NEW x \in D!Call, CallStep(x)
      PROVE  Apart'
  <2>1. \A c \in D!Call : c \in D!Active' => c \in D!Active
    BY <1>1, StepShape DEF D!Active, D!Busy, D!UnbindBusy
  <2>2. \A b \in Bind : bpc'[b] \in {"flag", "ok"} => bpc[b] \in {"flag", "ok"} \/ b \in D!Active
    BY <1>1, StepShape, BindNames DEF D!Active
  <2> QED
    BY <1>1, <2>1, <2>2, StepShape, BindNames
<1>2. ASSUME NEW x \in D!Call, NEW d \in Domain,
             (x \in Bind /\ D!Begin(x, d)) \/ (x \in Unbind /\ D!BeginUnbind(x, d))
      PROVE  Apart'
  <2>1. /\ \A c \in D!Call \ {x} : bpc'[c] = bpc[c] /\ dom'[c] = dom[c]
        /\ bpc[x] = "idle" /\ dom'[x] = d
        /\ bpc'[x] \notin {"flag", "ok"}
    BY <1>2 DEF D!Begin, D!BeginUnbind, D!Arrives, D!At, D!TypeOK
  <2>2. \A b \in Bind :
            b \notin crossed' => /\ b \notin crossed /\ b \notin D!Active /\ dom[b] # d
                                 /\ b = x => D!Active = {}
    BY <1>2, BindNames DEF D!Begin, D!BeginUnbind, D!Arrives
  <2>3. \A c \in D!Call \ {x} : c \in D!Active' <=> c \in D!Active
    BY <2>1 DEF D!Active
  <2> QED
    BY <2>1, <2>2, <2>3, BindNames
<1>3. CASE D!RestartXray \/ D!RestartFails \/ D!Booted \/ D!NewServer
  BY <1>3 DEF D!RestartXray, D!RestartFails, D!Applies, D!Misses, D!Booted, D!NewServer, D!callVars, D!Active
<1>4. CASE D!Killed
  <2>1. D!Active' = {}
    BY <1>4 DEF D!Killed, D!Active, D!Busy, D!UnbindBusy, D!TypeOK
  <2> QED
    BY <2>1
<1> QED
  BY <1>1, <1>2, <1>3, <1>4, BindNames DEF BindMove, CallStep
LEMMA NotLoadedNext ==
    ASSUME BindInv, BindMove
    PROVE  NotLoaded'
<1> USE DEF BindInv, NotLoaded, Alone
<1>1. ASSUME NEW x \in D!Call, CallStep(x)
      PROVE  NotLoaded'
  <2> DEFINE Back == {"test", "reload", "start", "undoConf", "undoInbound", "failed"}
  <2>1. ASSUME x \in Bind
        PROVE  /\ bpc'[x] \in Back /\ bpc[x] \notin Back =>
                   bpc[x] \in {"detect", "install", "installAcme", "conflict", "acme", "add", "open", "write"}
               /\ bpc'[x] \in Back /\ left'[x] # "unsure" =>
                   live' = live /\ (bpc[x] \in Back => left[x] # "unsure")
    <3> USE DEF D!TypeOK, D!At, D!nginxVars, D!callVars
    <3>1. D!Step(x)
      BY <1>1, <2>1, BindNames DEF CallStep
    <3>2. CASE \/ D!DetectEnvironment(x) \/ D!InstallNginx(x) \/ D!InstallAcme(x) \/ D!NoConflict(x)
               \/ D!AcquireCert(x) \/ D!GivesUp(x)
      BY <2>1, <3>2 DEF D!DetectEnvironment, D!InstallNginx, D!InstallAcme, D!NoConflict, D!AcquireCert,
         D!GivesUp, D!Fails, D!AfterNginx
    <3>3. CASE D!AddInbound(x) \/ D!OpenConf(x) \/ D!WriteConf(x) \/ D!WriteFails(x)
      BY <2>1, <3>3 DEF D!AddInbound, D!OpenConf, D!WriteConf, D!WriteFails, D!Leaves
    <3>4. CASE \/ D!TestConf(x) \/ D!TestFails(x) \/ D!ReloadNginx(x) \/ D!ReloadFails(x)
               \/ D!StartNginx(x) \/ D!StartFails(x)
      BY <2>1, <3>4 DEF D!TestConf, D!TestFails, D!ReloadNginx, D!ReloadFails, D!StartNginx,
         D!StartFails, D!Starts, D!Leaves
    <3>5. CASE D!UndoConf(x) \/ D!UndoInbound(x) \/ D!SetNodeAddress(x) \/ D!SetToNeedRestart(x)
      BY <2>1, <3>5 DEF D!UndoConf, D!UndoInbound, D!SetNodeAddress, D!SetToNeedRestart
    <3> QED
      BY <3>1, <3>2, <3>3, <3>4, <3>5 DEF D!Step
  <2>2. ASSUME NEW b \in Bind, b # x, b \notin crossed, left[b] # "unsure", NEW d \in Domain,
               bpc[b] \in Back
        PROVE  live'[d] # b
    <3>1. CASE bpc[x] = "flag"
      BY <1>1, <2>2, <3>1, StepShape
    <3>2. CASE bpc[x] # "flag"
      <4>1. x \in D!Active
        BY <1>1, <3>2, StepShape DEF D!Active
      <4>2. b \notin D!Active
        BY <2>2, <4>1 DEF Apart
      <4>3. bpc[b] = "failed"
        BY <2>2, <4>2, BindNames DEF D!Active, D!Busy
      <4>4. conf[d] # b
        BY <2>2, <4>3 DEF ConfIsOwn, Written
      <4> QED
        BY <1>1, <2>2, <4>4, StepShape
    <3> QED
      BY <3>1, <3>2
  <2>3. ASSUME x \in Bind, x \notin crossed, left'[x] # "unsure", bpc'[x] \in Back,
               NEW d \in Domain
        PROVE  live'[d] # x
    <3>1. CASE bpc[x] \in Back
      BY <2>1, <2>3, <3>1
    <3>2. CASE bpc[x] \notin Back
      BY <2>1, <2>3, <3>2 DEF ConfIsOwn, Written
    <3> QED
      BY <3>1, <3>2
  <2> QED
    BY <1>1, <2>2, <2>3, StepShape, BindNames
<1>2. ASSUME NEW d \in Domain,
             \/ \E b \in Bind : D!Begin(b, d)
             \/ \E u \in Unbind : D!BeginUnbind(u, d)
      PROVE  NotLoaded'
  BY <1>2, BindNames DEF D!Begin, D!BeginUnbind, D!Arrives, D!At, D!TypeOK, D!nginxVars
<1>3. CASE D!RestartXray \/ D!RestartFails \/ D!Killed \/ D!Booted \/ D!NewServer
  BY <1>3, BindNames DEF D!RestartXray, D!RestartFails, D!Applies, D!Misses, D!Killed, D!Booted,
     D!NewServer, D!callVars, D!nginxVars,
     D!TypeOK
<1> QED
  BY <1>1, <1>2, <1>3, BindNames DEF BindMove, CallStep

LEMMA ProgressNext ==
    ASSUME BindInv, BindMove, NEW b \in Bind, Alone(b)'
    PROVE  Progress(b)'
<1> USE DEF BindInv, Progress, Alone
<1>1. ASSUME NEW x \in D!Call, CallStep(x), x # b
      PROVE  Progress(b)'
  <2>1. /\ Alone(b) /\ Progress(b) /\ bpc'[b] = bpc[b] /\ env'[b] = env[b] /\ dom'[b] = dom[b]
        /\ left'[b] = left[b]
    BY <1>1, StepShape, BindNames
  <2>2. CASE bpc[x] = "flag"
    BY <1>1, <2>1, <2>2, StepShape DEF D!Sound
  <2>3. CASE bpc[x] # "flag"
    <3>1. x \in D!Active
      BY <1>1, <2>3, StepShape DEF D!Active
    <3>2. b \notin D!Active /\ (bpc[b] \in {"flag", "ok"} => dom[x] # dom[b])
      BY <1>1, <2>1, <3>1 DEF Apart
    <3>3. bpc[b] \notin D!Busy
      BY <3>2, BindNames DEF D!Active
    <3>4. bpc[b] \in {"flag", "ok"} => dom[b] \in Domain
      BY BindNames DEF DomKnown
    <3>5. bpc[b] \in {"flag", "ok"} => /\ conf'[dom[b]] = conf[dom[b]]
                                       /\ live' = live \/ live' = conf
      BY <1>1, <3>2, <3>4, StepShape
    <3> QED
      BY <2>1, <3>3, <3>5 DEF D!Busy
  <2> QED
    BY <2>2, <2>3
<1>2. ASSUME D!Step(b)
      PROVE  Progress(b)'
  <2> USE DEF D!TypeOK, D!At, D!nginxVars, D!callVars
  <2>1. Progress(b) /\ dom'[b] = dom[b] /\ dom[b] \in Domain
    BY <1>2, StepShape, BindNames DEF CallStep, DomKnown, D!Busy, D!UnbindBusy
  <2>2. CASE \/ D!DetectEnvironment(b) \/ D!InstallNginx(b) \/ D!InstallAcme(b) \/ D!NoConflict(b)
             \/ D!AcquireCert(b) \/ D!GivesUp(b)
    <3>1. bpc'[b] \in {"install", "installAcme", "conflict", "acme", "add", "failed"}
      BY <2>2, BindNames DEF D!DetectEnvironment, D!InstallNginx, D!InstallAcme, D!NoConflict,
         D!AcquireCert,
         D!GivesUp, D!Fails, D!AfterNginx
    <3> QED
      BY <3>1
  <2>3. CASE D!AddInbound(b) \/ D!OpenConf(b) \/ D!WriteConf(b) \/ D!WriteFails(b)
    BY <2>1, <2>3, BindNames DEF D!AddInbound, D!OpenConf, D!WriteConf, D!WriteFails, D!Leaves, D!None, D!Torn
  <2>4. CASE D!TestConf(b) \/ D!TestFails(b)
    BY <2>1, <2>4, BindNames DEF D!TestConf, D!TestFails, D!Sound
  <2>5. CASE D!ReloadNginx(b) \/ D!ReloadFails(b)
    BY <2>1, <2>5, BindNames DEF D!ReloadNginx, D!ReloadFails, D!Leaves, D!Loadable, D!Sound
  <2>6. CASE D!StartNginx(b) \/ D!StartFails(b)
    BY <2>1, <2>6, BindNames DEF D!StartNginx, D!StartFails, D!Starts, D!Leaves, D!Sound
  <2>7. CASE D!UndoConf(b) \/ D!UndoInbound(b) \/ D!SetNodeAddress(b) \/ D!SetToNeedRestart(b)
    BY <2>1, <2>7, BindNames DEF D!UndoConf, D!UndoInbound, D!SetNodeAddress, D!SetToNeedRestart,
       D!xrayVars
  <2> QED
    BY <1>2, <2>2, <2>3, <2>4, <2>5, <2>6, <2>7 DEF D!Step
<1>3. ASSUME NEW x \in D!Call, NEW d \in Domain,
             (x \in Bind /\ D!Begin(x, d)) \/ (x \in Unbind /\ D!BeginUnbind(x, d))
      PROVE  Progress(b)'
  <2>1. /\ \A c \in D!Call \ {x} : bpc'[c] = bpc[c] /\ dom'[c] = dom[c]
        /\ bpc'[x] \in {"detect", "remove"}
        /\ UNCHANGED <<nginx, conf, live, env, left>>
        /\ b \notin crossed
    BY <1>3 DEF D!Begin, D!BeginUnbind, D!Arrives, D!At, D!TypeOK, D!nginxVars
  <2> QED
    BY <2>1, BindNames DEF D!Sound
<1>4. CASE D!RestartXray \/ D!RestartFails \/ D!Booted \/ D!NewServer
  BY <1>4 DEF D!RestartXray, D!RestartFails, D!Applies, D!Misses, D!Booted, D!NewServer, D!callVars, D!nginxVars, D!Sound
<1>5. CASE D!Killed
  <2>1. /\ UNCHANGED <<nginx, conf, live, env, dom, crossed, left>>
        /\ bpc'[b] = bpc[b] \/ bpc'[b] = "killed"
    BY <1>5, BindNames DEF D!Killed, D!TypeOK, D!nginxVars
  <2> QED
    BY <2>1 DEF D!Sound
<1> QED
  BY <1>1, <1>2, <1>3, <1>4, <1>5, BindNames DEF BindMove, CallStep

LEMMA HalfNext ==
    ASSUME BindInv, BindMove
    PROVE  HalfKnown'
<1> USE DEF BindInv, HalfKnown, D!HalfFilesAreKnown
<1>1. ASSUME NEW x \in D!Call, CallStep(x)
      PROVE  HalfKnown'
  <2>1. ASSUME x \in Unbind
        PROVE  UNCHANGED left /\ \A d \in Domain : conf'[d] = D!Torn => conf[d] = D!Torn
    BY <1>1, <2>1, BindNames DEF CallStep, D!UnbindStep, D!RemoveConf, D!TestRemoved,
       D!ReloadRemoved, D!UnbindFails, D!TypeOK, D!nginxVars, D!callVars, D!None, D!Torn
  <2>2. ASSUME x \in Bind
        PROVE  /\ \A d \in Domain : conf'[d] = D!Torn =>
                     \/ conf[d] = D!Torn /\ (bpc[x] = "write" /\ dom[x] = d => left'[x] = "half")
                     \/ dom[x] = d /\ bpc'[x] = "write"
               /\ left'[x] = "half" => \/ left[x] = "half" /\ bpc'[x] \in {"undoInbound", "failed", "killed"}
                                      \/ bpc'[x] = "undoInbound"
               /\ left[x] = "half" => left'[x] = "half"
    <3> USE DEF D!TypeOK, D!At, D!nginxVars, D!callVars
    <3>1. D!Step(x) /\ dom[x] \in Domain
      BY <1>1, <2>2, StepShape, BindNames DEF CallStep, DomKnown, D!Busy, D!UnbindBusy
    <3>2. CASE \/ D!DetectEnvironment(x) \/ D!InstallNginx(x) \/ D!InstallAcme(x) \/ D!NoConflict(x)
               \/ D!AcquireCert(x) \/ D!GivesUp(x)
      BY <2>2, <3>2 DEF D!DetectEnvironment, D!InstallNginx, D!InstallAcme, D!NoConflict, D!AcquireCert,
         D!GivesUp, D!Fails, D!AfterNginx
    <3>3. CASE D!AddInbound(x) \/ D!OpenConf(x) \/ D!WriteConf(x) \/ D!WriteFails(x)
      BY <2>2, <3>1, <3>3, BindNames DEF D!AddInbound, D!OpenConf, D!WriteConf, D!WriteFails, D!Leaves,
         D!None, D!Torn
    <3>4. CASE \/ D!TestConf(x) \/ D!TestFails(x) \/ D!ReloadNginx(x) \/ D!ReloadFails(x)
               \/ D!StartNginx(x) \/ D!StartFails(x)
      BY <2>2, <3>4 DEF D!TestConf, D!TestFails, D!ReloadNginx, D!ReloadFails, D!StartNginx,
         D!StartFails, D!Starts, D!Leaves
    <3>5. CASE D!UndoConf(x) \/ D!UndoInbound(x) \/ D!SetNodeAddress(x) \/ D!SetToNeedRestart(x)
      BY <2>2, <3>5, BindNames DEF D!UndoConf, D!UndoInbound, D!SetNodeAddress, D!SetToNeedRestart,
         D!None, D!Torn
    <3> QED
      BY <3>1, <3>2, <3>3, <3>4, <3>5 DEF D!Step
  <2>3. ASSUME NEW b \in Bind, b # x
        PROVE  UNCHANGED <<bpc[b], left[b], dom[b]>>
    BY <1>1, <2>3, StepShape, BindNames
  <2>4. \A b \in Bind : left'[b] = "half" => bpc'[b] \in {"undoInbound", "failed", "killed"}
    BY <2>2, <2>3
  <2>5. bpc[x] # "killed" /\ dom' = dom
    BY <1>1, StepShape DEF D!Busy, D!UnbindBusy
  <2>6. ASSUME NEW d \in Domain, conf'[d] = D!Torn
        PROVE  \E b \in Bind : /\ dom'[b] = d
                               /\ bpc'[b] \in {"write", "killed"} \/ left'[b] = "half"
    <3>1. CASE x \in Bind /\ dom[x] = d /\ bpc'[x] = "write"
      BY <2>5, <3>1
    <3>2. CASE ~(x \in Bind /\ dom[x] = d /\ bpc'[x] = "write")
      <4>1. conf[d] = D!Torn
        BY <1>1, <2>1, <2>2, <2>6, <3>2 DEF CallStep
      <4>2. PICK b \in Bind : dom[b] = d /\ (bpc[b] \in {"write", "killed"} \/ left[b] = "half")
        BY <4>1
      <4>3. CASE b # x
        BY <2>3, <2>5, <4>2, <4>3
      <4>4. CASE b = x
        BY <2>2, <2>5, <2>6, <3>2, <4>2, <4>4
      <4> QED
        BY <4>3, <4>4
    <3> QED
      BY <3>1, <3>2
  <2> QED
    BY <2>4, <2>6
<1>2. ASSUME NEW x \in D!Call, NEW d \in Domain,
             (x \in Bind /\ D!Begin(x, d)) \/ (x \in Unbind /\ D!BeginUnbind(x, d))
      PROVE  HalfKnown'
  <2>1. /\ \A c \in D!Call \ {x} : bpc'[c] = bpc[c] /\ dom'[c] = dom[c]
        /\ UNCHANGED <<conf, left>> /\ bpc[x] = "idle"
    BY <1>2 DEF D!Begin, D!BeginUnbind, D!Arrives, D!At, D!TypeOK, D!nginxVars
  <2> QED
    BY <2>1, BindNames
<1>3. CASE D!RestartXray \/ D!RestartFails \/ D!Booted \/ D!NewServer
  BY <1>3 DEF D!RestartXray, D!RestartFails, D!Booted, D!NewServer, D!callVars, D!nginxVars
<1>4. CASE D!Killed
  <2>1. /\ UNCHANGED <<conf, dom, left>>
        /\ \A b \in Bind : bpc'[b] = IF b \in D!Active \/ bpc[b] = "flag" THEN "killed" ELSE bpc[b]
    BY <1>4, BindNames DEF D!Killed, D!TypeOK, D!nginxVars
  <2>2. \A b \in Bind : bpc'[b] = "killed" \/ bpc'[b] = bpc[b]
    BY <2>1
  <2> QED
    BY <2>1, <2>2
<1> QED
  BY <1>1, <1>2, <1>3, <1>4, BindNames DEF BindMove, CallStep

LEMMA BindInvNext ==
    ASSUME BindInv, [Next]_vars
    PROVE  BindInv'
<1>1. CASE BindMove
  BY <1>1, BindTypedNext, DomKnownNext, InboundNext, ConfNext, ApartNext, NotLoadedNext,
     ProgressNext, HalfNext DEF BindInv
<1>2. CASE UNCHANGED bindVars
  <2> USE <1>2 DEF bindVars
  <2>1. D!TypeOK' /\ DomKnown' /\ InboundKept' /\ ConfIsOwn'
    BY DEF BindInv, D!TypeOK, DomKnown, InboundKept, ConfIsOwn
  <2>2. Apart' /\ NotLoaded'
    BY DEF BindInv, Apart, NotLoaded, Alone, D!Active
  <2>3. \A b \in Bind : Alone(b)' => Progress(b)'
    BY DEF BindInv, Alone, Progress, D!Sound
  <2>4. HalfKnown'
    BY DEF BindInv, HalfKnown, D!HalfFilesAreKnown
  <2> QED
    BY <2>1, <2>2, <2>3, <2>4 DEF BindInv
<1> QED
  BY <1>1, <1>2, Moves

LEMMA BindInvWhole == BindInv => BindingIsWhole
<1> SUFFICES ASSUME BindInv, NEW b \in Bind
             PROVE  /\ bpc[b] = "failed" => D!FailureIsUndone(b)
                    /\ bpc[b] \in {"flag", "ok"} => D!SuccessIsServed(b)
  BY DEF BindingIsWhole, D!BindingIsWhole, BindInv, HalfKnown
<1>1. bpc[b] # "idle" => dom[b] \in Domain
  BY BindNames DEF BindInv, DomKnown
<1>2. bpc[b] = "failed" => D!FailureIsUndone(b)
  BY <1>1 DEF BindInv, InboundKept, HasInbound, ConfIsOwn, Written, NotLoaded, Alone,
     D!FailureIsUndone
<1>3. bpc[b] \in {"flag", "ok"} => D!SuccessIsServed(b)
  BY <1>1 DEF BindInv, InboundKept, HasInbound, Progress, Alone, D!SuccessIsServed
<1> QED
  BY <1>2, <1>3

\* domain_binding.go:13-14, 207-208: whatever step of a binding fails or is given up,
\* whatever other calls, updates and restarts come in between, a binding that failed
\* has left neither its conf nor its inbound, and no half of a conf but where writing it
\* failed; and one that succeeded is served until another call comes, but where a
\* running nginx did not reload in time.
THEOREM BindingsAreWhole == Spec => []BindingIsWhole
<1>1. Init => BindInv
  BY InitBind DEF Init
<1>2. BindInv /\ [Next]_vars => BindInv'
  BY BindInvNext
<1> QED
  BY <1>1, <1>2, BindInvWhole, PTL DEF Spec

-----------------------------------------------------------------------------
(* What was bound reaches xray.                                             *)

LEMMA ReachesNext ==
    ASSUME D!TypeOK, UpdateInv, BoundReachesXray, [Next]_vars
    PROVE  BoundReachesXray'
<1> USE DEF BoundReachesXray, D!BoundReachesXray
<1>1. CASE \E x \in D!Call : CallStep(x) /\ UNCHANGED up
  <2> PICK x \in D!Call : CallStep(x) /\ UNCHANGED up
    BY <1>1
  <2> USE DEF D!TypeOK, D!At, D!xrayVars, D!callVars
  <2>1. CASE \/ D!DetectEnvironment(x) \/ D!InstallNginx(x) \/ D!InstallAcme(x) \/ D!NoConflict(x)
             \/ D!AcquireCert(x) \/ D!GivesUp(x)
    BY <2>1, BindNames DEF D!DetectEnvironment, D!InstallNginx, D!InstallAcme, D!NoConflict,
       D!AcquireCert,
       D!GivesUp, D!Fails, D!AfterNginx
  <2>2. CASE D!AddInbound(x) \/ D!OpenConf(x) \/ D!WriteConf(x) \/ D!WriteFails(x)
    BY <2>2, BindNames DEF D!AddInbound, D!OpenConf, D!WriteConf, D!WriteFails, D!Leaves
  <2>3. CASE \/ D!TestConf(x) \/ D!TestFails(x) \/ D!ReloadNginx(x) \/ D!ReloadFails(x)
             \/ D!StartNginx(x) \/ D!StartFails(x)
    BY <2>3, BindNames DEF D!TestConf, D!TestFails, D!ReloadNginx, D!ReloadFails, D!StartNginx,
       D!StartFails, D!Starts, D!Leaves
  <2>4. CASE D!UndoConf(x) \/ D!UndoInbound(x) \/ D!SetNodeAddress(x) \/ D!SetToNeedRestart(x)
    BY <2>4, BindNames DEF D!UndoConf, D!UndoInbound, D!SetNodeAddress, D!SetToNeedRestart
  <2>5. CASE x \in Unbind /\ D!UnbindStep(x)
    BY <2>5, BindNames DEF D!UnbindStep, D!RemoveConf, D!TestRemoved, D!ReloadRemoved, D!UnbindFails
  <2> QED
    BY <2>1, <2>2, <2>3, <2>4, <2>5 DEF CallStep, D!Step
<1>2. CASE Call
  <2>1. /\ UNCHANGED <<up, inbounds, applied, flag, missed>>
        /\ \A b \in Bind : bpc'[b] = bpc[b] \/ bpc'[b] \in {"detect", "remove"}
    <3>1. CASE UNCHANGED bindVars /\ UNCHANGED up
      BY <3>1 DEF bindVars
    <3>2. CASE /\ UNCHANGED updateVars
               /\ \E d \in Domain : (\E b \in Bind : D!Begin(b, d)) \/ (\E u \in Unbind : D!BeginUnbind(u, d))
      BY <3>2, BindNames DEF updateVars, D!Begin, D!BeginUnbind, D!At, D!TypeOK, D!xrayVars
    <3> QED
      BY <1>2, <3>1, <3>2 DEF Call, OfUpdate, OfBinding, OfCertificate, U!TryLock, updateVars
  <2> QED
    BY <2>1 DEF D!TypeOK
<1>3. ASSUME NEW u \in Updater, StopPanel(u)
      PROVE  BoundReachesXray'
  BY <1>3 DEF StopPanel, U!StopPanel, U!Killed
<1>4. ASSUME NEW u \in Updater, StartPanel(u)
      PROVE  BoundReachesXray'
  BY <1>4 DEF StartPanel, D!Booted, D!Applies, D!Misses, D!TypeOK, D!callVars, bindVars, U!StartPanel
<1>5. ASSUME NEW u \in Updater, StartInVain(u)
      PROVE  BoundReachesXray'
  BY <1>5 DEF StartInVain, U!StartInVain, bindVars
<1>6. CASE Sighup
  BY <1>6 DEF Sighup, D!NewServer, D!Applies, D!Misses, U!Reload
<1>7. CASE SighupEnds
  BY <1>7 DEF SighupEnds, U!ReloadEnds, U!Killed
<1>8. CASE RestartXray
  <2>1. D!RestartXray \/ D!RestartFails
    BY <1>8 DEF RestartXray, OfBinding
  <2>2. UNCHANGED <<inbounds, bpc>> /\ inbounds \subseteq applied' \cup missed'
    BY <2>1 DEF D!RestartXray, D!RestartFails, D!Applies, D!Misses
  <2> QED
    BY <2>2
<1>9. CASE \/ \E r \in Request : Update(r)
           \/ \E u \in Updater : RunScript(u)
           \/ \E w \in C!Writer : Write(w)
           \/ WatchLoop \/ UNCHANGED vars
  <2>1. UNCHANGED bindVars /\ UNCHANGED up
    BY <1>9 DEF Update, RunScript, Write, WatchLoop, OfUpdate, OfCertificate, vars, updateVars,
       U!Work, U!FetchRelease, U!CreateScript, U!FillScript, U!Dispatch, U!Unlock, U!FailProgress,
       U!Script, U!Verified, U!GivesUp, U!CutShort, U!Swap, U!SwapFails, U!memory
  <2> QED
    BY <2>1 DEF bindVars
<1>10. CASE (\E b \in Bind : BindDomain(b)) \/ (\E u \in Unbind : UnbindDomain(u))
  BY <1>1, <1>10, BindNames DEF BindDomain, UnbindDomain, OfBinding, updateVars, CallStep
<1> QED
  BY <1>2, <1>3, <1>4, <1>5, <1>6, <1>7, <1>8, <1>9, <1>10 DEF Next

\* domain.go:51: while the panel runs, the inbound of a binding that succeeded
\* is in xray, or the flag that will put it there is raised; or, since it was last
\* raised, a restart of xray has failed.
THEOREM BoundInboundsReachXray == Spec => []BoundReachesXray
<1>1. Init => BindInv /\ UpdateInv /\ BoundReachesXray
  BY InitBind, InitUpdate DEF Init, BoundReachesXray, D!BoundReachesXray, D!Init
<1>2. BindInv /\ UpdateInv /\ BoundReachesXray /\ [Next]_vars
          => (BindInv /\ UpdateInv /\ BoundReachesXray)'
  BY BindInvNext, UpdateInvNext, ReachesNext DEF BindInv
<1> QED
  BY <1>1, <1>2, PTL DEF Spec

-----------------------------------------------------------------------------
\* Whatever the parts do, their variables keep their types.
THEOREM Typed == Spec => []TypeOK
<1> DEFINE Inv == UpdateInv /\ BindInv /\ CertInv /\ vain \in BOOLEAN /\ calls \in 0..MaxCalls
<1>1. Init => Inv
  <2>1. Init => vain \in BOOLEAN
    BY DEF Init
  <2>2. Init => calls \in 0..MaxCalls
    BY HostConstants DEF Init, HostConstants
  <2> QED
    BY <2>1, <2>2, InitUpdate, InitBind, InitCert DEF Init
<1>2. ASSUME calls \in 0..MaxCalls, vain \in BOOLEAN, [Next]_vars
      PROVE  vain' \in BOOLEAN /\ calls' \in 0..MaxCalls
  <2>1. CASE Call
    BY <1>2, <2>1, HostConstants DEF HostConstants, Call
  <2>2. CASE ~Call
    <3>1. vain' \in {vain, TRUE, FALSE} /\ UNCHANGED calls
      BY <1>2, <2>2 DEF Next, vars, Update, RunScript, StopPanel, StartPanel, StartInVain,
         BindDomain, UnbindDomain, Write, RestartXray, WatchLoop, Sighup, SighupEnds
    <3> QED
      BY <1>2, <3>1
  <2> QED
    BY <2>1, <2>2
<1>3. Inv /\ [Next]_vars => Inv'
  BY <1>2, UpdateInvNext, BindInvNext, CertInvNext
<1>4. Inv => TypeOK
  BY DEF UpdateInv, BindInv, CertInv, TypeOK
<1> QED
  BY <1>1, <1>3, <1>4, PTL DEF Spec
=============================================================================
