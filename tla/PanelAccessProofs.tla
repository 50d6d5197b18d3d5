-------------------------- MODULE PanelAccessProofs --------------------------
(***************************************************************************)
(* What is proved of the cache and the login on their own holds of the     *)
(* whole: every step of PanelAccess is a step of the part or leaves it     *)
(* alone, so the whole implements the specification of each part.  The log,*)
(* the calls, the start and the settings have their invariants here.       *)
(***************************************************************************)
EXTENDS PanelAccess, Sequences, FiniteSetTheorems, SequenceTheorems, TLAPS

SP == INSTANCE SettingCacheProofs
LP == INSTANCE PanelLoginProofs

-----------------------------------------------------------------------------
(* Steps of the whole.  S and SP, L and LP name the same actions.            *)

LEMMA SameCacheStep == S!CacheNext => SP!CacheNext
BY DEF S!CacheNext, SP!CacheNext, S!Rotate, SP!Rotate, S!EnsureAPIToken, SP!EnsureAPIToken,
       S!Authenticate, SP!Authenticate, S!Step, SP!Step, S!Lookup, SP!Lookup, S!ReadRow, SP!ReadRow,
       S!Fill, SP!Fill, S!Find, SP!Find, S!Clear, SP!Clear, S!Mint, SP!Mint,
       S!WriteFails, SP!WriteFails, S!Invalidate, SP!Invalidate,
       S!ResetSettings, SP!ResetSettings, S!Restarted, SP!Restarted,
       S!Begins, SP!Begins, S!Goes, SP!Goes, S!Resolve, SP!Resolve, S!Effective, SP!Effective,
       S!Retire, SP!Retire, S!WriteValue, SP!WriteValue, S!Stored, SP!Stored, S!Saved, SP!Saved,
       S!NewToken, SP!NewToken, S!Blank, SP!Blank, S!Absent, SP!Absent, S!Miss, SP!Miss

LEMMA SameLoginStep == L!LoginNext => LP!LoginNext
BY DEF L!LoginNext, LP!LoginNext, L!LoginStep, LP!LoginStep, L!ChangeStep, LP!ChangeStep,
       L!VisitStep, LP!VisitStep, L!Forms, LP!Forms, L!Key, LP!Key, L!NoRecord, LP!NoRecord,
       L!Login, LP!Login, L!CheckName, LP!CheckName, L!CheckUser, LP!CheckUser, L!Rehash, LP!Rehash,
       L!RehashFails, LP!RehashFails, L!FailIp, LP!FailIp, L!FailName, LP!FailName,
       L!SucceedIp, LP!SucceedIp, L!SetLoginUser, LP!SetLoginUser, L!At, LP!At,
       L!UpdateUser, LP!UpdateUser, L!UpdateUsername, LP!UpdateUsername,
       L!UpdatePassword, LP!UpdatePassword, L!RenewCookie, LP!RenewCookie,
       L!UpdateFails, LP!UpdateFails, L!UpdateFirstUser, LP!UpdateFirstUser,
       L!Proceeds, LP!Proceeds, L!Hashed, LP!Hashed, L!Valid, LP!Valid,
       L!CreateMagicToken, LP!CreateMagicToken, L!Expire, LP!Expire,
       L!PurgeOldMagicTokens, LP!PurgeOldMagicTokens, L!Consume, LP!Consume,
       L!ReadLink, LP!ReadLink, L!UpdateLink, LP!UpdateLink, L!Enter, LP!Enter,
       L!EnterFails, LP!EnterFails, L!FailVisit, LP!FailVisit, L!Moves, LP!Moves,
       L!Failed, LP!Failed, L!Later, LP!Later, L!TimePasses, LP!TimePasses,
       L!Restarted, LP!Restarted, L!attemptVars, LP!attemptVars, L!visitVars, LP!visitVars

-----------------------------------------------------------------------------
(* Each part, alone or beside another that moves                            *)

LEMMA TokenPart == [Next]_vars => [SP!CacheNext]_SP!settingVars
<1> SUFFICES ASSUME Next, settingVars' # settingVars PROVE SP!CacheNext
  BY DEF vars, settingVars, SP!settingVars
<1>1. ASSUME NEW q \in Query, ApiCall(q) \/ ApiStep(q) PROVE S!CacheNext
  BY <1>1 DEF ApiCall, ApiStep, OfToken, S!CacheNext
<1>2. ASSUME CommandLine \/ Restart PROVE S!CacheNext
  BY <1>2 DEF CommandLine, Restart, OfToken, OfLogin, OfLog, OfApi, OfTable, S!CacheNext
<1> QED
  BY <1>1, <1>2, SameCacheStep
     DEF Next, OfLogin, OfApi, OfLog, OfStart, OfTable, Login, LoginStep, UpdateUser, ChangeStep,
         Consume, VisitStep, MakeLink, Time, Tokens, Request, BesideCalls, Record, BesideLog,
         Starting, Setup, RunCommand, Write, SaveStep, KeyStep

LEMMA LoginPart == [Next]_vars => [LP!LoginNext]_LP!loginVars
<1> SUFFICES ASSUME Next, loginVars' # loginVars PROVE LP!LoginNext
  BY DEF vars, loginVars, LP!loginVars, LP!attemptVars, LP!visitVars
<1>1. ASSUME NEW a \in Attempt, Login(a) \/ LoginStep(a) PROVE L!LoginNext
  BY <1>1 DEF Login, LoginStep, OfLogin, L!LoginNext
<1>2. ASSUME NEW c \in Change, UpdateUser(c) \/ ChangeStep(c) PROVE L!LoginNext
  BY <1>2 DEF UpdateUser, ChangeStep, OfLogin, L!LoginNext
<1>3. ASSUME NEW v \in Visit, Consume(v) \/ VisitStep(v) PROVE L!LoginNext
  BY <1>3 DEF Consume, VisitStep, OfLogin, L!LoginNext
<1>4. ASSUME MakeLink \/ CommandLine \/ Time \/ Restart PROVE L!LoginNext
  BY <1>4 DEF MakeLink, CommandLine, Time, Restart, OfToken, OfLogin, OfLog, OfApi, OfTable, L!LoginNext
<1> QED
  BY <1>1, <1>2, <1>3, <1>4, SameLoginStep
     DEF Next, OfToken, OfApi, OfLog, OfStart, OfTable, ApiCall, ApiStep, Tokens, Request,
         BesideCalls, Record, BesideLog, Starting, Setup, RunCommand, Write, SaveStep, KeyStep

LEMMA LogPart == [Next]_vars => [G!LogNext]_G!logVars
<1> SUFFICES ASSUME Next, logVars' # logVars PROVE G!LogNext
  BY DEF vars, logVars, G!logVars
<1>1. ASSUME NEW c \in Entry, Record(c) PROVE G!LogNext
  BY <1>1 DEF Record, OfLog, G!LogNext
<1>2. ASSUME BesideLog \/ Restart PROVE G!LogNext
  BY <1>2 DEF BesideLog, Restart, OfToken, OfLogin, OfLog, OfApi, OfTable, G!LogNext
<1> QED
  BY <1>1, <1>2
     DEF Next, OfToken, OfLogin, OfApi, OfStart, OfTable, ApiCall, ApiStep, Login, LoginStep,
         UpdateUser, ChangeStep, Consume, VisitStep, MakeLink, CommandLine, Time, Tokens,
         Request, BesideCalls, Starting, Setup, RunCommand, Write, SaveStep, KeyStep

-----------------------------------------------------------------------------
(* What each part promises                                                  *)

LEMMA TokenIsSafe == Spec => [](CacheIsTheRow /\ RotatedIsRefused)
<1>1. Init => SP!Init
  BY DEF Init, S!Init, SP!Init, S!NewToken, SP!NewToken, S!Blank, SP!Blank, S!Miss, SP!Miss
<1>2. SP!CacheConstants
  BY AccessConstants DEF S!CacheConstants, SP!CacheConstants, S!Blank, SP!Blank,
     S!Absent, SP!Absent, S!Miss, SP!Miss
<1>3. SP!CacheSpec => [](SP!CacheIsTheRow /\ SP!RotatedIsRefused)
  BY <1>2, SP!CacheFollowsTheRow
<1>4. SP!CacheIsTheRow /\ SP!RotatedIsRefused => CacheIsTheRow /\ RotatedIsRefused
  BY DEF CacheIsTheRow, RotatedIsRefused, S!CacheIsTheRow, SP!CacheIsTheRow,
         S!RotatedIsRefused, SP!RotatedIsRefused, S!Miss, SP!Miss
<1> QED BY <1>1, <1>3, <1>4, TokenPart, PTL DEF Spec, SP!CacheSpec

LEMMA LoginIsSafe == Spec => [](NoStaleSession /\ OneLoginPerLink /\ ThrottleHolds)
<1>1. Init => LP!Init
  BY DEF Init, L!Init, LP!Init, L!Key, LP!Key, L!NoRecord, LP!NoRecord
<1>2. LP!LoginConstants
  BY AccessConstants DEF L!LoginConstants, LP!LoginConstants, L!IsFiniteSet, LP!IsFiniteSet
<1>3. LP!LoginSpec => [](LP!NoStaleSession /\ LP!OneLoginPerLink /\ LP!ThrottleHolds)
  BY <1>2, LP!AccessIsGuarded
<1>4. LP!NoStaleSession /\ LP!OneLoginPerLink /\ LP!ThrottleHolds
          => NoStaleSession /\ OneLoginPerLink /\ ThrottleHolds
  BY DEF NoStaleSession, OneLoginPerLink, ThrottleHolds, L!NoStaleSession, LP!NoStaleSession,
         L!OneLoginPerLink, LP!OneLoginPerLink, L!ThrottleHolds, LP!ThrottleHolds,
         L!Valid, LP!Valid, L!Past, LP!Past, L!Key, LP!Key, L!Cardinality, LP!Cardinality
<1> QED BY <1>1, <1>3, <1>4, LoginPart, PTL DEF Spec, LP!LoginSpec

-----------------------------------------------------------------------------
(* The log of /api/v1                                                       *)

\* The inductive invariant: a call that has ended is in one place.  Disjoint
\* batches are what lets a batch be written without regard to the others.
LogTyped ==
    /\ writing \subseteq Seq(Entry) \ {<<>>} /\ queue \in Seq(Entry) /\ ticking \in Seq(Entry)
    /\ Len(queue) < LogThreshold
    /\ ended \subseteq Entry

BatchesApart ==
    /\ \A b \in writing : G!Elements(b) \cap G!Elements(queue) = {}
                       /\ G!Elements(b) \cap G!Elements(ticking) = {}
    /\ \A b, d \in writing : b # d => G!Elements(b) \cap G!Elements(d) = {}
    /\ G!Elements(queue) \cap G!Elements(ticking) = {}

CallsPlaced ==
    /\ G!InMemory \subseteq ended /\ log \subseteq ended /\ gone \subseteq ended
    /\ G!InMemory \cap (log \cup gone) = {} /\ log \cap gone = {}
    /\ ended \subseteq G!InMemory \cup log \cup gone
    /\ aged \subseteq log /\ plucked \subseteq aged

LogInv == LogTyped /\ BatchesApart /\ CallsPlaced

LEMMA ElementsEmpty == G!Elements(<<>>) = {}
BY DEF G!Elements

LEMMA ElementsAppend ==
    ASSUME NEW D, NEW q \in Seq(D), NEW c \in D
    PROVE  G!Elements(Append(q, c)) = G!Elements(q) \cup {c}
<1> DEFINE s == Append(q, c)
<1>1. /\ s \in Seq(D) /\ Len(s) = Len(q) + 1
      /\ DOMAIN s = 1..Len(s) /\ DOMAIN q = 1..Len(q) /\ Len(q) \in Nat
      /\ \A k \in 1..Len(q) : s[k] = q[k]
      /\ s[Len(q) + 1] = c
  BY AppendProperties, LenProperties
<1>2. \A k \in DOMAIN s : s[k] \in G!Elements(q) \cup {c}
  BY <1>1 DEF G!Elements
<1>3. \A x \in G!Elements(q) \cup {c} : \E k \in DOMAIN s : x = s[k]
  BY <1>1 DEF G!Elements
<1> QED BY <1>2, <1>3 DEF G!Elements

LEMMA ElementsNonempty ==
    ASSUME NEW D, NEW q \in Seq(D), G!Elements(q) = {} PROVE q = <<>>
<1>1. q # <<>> => 1 \in DOMAIN q
  BY LenProperties, EmptySeq
<1>2. DOMAIN q = {}
  BY DEF G!Elements
<1> QED
  BY <1>1, <1>2

\* The cap of the buffer is never met: the threshold has emptied it before.
LEMMA AddedKeepsAll ==
    ASSUME G!LogConstants, LogTyped, NEW c \in Entry
    PROVE  \/ /\ G!Added(queue, c).queue = <<>> /\ G!Added(queue, c).batch = Append(queue, c)
           \/ /\ G!Added(queue, c).queue = Append(queue, c) /\ G!Added(queue, c).batch = <<>>
              /\ Len(Append(queue, c)) < LogThreshold
<1>1. Len(queue) \in Nat /\ Len(Append(queue, c)) = Len(queue) + 1
  BY AppendProperties, LenProperties DEF LogTyped
<1>2. ~(Len(queue) >= LogCap)
  BY <1>1 DEF LogTyped, G!LogConstants
<1>3. Len(Append(queue, c)) < LogThreshold \/ Len(Append(queue, c)) >= LogThreshold
  BY <1>1 DEF G!LogConstants
<1> QED BY <1>1, <1>2, <1>3 DEF G!Added, G!LogConstants

-----------------------------------------------------------------------------
(* Each step, and what it does to the calls in memory                      *)

LEMMA LogBegins == ASSUME G!LogConstants, G!Init PROVE LogInv /\ G!Audit!Init
<1>1. G!InMemory = {}
  BY ElementsEmpty DEF G!Init, G!InMemory
<1>2. Len(<<>>) < LogThreshold /\ <<>> \in Seq(Entry)
  BY EmptySeq DEF G!LogConstants
<1> QED BY <1>1, <1>2, ElementsEmpty DEF G!Init, LogInv, LogTyped, BatchesApart, CallsPlaced, G!Audit!Init

LEMMA RecordLogged ==
    ASSUME G!LogConstants, LogInv, NEW c \in Entry, G!Record(c)
    PROVE  LogInv' /\ G!Audit!Record(c)
<1> USE DEF LogInv
<1>1. G!Elements(Append(queue, c)) = G!Elements(queue) \cup {c} /\ Append(queue, c) \in Seq(Entry)
  BY ElementsAppend, AppendProperties DEF LogTyped
<1>2. c \notin G!InMemory \cup log \cup gone /\ UNCHANGED <<ticking, log, aged, plucked, gone>>
  BY DEF G!Record, CallsPlaced
<1>3. CASE /\ G!Added(queue, c).queue = <<>> /\ G!Added(queue, c).batch = Append(queue, c)
  <2>1. queue' = <<>> /\ Append(queue, c) # <<>>
    BY <1>1, <1>3, ElementsEmpty DEF G!Record
  <2>2. writing' = writing \cup {Append(queue, c)}
    BY <1>3, <2>1 DEF G!Record
  <2>3. G!Elements(queue') = {} /\ queue' \in Seq(Entry) /\ Len(queue') < LogThreshold
    BY <2>1, ElementsEmpty, EmptySeq DEF G!LogConstants
  <2>4. G!InMemory' = G!InMemory \cup {c}
    BY <1>1, <1>2, <2>2, <2>3 DEF G!InMemory
  <2>5. LogTyped'
    BY <1>1, <1>2, <2>1, <2>2, <2>3 DEF LogTyped, G!Record
  <2>6. BatchesApart'
    <3>1. \A b \in writing : G!Elements(b) \cap G!Elements(Append(queue, c)) = {}
      BY <1>1, <1>2 DEF BatchesApart, G!InMemory
    <3>2. G!Elements(ticking) \cap G!Elements(Append(queue, c)) = {}
      BY <1>1, <1>2 DEF BatchesApart, G!InMemory
    <3> QED BY <1>2, <2>2, <2>3, <3>1, <3>2 DEF BatchesApart
  <2>7. CallsPlaced'
    BY <1>2, <2>4 DEF CallsPlaced, G!Record
  <2> QED BY <1>2, <2>4, <2>5, <2>6, <2>7 DEF G!Audit!Record
<1>4. CASE /\ G!Added(queue, c).queue = Append(queue, c) /\ G!Added(queue, c).batch = <<>>
           /\ Len(Append(queue, c)) < LogThreshold
  <2>1. queue' = Append(queue, c) /\ writing' = writing
    BY <1>4 DEF G!Record
  <2>2. G!InMemory' = G!InMemory \cup {c}
    BY <1>1, <1>2, <2>1 DEF G!InMemory
  <2>3. LogTyped'
    BY <1>1, <1>2, <1>4, <2>1 DEF LogTyped, G!Record
  <2>4. BatchesApart'
    BY <1>1, <1>2, <2>1 DEF BatchesApart, G!InMemory
  <2>5. CallsPlaced'
    BY <1>2, <2>2 DEF CallsPlaced, G!Record
  <2> QED BY <1>2, <2>2, <2>3, <2>4, <2>5 DEF G!Audit!Record
<1> QED BY <1>3, <1>4, AddedKeepsAll

LEMMA FlushKeeps == ASSUME G!LogConstants, LogInv, G!FlushLog PROVE LogInv' /\ G!InMemory' = G!InMemory
<1> USE DEF LogInv
<1>1. /\ ticking' = queue /\ queue' = <<>> /\ G!Elements(ticking) = {} /\ G!Elements(queue') = {}
      /\ UNCHANGED <<ended, writing, log, aged, plucked, gone>>
  BY ElementsEmpty DEF G!FlushLog
<1>2. G!InMemory' = G!InMemory
  BY <1>1 DEF G!InMemory
<1>3. LogTyped'
  BY <1>1, EmptySeq DEF LogTyped, G!LogConstants
<1>4. BatchesApart'
  BY <1>1 DEF BatchesApart
<1>5. CallsPlaced'
  BY <1>1, <1>2 DEF CallsPlaced
<1> QED BY <1>2, <1>3, <1>4, <1>5

\* A batch that leaves the memory takes its own calls with it and no others.
LEMMA WriteMoves ==
    ASSUME G!LogConstants, LogInv, G!WriteBatch
    PROVE  /\ LogInv'
           /\ \E b \in SUBSET Entry : G!Audit!Write(b) \/ G!Audit!Lose(b)
<1> USE DEF LogInv
<1>1. PICK b \in Seq(Entry) :
          /\ G!Insert(b)
          /\ \/ b \in writing /\ writing' = writing \ {b} /\ UNCHANGED ticking
             \/ b = ticking /\ ticking' = <<>> /\ UNCHANGED writing
  BY DEF G!WriteBatch, LogTyped
<1>2. UNCHANGED <<ended, queue, aged, plucked>>
  BY <1>1 DEF G!Insert
<1>3. G!InMemory' = G!InMemory \ G!Elements(b) /\ G!Elements(b) \subseteq G!InMemory
  <2>1. CASE b \in writing /\ writing' = writing \ {b} /\ UNCHANGED ticking
    BY <1>2, <2>1 DEF G!InMemory, BatchesApart
  <2>2. CASE b = ticking /\ ticking' = <<>> /\ UNCHANGED writing
    <3>1. G!Elements(ticking') = {}
      BY <2>2, ElementsEmpty
    <3> QED BY <1>2, <2>2, <3>1 DEF G!InMemory, BatchesApart
  <2> QED BY <1>1, <2>1, <2>2
<1>4. G!Elements(b) \in SUBSET Entry
  BY <1>3 DEF CallsPlaced, LogTyped
<1>5. LogTyped'
  BY <1>1, <1>2, EmptySeq DEF LogTyped
<1>6. BatchesApart'
  <2>1. CASE UNCHANGED ticking /\ writing' = writing \ {b}
    BY <1>2, <2>1 DEF BatchesApart
  <2>2. CASE ticking' = <<>> /\ UNCHANGED writing
    <3>1. G!Elements(ticking') = {}
      BY <2>2, ElementsEmpty
    <3> QED BY <1>2, <2>2, <3>1 DEF BatchesApart
  <2> QED BY <1>1, <2>1, <2>2
<1>7. CASE log' = log \cup G!Elements(b) /\ UNCHANGED gone
  <2>1. CallsPlaced'
    BY <1>2, <1>3, <1>7 DEF CallsPlaced
  <2>2. G!Audit!Write(G!Elements(b))
    BY <1>3, <1>7 DEF G!Audit!Write
  <2> QED BY <1>4, <1>5, <1>6, <2>1, <2>2
<1>8. CASE gone' = gone \cup G!Elements(b) /\ UNCHANGED log
  <2>1. CallsPlaced'
    BY <1>2, <1>3, <1>8 DEF CallsPlaced
  <2>2. G!Audit!Lose(G!Elements(b))
    BY <1>3, <1>8 DEF G!Audit!Lose
  <2> QED BY <1>4, <1>5, <1>6, <2>1, <2>2
<1> QED BY <1>1, <1>7, <1>8 DEF G!Insert

LEMMA PurgeMoves ==
    ASSUME LogInv, G!Purge PROVE LogInv' /\ plucked \in SUBSET Entry /\ G!Audit!Purge(plucked)
<1> USE DEF LogInv
<1>1. UNCHANGED <<ended, queue, writing, ticking>>
  BY DEF G!Purge
<1>2. LogTyped' /\ BatchesApart' /\ G!InMemory' = G!InMemory
  BY <1>1 DEF LogTyped, BatchesApart, G!InMemory
<1>3. plucked \subseteq log /\ plucked \in SUBSET Entry
  BY DEF CallsPlaced, LogTyped
<1>4. CallsPlaced'
  BY <1>1, <1>2, <1>3 DEF CallsPlaced, G!Purge
<1> QED BY <1>2, <1>3, <1>4 DEF G!Purge, G!Audit!Purge

LEMMA AgeKeeps == ASSUME LogInv, G!Age \/ G!Pluck PROVE LogInv' /\ UNCHANGED <<G!InMemory, log, gone>>
<1> USE DEF LogInv
<1>1. UNCHANGED <<ended, queue, writing, ticking, log, gone>>
  BY DEF G!Age, G!Pluck
<1>2. LogTyped' /\ BatchesApart' /\ G!InMemory' = G!InMemory
  BY <1>1 DEF LogTyped, BatchesApart, G!InMemory
<1>3. aged' \subseteq log /\ plucked' \subseteq aged'
  BY DEF CallsPlaced, G!Age, G!Pluck
<1> QED BY <1>1, <1>2, <1>3 DEF CallsPlaced

LEMMA RestartLoses ==
    ASSUME G!LogConstants, LogInv, G!Restarted
    PROVE  LogInv' /\ G!InMemory \in SUBSET Entry /\ G!Audit!Lose(G!InMemory)
<1> USE DEF LogInv
<1>1. /\ G!Elements(queue') = {} /\ G!Elements(ticking') = {} /\ writing' = {}
      /\ queue' = <<>> /\ ticking' = <<>> /\ plucked' = {}
      /\ gone' = gone \cup G!InMemory /\ UNCHANGED <<ended, log, aged>>
  BY ElementsEmpty DEF G!Restarted
<1>2. G!InMemory' = {} /\ G!InMemory \in SUBSET Entry
  BY <1>1 DEF G!InMemory, CallsPlaced, LogTyped
<1>3. LogTyped' /\ BatchesApart'
  BY <1>1, EmptySeq DEF LogTyped, BatchesApart, G!LogConstants
<1>4. CallsPlaced'
  BY <1>1, <1>2 DEF CallsPlaced
<1> QED BY <1>1, <1>2, <1>3, <1>4 DEF G!Audit!Lose

\* Every step keeps the invariant and is a step of the audit log, or none of it.
LEMMA LogImplements ==
    ASSUME G!LogConstants, LogInv, [G!LogNext]_G!logVars
    PROVE  LogInv' /\ [G!Audit!Next]_G!Audit!auditVars
<1>1. ASSUME NEW c \in Entry, G!Record(c) PROVE LogInv' /\ G!Audit!Next
  BY <1>1, RecordLogged DEF G!Audit!Next
<1>2. CASE G!FlushLog
  BY <1>2, FlushKeeps DEF G!FlushLog, G!Audit!auditVars
<1>3. CASE G!WriteBatch
  BY <1>3, WriteMoves DEF G!Audit!Next
<1>4. CASE G!Age \/ G!Pluck
  BY <1>4, AgeKeeps DEF G!Audit!auditVars
<1>5. CASE G!Purge
  BY <1>5, PurgeMoves DEF G!Audit!Next
<1>6. CASE G!Restarted
  BY <1>6, RestartLoses DEF G!Audit!Next
<1>7. CASE UNCHANGED G!logVars
  BY <1>7 DEF G!logVars, LogInv, LogTyped, BatchesApart, CallsPlaced, G!InMemory, G!Audit!auditVars
<1> QED BY <1>1, <1>2, <1>3, <1>4, <1>5, <1>6, <1>7 DEF G!LogNext, G!Background

-----------------------------------------------------------------------------
(* A batch is no longer than the threshold                                  *)

BatchesShort == Len(ticking) <= LogThreshold /\ \A b \in writing : Len(b) <= LogThreshold

LEMMA BatchesStayShort ==
    ASSUME G!LogConstants, LogInv, BatchesShort, [G!LogNext]_G!logVars PROVE BatchesShort'
<1>1. Len(queue) \in Nat /\ Len(queue) < LogThreshold /\ LogThreshold \in Nat
  BY LenProperties DEF LogInv, LogTyped, G!LogConstants
<1>2. Len(<<>>) <= LogThreshold
  BY <1>1, EmptySeq
<1>3. ASSUME NEW c \in Entry, G!Record(c) PROVE BatchesShort'
  <2>1. Len(Append(queue, c)) <= LogThreshold
    BY <1>1, AppendProperties DEF LogInv, LogTyped
  <2>2. G!Added(queue, c).batch \in {<<>>, Append(queue, c)}
    BY AddedKeepsAll DEF LogInv
  <2> QED BY <1>3, <2>1, <2>2 DEF BatchesShort, G!Record
<1>4. CASE G!FlushLog
  BY <1>1, <1>4 DEF G!FlushLog, BatchesShort
<1>5. CASE G!WriteBatch
  BY <1>2, <1>5 DEF G!WriteBatch, BatchesShort
<1>6. CASE G!Restarted
  BY <1>2, <1>6 DEF G!Restarted, BatchesShort
<1>7. CASE G!Age \/ G!Pluck \/ G!Purge \/ UNCHANGED G!logVars
  BY <1>7 DEF G!Age, G!Pluck, G!Purge, G!logVars, BatchesShort
<1> QED BY <1>3, <1>4, <1>5, <1>6, <1>7 DEF G!LogNext, G!Background

LEMMA LogIsSafe == Spec => ([]G!TypeOK) /\ AuditedOnce
<1> USE AccessConstants
<1>1. Init => LogInv /\ BatchesShort /\ G!Audit!Init
  <2> SUFFICES ASSUME G!Init PROVE LogInv /\ BatchesShort /\ G!Audit!Init
    BY DEF Init
  <2>1. BatchesShort
    BY EmptySeq DEF G!Init, BatchesShort, G!LogConstants
  <2> QED BY <2>1, LogBegins
<1>2. LogInv /\ BatchesShort /\ [Next]_vars
          => LogInv' /\ BatchesShort' /\ [G!Audit!Next]_G!Audit!auditVars
  BY LogPart, LogImplements, BatchesStayShort
<1>3. LogInv /\ BatchesShort => G!TypeOK
  <2> SUFFICES ASSUME LogInv, BatchesShort PROVE G!TypeOK
    OBVIOUS
  <2>1. Len(queue) <= LogThreshold
    BY LenProperties DEF LogInv, LogTyped, G!LogConstants
  <2>2. \A s \in writing \cup {queue, ticking} : G!IsBatch(s)
    BY <2>1 DEF LogInv, LogTyped, BatchesShort, G!IsBatch
  <2>3. log \subseteq Entry /\ aged \subseteq log /\ plucked \subseteq Entry /\ gone \subseteq Entry
        /\ ended \subseteq Entry
    BY DEF LogInv, LogTyped, CallsPlaced
  <2> QED BY <2>2, <2>3 DEF G!TypeOK
<1> QED BY <1>1, <1>2, <1>3, PTL DEF Spec, AuditedOnce, G!AuditedOnce, G!Audit!Spec


-----------------------------------------------------------------------------
(* /api/v1: its calls, its tokens and its rate limiter                      *)

ApiNext ==
    \/ A!CreateToken \/ (\E i \in Id : A!RevokeToken(i) \/ A!DeleteToken(i) \/ A!ExpireToken(i))
    \/ \E c \in Call : A!CallStep(c) \/ \E i \in Id : A!Arrive(c, i)
    \/ A!Background \/ A!Restarted \/ A!Reloaded

LEMMA ApiPart == [Next]_vars => [ApiNext]_apiVars
<1> SUFFICES ASSUME Next, apiVars' # apiVars PROVE ApiNext
  BY DEF vars, apiVars
<1>1. ASSUME Tokens \/ BesideCalls \/ Restart PROVE ApiNext
  BY <1>1 DEF Tokens, BesideCalls, Restart, OfToken, OfLogin, OfLog, OfApi, OfTable, ApiNext
<1>2. ASSUME NEW c \in Call, Request(c) PROVE ApiNext
  BY <1>2 DEF Request, OfApi, ApiNext
<1> QED
  BY <1>1, <1>2
     DEF Next, OfToken, OfLogin, OfLog, OfStart, OfTable, ApiCall, ApiStep, Login, LoginStep,
         UpdateUser, ChangeStep, Consume, VisitStep, MakeLink, CommandLine, Time,
         Record, BesideLog, Starting, Setup, RunCommand, Write, SaveStep, KeyStep

Refused == {"expired", "revoked", "deleted"}

\* A call that came with a refused token stops at the lookup.
RefusedStop ==
    /\ \A c \in barred : pc[c] = "done" \/ (pc[c] = "find" /\ token[by[c]] \in Refused)
    /\ \A c \in served \cup granted : pc[c] = "done"

\* Time and its lock are at most Stall apart.
TimesAreRecent == \A c \in Call : pc[c] = "limit" => at[c] <= clock /\ clock - at[c] <= Stall

Buckets == bucket \in [Id -> [tokens : Int, last : A!Time \cup {A!Never}]]

ApiTyped == A!TypeOK /\ Buckets /\ IsFiniteSet(granted)

LEMMA ApiConstants ==
    /\ Burst \in Nat /\ Burst >= 1 /\ Refill \in Nat /\ Refill >= 1 /\ Stall \in Nat
    /\ MaxClock \in Nat /\ Idle \in Nat /\ (Idle + 1 - 2 * Stall) * Refill >= Burst
    /\ Id \subseteq Nat /\ Id # {}
BY AccessConstants

LEMMA RefillTyped ==
    ASSUME NEW b \in [tokens : Int, last : A!Time \cup {A!Never}], NEW now \in A!Time
    PROVE  /\ A!Refilled(b, now) \in Int /\ A!Refilled(b, now) <= Burst
           /\ A!Taken(b, now).tokens \in Int /\ A!Taken(b, now).tokens <= Burst
<1>1. (now - b.last) * Refill \in Int
  BY ApiConstants DEF A!Time, A!Never
<1>2. A!Refilled(b, now) \in Int /\ A!Refilled(b, now) <= Burst
  BY <1>1, ApiConstants DEF A!Refilled
<1>3. A!Taken(b, now).tokens =
          IF b = A!NoBucket THEN Burst - 1
          ELSE A!Refilled(b, now) - (IF A!Refilled(b, now) >= 1 THEN 1 ELSE 0)
  BY DEF A!Taken
<1> HIDE DEF A!Refilled
<1> QED
  BY <1>2, <1>3, ApiConstants

LEMMA ApiTypedInit == Init => ApiTyped
<1> SUFFICES ASSUME Init PROVE ApiTyped
  OBVIOUS
<1> USE ApiConstants
<1>1. A!Init
  BY DEF Init
<1>2. 0 \in A!Time /\ (CHOOSE i \in Id : TRUE) \in Id
  BY DEF A!Time
<1>3. Buckets
  BY <1>1 DEF A!Init, Buckets, A!NoBucket
<1>4. IsFiniteSet(granted)
  BY <1>1, FS_EmptySet DEF A!Init
<1> QED
  BY <1>1, <1>2, <1>3, <1>4 DEF A!Init, ApiTyped, A!TypeOK, A!NoBucket

LEMMA ApiTypedNext == ASSUME ApiTyped, [ApiNext]_apiVars PROVE ApiTyped'
<1> USE ApiConstants DEF ApiTyped
<1>1. CASE A!CreateToken \/ \E i \in Id : A!RevokeToken(i) \/ A!DeleteToken(i) \/ A!ExpireToken(i)
  <2>1. PICK i \in Id, s \in {"live", "revoked", "deleted", "expired"} :
            /\ token' = [token EXCEPT ![i] = s]
            /\ UNCHANGED <<clock, pending, batch, bucket, A!callVars>>
    BY <1>1 DEF A!CreateToken, A!RevokeToken, A!DeleteToken, A!ExpireToken, A!Becomes
  <2> QED
    BY <2>1 DEF A!TypeOK, Buckets, A!callVars
<1>2. ASSUME NEW c \in Call, NEW i \in Id, A!Arrive(c, i) PROVE ApiTyped'
  BY <1>2 DEF A!Arrive, A!Goes, A!TypeOK, Buckets, A!tokenVars
<1>3. ASSUME NEW c \in Call, A!FindActive(c) \/ A!FindFails(c) \/ A!AllowOlder(c) PROVE ApiTyped'
  <2>1. by[c] \in Id
    BY DEF A!TypeOK
  <2>2. /\ pc' \in [Call -> {"idle", "find", "limit", "done"}]
        /\ pending' \in {pending, pending \cup {by[c]}}
        /\ at' \in {at, [at EXCEPT ![c] = clock]}
        /\ served' \in {served, served \cup {c}}
        /\ UNCHANGED <<clock, token, batch, bucket, by, barred, granted, older>>
    BY <1>3 DEF A!FindActive, A!FindFails, A!AllowOlder, A!Handle, A!Goes, A!TypeOK, A!tokenVars
  <2> QED
    BY <2>1, <2>2 DEF A!TypeOK, Buckets
<1>4. ASSUME NEW c \in Call, A!Allow(c) PROVE ApiTyped'
  <2> DEFINE t == A!Taken(bucket[by[c]], at[c])
  <2>1. by[c] \in Id /\ at[c] \in A!Time /\ bucket[by[c]] \in [tokens : Int, last : A!Time \cup {A!Never}]
    BY DEF A!TypeOK, Buckets
  <2>2. t.tokens \in Int /\ t.tokens <= Burst
    BY <2>1, RefillTyped
  <2>3. bucket' = [bucket EXCEPT ![by[c]] = [tokens |-> t.tokens, last |-> at[c]]]
    BY <1>4 DEF A!Allow
  <2>4. /\ granted' \in {granted, granted \cup {c}} /\ served' \in {served, served \cup {c}}
        /\ pc' = [pc EXCEPT ![c] = "done"]
        /\ UNCHANGED <<clock, token, pending, batch, by, at, barred, older>>
    BY <1>4 DEF A!Allow, A!Handle, A!Goes, A!tokenVars
  <2> HIDE DEF t
  <2>5. Buckets'
    BY <2>1, <2>2, <2>3 DEF Buckets, A!TypeOK
  <2>6. \A i \in Id : /\ bucket'[i].last \in A!Time \cup {A!Never}
                      /\ bucket'[i].tokens \in Int /\ bucket'[i].tokens <= Burst
    BY <2>1, <2>2, <2>3 DEF Buckets, A!TypeOK
  <2>7. IsFiniteSet(granted)'
    BY <2>4, FS_AddElement
  <2> QED
    BY <2>4, <2>5, <2>6, <2>7 DEF A!TypeOK
<1>5. CASE A!Background
  <2>1. \A i \in Id : bucket'[i] \in {bucket[i], A!NoBucket}
    BY <1>5 DEF A!Background, A!TakeTouches, A!FlushTouches, A!Tick, A!Collect
  <2>2. Buckets'
    BY <1>5 DEF A!Background, A!TakeTouches, A!FlushTouches, A!Tick, A!Collect, Buckets, A!NoBucket
  <2>3. /\ clock' \in A!Time /\ pending' \subseteq Id /\ batch' \subseteq Id
        /\ UNCHANGED <<token, A!callVars>>
    BY <1>5 DEF A!Background, A!TakeTouches, A!FlushTouches, A!Tick, A!Collect, A!TypeOK,
       A!tokenVars, A!Time
  <2> QED
    BY <2>1, <2>2, <2>3 DEF A!TypeOK, A!callVars, A!NoBucket
<1>6. CASE A!Restarted \/ A!Reloaded
  <2>1. bucket' = [i \in Id |-> A!NoBucket]
    BY <1>6 DEF A!Restarted, A!Reloaded
  <2>2. granted' = {}
    BY <1>6 DEF A!Restarted, A!Reloaded
  <2>3. Buckets' /\ IsFiniteSet(granted)'
    BY <2>1, <2>2, FS_EmptySet DEF Buckets, A!NoBucket
  <2>4. /\ clock' = clock /\ token' = token /\ by' = by /\ at' = at /\ barred' = barred /\ served' = served
        /\ pending' \subseteq pending /\ batch' \subseteq batch /\ older' \subseteq Call
        /\ pc' \in [Call -> {"idle", "find", "limit", "done"}]
    BY <1>6 DEF A!Restarted, A!Reloaded, A!TypeOK, A!tokenVars
  <2> QED
    BY <2>1, <2>2, <2>3, <2>4 DEF A!TypeOK, A!NoBucket
<1>7. CASE UNCHANGED apiVars
  BY <1>7 DEF apiVars, A!TypeOK, Buckets
<1> QED
  BY <1>1, <1>2, <1>3, <1>4, <1>5, <1>6, <1>7 DEF ApiNext, A!CallStep

LEMMA RefusedNext ==
    ASSUME ApiTyped, RefusedStop, RevokedIsRefused, [ApiNext]_apiVars
    PROVE  RefusedStop' /\ RevokedIsRefused'
<1> USE DEF ApiTyped, A!TypeOK, RefusedStop, RevokedIsRefused, A!RevokedIsRefused, Refused
<1>1. CASE A!CreateToken \/ \E i \in Id : A!RevokeToken(i) \/ A!DeleteToken(i) \/ A!ExpireToken(i)
  BY <1>1 DEF A!CreateToken, A!RevokeToken, A!DeleteToken, A!ExpireToken, A!Becomes, A!callVars
<1>2. ASSUME NEW c \in Call, NEW i \in Id, A!Arrive(c, i) PROVE RefusedStop' /\ RevokedIsRefused'
  BY <1>2 DEF A!Arrive, A!Goes, A!tokenVars
<1>3. ASSUME NEW c \in Call, A!CallStep(c) PROVE RefusedStop' /\ RevokedIsRefused'
  BY <1>3 DEF A!CallStep, A!FindActive, A!FindFails, A!AllowOlder, A!Allow, A!Handle, A!Goes, A!tokenVars
<1>4. CASE A!Background
  BY <1>4 DEF A!Background, A!TakeTouches, A!FlushTouches, A!Tick, A!Collect, A!callVars, A!tokenVars
<1>5. CASE A!Restarted \/ A!Reloaded
  BY <1>5 DEF A!Restarted, A!Reloaded, A!tokenVars
<1>6. CASE UNCHANGED apiVars
  BY <1>6 DEF apiVars
<1> QED
  BY <1>1, <1>2, <1>3, <1>4, <1>5, <1>6 DEF ApiNext

LEMMA TimesNext == ASSUME ApiTyped, TimesAreRecent, [ApiNext]_apiVars PROVE TimesAreRecent'
<1> USE ApiConstants DEF ApiTyped, A!TypeOK, TimesAreRecent, A!Time
<1>1. CASE A!CreateToken \/ \E i \in Id : A!RevokeToken(i) \/ A!DeleteToken(i) \/ A!ExpireToken(i)
  BY <1>1 DEF A!CreateToken, A!RevokeToken, A!DeleteToken, A!ExpireToken, A!Becomes, A!callVars
<1>2. ASSUME NEW c \in Call, NEW i \in Id, A!Arrive(c, i) PROVE TimesAreRecent'
  BY <1>2 DEF A!Arrive, A!Goes
<1>3. ASSUME NEW c \in Call, A!CallStep(c) PROVE TimesAreRecent'
  BY <1>3 DEF A!CallStep, A!FindActive, A!FindFails, A!AllowOlder, A!Allow, A!Goes
<1>4. CASE A!Background
  BY <1>4 DEF A!Background, A!TakeTouches, A!FlushTouches, A!Tick, A!Collect, A!callVars
<1>5. CASE A!Restarted \/ A!Reloaded
  BY <1>5 DEF A!Restarted, A!Reloaded
<1>6. CASE UNCHANGED apiVars
  BY <1>6 DEF apiVars
<1> QED
  BY <1>1, <1>2, <1>3, <1>4, <1>5, <1>6 DEF ApiNext

-----------------------------------------------------------------------------
(* The budget.  What counts of a bucket is its level: what it would hold at *)
(* time 0.  A call lowers it, by one if it passes, and to a bound that the  *)
(* call's own time sets; the order of the times does not matter.            *)

Level(b) == b.tokens - Refill * b.last

\* A bucket is not further below full than the calls of Stall ticks can bring it.
Levels ==
    \A i \in Id :
        bucket[i] = A!NoBucket
            \/ /\ bucket[i].last \in 0..clock
               /\ Level(bucket[i]) >= -(Refill * clock)
               /\ Level(bucket[i]) >= -(Refill * (bucket[i].last + Stall))

Window(i, since, to) == {c \in granted : by[c] = i /\ at[c] \in since..to}

\* n calls of a window are paid for, by the bucket or, once it has been dropped,
\* by the time that has gone by.
Paid(i, since, to, n) ==
    \/ n = 0
    \/ /\ n <= Burst + Refill * (to - since)
       /\ IF bucket[i] = A!NoBucket THEN n <= Refill * (clock - Stall - since)
          ELSE Level(bucket[i]) <= Burst - Refill * since - n

AllPaid ==
    \A i \in Id : \A since \in A!Time : \A to \in since..MaxClock :
        Paid(i, since, to, Cardinality(Window(i, since, to)))

LEMMA Scaled ==
    ASSUME NEW x \in Int, NEW y \in Int
    PROVE  /\ Refill * x \in Int
           /\ Refill * (x + y) = Refill * x + Refill * y
           /\ Refill * (x - y) = Refill * x - Refill * y
           /\ x <= y => Refill * x <= Refill * y
BY ApiConstants

LEMMA Grows ==
    ASSUME NEW x \in Int, NEW y \in Int, x <= y
    PROVE  Refill * x \in Int /\ Refill * y \in Int /\ Refill * x <= Refill * y
BY ApiConstants

LEMMA Drawn ==
    ASSUME NEW b \in [tokens : Int, last : A!Time \cup {A!Never}], NEW now \in A!Time,
           NEW new, new = [tokens |-> A!Taken(b, now).tokens, last |-> now]
    PROVE  /\ new # A!NoBucket /\ Level(new) \in Int /\ Level(b) \in Int /\ Refill * now \in Int
           /\ b = A!NoBucket => A!Taken(b, now).ok /\ Level(new) = Burst - Refill * now - 1
           /\ b # A!NoBucket /\ A!Taken(b, now).ok =>
                  /\ Level(b) + Refill * now >= 1 /\ Level(new) <= Level(b) - 1
                  /\ Level(new) <= Burst - Refill * now - 1 /\ Level(new) >= -(Refill * now)
           /\ b # A!NoBucket /\ ~A!Taken(b, now).ok => Level(new) = Level(b)
<1> USE ApiConstants
<1>1. now \in Int /\ b.last \in Int /\ b.tokens \in Int /\ now # A!Never
  BY DEF A!Time, A!Never
<1>2. /\ Refill * now \in Int /\ Refill * b.last \in Int
      /\ (now - b.last) * Refill = Refill * now - Refill * b.last
  BY <1>1, Scaled
<1> DEFINE full == b.tokens + (now - b.last) * Refill
<1>3. full \in Int /\ full = Level(b) + Refill * now /\ Level(b) \in Int
  BY <1>1, <1>2 DEF Level
<1>4. A!Refilled(b, now) = IF full > Burst THEN Burst ELSE full
  BY DEF A!Refilled
<1>5. new # A!NoBucket /\ Level(new) = A!Taken(b, now).tokens - Refill * now
  BY <1>1 DEF A!NoBucket, Level
<1>6. CASE b = A!NoBucket
  BY <1>2, <1>3, <1>5, <1>6 DEF A!Taken
<1>7. CASE b # A!NoBucket
  <2>1. /\ A!Taken(b, now).ok <=> A!Refilled(b, now) >= 1
        /\ A!Taken(b, now).tokens =
               A!Refilled(b, now) - (IF A!Refilled(b, now) >= 1 THEN 1 ELSE 0)
    BY <1>7 DEF A!Taken
  <2> HIDE DEF full
  <2> QED
    BY <1>2, <1>3, <1>4, <1>5, <1>7, <2>1
<1> QED
  BY <1>6, <1>7

LEMMA LevelsNext == ASSUME ApiTyped, TimesAreRecent, Levels, [ApiNext]_apiVars PROVE Levels'
<1> USE ApiConstants
<1>0. clock \in Nat /\ Buckets /\ (by \in [Call -> Id]) /\ (at \in [Call -> A!Time])
  BY DEF ApiTyped, A!TypeOK, A!Time
<1>1. ASSUME NEW c \in Call, A!Allow(c) PROVE Levels'
  <2> DEFINE b == bucket[by[c]]
             now == at[c]
             new == [tokens |-> A!Taken(b, now).tokens, last |-> now]
  <2>1. b \in [tokens : Int, last : A!Time \cup {A!Never}] /\ now \in A!Time /\ by[c] \in Id
    BY <1>0 DEF Buckets
  <2>2. bucket' = [bucket EXCEPT ![by[c]] = new] /\ clock' = clock /\ now <= clock /\ clock <= now + Stall
    BY <1>0, <1>1, <2>1 DEF A!Allow, A!Goes, TimesAreRecent, A!Time
  <2> HIDE DEF new
  <2>3. /\ new # A!NoBucket /\ Level(new) \in Int /\ Level(b) \in Int /\ Refill * now \in Int
        /\ b = A!NoBucket => A!Taken(b, now).ok /\ Level(new) = Burst - Refill * now - 1
        /\ b # A!NoBucket /\ A!Taken(b, now).ok => Level(new) >= -(Refill * now)
        /\ b # A!NoBucket /\ ~A!Taken(b, now).ok => Level(new) = Level(b)
    BY <2>1, Drawn DEF new
  <2>4. /\ Refill * now <= Refill * clock /\ Refill * clock \in Int
        /\ Refill * clock <= Refill * (now + Stall) /\ Refill * (now + Stall) \in Int
    BY <1>0, <2>1, <2>2, Scaled DEF A!Time
  <2>5. b # A!NoBucket => Level(b) >= -(Refill * clock)
    BY <2>1 DEF Levels
  <2>6. Level(new) >= -(Refill * clock) /\ Level(new) >= -(Refill * (now + Stall))
    BY <2>3, <2>4, <2>5
  <2>7. new.last = now /\ now \in 0..clock
    BY <1>0, <2>1, <2>2 DEF new, A!Time
  <2>8. \A i \in Id : bucket'[i] = IF i = by[c] THEN new ELSE bucket[i]
    BY <1>0, <2>2 DEF Buckets
  <2> QED
    BY <2>2, <2>6, <2>7, <2>8 DEF Levels, Level
<1>2. CASE A!Background
  <2>1. \A i \in Id : bucket'[i] \in {bucket[i], A!NoBucket}
    BY <1>2 DEF A!Background, A!TakeTouches, A!FlushTouches, A!Tick, A!Collect
  <2>2. clock' \in Nat /\ clock <= clock'
    BY <1>0, <1>2 DEF A!Background, A!TakeTouches, A!FlushTouches, A!Tick, A!Collect
  <2>3. Refill * clock <= Refill * clock' /\ Refill * clock \in Int /\ Refill * clock' \in Int
    <3>1. clock \in Int /\ clock' \in Int /\ clock <= clock'
      BY <1>0, <2>2
    <3> QED
      BY <3>1, Grows
  <2>4. \A i \in Id : bucket[i].tokens \in Int /\ bucket[i].last \in Int
    BY <1>0 DEF Buckets, A!Time, A!Never
  <2>5. \A i \in Id : Level(bucket[i]) \in Int
    BY <2>4, Scaled DEF Level
  <2> SUFFICES ASSUME NEW i \in Id, bucket'[i] # A!NoBucket
               PROVE  /\ bucket'[i].last \in 0..clock'
                      /\ Level(bucket'[i]) >= -(Refill * clock')
                      /\ Level(bucket'[i]) >= -(Refill * (bucket'[i].last + Stall))
    BY DEF Levels, Level
  <2>6. bucket'[i] = bucket[i]
    BY <2>1
  <2>7. /\ bucket[i].last \in 0..clock
        /\ Level(bucket[i]) >= -(Refill * clock)
        /\ Level(bucket[i]) >= -(Refill * (bucket[i].last + Stall))
    BY <2>6 DEF Levels
  <2> QED
    BY <1>0, <2>2, <2>3, <2>5, <2>6, <2>7
<1>3. CASE A!Restarted \/ A!Reloaded
  BY <1>3 DEF A!Restarted, A!Reloaded, Levels
<1>4. CASE UNCHANGED <<clock, bucket>>
  BY <1>4 DEF Levels, Level
<1> QED
  BY <1>1, <1>2, <1>3, <1>4
     DEF ApiNext, A!CallStep, A!CreateToken, A!RevokeToken, A!DeleteToken, A!ExpireToken, A!Becomes,
         A!Arrive, A!FindActive, A!FindFails, A!AllowOlder, apiVars

LEMMA SameWindow ==
    ASSUME NEW i, NEW since, NEW to, granted' = granted,
           \A c \in granted : by'[c] = by[c] /\ at'[c] = at[c]
    PROVE  Window(i, since, to)' = Window(i, since, to)
BY DEF Window

LEMMA Later ==
    ASSUME NEW x \in Int, NEW y \in Int, NEW d \in Int, NEW e \in Int, x <= y
    PROVE  x - d - e \in Int /\ y - d - e \in Int /\ x - d - e <= y - d - e
OBVIOUS

LEMMA AllPaidNext ==
    ASSUME ApiTyped, RefusedStop, TimesAreRecent, Levels, AllPaid, [ApiNext]_apiVars
    PROVE  AllPaid'
<1> USE ApiConstants
<1>0. /\ clock \in Nat /\ clock <= MaxClock /\ Buckets /\ IsFiniteSet(granted)
      /\ (by \in [Call -> Id]) /\ (at \in [Call -> A!Time]) /\ granted \subseteq Call
  BY DEF ApiTyped, A!TypeOK, A!Time
<1>. SUFFICES ASSUME NEW i \in Id, NEW since \in A!Time, NEW to \in since..MaxClock
             PROVE  Paid(i, since, to, Cardinality(Window(i, since, to)))'
  BY DEF AllPaid, A!Time
<1> DEFINE W == Window(i, since, to)
           n == Cardinality(W)
<1>1. W \subseteq granted /\ IsFiniteSet(W) /\ n \in Nat
  BY <1>0, FS_Subset, FS_CardinalityType DEF Window
<1>2. Paid(i, since, to, n)
  BY DEF AllPaid
<1>3. /\ since \in Int /\ to \in Int /\ since >= 0 /\ since <= to
      /\ Refill * since \in Int /\ Refill * to \in Int
      /\ Refill * (to - since) = Refill * to - Refill * since /\ Refill * (to - since) >= 0
  BY Scaled DEF A!Time
<1>4. /\ bucket[i].tokens \in Int /\ bucket[i].last \in Int /\ Level(bucket[i]) \in Int
      /\ Refill * (clock - Stall - since) \in Int
      /\ bucket[i] \in [tokens : Int, last : A!Time \cup {A!Never}]
  <2>1. bucket[i].tokens \in Int /\ bucket[i].last \in Int
    BY <1>0 DEF Buckets, A!Time, A!Never
  <2> QED
    BY <1>0, <1>3, <2>1, Scaled DEF Level, Buckets
<1>5. ASSUME NEW c \in Call, A!Allow(c) PROVE Paid(i, since, to, Cardinality(Window(i, since, to)))'
  <2> DEFINE b == bucket[by[c]]
             now == at[c]
             new == [tokens |-> A!Taken(b, now).tokens, last |-> now]
  <2>1. b \in [tokens : Int, last : A!Time \cup {A!Never}] /\ now \in A!Time /\ by[c] \in Id
    BY <1>0 DEF Buckets
  <2>10. now \in Int
    BY <2>1 DEF A!Time
  <2>2. /\ bucket' = [bucket EXCEPT ![by[c]] = new] /\ clock' = clock /\ by' = by /\ at' = at
        /\ granted' = IF A!Taken(b, now).ok THEN granted \cup {c} ELSE granted
        /\ pc[c] = "limit"
    BY <1>5, Zenon DEF A!Allow, A!Goes
  <2>3. c \notin granted
    BY <2>2 DEF RefusedStop
  <2>4. now <= clock /\ clock - Stall <= now
    BY <1>0, <2>1, <2>10, <2>2 DEF TimesAreRecent
  <2> HIDE DEF new
  <2>5. \A k \in Id : bucket'[k] = IF k = by[c] THEN new ELSE bucket[k]
    BY <1>0, <2>2 DEF Buckets
  <2>6. CASE by[c] # i
    <3>1. Window(i, since, to)' = W /\ bucket'[i] = bucket[i]
      BY <2>2, <2>5, <2>6 DEF Window
    <3> QED
      BY <1>2, <2>2, <3>1 DEF Paid, Level
  <2>7. CASE by[c] = i
    <3> DEFINE m == Cardinality(Window(i, since, to))'
    <3>1. bucket'[i] = new /\ b = bucket[i]
      BY <2>5, <2>7
    <3>2. /\ new # A!NoBucket /\ Level(new) \in Int /\ Level(b) \in Int /\ Refill * now \in Int
          /\ b = A!NoBucket => A!Taken(b, now).ok /\ Level(new) = Burst - Refill * now - 1
          /\ b # A!NoBucket /\ A!Taken(b, now).ok =>
                 /\ Level(b) + Refill * now >= 1 /\ Level(new) <= Level(b) - 1
                 /\ Level(new) <= Burst - Refill * now - 1
          /\ b # A!NoBucket /\ ~A!Taken(b, now).ok => Level(new) = Level(b)
      BY <2>1, Drawn DEF new
    <3>3. m = IF A!Taken(b, now).ok /\ now \in since..to THEN n + 1 ELSE n
      <4>1. CASE A!Taken(b, now).ok /\ now \in since..to
        <5>1. Window(i, since, to)' = W \cup {c} /\ c \notin W
          BY <2>2, <2>3, <2>7, <4>1, <1>0 DEF Window
        <5> QED
          BY <1>1, <4>1, <5>1, FS_AddElement
      <4>2. CASE ~(A!Taken(b, now).ok /\ now \in since..to)
        <5>1. Window(i, since, to)' = W
          BY <2>2, <2>3, <2>7, <4>2, <1>0 DEF Window
        <5> QED
          BY <4>2, <5>1
      <4> QED
        BY <4>1, <4>2
    <3>4. Paid(i, since, to, Cardinality(Window(i, since, to)))' <=>
              \/ m = 0
              \/ /\ m <= Burst + Refill * (to - since)
                 /\ Level(new) <= Burst - Refill * since - m
      BY <3>1, <3>2 DEF Paid, Level
    <3>5. now \in since..to => Refill * since <= Refill * now /\ Refill * now <= Refill * to
      BY <1>3, <2>10, Grows
    <3>6. n # 0 /\ b = A!NoBucket => n <= Refill * now - Refill * since
      <4> SUFFICES ASSUME n # 0, b = A!NoBucket PROVE n <= Refill * now - Refill * since
        OBVIOUS
      <4>1. n <= Refill * (clock - Stall - since)
        BY <1>2, <3>1 DEF Paid
      <4>2. Refill * (clock - Stall - since) <= Refill * (now - since)
        <5>1. clock - Stall - since \in Int /\ now - since \in Int /\ clock - Stall - since <= now - since
          BY <1>0, <1>3, <2>10, <2>4
        <5> QED
          BY <5>1, Grows
      <4>3. Refill * (now - since) = Refill * now - Refill * since
        BY <1>3, <2>1, <2>10, Scaled
      <4> QED
        BY <1>1, <1>3, <1>4, <3>2, <4>1, <4>2, <4>3
    <3>7. n # 0 /\ b # A!NoBucket => Level(b) <= Burst - Refill * since - n
      BY <1>2, <3>1 DEF Paid
    <3>8. n # 0 => n <= Burst + Refill * (to - since)
      BY <1>2 DEF Paid
    <3> HIDE DEF n, m, W, b, now
    <3>9. CASE A!Taken(b, now).ok /\ now \in since..to
      BY <1>1, <1>3, <3>2, <3>3, <3>4, <3>5, <3>6, <3>7, <3>8, <3>9
    <3>10. CASE ~(A!Taken(b, now).ok /\ now \in since..to)
      BY <1>1, <1>3, <3>2, <3>3, <3>4, <3>6, <3>7, <3>8, <3>10
    <3> QED
      BY <3>9, <3>10
  <2> QED
    BY <2>6, <2>7
<1>6. CASE A!Background
  <2>1. /\ granted' = granted /\ by' = by /\ at' = at
        /\ clock' \in Nat /\ clock <= clock'
    BY <1>0, <1>6 DEF A!Background, A!TakeTouches, A!FlushTouches, A!Tick, A!Collect, A!callVars
  <2>2. Window(i, since, to)' = W
    BY <2>1, SameWindow
  <2>3. Refill * (clock - Stall - since) <= Refill * (clock' - Stall - since)
            /\ Refill * (clock' - Stall - since) \in Int
    <3>1. /\ clock - Stall - since \in Int /\ clock' - Stall - since \in Int
          /\ clock - Stall - since <= clock' - Stall - since
      <4>1. clock \in Int /\ clock' \in Int /\ clock <= clock'
        BY <1>0, <2>1
      <4>2. since \in Int
        BY <1>3
      <4>3. Stall \in Int
        BY ApiConstants
      <4> QED
        BY <4>1, <4>2, <4>3, Later
    <3> QED
      BY <3>1, Grows
  <2>4. CASE bucket'[i] = bucket[i]
    <3>1. n # 0 => n <= Burst + Refill * (to - since)
      BY <1>2 DEF Paid
    <3>2. n # 0 /\ bucket[i] = A!NoBucket => n <= Refill * (clock' - Stall - since)
      <4>1. n # 0 /\ bucket[i] = A!NoBucket => n <= Refill * (clock - Stall - since)
        BY <1>2 DEF Paid
      <4> DEFINE x == Refill * (clock - Stall - since)
                 y == Refill * (clock' - Stall - since)
      <4>2. x \in Int /\ y \in Int /\ x <= y /\ (n # 0 /\ bucket[i] = A!NoBucket => n <= x)
        BY <1>4, <2>3, <4>1
      <4> HIDE DEF x, y, n
      <4>3. n # 0 /\ bucket[i] = A!NoBucket => n <= y
        BY <1>1, <4>2
      <4> QED
        BY <4>3 DEF y
    <3>3. n # 0 /\ bucket[i] # A!NoBucket => Level(bucket[i]) <= Burst - Refill * since - n
      BY <1>2 DEF Paid
    <3>4. Level(bucket[i])' = Level(bucket[i])
      BY <2>4 DEF Level
    <3> QED
      BY <2>2, <2>4, <3>1, <3>2, <3>3, <3>4 DEF Paid
  <2>5. CASE bucket'[i] # bucket[i]
    <3>1. bucket'[i] = A!NoBucket /\ bucket[i] # A!NoBucket /\ bucket[i].last < clock - Idle
          /\ clock' = clock
      BY <1>6, <2>5 DEF A!Background, A!TakeTouches, A!FlushTouches, A!Tick, A!Collect
    <3> SUFFICES ASSUME n # 0 PROVE n <= Refill * (clock - Stall - since)
      BY <1>2, <2>2, <3>1 DEF Paid
    <3>2. n <= Burst - Refill * since - Level(bucket[i])
      BY <1>1, <1>2, <1>3, <1>4, <3>1 DEF Paid
    <3>3. Level(bucket[i]) >= -(Refill * (bucket[i].last + Stall))
      BY <3>1 DEF Levels
    <3>4. /\ Refill * (bucket[i].last + Stall) <= Refill * (clock - Idle - 1 + Stall)
          /\ Refill * (bucket[i].last + Stall) \in Int
          /\ Refill * (clock - Idle - 1 + Stall) \in Int
      BY <1>0, <1>4, <3>1, Scaled
    <3>5. Refill * (clock - Idle - 1 + Stall) + (Idle + 1 - 2 * Stall) * Refill
              = Refill * (clock - Stall)
      BY <1>0
    <3>6. Refill * (clock - Stall - since) = Refill * (clock - Stall) - Refill * since
          /\ Refill * (clock - Stall) \in Int
      BY <1>0, <1>3, Scaled
    <3>7. (Idle + 1 - 2 * Stall) * Refill >= Burst /\ (Idle + 1 - 2 * Stall) * Refill \in Int
      OBVIOUS
    <3> QED
      BY <1>1, <1>3, <1>4, <3>2, <3>3, <3>4, <3>5, <3>6, <3>7
  <2> QED
    BY <2>4, <2>5
<1>7. CASE A!Restarted \/ A!Reloaded
  <2>1. Window(i, since, to)' = {}
    BY <1>7 DEF A!Restarted, A!Reloaded, Window
  <2> QED
    BY <2>1, FS_EmptySet DEF Paid
<1>8. CASE /\ UNCHANGED <<clock, bucket, granted>>
           /\ \A c \in granted : by'[c] = by[c] /\ at'[c] = at[c]
  BY <1>2, <1>8, SameWindow DEF Paid, Level
<1>9. ASSUME NEW c \in Call, (\E k \in Id : A!Arrive(c, k)) \/ A!FindActive(c)
      PROVE  \A x \in granted : by'[x] = by[x] /\ at'[x] = at[x]
  BY <1>0, <1>9 DEF A!Arrive, A!FindActive, A!Goes, RefusedStop
<1> QED
  BY <1>5, <1>6, <1>7, <1>8, <1>9
     DEF ApiNext, A!CallStep, A!CreateToken, A!RevokeToken, A!DeleteToken, A!ExpireToken, A!Becomes,
         A!Arrive, A!FindActive, A!FindFails, A!AllowOlder, apiVars, A!callVars

ApiInv ==
    ApiTyped /\ RefusedStop /\ RevokedIsRefused /\ TimesAreRecent /\ Levels /\ AllPaid

LEMMA ApiIsSafe == Spec => [](A!TypeOK /\ RevokedIsRefused /\ BudgetHolds)
<1>1. Init => ApiInv
  <2> SUFFICES ASSUME Init PROVE ApiInv
    OBVIOUS
  <2>1. A!Init
    BY DEF Init
  <2>2. \A i, since, to : Window(i, since, to) = {}
    BY <2>1 DEF A!Init, Window
  <2>3. AllPaid
    BY <2>2, FS_EmptySet DEF AllPaid, Paid
  <2> QED
    BY <2>1, <2>3, ApiTypedInit DEF ApiInv, A!Init, RefusedStop, RevokedIsRefused,
       A!RevokedIsRefused, TimesAreRecent, Levels
<1>2. ApiInv /\ [Next]_vars => ApiInv'
  BY ApiPart, ApiTypedNext, RefusedNext, TimesNext, LevelsNext, AllPaidNext DEF ApiInv
<1>3. ApiInv => A!TypeOK /\ RevokedIsRefused /\ BudgetHolds
  <2> SUFFICES ASSUME ApiInv, NEW i \in Id, NEW since \in A!Time, NEW to \in since..MaxClock
               PROVE  A!Cardinality({c \in granted : by[c] = i /\ at[c] \in since..to})
                          <= Burst + Refill * (to - since)
    BY DEF ApiInv, ApiTyped, BudgetHolds, A!BudgetHolds
  <2>1. Paid(i, since, to, Cardinality(Window(i, since, to)))
    BY DEF ApiInv, AllPaid
  <2>2. Refill * (to - since) >= 0 /\ Refill * (to - since) \in Int
    BY ApiConstants, Scaled DEF A!Time
  <2>3. Cardinality(Window(i, since, to)) <= Burst + Refill * (to - since)
    BY <2>1, <2>2, ApiConstants DEF Paid
  <2> QED
    BY <2>3 DEF A!Cardinality, Cardinality, Window
<1> QED
  BY <1>1, <1>2, <1>3, PTL DEF Spec

-----------------------------------------------------------------------------
(* The start of the panel and of commands                                   *)

StartNext == (\E p \in {Panel} \cup Command : B!Starting(p)) \/ B!Setup

LEMMA StartPart == [Next]_vars => [StartNext]_startVars
<1> SUFFICES ASSUME Next, startVars' # startVars PROVE StartNext
  BY DEF vars, startVars
<1>1. ASSUME NEW p \in {Panel} \cup Command, Starting(p) PROVE StartNext
  BY <1>1 DEF Starting, OfStart, StartNext
<1>2. ASSUME Setup PROVE StartNext
  BY <1>2 DEF Setup, OfStart, StartNext
<1> QED
  BY <1>1, <1>2
     DEF Next, OfToken, OfLogin, OfApi, OfLog, OfTable, ApiCall, ApiStep, Login, LoginStep,
         UpdateUser, ChangeStep, Consume, VisitStep, MakeLink, CommandLine, Time, Tokens, Request,
         BesideCalls, Record, BesideLog, RunCommand, Write, SaveStep, KeyStep, Restart

\* The tokens are those of before; none is hashed twice, and what a migration has
\* found is not ahead of the table.
HashedOnce ==
    /\ B!Tokens \subseteq OldToken
    /\ hashings \in [B!Tokens -> 0..1]
    /\ snap \in [B!Process -> [B!Tokens -> 0..1]]
    /\ \A p \in B!Process : \A t \in B!Tokens : snap[p][t] <= hashings[t]

StartTyped ==
    /\ recorded \subseteq {"hash", "rows"} /\ counters \subseteq Client
    /\ account \in BOOLEAN /\ port \in BOOLEAN
    /\ stage \in [B!Process -> {"down", "check", "hash", "rows", "create", "record", "setup",
                                "user", "port", "token", "up"}]
    /\ step \in [B!Process -> 1..3]
    /\ todo \in [B!Process -> SUBSET (OldToken \cup Client)]
    /\ missing \in [B!Process -> SUBSET Client]

\* What a process has visited of its migration is done, whoever did it.
HalfDone ==
    \A p \in B!Process :
        /\ stage[p] = "hash" =>
               /\ step[p] = 1 /\ todo[p] \subseteq B!Tokens
               /\ \A t \in B!Tokens \ todo[p] : hashings[t] = 1
        /\ stage[p] \in {"rows", "create"} =>
               /\ step[p] = 2 /\ todo[p] \subseteq Client
               /\ Client \ (todo[p] \cup missing[p]) \subseteq counters
        /\ stage[p] # "create" => missing[p] = {}
        /\ stage[p] = "record" => step[p] \in {1, 2}
        /\ stage[p] = "record" /\ step[p] = 1 => \A t \in B!Tokens : hashings[t] = 1
        /\ stage[p] = "record" /\ step[p] = 2 => counters = Client

\* Someone has started before a token is issued.
Issued ==
    /\ starts \in 0..MaxStarts
    /\ \A p \in B!Process : stage[p] # "down" => starts >= 1
    /\ issued \in {0, 1} /\ issued <= starts

LEMMA StartFacts ==
    /\ MaxStarts \in Nat /\ B!Process = {Panel} \cup Command /\ Panel \in B!Process
    /\ B!Migrations[1] = "hash" /\ B!Migrations[2] = "rows" /\ Len(B!Migrations) = 2
BY AccessConstants DEF B!Process, B!Migrations

LEMMA StartTypedNext ==
    ASSUME StartTyped, HashedOnce, HalfDone, [StartNext]_startVars PROVE StartTyped'
<1> USE StartFacts DEF StartTyped
<1>1. ASSUME NEW p \in B!Process, B!Start(p) \/ B!Dies(p) \/ B!Migrated(p) \/ B!Opened(p) PROVE StartTyped'
  <2>1. CASE B!Start(p)
    BY <2>1 DEF B!Start, B!Goes, B!dataVars
  <2>2. CASE B!Dies(p)
    BY <2>2 DEF B!Dies, B!dataVars
  <2>3. CASE B!Migrated(p) \/ B!Opened(p)
    BY <2>3 DEF B!Migrated, B!Opened, B!Goes, B!dataVars
  <2> QED
    BY <1>1, <2>1, <2>2, <2>3
<1>2. ASSUME NEW p \in B!Process, B!Check(p) PROVE StartTyped'
  <2>1. step[p] \in {1, 2} /\ B!Migrations[step[p]] \in {"hash", "rows"}
    BY <1>2 DEF B!Check
  <2>2. B!Tokens \subseteq OldToken
    BY DEF HashedOnce
  <2>3. /\ UNCHANGED <<recorded, counters, account, port, missing>>
        /\ step' \in [B!Process -> 1..3]
        /\ \E m \in {"check", "hash", "rows"} : stage' = [stage EXCEPT ![p] = m]
        /\ \E rows \in SUBSET (OldToken \cup Client) : todo' \in {todo, [todo EXCEPT ![p] = rows]}
    BY <1>2, <2>1, <2>2 DEF B!Check, B!Goes, B!dataVars
  <2> QED
    BY <2>3
<1>3. ASSUME NEW p \in B!Process, B!HashToken(p) \/ B!RecordMigration(p) PROVE StartTyped'
  <2>1. B!RecordMigration(p) => step[p] \in {1, 2} /\ B!Migrations[step[p]] \in {"hash", "rows"}
    BY DEF B!RecordMigration, HalfDone, B!Goes
  <2>2. CASE B!HashToken(p)
    BY <2>2 DEF B!HashToken, B!Goes
  <2>3. CASE B!RecordMigration(p)
    <3>1. /\ recorded' \subseteq {"hash", "rows"}
          /\ step[p] \in {1, 2} /\ step' = [step EXCEPT ![p] = @ + 1]
          /\ stage' = [stage EXCEPT ![p] = "check"]
          /\ UNCHANGED <<counters, account, port, todo, missing>>
      BY <2>1, <2>3 DEF B!RecordMigration, B!Goes
    <3> QED
      BY <3>1
  <2> QED
    BY <1>3, <2>2, <2>3
<1>4. ASSUME NEW p \in B!Process, B!CountClient(p) PROVE StartTyped'
  <2>1. PICK c \in todo[p] :
            /\ todo' = [todo EXCEPT ![p] = @ \ {c}]
            /\ IF c \in counters
               THEN UNCHANGED <<stage, missing>>
               ELSE B!Goes(p, "rows", "create") /\ missing' = [missing EXCEPT ![p] = {c}]
    BY <1>4 DEF B!CountClient
  <2>2. c \in Client
    BY <1>4, <2>1 DEF B!CountClient, HalfDone
  <2> QED
    BY <1>4, <2>1, <2>2 DEF B!CountClient, B!Goes, B!dataVars
<1>5. ASSUME NEW p \in B!Process, B!CreateClient(p) PROVE StartTyped'
  BY <1>5 DEF B!CreateClient, B!Goes
<1>6. CASE B!Setup
  BY <1>6 DEF B!Setup, B!CountUsers, B!CreateUser, B!CreatePort, B!SetupFails, B!FirstToken, B!Reset,
     B!Goes, B!dataVars, B!procVars
<1>7. CASE UNCHANGED startVars
  BY <1>7 DEF startVars
<1> QED
  BY <1>1, <1>2, <1>3, <1>4, <1>5, <1>6, <1>7 DEF StartNext, B!Starting

LEMMA HashedOnceNext ==
    ASSUME StartTyped, HashedOnce, HalfDone, [StartNext]_startVars
    PROVE  HashedOnce' /\ B!Tokens' = B!Tokens /\ \A t \in B!Tokens : hashings[t] = 1 => hashings'[t] = 1
<1> USE StartFacts
<1>1. ASSUME NEW p \in B!Process, B!HashToken(p)
      PROVE  HashedOnce' /\ B!Tokens' = B!Tokens /\ \A t \in B!Tokens : hashings[t] = 1 => hashings'[t] = 1
  <2>1. PICK t \in todo[p] :
            hashings' = IF snap[p][t] = 0 THEN [hashings EXCEPT ![t] = 1] ELSE hashings
    BY <1>1 DEF B!HashToken
  <2>2. snap' = snap
    BY <1>1 DEF B!HashToken
  <2>3. t \in DOMAIN hashings
    BY <1>1, <2>1 DEF B!HashToken, B!Goes, HalfDone, B!Tokens
  <2>4. hashings' \in [DOMAIN hashings -> 0..1] /\ \A x \in DOMAIN hashings : hashings[x] <= hashings'[x]
    BY <2>1, <2>3 DEF HashedOnce, B!Tokens
  <2>5. DOMAIN hashings' = DOMAIN hashings
    BY <2>4
  <2>6. \A x \in DOMAIN hashings : hashings[x] \in 0..1 /\ hashings'[x] \in 0..1
    BY <2>4 DEF HashedOnce, B!Tokens
  <2>7. \A q \in B!Process : \A x \in DOMAIN hashings : snap[q][x] \in 0..1 /\ snap[q][x] <= hashings[x]
    BY DEF HashedOnce, B!Tokens
  <2> QED
    BY <2>2, <2>4, <2>5, <2>6, <2>7 DEF HashedOnce, B!Tokens
<1>2. ASSUME NEW p \in B!Process, B!Check(p), hashings' = hashings, B!Tokens' = B!Tokens PROVE HashedOnce'
  <2>1. snap' = snap \/ snap' = [snap EXCEPT ![p] = hashings]
    BY <1>2 DEF B!Check
  <2> QED
    BY <1>2, <2>1 DEF HashedOnce
<1>3. ASSUME \A p \in B!Process : ~B!HashToken(p) PROVE hashings' = hashings
  BY <1>3 DEF StartNext, B!Starting, B!Start, B!Dies, B!Check, B!CountClient, B!CreateClient, B!Migrated,
     B!RecordMigration, B!Opened, B!Setup, B!CountUsers, B!CreateUser, B!CreatePort, B!SetupFails,
     B!FirstToken, B!Reset, B!dataVars, startVars
<1>4. ASSUME \A p \in B!Process : ~B!HashToken(p) /\ ~B!Check(p) PROVE snap' = snap
  BY <1>4 DEF StartNext, B!Starting, B!Start, B!Dies, B!CountClient, B!CreateClient, B!Migrated,
     B!RecordMigration, B!Opened, B!Setup, B!CountUsers, B!CreateUser, B!CreatePort, B!SetupFails,
     B!FirstToken, B!Reset, B!procVars, startVars
<1>5. hashings' = hashings => B!Tokens' = B!Tokens
  BY DEF B!Tokens
<1> QED
  BY <1>1, <1>2, <1>3, <1>4, <1>5 DEF HashedOnce

LEMMA HalfDoneNext ==
    ASSUME StartTyped, HashedOnce, HalfDone, [StartNext]_startVars PROVE HalfDone'
<1> USE StartFacts DEF StartTyped
<1>0. B!Tokens' = B!Tokens /\ \A t \in B!Tokens : hashings[t] = 1 => hashings'[t] = 1
  BY HashedOnceNext
<1> DEFINE Mine(p) ==
        /\ stage[p] = "hash" =>
               /\ step[p] = 1 /\ todo[p] \subseteq B!Tokens
               /\ \A t \in B!Tokens \ todo[p] : hashings[t] = 1
        /\ stage[p] \in {"rows", "create"} =>
               /\ step[p] = 2 /\ todo[p] \subseteq Client
               /\ Client \ (todo[p] \cup missing[p]) \subseteq counters
        /\ stage[p] # "create" => missing[p] = {}
        /\ stage[p] = "record" => step[p] \in {1, 2}
        /\ stage[p] = "record" /\ step[p] = 1 => \A t \in B!Tokens : hashings[t] = 1
        /\ stage[p] = "record" /\ step[p] = 2 => counters = Client
<1>1. HalfDone <=> \A p \in B!Process : Mine(p)
  BY DEF HalfDone
<1>2. HalfDone' <=> \A p \in B!Process : Mine(p)'
  BY DEF HalfDone
<1>3. counters \subseteq counters' /\ counters' \subseteq Client
  <2>1. counters \subseteq counters'
    BY DEF StartNext, B!Starting, B!Start, B!Dies, B!Check, B!HashToken, B!CountClient, B!CreateClient,
       B!Migrated, B!RecordMigration, B!Opened, B!Setup, B!CountUsers, B!CreateUser, B!CreatePort,
       B!SetupFails, B!FirstToken, B!Reset, B!dataVars, startVars
  <2> QED
    BY <2>1, StartTypedNext
\* Who does not move keeps what it has done.
<1>4. ASSUME NEW p \in B!Process, stage'[p] = stage[p], step'[p] = step[p], todo'[p] = todo[p],
             missing'[p] = missing[p]
      PROVE  Mine(p)'
  <2> HIDE StartFacts DEF StartTyped
  <2>1. Mine(p)
    BY <1>1
  <2>2. counters = Client => counters' = Client
    BY <1>3
  <2>3. (\A t \in B!Tokens \ todo[p] : hashings[t] = 1)
            => \A t \in B!Tokens' \ todo'[p] : hashings'[t] = 1
    BY <1>0, <1>4
  <2>4. (\A t \in B!Tokens : hashings[t] = 1) => \A t \in B!Tokens' : hashings'[t] = 1
    BY <1>0
  <2> QED
    BY <1>0, <1>3, <1>4, <2>1, <2>2, <2>3, <2>4
<1>5. ASSUME NEW p \in B!Process, B!Starting(p)
      PROVE  /\ Mine(p)'
             /\ \A q \in B!Process \ {p} : stage'[q] = stage[q] /\ step'[q] = step[q]
                                           /\ todo'[q] = todo[q] /\ missing'[q] = missing[q]
  <2>1. CASE B!Start(p) \/ B!Dies(p) \/ B!Opened(p)
    BY <1>1, <2>1 DEF B!Start, B!Dies, B!Opened, B!Goes, B!dataVars
  <2>2. CASE B!Check(p)
    <3>1. step[p] \in {1, 2}
      BY <2>2 DEF B!Check
    <3>2. CASE B!Migrations[step[p]] \in recorded
      BY <1>1, <2>2, <3>1, <3>2 DEF B!Check, B!Goes, B!dataVars
    <3>3. CASE B!Migrations[step[p]] \notin recorded
      <4>1. /\ stage[p] = "check" /\ stage' = [stage EXCEPT ![p] = B!Migrations[step[p]]]
            /\ todo' = [todo EXCEPT ![p] = IF B!Migrations[step[p]] = "hash" THEN B!Tokens ELSE Client]
            /\ step' = step /\ missing' = missing /\ hashings' = hashings
        BY <2>2, <3>3, Zenon DEF B!Check, B!Goes, B!dataVars
      <4> HIDE DEF B!Tokens
      <4>2. CASE step[p] = 1
        <5>1. B!Migrations[step[p]] = "hash"
          BY <4>2
        <5> QED
          BY <1>0, <1>1, <4>1, <4>2, <5>1
      <4>3. CASE step[p] = 2
        <5>1. B!Migrations[step[p]] = "rows"
          BY <4>3
        <5> QED
          BY <1>0, <1>1, <4>1, <4>3, <5>1
      <4> QED
        BY <3>1, <4>2, <4>3
    <3> QED
      BY <3>2, <3>3
  <2>3. CASE B!HashToken(p)
    <3>1. PICK t \in todo[p] :
              /\ todo' = [todo EXCEPT ![p] = @ \ {t}]
              /\ hashings' = IF snap[p][t] = 0 THEN [hashings EXCEPT ![t] = 1] ELSE hashings
      BY <2>3 DEF B!HashToken
    <3>2. /\ stage[p] = "hash" /\ stage' = [stage EXCEPT ![p] = "hash"]
          /\ step' = step /\ missing' = missing
      BY <2>3 DEF B!HashToken, B!Goes
    <3>3. t \in B!Tokens /\ hashings'[t] = 1
      BY <1>1, <3>1, <3>2 DEF HashedOnce, B!Tokens
    <3> QED
      BY <1>0, <1>1, <3>1, <3>2, <3>3
  <2>4. CASE B!CountClient(p)
    <3>1. PICK c \in todo[p] :
              /\ todo' = [todo EXCEPT ![p] = @ \ {c}]
              /\ IF c \in counters
                 THEN UNCHANGED <<stage, missing>>
                 ELSE B!Goes(p, "rows", "create") /\ missing' = [missing EXCEPT ![p] = {c}]
      BY <2>4 DEF B!CountClient
    <3>2. stage[p] = "rows" /\ step' = step /\ counters' = counters
      BY <2>4 DEF B!CountClient, B!dataVars
    <3> QED
      BY <1>1, <3>1, <3>2 DEF B!Goes
  <2>5. CASE B!CreateClient(p)
    BY <1>1, <2>5 DEF B!CreateClient, B!Goes
  <2>6. CASE B!Migrated(p)
    <3>1. /\ stage' = [stage EXCEPT ![p] = "record"] /\ todo[p] = {}
          /\ step' = step /\ todo' = todo /\ missing' = missing
          /\ hashings' = hashings /\ counters' = counters
      BY <2>6 DEF B!Migrated, B!Goes, B!dataVars
    <3>2. CASE stage[p] = "hash"
      BY <1>0, <1>1, <1>3, <3>1, <3>2
    <3>3. CASE stage[p] = "rows"
      BY <1>0, <1>1, <1>3, <3>1, <3>3
    <3> QED
      BY <2>6, <3>2, <3>3 DEF B!Migrated, B!Goes
  <2>7. CASE B!RecordMigration(p)
    BY <1>1, <2>7 DEF B!RecordMigration, B!Goes
  <2> QED
    BY <1>5, <2>1, <2>2, <2>3, <2>4, <2>5, <2>6, <2>7 DEF B!Starting
<1>6. CASE B!Setup
  <2>1. /\ step' = step /\ todo' = todo /\ missing' = missing
        /\ \A q \in B!Process \ {Panel} : stage'[q] = stage[q]
        /\ \/ stage'[Panel] = stage[Panel]
           \/ /\ stage[Panel] \in {"setup", "user", "port", "token"}
              /\ stage'[Panel] \in {"user", "port", "token", "up"}
    BY <1>6 DEF B!Setup, B!CountUsers, B!CreateUser, B!CreatePort, B!SetupFails, B!FirstToken, B!Reset,
       B!Goes, B!procVars
  <2> QED
    BY <1>1, <1>2, <1>4, <2>1
<1>7. CASE UNCHANGED startVars
  BY <1>2, <1>4, <1>7 DEF startVars
<1> HIDE DEF Mine
<1> QED
  BY <1>2, <1>4, <1>5, <1>6, <1>7 DEF StartNext

LEMMA UpgradeNext ==
    ASSUME StartTyped, HashedOnce, HalfDone, Issued, UpgradeIsWhole, [StartNext]_startVars
    PROVE  UpgradeIsWhole' /\ Issued'
<1> USE StartFacts DEF StartTyped, UpgradeIsWhole, B!UpgradeIsWhole
<1>0. B!Tokens' = B!Tokens /\ \A t \in B!Tokens : hashings[t] = 1 => hashings'[t] = 1
  BY HashedOnceNext
<1>3. counters \subseteq counters' /\ counters' \subseteq Client
  <2>1. counters \subseteq counters'
    BY DEF StartNext, B!Starting, B!Start, B!Dies, B!Check, B!HashToken, B!CountClient, B!CreateClient,
       B!Migrated, B!RecordMigration, B!Opened, B!Setup, B!CountUsers, B!CreateUser, B!CreatePort,
       B!SetupFails, B!FirstToken, B!Reset, B!dataVars, startVars
  <2> QED
    BY <2>1, StartTypedNext
<1>1. ("hash" \in recorded' => \A t \in B!Tokens : hashings'[t] = 1)
        /\ ("rows" \in recorded' => counters' = Client)
  <2>1. ASSUME NEW p \in B!Process, B!RecordMigration(p)
        PROVE  /\ recorded' \subseteq recorded \cup {"hash", "rows"}
               /\ "hash" \in recorded' \ recorded => \A t \in B!Tokens : hashings[t] = 1
               /\ "rows" \in recorded' \ recorded => counters = Client
    <3>1. step[p] \in {1, 2} /\ stage[p] = "record" /\ recorded' = recorded \cup {B!Migrations[step[p]]}
      BY <2>1 DEF B!RecordMigration, B!Goes, HalfDone
    <3> QED
      BY <3>1 DEF HalfDone
  <2>2. ASSUME \A p \in B!Process : ~B!RecordMigration(p) PROVE recorded' = recorded
    BY <2>2 DEF StartNext, B!Starting, B!Start, B!Dies, B!Check, B!HashToken, B!CountClient,
       B!CreateClient, B!Migrated, B!Opened, B!Setup, B!CountUsers, B!CreateUser, B!CreatePort,
       B!SetupFails, B!FirstToken, B!Reset, B!dataVars, startVars
  <2> HIDE DEF B!Tokens
  <2> QED
    BY <1>0, <1>3, <2>1, <2>2
<1>4. /\ issued' \in {0, 1}
      /\ issued' # issued => B!Tokens = {} /\ stage[Panel] = "token" /\ starts' = starts
  BY DEF StartNext, B!Starting, B!Start, B!Dies, B!Check, B!HashToken, B!CountClient, B!CreateClient,
     B!Migrated, B!RecordMigration, B!Opened, B!Setup, B!CountUsers, B!CreateUser, B!CreatePort,
     B!SetupFails, B!FirstToken, B!Reset, B!Goes, B!dataVars, startVars, Issued
<1>5. /\ starts' \in 0..MaxStarts /\ starts <= starts'
      /\ \A p \in B!Process : stage'[p] # "down" => stage[p] # "down" \/ starts' = starts + 1
  BY DEF StartNext, B!Starting, B!Start, B!Dies, B!Check, B!HashToken, B!CountClient, B!CreateClient,
     B!Migrated, B!RecordMigration, B!Opened, B!Setup, B!CountUsers, B!CreateUser, B!CreatePort,
     B!SetupFails, B!FirstToken, B!Reset, B!Goes, B!dataVars, B!procVars, startVars, Issued
<1>6. Issued'
  BY <1>4, <1>5 DEF Issued
<1>7. issued' <= (IF B!Tokens = {} THEN 1 ELSE 0)
  BY <1>4 DEF Issued
<1> QED
  BY <1>0, <1>1, <1>6, <1>7

StartInv == StartTyped /\ HashedOnce /\ HalfDone /\ Issued /\ UpgradeIsWhole

LEMMA StartIsSafe == Spec => [](B!TypeOK /\ UpgradeIsWhole)
<1> USE StartFacts
<1>1. Init => StartInv
  <2> SUFFICES ASSUME Init PROVE StartInv
    OBVIOUS
  <2>1. B!Init
    BY DEF Init
  <2>2. HashedOnce
    BY <2>1 DEF B!Init, HashedOnce, B!Tokens
  <2>3. account \in BOOLEAN /\ port \in BOOLEAN
    BY <2>1 DEF B!Init
  <2> QED
    BY <2>1, <2>2, <2>3 DEF B!Init, StartInv, StartTyped, HalfDone, Issued, UpgradeIsWhole, B!UpgradeIsWhole
<1>2. StartInv /\ [Next]_vars => StartInv'
  BY StartPart, StartTypedNext, HashedOnceNext, HalfDoneNext, UpgradeNext DEF StartInv
<1>3. StartInv => B!TypeOK /\ UpgradeIsWhole
  <2> SUFFICES ASSUME StartInv PROVE B!TypeOK /\ UpgradeIsWhole
    OBVIOUS
  <2>1. hashings \in [B!Tokens -> 0..2] /\ snap \in [B!Process -> [B!Tokens -> 0..2]]
    BY DEF StartInv, HashedOnce
  <2>2. issued \in 0..MaxStarts
    BY DEF StartInv, Issued
  <2> QED
    BY <2>1, <2>2 DEF StartInv, StartTyped, HashedOnce, Issued, B!TypeOK
<1> QED
  BY <1>1, <1>2, <1>3, PTL DEF Spec

-----------------------------------------------------------------------------
(* The settings as a whole                                                  *)

TableNext ==
    \/ \E f \in Form : T!Request(f)
    \/ T!RunCommand \/ T!Fails
    \/ (\E w \in T!Writer : T!SaveStep(w)) \/ (\E p \in T!Process : T!KeyStep(p))

LEMMA TablePart == [Next]_vars => [TableNext]_tableVars
<1> SUFFICES ASSUME Next, tableVars' # tableVars PROVE TableNext
  BY DEF vars, tableVars
<1>1. ASSUME NEW f \in Form, Write(f) PROVE TableNext
  BY <1>1 DEF Write, OfTable, TableNext
<1>2. ASSUME NEW w \in T!Writer, SaveStep(w) PROVE TableNext
  BY <1>2 DEF SaveStep, OfTable, TableNext
<1>3. ASSUME NEW p \in T!Process, KeyStep(p) PROVE TableNext
  BY <1>3 DEF KeyStep, OfTable, TableNext
<1>4. ASSUME RunCommand \/ Restart PROVE TableNext
  BY <1>4 DEF RunCommand, Restart, OfToken, OfLogin, OfLog, OfApi, OfTable, TableNext
<1> QED
  BY <1>1, <1>2, <1>3, <1>4
     DEF Next, OfToken, OfLogin, OfApi, OfLog, OfStart, ApiCall, ApiStep, Login, LoginStep,
         UpdateUser, ChangeStep, Consume, VisitStep, MakeLink, CommandLine, Time, Tokens, Request,
         BesideCalls, Record, BesideLog, Starting, Setup

Content == Pem \cup Slug \cup Bot \cup {"blank", "edited", "true", "false"}

LEMMA KeyFacts ==
    /\ T!Key = {"webCertFile", "webKeyFile", "tgBotToken", "xrayTemplateConfig",
                "secureEntryEnabled", "secureEntryPath"}
    /\ T!Masked = {"tgBotToken"} /\ T!Sealed = {"tgBotToken"} /\ T!Blank = "blank"
    /\ T!Default = [k \in T!Key |-> IF k = "secureEntryEnabled" THEN "false" ELSE "blank"]
    /\ T!Values("webCertFile") = Pem \cup {"blank"} /\ T!Values("webKeyFile") = Pem \cup {"blank"}
    /\ T!Values("tgBotToken") = Bot \cup {"blank"}
    /\ T!Values("xrayTemplateConfig") = {"blank", "edited"}
    /\ T!Values("secureEntryEnabled") = {"true", "false"}
    /\ T!Values("secureEntryPath") = Slug \cup {"blank"}
<1>1. T!Values("webCertFile") = Pem \cup {"blank"} /\ T!Values("webKeyFile") = Pem \cup {"blank"}
  BY DEF T!Values, T!Blank
<1>2. T!Values("tgBotToken") = Bot \cup {"blank"} /\ T!Values("xrayTemplateConfig") = {"blank", "edited"}
  BY DEF T!Values, T!Blank
<1>3. T!Values("secureEntryEnabled") = {"true", "false"} /\ T!Values("secureEntryPath") = Slug \cup {"blank"}
  BY DEF T!Values, T!Blank
<1> QED
  BY <1>1, <1>2, <1>3 DEF T!Key, T!Masked, T!Sealed, T!Blank, T!Default

LEMMA WriterFacts ==
    /\ T!Writer = Form \cup T!Commands /\ T!Commands \subseteq {"cli"} /\ "cli" \notin Form
    /\ Cli => T!Commands = {"cli"}
    /\ T!Process = {"panel", "cli"} /\ \A w \in T!Writer : T!Home(w) \in T!Process
    /\ "blank" \notin Pem \cup Slug \cup Bot /\ Bot # {}
    /\ T!None = 0 /\ T!InTheClear = 0
BY AccessConstants DEF T!Writer, T!Commands, T!Process, T!Home, T!Blank, T!None, T!InTheClear

LEMMA ValuesAreContent == \A k \in T!Key : T!Values(k) \subseteq Content /\ T!Default[k] \in T!Values(k)
BY KeyFacts DEF Content

\* Settings, and a list of saves, in their types.
Whole == {s \in [T!Key -> Content] : \A k \in T!Key : s[k] \in T!Values(k)}
SaveSeq == {q \in Seq([key : T!Key, value : Content]) :
                \A i \in DOMAIN q : q[i].value \in T!Values(q[i].key)}

TableTyped ==
    /\ table \in Whole /\ meant \in Whole
    /\ seeds \in Nat
    /\ seal \in 0..seeds /\ keyfile \in 0..seeds /\ tmp \in 0..seeds
    /\ held \in [T!Process -> 0..seeds]
    /\ loading \in [T!Process -> {"no", "mint", "rename", "error"}]
    /\ copy \in [T!Writer -> Whole] /\ plan \in [T!Writer -> SaveSeq]
    /\ named \in [T!Writer -> SUBSET T!Key]
    /\ wpc \in [T!Writer -> {"idle", "open", "saving", "done", "refused"}]
    /\ alone \in [T!Writer -> BOOLEAN]
    /\ overtaken \in [Form -> SUBSET T!Key]
    /\ lost \subseteq T!Key /\ torn \in BOOLEAN /\ blanked \in BOOLEAN /\ clashed \in BOOLEAN
    /\ \A w \in T!Writer : wpc[w] = "saving" <=> plan[w] # <<>>

LEMMA DefaultIsWhole == T!Default \in Whole
BY KeyFacts, ValuesAreContent DEF Whole

LEMMA EmptyLen == ASSUME NEW q, q = <<>> PROVE Len(q) = 0
OBVIOUS

LEMMA Joined ==
    ASSUME NEW D, NEW a \in D, NEW b \in D, NEW c \in D, NEW d \in D, NEW e \in D, NEW f \in D
    PROVE  /\ LET q == <<a>> \o <<b>> \o <<c>> \o <<d>> \o <<e>> \o <<f>> IN
              /\ q \in Seq(D) /\ Len(q) = 6
              /\ q[1] = a /\ q[2] = b /\ q[3] = c /\ q[4] = d /\ q[5] = e /\ q[6] = f
           /\ LET q == <<a>> \o <<b>> \o <<>> \o <<d>> \o <<e>> \o <<f>> IN
              /\ q \in Seq(D) /\ Len(q) = 5
              /\ q[1] = a /\ q[2] = b /\ q[3] = d /\ q[4] = e /\ q[5] = f
OBVIOUS

\* What a form saves: all but a masked field that is empty, once and in order.
LEMMA SavesAre ==
    ASSUME NEW s \in Whole
    PROVE  /\ T!Saves(s) \in SaveSeq /\ T!Saves(s) # <<>>
           /\ \A i, j \in DOMAIN T!Saves(s) : T!Saves(s)[i].key = T!Saves(s)[j].key => i = j
           /\ \A i \in DOMAIN T!Saves(s) :
                  LET k == T!Saves(s)[i].key IN
                  T!Saves(s)[i].value = s[k] /\ (k = "tgBotToken" => s[k] # "blank")
           /\ \A k \in T!Key \ {"tgBotToken"} : \E i \in DOMAIN T!Saves(s) : T!Saves(s)[i].key = k
<1> USE KeyFacts
<1> DEFINE One(k) == <<[key |-> k, value |-> s[k]]>>
<1>1. \A k \in T!Key \ {"tgBotToken"} : T!SaveOf(s, k) = One(k)
  BY DEF T!SaveOf, T!Skipped
<1>2. T!SaveOf(s, "tgBotToken") = IF s["tgBotToken"] = "blank" THEN <<>> ELSE One("tgBotToken")
  BY DEF T!SaveOf, T!Skipped
<1>3. \A k \in T!Key : s[k] \in T!Values(k) /\ s[k] \in Content
  BY DEF Whole
<1> DEFINE E(k) == [key |-> k, value |-> s[k]]
<1>6. \A k \in T!Key : E(k) \in [key : T!Key, value : Content] /\ One(k) = <<E(k)>>
  BY <1>3
<1>4. CASE s["tgBotToken"] = "blank"
  <2> DEFINE q == T!Saves(s)
  <2>1. /\ q \in Seq([key : T!Key, value : Content]) /\ Len(q) = 5
        /\ q[1] = E("webCertFile") /\ q[2] = E("webKeyFile") /\ q[3] = E("xrayTemplateConfig")
        /\ q[4] = E("secureEntryEnabled") /\ q[5] = E("secureEntryPath")
    <3>1. q = <<E("webCertFile")>> \o <<E("webKeyFile")>> \o <<>> \o <<E("xrayTemplateConfig")>>
              \o <<E("secureEntryEnabled")>> \o <<E("secureEntryPath")>>
      BY <1>1, <1>2, <1>4, <1>6 DEF T!Saves
    <3> HIDE DEF q, E
    <3> QED
      BY <1>6, <3>1, Joined
  <2>2. DOMAIN q = 1..5
    BY <2>1
  <2> HIDE DEF q
  <2>3. \A i \in DOMAIN q : i = 1 \/ i = 2 \/ i = 3 \/ i = 4 \/ i = 5
    BY <2>2
  <2>4. q \in SaveSeq /\ q # <<>>
    <3>1. q # <<>>
      <4> SUFFICES ASSUME q = <<>> PROVE FALSE
        OBVIOUS
      <4> QED
        BY <2>1, EmptyLen
    <3>2. \A i \in DOMAIN q : \E k \in T!Key : q[i] = E(k)
      BY <2>1, <2>3
    <3>3. \A k \in T!Key : E(k).key = k /\ E(k).value \in T!Values(k)
      BY <1>3
    <3> HIDE DEF E
    <3> QED
      BY <2>1, <3>1, <3>2, <3>3 DEF SaveSeq
  <2>5. \A i, j \in DOMAIN q : q[i].key = q[j].key => i = j
    BY <2>1, <2>3
  <2>6. \A i \in DOMAIN q :
            LET k == q[i].key IN q[i].value = s[k] /\ (k = "tgBotToken" => s[k] # "blank")
    BY <1>4, <2>1, <2>3
  <2>7. \A k \in T!Key \ {"tgBotToken"} : \E i \in DOMAIN q : q[i].key = k
    <3>1. \A i \in 1..5 : i \in DOMAIN q
      BY <2>2
    <3> QED
      BY <2>1, <3>1
  <2> QED
    BY <2>4, <2>5, <2>6, <2>7 DEF q
<1>5. CASE s["tgBotToken"] # "blank"
  <2> DEFINE q == T!Saves(s)
  <2>1. /\ q \in Seq([key : T!Key, value : Content]) /\ Len(q) = 6
        /\ q[1] = E("webCertFile") /\ q[2] = E("webKeyFile") /\ q[3] = E("tgBotToken")
        /\ q[4] = E("xrayTemplateConfig") /\ q[5] = E("secureEntryEnabled") /\ q[6] = E("secureEntryPath")
    <3>1. q = <<E("webCertFile")>> \o <<E("webKeyFile")>> \o <<E("tgBotToken")>> \o <<E("xrayTemplateConfig")>>
              \o <<E("secureEntryEnabled")>> \o <<E("secureEntryPath")>>
      BY <1>1, <1>2, <1>5, <1>6 DEF T!Saves
    <3> HIDE DEF q, E
    <3> QED
      BY <1>6, <3>1, Joined
  <2>2. DOMAIN q = 1..6
    BY <2>1
  <2> HIDE DEF q
  <2>3. \A i \in DOMAIN q : i = 1 \/ i = 2 \/ i = 3 \/ i = 4 \/ i = 5 \/ i = 6
    BY <2>2
  <2>4. q \in SaveSeq /\ q # <<>>
    <3>1. q # <<>>
      <4> SUFFICES ASSUME q = <<>> PROVE FALSE
        OBVIOUS
      <4> QED
        BY <2>1, EmptyLen
    <3>2. \A i \in DOMAIN q : \E k \in T!Key : q[i] = E(k)
      BY <2>1, <2>3
    <3>3. \A k \in T!Key : E(k).key = k /\ E(k).value \in T!Values(k)
      BY <1>3
    <3> HIDE DEF E
    <3> QED
      BY <2>1, <3>1, <3>2, <3>3 DEF SaveSeq
  <2>5. \A i, j \in DOMAIN q : q[i].key = q[j].key => i = j
    BY <2>1, <2>3
  <2>6. \A i \in DOMAIN q :
            LET k == q[i].key IN q[i].value = s[k] /\ (k = "tgBotToken" => s[k] # "blank")
    BY <1>5, <2>1, <2>3
  <2>7. \A k \in T!Key \ {"tgBotToken"} : \E i \in DOMAIN q : q[i].key = k
    <3>1. \A i \in 1..6 : i \in DOMAIN q
      BY <2>2
    <3> QED
      BY <2>1, <3>1
  <2> QED
    BY <2>4, <2>5, <2>6, <2>7 DEF q
<1> QED
  BY <1>4, <1>5

LEMMA TailOfSeq ==
    ASSUME NEW E, NEW q \in Seq(E), q # <<>>
    PROVE  /\ Tail(q) \in Seq(E) /\ Len(q) \in Nat \ {0} /\ 1 \in DOMAIN q /\ q[1] \in E
           /\ Len(Tail(q)) = Len(q) - 1
           /\ \A i \in DOMAIN Tail(q) : i + 1 \in DOMAIN q /\ Tail(q)[i] = q[i + 1]
           /\ \A i \in DOMAIN q : i = 1 \/ (i - 1 \in DOMAIN Tail(q) /\ q[i] = Tail(q)[i - 1])
           /\ Len(q) = 1 <=> Tail(q) = <<>>
<1>1. Tail(q) \in Seq(E) /\ Len(q) \in Nat \ {0} /\ 1 \in DOMAIN q /\ q[1] \in E
  OBVIOUS
<1>2. Len(Tail(q)) = Len(q) - 1 /\ DOMAIN q = 1..Len(q) /\ DOMAIN Tail(q) = 1..(Len(q) - 1)
  BY <1>1
<1>3. \A i \in DOMAIN Tail(q) : i + 1 \in DOMAIN q /\ Tail(q)[i] = q[i + 1]
  BY <1>1, <1>2
<1>4. \A i \in DOMAIN q : i = 1 \/ (i - 1 \in DOMAIN Tail(q) /\ q[i] = Tail(q)[i - 1])
  <2>1. ASSUME NEW i \in DOMAIN q, i # 1 PROVE i - 1 \in DOMAIN Tail(q) /\ q[i] = Tail(q)[i - 1]
    <3>1. i - 1 \in DOMAIN Tail(q) /\ (i - 1) + 1 = i
      BY <1>1, <1>2, <2>1
    <3> QED
      BY <1>3, <3>1
  <2> QED
    BY <2>1
<1>5. Len(q) = 1 <=> Tail(q) = <<>>
  <2>1. Len(q) = 1 => DOMAIN Tail(q) = {}
    BY <1>2
  <2>2. DOMAIN Tail(q) = {} => Tail(q) = <<>>
    BY <1>1
  <2>3. Tail(q) = <<>> => Len(Tail(q)) = 0
    BY EmptyLen
  <2> QED
    BY <1>1, <1>2, <2>1, <2>2, <2>3
<1> QED
  BY <1>1, <1>2, <1>3, <1>4, <1>5

LEMMA TailOf ==
    ASSUME NEW q \in SaveSeq, q # <<>>
    PROVE  /\ Tail(q) \in SaveSeq /\ Len(q) \in Nat \ {0} /\ 1 \in DOMAIN q
           /\ q[1].key \in T!Key /\ q[1].value \in T!Values(q[1].key)
           /\ q[1] = [key |-> q[1].key, value |-> q[1].value]
           /\ Len(Tail(q)) = Len(q) - 1
           /\ \A i \in DOMAIN Tail(q) : i + 1 \in DOMAIN q /\ Tail(q)[i] = q[i + 1]
           /\ \A i \in DOMAIN q : i = 1 \/ (i - 1 \in DOMAIN Tail(q) /\ q[i] = Tail(q)[i - 1])
           /\ Len(q) = 1 <=> Tail(q) = <<>>
<1> DEFINE E == [key : T!Key, value : Content]
<1>1. q \in Seq(E) /\ \A i \in DOMAIN q : q[i].value \in T!Values(q[i].key)
  BY DEF SaveSeq
<1>2. \A x \in E : x.key \in T!Key /\ x = [key |-> x.key, value |-> x.value]
  OBVIOUS
<1> HIDE DEF E
<1>3. /\ Tail(q) \in Seq(E) /\ Len(q) \in Nat \ {0} /\ 1 \in DOMAIN q /\ q[1] \in E
      /\ Len(Tail(q)) = Len(q) - 1
      /\ \A i \in DOMAIN Tail(q) : i + 1 \in DOMAIN q /\ Tail(q)[i] = q[i + 1]
      /\ \A i \in DOMAIN q : i = 1 \/ (i - 1 \in DOMAIN Tail(q) /\ q[i] = Tail(q)[i - 1])
      /\ Len(q) = 1 <=> Tail(q) = <<>>
  BY <1>1, TailOfSeq
<1>4. Tail(q) \in SaveSeq
  BY <1>1, <1>3 DEF SaveSeq, E
<1> QED
  BY <1>1, <1>2, <1>3, <1>4

-----------------------------------------------------------------------------
(* Writers, one at a time                                                   *)

Distinct(q) == \A i, j \in DOMAIN q : q[i].key = q[j].key => i = j
Sound(t) ==
    /\ t["webCertFile"] = t["webKeyFile"]
    /\ t["secureEntryEnabled"] = "true" => t["secureEntryPath"] # "blank"
\* The settings t when the saves of q are done.
After(t, q) ==
    [k \in T!Key |-> IF \E i \in DOMAIN q : q[i].key = k
                     THEN q[CHOOSE i \in DOMAIN q : q[i].key = k].value ELSE t[k]]

LEMMA SaveEntry ==
    ASSUME NEW q \in SaveSeq, NEW i \in DOMAIN q
    PROVE  /\ i \in Nat \ {0} /\ q[i].key \in T!Key /\ q[i].value \in T!Values(q[i].key)
           /\ q[i] = [key |-> q[i].key, value |-> q[i].value]
<1> DEFINE E == [key : T!Key, value : Content]
<1>1. q \in Seq(E) /\ q[i].value \in T!Values(q[i].key)
  BY DEF SaveSeq
<1>2. \A x \in E : x.key \in T!Key /\ x = [key |-> x.key, value |-> x.value]
  OBVIOUS
<1> HIDE DEF E
<1>3. i \in Nat \ {0} /\ q[i] \in E
  BY <1>1
<1> QED
  BY <1>1, <1>2, <1>3

LEMMA AfterIs ==
    ASSUME NEW t, NEW q \in SaveSeq, Distinct(q)
    PROVE  /\ \A i \in DOMAIN q : After(t, q)[q[i].key] = q[i].value
           /\ \A k \in T!Key : (\A i \in DOMAIN q : q[i].key # k) => After(t, q)[k] = t[k]
<1>1. ASSUME NEW i \in DOMAIN q PROVE After(t, q)[q[i].key] = q[i].value
  <2>1. q[i].key \in T!Key
    BY SaveEntry
  <2>2. i = CHOOSE j \in DOMAIN q : q[j].key = q[i].key
    BY DEF Distinct
  <2> QED
    BY <2>1, <2>2 DEF After
<1> QED
  BY <1>1 DEF After

\* The first save and then the others: the settings after all of them are the same.
LEMMA AfterOne ==
    ASSUME NEW t \in Whole, NEW q \in SaveSeq, q # <<>>, Distinct(q)
    PROVE  LET u == [t EXCEPT ![q[1].key] = q[1].value] IN
           /\ u \in Whole /\ Distinct(Tail(q))
           /\ After(u, Tail(q)) = After(t, q)
           /\ Len(q) = 1 => u = After(t, q)
<1> DEFINE u == [t EXCEPT ![q[1].key] = q[1].value]
<1>1. /\ Tail(q) \in SaveSeq /\ 1 \in DOMAIN q /\ q[1].key \in T!Key
      /\ q[1].value \in T!Values(q[1].key) /\ Len(q) \in Nat \ {0}
      /\ \A i \in DOMAIN Tail(q) : i + 1 \in DOMAIN q /\ Tail(q)[i] = q[i + 1] /\ i \in Nat \ {0}
      /\ \A i \in DOMAIN q : i = 1 \/ (i - 1 \in DOMAIN Tail(q) /\ q[i] = Tail(q)[i - 1])
  <2>1. \A i \in DOMAIN Tail(q) : i \in Nat \ {0}
    BY TailOf DEF SaveSeq
  <2> QED
    BY <2>1, TailOf
<1>2. Distinct(Tail(q))
  <2> SUFFICES ASSUME NEW i \in DOMAIN Tail(q), NEW j \in DOMAIN Tail(q),
                      Tail(q)[i].key = Tail(q)[j].key
               PROVE  i = j
    BY DEF Distinct
  <2>1. i + 1 = j + 1 /\ i \in Nat /\ j \in Nat
    BY <1>1 DEF Distinct
  <2> QED
    BY <2>1
<1>3. u \in Whole
  BY <1>1, ValuesAreContent DEF Whole
<1>4. u[q[1].key] = q[1].value /\ \A k \in T!Key : k # q[1].key => u[k] = t[k]
  BY <1>1 DEF Whole
<1> HIDE DEF u
<1>8. \A i \in DOMAIN Tail(q) : After(u, Tail(q))[Tail(q)[i].key] = Tail(q)[i].value
  <2> DEFINE r == Tail(q)
  <2>1. r \in SaveSeq /\ Distinct(r)
    BY <1>1, <1>2
  <2> HIDE DEF r
  <2>2. \A i \in DOMAIN r : After(u, r)[r[i].key] = r[i].value
    BY <2>1, AfterIs
  <2> QED
    BY <2>2 DEF r
<1>5. ASSUME NEW k \in T!Key PROVE After(u, Tail(q))[k] = After(t, q)[k]
  <2>1. CASE k = q[1].key
    <3>1. \A i \in DOMAIN Tail(q) : Tail(q)[i].key # k
      <4> SUFFICES ASSUME NEW i \in DOMAIN Tail(q), Tail(q)[i].key = k PROVE FALSE
        OBVIOUS
      <4>1. i + 1 = 1 /\ i \in Nat \ {0}
        BY <1>1, <2>1 DEF Distinct
      <4> QED
        BY <4>1
    <3>2. After(u, Tail(q))[k] = u[k]
      BY <1>1, <1>2, <3>1, AfterIs
    <3>3. After(t, q)[k] = q[1].value
      BY <1>1, <2>1, AfterIs
    <3> QED
      BY <1>4, <2>1, <3>2, <3>3
  <2>2. CASE k # q[1].key /\ \E i \in DOMAIN q : q[i].key = k
    <3> PICK i \in DOMAIN q : q[i].key = k
      BY <2>2
    <3>1. i - 1 \in DOMAIN Tail(q) /\ q[i] = Tail(q)[i - 1]
      BY <1>1, <2>2
    <3>2. After(u, Tail(q))[k] = Tail(q)[i - 1].value
      <4>1. PICK j \in DOMAIN Tail(q) : q[i] = Tail(q)[j] /\ j = i - 1
        BY <3>1
      <4>2. After(u, Tail(q))[Tail(q)[j].key] = Tail(q)[j].value
        BY <1>8
      <4> QED
        BY <4>1, <4>2
    <3>3. After(t, q)[k] = q[i].value
      BY AfterIs
    <3> QED
      BY <3>1, <3>2, <3>3
  <2>3. CASE k # q[1].key /\ \A i \in DOMAIN q : q[i].key # k
    <3>1. \A i \in DOMAIN Tail(q) : Tail(q)[i].key # k
      BY <1>1, <2>3
    <3>2. After(u, Tail(q))[k] = u[k]
      BY <1>1, <1>2, <3>1, AfterIs
    <3>3. After(t, q)[k] = t[k]
      BY <2>3, AfterIs
    <3> QED
      BY <1>4, <2>3, <3>2, <3>3
  <2> QED
    BY <2>1, <2>2, <2>3
<1>6. After(u, Tail(q)) = After(t, q)
  BY <1>5 DEF After
<1>7. ASSUME Len(q) = 1 PROVE u = After(t, q)
  <2>1. DOMAIN q = {1}
    BY <1>1, <1>7 DEF SaveSeq
  <2>2. \A k \in T!Key : u[k] = After(t, q)[k]
    BY <1>1, <1>4, <2>1, AfterIs
  <2>3. DOMAIN u = T!Key /\ u = [k \in T!Key |-> u[k]]
    BY <1>3 DEF Whole
  <2> QED
    BY <2>2, <2>3 DEF After
<1> QED
  BY <1>2, <1>3, <1>6, <1>7 DEF u

LEMMA BodyValues ==
    ASSUME NEW b \in T!Bodies
    PROVE  DOMAIN b \subseteq T!Key /\ \A k \in DOMAIN b : b[k] \in T!Values(k)
<1> USE KeyFacts
<1>1. ASSUME NEW p \in Pem \cup {"blank"}, b = [k \in {"webCertFile", "webKeyFile"} |-> p]
      PROVE  DOMAIN b \subseteq T!Key /\ \A k \in DOMAIN b : b[k] \in T!Values(k)
  BY <1>1
<1>2. ASSUME NEW p \in Pem, b = [k \in {"webCertFile"} |-> p]
      PROVE  DOMAIN b \subseteq T!Key /\ \A k \in DOMAIN b : b[k] \in T!Values(k)
  BY <1>2
<1>3. ASSUME NEW p \in Bot \cup {"blank"}, b = [k \in {"tgBotToken"} |-> p]
      PROVE  DOMAIN b \subseteq T!Key /\ \A k \in DOMAIN b : b[k] \in T!Values(k)
  BY <1>3
<1>4. ASSUME b \in {[k \in {"xrayTemplateConfig"} |-> "edited"], [k \in {"secureEntryEnabled"} |-> "false"],
                    [k \in {"secureEntryPath"} |-> "blank"]}
      PROVE  DOMAIN b \subseteq T!Key /\ \A k \in DOMAIN b : b[k] \in T!Values(k)
  BY <1>4
<1>5. ASSUME NEW s \in Slug, b = [k \in {"secureEntryEnabled", "secureEntryPath"} |->
                                      IF k = "secureEntryPath" THEN s ELSE "true"]
      PROVE  DOMAIN b \subseteq T!Key /\ \A k \in DOMAIN b : b[k] \in T!Values(k)
  BY <1>5
<1> HIDE KeyFacts
<1>6. T!Blank = "blank"
  BY KeyFacts
<1> QED
  BY <1>1, <1>2, <1>3, <1>4, <1>5, <1>6 DEF T!Bodies

\* What a command may do: one save that breaks no settings, or a path and then
\* the switch.
OneSave(q) ==
    /\ Len(q) = 1 /\ q[1].key \notin {"webCertFile", "webKeyFile"}
    /\ q[1].key = "secureEntryEnabled" => q[1].value = "false"
PathAndSwitch(q) ==
    /\ Len(q) = 2 /\ q[1].key = "secureEntryPath" /\ q[1].value # "blank"
    /\ q[2].key = "secureEntryEnabled"

\* What a writer begins with: a form with sound settings, and what it was not asked
\* for is as it was read; a command with what it was asked for.
Starts(w, q) ==
    /\ w \in T!Writer /\ wpc[w] # "saving"
    /\ wpc' = [wpc EXCEPT ![w] = "saving"] /\ plan' = [plan EXCEPT ![w] = q]
    /\ \E keys \in SUBSET T!Key :
           /\ named' = [named EXCEPT ![w] = keys]
           /\ \A i \in DOMAIN q : q[i].key \notin keys =>
                  /\ q[i].key # "tgBotToken" /\ w \in Form
                  /\ q[i].value = copy[w][q[i].key]
    /\ w \in Form => wpc[w] = "open"
    /\ alone' = [alone EXCEPT ![w] = \A v \in T!Writer \ {w} : wpc[v] # "saving"]
    /\ q \in SaveSeq /\ q # <<>> /\ Distinct(q)
    /\ w \in Form => Sound(After(table, q))
    /\ w \notin Form => OneSave(q) \/ PathAndSwitch(q)
    /\ copy' \in [T!Writer -> Whole] /\ \A v \in T!Writer : copy'[v]["tgBotToken"] = "blank"
    /\ \A v \in T!Writer : v # w => copy'[v] = copy[v]
    /\ UNCHANGED <<seeds, keyfile, tmp, held, loading, clashed, table, seal, meant, lost, torn,
                    blanked, overtaken>>

NothingMaskedIsRead == \A w \in T!Writer : copy[w]["tgBotToken"] = "blank"

TurnedAway(f) ==
    /\ f \in Form /\ wpc[f] # "saving" /\ wpc' = [wpc EXCEPT ![f] = "refused"]
    /\ copy' \in [T!Writer -> Whole] /\ \A v \in T!Writer : copy'[v]["tgBotToken"] = "blank"
    /\ \A v \in T!Writer : v # f => copy'[v] = copy[v]
    /\ UNCHANGED <<plan, named, alone, seeds, keyfile, tmp, held, loading, clashed, table, seal,
                    meant, lost, torn, blanked, overtaken>>

\* The steps of readOrCreateSecretKey.
KeyMoves(p) ==
    T!ReadKey(p) \/ T!MissesKey(p) \/ T!MintKey(p) \/ T!RenameKey(p) \/ T!KeyError(p)

LEMMA FormStarts ==
    ASSUME TableTyped, NothingMaskedIsRead, NEW f \in Form, NEW b \in T!Bodies, T!Submit(f, b)
    PROVE  (\E q : Starts(f, q)) \/ TurnedAway(f)
<1> DEFINE s == [k \in T!Key |-> IF k \in DOMAIN b THEN b[k] ELSE copy[f][k]]
           q == T!Saves(s)
           keys == {k \in DOMAIN b : ~T!Skipped(k, s[k])}
<1>1. f \in T!Writer /\ wpc[f] = "open"
  BY WriterFacts DEF T!Submit
<1>10. /\ copy' \in [T!Writer -> Whole] /\ \A v \in T!Writer : copy'[v]["tgBotToken"] = "blank"
       /\ \A v \in T!Writer : v # f => copy'[v] = copy[v]
  <2>1. T!Default["tgBotToken"] = "blank" /\ copy' = [copy EXCEPT ![f] = T!Default]
    BY KeyFacts DEF T!Submit
  <2> QED
    BY <1>1, <2>1, DefaultIsWhole DEF TableTyped, NothingMaskedIsRead
<1>11. CASE ~T!CheckValid(s)
  BY <1>1, <1>10, <1>11 DEF T!Submit, TurnedAway, T!keyVars, T!tableVars
<1> SUFFICES ASSUME T!CheckValid(s) PROVE Starts(f, q)
  BY <1>11
<1>2. s \in Whole
  <2>1. \A k \in T!Key : s[k] \in T!Values(k)
    BY <1>1, BodyValues DEF TableTyped, Whole
  <2> QED
    BY <2>1, ValuesAreContent DEF Whole
<1>3. s["tgBotToken"] # "blank" => "tgBotToken" \in keys
  BY <1>1, KeyFacts DEF NothingMaskedIsRead, T!Skipped
<1>12. ASSUME NEW k \in T!Key, k \notin keys, k # "tgBotToken" PROVE s[k] = copy[f][k]
  <2>1. k \in DOMAIN b => ~T!Skipped(k, s[k])
    BY <1>12, KeyFacts DEF T!Skipped
  <2> QED
    BY <1>12, <2>1
<1>4. keys \subseteq T!Key
  BY BodyValues
<1>5. T!Begins(f, q, keys) /\ copy' = [copy EXCEPT ![f] = T!Default] /\ UNCHANGED <<T!keyVars, T!tableVars>>
  BY DEF T!Submit
<1>6. s["webCertFile"] = s["webKeyFile"] /\ (s["secureEntryEnabled"] = "true" => s["secureEntryPath"] # "blank")
  BY KeyFacts DEF T!CheckValid
<1> HIDE DEF s, keys
<1>7. /\ q \in SaveSeq /\ q # <<>> /\ Distinct(q)
      /\ \A i \in DOMAIN q : q[i].key = "tgBotToken" => "tgBotToken" \in keys
      /\ \A i \in DOMAIN q : q[i].value = s[q[i].key]
      /\ \A k \in T!Key \ {"tgBotToken"} : \E i \in DOMAIN q : q[i].key = k
  BY <1>2, <1>3, SavesAre DEF Distinct
<1> HIDE DEF q
<1>13. \A i \in DOMAIN q : q[i].key \notin keys =>
           q[i].key # "tgBotToken" /\ q[i].value = copy[f][q[i].key]
  <2> SUFFICES ASSUME NEW i \in DOMAIN q, q[i].key \notin keys
               PROVE  q[i].key # "tgBotToken" /\ q[i].value = copy[f][q[i].key]
    OBVIOUS
  <2>1. q[i].key \in T!Key /\ q[i].key # "tgBotToken"
    BY <1>7, SaveEntry
  <2> QED
    BY <1>7, <1>12, <2>1
<1>8. \A k \in T!Key \ {"tgBotToken"} : After(table, q)[k] = s[k]
  BY <1>7, AfterIs
<1>9. Sound(After(table, q))
  BY <1>6, <1>8, KeyFacts DEF Sound
<1> QED
  BY <1>1, <1>4, <1>5, <1>7, <1>9, <1>10, <1>13 DEF Starts, T!Begins, T!keyVars, T!tableVars

LEMMA Singles ==
    ASSUME NEW k \in T!Key, NEW v \in T!Values(k)
    PROVE  LET q == <<[key |-> k, value |-> v]>> IN
           q \in SaveSeq /\ q # <<>> /\ Distinct(q) /\ Len(q) = 1 /\ DOMAIN q = {1}
           /\ q[1].key = k /\ q[1].value = v
<1> DEFINE e == [key |-> k, value |-> v]
           E == [key : T!Key, value : Content]
<1>1. e \in E /\ e.key = k /\ e.value = v
  BY ValuesAreContent
<1> HIDE DEF e, E
<1>2. <<e>> \in Seq(E) /\ Len(<<e>>) = 1 /\ DOMAIN <<e>> = {1} /\ <<e>>[1] = e
  BY <1>1
<1>3. <<e>> # <<>>
  BY <1>2
<1>4. Distinct(<<e>>) /\ <<e>> \in SaveSeq
  BY <1>1, <1>2 DEF Distinct, SaveSeq, E
<1> QED
  BY <1>1, <1>2, <1>3, <1>4 DEF e

LEMMA CommandStarts ==
    ASSUME TableTyped, NothingMaskedIsRead, T!RunCommand
    PROVE  (\E q : Starts("cli", q)) \/ T!ResetSettings
<1> SUFFICES ASSUME ~T!ResetSettings PROVE \E q : Starts("cli", q)
  OBVIOUS
<1>1. "cli" \in T!Writer /\ wpc["cli"] # "saving" /\ "cli" \notin Form
  BY WriterFacts DEF T!RunCommand
<1>2. ASSUME NEW q \in SaveSeq, q # <<>>, Distinct(q), T!CliBegins(q), OneSave(q) \/ PathAndSwitch(q)
      PROVE  Starts("cli", q)
  <2> DEFINE keys == {q[i].key : i \in DOMAIN q}
  <2>1. keys \subseteq T!Key
    BY SaveEntry
  <2>2. \A i \in DOMAIN q : q[i].key \in keys
    OBVIOUS
  <2>3. T!Begins("cli", q, keys) /\ UNCHANGED <<T!keyVars, T!tableVars, copy>>
    BY <1>2 DEF T!CliBegins
  <2>4. /\ copy' \in [T!Writer -> Whole] /\ \A v \in T!Writer : copy'[v]["tgBotToken"] = "blank"
        /\ \A v \in T!Writer : copy'[v] = copy[v]
    BY <2>3 DEF TableTyped, NothingMaskedIsRead
  <2> HIDE DEF keys
  <2> QED
    BY <1>1, <1>2, <2>1, <2>2, <2>3, <2>4 DEF Starts, T!Begins, T!keyVars, T!tableVars
<1>3. ASSUME NEW k \in T!Key, NEW v \in T!Values(k), T!CliBegins(<<[key |-> k, value |-> v]>>),
             k \notin {"webCertFile", "webKeyFile"}, k = "secureEntryEnabled" => v = "false"
      PROVE  \E q : Starts("cli", q)
  <2> DEFINE q == <<[key |-> k, value |-> v]>>
  <2>1. /\ q \in SaveSeq /\ q # <<>> /\ Distinct(q) /\ Len(q) = 1 /\ DOMAIN q = {1}
        /\ q[1].key = k /\ q[1].value = v
    BY Singles
  <2>2. T!CliBegins(q)
    BY <1>3
  <2> HIDE DEF q
  <2>3. OneSave(q)
    BY <1>3, <2>1 DEF OneSave
  <2> QED
    BY <1>2, <2>1, <2>2, <2>3
<1>4. ASSUME NEW s \in Slug, T!EntryOn(s) PROVE \E q : Starts("cli", q)
  <2>1. PICK p \in Slug : T!CliBegins(<<[key |-> "secureEntryPath", value |-> p],
                                        [key |-> "secureEntryEnabled", value |-> "true"]>>)
    BY <1>4, KeyFacts DEF T!EntryOn, TableTyped, Whole
  <2> DEFINE e == [key |-> "secureEntryPath", value |-> p]
             g == [key |-> "secureEntryEnabled", value |-> "true"]
             E == [key : T!Key, value : Content]
             q == <<e, g>>
  <2>2. p # "blank"
    BY WriterFacts
  <2>3. /\ e \in E /\ e.key = "secureEntryPath" /\ e.value = p /\ e.value \in T!Values(e.key)
        /\ g \in E /\ g.key = "secureEntryEnabled" /\ g.value = "true" /\ g.value \in T!Values(g.key)
    BY KeyFacts DEF Content
  <2>9. T!CliBegins(q)
    BY <2>1
  <2> HIDE DEF e, g, E
  <2>4. q \in Seq(E) /\ Len(q) = 2 /\ DOMAIN q = {1, 2} /\ q[1] = e /\ q[2] = g
    BY <2>3
  <2> HIDE DEF q
  <2>5. q # <<>>
    <3> SUFFICES ASSUME q = <<>> PROVE FALSE
      OBVIOUS
    <3> QED
      BY <2>4, EmptyLen
  <2>6. Distinct(q) /\ q \in SaveSeq
    BY <2>3, <2>4 DEF Distinct, SaveSeq, E
  <2>7. PathAndSwitch(q)
    BY <2>2, <2>3, <2>4 DEF PathAndSwitch
  <2> QED
    BY <1>2, <2>5, <2>6, <2>7, <2>9
<1>5. ASSUME NEW s \in Slug \cup {"blank"}, T!EntryPath(s) PROVE \E q : Starts("cli", q)
  <2>1. "secureEntryPath" \in T!Key /\ s \in T!Values("secureEntryPath")
    BY KeyFacts
  <2> QED
    BY <1>3, <1>5, <2>1 DEF T!EntryPath
<1>6. ASSUME T!EntryOff PROVE \E q : Starts("cli", q)
  <2>1. "secureEntryEnabled" \in T!Key /\ "false" \in T!Values("secureEntryEnabled")
    BY KeyFacts
  <2> QED
    BY <1>3, <1>6, <2>1 DEF T!EntryOff
<1>7. ASSUME NEW b \in Bot, T!UpdateBot(b) PROVE \E q : Starts("cli", q)
  <2>1. "tgBotToken" \in T!Key /\ b \in T!Values("tgBotToken")
    BY KeyFacts
  <2> QED
    BY <1>3, <1>7, <2>1 DEF T!UpdateBot
<1> QED
  BY <1>4, <1>5, <1>6, <1>7, KeyFacts DEF T!RunCommand

LEMMA TableActs ==
    ASSUME TableTyped, NothingMaskedIsRead, TableNext
    PROVE  \/ (\E w \in T!Writer, q \in SaveSeq : Starts(w, q)) \/ (\E f \in Form : T!Open(f) \/ TurnedAway(f))
           \/ (Cli /\ wpc["cli"] = "idle" /\ T!ResetSettings) \/ T!Restarted
           \/ (\E w \in T!Writer : T!Save(w) \/ T!SaveFails(w))
           \/ (\E p \in T!Process : KeyMoves(p))
<1>1. ASSUME NEW f \in Form, T!Request(f)
      PROVE  (\E w \in T!Writer, q \in SaveSeq : Starts(w, q)) \/ T!Open(f) \/ TurnedAway(f)
  BY <1>1, FormStarts DEF T!Request, Starts
<1>2. ASSUME T!RunCommand
      PROVE  (\E w \in T!Writer, q \in SaveSeq : Starts(w, q))
             \/ (Cli /\ wpc["cli"] = "idle" /\ T!ResetSettings)
  BY <1>2, CommandStarts DEF T!RunCommand, Starts
<1> QED
  BY <1>1, <1>2 DEF TableNext, T!Fails, T!SaveStep, T!SealFails, T!KeyStep, KeyMoves, T!LookForKey,
     T!ReadFails, T!RenameFails

LEMMA SaveTyped ==
    ASSUME TableTyped, NEW w \in T!Writer, wpc[w] = "saving"
    PROVE  LET q == plan[w] IN
           /\ q \in SaveSeq /\ q # <<>> /\ Tail(q) \in SaveSeq /\ Len(q) \in Nat \ {0}
           /\ q[1].key \in T!Key /\ q[1].value \in T!Values(q[1].key)
           /\ Len(q) = 1 <=> Tail(q) = <<>>
           /\ [table EXCEPT ![q[1].key] = q[1].value] \in Whole
           /\ [meant EXCEPT ![q[1].key] = q[1].value] \in Whole
<1>1. plan[w] \in SaveSeq /\ plan[w] # <<>>
  BY DEF TableTyped
<1> DEFINE q == plan[w]
<1>2. /\ Tail(q) \in SaveSeq /\ Len(q) \in Nat \ {0} /\ (Len(q) = 1 <=> Tail(q) = <<>>)
      /\ q[1].key \in T!Key /\ q[1].value \in T!Values(q[1].key)
  BY <1>1, TailOf
<1>3. \A t \in Whole : [t EXCEPT ![q[1].key] = q[1].value] \in Whole
  BY <1>2, ValuesAreContent DEF Whole
<1> QED
  BY <1>1, <1>2, <1>3 DEF TableTyped

LEMMA TypesHold ==
    ASSUME TableTyped, NothingMaskedIsRead, [TableNext]_tableVars
    PROVE  TableTyped' /\ NothingMaskedIsRead'
<1> USE DEF TableTyped, NothingMaskedIsRead
<1>1. ASSUME NEW w \in T!Writer, NEW q \in SaveSeq, Starts(w, q)
      PROVE  TableTyped' /\ NothingMaskedIsRead'
  <2>1. PICK keys \in SUBSET T!Key : named' = [named EXCEPT ![w] = keys]
    BY <1>1 DEF Starts
  <2> QED
    BY <1>1, <2>1 DEF Starts
<1>2. ASSUME NEW f \in Form, T!Open(f) PROVE TableTyped' /\ NothingMaskedIsRead'
  <2>1. f \in T!Writer
    BY WriterFacts
  <2> DEFINE s == [k \in T!Key |-> IF k \in T!Masked THEN T!Blank ELSE table[k]]
  <2>2. s \in Whole /\ s["tgBotToken"] = "blank"
    BY KeyFacts, ValuesAreContent DEF Whole
  <2>3. copy' = [copy EXCEPT ![f] = s]
    BY <1>2 DEF T!Open
  <2> HIDE DEF s
  <2> QED
    BY <1>2, <2>1, <2>2, <2>3 DEF T!Open, T!keyVars, T!tableVars
<1>3. ASSUME NEW f \in Form, TurnedAway(f) PROVE TableTyped' /\ NothingMaskedIsRead'
  BY <1>3, WriterFacts DEF TurnedAway
<1>4. ASSUME Cli, wpc["cli"] = "idle", T!ResetSettings PROVE TableTyped' /\ NothingMaskedIsRead'
  <2>1. alone' \in [T!Writer -> BOOLEAN]
    BY <1>4, Zenon DEF T!ResetSettings
  <2>2. overtaken' \in [Form -> SUBSET T!Key] /\ seal' = 0 /\ 0 \in 0..seeds
    BY <1>4, WriterFacts DEF T!ResetSettings
  <2>3. wpc' = [wpc EXCEPT !["cli"] = "done"] /\ UNCHANGED plan
    BY <1>4 DEF T!ResetSettings
  <2>4. \A w \in T!Writer : wpc'[w] = "saving" <=> plan'[w] # <<>>
    BY <1>4, <2>3
  <2> QED
    BY <1>4, <2>1, <2>2, <2>3, <2>4, DefaultIsWhole DEF T!ResetSettings, T!keyVars
<1>5. ASSUME T!Restarted PROVE TableTyped' /\ NothingMaskedIsRead'
  <2>1. <<>> \in SaveSeq
    BY DEF SaveSeq
  <2>2. T!Default["tgBotToken"] = "blank"
    BY KeyFacts
  <2>3. torn' \in BOOLEAN /\ T!None \in 0..seeds
    BY <1>5, WriterFacts DEF T!Restarted
  <2>4. plan' \in [T!Writer -> SaveSeq] /\ copy' \in [T!Writer -> Whole]
    BY <1>5, <2>1, DefaultIsWhole DEF T!Restarted
  <2>5. /\ wpc' \in [T!Writer -> {"idle", "open", "saving", "done", "refused"}]
        /\ \A w \in T!Writer : wpc'[w] = "saving" <=> plan'[w] # <<>>
    BY <1>5 DEF T!Restarted
  <2>6. held' \in [T!Process -> 0..seeds] /\ loading' \in [T!Process -> {"no", "mint", "rename", "error"}]
    BY <1>5, <2>3 DEF T!Restarted
  <2>7. UNCHANGED <<seeds, keyfile, tmp, clashed, table, seal, meant, lost, blanked, named, alone, overtaken>>
    BY <1>5 DEF T!Restarted
  <2>8. \A w \in T!Writer : copy'[w]["tgBotToken"] = "blank"
    BY <1>5, <2>2 DEF T!Restarted
  <2> QED
    BY <2>3, <2>4, <2>5, <2>6, <2>7, <2>8
<1>6. ASSUME NEW w \in T!Writer, T!Save(w) PROVE TableTyped' /\ NothingMaskedIsRead'
  <2> DEFINE q == plan[w]
  <2>1. wpc[w] = "saving"
    BY <1>6 DEF T!Save
  <2>2. /\ q \in SaveSeq /\ Tail(q) \in SaveSeq /\ (Len(q) = 1 <=> Tail(q) = <<>>)
        /\ q[1].key \in T!Key
        /\ [table EXCEPT ![q[1].key] = q[1].value] \in Whole
        /\ [meant EXCEPT ![q[1].key] = q[1].value] \in Whole
    BY <2>1, SaveTyped
  <2>3. plan' = [plan EXCEPT ![w] = Tail(q)] /\ table' = [table EXCEPT ![q[1].key] = q[1].value]
    BY <1>6 DEF T!Save
  <2>4. meant' \in Whole /\ lost' \subseteq T!Key
    BY <1>6, <2>2 DEF T!Save
  <2>5. alone' \in [T!Writer -> BOOLEAN]
    BY <1>6, Zenon DEF T!Save
  <2>6. seal' \in 0..seeds /\ blanked' \in BOOLEAN /\ overtaken' \in [Form -> SUBSET T!Key]
    <3>1. seal' \in 0..seeds
      BY <1>6, WriterFacts DEF T!Save, T!Seals
    <3>2. overtaken' \in [Form -> SUBSET T!Key]
      <4>1. UNCHANGED overtaken \/ overtaken' = [f \in Form |-> IF f = w THEN overtaken[f]
                                                               ELSE overtaken[f] \cup {q[1].key}]
        BY <1>6 DEF T!Save
      <4> HIDE DEF q
      <4> QED
        BY <2>2, <4>1
    <3>3. blanked' \in BOOLEAN
      BY <1>6, Zenon DEF T!Save
    <3> QED
      BY <3>1, <3>2, <3>3
  <2>7. torn' \in BOOLEAN /\ wpc' \in [T!Writer -> {"idle", "open", "saving", "done", "refused"}]
    BY <1>6 DEF T!Save, T!Continues, T!Ends
  <2>8. wpc'[w] = IF Len(q) = 1 THEN "done" ELSE "saving"
    BY <1>6 DEF T!Save, T!Continues, T!Ends, TableTyped
  <2>9. \A v \in T!Writer : v # w => wpc'[v] = wpc[v]
    BY <1>6 DEF T!Save, T!Continues, T!Ends
  <2>10. UNCHANGED <<seeds, keyfile, tmp, held, loading, clashed, copy, named>>
    BY <1>6 DEF T!Save, T!keyVars
  <2> HIDE DEF q
  <2>11. plan' \in [T!Writer -> SaveSeq]
    BY <2>2, <2>3
  <2>12. \A v \in T!Writer : wpc'[v] = "saving" <=> plan'[v] # <<>>
    BY <2>2, <2>3, <2>8, <2>9
  <2> QED
    BY <2>2, <2>3, <2>4, <2>5, <2>6, <2>7, <2>10, <2>11, <2>12
<1>7. ASSUME NEW w \in T!Writer, T!SaveFails(w) PROVE TableTyped' /\ NothingMaskedIsRead'
  <2> DEFINE q == plan[w]
  <2>1. wpc[w] = "saving"
    BY <1>7 DEF T!SaveFails
  <2>2. q \in SaveSeq /\ Tail(q) \in SaveSeq /\ (Len(q) = 1 <=> Tail(q) = <<>>)
    BY <2>1, SaveTyped
  <2>3. <<>> \in SaveSeq
    BY DEF SaveSeq
  <2>4. plan' = [plan EXCEPT ![w] = IF w \in Form THEN Tail(q) ELSE <<>>]
    BY <1>7 DEF T!SaveFails
  <2>5. alone' \in [T!Writer -> BOOLEAN]
    BY <1>7, Zenon DEF T!SaveFails
  <2>7. torn' \in BOOLEAN /\ wpc' \in [T!Writer -> {"idle", "open", "saving", "done", "refused"}]
    BY <1>7 DEF T!SaveFails, T!Continues, T!Ends
  <2>8. wpc'[w] = IF Len(q) = 1 \/ w \notin Form THEN "done" ELSE "saving"
    BY <1>7 DEF T!SaveFails, T!Continues, T!Ends, TableTyped
  <2>9. \A v \in T!Writer : v # w => wpc'[v] = wpc[v]
    BY <1>7 DEF T!SaveFails, T!Continues, T!Ends
  <2>10. UNCHANGED <<seeds, keyfile, tmp, held, loading, clashed, copy, named, table, seal, meant,
                     lost, blanked, overtaken>>
    BY <1>7 DEF T!SaveFails, T!keyVars
  <2> HIDE DEF q
  <2>11. plan' \in [T!Writer -> SaveSeq]
    BY <2>2, <2>3, <2>4
  <2>12. \A v \in T!Writer : wpc'[v] = "saving" <=> plan'[v] # <<>>
    BY <2>2, <2>4, <2>8, <2>9
  <2> QED
    BY <2>5, <2>7, <2>10, <2>11, <2>12
<1>8. ASSUME NEW p \in T!Process, KeyMoves(p) PROVE TableTyped' /\ NothingMaskedIsRead'
  <2>1. p \in {"panel", "cli"} /\ T!None = 0 /\ 0 \in 0..seeds
    BY WriterFacts
  <2>2. CASE T!ReadKey(p)
    BY <2>1, <2>2 DEF T!ReadKey, T!tableVars, T!writerVars
  <2>3. CASE T!MissesKey(p)
    <3>1. clashed' \in BOOLEAN
      BY <2>3, Zenon DEF T!MissesKey
    <3> QED
      BY <2>1, <2>3, <3>1 DEF T!MissesKey, T!tableVars, T!writerVars
  <2>4. CASE T!MintKey(p)
    <3>1. seeds' \in Nat /\ 0..seeds \subseteq 0..seeds' /\ tmp' \in 0..seeds'
      BY <2>4 DEF T!MintKey
    <3>2. held' \in [T!Process -> 0..seeds']
      BY <2>4, <3>1 DEF T!MintKey
    <3>3. seal' \in 0..seeds' /\ keyfile' \in 0..seeds'
      BY <2>4, <3>1 DEF T!MintKey, T!tableVars
    <3> QED
      BY <2>4, <3>1, <3>2, <3>3 DEF T!MintKey, T!tableVars, T!writerVars
  <2>5. CASE T!RenameKey(p)
    BY <2>1, <2>5 DEF T!RenameKey, T!tableVars, T!writerVars
  <2>6. CASE T!KeyError(p)
    BY <2>1, <2>6 DEF T!KeyError, T!tableVars, T!writerVars
  <2> QED
    BY <1>8, <2>2, <2>3, <2>4, <2>5, <2>6 DEF KeyMoves
<1>9. CASE UNCHANGED tableVars
  BY <1>9 DEF tableVars
<1> QED
  BY <1>1, <1>2, <1>3, <1>4, <1>5, <1>6, <1>7, <1>8, <1>9, TableActs

-----------------------------------------------------------------------------
(* The key of the secrets                                                   *)

\* Unless two processes made it at once or one made it again: one makes the key while
\* there is none, and what is held, or has sealed a secret, is the key that is stored.
KeyIsOne ==
    \/ clashed
    \/ /\ \A p, r \in {"panel", "cli"} :
              loading[p] \in {"mint", "rename"} =>
                  keyfile = 0 /\ (r # p => loading[r] \notin {"mint", "rename"})
       /\ \A p \in {"panel", "cli"} :
              IF loading[p] = "rename" THEN tmp = held[p] ELSE held[p] \in {0, keyfile}
       /\ seal \in {0, keyfile}

LEMMA KeyIsOneHolds ==
    ASSUME TableTyped, NothingMaskedIsRead, KeyIsOne, [TableNext]_tableVars
    PROVE  KeyIsOne'
<1>1. ASSUME UNCHANGED <<keyfile, tmp, held, loading, clashed, seal>> PROVE KeyIsOne'
  BY <1>1 DEF KeyIsOne
<1>2. ASSUME UNCHANGED <<keyfile, tmp, held, loading, clashed>>, seal' = 0 PROVE KeyIsOne'
  BY <1>2 DEF KeyIsOne
<1>3. ASSUME T!Restarted PROVE KeyIsOne'
  <2>1. \A p \in {"panel", "cli"} : /\ held'[p] = IF p = "panel" THEN 0 ELSE held[p]
                                    /\ loading'[p] = IF p = "panel" THEN "no" ELSE loading[p]
    BY <1>3, WriterFacts DEF T!Restarted, TableTyped
  <2> QED
    BY <1>3, <2>1 DEF T!Restarted, KeyIsOne
<1>4. ASSUME NEW w \in T!Writer, T!Save(w) PROVE KeyIsOne'
  <2>1. UNCHANGED <<keyfile, tmp, held, loading, clashed>>
    BY <1>4 DEF T!Save, T!keyVars
  <2>2. T!Home(w) \in {"panel", "cli"} /\ (T!Seals(w) => loading[T!Home(w)] = "no")
    BY <1>4, WriterFacts DEF T!Save
  <2>3. \/ UNCHANGED seal \/ seal' = 0
        \/ seal' = held[T!Home(w)] /\ loading[T!Home(w)] = "no"
    BY <1>4, <2>2, WriterFacts DEF T!Save, T!Seals
  <2>4. CASE seal' = held[T!Home(w)] /\ loading[T!Home(w)] = "no"
    BY <2>1, <2>2, <2>4 DEF KeyIsOne
  <2> QED
    BY <1>1, <1>2, <2>1, <2>3, <2>4
<1>5. ASSUME NEW p \in T!Process, T!ReadKey(p) \/ T!MissesKey(p) PROVE KeyIsOne'
  <2>1. p \in {"panel", "cli"} /\ held[p] = 0 /\ loading[p] = "no" /\ UNCHANGED <<keyfile, tmp, seal>>
    BY <1>5, WriterFacts DEF T!ReadKey, T!MissesKey, T!NeedsKey, T!tableVars
  <2>2. CASE T!ReadKey(p)
    <3>1. \A q \in {"panel", "cli"} : held'[q] = IF q = p THEN keyfile ELSE held[q]
      BY <2>2, WriterFacts DEF T!ReadKey, TableTyped
    <3> QED
      BY <2>1, <2>2, <3>1 DEF T!ReadKey, KeyIsOne
  <2>3. CASE T!MissesKey(p)
    <3>1. /\ held' = held /\ loading' = [loading EXCEPT ![p] = "mint"]
          /\ clashed' = (clashed \/ keyfile # 0
                                \/ \E q \in T!Process : loading[q] \in {"mint", "rename"})
      BY <2>3, WriterFacts DEF T!MissesKey
    <3>2. CASE clashed'
      BY <3>2 DEF KeyIsOne
    <3>3. CASE ~clashed'
      <4>1. /\ ~clashed /\ keyfile = 0
            /\ \A q \in {"panel", "cli"} : loading[q] \notin {"mint", "rename"}
        BY <3>1, <3>3, WriterFacts
      <4>2. \A q \in {"panel", "cli"} : loading'[q] = IF q = p THEN "mint" ELSE loading[q]
        BY <3>1, WriterFacts DEF TableTyped
      <4>3. seal \in {0, keyfile} /\ \A q \in {"panel", "cli"} : held[q] \in {0, keyfile}
        BY <4>1 DEF KeyIsOne
      <4> QED
        BY <2>1, <3>1, <4>1, <4>2, <4>3 DEF KeyIsOne
    <3> QED
      BY <3>2, <3>3
  <2> QED
    BY <1>5, <2>2, <2>3
<1>6. ASSUME NEW p \in T!Process, T!MintKey(p) PROVE KeyIsOne'
  <2>1. /\ p \in {"panel", "cli"} /\ loading[p] = "mint" /\ tmp' = seeds'
        /\ UNCHANGED <<keyfile, clashed, seal>>
        /\ \A q \in {"panel", "cli"} : /\ held'[q] = IF q = p THEN seeds' ELSE held[q]
                                       /\ loading'[q] = IF q = p THEN "rename" ELSE loading[q]
    BY <1>6, WriterFacts DEF T!MintKey, T!tableVars, TableTyped
  <2> QED
    BY <2>1 DEF KeyIsOne
<1>7. ASSUME NEW p \in T!Process, T!RenameKey(p) \/ T!KeyError(p) PROVE KeyIsOne'
  <2>1. p \in {"panel", "cli"} /\ loading[p] \in {"mint", "rename"} /\ UNCHANGED <<clashed, seal>>
    BY <1>7, WriterFacts DEF T!RenameKey, T!KeyError, T!tableVars
  <2>2. CASE T!RenameKey(p)
    <3>1. /\ loading[p] = "rename" /\ keyfile' = tmp
          /\ \A q \in {"panel", "cli"} : /\ held'[q] = held[q]
                                         /\ loading'[q] = IF q = p THEN "no" ELSE loading[q]
      BY <2>2, WriterFacts DEF T!RenameKey, TableTyped
    <3> QED
      BY <2>1, <3>1 DEF KeyIsOne
  <2>3. CASE T!KeyError(p)
    <3>1. /\ UNCHANGED keyfile
          /\ \A q \in {"panel", "cli"} : /\ held'[q] = IF q = p THEN 0 ELSE held[q]
                                         /\ loading'[q] = IF q = p THEN "error" ELSE loading[q]
      BY <2>3, WriterFacts DEF T!KeyError, TableTyped
    <3> QED
      BY <2>1, <3>1 DEF KeyIsOne
  <2> QED
    BY <1>7, <2>2, <2>3
<1>8. ASSUME NEW w \in T!Writer, T!SaveFails(w) PROVE KeyIsOne'
  BY <1>1, <1>8 DEF T!SaveFails, T!keyVars
<1>9. ASSUME T!ResetSettings PROVE KeyIsOne'
  BY <1>2, <1>9, WriterFacts DEF T!ResetSettings, T!keyVars
<1>10. ASSUME NEW f \in Form, T!Open(f) \/ TurnedAway(f) PROVE KeyIsOne'
  BY <1>1, <1>10 DEF T!Open, TurnedAway, T!keyVars, T!tableVars
<1>11. ASSUME NEW w \in T!Writer, NEW q \in SaveSeq, Starts(w, q) PROVE KeyIsOne'
  BY <1>1, <1>11 DEF Starts
<1>12. CASE UNCHANGED tableVars
  BY <1>1, <1>12 DEF tableVars
<1> QED
  BY <1>3, <1>4, <1>5, <1>6, <1>7, <1>8, <1>9, <1>10, <1>11, <1>12, TableActs DEF KeyMoves

-----------------------------------------------------------------------------
(* What was last asked for                                                  *)

\* A form that was opened before no later request of others holds the last word, or
\* what is known to be old, of the keys it was not asked for.  A secret is saved only
\* for a writer that names it.
Known(k, v) == v = meant[k] \/ k \in lost
CopiesAreKnown ==
    \A f \in Form : wpc[f] = "open" =>
        \A k \in T!Key : k # "tgBotToken" /\ k \notin overtaken[f] => Known(k, copy[f][k])
SavesAreKnown ==
    \A w \in T!Writer : \A i \in DOMAIN plan[w] :
        plan[w][i].key \in named[w]
        \/ /\ w \in Form /\ plan[w][i].key # "tgBotToken"
           /\ plan[w][i].key \in overtaken[w] \/ Known(plan[w][i].key, plan[w][i].value)
LastWord ==
    \A k \in T!Key : table[k] = meant[k] \/ (k \in lost /\ k # "tgBotToken")
LastWordInv == CopiesAreKnown /\ SavesAreKnown /\ LastWord

\* A request for a key: what others hold of it is overtaken.
LEMMA SaveIsKnown ==
    ASSUME TableTyped, LastWordInv, NEW w \in T!Writer, T!Save(w) PROVE LastWordInv'
<1> DEFINE k == plan[w][1].key
           v == plan[w][1].value
<1>1. wpc[w] = "saving" /\ plan' = [plan EXCEPT ![w] = Tail(@)] /\ UNCHANGED <<named, copy>>
  BY DEF T!Save
<1>2. /\ table' = [table EXCEPT ![k] = v]
      /\ \/ /\ k \in named[w] /\ meant' = [meant EXCEPT ![k] = v] /\ lost' = lost \ {k}
            /\ overtaken' = [f \in Form |-> IF f = w THEN overtaken[f] ELSE overtaken[f] \cup {k}]
         \/ /\ k \notin named[w] /\ lost' = lost \cup ({k} \cap overtaken[w])
            /\ UNCHANGED <<meant, overtaken>>
  BY DEF T!Save
<1>3. \A u \in T!Writer : wpc'[u] = "open" => wpc[u] = "open"
  BY <1>1 DEF T!Save, T!Continues, T!Ends, TableTyped
<1>4. /\ k \in T!Key
      /\ k \notin named[w] => /\ w \in Form /\ k # "tgBotToken"
                              /\ (k \in overtaken[w] \/ Known(k, v))
  <2>1. 1 \in DOMAIN plan[w]
    BY <1>1, TailOf DEF TableTyped
  <2> QED
    BY <1>1, <2>1, SaveTyped DEF SavesAreKnown, LastWordInv
<1>5. /\ \A i \in DOMAIN Tail(plan[w]) : i + 1 \in DOMAIN plan[w] /\ Tail(plan[w])[i] = plan[w][i + 1]
      /\ \A u \in T!Writer : plan'[u] = IF u = w THEN Tail(plan[w]) ELSE plan[u]
  BY <1>1, TailOf DEF TableTyped
<1> HIDE DEF k, v
<1>6. /\ \A f \in Form : overtaken[f] \subseteq overtaken'[f]
      /\ \A f \in Form : f # w /\ k \in named[w] => k \in overtaken'[f]
  BY <1>2 DEF TableTyped
<1>7. ASSUME NEW j \in T!Key, NEW x, Known(j, x), j # k \/ k \notin named[w]
      PROVE  x = meant'[j] \/ j \in lost'
  BY <1>2, <1>7 DEF Known, TableTyped, Whole
<1>8. CopiesAreKnown'
  <2> SUFFICES ASSUME NEW f \in Form, wpc'[f] = "open", NEW j \in T!Key, j # "tgBotToken", j \notin overtaken'[f]
               PROVE  Known(j, copy[f][j])'
    BY <1>1 DEF CopiesAreKnown
  <2>1. f \in T!Writer /\ wpc[f] = "open" /\ f # w
    BY <1>1, <1>3, WriterFacts
  <2>2. Known(j, copy[f][j]) /\ (j # k \/ k \notin named[w])
    BY <1>6, <2>1 DEF CopiesAreKnown, LastWordInv
  <2>3. copy[f][j] = meant'[j] \/ j \in lost'
    BY <1>7, <2>2
  <2> QED
    BY <1>1, <2>3 DEF Known
<1>9. SavesAreKnown'
  <2> SUFFICES ASSUME NEW u \in T!Writer, NEW i \in DOMAIN plan'[u], plan'[u][i].key \notin named[u]
               PROVE  /\ u \in Form /\ plan'[u][i].key # "tgBotToken"
                      /\ \/ plan'[u][i].key \in overtaken'[u]
                         \/ Known(plan[u][i].key, plan[u][i].value)'
    BY <1>1 DEF SavesAreKnown
  <2>1. PICK m \in DOMAIN plan[u] : plan'[u][i] = plan[u][m]
    BY <1>5
  <2> DEFINE j == plan[u][m].key
             x == plan[u][m].value
  <2>2. u \in Form /\ j # "tgBotToken" /\ (j \in overtaken[u] \/ Known(j, x)) /\ j \notin named[u]
    BY <2>1 DEF SavesAreKnown, LastWordInv
  <2>3. j \in T!Key
    BY SaveEntry DEF TableTyped
  <2> HIDE DEF j, x
  <2>4. CASE j \in overtaken[u] \/ (u # w /\ j = k /\ k \in named[w])
    <3>1. j \in overtaken'[u]
      BY <1>6, <2>2, <2>4
    <3> QED
      BY <2>1, <2>2, <3>1 DEF j
  <2>5. CASE Known(j, x) /\ (j # k \/ k \notin named[w])
    <3>1. x = meant'[j] \/ j \in lost'
      BY <1>7, <2>3, <2>5
    <3>2. plan'[u][i].key = j /\ plan'[u][i].value = x
      BY <2>1 DEF j, x
    <3> QED
      BY <2>2, <3>1, <3>2 DEF Known
  <2> QED
    BY <2>2, <2>4, <2>5
<1>10. LastWord'
  <2> SUFFICES ASSUME NEW j \in T!Key PROVE table'[j] = meant'[j] \/ (j \in lost' /\ j # "tgBotToken")
    BY DEF LastWord
  <2>1. table'[j] = IF j = k THEN v ELSE table[j]
    BY <1>2 DEF TableTyped, Whole
  <2>2. CASE j # k
    BY <1>2, <2>1, <2>2 DEF TableTyped, Whole, LastWord, LastWordInv
  <2>3. CASE j = k /\ k \in named[w]
    BY <1>2, <2>1, <2>3 DEF TableTyped, Whole
  <2>4. CASE j = k /\ k \notin named[w]
    BY <1>2, <1>4, <2>1, <2>4 DEF Known
  <2> QED
    BY <2>2, <2>3, <2>4
<1> QED
  BY <1>8, <1>9, <1>10 DEF LastWordInv

LEMMA LastWordHoldsOn ==
    ASSUME TableTyped, NothingMaskedIsRead, LastWordInv, [TableNext]_tableVars
    PROVE  LastWordInv'
<1>1. ASSUME UNCHANGED <<table, meant, lost>> PROVE LastWord'
  BY <1>1 DEF LastWord, LastWordInv
<1>2. ASSUME UNCHANGED <<meant, lost, overtaken, copy>>, \A f \in Form : wpc'[f] = "open" => wpc[f] = "open"
      PROVE  CopiesAreKnown'
  BY <1>2 DEF CopiesAreKnown, LastWordInv, Known
<1>3. ASSUME UNCHANGED <<meant, lost, overtaken, plan, named>> PROVE SavesAreKnown'
  BY <1>3 DEF SavesAreKnown, LastWordInv, Known
<1>4. ASSUME NEW w \in T!Writer, NEW q \in SaveSeq, Starts(w, q) PROVE LastWordInv'
  <2>1. PICK keys \in SUBSET T!Key :
            /\ named' = [named EXCEPT ![w] = keys]
            /\ \A i \in DOMAIN q : q[i].key \notin keys =>
                   /\ q[i].key # "tgBotToken" /\ w \in Form
                   /\ q[i].value = copy[w][q[i].key]
    BY <1>4 DEF Starts
  <2>2. /\ \A v \in T!Writer : /\ plan'[v] = IF v = w THEN q ELSE plan[v]
                               /\ named'[v] = IF v = w THEN keys ELSE named[v]
                               /\ wpc'[v] = IF v = w THEN "saving" ELSE wpc[v]
                               /\ v # w => copy'[v] = copy[v]
        /\ UNCHANGED <<table, meant, lost, overtaken>> /\ (w \in Form => wpc[w] = "open")
    BY <1>4, <2>1 DEF Starts, TableTyped
  <2>3. CopiesAreKnown'
    BY <2>2, WriterFacts DEF CopiesAreKnown, LastWordInv, Known
  <2>4. SavesAreKnown'
    <3> SUFFICES ASSUME NEW u \in T!Writer, NEW i \in DOMAIN plan'[u], plan'[u][i].key \notin named'[u]
                 PROVE  /\ u \in Form /\ plan'[u][i].key # "tgBotToken"
                        /\ \/ plan'[u][i].key \in overtaken'[u]
                           \/ Known(plan[u][i].key, plan[u][i].value)'
      BY DEF SavesAreKnown
    <3>1. CASE u = w
      <4>1. i \in DOMAIN q /\ plan'[u][i] = q[i] /\ q[i].key \notin keys
        BY <2>2, <3>1
      <4>2. q[i].key # "tgBotToken" /\ w \in Form /\ q[i].value = copy[w][q[i].key] /\ wpc[w] = "open"
        BY <2>1, <2>2, <4>1
      <4>3. q[i].key \in T!Key
        BY <4>1, SaveEntry
      <4>4. q[i].key \in overtaken[w] \/ Known(q[i].key, q[i].value)
        BY <4>2, <4>3 DEF CopiesAreKnown, LastWordInv
      <4> QED
        BY <2>2, <3>1, <4>1, <4>2, <4>4 DEF Known
    <3>2. CASE u # w
      BY <2>2, <3>2 DEF SavesAreKnown, LastWordInv, Known
    <3> QED
      BY <3>1, <3>2
  <2> QED
    BY <1>1, <2>2, <2>3, <2>4 DEF LastWordInv
<1>5. ASSUME NEW f \in Form, T!Open(f) PROVE LastWordInv'
  <2> DEFINE s == [k \in T!Key |-> IF k \in T!Masked THEN T!Blank ELSE table[k]]
  <2>1. f \in T!Writer /\ \A k \in T!Key : k # "tgBotToken" => s[k] = table[k]
    BY KeyFacts, WriterFacts
  <2>2. copy' = [copy EXCEPT ![f] = s] /\ UNCHANGED <<table, meant, lost, plan, named>>
    BY <1>5 DEF T!Open, T!tableVars
  <2> HIDE DEF s
  <2>3. /\ \A g \in Form : /\ copy'[g] = IF g = f THEN s ELSE copy[g]
                           /\ g # f => wpc'[g] = wpc[g] /\ overtaken'[g] = overtaken[g]
        /\ wpc[f] = "idle"
    BY <1>5, <2>1, <2>2, WriterFacts DEF T!Open, TableTyped
  <2>4. CopiesAreKnown'
    BY <2>1, <2>2, <2>3 DEF CopiesAreKnown, LastWord, LastWordInv, Known
  <2>5. SavesAreKnown'
    <3>1. plan[f] = <<>>
      BY <2>1, <2>3 DEF TableTyped
    <3>2. DOMAIN <<>> = {}
      OBVIOUS
    <3> QED
      BY <2>2, <2>3, <3>1, <3>2 DEF SavesAreKnown, LastWordInv, Known
  <2> QED
    BY <1>1, <2>2, <2>4, <2>5 DEF LastWordInv
<1>6. ASSUME NEW w \in T!Writer, T!SaveFails(w) PROVE LastWordInv'
  <2>1. UNCHANGED <<table, meant, lost, overtaken, named, copy>> /\ wpc[w] = "saving"
    BY <1>6 DEF T!SaveFails
  <2>2. \A f \in Form : wpc'[f] = "open" => wpc[f] = "open"
    <3>1. wpc' = wpc \/ wpc' = [wpc EXCEPT ![w] = "done"]
      BY <1>6 DEF T!SaveFails, T!Continues, T!Ends
    <3>2. wpc \in [T!Writer -> {"idle", "open", "saving", "done", "refused"}] /\ Form \subseteq T!Writer
      BY WriterFacts DEF TableTyped
    <3> QED
      BY <3>1, <3>2
  <2>3. \A v \in T!Writer : plan'[v] = IF v = w THEN IF w \in Form THEN Tail(plan[w]) ELSE <<>> ELSE plan[v]
    BY <1>6 DEF T!SaveFails, TableTyped
  <2>4. \A i \in DOMAIN Tail(plan[w]) : i + 1 \in DOMAIN plan[w] /\ Tail(plan[w])[i] = plan[w][i + 1]
    BY <2>1, TailOf DEF TableTyped
  <2>5. DOMAIN <<>> = {}
    OBVIOUS
  <2>6. \A v \in T!Writer : \A i \in DOMAIN plan'[v] : \E m \in DOMAIN plan[v] : plan'[v][i] = plan[v][m]
    BY <2>3, <2>4, <2>5
  <2>7. SavesAreKnown'
    BY <2>1, <2>6 DEF SavesAreKnown, LastWordInv, Known
  <2> QED
    BY <1>1, <1>2, <2>1, <2>2, <2>7 DEF LastWordInv
<1>7. ASSUME T!Restarted PROVE LastWordInv'
  <2>1. /\ \A v \in T!Writer : plan'[v] = IF v \in Form THEN <<>> ELSE plan[v]
        /\ \A f \in Form : wpc'[f] # "open"
    BY <1>7, WriterFacts DEF T!Restarted
  <2>2. DOMAIN <<>> = {}
    OBVIOUS
  <2>3. SavesAreKnown' /\ CopiesAreKnown'
    BY <1>7, <2>1, <2>2 DEF SavesAreKnown, CopiesAreKnown, LastWordInv, Known, T!Restarted
  <2> QED
    BY <1>1, <1>7, <2>3 DEF LastWordInv, T!Restarted
<1>8. ASSUME T!ResetSettings PROVE LastWordInv'
  <2>1. LastWord'
    BY <1>8 DEF LastWord, T!ResetSettings
  <2>2. \A f \in Form : overtaken'[f] = T!Key
    BY <1>8 DEF T!ResetSettings
  <2>3. CopiesAreKnown'
    BY <2>2 DEF CopiesAreKnown
  <2>4. SavesAreKnown'
    <3>1. \A w \in T!Writer : \A i \in DOMAIN plan[w] : plan[w][i].key \in T!Key
      BY SaveEntry DEF TableTyped
    <3>2. UNCHANGED <<plan, named>>
      BY <1>8 DEF T!ResetSettings
    <3> QED
      BY <2>2, <3>1, <3>2 DEF SavesAreKnown, LastWordInv
  <2> QED
    BY <2>1, <2>3, <2>4 DEF LastWordInv
<1>9. ASSUME NEW f \in Form, TurnedAway(f) PROVE LastWordInv'
  <2>1. /\ \A g \in Form : wpc'[g] = "open" => g # f /\ wpc[g] = "open" /\ copy'[g] = copy[g]
        /\ UNCHANGED <<table, meant, lost, overtaken, plan, named>>
    BY <1>9, WriterFacts DEF TurnedAway, TableTyped
  <2>2. CopiesAreKnown'
    BY <2>1 DEF CopiesAreKnown, LastWordInv, Known
  <2> QED
    BY <1>1, <1>3, <2>1, <2>2 DEF LastWordInv
<1>10. ASSUME NEW p \in T!Process, KeyMoves(p) PROVE LastWordInv'
  <2>1. UNCHANGED <<table, meant, lost, overtaken, plan, named, copy, wpc>>
    BY <1>10 DEF KeyMoves, T!ReadKey, T!MissesKey, T!MintKey, T!RenameKey, T!KeyError,
       T!tableVars, T!writerVars
  <2> QED
    BY <1>1, <1>2, <1>3, <2>1 DEF LastWordInv
<1>11. CASE UNCHANGED tableVars
  BY <1>1, <1>2, <1>3, <1>11 DEF tableVars, LastWordInv
<1> QED
  BY <1>4, <1>5, <1>6, <1>7, <1>8, <1>9, <1>10, <1>11, SaveIsKnown, TableActs

-----------------------------------------------------------------------------
(* Settings that are whole are sound                                        *)

\* Settings that nobody writes: the path is there, or a command has blanked it.
Fine == Sound(table) \/ (table["webCertFile"] = table["webKeyFile"] /\ blanked)

\* A command switches the entry on only after it has a path.
CommandsAreOrdered ==
    \A w \in T!Writer \ Form :
        wpc[w] = "saving" =>
            \/ OneSave(plan[w]) \/ PathAndSwitch(plan[w])
            \/ /\ Len(plan[w]) = 1 /\ plan[w][1].key = "secureEntryEnabled"
               /\ alone[w] => table["secureEntryPath"] # "blank"
OncePerKey == \A w \in T!Writer : Distinct(plan[w])
OneIsAlone ==
    \A v, w \in T!Writer :
        wpc[v] = "saving" /\ wpc[w] = "saving" /\ alone[v] /\ alone[w] => v = w
\* Where a writer that is still alone will leave the settings.
AloneEndsWell ==
    \A w \in T!Writer :
        wpc[w] = "saving" /\ alone[w] =>
            IF w \in Form THEN Sound(After(table, plan[w])) ELSE torn \/ Fine
NowSound == torn \/ (\E w \in T!Writer : wpc[w] = "saving") \/ Fine

WholeInv == CommandsAreOrdered /\ OncePerKey /\ OneIsAlone /\ AloneEndsWell /\ NowSound

LEMMA SoundCase1 ==
    ASSUME TableTyped, WholeInv, NEW w \in T!Writer, NEW q \in SaveSeq, Starts(w, q)
    PROVE  WholeInv'
<1>1. /\ \A v \in T!Writer : /\ plan'[v] = IF v = w THEN q ELSE plan[v]
                             /\ wpc'[v] = IF v = w THEN "saving" ELSE wpc[v]
                             /\ v # w => alone'[v] = alone[v]
      /\ alone'[w] => \A v \in T!Writer \ {w} : wpc[v] # "saving"
      /\ UNCHANGED <<table, torn, blanked>> /\ wpc[w] # "saving"
  <2>1. \A v \in T!Writer : v # w => alone'[v] = alone[v]
    BY DEF Starts, TableTyped
  <2>2. alone'[w] => \A v \in T!Writer \ {w} : wpc[v] # "saving"
    BY Zenon DEF Starts, TableTyped
  <2>3. \A v \in T!Writer : /\ plan'[v] = IF v = w THEN q ELSE plan[v]
                            /\ wpc'[v] = IF v = w THEN "saving" ELSE wpc[v]
    BY DEF Starts, TableTyped
  <2>4. UNCHANGED <<table, torn, blanked>> /\ wpc[w] # "saving"
    BY DEF Starts
  <2> QED
    BY <2>1, <2>2, <2>3, <2>4
<1>2. CommandsAreOrdered'
  <2>1. w \notin Form => OneSave(q) \/ PathAndSwitch(q)
    BY DEF Starts
  <2> SUFFICES ASSUME NEW v \in T!Writer \ Form, wpc'[v] = "saving"
               PROVE  \/ OneSave(plan'[v]) \/ PathAndSwitch(plan'[v])
                      \/ /\ Len(plan'[v]) = 1 /\ plan'[v][1].key = "secureEntryEnabled"
                         /\ alone'[v] => table'["secureEntryPath"] # "blank"
    BY DEF CommandsAreOrdered, OneSave, PathAndSwitch
  <2>2. CASE v = w
    <3>1. plan'[v] = q
      BY <1>1, <2>2
    <3> QED
      BY <2>1, <2>2, <3>1
  <2>3. CASE v # w
    BY <1>1, <2>3 DEF CommandsAreOrdered, WholeInv
  <2> QED
    BY <2>2, <2>3
<1>3. OncePerKey'
  BY <1>1 DEF OncePerKey, WholeInv, Starts
<1>4. OneIsAlone'
  BY <1>1 DEF OneIsAlone, WholeInv
<1>5. AloneEndsWell'
  <2>0. Fine' = Fine
    BY <1>1 DEF Fine
  <2> SUFFICES ASSUME NEW v \in T!Writer, wpc'[v] = "saving", alone'[v]
               PROVE  IF v \in Form THEN Sound(After(table', plan'[v])) ELSE torn' \/ Fine'
    BY DEF AloneEndsWell
  <2>1. CASE v = w
    <3>1. torn \/ Fine
      BY <1>1, <2>1 DEF NowSound, WholeInv
    <3>2. w \in Form => Sound(After(table, q))
      BY DEF Starts
    <3> QED
      BY <1>1, <2>0, <2>1, <3>1, <3>2
  <2>2. CASE v # w
    BY <1>1, <2>0, <2>2 DEF AloneEndsWell, WholeInv
  <2> QED
    BY <2>1, <2>2
<1>6. NowSound'
  BY <1>1 DEF NowSound
<1> QED
  BY <1>2, <1>3, <1>4, <1>5, <1>6 DEF WholeInv

LEMMA SoundCase2 ==
    ASSUME TableTyped, WholeInv, NEW w \in T!Writer, T!Save(w)
    PROVE  WholeInv'
<1> DEFINE q == plan[w]
           k == q[1].key
           x == q[1].value
<1>1. wpc[w] = "saving" /\ q \in SaveSeq /\ q # <<>> /\ Distinct(q)
  BY DEF T!Save, TableTyped, WholeInv, OncePerKey
<1>2. /\ \A v \in T!Writer : plan'[v] = IF v = w THEN Tail(q) ELSE plan[v]
      /\ \A v \in T!Writer : v # w => wpc'[v] = wpc[v]
      /\ Len(q) = 1 => wpc'[w] = "done" /\ torn' = IF alone[w] THEN torn /\ w \notin Form ELSE TRUE
      /\ Len(q) # 1 => UNCHANGED <<wpc, torn>>
      /\ table' = [table EXCEPT ![k] = x]
  BY DEF T!Save, T!Continues, T!Ends, TableTyped
<1>15. blanked' <=> IF k = "secureEntryPath" THEN w \notin Form /\ x = "blank" ELSE blanked
  BY KeyFacts, Zenon DEF T!Save
<1>3. \A v \in T!Writer : alone'[v] => alone[v] /\ (v = w \/ wpc[v] # "saving")
  BY Zenon DEF T!Save
<1>4. /\ table' \in Whole /\ Distinct(Tail(q)) /\ After(table', Tail(q)) = After(table, q)
      /\ Len(q) = 1 => table' = After(table, q)
  BY <1>1, <1>2, AfterOne DEF TableTyped
<1>5. Len(q) \in Nat \ {0} /\ Len(Tail(q)) = Len(q) - 1
      /\ \A i \in DOMAIN Tail(q) : Tail(q)[i] = q[i + 1]
  BY <1>1, TailOf
<1>6. \A v \in T!Writer : wpc'[v] = "saving" => wpc[v] = "saving"
  BY <1>1, <1>2
<1>7. table'[k] = x /\ k \in T!Key /\ \A j \in T!Key : j # k => table'[j] = table[j]
  BY <1>1, <1>2, TailOf DEF TableTyped, Whole
<1>16. w \notin Form => \/ OneSave(q) \/ PathAndSwitch(q)
                        \/ /\ Len(q) = 1 /\ k = "secureEntryEnabled"
                           /\ alone[w] => table["secureEntryPath"] # "blank"
  BY <1>1 DEF CommandsAreOrdered, WholeInv
<1>17. Len(q) = 2 => Len(Tail(q)) = 1 /\ Tail(q)[1] = q[2]
  <2>1. DOMAIN Tail(q) = 1..Len(Tail(q))
    BY <1>1, TailOf DEF SaveSeq
  <2> QED
    BY <1>5, <2>1
<1>18. OneSave(q) => k \notin {"webCertFile", "webKeyFile"} /\ (k = "secureEntryEnabled" => x = "false")
                     /\ Len(q) = 1
  BY DEF OneSave
<1>19. PathAndSwitch(q) => k = "secureEntryPath" /\ x # "blank" /\ Len(q) = 2
                           /\ q[2].key = "secureEntryEnabled"
  BY DEF PathAndSwitch
<1> HIDE DEF q, k, x
<1>8. CommandsAreOrdered'
  <2> SUFFICES ASSUME NEW v \in T!Writer \ Form, wpc'[v] = "saving"
               PROVE  \/ OneSave(plan'[v]) \/ PathAndSwitch(plan'[v])
                      \/ /\ Len(plan'[v]) = 1 /\ plan'[v][1].key = "secureEntryEnabled"
                         /\ alone'[v] => table'["secureEntryPath"] # "blank"
    BY DEF CommandsAreOrdered, OneSave, PathAndSwitch
  <2>1. CASE v = w
    <3>1. Len(q) # 1
      BY <1>2, <2>1
    <3>2. PathAndSwitch(q)
      BY <1>16, <1>18, <2>1, <3>1
    <3>3. plan'[v] = Tail(q) /\ Len(Tail(q)) = 1 /\ Tail(q)[1].key = "secureEntryEnabled"
      BY <1>2, <1>17, <1>19, <2>1, <3>2
    <3> QED
      BY <1>7, <1>19, <3>2, <3>3
  <2>2. CASE v # w
    <3>1. plan'[v] = plan[v] /\ wpc[v] = "saving" /\ ~alone'[v]
      BY <1>2, <1>3, <2>2
    <3> QED
      BY <3>1 DEF CommandsAreOrdered, WholeInv
  <2> QED
    BY <2>1, <2>2
<1>9. OncePerKey'
  BY <1>2, <1>4 DEF OncePerKey, WholeInv
<1>10. OneIsAlone'
  BY <1>3, <1>6 DEF OneIsAlone, WholeInv
<1>11. ASSUME alone[w], w \in Form PROVE Sound(After(table, q))
  BY <1>1, <1>11 DEF AloneEndsWell, WholeInv, q
<1>12. ASSUME alone[w], w \notin Form, Fine PROVE Fine'
  <2>1. k \notin {"webCertFile", "webKeyFile"}
    BY <1>12, <1>16, <1>18, <1>19
  <2>2. table'["webCertFile"] = table'["webKeyFile"]
    BY <1>7, <1>12, <2>1, KeyFacts DEF Fine, Sound
  <2>3. CASE k = "secureEntryPath"
    <3>1. blanked' \/ table'["secureEntryPath"] # "blank"
      BY <1>7, <1>12, <1>15, <2>3
    <3> QED
      BY <2>2, <3>1 DEF Fine, Sound
  <2>4. CASE k = "secureEntryEnabled"
    <3>1. x = "false" \/ table["secureEntryPath"] # "blank"
      BY <1>12, <1>16, <1>18, <1>19, <2>4
    <3>2. table'["secureEntryEnabled"] = x /\ table'["secureEntryPath"] = table["secureEntryPath"]
      BY <1>7, <2>4, KeyFacts
    <3> QED
      BY <2>2, <3>1, <3>2 DEF Fine, Sound
  <2>5. CASE k \notin {"secureEntryPath", "secureEntryEnabled"}
    BY <1>7, <1>12, <1>15, <2>2, <2>5, KeyFacts DEF Fine, Sound
  <2> QED
    BY <2>3, <2>4, <2>5
<1>13. AloneEndsWell'
  <2> SUFFICES ASSUME NEW v \in T!Writer, wpc'[v] = "saving", alone'[v]
               PROVE  IF v \in Form THEN Sound(After(table', plan'[v])) ELSE torn' \/ Fine'
    BY DEF AloneEndsWell
  <2>1. v = w /\ alone[w]
    BY <1>3, <1>6
  <2>2. Len(q) # 1 /\ torn' = torn /\ plan'[v] = Tail(q)
    BY <1>2, <2>1
  <2>3. CASE w \in Form
    BY <1>4, <1>11, <2>1, <2>2, <2>3
  <2>4. CASE w \notin Form
    <3>1. torn \/ Fine
      BY <1>1, <2>1, <2>4 DEF AloneEndsWell, WholeInv
    <3> QED
      BY <1>12, <2>1, <2>2, <2>4, <3>1
  <2> QED
    BY <2>3, <2>4
<1>14. NowSound'
  <2>1. CASE Len(q) = 1 /\ ~alone[w]
    BY <1>2, <2>1 DEF NowSound
  <2>2. CASE Len(q) = 1 /\ alone[w] /\ w \in Form
    <3>1. Sound(table')
      BY <1>4, <1>11, <2>2
    <3>2. Fine'
      BY <3>1 DEF Fine, Sound
    <3> QED
      BY <3>2 DEF NowSound
  <2>3. CASE Len(q) = 1 /\ alone[w] /\ w \notin Form
    <3>1. torn \/ Fine
      BY <1>1, <2>3 DEF AloneEndsWell, WholeInv
    <3> QED
      BY <1>2, <1>12, <2>3, <3>1 DEF NowSound
  <2>4. CASE Len(q) # 1
    BY <1>1, <1>2, <2>4 DEF NowSound
  <2> QED
    BY <2>1, <2>2, <2>3, <2>4
<1> QED
  BY <1>8, <1>9, <1>10, <1>13, <1>14 DEF WholeInv

LEMMA SoundCase3 ==
    ASSUME TableTyped, WholeInv, NEW w \in T!Writer, T!SaveFails(w)
    PROVE  WholeInv'
<1> DEFINE q == plan[w]
<1>1. wpc[w] = "saving" /\ q \in SaveSeq /\ q # <<>> /\ Distinct(q)
  BY DEF T!SaveFails, TableTyped, WholeInv, OncePerKey
<1>2. /\ \A v \in T!Writer : plan'[v] = IF v = w THEN IF w \in Form THEN Tail(q) ELSE <<>> ELSE plan[v]
      /\ \A v \in T!Writer : v # w => wpc'[v] = wpc[v]
      /\ Len(q) = 1 /\ w \in Form => wpc'[w] = "done" /\ torn'
      /\ Len(q) # 1 /\ w \in Form => UNCHANGED <<wpc, torn>>
      /\ w \notin Form => wpc'[w] = "done" /\ torn' = IF alone[w] THEN torn ELSE TRUE
      /\ UNCHANGED <<table, blanked>>
  BY DEF T!SaveFails, T!Continues, T!Ends, TableTyped
<1>3. \A v \in T!Writer : alone'[v] => alone[v] /\ (v = w => w \notin Form)
  <2>1. alone' = [alone EXCEPT ![w] = alone[w] /\ w \notin Form]
    BY Zenon DEF T!SaveFails
  <2> QED
    BY <2>1, Zenon DEF TableTyped
<1>4. Distinct(Tail(q)) /\ Distinct(<<>>)
  <2>1. Distinct(Tail(q))
    BY <1>1, AfterOne DEF TableTyped
  <2>2. DOMAIN <<>> = {}
    OBVIOUS
  <2> QED
    BY <2>1, <2>2 DEF Distinct
<1>5. Fine' = Fine
  BY <1>2 DEF Fine
<1>6. \A v \in T!Writer : wpc'[v] = "saving" => wpc[v] = "saving" /\ (v = w => w \in Form)
  BY <1>1, <1>2
<1> HIDE DEF q
<1>8. CommandsAreOrdered'
  <2> SUFFICES ASSUME NEW v \in T!Writer \ Form, wpc'[v] = "saving"
               PROVE  \/ OneSave(plan'[v]) \/ PathAndSwitch(plan'[v])
                      \/ /\ Len(plan'[v]) = 1 /\ plan'[v][1].key = "secureEntryEnabled"
                         /\ alone'[v] => table'["secureEntryPath"] # "blank"
    BY DEF CommandsAreOrdered, OneSave, PathAndSwitch
  <2>1. plan'[v] = plan[v] /\ wpc[v] = "saving" /\ (alone'[v] => alone[v]) /\ UNCHANGED table
    BY <1>2, <1>3, <1>6
  <2> QED
    BY <2>1 DEF CommandsAreOrdered, WholeInv
<1>9. OncePerKey'
  BY <1>2, <1>4 DEF OncePerKey, WholeInv
<1>10. OneIsAlone'
  BY <1>3, <1>6 DEF OneIsAlone, WholeInv
<1>13. AloneEndsWell'
  <2> SUFFICES ASSUME NEW v \in T!Writer, wpc'[v] = "saving", alone'[v]
               PROVE  IF v \in Form THEN Sound(After(table', plan'[v])) ELSE torn' \/ Fine'
    BY DEF AloneEndsWell
  <2>1. v # w /\ wpc[v] = "saving" /\ alone[v] /\ plan'[v] = plan[v] /\ UNCHANGED table
    BY <1>2, <1>3, <1>6
  <2>2. torn => torn'
    BY <1>2
  <2> QED
    BY <1>5, <2>1, <2>2 DEF AloneEndsWell, WholeInv
<1>14. NowSound'
  <2>1. CASE w \in Form /\ Len(q) = 1
    BY <1>2, <2>1 DEF NowSound
  <2>2. CASE w \in Form /\ Len(q) # 1
    BY <1>1, <1>2, <2>2 DEF NowSound
  <2>3. CASE w \notin Form
    <3>1. alone[w] => torn \/ Fine
      BY <1>1, <2>3 DEF AloneEndsWell, WholeInv
    <3> QED
      BY <1>2, <1>5, <2>3, <3>1 DEF NowSound
  <2> QED
    BY <2>1, <2>2, <2>3
<1> QED
  BY <1>8, <1>9, <1>10, <1>13, <1>14 DEF WholeInv

LEMMA WholeHolds ==
    ASSUME TableTyped, NothingMaskedIsRead, WholeInv, [TableNext]_tableVars
    PROVE  WholeInv'
<1>1. ASSUME UNCHANGED <<table, torn, blanked, plan, alone>>,
             \A w \in T!Writer : wpc'[w] = "saving" <=> wpc[w] = "saving"
      PROVE  WholeInv'
  <2>1. CommandsAreOrdered' /\ OncePerKey'
    BY <1>1 DEF WholeInv, CommandsAreOrdered, OncePerKey, OneSave, PathAndSwitch
  <2>2. OneIsAlone' /\ AloneEndsWell' /\ NowSound'
    BY <1>1 DEF WholeInv, OneIsAlone, AloneEndsWell, NowSound, Fine
  <2> QED
    BY <2>1, <2>2 DEF WholeInv
<1>2. ASSUME T!Restarted PROVE WholeInv'
  <2>1. /\ \A w \in T!Writer : /\ plan'[w] = IF w \in Form THEN <<>> ELSE plan[w]
                               /\ wpc'[w] = "saving" => wpc[w] = "saving" /\ w \notin Form
                               /\ wpc[w] = "saving" /\ w \notin Form => wpc'[w] = "saving"
        /\ UNCHANGED <<table, alone, blanked>>
        /\ torn => torn'
        /\ (\E f \in Form : wpc[f] = "saving") => torn'
    BY <1>2 DEF T!Restarted
  <2>2. DOMAIN <<>> = {}
    OBVIOUS
  <2>3. CommandsAreOrdered' /\ OncePerKey'
    BY <2>1, <2>2 DEF WholeInv, CommandsAreOrdered, OncePerKey, Distinct, OneSave, PathAndSwitch
  <2>4. OneIsAlone' /\ AloneEndsWell' /\ NowSound'
    <3>1. Fine' = Fine
      BY <2>1 DEF Fine
    <3> QED
      BY <2>1, <3>1 DEF WholeInv, OneIsAlone, AloneEndsWell, NowSound
  <2> QED
    BY <2>3, <2>4 DEF WholeInv
<1>3. ASSUME Cli, wpc["cli"] = "idle", T!ResetSettings PROVE WholeInv'
  <2>1. "cli" \in T!Writer
    BY <1>3, WriterFacts
  <2>2. \A w \in T!Writer : wpc'[w] = "saving" => wpc[w] = "saving"
    BY <1>3, <2>1 DEF T!ResetSettings, TableTyped
  <2>3. \A w \in T!Writer : wpc[w] = "saving" => ~alone'[w]
    BY <1>3, Zenon DEF T!ResetSettings
  <2>4. Sound(table') /\ UNCHANGED plan
    BY <1>3, KeyFacts DEF T!ResetSettings, Sound
  <2>5. CommandsAreOrdered' /\ OncePerKey'
    BY <2>2, <2>3, <2>4 DEF WholeInv, CommandsAreOrdered, OncePerKey, OneSave, PathAndSwitch
  <2>6. OneIsAlone' /\ AloneEndsWell' /\ NowSound'
    BY <2>2, <2>3, <2>4 DEF OneIsAlone, AloneEndsWell, NowSound, Fine, Sound
  <2> QED
    BY <2>5, <2>6 DEF WholeInv
<1>4. ASSUME NEW f \in Form, T!Open(f) \/ TurnedAway(f) PROVE WholeInv'
  BY <1>1, <1>4 DEF T!Open, TurnedAway, T!tableVars, TableTyped
<1>5. ASSUME NEW p \in T!Process, KeyMoves(p) PROVE WholeInv'
  BY <1>1, <1>5 DEF KeyMoves, T!ReadKey, T!MissesKey, T!MintKey, T!RenameKey, T!KeyError,
     T!tableVars, T!writerVars
<1>6. CASE UNCHANGED tableVars
  BY <1>1, <1>6 DEF tableVars
<1> QED
  BY <1>2, <1>3, <1>4, <1>5, <1>6, TableActs, SoundCase1, SoundCase2, SoundCase3

-----------------------------------------------------------------------------

LEMMA TableBegins ==
    Init => TableTyped /\ NothingMaskedIsRead /\ KeyIsOne /\ LastWordInv /\ WholeInv
<1> SUFFICES ASSUME T!Init
             PROVE TableTyped /\ NothingMaskedIsRead /\ KeyIsOne /\ LastWordInv /\ WholeInv
  BY DEF Init
<1> DEFINE b == CHOOSE x \in Bot : TRUE
<1>1. b \in Bot
  BY WriterFacts
<1>2. table \in {T!Default, [T!Default EXCEPT !["tgBotToken"] = b]}
  BY DEF T!Init
<1> HIDE DEF b
<1>3. table \in Whole /\ Sound(table)
  BY <1>1, <1>2, DefaultIsWhole, KeyFacts DEF Whole, Sound, Content
<1>4. <<>> \in SaveSeq /\ DOMAIN <<>> = {}
  BY DEF SaveSeq
<1>5. T!Default["tgBotToken"] = "blank" /\ T!Blank = "blank" /\ T!Process = {"panel", "cli"}
  BY KeyFacts, WriterFacts
<1>6. TableTyped /\ NothingMaskedIsRead
  <2>1. /\ table \in Whole /\ meant \in Whole /\ copy \in [T!Writer -> Whole]
        /\ plan \in [T!Writer -> SaveSeq] /\ NothingMaskedIsRead
    BY <1>3, <1>4, <1>5, DefaultIsWhole DEF NothingMaskedIsRead, T!Init
  <2>2. seeds \in Nat /\ 0 \in 0..seeds /\ seeds \in 0..seeds
    BY DEF T!Init
  <2>3. /\ seal \in 0..seeds /\ keyfile \in 0..seeds /\ tmp \in 0..seeds
        /\ held \in [T!Process -> 0..seeds]
        /\ loading \in [T!Process -> {"no", "mint", "rename", "error"}]
    BY <2>2, WriterFacts DEF T!Init
  <2>4. /\ named \in [T!Writer -> SUBSET T!Key] /\ overtaken \in [Form -> SUBSET T!Key]
        /\ wpc \in [T!Writer -> {"idle", "open", "saving", "done", "refused"}]
        /\ alone \in [T!Writer -> BOOLEAN]
        /\ lost \subseteq T!Key /\ torn \in BOOLEAN /\ blanked \in BOOLEAN /\ clashed \in BOOLEAN
        /\ \A w \in T!Writer : wpc[w] = "saving" <=> plan[w] # <<>>
    BY DEF T!Init
  <2> QED
    BY <2>1, <2>2, <2>3, <2>4 DEF TableTyped
<1>7. KeyIsOne
  BY <1>5, WriterFacts DEF KeyIsOne, T!Init
<1>8. LastWordInv /\ WholeInv
  BY <1>3, <1>4, WriterFacts
     DEF LastWordInv, CopiesAreKnown, SavesAreKnown, LastWord, WholeInv, CommandsAreOrdered, OncePerKey,
         Distinct, OneIsAlone, AloneEndsWell, NowSound, Fine, T!Init
<1> QED
  BY <1>6, <1>7, <1>8

LEMMA TableIsSafe == Spec => [](T!TypeOK /\ LastWordHolds /\ WholeSettingsAreSound)
<1> DEFINE Inv == /\ TableTyped /\ NothingMaskedIsRead /\ KeyIsOne
                  /\ LastWordInv /\ WholeInv
<1>1. Inv /\ [Next]_vars => Inv'
  BY TablePart, TypesHold, KeyIsOneHolds, LastWordHoldsOn, WholeHolds
<1>2. TableTyped => T!TypeOK
  <2> SUFFICES ASSUME TableTyped PROVE T!TypeOK
    OBVIOUS
  <2>1. \A w \in T!Writer : \A i \in DOMAIN plan[w] :
            plan[w][i].key \in T!Key /\ plan[w][i].value \in T!Values(plan[w][i].key)
    BY SaveEntry DEF TableTyped
  <2> QED
    BY <2>1, KeyFacts, WriterFacts DEF TableTyped, T!TypeOK, Whole
<1>3. KeyIsOne /\ LastWordInv /\ TableTyped => LastWordHolds
  BY KeyFacts, WriterFacts DEF KeyIsOne, LastWordInv, LastWord, LastWordHolds, T!LastWordHolds
<1>4. WholeInv => WholeSettingsAreSound
  BY KeyFacts DEF WholeInv, NowSound, Fine, Sound, WholeSettingsAreSound, T!WholeSettingsAreSound
<1>5. Init => Inv
  BY TableBegins
<1> HIDE DEF Inv
<1>6. Inv => T!TypeOK /\ LastWordHolds /\ WholeSettingsAreSound
  BY <1>2, <1>3, <1>4 DEF Inv
<1> QED
  BY <1>1, <1>5, <1>6, PTL DEF Spec

-----------------------------------------------------------------------------
(* The types of the whole                                                   *)

LEMMA TokenIsTyped == Spec => []S!TypeOK
<1>1. Init => SP!Init
  BY DEF Init, S!Init, SP!Init, S!NewToken, SP!NewToken, S!Blank, SP!Blank, S!Miss, SP!Miss
<1>2. SP!CacheConstants
  BY AccessConstants DEF S!CacheConstants, SP!CacheConstants, S!Blank, SP!Blank,
     S!Absent, SP!Absent, S!Miss, SP!Miss
<1>3. SP!CacheSpec => []SP!TypeOK
  BY <1>2, SP!CacheIsTyped
<1>4. SP!TypeOK => S!TypeOK
  BY DEF S!TypeOK, SP!TypeOK, S!Value, SP!Value, S!Blank, SP!Blank, S!Absent, SP!Absent,
         S!Miss, SP!Miss
<1> QED BY <1>1, <1>3, <1>4, TokenPart, PTL DEF Spec, SP!CacheSpec

LEMMA LoginIsTyped == Spec => []L!TypeOK
<1>1. Init => LP!Init
  BY DEF Init, L!Init, LP!Init, L!Key, LP!Key, L!NoRecord, LP!NoRecord
<1>2. LP!LoginConstants
  BY AccessConstants DEF L!LoginConstants, LP!LoginConstants, L!IsFiniteSet, LP!IsFiniteSet
<1>3. LP!LoginSpec => []LP!TypeOK
  BY <1>2, LP!LoginIsTyped
<1>4. LP!TypeOK => L!TypeOK
  BY DEF L!TypeOK, LP!TypeOK, L!Users, LP!Users, L!Key, LP!Key, L!Record, LP!Record, L!Forms, LP!Forms
<1> QED BY <1>1, <1>3, <1>4, LoginPart, PTL DEF Spec, LP!LoginSpec

Counters ==
    /\ part \in {"login", "token", "api", "log", "start", "settings"}
    /\ calls \in 0..MaxCalls /\ restarts \in 0..MaxRestarts

LEMMA CountersHold == Counters /\ [Next]_vars => Counters'
<1> SUFFICES ASSUME Counters, [Next]_vars PROVE Counters'
  OBVIOUS
<1>1. MaxCalls \in Nat /\ MaxRestarts \in Nat
  BY AccessConstants
<1>2. CASE UNCHANGED vars
  BY <1>2 DEF vars, Counters
<1> SUFFICES ASSUME Next PROVE Counters'
  BY <1>2
<1>3. UNCHANGED part
  BY DEF Next, ApiCall, ApiStep, Login, LoginStep, UpdateUser, ChangeStep, Consume, VisitStep,
     MakeLink, CommandLine, Time, Tokens, Request, BesideCalls, Record, BesideLog, Starting, Setup,
     RunCommand, Write, SaveStep, KeyStep, Restart, OfToken, OfLogin, OfApi, OfLog, OfStart, OfTable
<1>4. \/ UNCHANGED <<calls, restarts>>
      \/ calls < MaxCalls /\ calls' = calls + 1 /\ UNCHANGED restarts
      \/ restarts < MaxRestarts /\ restarts' = restarts + 1 /\ UNCHANGED calls
  BY DEF Next, ApiCall, ApiStep, Login, LoginStep, UpdateUser, ChangeStep, Consume, VisitStep,
     MakeLink, CommandLine, Time, Tokens, Request, BesideCalls, Record, BesideLog, Starting, Setup,
     RunCommand, Write, SaveStep, KeyStep, Restart, Called, Within
<1> QED BY <1>1, <1>3, <1>4 DEF Counters

-----------------------------------------------------------------------------
(* The theorems                                                             *)

\* setting.go:38-40: whatever requests, commands and restarts come, the cache
\* holds what the table holds while no writer is about to invalidate it.
THEOREM CacheFollowsTheRow == Spec => []CacheIsTheRow
BY TokenIsSafe, PTL

\* v1.go:860: a token that a rotation has replaced is refused for good.
THEOREM RotatedStaysRefused == Spec => []RotatedIsRefused
BY TokenIsSafe, PTL

\* base.go:16-21, session.go:25-28: a cookie does not outlive a change of the
\* password, whichever login had checked the old one by then.
THEOREM SessionsEnd == Spec => []NoStaleSession
BY LoginIsSafe, PTL

\* magic.go:84-85: a link lets one visit in, however many present it.
THEOREM LinksWorkOnce == Spec => []OneLoginPerLink
BY LoginIsSafe, PTL

\* index.go:17-19: at the threshold only what was under way is added.
THEOREM GuessesAreBounded == Spec => []ThrottleHolds
BY LoginIsSafe, PTL

\* apilog.go:38-42, 67-112: the access log of the panel is an audit log.
THEOREM AccessIsAudited == Spec => AuditedOnce
BY LogIsSafe, PTL

\* token.go:156-161: a call that comes with a token revoked, deleted or expired
\* by then never reaches its handler, whatever the flusher writes to that row.
THEOREM RevokedStaysOut == Spec => []RevokedIsRefused
BY ApiIsSafe, PTL

\* ratelimit.go:11-13: in no window of time does a token get more calls through
\* than a full bucket and what refills meanwhile, whatever the order of the calls
\* at the lock and whenever the GC runs, if a bucket it drops would be full again.
THEOREM BudgetIsKept == Spec => []BudgetHolds
BY ApiIsSafe, PTL

\* migrations.go:76-85, 191-193, main.go:92-94: an upgrade that is recorded has
\* hashed each token once, whichever processes died at whichever step.
THEOREM UpgradesAreWhole == Spec => []UpgradeIsWhole
BY StartIsSafe, PTL

\* docs/API.md:196, setting.go:574-576: for any number of forms and a command
\* beside them a setting holds what was last asked for it, but for a form opened
\* before that request that sends its copy back; and the next panel can read the
\* secrets, but for a key that two processes made at once or one made again because
\* it could not read it.
THEOREM LastWordIsKept == Spec => []LastWordHolds
BY TableIsSafe, PTL

\* entity.go:79-84, 105-109: settings that nobody is writing let the panel load
\* its certificate and have a path for an entry that is on, unless the last save
\* was mixed with another or cut short, or a command has set the path to blanks.
THEOREM WholeIsSound == Spec => []WholeSettingsAreSound
BY TableIsSafe, PTL

\* Every part keeps its types.
THEOREM AccessIsTyped == Spec => []TypeOK
<1>1. Init => Counters
  BY AccessConstants DEF Init, Counters
<1>2. Counters /\ S!TypeOK /\ L!TypeOK /\ A!TypeOK /\ G!TypeOK /\ B!TypeOK /\ T!TypeOK => TypeOK
  BY DEF Counters, TypeOK
<1> QED
  BY <1>1, <1>2, CountersHold, TokenIsTyped, LoginIsTyped, LogIsSafe, ApiIsSafe, StartIsSafe,
     TableIsSafe, PTL DEF Spec
=============================================================================
