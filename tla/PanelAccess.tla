------------------------------ MODULE PanelAccess ----------------------------
(***************************************************************************)
(* The ways into the panel together: the login of the browser (PanelLogin) *)
(* and the old API token (SettingCache); a call of /api/v1 (ApiAccess) and *)
(* its log (ApiLog); how the panel comes up (Startup); and who writes its  *)
(* settings (SettingTable).                                                *)
(*                                                                         *)
(* The parts share the process that is restarted and no state, so a        *)
(* behaviour moves one of them and the rest stays as it began.             *)
(***************************************************************************)
EXTENDS Integers, FiniteSets

CONSTANTS
    Query, Token,
    Attempt, Change, Visit, Link, Address, Name, Password, Threshold, MaxHashes,
    Cli,            \* whether the command line is used beside the panel
    MaxCalls,       \* bound on the calls of all kinds
    MaxRestarts,    \* bound
    Call, Id, Burst, Refill, Idle, Stall, MaxClock,
    Entry, LogThreshold, LogCap, Chunk,
    Panel, Command, OldToken, Client, MaxStarts,
    Form, Pem, Slug, Bot,
    MaxWriters      \* bound on the forms and commands that write settings

VARIABLES
    row, cache, qpc, phase, shown, got, exists, minted, replaced, retired, tardy,
    stale, raced, outside,
    user, hashes, era, undone, jar, throttle, visits, apc, form, seen, cpc, link,
    vpc, from, via, late, entered,
    clock, token, pending, batch, bucket, pc, by, at, barred, granted, older, served,
    ended, queue, writing, ticking, log, aged, plucked, gone,
    recorded, hashings, counters, account, port, issued, stage, step, todo, snap,
    missing, starts,
    table, seal, seeds, keyfile, tmp, held, loading, copy, plan, named, wpc, alone,
    overtaken, meant, lost, torn, blanked, clashed,
    part, calls, restarts

S == INSTANCE SettingCache
L == INSTANCE PanelLogin
A == INSTANCE ApiAccess
G == INSTANCE ApiLog
B == INSTANCE Startup
T == INSTANCE SettingTable

settingVars == <<row, cache, qpc, phase, shown, got, exists, minted, replaced,
                 retired, tardy, stale, raced, outside>>
loginVars == <<user, hashes, era, undone, jar, throttle, visits, apc, form, seen,
               cpc, link, vpc, from, via, late, entered>>
apiVars == <<clock, token, pending, batch, bucket, pc, by, at, barred, granted,
             older, served>>
logVars == <<ended, queue, writing, ticking, log, aged, plucked, gone>>
startVars == <<recorded, hashings, counters, account, port, issued, stage, step,
               todo, snap, missing, starts>>
tableVars == <<table, seal, seeds, keyfile, tmp, held, loading, copy, plan, named, wpc,
               alone, overtaken, meant, lost, torn, blanked, clashed>>
vars == <<settingVars, loginVars, apiVars, logVars, startVars, tableVars, part, calls, restarts>>

ASSUME AccessConstants ==
    /\ S!CacheConstants /\ L!LoginConstants
    /\ Cli \in BOOLEAN /\ MaxCalls \in Nat /\ MaxRestarts \in Nat
    /\ Burst \in Nat \ {0} /\ Refill \in Nat \ {0} /\ Stall \in Nat /\ MaxClock \in Nat
    /\ Id \subseteq Nat /\ Id # {}
    \* A bucket that is dropped would be full again, however late its next caller
    \* is and the last one was.
    /\ Idle \in Nat /\ (Idle + 1 - 2 * Stall) * Refill >= Burst
    /\ G!LogConstants
    /\ Panel \notin Command /\ OldToken \cap Client = {} /\ MaxStarts \in Nat
    /\ "cli" \notin Form /\ T!Blank \notin Pem \cup Slug \cup Bot
    /\ Bot # {} /\ MaxWriters \in Nat

TypeOK ==
    /\ S!TypeOK /\ L!TypeOK /\ A!TypeOK /\ G!TypeOK /\ B!TypeOK /\ T!TypeOK
    /\ part \in {"login", "token", "api", "log", "start", "settings"}
    /\ calls \in 0..MaxCalls /\ restarts \in 0..MaxRestarts

Init ==
    /\ S!Init /\ L!Init /\ A!Init /\ G!Init /\ B!Init /\ T!Init
    /\ calls = 0 /\ restarts = 0
    /\ part \in {"login", "token", "api", "log", "start", "settings"}
    /\ part # "login" => user.hash = 1
    /\ part # "start" => account /\ B!Tokens = {}
    /\ part # "settings" => table = T!Default /\ seeds = 0

\* A step of one part; the bounds are for its caller to count.
OfToken(X) ==
    /\ part = "token" /\ X
    /\ UNCHANGED <<loginVars, apiVars, logVars, startVars, tableVars, part>>
OfLogin(X) ==
    /\ part = "login" /\ X
    /\ UNCHANGED <<settingVars, apiVars, logVars, startVars, tableVars, part>>
OfApi(X) ==
    /\ part = "api" /\ X
    /\ UNCHANGED <<settingVars, loginVars, logVars, startVars, tableVars, part>>
OfLog(X) ==
    /\ part = "log" /\ X
    /\ UNCHANGED <<settingVars, loginVars, apiVars, startVars, tableVars, part>>
OfStart(X) ==
    /\ part = "start" /\ X
    /\ UNCHANGED <<settingVars, loginVars, apiVars, logVars, tableVars, part>>
OfTable(X) ==
    /\ part = "settings" /\ X
    /\ UNCHANGED <<settingVars, loginVars, apiVars, logVars, startVars, part>>

Called == calls < MaxCalls /\ calls' = calls + 1 /\ UNCHANGED restarts
Within == UNCHANGED <<calls, restarts>>

-----------------------------------------------------------------------------
(* The old token and the login                                              *)

ApiCall(q) ==
    Called /\ OfToken(S!Rotate(q) \/ S!EnsureAPIToken(q) \/ \E t \in Token : S!Authenticate(q, t))
ApiStep(q) == Within /\ OfToken(S!Step(q))

Login(a) == Called /\ OfLogin(\E f \in L!Forms : L!Login(a, f))
LoginStep(a) == Within /\ OfLogin(L!LoginStep(a))
UpdateUser(c) == Called /\ OfLogin(L!UpdateUser(c))
ChangeStep(c) == Within /\ OfLogin(L!ChangeStep(c))
Consume(v) == Called /\ OfLogin(\E a \in Address, l \in Link : L!Consume(v, a, l))
VisitStep(v) == Within /\ OfLogin(L!VisitStep(v))
MakeLink == Called /\ OfLogin(\E l \in Link : L!CreateMagicToken(l))
CommandLine == Cli /\ Called /\ (OfToken(S!ResetSettings) \/ OfLogin(L!UpdateFirstUser))
Time ==
    Within /\ OfLogin(L!TimePasses \/ L!PurgeOldMagicTokens \/ \E l \in Link : L!Expire(l))

-----------------------------------------------------------------------------
(* /api/v1, its log, and the start                                          *)

Tokens ==
    /\ Within
    /\ OfApi(A!CreateToken \/ \E i \in Id : A!RevokeToken(i) \/ A!DeleteToken(i) \/ A!ExpireToken(i))
Request(c) == Within /\ OfApi(A!CallStep(c) \/ \E i \in Id : A!Arrive(c, i))
BesideCalls == Within /\ OfApi(A!Background)

Record(c) == Within /\ OfLog(G!Record(c))
BesideLog == Within /\ OfLog(G!Background)

Starting(p) == Within /\ OfStart(B!Starting(p))
Setup == Within /\ OfStart(B!Setup)

-----------------------------------------------------------------------------
(* The settings                                                             *)

MayWrite(w) ==
    wpc[w] = "idle" => Cardinality({x \in T!Writer : wpc[x] # "idle"}) < MaxWriters

Write(f) == Within /\ OfTable(MayWrite(f) /\ T!Request(f))
RunCommand == Within /\ OfTable(MayWrite("cli") /\ T!RunCommand)
SaveStep(w) == Within /\ OfTable(T!SaveStep(w))
KeyStep(p) == Within /\ OfTable(T!KeyStep(p))

-----------------------------------------------------------------------------

\* For the bound a save or a key that failed counts as a restart.
Restart ==
    /\ restarts < MaxRestarts /\ restarts' = restarts + 1 /\ UNCHANGED calls
    /\ \/ OfToken(S!Restarted) \/ OfLogin(L!Restarted) \/ OfLog(G!Restarted)
       \/ OfApi(A!Restarted \/ A!Reloaded) \/ OfTable(T!Fails)

Next ==
    \/ \E q \in Query : ApiCall(q) \/ ApiStep(q)
    \/ \E a \in Attempt : Login(a) \/ LoginStep(a)
    \/ \E c \in Change : UpdateUser(c) \/ ChangeStep(c)
    \/ \E v \in Visit : Consume(v) \/ VisitStep(v)
    \/ MakeLink \/ CommandLine \/ Time
    \/ Tokens \/ (\E c \in Call : Request(c)) \/ BesideCalls
    \/ (\E c \in Entry : Record(c)) \/ BesideLog
    \/ (\E p \in {Panel} \cup Command : Starting(p)) \/ Setup
    \/ RunCommand \/ (\E f \in Form : Write(f))
    \/ (\E w \in T!Writer : SaveStep(w)) \/ (\E p \in T!Process : KeyStep(p))
    \/ Restart

Spec == Init /\ [][Next]_vars

-----------------------------------------------------------------------------

CacheIsTheRow == S!CacheIsTheRow
RotatedIsRefused == S!RotatedIsRefused
NoStaleSession == L!NoStaleSession
OneLoginPerLink == L!OneLoginPerLink
ThrottleHolds == L!ThrottleHolds
BudgetHolds == A!BudgetHolds
RevokedIsRefused == A!RevokedIsRefused
AuditedOnce == G!AuditedOnce
UpgradeIsWhole == B!UpgradeIsWhole
LastWordHolds == T!LastWordHolds
WholeSettingsAreSound == T!WholeSettingsAreSound
=============================================================================
