------------------------------- MODULE ApiAccess ------------------------------
(***************************************************************************)
(* A call of /api/v1 on its way through the middleware, and what runs      *)
(* beside it:                                                              *)
(*   web/controller/api/middleware.go  AuthMiddleware, RequireScope        *)
(*   web/controller/api/ratelimit.go   the token buckets and their GC      *)
(*   web/service/token.go              api_tokens, the batches of          *)
(*                                     last_used_at, without the times     *)
(*                                                                         *)
(* A token is its row's id (AUTOINCREMENT: never given twice).  The old    *)
(* single token, for which AuthMiddleware looks next, is SettingCache's.   *)
(* A tick of the clock is a second, and the bucket's refill per tick a     *)
(* whole number.                                                           *)
(***************************************************************************)
EXTENDS Integers, FiniteSets

CONSTANTS
    Call, Id,
    Burst, Refill,  \* 30 and 10 in the code
    Idle,           \* ticks after which a bucket is dropped: 10 minutes
    Stall,          \* bound on the ticks between a call's time.Now and its lock
    MaxClock        \* bound

VARIABLES
    clock,
    token,          \* api_tokens: [Id -> "none" | "live" | "expired" | "revoked" | "deleted"]
    pending, batch, \* the ids of touchPending, and what the flusher is writing
    bucket,         \* the rate limiter
    pc, by, at,     \* a call: where it is, its token, the time it has read
    barred,         \* history: calls that came with a token refused from then on
    granted,        \* history: calls the present limiter has let through
    older,          \* calls whose limiter a reload has replaced
    served          \* history: calls that reached their handler

callVars == <<pc, by, at, barred, granted, older, served>>
tokenVars == <<token, pending, batch>>
vars == <<clock, tokenVars, bucket, callVars>>

Never == -1
NoBucket == [tokens |-> 0, last |-> Never]
Time == 0..MaxClock

TypeOK ==
    /\ clock \in Time
    /\ token \in [Id -> {"none", "live", "expired", "revoked", "deleted"}]
    /\ pending \subseteq Id /\ batch \subseteq Id
    /\ \A i \in Id : /\ bucket[i].last \in Time \cup {Never}
                     /\ bucket[i].tokens \in Int /\ bucket[i].tokens <= Burst
    /\ pc \in [Call -> {"idle", "find", "limit", "done"}]
    /\ by \in [Call -> Id] /\ at \in [Call -> Time]
    /\ barred \subseteq Call /\ granted \subseteq Call /\ older \subseteq Call
    /\ served \subseteq Call

Init ==
    /\ clock = 0
    /\ token = [i \in Id |-> "none"]
    /\ pending = {} /\ batch = {}
    /\ bucket = [i \in Id |-> NoBucket]
    /\ pc = [c \in Call |-> "idle"] /\ by = [c \in Call |-> CHOOSE i \in Id : TRUE] /\ at = [c \in Call |-> 0]
    /\ barred = {} /\ granted = {} /\ older = {} /\ served = {}

-----------------------------------------------------------------------------
(* The handlers of api_tokens, each one statement                           *)

Becomes(i, states, state) ==
    /\ token[i] \in states
    /\ token' = [token EXCEPT ![i] = state]
    /\ UNCHANGED <<clock, pending, batch, bucket, callVars>>

CreateToken ==
    \E i \in Id : /\ \A j \in Id : j < i => token[j] # "none"
                  /\ Becomes(i, {"none"}, "live")
RevokeToken(i) == Becomes(i, {"live", "expired"}, "revoked")
DeleteToken(i) == Becomes(i, {"live", "expired", "revoked"}, "deleted")
ExpireToken(i) == Becomes(i, {"live"}, "expired")

-----------------------------------------------------------------------------
(* A call                                                                   *)

Goes(c, from, to) == pc[c] = from /\ pc' = [pc EXCEPT ![c] = to]

Arrive(c, i) ==
    /\ Goes(c, "idle", "find")
    /\ token[i] # "none"
    /\ by' = [by EXCEPT ![c] = i]
    /\ barred' = IF token[i] = "live" THEN barred ELSE barred \cup {c}
    /\ UNCHANGED <<clock, tokenVars, bucket, at, granted, older, served>>

\* FindActiveByValue, TouchLastUsed (a map insert) and the limiter's time.Now:
\* what comes between them has no effect on the call.
FindActive(c) ==
    LET live == token[by[c]] = "live" IN
    /\ Goes(c, "find", IF live THEN "limit" ELSE "done")
    /\ pending' = IF live THEN pending \cup {by[c]} ELSE pending
    /\ at' = IF live THEN [at EXCEPT ![c] = clock] ELSE at
    /\ UNCHANGED <<clock, token, batch, bucket, by, barred, granted, older, served>>

FindFails(c) ==
    /\ Goes(c, "find", "done")
    /\ UNCHANGED <<clock, tokenVars, bucket, by, at, barred, granted, older, served>>

\* Mutant: no cap.
Hoarded(b, now) == b.tokens + (now - b.last) * Refill

Refilled(b, now) ==
    LET full == b.tokens + (now - b.last) * Refill
    IN  IF full > Burst THEN Burst ELSE full

\* The bucket after a call at `now`, and whether it may pass.
Taken(b, now) ==
    IF b = NoBucket THEN [ok |-> TRUE, tokens |-> Burst - 1]
    ELSE [ok |-> Refilled(b, now) >= 1,
          tokens |-> Refilled(b, now) - (IF Refilled(b, now) >= 1 THEN 1 ELSE 0)]

\* RequireScope, and the handler for those it lets through.
Handle(c) == served' = served \cup {c} \/ UNCHANGED served

Allow(c) ==
    LET t == Taken(bucket[by[c]], at[c]) IN
    /\ c \notin older
    /\ Goes(c, "limit", "done")
    /\ bucket' = [bucket EXCEPT ![by[c]] = [tokens |-> t.tokens, last |-> at[c]]]
    /\ IF t.ok THEN granted' = granted \cup {c} /\ Handle(c)
               ELSE UNCHANGED <<granted, served>>
    /\ UNCHANGED <<clock, tokenVars, by, at, barred, older>>

\* The limiter of a server that was replaced says yes or no.
AllowOlder(c) ==
    /\ c \in older
    /\ Goes(c, "limit", "done")
    /\ Handle(c)
    /\ UNCHANGED <<clock, tokenVars, bucket, by, at, barred, granted, older>>

-----------------------------------------------------------------------------
(* The flusher of last_used_at                                              *)

\* flushTouchBatch takes the map.
TakeTouches ==
    /\ batch = {} /\ pending # {}
    /\ batch' = pending /\ pending' = {}
    /\ UNCHANGED <<clock, token, bucket, callVars>>

\* Mutant: the rows are saved as the calls had found them.
SavesRow(ids) ==
    /\ ids # {}
    /\ batch' = batch \ ids
    /\ token' = [i \in Id |-> IF i \in ids THEN "live" ELSE token[i]]
    /\ UNCHANGED <<clock, pending, bucket, callVars>>

\* The ids touched in one second: an UPDATE of last_used_at alone, or an error
\* that is swallowed.
FlushTouches(ids) ==
    /\ ids # {}
    /\ batch' = batch \ ids
    /\ UNCHANGED <<clock, token, pending, bucket, callVars>>

-----------------------------------------------------------------------------
(* Time, the GC of the limiter, reload and restart                          *)

\* A call does not sleep between reading the time and its lock.
Tick ==
    /\ clock < MaxClock
    /\ \A c \in Call : pc[c] = "limit" => clock - at[c] < Stall
    /\ clock' = clock + 1
    /\ UNCHANGED <<tokenVars, bucket, callVars>>

\* gcLoop
Collect ==
    LET idle == {i \in Id : bucket[i] # NoBucket /\ bucket[i].last < clock - Idle} IN
    /\ idle # {}
    /\ bucket' = [i \in Id |-> IF i \in idle THEN NoBucket ELSE bucket[i]]
    /\ UNCHANGED <<clock, tokenVars, callVars>>

\* SIGHUP: a new V1Controller has a new limiter; Shutdown waits for nobody.
\* The map of token.go is the process's and stays.
Reloaded ==
    /\ bucket' = [i \in Id |-> NoBucket]
    /\ granted' = {}
    /\ older' = older \cup {c \in Call : pc[c] \in {"find", "limit"}}
    /\ UNCHANGED <<clock, tokenVars, pc, by, at, barred, served>>

Restarted ==
    /\ pending' = {} /\ batch' = {}
    /\ bucket' = [i \in Id |-> NoBucket]
    /\ granted' = {} /\ older' = {}
    /\ pc' = [c \in Call |-> IF pc[c] = "idle" THEN "idle" ELSE "done"]
    /\ UNCHANGED <<clock, token, by, at, barred, served>>

CallStep(c) == FindActive(c) \/ FindFails(c) \/ Allow(c) \/ AllowOlder(c)

Background ==
    \/ TakeTouches \/ (\E ids \in SUBSET batch : FlushTouches(ids))
    \/ Tick \/ Collect

-----------------------------------------------------------------------------

\* ratelimit.go:11-13: from any second to any later one a token gets no more
\* calls through than a full bucket and what runs in meanwhile, though calls
\* come to the lock in another order than they read the clock, and though the
\* GC forgets buckets.
BudgetHolds ==
    \A i \in Id : \A from \in Time : \A to \in from..MaxClock :
        Cardinality({c \in granted : by[c] = i /\ at[c] \in from..to})
            <= Burst + Refill * (to - from)

\* token.go:156-161: a call that comes with a token revoked, deleted or expired
\* by then never reaches its handler, whatever the flusher writes to that row.
RevokedIsRefused == barred \cap served = {}

=============================================================================
