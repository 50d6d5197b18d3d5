----------------------------- MODULE SettingCache ----------------------------
(***************************************************************************)
(* One setting behind its cache, the API token of old installs:            *)
(*   web/service/setting.go            getString, saveSetting and the      *)
(*                                     cache, EnsureAPIToken               *)
(*   web/controller/api/v1.go          rotateAPIToken                      *)
(*   web/controller/api/middleware.go  AuthMiddleware, for a token that    *)
(*                                     api_tokens does not know            *)
(*   main.go                           the CLI, a process of its own       *)
(*                                                                         *)
(* Blank is "", which is also the default of a setting that has no row.    *)
(* Encryption is left out: the cache and the row hold the same plaintext.  *)
(***************************************************************************)
EXTENDS Naturals, FiniteSets

CONSTANTS
    Query,          \* requests: each authenticates, or rotates, once
    Token

Blank == "blank"
Absent == "absent"
Miss == "miss"
Value == Token \cup {Blank, Absent}

VARIABLES
    row,            \* the row of apiToken, Absent if there is none
    cache,          \* settingCache["apiToken"]
    qpc, phase,     \* a request: where it is, and in which call
    shown,          \* the token a request presents
    got,            \* the row it has read
    exists,         \* saveSetting has found a row
    minted,         \* tokens that exist
    replaced,       \* history: the token a rotation has cleared
    retired,        \* history: tokens replaced by rotations that returned
    tardy,          \* history: requests that present a token already retired
    stale,          \* history: requests whose row has been written since
    raced,          \* history: such a row was put into the cache
    outside         \* history: another process has written

CacheConstants == Token \cap {Blank, Absent, Miss} = {} /\ Token # {}

settingVars == <<row, cache, qpc, phase, shown, got, exists, minted, replaced,
                 retired, tardy, stale, raced, outside>>

TypeOK ==
    /\ row \in Value /\ cache \in Value \cup {Miss}
    /\ qpc \in [Query -> {"idle", "find", "write", "drop", "lookup", "read", "fill",
                          "accepted", "refused", "returned", "failed"}]
    /\ phase \in [Query -> {"auth", "clear", "ensure", "mint"}]
    /\ shown \in [Query -> Token \cup {Blank}]
    /\ got \in [Query -> Value]
    /\ exists \in [Query -> BOOLEAN]
    /\ row \in minted \cup {Blank, Absent} /\ minted \subseteq Token
    /\ replaced \in [Query -> Value]
    /\ retired \subseteq minted
    /\ tardy \subseteq Query /\ stale \subseteq {q \in Query : qpc[q] = "fill"}
    /\ raced \in BOOLEAN /\ outside \in BOOLEAN

\* random.Seq(48): one that was never there.
NewToken(known) == CHOOSE t \in Token : t \notin known

Init ==
    /\ row = NewToken({}) /\ minted = {row}
    /\ cache = Miss
    /\ qpc = [q \in Query |-> "idle"] /\ phase = [q \in Query |-> "auth"]
    /\ shown = [q \in Query |-> Blank] /\ got = [q \in Query |-> Blank]
    /\ exists = [q \in Query |-> FALSE] /\ replaced = [q \in Query |-> Blank]
    /\ retired = {} /\ tardy = {} /\ stale = {}
    /\ raced = FALSE /\ outside = FALSE

Goes(q, from, to) == qpc[q] = from /\ qpc' = [qpc EXCEPT ![q] = to]

\* What getString returns for an entry or a row.
Effective(v) == IF v = Absent THEN Blank ELSE v

\* rotateAPIToken returns.
Retire(q) == retired' = retired \cup ({replaced[q]} \cap Token)

-----------------------------------------------------------------------------
(* The calls                                                                *)

Begins(q, call, at) ==
    /\ Goes(q, "idle", at)
    /\ phase' = [phase EXCEPT ![q] = call]
    /\ UNCHANGED <<row, cache, got, exists, minted, replaced, retired, stale, raced, outside>>

Authenticate(q, t) ==
    /\ t \in minted
    /\ Begins(q, "auth", "lookup")
    /\ shown' = [shown EXCEPT ![q] = t]
    /\ tardy' = IF t \in retired THEN tardy \cup {q} ELSE tardy

\* SetAPIToken(""), then EnsureAPIToken.
Rotate(q) == Begins(q, "clear", "find") /\ UNCHANGED <<shown, tardy>>

\* A new Server, after SIGHUP.
EnsureAPIToken(q) == Begins(q, "ensure", "lookup") /\ UNCHANGED <<shown, tardy>>

-----------------------------------------------------------------------------
(* getString                                                                *)

\* What the caller does with the value.
Resolve(q, v) ==
    CASE phase[q] = "auth" ->
             /\ qpc' = [qpc EXCEPT ![q] = IF v = shown[q] THEN "accepted" ELSE "refused"]
             /\ UNCHANGED <<phase, retired>>
      [] phase[q] = "ensure" /\ v # Blank ->
             /\ qpc' = [qpc EXCEPT ![q] = "returned"]
             /\ Retire(q)
             /\ UNCHANGED phase
      [] OTHER ->
             /\ qpc' = [qpc EXCEPT ![q] = "find"]
             /\ phase' = [phase EXCEPT ![q] = "mint"]
             /\ UNCHANGED retired

Lookup(q) ==
    /\ qpc[q] = "lookup"
    /\ IF cache = Miss
       THEN qpc' = [qpc EXCEPT ![q] = "read"] /\ UNCHANGED <<phase, retired>>
       ELSE Resolve(q, Effective(cache))
    /\ UNCHANGED <<row, cache, shown, got, exists, minted, replaced, tardy, stale, raced, outside>>

ReadRow(q) ==
    /\ Goes(q, "read", "fill")
    /\ got' = [got EXCEPT ![q] = row]
    /\ UNCHANGED <<row, cache, phase, shown, exists, minted, replaced, retired, tardy,
                   stale, raced, outside>>

\* settingCachePut, of what was read a moment ago.
Fill(q) ==
    /\ qpc[q] = "fill"
    /\ cache' = got[q]
    /\ raced' = (raced \/ q \in stale)
    /\ stale' = stale \ {q}
    /\ Resolve(q, Effective(got[q]))
    /\ UNCHANGED <<row, shown, got, exists, minted, replaced, tardy, outside>>

-----------------------------------------------------------------------------
(* saveSetting                                                              *)

Find(q) ==
    /\ Goes(q, "find", "write")
    /\ exists' = [exists EXCEPT ![q] = (row # Absent)]
    /\ UNCHANGED <<row, cache, phase, shown, got, minted, replaced, retired, tardy,
                   stale, raced, outside>>

\* Save, or Create; a second row of the key is never read before the first,
\* and a rotation that adds one has cleared nothing.
Stored(q, v) == IF ~exists[q] /\ row # Absent THEN row ELSE v

WriteValue(q, v) ==
    /\ row' = Stored(q, v)
    /\ replaced' = IF phase[q] = "clear" /\ row' = v THEN [replaced EXCEPT ![q] = row] ELSE replaced
    /\ stale' = stale \cup {x \in Query : qpc[x] = "fill"}
    /\ UNCHANGED <<cache, phase, shown, got, exists, retired, tardy, raced, outside>>

Clear(q) ==
    /\ phase[q] = "clear"
    /\ Goes(q, "write", "drop")
    /\ WriteValue(q, Blank)
    /\ UNCHANGED minted

Mint(q) ==
    /\ phase[q] = "mint"
    /\ Goes(q, "write", "drop")
    /\ minted # Token
    /\ WriteValue(q, NewToken(minted))
    /\ minted' = minted \cup {NewToken(minted)}

\* The caller gets an error; what was cleared stays cleared.
WriteFails(q) ==
    /\ Goes(q, "write", "failed")
    /\ UNCHANGED <<row, cache, phase, shown, got, exists, minted, replaced, retired,
                   tardy, stale, raced, outside>>

\* What follows a save that has succeeded.
Saved(q) ==
    IF phase[q] = "clear"
    THEN /\ qpc' = [qpc EXCEPT ![q] = "lookup"]
         /\ phase' = [phase EXCEPT ![q] = "ensure"]
         /\ UNCHANGED retired
    ELSE /\ qpc' = [qpc EXCEPT ![q] = "returned"]
         /\ Retire(q)
         /\ UNCHANGED phase

\* Mutant: the entry is dropped for a value, not when the setting is cleared.
InvalidateMinted(q) ==
    /\ qpc[q] = "drop"
    /\ cache' = IF phase[q] = "mint" THEN Miss ELSE cache
    /\ Saved(q)
    /\ UNCHANGED <<row, shown, got, exists, minted, replaced, tardy, stale, raced, outside>>

\* Mutant: only a setting that is cleared is dropped.
InvalidateCleared(q) ==
    /\ qpc[q] = "drop"
    /\ cache' = IF phase[q] = "clear" THEN Miss ELSE cache
    /\ Saved(q)
    /\ UNCHANGED <<row, shown, got, exists, minted, replaced, tardy, stale, raced, outside>>

\* settingCacheInvalidate
Invalidate(q) ==
    /\ qpc[q] = "drop"
    /\ cache' = Miss
    /\ Saved(q)
    /\ UNCHANGED <<row, shown, got, exists, minted, replaced, tardy, stale, raced, outside>>

-----------------------------------------------------------------------------
(* Other processes                                                          *)

\* `setting -reset` on the command line: the cache it resets is its own.
ResetSettings ==
    /\ row # Absent
    /\ row' = Absent
    /\ stale' = stale \cup {q \in Query : qpc[q] = "fill"}
    /\ outside' = TRUE
    /\ UNCHANGED <<cache, qpc, phase, shown, got, exists, minted, replaced, retired, tardy, raced>>

\* The panel starts afresh: Start ensures a token before it serves requests.
Restarted ==
    /\ IF row \in Token
       THEN UNCHANGED <<row, minted>> /\ cache' = row
       ELSE /\ minted # Token
            /\ cache' = Miss
            /\ row' = NewToken(minted) /\ minted' = minted \cup {row'}
    /\ qpc' = [q \in Query |-> IF qpc[q] = "idle" THEN "idle" ELSE "failed"]
    /\ stale' = {} /\ raced' = FALSE /\ outside' = FALSE
    /\ UNCHANGED <<phase, shown, got, exists, replaced, retired, tardy>>

Step(q) ==
    \/ Lookup(q) \/ ReadRow(q) \/ Fill(q)
    \/ Find(q) \/ Clear(q) \/ Mint(q) \/ WriteFails(q) \/ Invalidate(q)

CacheNext ==
    \/ \E q \in Query : Rotate(q) \/ EnsureAPIToken(q) \/ Step(q) \/ \E t \in Token : Authenticate(q, t)
    \/ ResetSettings \/ Restarted
CacheSpec == Init /\ [][CacheNext]_settingVars

-----------------------------------------------------------------------------

\* setting.go:38-40: the cache holds what the table holds, while no writer is
\* about to invalidate it; but for the one race of Fill (setting.go:74-75
\* promises that "the next read sees the new value"), and for the CLI.
CacheIsTheRow ==
    \/ raced \/ outside
    \/ cache \in {Miss, row}
    \/ \E q \in Query : qpc[q] = "drop"

\* v1.go:860: a token that a rotation has replaced is refused by every
\* request that comes after the rotation has returned.
RotatedIsRefused ==
    raced \/ outside \/ \A q \in tardy : qpc[q] # "accepted"
=============================================================================
