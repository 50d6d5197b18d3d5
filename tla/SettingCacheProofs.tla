-------------------------- MODULE SettingCacheProofs --------------------------
(***************************************************************************)
(* What SettingCache promises about the cache and about rotated tokens,    *)
(* for any number of requests and tokens.                                  *)
(*                                                                         *)
(* Both rest on who may put an old value into the cache: only a Fill whose *)
(* row has been written since it was read, which `stale` records.          *)
(***************************************************************************)
EXTENDS SettingCache, TLAPS

Excepted == raced \/ outside

\* The parts of the types that the argument needs.
Typed ==
    /\ qpc \in [Query -> {"idle", "find", "write", "drop", "lookup", "read", "fill",
                          "accepted", "refused", "returned", "failed"}]
    /\ phase \in [Query -> {"auth", "clear", "ensure", "mint"}]
    /\ row \in minted \cup {Blank, Absent} /\ minted \subseteq Token
    /\ got \in [Query -> Value]
    /\ replaced \in [Query -> Value] /\ shown \in [Query -> Token \cup {Blank}]
    /\ retired \subseteq minted /\ tardy \subseteq Query

\* Where a request is tells the call it is in.
Stages ==
    \A q \in Query :
        /\ qpc[q] \in {"lookup", "read", "fill"} => phase[q] \in {"auth", "ensure"}
        /\ qpc[q] \in {"find", "write", "drop"} => phase[q] \in {"clear", "mint"}
        /\ qpc[q] = "idle" => replaced[q] = Blank

\* What a Fill puts into the cache is the row, or known to be stale.
FillsAreFresh == \A q \in Query : qpc[q] = "fill" /\ q \notin stale => got[q] = row

\* A token that a rotation has cleared is never the row again.
ReplacedForGood ==
    /\ \A q \in Query : replaced[q] \in Token => replaced[q] \in minted /\ replaced[q] # row
    /\ row \notin retired

\* Once the rotation has invalidated the cache, it is not there either.
ReplacedIsUncached ==
    Excepted \/ /\ cache \notin retired
                /\ \A q \in Query : phase[q] \in {"ensure", "mint"} /\ replaced[q] \in Token
                                        => cache # replaced[q]

TardyShowRetired == \A q \in tardy : shown[q] \in retired /\ phase[q] = "auth" /\ qpc[q] # "idle"

IInv ==
    /\ Typed /\ Stages /\ FillsAreFresh /\ ReplacedForGood /\ ReplacedIsUncached
    /\ TardyShowRetired /\ CacheIsTheRow /\ RotatedIsRefused

LEMMA NewTokenIsNew ==
    ASSUME minted \subseteq Token, minted # Token
    PROVE  NewToken(minted) \in Token /\ NewToken(minted) \notin minted
BY DEF NewToken

\* What getString's caller does with the value, case by case.
LEMMA ResolveCases ==
    ASSUME NEW q \in Query, NEW v, Resolve(q, v)
    PROVE  \/ /\ phase[q] = "auth" /\ v = shown[q]
              /\ qpc' = [qpc EXCEPT ![q] = "accepted"] /\ UNCHANGED <<phase, retired>>
           \/ /\ phase[q] = "auth" /\ v # shown[q]
              /\ qpc' = [qpc EXCEPT ![q] = "refused"] /\ UNCHANGED <<phase, retired>>
           \/ /\ phase[q] = "ensure" /\ v # Blank
              /\ qpc' = [qpc EXCEPT ![q] = "returned"] /\ Retire(q) /\ UNCHANGED phase
           \/ /\ phase[q] # "auth"
              /\ qpc' = [qpc EXCEPT ![q] = "find"]
              /\ phase' = [phase EXCEPT ![q] = "mint"] /\ UNCHANGED retired
BY DEF Resolve

-----------------------------------------------------------------------------
(* Each step preserves the invariant                                        *)

LEMMA AuthenticateStep ==
    ASSUME CacheConstants, IInv, NEW q \in Query, NEW t \in Token, Authenticate(q, t)
    PROVE  IInv'
<1>1. Typed'
  BY DEF IInv, Typed, Authenticate, Begins, Goes
<1>2. Stages'
  BY DEF IInv, Typed, Stages, Authenticate, Begins, Goes
<1>3. FillsAreFresh'
  BY DEF IInv, Typed, FillsAreFresh, Authenticate, Begins, Goes
<1>4. ReplacedForGood'
  BY DEF IInv, Typed, ReplacedForGood, Authenticate, Begins, Goes
<1>5. ReplacedIsUncached'
  BY DEF IInv, Typed, ReplacedIsUncached, Excepted, Authenticate, Begins, Goes
<1>6. TardyShowRetired'
  BY DEF IInv, Typed, TardyShowRetired, Authenticate, Begins, Goes
<1>7. CacheIsTheRow'
  BY DEF IInv, Typed, CacheIsTheRow, Authenticate, Begins, Goes
<1>8. RotatedIsRefused'
  BY DEF IInv, Typed, TardyShowRetired, RotatedIsRefused, Authenticate, Begins, Goes
<1> QED BY <1>1, <1>2, <1>3, <1>4, <1>5, <1>6, <1>7, <1>8 DEF IInv

LEMMA RotateStep ==
    ASSUME CacheConstants, IInv, NEW q \in Query, Rotate(q)
    PROVE  IInv'
<1>1. Typed'
  BY DEF IInv, Typed, Rotate, Begins, Goes
<1>2. Stages'
  BY DEF IInv, Typed, Stages, Rotate, Begins, Goes
<1>3. FillsAreFresh'
  BY DEF IInv, Typed, FillsAreFresh, Rotate, Begins, Goes
<1>4. ReplacedForGood'
  BY DEF IInv, Typed, ReplacedForGood, Rotate, Begins, Goes
<1>5. ReplacedIsUncached'
  BY DEF IInv, Typed, ReplacedIsUncached, Excepted, Rotate, Begins, Goes
<1>6. TardyShowRetired'
  BY DEF IInv, Typed, TardyShowRetired, Rotate, Begins, Goes
<1>7. CacheIsTheRow'
  BY DEF IInv, Typed, CacheIsTheRow, Rotate, Begins, Goes
<1>8. RotatedIsRefused'
  BY DEF IInv, Typed, TardyShowRetired, RotatedIsRefused, Rotate, Begins, Goes
<1> QED BY <1>1, <1>2, <1>3, <1>4, <1>5, <1>6, <1>7, <1>8 DEF IInv

LEMMA EnsureStep ==
    ASSUME CacheConstants, IInv, NEW q \in Query, EnsureAPIToken(q)
    PROVE  IInv'
<1>1. Typed'
  BY DEF IInv, Typed, EnsureAPIToken, Begins, Goes
<1>2. Stages'
  BY DEF IInv, Typed, Stages, EnsureAPIToken, Begins, Goes
<1>3. FillsAreFresh'
  BY DEF IInv, Typed, FillsAreFresh, EnsureAPIToken, Begins, Goes
<1>4. ReplacedForGood'
  BY DEF IInv, Typed, ReplacedForGood, EnsureAPIToken, Begins, Goes
<1>5. ReplacedIsUncached'
  BY DEF IInv, Typed, ReplacedIsUncached, Excepted, EnsureAPIToken, Begins, Goes, Stages, CacheConstants
<1>6. TardyShowRetired'
  BY DEF IInv, Typed, TardyShowRetired, EnsureAPIToken, Begins, Goes
<1>7. CacheIsTheRow'
  BY DEF IInv, Typed, CacheIsTheRow, EnsureAPIToken, Begins, Goes
<1>8. RotatedIsRefused'
  BY DEF IInv, Typed, TardyShowRetired, RotatedIsRefused, EnsureAPIToken, Begins, Goes
<1> QED BY <1>1, <1>2, <1>3, <1>4, <1>5, <1>6, <1>7, <1>8 DEF IInv

LEMMA LookupStep == ASSUME CacheConstants, IInv, NEW q \in Query, Lookup(q) PROVE IInv'
<1>1. CASE cache = Miss
  <2>1. Typed'
    BY <1>1 DEF IInv, Typed, Lookup
  <2>2. Stages'
    BY <1>1 DEF IInv, Typed, Stages, Lookup
  <2>3. FillsAreFresh'
    BY <1>1 DEF IInv, Typed, FillsAreFresh, Lookup
  <2>4. ReplacedForGood'
    BY <1>1 DEF IInv, Typed, ReplacedForGood, Lookup
  <2>5. ReplacedIsUncached'
    BY <1>1 DEF IInv, Typed, ReplacedIsUncached, Excepted, Lookup
  <2>6. TardyShowRetired'
    BY <1>1 DEF IInv, Typed, TardyShowRetired, Lookup
  <2>7. CacheIsTheRow'
    BY <1>1 DEF IInv, Typed, CacheIsTheRow, Lookup
  <2>8. RotatedIsRefused'
    BY <1>1 DEF IInv, Typed, TardyShowRetired, RotatedIsRefused, Lookup
  <2> QED BY <2>1, <2>2, <2>3, <2>4, <2>5, <2>6, <2>7, <2>8 DEF IInv
<1>2. CASE cache # Miss
  <2> DEFINE v == Effective(cache)
  <2>1. Resolve(q, v) /\ qpc[q] = "lookup"
    BY <1>2 DEF Lookup
  <2>2. UNCHANGED <<row, cache, shown, got, exists, minted, replaced, tardy, stale, raced, outside>>
    BY DEF Lookup
  <2>3. \/ /\ phase[q] = "auth" /\ v = shown[q]
           /\ qpc' = [qpc EXCEPT ![q] = "accepted"] /\ UNCHANGED <<phase, retired>>
        \/ /\ phase[q] = "auth" /\ v # shown[q]
           /\ qpc' = [qpc EXCEPT ![q] = "refused"] /\ UNCHANGED <<phase, retired>>
        \/ /\ phase[q] = "ensure" /\ v # Blank
           /\ qpc' = [qpc EXCEPT ![q] = "returned"] /\ Retire(q) /\ UNCHANGED phase
        \/ /\ phase[q] # "auth"
           /\ qpc' = [qpc EXCEPT ![q] = "find"]
           /\ phase' = [phase EXCEPT ![q] = "mint"] /\ UNCHANGED retired
    BY <2>1, ResolveCases
  <2>11. Typed'
    BY <2>1, <2>2, <2>3 DEF IInv, Typed, Stages, ReplacedForGood, CacheConstants, Retire
  <2>12. Stages'
    BY <2>1, <2>2, <2>3 DEF IInv, Typed, Stages
  <2>13. FillsAreFresh'
    BY <2>1, <2>2, <2>3 DEF IInv, Typed, FillsAreFresh
  <2>14. ReplacedForGood'
    BY <2>1, <2>2, <2>3 DEF IInv, Typed, ReplacedForGood, Retire
  <2>15. ReplacedIsUncached'
    BY <2>1, <2>2, <2>3 DEF IInv, Typed, ReplacedIsUncached, Excepted, Stages, CacheConstants, Retire
  <2>16. TardyShowRetired'
    BY <2>1, <2>2, <2>3 DEF IInv, Typed, TardyShowRetired, Retire
  <2>17. CacheIsTheRow'
    BY <2>1, <2>2, <2>3 DEF IInv, Typed, CacheIsTheRow
  <2>18. RotatedIsRefused'
    BY <2>1, <2>2, <2>3 DEF IInv, Typed, TardyShowRetired, RotatedIsRefused, Stages, ReplacedIsUncached, Excepted, CacheConstants, Effective
  <2> QED BY <2>11, <2>12, <2>13, <2>14, <2>15, <2>16, <2>17, <2>18 DEF IInv
<1> QED BY <1>1, <1>2

LEMMA ReadStep ==
    ASSUME CacheConstants, IInv, NEW q \in Query, ReadRow(q)
    PROVE  IInv'
<1>1. Typed'
  BY DEF IInv, Typed, ReadRow, Goes, Value
<1>2. Stages'
  BY DEF IInv, Typed, Stages, ReadRow, Goes
<1>3. FillsAreFresh'
  BY DEF IInv, Typed, FillsAreFresh, ReadRow, Goes
<1>4. ReplacedForGood'
  BY DEF IInv, Typed, ReplacedForGood, ReadRow, Goes
<1>5. ReplacedIsUncached'
  BY DEF IInv, Typed, ReplacedIsUncached, Excepted, ReadRow, Goes
<1>6. TardyShowRetired'
  BY DEF IInv, Typed, TardyShowRetired, ReadRow, Goes
<1>7. CacheIsTheRow'
  BY DEF IInv, Typed, CacheIsTheRow, ReadRow, Goes
<1>8. RotatedIsRefused'
  BY DEF IInv, Typed, TardyShowRetired, RotatedIsRefused, ReadRow, Goes
<1> QED BY <1>1, <1>2, <1>3, <1>4, <1>5, <1>6, <1>7, <1>8 DEF IInv

LEMMA FillStep == ASSUME CacheConstants, IInv, NEW q \in Query, Fill(q) PROVE IInv'
<1> DEFINE v == Effective(got[q])
<1>1. /\ qpc[q] = "fill" /\ cache' = got[q] /\ stale' = stale \ {q}
      /\ raced' = (raced \/ q \in stale)
      /\ UNCHANGED <<row, shown, got, exists, minted, replaced, tardy, outside>>
  BY DEF Fill
<1>2. raced' \/ cache' = row
  BY <1>1 DEF IInv, FillsAreFresh
<1>3. \/ /\ phase[q] = "auth" /\ v = shown[q]
         /\ qpc' = [qpc EXCEPT ![q] = "accepted"] /\ UNCHANGED <<phase, retired>>
      \/ /\ phase[q] = "auth" /\ v # shown[q]
         /\ qpc' = [qpc EXCEPT ![q] = "refused"] /\ UNCHANGED <<phase, retired>>
      \/ /\ phase[q] = "ensure" /\ v # Blank
         /\ qpc' = [qpc EXCEPT ![q] = "returned"] /\ Retire(q) /\ UNCHANGED phase
      \/ /\ phase[q] # "auth"
         /\ qpc' = [qpc EXCEPT ![q] = "find"]
         /\ phase' = [phase EXCEPT ![q] = "mint"] /\ UNCHANGED retired
  BY ResolveCases DEF Fill
<1>4. Typed'
  BY <1>1, <1>2, <1>3 DEF IInv, Typed, Stages, ReplacedForGood, CacheConstants, Retire
<1>5. Stages'
  BY <1>1, <1>2, <1>3 DEF IInv, Typed, Stages
<1>6. FillsAreFresh'
  BY <1>1, <1>2, <1>3 DEF IInv, Typed, FillsAreFresh
<1>7. ReplacedForGood'
  BY <1>1, <1>2, <1>3 DEF IInv, Typed, ReplacedForGood, Retire
<1>8. ReplacedIsUncached'
  BY <1>1, <1>2, <1>3 DEF IInv, Typed, ReplacedIsUncached, Excepted, Stages, CacheConstants, Retire, ReplacedForGood
<1>9. TardyShowRetired'
  BY <1>1, <1>2, <1>3 DEF IInv, Typed, TardyShowRetired, Retire
<1>10. CacheIsTheRow'
  BY <1>1, <1>2, <1>3 DEF IInv, Typed, CacheIsTheRow
<1>11. RotatedIsRefused'
  <2> SUFFICES ASSUME ~raced', ~outside', NEW x \in tardy'
               PROVE  qpc'[x] # "accepted"
    BY DEF RotatedIsRefused
  <2>1. ~raced /\ ~outside /\ got[q] = row /\ x \in tardy
    BY <1>1, <1>2
  <2>2. v \notin retired
    BY <2>1 DEF IInv, Typed, ReplacedForGood, CacheConstants, Effective
  <2>3. qpc[x] # "accepted" /\ shown[x] \in retired
    BY <2>1 DEF IInv, RotatedIsRefused, TardyShowRetired
  <2> QED BY <1>1, <1>3, <2>2, <2>3 DEF IInv, Typed
<1> QED BY <1>4, <1>5, <1>6, <1>7, <1>8, <1>9, <1>10, <1>11 DEF IInv

LEMMA FindStep ==
    ASSUME CacheConstants, IInv, NEW q \in Query, Find(q)
    PROVE  IInv'
<1>1. Typed'
  BY DEF IInv, Typed, Find, Goes
<1>2. Stages'
  BY DEF IInv, Typed, Stages, Find, Goes
<1>3. FillsAreFresh'
  BY DEF IInv, Typed, FillsAreFresh, Find, Goes
<1>4. ReplacedForGood'
  BY DEF IInv, Typed, ReplacedForGood, Find, Goes
<1>5. ReplacedIsUncached'
  BY DEF IInv, Typed, ReplacedIsUncached, Excepted, Find, Goes
<1>6. TardyShowRetired'
  BY DEF IInv, Typed, TardyShowRetired, Find, Goes
<1>7. CacheIsTheRow'
  BY DEF IInv, Typed, CacheIsTheRow, Find, Goes
<1>8. RotatedIsRefused'
  BY DEF IInv, Typed, TardyShowRetired, RotatedIsRefused, Find, Goes
<1> QED BY <1>1, <1>2, <1>3, <1>4, <1>5, <1>6, <1>7, <1>8 DEF IInv

LEMMA ClearStep ==
    ASSUME CacheConstants, IInv, NEW q \in Query, Clear(q)
    PROVE  IInv'
<1>1. Typed'
  BY DEF IInv, Typed, Clear, Goes, WriteValue, Stored, Value, CacheConstants
<1>2. Stages'
  BY DEF IInv, Typed, Stages, Clear, Goes, WriteValue, Stored, CacheConstants
<1>3. FillsAreFresh'
  BY DEF IInv, Typed, FillsAreFresh, Clear, Goes, WriteValue, Stored
<1>4. ReplacedForGood'
  BY DEF IInv, Typed, ReplacedForGood, Clear, Goes, WriteValue, Stored, CacheConstants, Value
<1>5. ReplacedIsUncached'
  BY DEF IInv, Typed, ReplacedIsUncached, Excepted, Clear, Goes, WriteValue, Stored, CacheConstants
<1>6. TardyShowRetired'
  BY DEF IInv, Typed, TardyShowRetired, Clear, Goes, WriteValue, Stored
<1>7. CacheIsTheRow'
  BY DEF IInv, Typed, CacheIsTheRow, Clear, Goes, WriteValue, Stored
<1>8. RotatedIsRefused'
  BY DEF IInv, Typed, TardyShowRetired, RotatedIsRefused, Clear, Goes, WriteValue, Stored
<1> QED BY <1>1, <1>2, <1>3, <1>4, <1>5, <1>6, <1>7, <1>8 DEF IInv

LEMMA MintStep ==
    ASSUME CacheConstants, IInv, NEW q \in Query, Mint(q)
    PROVE  IInv'
<1>1. Typed'
  BY NewTokenIsNew DEF IInv, Typed, Mint, Goes, WriteValue, Stored, Value, CacheConstants
<1>2. Stages'
  BY DEF IInv, Typed, Stages, Mint, Goes, WriteValue, Stored
<1>3. FillsAreFresh'
  BY DEF IInv, Typed, FillsAreFresh, Mint, Goes, WriteValue, Stored
<1>4. ReplacedForGood'
  BY NewTokenIsNew DEF IInv, Typed, ReplacedForGood, Mint, Goes, WriteValue, Stored, CacheConstants
<1>5. ReplacedIsUncached'
  BY DEF IInv, Typed, ReplacedIsUncached, Excepted, Mint, Goes, WriteValue, Stored
<1>6. TardyShowRetired'
  BY DEF IInv, Typed, TardyShowRetired, Mint, Goes, WriteValue, Stored
<1>7. CacheIsTheRow'
  BY DEF IInv, Typed, CacheIsTheRow, Mint, Goes, WriteValue, Stored
<1>8. RotatedIsRefused'
  BY DEF IInv, Typed, TardyShowRetired, RotatedIsRefused, Mint, Goes, WriteValue, Stored
<1> QED BY <1>1, <1>2, <1>3, <1>4, <1>5, <1>6, <1>7, <1>8 DEF IInv

LEMMA WriteFailsStep ==
    ASSUME CacheConstants, IInv, NEW q \in Query, WriteFails(q)
    PROVE  IInv'
<1>1. Typed'
  BY DEF IInv, Typed, WriteFails, Goes
<1>2. Stages'
  BY DEF IInv, Typed, Stages, WriteFails, Goes
<1>3. FillsAreFresh'
  BY DEF IInv, Typed, FillsAreFresh, WriteFails, Goes
<1>4. ReplacedForGood'
  BY DEF IInv, Typed, ReplacedForGood, WriteFails, Goes
<1>5. ReplacedIsUncached'
  BY DEF IInv, Typed, ReplacedIsUncached, Excepted, WriteFails, Goes
<1>6. TardyShowRetired'
  BY DEF IInv, Typed, TardyShowRetired, WriteFails, Goes
<1>7. CacheIsTheRow'
  BY DEF IInv, Typed, CacheIsTheRow, WriteFails, Goes
<1>8. RotatedIsRefused'
  BY DEF IInv, Typed, TardyShowRetired, RotatedIsRefused, WriteFails, Goes
<1> QED BY <1>1, <1>2, <1>3, <1>4, <1>5, <1>6, <1>7, <1>8 DEF IInv

LEMMA InvalidateStep ==
    ASSUME CacheConstants, IInv, NEW q \in Query, Invalidate(q)
    PROVE  IInv'
<1>1. Typed'
  BY DEF IInv, Typed, Invalidate, Saved, Retire, Stages, ReplacedForGood
<1>2. Stages'
  BY DEF IInv, Typed, Stages, Invalidate, Saved, Retire
<1>3. FillsAreFresh'
  BY DEF IInv, Typed, FillsAreFresh, Invalidate, Saved, Retire
<1>4. ReplacedForGood'
  BY DEF IInv, Typed, ReplacedForGood, Invalidate, Saved, Retire
<1>5. ReplacedIsUncached'
  BY DEF IInv, Typed, ReplacedIsUncached, Excepted, Invalidate, Saved, Retire, Stages, CacheConstants
<1>6. TardyShowRetired'
  BY DEF IInv, Typed, TardyShowRetired, Invalidate, Saved, Retire
<1>7. CacheIsTheRow'
  BY DEF IInv, Typed, CacheIsTheRow, Invalidate, Saved, Retire
<1>8. RotatedIsRefused'
  BY DEF IInv, Typed, TardyShowRetired, RotatedIsRefused, Invalidate, Saved, Retire
<1> QED BY <1>1, <1>2, <1>3, <1>4, <1>5, <1>6, <1>7, <1>8 DEF IInv

LEMMA ResetStep ==
    ASSUME CacheConstants, IInv, ResetSettings
    PROVE  IInv'
<1>1. Typed'
  BY DEF IInv, Typed, ResetSettings
<1>2. Stages'
  BY DEF IInv, Typed, Stages, ResetSettings
<1>3. FillsAreFresh'
  BY DEF IInv, Typed, FillsAreFresh, ResetSettings
<1>4. ReplacedForGood'
  BY DEF IInv, Typed, ReplacedForGood, ResetSettings, CacheConstants
<1>5. ReplacedIsUncached'
  BY DEF IInv, Typed, ReplacedIsUncached, Excepted, ResetSettings
<1>6. TardyShowRetired'
  BY DEF IInv, Typed, TardyShowRetired, ResetSettings
<1>7. CacheIsTheRow'
  BY DEF IInv, Typed, CacheIsTheRow, ResetSettings
<1>8. RotatedIsRefused'
  BY DEF IInv, Typed, TardyShowRetired, RotatedIsRefused, ResetSettings
<1> QED BY <1>1, <1>2, <1>3, <1>4, <1>5, <1>6, <1>7, <1>8 DEF IInv

LEMMA RestartStep ==
    ASSUME CacheConstants, IInv, Restarted
    PROVE  IInv'
<1>1. Typed'
  BY NewTokenIsNew DEF IInv, Typed, Restarted
<1>2. Stages'
  BY DEF IInv, Typed, Stages, Restarted
<1>3. FillsAreFresh'
  BY DEF IInv, Typed, FillsAreFresh, Restarted
<1>4. ReplacedForGood'
  BY NewTokenIsNew DEF IInv, Typed, ReplacedForGood, Restarted
<1>5. ReplacedIsUncached'
  BY NewTokenIsNew DEF IInv, Typed, ReplacedIsUncached, Excepted, Restarted, ReplacedForGood, CacheConstants
<1>6. TardyShowRetired'
  BY DEF IInv, Typed, TardyShowRetired, Restarted
<1>7. CacheIsTheRow'
  BY DEF IInv, Typed, CacheIsTheRow, Restarted
<1>8. RotatedIsRefused'
  BY DEF IInv, Typed, TardyShowRetired, RotatedIsRefused, Restarted
<1> QED BY <1>1, <1>2, <1>3, <1>4, <1>5, <1>6, <1>7, <1>8 DEF IInv

-----------------------------------------------------------------------------
(* The theorems                                                             *)

LEMMA InitEstablishes == ASSUME CacheConstants, Init PROVE IInv
<1>1. NewToken({}) \in Token
  BY DEF CacheConstants, NewToken
<1>2. Typed
  BY <1>1 DEF Init, Typed, Value
<1> QED BY <1>1, <1>2 DEF Init, IInv, Stages, FillsAreFresh, ReplacedForGood, ReplacedIsUncached,
            TardyShowRetired, CacheIsTheRow, RotatedIsRefused, CacheConstants, Excepted

LEMMA StutterPreserves == ASSUME IInv, UNCHANGED settingVars PROVE IInv'
BY DEF IInv, settingVars, Typed, Stages, FillsAreFresh, ReplacedForGood, ReplacedIsUncached,
       TardyShowRetired, CacheIsTheRow, RotatedIsRefused, Excepted

LEMMA StepPreserves == ASSUME CacheConstants, IInv, [CacheNext]_settingVars PROVE IInv'
<1>1. CASE UNCHANGED settingVars
  BY <1>1, StutterPreserves
<1>2. ASSUME NEW q \in Query, NEW t \in Token, Authenticate(q, t) PROVE IInv'
  BY <1>2, AuthenticateStep
<1>3. ASSUME NEW q \in Query, Step(q) PROVE IInv'
  BY <1>3, LookupStep, ReadStep, FillStep, FindStep, ClearStep, MintStep, WriteFailsStep,
     InvalidateStep DEF Step
<1>4. ASSUME NEW q \in Query, Rotate(q) \/ EnsureAPIToken(q) PROVE IInv'
  BY <1>4, RotateStep, EnsureStep
<1> QED BY <1>1, <1>2, <1>3, <1>4, ResetStep, RestartStep DEF CacheNext

\* setting.go:38-40: whoever reads and writes, the cache holds what the table
\* holds while no writer is about to invalidate it; and v1.go:860: a token that
\* a rotation has replaced is refused by whoever comes with it later.  Both
\* but for the race of a Fill with a write, and for the command line.
THEOREM CacheFollowsTheRow ==
    ASSUME CacheConstants PROVE CacheSpec => [](CacheIsTheRow /\ RotatedIsRefused)
<1>1. Init => IInv
  BY InitEstablishes
<1>2. IInv /\ [CacheNext]_settingVars => IInv'
  BY StepPreserves
<1>3. IInv => CacheIsTheRow /\ RotatedIsRefused
  BY DEF IInv
<1> QED BY <1>1, <1>2, <1>3, PTL DEF CacheSpec

\* What the argument did not need of the types.
LEMMA TypesStay ==
    ASSUME CacheConstants, IInv, IInv', TypeOK, [CacheNext]_settingVars PROVE TypeOK'
<1> SUFFICES /\ cache' \in Value \cup {Miss} /\ exists' \in [Query -> BOOLEAN]
             /\ stale' \subseteq {q \in Query : qpc'[q] = "fill"}
             /\ raced' \in BOOLEAN /\ outside' \in BOOLEAN
  BY DEF TypeOK, IInv, Typed, Value
<1> USE DEF TypeOK
<1>1. ASSUME NEW q \in Query, NEW t \in Token, Authenticate(q, t) \/ Rotate(q) \/ EnsureAPIToken(q)
      PROVE  /\ UNCHANGED <<cache, exists, stale, raced, outside>>
             /\ stale \subseteq {x \in Query : qpc'[x] = "fill"}
  BY <1>1 DEF Authenticate, Rotate, EnsureAPIToken, Begins, Goes
<1>2. ASSUME NEW q \in Query, Lookup(q) \/ ReadRow(q)
      PROVE  /\ UNCHANGED <<cache, exists, stale, raced, outside>>
             /\ stale \subseteq {x \in Query : qpc'[x] = "fill"}
  BY <1>2 DEF Lookup, ReadRow, Goes, Resolve
<1>3. ASSUME NEW q \in Query, Fill(q)
      PROVE  /\ cache' \in Value /\ UNCHANGED <<exists, outside>>
             /\ stale' \subseteq {x \in Query : qpc'[x] = "fill"}
             /\ raced' \in BOOLEAN
  <2>1. \A x \in Query : x # q => qpc'[x] = qpc[x]
    BY <1>3 DEF Fill, Resolve
  <2> QED BY <1>3, <2>1 DEF Fill
<1>4. ASSUME NEW q \in Query, Find(q) \/ WriteFails(q) \/ Invalidate(q)
      PROVE  /\ cache' \in Value \cup {Miss} /\ UNCHANGED <<stale, raced, outside>>
             /\ stale \subseteq {x \in Query : qpc'[x] = "fill"}
             /\ exists' \in [Query -> BOOLEAN]
  BY <1>4 DEF Find, WriteFails, Invalidate, Saved, Goes
<1>5. ASSUME NEW q \in Query, Clear(q) \/ Mint(q)
      PROVE  /\ UNCHANGED <<cache, exists, raced, outside>>
             /\ stale' \subseteq {x \in Query : qpc'[x] = "fill"}
  BY <1>5 DEF Clear, Mint, WriteValue, Goes
<1>6. CASE ResetSettings
  BY <1>6 DEF ResetSettings
<1>7. CASE Restarted
  BY <1>7 DEF Restarted, Value
<1>8. CASE UNCHANGED settingVars
  BY <1>8 DEF settingVars
<1>9. Token # {}
  BY DEF CacheConstants
<1> QED BY <1>1, <1>2, <1>3, <1>4, <1>5, <1>6, <1>7, <1>8, <1>9 DEF CacheNext, Step

LEMMA CacheIsTyped == ASSUME CacheConstants PROVE CacheSpec => []TypeOK
<1>1. Init => IInv /\ TypeOK
  <2> SUFFICES ASSUME Init PROVE IInv /\ TypeOK
    OBVIOUS
  <2>1. IInv
    BY InitEstablishes
  <2>2. cache \in Value \cup {Miss} /\ exists \in [Query -> BOOLEAN] /\ stale = {}
        /\ raced \in BOOLEAN /\ outside \in BOOLEAN
    BY DEF Init
  <2> QED BY <2>1, <2>2 DEF TypeOK, IInv, Typed, Value
<1>2. IInv /\ TypeOK /\ [CacheNext]_settingVars => IInv' /\ TypeOK'
  BY StepPreserves, TypesStay
<1> QED BY <1>1, <1>2, PTL DEF CacheSpec
=============================================================================
