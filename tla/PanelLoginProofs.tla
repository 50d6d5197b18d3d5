--------------------------- MODULE PanelLoginProofs ---------------------------
(***************************************************************************)
(* Sessions, links and the throttle of PanelLogin, for any number of       *)
(* logins, changes of the password, visits, links, names and addresses.    *)
(***************************************************************************)
EXTENDS PanelLogin, FiniteSetTheorems, TLAPS

Cookie == [hash : Nat, era : Nat]

\* The parts of the types that the argument needs.
Typed ==
    /\ user \in [name : Name, password : Password, hash : Nat]
    /\ hashes \in Nat /\ era \in Nat /\ undone \in BOOLEAN /\ user.hash <= hashes
    /\ jar \subseteq Cookie /\ \A c \in jar : c.hash <= hashes
    /\ seen \in [Attempt -> Cookie] /\ \A a \in Attempt : seen[a].hash <= hashes
    /\ form \in [Attempt -> Forms]
    /\ throttle \in [Key -> Record]
    /\ apc \in [Attempt -> {"idle", "name", "check", "rehash", "okIp", "okName",
                            "failIp", "failName"}]
    /\ vpc \in [Visit -> {"idle", "read", "update", "user", "fail", "done"}]
    /\ via \in [Visit -> Link] /\ entered \subseteq Visit
    /\ link \in [Link -> {"none", "live", "expired", "consumed", "purged"}]

\* A login that has checked the password and has not made its cookie.
Checked == {a \in Attempt : apc[a] \in {"rehash", "okIp", "okName"}}

\* A cookie, made or about to be made, for the present hash is of this era.
CookiesAreOfNow ==
    undone \/ /\ \A c \in jar : c.hash = user.hash => c.era = era
              /\ \A a \in Checked : seen[a].hash = user.hash => seen[a].era = era

\* Visits that the conditional UPDATE has let through.
Winners == entered \cup {v \in Visit : vpc[v] = "user"}

LinksAreSpent ==
    /\ \A v \in entered : vpc[v] = "done"
    /\ \A v \in Winners : link[via[v]] \in {"consumed", "purged"}
    /\ \A v, w \in Winners : via[v] = via[w] => v = w

ThrottledAt(k) ==
    throttle[k].count >= Threshold /\ ~throttle[k].old =>
        /\ throttle[k].blocked
        /\ throttle[k].count + Cardinality(Past(k)) < Threshold + Cardinality(Attempt)

IInv == Typed /\ CookiesAreOfNow /\ LinksAreSpent /\ ThrottleHolds

-----------------------------------------------------------------------------
(* Records of the throttle                                                  *)

Bumped(r, n, b) == [r EXCEPT !.count = n, !.blocked = b]

LEMMA Counted ==
    ASSUME NEW r \in Record, NEW n \in Nat, NEW b \in BOOLEAN
    PROVE  Bumped(r, n, b) \in Record /\ Bumped(r, n, b).count = n /\ Bumped(r, n, b).blocked = b
BY DEF Record, Bumped

\* A failure begins a record, or adds one to it and blocks at the threshold.
LEMMA FailureCounts ==
    ASSUME LoginConstants, NEW r \in Record
    PROVE  /\ Failed(r) \in Record
           /\ \/ Failed(r).count = 1
              \/ /\ ~r.old /\ Failed(r).count = r.count + 1
                 /\ r.blocked \/ r.count + 1 >= Threshold => Failed(r).blocked
<1>1. CASE r.count = 0 \/ r.old
  BY <1>1 DEF Failed, Record
<1>2. CASE ~(r.count = 0 \/ r.old)
  <2> DEFINE b == r.blocked \/ r.count + 1 >= Threshold
  <2>1. r.count + 1 \in Nat /\ b \in BOOLEAN
    BY DEF Record
  <2>2. Failed(r) = Bumped(r, r.count + 1, b)
    BY <1>2 DEF Failed, Bumped
  <2> HIDE DEF b
  <2>3. Failed(r) \in Record /\ Failed(r).count = r.count + 1 /\ Failed(r).blocked = b
    BY <2>1, <2>2, Counted
  <2> QED BY <1>2, <2>3 DEF b
<1> QED BY <1>1, <1>2

LEMMA RecordsStay ==
    ASSUME LoginConstants, NEW r \in Record
    PROVE  Failed(r) \in Record /\ Later(r) \in Record
<1>1. Later(r) \in Record
  BY DEF Record, Later
<1> QED BY <1>1, FailureCounts

\* A row of users with a new hash.
LEMMA Rehashed ==
    ASSUME Typed, NEW p \in Password
    PROVE  /\ [user EXCEPT !.password = p, !.hash = hashes + 1]
                  \in [name : Name, password : Password, hash : Nat]
           /\ [user EXCEPT !.password = p, !.hash = hashes + 1].hash = hashes + 1
<1>1. hashes + 1 \in Nat
  BY DEF Typed
<1> QED BY <1>1 DEF Typed

-----------------------------------------------------------------------------
(* The parts of the invariant, one step at a time                           *)

LEMMA TypesHold ==
    ASSUME LoginConstants, IInv, [LoginNext]_loginVars
    PROVE  Typed'
<1> USE DEF IInv
<1>1. CASE UNCHANGED loginVars
  BY <1>1 DEF loginVars, attemptVars, visitVars, Typed, Cookie, Forms, Record, Key, attemptVars, visitVars
<1>2. ASSUME NEW a \in Attempt, CheckName(a)
      PROVE  Typed'
  BY <1>2 DEF CheckName, At, Typed, Cookie, Forms, Record, Key, attemptVars, visitVars
<1>3. ASSUME NEW a \in Attempt, CheckUser(a)
      PROVE  Typed'
  BY <1>3 DEF CheckUser, At, Typed, Cookie, Forms, Record, Key, attemptVars, visitVars
<1>4. ASSUME NEW a \in Attempt, Rehash(a) PROVE Typed'
  <2>1. /\ hashes' = hashes + 1 /\ form[a].password \in Password
        /\ user'.hash = hashes + 1 /\ user' \in [name : Name, password : Password, hash : Nat]
    BY <1>4, Rehashed DEF Rehash, Hashed, Typed, Forms
  <2>2. seen' \in [Attempt -> Cookie] /\ \A b \in Attempt : seen'[b].hash <= hashes'
    BY <1>4, <2>1 DEF Rehash, Typed, Cookie
  <2>3. undone' \in BOOLEAN
    BY <1>4 DEF Rehash
  <2> QED BY <1>4, <2>1, <2>2, <2>3 DEF Rehash, At, Typed, Cookie, visitVars
<1>5. ASSUME NEW a \in Attempt, RehashFails(a)
      PROVE  Typed'
  BY <1>5 DEF RehashFails, At, Typed, Cookie, Forms, Record, Key, attemptVars, visitVars
<1>6. ASSUME NEW a \in Attempt, FailIp(a) PROVE Typed'
  <2>1. form[a].ip \in Key /\ Failed(throttle[form[a].ip]) \in Record
    BY RecordsStay DEF Typed, Key, Forms
  <2>2. throttle' \in [Key -> Record]
    BY <1>6, <2>1 DEF FailIp, Typed
  <2> QED BY <1>6, <2>2 DEF FailIp, At, Typed, Cookie, Forms, visitVars
<1>7. ASSUME NEW a \in Attempt, FailName(a) PROVE Typed'
  <2>1. form[a].name \in Key /\ Failed(throttle[form[a].name]) \in Record
    BY RecordsStay DEF Typed, Key, Forms
  <2>2. throttle' \in [Key -> Record]
    BY <1>7, <2>1 DEF FailName, Typed
  <2> QED BY <1>7, <2>2 DEF FailName, At, Typed, Cookie, Forms, visitVars
<1>8. ASSUME NEW a \in Attempt, SucceedIp(a)
      PROVE  Typed'
  BY <1>8 DEF SucceedIp, At, NoRecord, Typed, Cookie, Forms, Record, Key, attemptVars, visitVars
<1>9. ASSUME NEW a \in Attempt, SetLoginUser(a)
      PROVE  Typed'
  BY <1>9 DEF SetLoginUser, At, NoRecord, Typed, Cookie, Forms, Record, Key, attemptVars, visitVars
<1>10. ASSUME NEW a \in Attempt, NEW f \in Forms, Login(a, f)
      PROVE  Typed'
  BY <1>10 DEF Login, At, Typed, Cookie, Forms, Record, Key, attemptVars, visitVars
<1>11. ASSUME NEW c \in Change, UpdateUser(c)
      PROVE  Typed'
  BY <1>11 DEF UpdateUser, Proceeds, Typed, Cookie, Forms, Record, Key, attemptVars, visitVars
<1>12. ASSUME NEW c \in Change, UpdateUsername(c)
      PROVE  Typed'
  BY <1>12 DEF UpdateUsername, Proceeds, Typed, Cookie, Forms, Record, Key, attemptVars, visitVars
<1>13. ASSUME NEW c \in Change, UpdatePassword(c) PROVE Typed'
  <2>1. /\ hashes' = hashes + 1
        /\ user'.hash = hashes + 1 /\ user' \in [name : Name, password : Password, hash : Nat]
    BY <1>13, Rehashed DEF UpdatePassword, Hashed, Typed
  <2> QED BY <1>13, <2>1 DEF UpdatePassword, Typed, Cookie, attemptVars, visitVars
<1>14. ASSUME NEW c \in Change, RenewCookie(c)
      PROVE  Typed'
  BY <1>14 DEF RenewCookie, Proceeds, Hashed, Typed, Cookie, Forms, Record, Key, attemptVars, visitVars
<1>15. ASSUME NEW c \in Change, UpdateFails(c)
      PROVE  Typed'
  BY <1>15 DEF UpdateFails, Proceeds, Typed, Cookie, Forms, Record, Key, attemptVars, visitVars
<1>16. ASSUME NEW v \in Visit, ReadLink(v) PROVE Typed'
  BY <1>16 DEF ReadLink, Moves, Typed, Cookie, Forms, Record, Key, attemptVars, visitVars
<1>17. ASSUME NEW v \in Visit, UpdateLink(v) PROVE Typed'
  BY <1>17 DEF UpdateLink, Moves, Typed, Cookie, Forms, Record, Key, attemptVars, visitVars
<1>18. ASSUME NEW v \in Visit, Enter(v) PROVE Typed'
  BY <1>18 DEF Enter, Moves, Typed, Cookie, Forms, Record, Key, attemptVars, visitVars
<1>19. ASSUME NEW v \in Visit, EnterFails(v) PROVE Typed'
  BY <1>19 DEF EnterFails, Moves, Typed, Cookie, Forms, Record, Key, attemptVars, visitVars
<1>20. ASSUME NEW v \in Visit, FailVisit(v) PROVE Typed'
  BY <1>20 DEF FailVisit, Moves, Typed, Cookie, Forms, Record, Key, attemptVars, visitVars
<1>21. ASSUME NEW v \in Visit, NEW a \in Address, NEW l \in Link, Consume(v, a, l)
      PROVE  Typed'
  BY <1>21 DEF Consume, Moves, Typed, Cookie, Forms, Record, Key, attemptVars, visitVars
<1>22. ASSUME NEW l \in Link, CreateMagicToken(l)
      PROVE  Typed'
  BY <1>22 DEF CreateMagicToken, Typed, Cookie, Forms, Record, Key, attemptVars, visitVars
<1>23. ASSUME NEW l \in Link, Expire(l) PROVE Typed'
  BY <1>23 DEF Expire, Typed, Cookie, Forms, Record, Key, attemptVars, visitVars
<1>24. ASSUME PurgeOldMagicTokens PROVE Typed'
  BY <1>24 DEF PurgeOldMagicTokens, Typed, Cookie, Forms, Record, Key, attemptVars, visitVars
<1>25. ASSUME TimePasses PROVE Typed'
  <2>1. throttle' \in [Key -> Record]
    BY <1>25, RecordsStay DEF TimePasses, Typed
  <2> QED BY <1>25, <2>1 DEF TimePasses, Typed, Cookie, Forms, attemptVars, visitVars
<1>26. ASSUME UpdateFirstUser PROVE Typed'
  BY <1>26 DEF UpdateFirstUser, Hashed, Typed, Cookie, Forms, Record, Key, attemptVars, visitVars
<1>27. ASSUME Restarted PROVE Typed'
  BY <1>27 DEF Restarted, NoRecord, Typed, Cookie, Forms, Record, Key, attemptVars, visitVars
<1> QED
  BY <1>1, <1>2, <1>3, <1>4, <1>5, <1>6, <1>7, <1>8, <1>9, <1>10, <1>11, <1>12,
     <1>13, <1>14, <1>15, <1>16, <1>17, <1>18, <1>19, <1>20, <1>21, <1>22, <1>23,
     <1>24, <1>25, <1>26, <1>27 DEF LoginNext, LoginStep, ChangeStep, VisitStep

LEMMA CookiesStay ==
    ASSUME LoginConstants, IInv, [LoginNext]_loginVars
    PROVE  CookiesAreOfNow'
<1> USE DEF IInv
<1>1. CASE UNCHANGED loginVars
  BY <1>1 DEF loginVars, attemptVars, visitVars, Typed, Cookie, CookiesAreOfNow, Checked, attemptVars, visitVars
<1>2. ASSUME NEW a \in Attempt, CheckName(a)
      PROVE  CookiesAreOfNow'
  BY <1>2 DEF CheckName, At, Typed, Cookie, CookiesAreOfNow, Checked, attemptVars, visitVars
<1>3. ASSUME NEW a \in Attempt, CheckUser(a)
      PROVE  CookiesAreOfNow'
  BY <1>3 DEF CheckUser, At, Typed, Cookie, CookiesAreOfNow, Checked, attemptVars, visitVars
<1>4. ASSUME NEW a \in Attempt, Rehash(a) PROVE CookiesAreOfNow'
  <2>1. /\ user'.hash = hashes + 1 /\ hashes \in Nat /\ a \in Checked /\ era' = era /\ jar' = jar
        /\ seen' = [seen EXCEPT ![a].hash = hashes + 1]
        /\ Checked' \subseteq Checked
    BY <1>4 DEF Rehash, At, Hashed, Typed, Checked
  <2>2. \A c \in jar' : c.hash # user'.hash
    BY <2>1 DEF Typed, Cookie
  <2>3. \A b \in Checked' : seen'[b].hash = user'.hash => b = a
    BY <2>1 DEF Typed, Cookie, Checked
  <2>4. seen'[a].era = seen[a].era
    BY <2>1 DEF Typed, Cookie, Checked
  <2>5. undone' \/ era = seen[a].era
    BY <1>4 DEF Rehash
  <2> QED BY <2>1, <2>2, <2>3, <2>4, <2>5 DEF CookiesAreOfNow
<1>5. ASSUME NEW a \in Attempt, RehashFails(a)
      PROVE  CookiesAreOfNow'
  BY <1>5 DEF RehashFails, At, Typed, Cookie, CookiesAreOfNow, Checked, attemptVars, visitVars
<1>6. ASSUME NEW a \in Attempt, FailIp(a) PROVE CookiesAreOfNow'
  BY <1>6 DEF FailIp, At, Failed, Typed, Cookie, CookiesAreOfNow, Checked, attemptVars, visitVars
<1>7. ASSUME NEW a \in Attempt, FailName(a) PROVE CookiesAreOfNow'
  BY <1>7 DEF FailName, At, Failed, Typed, Cookie, CookiesAreOfNow, Checked, attemptVars, visitVars
<1>8. ASSUME NEW a \in Attempt, SucceedIp(a)
      PROVE  CookiesAreOfNow'
  BY <1>8 DEF SucceedIp, At, NoRecord, Typed, Cookie, CookiesAreOfNow, Checked, attemptVars, visitVars
<1>9. ASSUME NEW a \in Attempt, SetLoginUser(a)
      PROVE  CookiesAreOfNow'
  BY <1>9 DEF SetLoginUser, At, NoRecord, Typed, Cookie, CookiesAreOfNow, Checked, attemptVars, visitVars
<1>10. ASSUME NEW a \in Attempt, NEW f \in Forms, Login(a, f)
      PROVE  CookiesAreOfNow'
  BY <1>10 DEF Login, At, Typed, Cookie, CookiesAreOfNow, Checked, attemptVars, visitVars
<1>11. ASSUME NEW c \in Change, UpdateUser(c)
      PROVE  CookiesAreOfNow'
  BY <1>11 DEF UpdateUser, Proceeds, Typed, Cookie, CookiesAreOfNow, Checked, attemptVars, visitVars
<1>12. ASSUME NEW c \in Change, UpdateUsername(c)
      PROVE  CookiesAreOfNow'
  BY <1>12 DEF UpdateUsername, Proceeds, Typed, Cookie, CookiesAreOfNow, Checked, attemptVars, visitVars
<1>13. ASSUME NEW c \in Change, UpdatePassword(c)
      PROVE  CookiesAreOfNow'
  BY <1>13 DEF UpdatePassword, Proceeds, Hashed, Typed, Cookie, CookiesAreOfNow, Checked, attemptVars, visitVars
<1>14. ASSUME NEW c \in Change, RenewCookie(c)
      PROVE  CookiesAreOfNow'
  BY <1>14 DEF RenewCookie, Proceeds, Hashed, Typed, Cookie, CookiesAreOfNow, Checked, attemptVars, visitVars
<1>15. ASSUME NEW c \in Change, UpdateFails(c)
      PROVE  CookiesAreOfNow'
  BY <1>15 DEF UpdateFails, Proceeds, Typed, Cookie, CookiesAreOfNow, Checked, attemptVars, visitVars
<1>16. ASSUME NEW v \in Visit, ReadLink(v) PROVE CookiesAreOfNow'
  BY <1>16 DEF ReadLink, Moves, Typed, Cookie, CookiesAreOfNow, Checked, attemptVars, visitVars
<1>17. ASSUME NEW v \in Visit, UpdateLink(v) PROVE CookiesAreOfNow'
  BY <1>17 DEF UpdateLink, Moves, Typed, Cookie, CookiesAreOfNow, Checked, attemptVars, visitVars
<1>18. ASSUME NEW v \in Visit, Enter(v) PROVE CookiesAreOfNow'
  BY <1>18 DEF Enter, Moves, Typed, Cookie, CookiesAreOfNow, Checked, attemptVars, visitVars
<1>19. ASSUME NEW v \in Visit, EnterFails(v) PROVE CookiesAreOfNow'
  BY <1>19 DEF EnterFails, Moves, Typed, Cookie, CookiesAreOfNow, Checked, attemptVars, visitVars
<1>20. ASSUME NEW v \in Visit, FailVisit(v) PROVE CookiesAreOfNow'
  BY <1>20 DEF FailVisit, Moves, Typed, Cookie, CookiesAreOfNow, Checked, attemptVars, visitVars
<1>21. ASSUME NEW v \in Visit, NEW a \in Address, NEW l \in Link, Consume(v, a, l)
      PROVE  CookiesAreOfNow'
  BY <1>21 DEF Consume, Moves, Typed, Cookie, CookiesAreOfNow, Checked, attemptVars, visitVars
<1>22. ASSUME NEW l \in Link, CreateMagicToken(l)
      PROVE  CookiesAreOfNow'
  BY <1>22 DEF CreateMagicToken, Typed, Cookie, CookiesAreOfNow, Checked, attemptVars, visitVars
<1>23. ASSUME NEW l \in Link, Expire(l) PROVE CookiesAreOfNow'
  BY <1>23 DEF Expire, Typed, Cookie, CookiesAreOfNow, Checked, attemptVars, visitVars
<1>24. ASSUME PurgeOldMagicTokens PROVE CookiesAreOfNow'
  BY <1>24 DEF PurgeOldMagicTokens, Typed, Cookie, CookiesAreOfNow, Checked, attemptVars, visitVars
<1>25. ASSUME TimePasses PROVE CookiesAreOfNow'
  BY <1>25 DEF TimePasses, Later, Typed, Cookie, CookiesAreOfNow, Checked, attemptVars, visitVars
<1>26. ASSUME UpdateFirstUser PROVE CookiesAreOfNow'
  BY <1>26 DEF UpdateFirstUser, Hashed, Typed, Cookie, CookiesAreOfNow, Checked, attemptVars, visitVars
<1>27. ASSUME Restarted PROVE CookiesAreOfNow'
  BY <1>27 DEF Restarted, NoRecord, Typed, Cookie, CookiesAreOfNow, Checked, attemptVars, visitVars
<1> QED
  BY <1>1, <1>2, <1>3, <1>4, <1>5, <1>6, <1>7, <1>8, <1>9, <1>10, <1>11, <1>12,
     <1>13, <1>14, <1>15, <1>16, <1>17, <1>18, <1>19, <1>20, <1>21, <1>22, <1>23,
     <1>24, <1>25, <1>26, <1>27 DEF LoginNext, LoginStep, ChangeStep, VisitStep

LEMMA LinksStaySpent ==
    ASSUME LoginConstants, IInv, [LoginNext]_loginVars
    PROVE  LinksAreSpent'
<1> USE DEF IInv
<1>1. CASE UNCHANGED loginVars
  BY <1>1 DEF loginVars, attemptVars, visitVars, Typed, LinksAreSpent, Winners, attemptVars, visitVars
<1>2. ASSUME NEW a \in Attempt, CheckName(a)
      PROVE  LinksAreSpent'
  BY <1>2 DEF CheckName, At, Typed, LinksAreSpent, Winners, attemptVars, visitVars
<1>3. ASSUME NEW a \in Attempt, CheckUser(a)
      PROVE  LinksAreSpent'
  BY <1>3 DEF CheckUser, At, Typed, LinksAreSpent, Winners, attemptVars, visitVars
<1>4. ASSUME NEW a \in Attempt, Rehash(a) PROVE LinksAreSpent'
  BY <1>4 DEF Rehash, At, Hashed, Typed, LinksAreSpent, Winners, attemptVars, visitVars
<1>5. ASSUME NEW a \in Attempt, RehashFails(a)
      PROVE  LinksAreSpent'
  BY <1>5 DEF RehashFails, At, Typed, LinksAreSpent, Winners, attemptVars, visitVars
<1>6. ASSUME NEW a \in Attempt, FailIp(a) PROVE LinksAreSpent'
  BY <1>6 DEF FailIp, At, Failed, Typed, LinksAreSpent, Winners, attemptVars, visitVars
<1>7. ASSUME NEW a \in Attempt, FailName(a) PROVE LinksAreSpent'
  BY <1>7 DEF FailName, At, Failed, Typed, LinksAreSpent, Winners, attemptVars, visitVars
<1>8. ASSUME NEW a \in Attempt, SucceedIp(a)
      PROVE  LinksAreSpent'
  BY <1>8 DEF SucceedIp, At, NoRecord, Typed, LinksAreSpent, Winners, attemptVars, visitVars
<1>9. ASSUME NEW a \in Attempt, SetLoginUser(a)
      PROVE  LinksAreSpent'
  BY <1>9 DEF SetLoginUser, At, NoRecord, Typed, LinksAreSpent, Winners, attemptVars, visitVars
<1>10. ASSUME NEW a \in Attempt, NEW f \in Forms, Login(a, f)
      PROVE  LinksAreSpent'
  BY <1>10 DEF Login, At, Typed, LinksAreSpent, Winners, attemptVars, visitVars
<1>11. ASSUME NEW c \in Change, UpdateUser(c)
      PROVE  LinksAreSpent'
  BY <1>11 DEF UpdateUser, Proceeds, Typed, LinksAreSpent, Winners, attemptVars, visitVars
<1>12. ASSUME NEW c \in Change, UpdateUsername(c)
      PROVE  LinksAreSpent'
  BY <1>12 DEF UpdateUsername, Proceeds, Typed, LinksAreSpent, Winners, attemptVars, visitVars
<1>13. ASSUME NEW c \in Change, UpdatePassword(c)
      PROVE  LinksAreSpent'
  BY <1>13 DEF UpdatePassword, Proceeds, Hashed, Typed, LinksAreSpent, Winners, attemptVars, visitVars
<1>14. ASSUME NEW c \in Change, RenewCookie(c)
      PROVE  LinksAreSpent'
  BY <1>14 DEF RenewCookie, Proceeds, Hashed, Typed, LinksAreSpent, Winners, attemptVars, visitVars
<1>15. ASSUME NEW c \in Change, UpdateFails(c)
      PROVE  LinksAreSpent'
  BY <1>15 DEF UpdateFails, Proceeds, Typed, LinksAreSpent, Winners, attemptVars, visitVars
<1>16. ASSUME NEW v \in Visit, ReadLink(v) PROVE LinksAreSpent'
  BY <1>16 DEF ReadLink, Moves, Typed, LinksAreSpent, Winners, attemptVars, visitVars
<1>17. ASSUME NEW v \in Visit, UpdateLink(v) PROVE LinksAreSpent'
  BY <1>17 DEF UpdateLink, Moves, Typed, LinksAreSpent, Winners, attemptVars, visitVars
<1>18. ASSUME NEW v \in Visit, Enter(v) PROVE LinksAreSpent'
  BY <1>18 DEF Enter, Moves, Typed, LinksAreSpent, Winners, attemptVars, visitVars
<1>19. ASSUME NEW v \in Visit, EnterFails(v) PROVE LinksAreSpent'
  BY <1>19 DEF EnterFails, Moves, Typed, LinksAreSpent, Winners, attemptVars, visitVars
<1>20. ASSUME NEW v \in Visit, FailVisit(v) PROVE LinksAreSpent'
  BY <1>20 DEF FailVisit, Moves, Typed, LinksAreSpent, Winners, attemptVars, visitVars
<1>21. ASSUME NEW v \in Visit, NEW a \in Address, NEW l \in Link, Consume(v, a, l)
      PROVE  LinksAreSpent'
  BY <1>21 DEF Consume, Moves, Typed, LinksAreSpent, Winners, attemptVars, visitVars
<1>22. ASSUME NEW l \in Link, CreateMagicToken(l)
      PROVE  LinksAreSpent'
  BY <1>22 DEF CreateMagicToken, Typed, LinksAreSpent, Winners, attemptVars, visitVars
<1>23. ASSUME NEW l \in Link, Expire(l) PROVE LinksAreSpent'
  BY <1>23 DEF Expire, Typed, LinksAreSpent, Winners, attemptVars, visitVars
<1>24. ASSUME PurgeOldMagicTokens PROVE LinksAreSpent'
  BY <1>24 DEF PurgeOldMagicTokens, Typed, LinksAreSpent, Winners, attemptVars, visitVars
<1>25. ASSUME TimePasses PROVE LinksAreSpent'
  BY <1>25 DEF TimePasses, Later, Typed, LinksAreSpent, Winners, attemptVars, visitVars
<1>26. ASSUME UpdateFirstUser PROVE LinksAreSpent'
  BY <1>26 DEF UpdateFirstUser, Hashed, Typed, LinksAreSpent, Winners, attemptVars, visitVars
<1>27. ASSUME Restarted PROVE LinksAreSpent'
  BY <1>27 DEF Restarted, NoRecord, Typed, LinksAreSpent, Winners, attemptVars, visitVars
<1> QED
  BY <1>1, <1>2, <1>3, <1>4, <1>5, <1>6, <1>7, <1>8, <1>9, <1>10, <1>11, <1>12,
     <1>13, <1>14, <1>15, <1>16, <1>17, <1>18, <1>19, <1>20, <1>21, <1>22, <1>23,
     <1>24, <1>25, <1>26, <1>27 DEF LoginNext, LoginStep, ChangeStep, VisitStep

-----------------------------------------------------------------------------
(* The throttle                                                             *)

LEMMA PastIsCounted ==
    ASSUME LoginConstants, NEW k \in Key
    PROVE  /\ IsFiniteSet(Past(k)) /\ Cardinality(Past(k)) \in Nat
           /\ IsFiniteSet(Past(k)') /\ Cardinality(Past(k)') \in Nat
           /\ Cardinality(Attempt) \in Nat
<1>1. Past(k) \subseteq Attempt /\ Past(k)' \subseteq Attempt
  BY DEF Past
<1> QED BY <1>1, FS_Subset, FS_CardinalityType DEF LoginConstants

\* A key whose record stays: nobody may come to be past it while it blocks.
LEMMA SameRecord ==
    ASSUME LoginConstants, Typed, NEW k \in Key, ThrottledAt(k),
           throttle'[k] = throttle[k],
           throttle[k].blocked => Past(k)' \subseteq Past(k)
    PROVE  ThrottledAt(k)'
<1>1. CASE throttle[k].count >= Threshold /\ ~throttle[k].old
  <2>1. Cardinality(Past(k)') <= Cardinality(Past(k))
    BY <1>1, PastIsCounted, FS_Subset DEF ThrottledAt
  <2>2. throttle[k].count \in Nat /\ Threshold \in Nat
    BY DEF Typed, Record, LoginConstants
  <2> QED BY <1>1, <2>1, <2>2, PastIsCounted DEF ThrottledAt, LoginConstants
<1>2. CASE ~(throttle[k].count >= Threshold /\ ~throttle[k].old)
  BY <1>2 DEF ThrottledAt, LoginConstants
<1> QED BY <1>1, <1>2

\* A key to which one of those past it adds its failure, and so leaves them.
LEMMA FailureAdded ==
    ASSUME LoginConstants, Typed, NEW k \in Key, ThrottledAt(k),
           throttle'[k] = Failed(throttle[k]),
           NEW a \in Past(k), Past(k)' \subseteq Past(k) \ {a}
    PROVE  ThrottledAt(k)'
<1> DEFINE r == throttle[k]
           m == Cardinality(Attempt)
           p == Cardinality(Past(k))
           q == Cardinality(Past(k)')
<1>1. r \in Record /\ Threshold \in Nat /\ Threshold > 1 /\ r.count \in Nat
  BY DEF Typed, Record, LoginConstants
<1>2. p \in Nat /\ q \in Nat /\ m \in Nat
  BY PastIsCounted
<1>3. q < p
  <2>1. IsFiniteSet(Past(k) \ {a}) /\ Cardinality(Past(k) \ {a}) = p - 1
    BY PastIsCounted, FS_RemoveElement
  <2>2. q <= p - 1
    BY <2>1, FS_Subset
  <2> QED BY <1>2, <2>2
<1>4. p <= m
  BY FS_Subset DEF Past, LoginConstants
<1>5. CASE Failed(r).count = 1
  BY <1>1, <1>5 DEF ThrottledAt
<1>6. CASE ~r.old /\ Failed(r).count = r.count + 1
           /\ (r.blocked \/ r.count + 1 >= Threshold => Failed(r).blocked)
  <2>1. CASE r.count >= Threshold
    BY <1>1, <1>2, <1>3, <1>6, <2>1 DEF ThrottledAt
  <2>2. CASE r.count < Threshold
    BY <1>1, <1>2, <1>3, <1>4, <1>6, <2>2 DEF ThrottledAt
  <2> QED BY <1>1, <2>1, <2>2
<1> QED BY <1>1, <1>5, <1>6, FailureCounts

\* A record that is dropped, or whose window has passed.
LEMMA RecordForgotten ==
    ASSUME LoginConstants, NEW k \in Key,
           throttle'[k] = NoRecord \/ throttle'[k].old
    PROVE  ThrottledAt(k)'
BY DEF ThrottledAt, NoRecord, LoginConstants

\* A step that records nothing, and lets nobody past a key that blocks.
LEMMA NothingRecorded ==
    ASSUME LoginConstants, IInv, UNCHANGED throttle,
           \A k \in Key : throttle[k].blocked => Past(k)' \subseteq Past(k)
    PROVE  ThrottleHolds'
<1> SUFFICES ASSUME NEW k \in Key PROVE ThrottledAt(k)'
  BY DEF ThrottleHolds, ThrottledAt
<1>1. Typed /\ ThrottledAt(k)
  BY DEF IInv, ThrottleHolds, ThrottledAt
<1> QED BY <1>1, SameRecord

LEMMA Beside ==
    ASSUME LoginConstants, IInv, UNCHANGED <<throttle, attemptVars>> PROVE ThrottleHolds'
BY NothingRecorded DEF attemptVars, Past

LEMMA ThrottleStays ==
    ASSUME LoginConstants, IInv, [LoginNext]_loginVars
    PROVE  ThrottleHolds'
<1> USE DEF IInv
<1>1. CASE UNCHANGED loginVars
  BY <1>1, Beside DEF loginVars
<1>2. ASSUME NEW a \in Attempt, CheckName(a)
      PROVE  ThrottleHolds'
  BY <1>2, NothingRecorded DEF CheckName, At, Past, Typed, Key, Forms, LoginConstants
<1>3. ASSUME NEW a \in Attempt, CheckUser(a)
      PROVE  ThrottleHolds'
  BY <1>3, NothingRecorded DEF CheckUser, At, Past, Typed, Key, Forms, LoginConstants
<1>4. ASSUME NEW a \in Attempt, Rehash(a) PROVE ThrottleHolds'
  BY <1>4, NothingRecorded DEF Rehash, At, Hashed, Past, Typed, Key, Forms, LoginConstants
<1>5. ASSUME NEW a \in Attempt, RehashFails(a)
      PROVE  ThrottleHolds'
  BY <1>5, NothingRecorded DEF RehashFails, At, Past, Typed, Key, Forms, LoginConstants
<1>6. ASSUME NEW a \in Attempt, FailIp(a) PROVE ThrottleHolds'
  <2> SUFFICES ASSUME NEW k \in Key PROVE ThrottledAt(k)'
    BY DEF ThrottleHolds, ThrottledAt
  <2>1. ThrottledAt(k)
    BY DEF ThrottleHolds, ThrottledAt
  <2>2. CASE k = form[a].ip
    <3>1. throttle'[k] = Failed(throttle[k])
      BY <1>6, <2>2 DEF FailIp, Typed
    <3>2. a \in Past(k) /\ Past(k)' \subseteq Past(k) \ {a}
      BY <1>6, <2>2 DEF FailIp, At, Past, Typed, Forms, LoginConstants
    <3> QED BY <2>1, <3>1, <3>2, FailureAdded
  <2>3. CASE k # form[a].ip
    <3>1. throttle'[k] = throttle[k]
      BY <1>6, <2>3 DEF FailIp, Typed
    <3>2. Past(k)' \subseteq Past(k)
      BY <1>6 DEF FailIp, At, Past, Typed
    <3> QED BY <2>1, <3>1, <3>2, SameRecord
  <2> QED BY <2>2, <2>3
<1>7. ASSUME NEW a \in Attempt, FailName(a) PROVE ThrottleHolds'
  <2> SUFFICES ASSUME NEW k \in Key PROVE ThrottledAt(k)'
    BY DEF ThrottleHolds, ThrottledAt
  <2>1. ThrottledAt(k)
    BY DEF ThrottleHolds, ThrottledAt
  <2>2. CASE k = form[a].name
    <3>1. throttle'[k] = Failed(throttle[k])
      BY <1>7, <2>2 DEF FailName, Typed
    <3>2. a \in Past(k) /\ Past(k)' \subseteq Past(k) \ {a}
      BY <1>7, <2>2 DEF FailName, At, Past, Typed, Forms, LoginConstants
    <3> QED BY <2>1, <3>1, <3>2, FailureAdded
  <2>3. CASE k # form[a].name
    <3>1. throttle'[k] = throttle[k]
      BY <1>7, <2>3 DEF FailName, Typed
    <3>2. Past(k)' \subseteq Past(k)
      BY <1>7 DEF FailName, At, Past, Typed
    <3> QED BY <2>1, <3>1, <3>2, SameRecord
  <2> QED BY <2>2, <2>3
<1>8. ASSUME NEW a \in Attempt, SucceedIp(a) PROVE ThrottleHolds'
  <2> SUFFICES ASSUME NEW k \in Key PROVE ThrottledAt(k)'
    BY DEF ThrottleHolds, ThrottledAt
  <2>1. ThrottledAt(k)
    BY DEF ThrottleHolds, ThrottledAt
  <2>2. throttle'[k] = NoRecord \/ throttle'[k] = throttle[k]
    BY <1>8 DEF SucceedIp, Typed
  <2>3. Past(k)' \subseteq Past(k)
    BY <1>8 DEF SucceedIp, At, Past, Typed
  <2> QED BY <2>1, <2>2, <2>3, SameRecord, RecordForgotten
<1>9. ASSUME NEW a \in Attempt, SetLoginUser(a) PROVE ThrottleHolds'
  <2> SUFFICES ASSUME NEW k \in Key PROVE ThrottledAt(k)'
    BY DEF ThrottleHolds, ThrottledAt
  <2>1. ThrottledAt(k)
    BY DEF ThrottleHolds, ThrottledAt
  <2>2. throttle'[k] = NoRecord \/ throttle'[k] = throttle[k]
    BY <1>9 DEF SetLoginUser, Typed
  <2>3. Past(k)' \subseteq Past(k)
    BY <1>9 DEF SetLoginUser, At, Past, Typed
  <2> QED BY <2>1, <2>2, <2>3, SameRecord, RecordForgotten
<1>10. ASSUME NEW a \in Attempt, NEW f \in Forms, Login(a, f)
      PROVE  ThrottleHolds'
  BY <1>10, NothingRecorded DEF Login, At, Past, Typed, Key, Forms, LoginConstants
<1>11. ASSUME NEW c \in Change, UpdateUser(c)
      PROVE  ThrottleHolds'
  BY <1>11, Beside DEF UpdateUser
<1>12. ASSUME NEW c \in Change, UpdateUsername(c)
      PROVE  ThrottleHolds'
  BY <1>12, Beside DEF UpdateUsername
<1>13. ASSUME NEW c \in Change, UpdatePassword(c)
      PROVE  ThrottleHolds'
  BY <1>13, Beside DEF UpdatePassword
<1>14. ASSUME NEW c \in Change, RenewCookie(c)
      PROVE  ThrottleHolds'
  BY <1>14, Beside DEF RenewCookie
<1>15. ASSUME NEW c \in Change, UpdateFails(c)
      PROVE  ThrottleHolds'
  BY <1>15, Beside DEF UpdateFails
<1>16. ASSUME NEW v \in Visit, ReadLink(v) PROVE ThrottleHolds'
  BY <1>16, Beside DEF ReadLink
<1>17. ASSUME NEW v \in Visit, UpdateLink(v) PROVE ThrottleHolds'
  BY <1>17, Beside DEF UpdateLink
<1>18. ASSUME NEW v \in Visit, Enter(v) PROVE ThrottleHolds'
  BY <1>18, Beside DEF Enter
<1>19. ASSUME NEW v \in Visit, EnterFails(v) PROVE ThrottleHolds'
  BY <1>19, Beside DEF EnterFails
<1>20. ASSUME NEW v \in Visit, FailVisit(v) PROVE ThrottleHolds'
  BY <1>20, Beside DEF FailVisit
<1>21. ASSUME NEW v \in Visit, NEW a \in Address, NEW l \in Link, Consume(v, a, l)
      PROVE  ThrottleHolds'
  BY <1>21, Beside DEF Consume
<1>22. ASSUME NEW l \in Link, CreateMagicToken(l)
      PROVE  ThrottleHolds'
  BY <1>22, Beside DEF CreateMagicToken
<1>23. ASSUME NEW l \in Link, Expire(l) PROVE ThrottleHolds'
  BY <1>23, Beside DEF Expire
<1>24. ASSUME PurgeOldMagicTokens PROVE ThrottleHolds'
  BY <1>24, Beside DEF PurgeOldMagicTokens
<1>25. ASSUME TimePasses PROVE ThrottleHolds'
  <2> SUFFICES ASSUME NEW k \in Key PROVE ThrottledAt(k)'
    BY DEF ThrottleHolds, ThrottledAt
  <2>1. ThrottledAt(k)
    BY DEF ThrottleHolds, ThrottledAt
  <2>2. throttle'[k] = Later(throttle[k]) \/ throttle'[k] = throttle[k]
    BY <1>25 DEF TimePasses, Typed
  <2>3. Later(throttle[k]).old
    BY DEF Later, Typed, Record
  <2>4. Past(k)' \subseteq Past(k)
    BY <1>25 DEF TimePasses, attemptVars, Past
  <2> QED BY <2>1, <2>2, <2>3, <2>4, SameRecord, RecordForgotten
<1>26. ASSUME UpdateFirstUser PROVE ThrottleHolds'
  BY <1>26, Beside DEF UpdateFirstUser
<1>27. ASSUME Restarted PROVE ThrottleHolds'
  <2> SUFFICES ASSUME NEW k \in Key PROVE ThrottledAt(k)'
    BY DEF ThrottleHolds, ThrottledAt
  <2>1. throttle'[k] = NoRecord
    BY <1>27 DEF Restarted
  <2> QED BY <2>1, RecordForgotten
<1> QED
  BY <1>1, <1>2, <1>3, <1>4, <1>5, <1>6, <1>7, <1>8, <1>9, <1>10, <1>11, <1>12,
     <1>13, <1>14, <1>15, <1>16, <1>17, <1>18, <1>19, <1>20, <1>21, <1>22, <1>23,
     <1>24, <1>25, <1>26, <1>27 DEF LoginNext, LoginStep, ChangeStep, VisitStep

-----------------------------------------------------------------------------
(* The theorems                                                             *)

LEMMA InitEstablishes == ASSUME LoginConstants, Init PROVE IInv
<1>1. /\ user \in [name : Name, password : Password, hash : Nat] /\ user.hash \in {0, 1}
  BY DEF Init, LoginConstants
<1>2. /\ form \in [Attempt -> Forms] /\ via \in [Visit -> Link]
      /\ throttle \in [Key -> Record] /\ seen \in [Attempt -> Cookie]
  BY <1>1 DEF Init, Forms, Record, NoRecord, Cookie, LoginConstants
<1>3. jar \subseteq Cookie /\ \A c \in jar : c.hash <= hashes
  BY <1>1 DEF Init, Cookie
<1>4. /\ hashes \in Nat /\ era \in Nat /\ undone \in BOOLEAN /\ user.hash <= hashes
      /\ \A a \in Attempt : seen[a].hash <= hashes
  <2>1. hashes = 1 /\ era = 0 /\ undone = FALSE
    BY DEF Init
  <2>2. \A a \in Attempt : seen[a] = [hash |-> 0, era |-> 0]
    BY DEF Init
  <2>3. user.hash <= hashes
    BY <1>1, <2>1
  <2>4. \A a \in Attempt : seen[a].hash <= hashes
    BY <2>1, <2>2
  <2>5. hashes \in Nat /\ era \in Nat
    BY <2>1
  <2>6. undone \in BOOLEAN
    BY <2>1, Zenon
  <2> QED BY <2>3, <2>4, <2>5, <2>6
<1>5. /\ apc \in [Attempt -> {"idle", "name", "check", "rehash", "okIp", "okName",
                             "failIp", "failName"}]
      /\ vpc \in [Visit -> {"idle", "read", "update", "user", "fail", "done"}]
      /\ link \in [Link -> {"none", "live", "expired", "consumed", "purged"}]
      /\ entered \subseteq Visit
  BY DEF Init
<1>6. user \in [name : Name, password : Password, hash : Nat]
  BY <1>1
<1>7. Typed
  BY <1>2, <1>3, <1>4, <1>5, <1>6 DEF Typed
<1>8. CookiesAreOfNow
  BY DEF Init, CookiesAreOfNow, Checked
<1>9. LinksAreSpent
  BY DEF Init, LinksAreSpent, Winners
<1>10. ThrottleHolds
  BY DEF Init, ThrottleHolds, NoRecord, LoginConstants
<1> QED BY <1>7, <1>8, <1>9, <1>10 DEF IInv

\* base.go:16-21, session.go:25-28: a cookie does not outlive a change of the
\* password, whichever login had checked the old one by then; magic.go:84-85: a
\* link lets one visit in, however many present it; index.go:17-19: at the
\* threshold only what was under way is added to the count.
THEOREM AccessIsGuarded ==
    ASSUME LoginConstants
    PROVE  LoginSpec => [](NoStaleSession /\ OneLoginPerLink /\ ThrottleHolds)
<1>1. Init => IInv
  BY InitEstablishes
<1>2. IInv /\ [LoginNext]_loginVars => IInv'
  BY TypesHold, CookiesStay, LinksStaySpent, ThrottleStays DEF IInv
<1>3. IInv => NoStaleSession /\ OneLoginPerLink /\ ThrottleHolds
  BY DEF IInv, CookiesAreOfNow, NoStaleSession, Valid, LinksAreSpent, Winners, OneLoginPerLink
<1> QED BY <1>1, <1>2, <1>3, PTL DEF LoginSpec

-----------------------------------------------------------------------------
(* The types that the argument did not need                                 *)

\* A cookie is no younger than the password.
Dated ==
    /\ \A c \in jar : c.era <= era
    /\ \A a \in Attempt : seen[a].era <= era
    /\ hashes <= MaxHashes /\ \A c \in jar : c.hash <= hashes
    /\ visits \in [Address -> Record]
    /\ cpc \in [Change -> {"idle", "username", "password", "cookie", "done"}]
    /\ from \in [Visit -> Address] /\ late \subseteq Visit

LEMMA DatesHold ==
    ASSUME LoginConstants, IInv, IInv', Dated, [LoginNext]_loginVars PROVE Dated'
<1> USE DEF Dated
<1>1. hashes \in Nat /\ era \in Nat /\ jar \subseteq Cookie /\ seen \in [Attempt -> Cookie]
      /\ MaxHashes \in Nat
  BY DEF IInv, Typed, LoginConstants
<1>2. \A c \in jar' : c.hash <= hashes'
  BY DEF IInv, Typed
<1>3. ASSUME NEW a \in Attempt, LoginStep(a) \/ (\E f \in Forms : Login(a, f)) PROVE Dated'
  <2>1. UNCHANGED <<visits, cpc, from, late, era>>
    BY <1>3 DEF LoginStep, Login, CheckName, CheckUser, Rehash, RehashFails, FailIp, FailName,
       SucceedIp, SetLoginUser, visitVars
  <2>2. hashes' <= MaxHashes
    BY <1>3 DEF LoginStep, Login, CheckName, CheckUser, Rehash, RehashFails, FailIp, FailName,
       SucceedIp, SetLoginUser, Hashed
  <2>3. jar' = jar \/ jar' = jar \cup {seen[a]}
    BY <1>3 DEF LoginStep, Login, CheckName, CheckUser, Rehash, RehashFails, FailIp, FailName,
       SucceedIp, SetLoginUser
  <2>4. \A b \in Attempt : seen'[b].era <= era
    <3>1. CASE UNCHANGED seen
      BY <3>1
    <3>2. CASE CheckUser(a)
      BY <1>1, <3>2 DEF CheckUser
    <3>3. CASE Rehash(a)
      BY <1>1, <3>3 DEF Rehash, Cookie
    <3> QED
      BY <1>3, <3>1, <3>2, <3>3 DEF LoginStep, Login, CheckName, RehashFails, FailIp, FailName,
         SucceedIp, SetLoginUser
  <2> QED BY <1>2, <2>1, <2>2, <2>3, <2>4
<1>4. ASSUME NEW c \in Change, UpdateUser(c) \/ ChangeStep(c) PROVE Dated'
  <2>1. UNCHANGED <<visits, from, late, seen>>
    BY <1>4 DEF UpdateUser, ChangeStep, UpdateUsername, UpdatePassword, RenewCookie, UpdateFails,
       attemptVars, visitVars
  <2>2. hashes' <= MaxHashes
    BY <1>4 DEF UpdateUser, ChangeStep, UpdateUsername, UpdatePassword, RenewCookie, UpdateFails, Hashed
  <2>3. era' \in Nat /\ era <= era'
    <3>1. era' = era \/ era' = era + 1
      BY <1>4 DEF UpdateUser, ChangeStep, UpdateUsername, UpdatePassword, RenewCookie, UpdateFails
    <3> QED BY <1>1, <3>1
  <2>4. \A x \in jar' : x \in jar \/ x.era = era
    <3>1. jar' = jar \/ jar' = jar \cup {[hash |-> hashes + 1, era |-> era]}
      BY <1>4 DEF UpdateUser, ChangeStep, UpdateUsername, UpdatePassword, RenewCookie, UpdateFails
    <3> QED BY <3>1
  <2>5. cpc' \in [Change -> {"idle", "username", "password", "cookie", "done"}]
    BY <1>4 DEF UpdateUser, ChangeStep, UpdateUsername, UpdatePassword, RenewCookie, UpdateFails, Proceeds
  <2>6. \A x \in jar' : x.era <= era'
    BY <1>1, <2>3, <2>4 DEF Cookie
  <2>7. \A a \in Attempt : seen'[a].era <= era'
    BY <1>1, <2>1, <2>3 DEF Cookie
  <2> QED BY <1>2, <2>1, <2>2, <2>5, <2>6, <2>7
<1>5. ASSUME NEW v \in Visit, VisitStep(v) \/ (\E a \in Address, l \in Link : Consume(v, a, l))
      PROVE  Dated'
  <2>1. UNCHANGED <<hashes, era, seen, cpc>>
    BY <1>5 DEF VisitStep, Consume, ReadLink, UpdateLink, Enter, EnterFails, FailVisit, attemptVars
  <2>2. \A x \in jar' : x \in jar \/ x.era = era
    BY <1>5 DEF VisitStep, Consume, ReadLink, UpdateLink, Enter, EnterFails, FailVisit
  <2>3. from' \in [Visit -> Address] /\ late' \subseteq Visit
    BY <1>5 DEF VisitStep, Consume, ReadLink, UpdateLink, Enter, EnterFails, FailVisit
  <2>4. visits' \in [Address -> Record]
    BY <1>5, RecordsStay DEF VisitStep, Consume, ReadLink, UpdateLink, Enter, EnterFails, FailVisit
  <2>5. \A x \in jar' : x.era <= era'
    BY <1>1, <2>1, <2>2
  <2> QED BY <1>2, <2>1, <2>3, <2>4, <2>5
<1>6. CASE TimePasses
  <2>1. visits' \in [Address -> Record]
    BY <1>6, RecordsStay DEF TimePasses
  <2> QED BY <1>2, <1>6, <2>1 DEF TimePasses, attemptVars, visitVars
<1>7. CASE UpdateFirstUser
  <2>1. era' = era + 1 /\ hashes' <= MaxHashes
        /\ UNCHANGED <<jar, seen, visits, cpc, from, late>>
    BY <1>7 DEF UpdateFirstUser, Hashed, attemptVars, visitVars
  <2>2. (\A x \in jar : x.era <= era') /\ \A a \in Attempt : seen[a].era <= era'
    BY <1>1, <2>1 DEF Cookie
  <2> QED BY <1>2, <2>1, <2>2
<1>8. CASE Restarted
  <2>1. visits' \in [Address -> Record]
    BY <1>8 DEF Restarted, NoRecord, Record
  <2> QED BY <1>2, <1>8, <2>1 DEF Restarted
<1>9. CASE \/ \E l \in Link : CreateMagicToken(l) \/ Expire(l)
           \/ PurgeOldMagicTokens
  BY <1>2, <1>9 DEF CreateMagicToken, Expire, PurgeOldMagicTokens, attemptVars, visitVars
<1>10. CASE UNCHANGED loginVars
  BY <1>2, <1>10 DEF loginVars, attemptVars, visitVars
<1> QED BY <1>3, <1>4, <1>5, <1>6, <1>7, <1>8, <1>9, <1>10 DEF LoginNext

LEMMA LoginIsTyped == ASSUME LoginConstants PROVE LoginSpec => []TypeOK
<1>1. Init => IInv /\ Dated
  <2> SUFFICES ASSUME Init PROVE Dated
    BY InitEstablishes
  <2>1. (CHOOSE i \in Address : TRUE) \in Address
    BY DEF LoginConstants
  <2>2. \A c \in jar : c.era <= era /\ c.hash <= hashes
    BY DEF Init
  <2> QED BY <2>1, <2>2 DEF Init, Dated, LoginConstants, NoRecord, Record
<1>2. IInv /\ Dated /\ [LoginNext]_loginVars => IInv' /\ Dated'
  BY TypesHold, CookiesStay, LinksStaySpent, ThrottleStays, DatesHold DEF IInv
<1>3. IInv /\ Dated => TypeOK
  <2> SUFFICES ASSUME IInv, Dated PROVE TypeOK
    OBVIOUS
  <2> USE DEF IInv, Typed, Dated, LoginConstants
  <2>1. user \in Users /\ hashes \in 0..MaxHashes
    BY DEF Users
  <2>2. \A c \in jar : c.hash \in 0..hashes /\ c.era \in 0..era
    BY DEF Cookie
  <2>3. seen \in [Attempt -> [hash : 0..MaxHashes, era : 0..era]]
    <3>1. \A c \in Cookie : c.hash <= hashes /\ c.era <= era
                                => c \in [hash : 0..MaxHashes, era : 0..era]
      BY DEF Cookie
    <3> QED BY <3>1
  <2> QED BY <2>1, <2>2, <2>3 DEF TypeOK
<1> QED BY <1>1, <1>2, <1>3, PTL DEF LoginSpec
=============================================================================
