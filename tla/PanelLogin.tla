------------------------------ MODULE PanelLogin -----------------------------
(***************************************************************************)
(* Who gets into the panel:                                                *)
(*   web/controller/index.go     login and its throttler                   *)
(*   web/service/user.go         CheckUser, UpdateUser, UpdateFirstUser    *)
(*   web/session/session.go      the cookie, LoadCurrentUser               *)
(*   web/controller/setting.go   updateUser, createMagicLink               *)
(*   web/service/magic.go        CreateMagicToken, ConsumeMagicToken       *)
(*   web/web.go                  magicConsumeThrottle, handleMagicConsume  *)
(*                                                                         *)
(* A hash is a number: every HashPassword makes a new one.  0 stands for a *)
(* password stored as it is, or at a lower cost, which a login rehashes.   *)
(***************************************************************************)
EXTENDS Naturals, FiniteSets

CONSTANTS
    Attempt,        \* POST /login
    Change,         \* POST /setting/updateUser
    Visit,          \* POST /panel-login/consume
    Link,           \* magic tokens
    Address,        \* keys of the throttles that are addresses
    Name,           \* usernames
    Password,
    Threshold,      \* 7 in the code
    MaxHashes       \* bound on the hashes made

VARIABLES
    user,           \* the row of users
    hashes,         \* hashes made so far
    era,            \* history: password changes so far
    undone,         \* history: a rehash has undone a password change
    jar,            \* cookies: the hash they fingerprint, and the era in which
                    \* their owner proved himself
    throttle,       \* failureRecord by key; none if count is 0
    visits,         \* magicAttempt by address
    apc, form, seen,    \* a login: where it is, what it submits, its user row
    cpc,            \* a change of the password
    link,           \* magic_tokens
    vpc, from, via, \* a visit: where it is, its address and link
    late,           \* the link had expired when its row was read
    entered         \* history: visits let in

attemptVars == <<apc, form, seen>>
visitVars == <<vpc, from, via, late, entered>>
loginVars == <<user, hashes, era, undone, jar, throttle, visits, attemptVars, cpc, link, visitVars>>

LoginConstants ==
    /\ Address \cap Name = {} /\ Address # {} /\ Name # {} /\ Password # {} /\ Link # {}
    /\ IsFiniteSet(Attempt) /\ Threshold \in Nat \ {0, 1} /\ MaxHashes \in Nat \ {0}

Key == Address \cup Name
NoRecord == [count |-> 0, old |-> FALSE, blocked |-> FALSE]
Record == [count : Nat, old : BOOLEAN, blocked : BOOLEAN]
Forms == [ip : Address, name : Name, password : Password]
Users == [name : Name, password : Password, hash : 0..MaxHashes]

TypeOK ==
    /\ user \in Users /\ hashes \in 0..MaxHashes /\ user.hash <= hashes
    /\ era \in Nat /\ undone \in BOOLEAN
    /\ \A c \in jar : c.hash \in 0..hashes /\ c.era \in 0..era
    /\ throttle \in [Key -> Record]
    /\ visits \in [Address -> Record]
    /\ apc \in [Attempt -> {"idle", "name", "check", "rehash", "okIp", "okName",
                            "failIp", "failName"}]
    /\ form \in [Attempt -> Forms]
    /\ seen \in [Attempt -> [hash : 0..MaxHashes, era : 0..era]]
    /\ cpc \in [Change -> {"idle", "username", "password", "cookie", "done"}]
    /\ link \in [Link -> {"none", "live", "expired", "consumed", "purged"}]
    /\ vpc \in [Visit -> {"idle", "read", "update", "user", "fail", "done"}]
    /\ from \in [Visit -> Address] /\ via \in [Visit -> Link]
    /\ late \subseteq Visit /\ entered \subseteq Visit

Init ==
    /\ user \in [name : {CHOOSE n \in Name : TRUE}, password : {CHOOSE p \in Password : TRUE},
                 hash : {0, 1}]
    /\ hashes = 1 /\ era = 0 /\ undone = FALSE
    /\ jar = {[hash |-> user.hash, era |-> 0]}     \* somebody is logged in
    /\ throttle = [k \in Key |-> NoRecord] /\ visits = [a \in Address |-> NoRecord]
    /\ apc = [a \in Attempt |-> "idle"]
    /\ form = [a \in Attempt |-> [ip |-> CHOOSE i \in Address : TRUE,
                                    name |-> user.name, password |-> user.password]]
    /\ seen = [a \in Attempt |-> [hash |-> 0, era |-> 0]]
    /\ cpc = [c \in Change |-> "idle"]
    /\ link = [l \in Link |-> "none"]
    /\ vpc = [v \in Visit |-> "idle"]
    /\ from = [v \in Visit |-> CHOOSE i \in Address : TRUE]
    /\ via = [v \in Visit |-> CHOOSE l \in Link : TRUE]
    /\ late = {} /\ entered = {}

\* HashPassword
Hashed(n) == hashes + n <= MaxHashes /\ hashes' = hashes + n

\* LoadCurrentUser: the cookies that are good for a request.
Valid == {c \in jar : c.hash = user.hash}

-----------------------------------------------------------------------------
(* throttler, and its copy in web.go                                        *)

\* Mutant: the failure after the last one blocks.
BlocksLate(r) ==
    IF r.count = 0 \/ r.old
    THEN [count |-> 1, old |-> FALSE, blocked |-> FALSE]
    ELSE [r EXCEPT !.count = @ + 1, !.blocked = @ \/ r.count + 1 > Threshold]

\* recordFailure: a record past the window is begun anew, blocked or not.
Failed(r) ==
    IF r.count = 0 \/ r.old
    THEN [count |-> 1, old |-> FALSE, blocked |-> FALSE]
    ELSE [r EXCEPT !.count = @ + 1, !.blocked = @ \/ r.count + 1 >= Threshold]

\* The window since firstAt passes, then what is left of a block.
Later(r) == IF r.old THEN [r EXCEPT !.blocked = FALSE] ELSE [r EXCEPT !.old = TRUE]

TimePasses ==
    /\ \/ \E k \in Key : throttle[k].count > 0 /\ throttle' = [throttle EXCEPT ![k] = Later(@)]
                         /\ UNCHANGED visits
       \/ \E a \in Address : visits[a].count > 0 /\ visits' = [visits EXCEPT ![a] = Later(@)]
                             /\ UNCHANGED throttle
    /\ <<throttle, visits>>' # <<throttle, visits>>
    /\ UNCHANGED <<user, hashes, era, undone, jar, attemptVars, cpc, link, visitVars>>

-----------------------------------------------------------------------------
(* login                                                                    *)

At(a, here, there) == apc[a] = here /\ apc' = [apc EXCEPT ![a] = there]

\* retryAfter(ip) lets it through.
Login(a, f) ==
    /\ ~throttle[f.ip].blocked
    /\ At(a, "idle", "name")
    /\ form' = [form EXCEPT ![a] = f]
    /\ UNCHANGED <<user, hashes, era, undone, jar, throttle, visits, seen, cpc, link, visitVars>>

CheckName(a) ==
    /\ At(a, "name", IF throttle[form[a].name].blocked THEN "idle" ELSE "check")
    /\ UNCHANGED <<user, hashes, era, undone, jar, throttle, visits, form, seen, cpc, link, visitVars>>

\* CheckUser: the row of that name and its password.
CheckUser(a) ==
    LET ok == form[a].name = user.name /\ form[a].password = user.password IN
    /\ At(a, "check", IF ~ok THEN "failIp" ELSE IF user.hash = 0 THEN "rehash" ELSE "okIp")
    /\ seen' = [seen EXCEPT ![a] = [hash |-> user.hash, era |-> era]]
    /\ UNCHANGED <<user, hashes, era, undone, jar, throttle, visits, form, cpc, link, visitVars>>

\* UPDATE users SET password, whatever the row holds by now.
Rehash(a) ==
    /\ At(a, "rehash", "okIp")
    /\ Hashed(1)
    /\ user' = [user EXCEPT !.password = form[a].password, !.hash = hashes + 1]
    /\ seen' = [seen EXCEPT ![a].hash = hashes + 1]
    /\ undone' = (undone \/ era # seen[a].era)
    /\ UNCHANGED <<era, jar, throttle, visits, form, cpc, link, visitVars>>

\* A warning only.
RehashFails(a) ==
    /\ At(a, "rehash", "okIp")
    /\ UNCHANGED <<user, hashes, era, undone, jar, throttle, visits, form, seen, cpc, link, visitVars>>

FailIp(a) ==
    /\ At(a, "failIp", "failName")
    /\ throttle' = [throttle EXCEPT ![form[a].ip] = Failed(@)]
    /\ UNCHANGED <<user, hashes, era, undone, jar, visits, form, seen, cpc, link, visitVars>>

FailName(a) ==
    /\ At(a, "failName", "idle")
    /\ throttle' = [throttle EXCEPT ![form[a].name] = Failed(@)]
    /\ UNCHANGED <<user, hashes, era, undone, jar, visits, form, seen, cpc, link, visitVars>>

\* Mutant: a success takes one failure back.
SuccessDecrements(a) ==
    /\ At(a, "okIp", "okName")
    /\ throttle' = [throttle EXCEPT ![form[a].ip].count = @ - 1]
    /\ UNCHANGED <<user, hashes, era, undone, jar, visits, form, seen, cpc, link, visitVars>>

SucceedIp(a) ==
    /\ At(a, "okIp", "okName")
    /\ throttle' = [throttle EXCEPT ![form[a].ip] = NoRecord]
    /\ UNCHANGED <<user, hashes, era, undone, jar, visits, form, seen, cpc, link, visitVars>>

\* Mutant: the cookie is made for the row of now, not for the one checked.
CookieOfNow(a) ==
    /\ At(a, "okName", "idle")
    /\ throttle' = [throttle EXCEPT ![form[a].name] = NoRecord]
    /\ jar' = jar \cup {[seen[a] EXCEPT !.hash = user.hash]}
    /\ UNCHANGED <<user, hashes, era, undone, visits, form, seen, cpc, link, visitVars>>

\* recordSuccess of the name, SetLoginUser.
SetLoginUser(a) ==
    /\ At(a, "okName", "idle")
    /\ throttle' = [throttle EXCEPT ![form[a].name] = NoRecord]
    /\ jar' = jar \cup {seen[a]}
    /\ UNCHANGED <<user, hashes, era, undone, visits, form, seen, cpc, link, visitVars>>

LoginStep(a) ==
    \/ CheckName(a) \/ CheckUser(a) \/ Rehash(a) \/ RehashFails(a)
    \/ FailIp(a) \/ FailName(a) \/ SucceedIp(a) \/ SetLoginUser(a)

-----------------------------------------------------------------------------
(* updateUser                                                               *)

Proceeds(c, here, there) == cpc[c] = here /\ cpc' = [cpc EXCEPT ![c] = there]

\* A valid cookie and the old password.
UpdateUser(c) ==
    /\ Valid # {}
    /\ Proceeds(c, "idle", "username")
    /\ UNCHANGED <<user, hashes, era, undone, jar, throttle, visits, attemptVars, link, visitVars>>

UpdateUsername(c) ==
    /\ Proceeds(c, "username", "password")
    /\ \E n \in Name : user' = [user EXCEPT !.name = n]
    /\ UNCHANGED <<hashes, era, undone, jar, throttle, visits, attemptVars, link, visitVars>>

UpdatePassword(c) ==
    /\ Proceeds(c, "password", "cookie")
    /\ Hashed(1)
    /\ \E p \in Password : user' = [user EXCEPT !.password = p, !.hash = hashes + 1]
    /\ era' = era + 1
    /\ UNCHANGED <<undone, jar, throttle, visits, attemptVars, link, visitVars>>

\* The new cookie is for a hash of its own, which is not the stored one.
RenewCookie(c) ==
    /\ Proceeds(c, "cookie", "done")
    /\ Hashed(1)
    /\ jar' = jar \cup {[hash |-> hashes + 1, era |-> era]}
    /\ UNCHANGED <<user, era, undone, throttle, visits, attemptVars, link, visitVars>>

\* One of the two UPDATEs fails.
UpdateFails(c) ==
    /\ cpc[c] \in {"username", "password"}
    /\ cpc' = [cpc EXCEPT ![c] = "done"]
    /\ UNCHANGED <<user, hashes, era, undone, jar, throttle, visits, attemptVars, link, visitVars>>

ChangeStep(c) ==
    UpdateUsername(c) \/ UpdatePassword(c) \/ RenewCookie(c) \/ UpdateFails(c)

\* UpdateFirstUser, on the command line.
UpdateFirstUser ==
    /\ Hashed(1)
    /\ \E n \in Name, p \in Password :
           user' = [name |-> n, password |-> p, hash |-> hashes + 1]
    /\ era' = era + 1
    /\ UNCHANGED <<undone, jar, throttle, visits, attemptVars, cpc, link, visitVars>>

-----------------------------------------------------------------------------
(* Magic links                                                              *)

Moves(v, here, there) == vpc[v] = here /\ vpc' = [vpc EXCEPT ![v] = there]

CreateMagicToken(l) ==
    /\ Valid # {}
    /\ link[l] = "none"
    /\ link' = [link EXCEPT ![l] = "live"]
    /\ UNCHANGED <<user, hashes, era, undone, jar, throttle, visits, attemptVars, cpc, visitVars>>

Expire(l) ==
    /\ link[l] = "live"
    /\ link' = [link EXCEPT ![l] = "expired"]
    /\ UNCHANGED <<user, hashes, era, undone, jar, throttle, visits, attemptVars, cpc, visitVars>>

PurgeOldMagicTokens ==
    /\ \E l \in Link : link[l] \in {"expired", "consumed"}
    /\ link' = [l \in Link |-> IF link[l] \in {"expired", "consumed"} THEN "purged" ELSE link[l]]
    /\ UNCHANGED <<user, hashes, era, undone, jar, throttle, visits, attemptVars, cpc, visitVars>>

\* magicConsumeThrottle lets it through.
Consume(v, a, l) ==
    /\ ~visits[a].blocked
    /\ Moves(v, "idle", "read")
    /\ from' = [from EXCEPT ![v] = a] /\ via' = [via EXCEPT ![v] = l]
    /\ UNCHANGED <<user, hashes, era, undone, jar, throttle, visits, attemptVars, cpc, link, late, entered>>

ReadLink(v) ==
    /\ Moves(v, "read", IF link[via[v]] \in {"live", "expired"} THEN "update" ELSE "fail")
    /\ late' = IF link[via[v]] = "expired" THEN late \cup {v} ELSE late
    /\ UNCHANGED <<user, hashes, era, undone, jar, throttle, visits, attemptVars, cpc, link, from, via, entered>>

\* Mutant: WHERE id = ?, without consumed_at = 0.
UpdateAnyLink(v) ==
    /\ Moves(v, "update", IF v \in late THEN "fail" ELSE "user")
    /\ link' = [link EXCEPT ![via[v]] = IF @ = "purged" THEN @ ELSE "consumed"]
    /\ UNCHANGED <<user, hashes, era, undone, jar, throttle, visits, attemptVars, cpc, from, via, late, entered>>

\* UPDATE ... WHERE id = ? AND consumed_at = 0: the one that affects a row and
\* is in time is let in.
UpdateLink(v) ==
    LET affected == link[via[v]] \in {"live", "expired"} IN
    /\ Moves(v, "update", IF affected /\ v \notin late THEN "user" ELSE "fail")
    /\ link' = IF affected THEN [link EXCEPT ![via[v]] = "consumed"] ELSE link
    /\ UNCHANGED <<user, hashes, era, undone, jar, throttle, visits, attemptVars, cpc, from, via, late, entered>>

\* GetFirstUser, SetLoginUser; or an error, and the link is spent.
Enter(v) ==
    /\ Moves(v, "user", "done")
    /\ jar' = jar \cup {[hash |-> user.hash, era |-> era]}
    /\ entered' = entered \cup {v}
    /\ UNCHANGED <<user, hashes, era, undone, throttle, visits, attemptVars, cpc, link, from, via, late>>

EnterFails(v) ==
    /\ Moves(v, "user", "fail")
    /\ UNCHANGED <<user, hashes, era, undone, jar, throttle, visits, attemptVars, cpc, link, from, via, late, entered>>

\* Any status of 400 and more counts.
FailVisit(v) ==
    /\ Moves(v, "fail", "done")
    /\ visits' = [visits EXCEPT ![from[v]] = Failed(@)]
    /\ UNCHANGED <<user, hashes, era, undone, jar, throttle, attemptVars, cpc, link, from, via, late, entered>>

VisitStep(v) ==
    ReadLink(v) \/ UpdateLink(v) \/ Enter(v) \/ EnterFails(v) \/ FailVisit(v)

-----------------------------------------------------------------------------

\* The process ends: requests and throttles are gone, cookies and rows stay.
Restarted ==
    /\ throttle' = [k \in Key |-> NoRecord] /\ visits' = [a \in Address |-> NoRecord]
    /\ apc' = [a \in Attempt |-> "idle"]
    /\ cpc' = [c \in Change |-> IF cpc[c] = "idle" THEN "idle" ELSE "done"]
    /\ vpc' = [v \in Visit |-> IF vpc[v] = "idle" THEN "idle" ELSE "done"]
    /\ UNCHANGED <<user, hashes, era, undone, jar, form, seen, link, from, via, late, entered>>

LoginNext ==
    \/ \E a \in Attempt : LoginStep(a) \/ \E f \in Forms : Login(a, f)
    \/ \E c \in Change : UpdateUser(c) \/ ChangeStep(c)
    \/ \E v \in Visit : VisitStep(v) \/ \E a \in Address, l \in Link : Consume(v, a, l)
    \/ \E l \in Link : CreateMagicToken(l) \/ Expire(l)
    \/ PurgeOldMagicTokens \/ TimePasses \/ UpdateFirstUser \/ Restarted
LoginSpec == Init /\ [][LoginNext]_loginVars

-----------------------------------------------------------------------------

\* base.go:16-21, session.go:25-28: a cookie does not outlive a change of the
\* password, even if its login had checked the old password by then and
\* finishes later.  (Unless the login rehashes, and so takes back the change.)
NoStaleSession == undone \/ \A c \in Valid : c.era = era

\* magic.go:84-85: a link lets one visit in, however many present it at once.
OneLoginPerLink == \A v, w \in entered : via[v] = via[w] => v = w

\* Logins that retryAfter(k) has let through and that may still fail.
Past(k) ==
    {a \in Attempt :
        \/ form[a].ip = k /\ apc[a] \in {"name", "check", "failIp"}
        \/ form[a].name = k /\ apc[a] \in {"check", "failIp", "failName"}}

\* index.go:17-19: at the threshold nobody is let through any more; what was
\* under way by then is all that is added to the count.
ThrottleHolds ==
    \A k \in Key : throttle[k].count >= Threshold /\ ~throttle[k].old =>
        /\ throttle[k].blocked
        /\ throttle[k].count + Cardinality(Past(k)) < Threshold + Cardinality(Attempt)
=============================================================================
