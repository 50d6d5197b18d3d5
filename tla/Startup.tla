-------------------------------- MODULE Startup -------------------------------
(***************************************************************************)
(* What a process of the program does before it serves:                    *)
(*   main.go                 runWebServer up to the banner, the commands   *)
(*   database/db.go          InitDB                                        *)
(*   database/migrations.go  runMigrations, backfillClientTraffics         *)
(*   database/setup.go       RunFirstRunSetup                              *)
(*   nexcore-x-ui.sh         cmd_reset                                     *)
(* The panel and commands of the CLI (cmd_reset polls `setting -show`      *)
(* while the panel starts) open one database; each may die at any step.    *)
(*                                                                         *)
(* gormigrate, external, runs a migration that its bookkeeping table does  *)
(* not have, then records it, by default outside a transaction.  Of the    *)
(* eleven, "hash" and "rows" (0006, 0010) change data that was there.      *)
(***************************************************************************)
EXTENDS Naturals, Sequences

CONSTANTS
    Panel,
    Command,        \* processes of the CLI
    OldToken,       \* api_tokens of an installation before 0006
    Client,         \* the emails its inbounds list
    MaxStarts       \* bound

Process == {Panel} \cup Command
Migrations == <<"hash", "rows">>

VARIABLES
    recorded,       \* the bookkeeping table
    hashings,       \* how often the token of a row has been hashed
    counters,       \* the emails client_traffics has
    account, port,  \* there is a user, there is a webPort
    issued,         \* first-install tokens
    stage, step,    \* a process: where it is, at which migration
    todo,           \* rows its migration has yet to visit
    snap,           \* what its Find of api_tokens returned
    missing,        \* the client it is about to create
    starts

procVars == <<stage, step, todo, snap, missing>>
dataVars == <<recorded, hashings, counters, account, port, issued>>
startVars == <<dataVars, procVars, starts>>

Tokens == DOMAIN hashings

TypeOK ==
    /\ recorded \subseteq {"hash", "rows"}
    /\ Tokens \subseteq OldToken /\ hashings \in [Tokens -> 0..2]
    /\ counters \subseteq Client
    /\ account \in BOOLEAN /\ port \in BOOLEAN
    /\ issued \in 0..MaxStarts /\ starts \in 0..MaxStarts
    /\ stage \in [Process -> {"down", "check", "hash", "rows", "create", "record", "setup",
                              "user", "port", "token", "up"}]
    /\ step \in [Process -> 1..Len(Migrations) + 1]
    /\ todo \in [Process -> SUBSET (OldToken \cup Client)]
    /\ snap \in [Process -> [Tokens -> 0..2]]
    /\ missing \in [Process -> SUBSET Client]

\* An installation that is upgraded, or a new one.
Init ==
    /\ \E tokens \in SUBSET OldToken : hashings = [t \in tokens |-> 0]
    /\ recorded = {} /\ counters = {}
    /\ account \in BOOLEAN /\ port = account
    /\ issued = 0 /\ starts = 0
    /\ stage = [p \in Process |-> "down"] /\ step = [p \in Process |-> 1]
    /\ todo = [p \in Process |-> {}] /\ missing = [p \in Process |-> {}]
    /\ snap = [p \in Process |-> hashings]

Goes(p, from, to) == stage[p] = from /\ stage' = [stage EXCEPT ![p] = to]

-----------------------------------------------------------------------------
(* InitDB                                                                   *)

Start(p) ==
    /\ starts < MaxStarts /\ starts' = starts + 1
    /\ Goes(p, "down", "check")
    /\ step' = [step EXCEPT ![p] = 1]
    /\ UNCHANGED <<dataVars, todo, snap, missing>>

\* Killed, or log.Fatal.
Dies(p) ==
    /\ stage[p] # "down"
    /\ stage' = [stage EXCEPT ![p] = "down"]
    /\ todo' = [todo EXCEPT ![p] = {}] /\ missing' = [missing EXCEPT ![p] = {}]
    /\ UNCHANGED <<dataVars, step, snap, starts>>

\* migrationRan; one that has to run begins with its Find.
Check(p) ==
    /\ step[p] <= Len(Migrations)
    /\ LET m == Migrations[step[p]] IN
       IF m \in recorded
       THEN /\ Goes(p, "check", "check")
            /\ step' = [step EXCEPT ![p] = @ + 1]
            /\ UNCHANGED <<todo, snap>>
       ELSE /\ Goes(p, "check", m)
            /\ todo' = [todo EXCEPT ![p] = IF m = "hash" THEN Tokens ELSE Client]
            /\ snap' = IF m = "hash" THEN [snap EXCEPT ![p] = hashings] ELSE snap
            /\ UNCHANGED step
    /\ UNCHANGED <<dataVars, missing, starts>>

\* Mutant: no look at what is hashed already.
HashesAny(p) ==
    /\ Goes(p, "hash", "hash")
    /\ \E t \in todo[p] :
           /\ todo' = [todo EXCEPT ![p] = @ \ {t}]
           /\ hashings' = [hashings EXCEPT ![t] = snap[p][t] + 1]
    /\ UNCHANGED <<recorded, counters, account, port, issued, step, snap, missing, starts>>

\* 0006: the row gets the hash of what Find has read, unless that is 64 hex digits.
HashToken(p) ==
    /\ Goes(p, "hash", "hash")
    /\ \E t \in todo[p] :
           /\ todo' = [todo EXCEPT ![p] = @ \ {t}]
           /\ hashings' = IF snap[p][t] = 0 THEN [hashings EXCEPT ![t] = 1] ELSE hashings
    /\ UNCHANGED <<recorded, counters, account, port, issued, step, snap, missing, starts>>

\* 0010: the count of one email.
CountClient(p) ==
    /\ stage[p] = "rows"
    /\ \E c \in todo[p] :
           /\ todo' = [todo EXCEPT ![p] = @ \ {c}]
           /\ IF c \in counters
              THEN UNCHANGED <<stage, missing>>
              ELSE Goes(p, "rows", "create") /\ missing' = [missing EXCEPT ![p] = {c}]
    /\ UNCHANGED <<dataVars, step, snap, starts>>

\* The email is a unique index: where there is a row by now, the process ends.
CreateClient(p) ==
    /\ missing[p] \cap counters = {}
    /\ Goes(p, "create", "rows")
    /\ counters' = counters \cup missing[p]
    /\ missing' = [missing EXCEPT ![p] = {}]
    /\ UNCHANGED <<recorded, hashings, account, port, issued, step, todo, snap, starts>>

Migrated(p) ==
    /\ todo[p] = {}
    /\ Goes(p, "hash", "record") \/ Goes(p, "rows", "record")
    /\ UNCHANGED <<dataVars, step, todo, snap, missing, starts>>

\* insertMigration; the ID is the primary key, so the second one ends here.
RecordMigration(p) ==
    /\ Goes(p, "record", "check")
    /\ Migrations[step[p]] \notin recorded
    /\ recorded' = recorded \cup {Migrations[step[p]]}
    /\ step' = [step EXCEPT ![p] = @ + 1]
    /\ UNCHANGED <<hashings, counters, account, port, issued, todo, snap, missing, starts>>

Opened(p) ==
    /\ step[p] > Len(Migrations)
    /\ Goes(p, "check", IF p = Panel THEN "setup" ELSE "up")
    /\ UNCHANGED <<dataVars, step, todo, snap, missing, starts>>

-----------------------------------------------------------------------------
(* RunFirstRunSetup and the banner                                          *)

CountUsers ==
    /\ Goes(Panel, "setup",
            IF ~account THEN "user" ELSE IF ~port THEN "port" ELSE "up")
    /\ UNCHANGED <<dataVars, step, todo, snap, missing, starts>>

CreateUser ==
    /\ Goes(Panel, "user", IF port THEN "token" ELSE "port")
    /\ account' = TRUE
    /\ UNCHANGED <<recorded, hashings, counters, port, issued, step, todo, snap, missing, starts>>

CreatePort ==
    /\ Goes(Panel, "port", "token")
    /\ port' = TRUE
    /\ UNCHANGED <<recorded, hashings, counters, account, issued, step, todo, snap, missing, starts>>

\* info is nil: no banner, and the panel goes on.
SetupFails ==
    /\ \E s \in {"setup", "user", "port"} : Goes(Panel, s, "up")
    /\ UNCHANGED <<dataVars, step, todo, snap, missing, starts>>

\* ListTokens, CreateToken("first-install"); an error is a line of the banner.
FirstToken ==
    /\ Goes(Panel, "token", "up")
    /\ \/ Tokens = {} /\ issued = 0 /\ issued' = 1
       \/ UNCHANGED issued
    /\ UNCHANGED <<recorded, hashings, counters, account, port, step, todo, snap, missing, starts>>

\* cmd_reset, with sqlite3 installed, between its stop and its start.
Reset ==
    /\ stage[Panel] = "down"
    /\ account' = FALSE /\ port' = FALSE
    /\ UNCHANGED <<recorded, hashings, counters, issued, procVars, starts>>

-----------------------------------------------------------------------------

Starting(p) ==
    \/ Start(p) \/ Dies(p) \/ Check(p) \/ HashToken(p) \/ CountClient(p) \/ CreateClient(p)
    \/ Migrated(p) \/ RecordMigration(p) \/ Opened(p)

Setup == CountUsers \/ CreateUser \/ CreatePort \/ SetupFails \/ FirstToken \/ Reset

-----------------------------------------------------------------------------

\* migrations.go:76-85 and 191-193: whoever has run how much of a migration
\* before it died, once it is recorded each token of before has been hashed
\* once and each client has its row.  main.go:92-94: resets add no token.
UpgradeIsWhole ==
    /\ "hash" \in recorded => \A t \in Tokens : hashings[t] = 1
    /\ "rows" \in recorded => counters = Client
    /\ issued <= (IF Tokens = {} THEN 1 ELSE 0)
=============================================================================
