------------------------------- MODULE Handlers -------------------------------
(***************************************************************************)
(* The handlers over the services of XrayConfig and ClientRegistry: what   *)
(* each calls, and who tells xray about it.                                *)
(*   web/controller/api/v1.go       /api/v1                                *)
(*   web/controller/inbound.go, outbound.go, block_rule.go  the panel      *)
(*   web/service/client.go          raises the flag itself                 *)
(*                                                                         *)
(* A handler that has written owes SetToNeedRestart until it has called    *)
(* it; the tick takes the flag at any time.  A restart is one step here,   *)
(* which succeeds, or fails and leaves xray as it was: XrayControl is      *)
(* about its steps.  The two services share no state, so a behaviour moves *)
(* one part.                                                               *)
(***************************************************************************)
EXTENDS Naturals, FiniteSets

CONSTANTS
    Port, Protocol, MultiUser, Tag, Direct, Blocked, Dest, Template, Everyone,
    Request, Kinds, Alone, MaxInbounds, MaxRules, MaxOps,
    Email, Editor, Home, EditKinds, MaxEdits, MaxBoots

VARIABLES
    inbounds, made, outbounds, rules, pc, kind, target, body, sound, ops,
    clients, created, row, rowIds, stage, at, list, todo, found, writing, drop, extra,
    unsynced, edits, boots,
    part,     \* the service that moves: "config" or "clients"
    flag,     \* isNeedXrayRestart
    stale,    \* history: the config has changed since xray was started with it
    owes,     \* what a handler whose service has returned has yet to do: raise the flag,
              \* or restart xray
    lapse     \* history: since the flag was last raised a statement failed after another
              \* had changed the config, or a tick took the flag and failed

C == INSTANCE XrayConfig
R == INSTANCE ClientRegistry WITH
        Request <- Editor, Kinds <- EditKinds, MaxOps <- MaxEdits,
        made <- created, rows <- rowIds, pc <- stage, ops <- edits

configVars == <<inbounds, made, outbounds, rules, pc, kind, target, body, sound, ops>>
clientVars == <<clients, created, row, rowIds, stage, at, list, todo, found, writing, drop,
                extra, unsynced, edits, boots>>
flagVars == <<part, flag, stale, owes, lapse>>
vars == <<configVars, clientVars, flagVars>>

ASSUME HandlersConstants ==
    /\ C!ConstantsOK /\ R!ConstantsOK
    /\ Request \cap Editor = {}

TypeOK ==
    /\ C!TypeOK /\ R!TypeOK
    /\ part \in {"config", "clients"}
    /\ flag \in BOOLEAN /\ stale \in BOOLEAN /\ lapse \in BOOLEAN
    /\ owes \in [Request \cup Editor -> {"nothing", "flag", "restart"}]
    /\ \A r \in Request : owes[r] # "nothing" => pc[r] = "idle"

Init ==
    /\ C!Init /\ R!Init
    /\ part \in {"config", "clients"}
    /\ flag = FALSE /\ stale = FALSE /\ lapse = FALSE
    /\ owes = [r \in Request \cup Editor |-> "nothing"]

Enabled(f) == [x \in {y \in DOMAIN f : f[y].on} |-> f[x]]

\* What xray would be started with.
ConfigNow == <<Enabled(inbounds), Enabled(outbounds), Enabled(rules), clients>>

Changes == stale' = (stale \/ ConfigNow' # ConfigNow)

OfConfig(X) == part = "config" /\ X /\ UNCHANGED <<clientVars, part, flag>> /\ Changes
OfClients(X) == part = "clients" /\ X /\ UNCHANGED <<configVars, part, flag>> /\ Changes

Free(r) == owes[r] = "nothing"

Waits(r) == Free(r) /\ UNCHANGED <<owes, lapse>>

Owes(r, what) == owes' = [owes EXCEPT ![r] = what] /\ UNCHANGED lapse

\* The service has returned no error.
Returns(r) == Free(r) /\ Owes(r, "flag")

\* What C!Arrival does with one statement is done when it arrives.
AtOnce(r) == IF pc'[r] = "idle" THEN Returns(r) ELSE Waits(r)

-----------------------------------------------------------------------------
(* The families of handlers.                                                *)

\* add, update, del.
InboundHandlers(r) ==
    OfConfig(/\ C!AddInbound(r) \/ C!UpdateInbound(r) \/ C!DelInbound(r)
             /\ AtOnce(r))

\* bulkCreateInbounds, bulkSetEnable, bulkDelete: at most maxBulkIDs ids.
BulkHandlers(r) ==
    OfConfig(/\ C!AddInbounds(r) \/ C!EnableMany(r) \/ C!DisableMany(r)
             /\ AtOnce(r))

\* Mutant: the handler raises no flag.
EmptiesSilently(r) == OfConfig(C!DeleteAll(r) /\ Waits(r))

\* delAllInbounds.
DelAllInbounds(r) == OfConfig(C!DeleteAll(r) /\ AtOnce(r))

\* Raises the flag if a row was affected.
DisableInvalidInbounds(r) ==
    OfConfig(/\ C!DisableMany(r)
             /\ IF inbounds' = inbounds THEN Waits(r) ELSE Returns(r))

\* Add, update, delete, toggle.
OutboundController(r) ==
    C!AddOutbound(r) \/ C!UpdateOutbound(r) \/ C!SetOutboundEnable(r) \/ C!DeleteOutbound(r)

\* The API also has bulkDeleteOutbounds.
OutboundHandlers(r) ==
    OfConfig(/\ OutboundController(r) \/ C!DeleteOutbounds(r)
             /\ AtOnce(r))

\* Add, update, delete, toggle, applyPreset.
BlockRuleController(r) ==
    \/ C!AddRule(r) \/ C!UpdateRule(r) \/ C!SetRuleEnable(r) \/ C!DeleteRule(r)
    \/ C!ApplyPreset(r)

\* The same.
RuleHandlers(r) == OfConfig(BlockRuleController(r) /\ AtOnce(r))

\* The steps of a service, and its return.
Service(r) ==
    \/ OfConfig(/\ \/ C!CheckPortExist(r) \/ C!CheckProtocolSingleton(r) \/ C!GetInbound(r)
                   \/ C!GetAllInbounds(r) \/ C!DryRun(r)
                /\ Waits(r))
    \/ OfConfig(/\ \/ C!Create(r) \/ C!Save(r) \/ C!Enable(r)
                   \/ C!SaveOutbound(r) \/ C!DropOutbound(r) \/ C!SaveRule(r)
                /\ Returns(r))

\* The panel's update of an inbound will restart xray itself.
UpdateFromPanel(r) == OfConfig(C!Save(r) /\ Free(r) /\ Owes(r, "restart"))

\* Any error is answered without the flag, also when the first statement of
\* OutboundService.Delete had changed the inbounds.
ServiceFails(r) ==
    /\ OfConfig(C!Refused(r) /\ Free(r) /\ UNCHANGED owes)
    /\ lapse' = (lapse \/ (pc[r] = "drop" /\ stale))

-----------------------------------------------------------------------------
\* Add, update and delete of a client, of an inbound with clients.
ClientHandlers(r) ==
    OfClients(R!Arrival(r) /\ IF stage'[r] = "idle" THEN Returns(r) ELSE Waits(r))

\* AddClient, UpdateClient and DeleteClient ignore the errors of the rows; the row
\* of a client that is not listed goes without the flag.
EditStep(r) ==
    \/ OfClients(/\ \/ R!GetInbound(r) \/ R!Refused(r) \/ R!Save(r) \/ R!Synced(r)
                    \/ R!DeleteByEmail(r)
                    \/ \E e \in Email :
                          R!EnsureRead(r, e) \/ R!EnsureCreate(r, e) \/ R!EnsureSave(r, e)
                 /\ Waits(r))
    \/ OfClients(R!Done(r) /\ IF at[r] = 0 THEN Waits(r) ELSE Returns(r))

-----------------------------------------------------------------------------
SetToNeedRestart(r) ==
    /\ owes[r] = "flag" /\ owes' = [owes EXCEPT ![r] = "nothing"]
    /\ flag' = TRUE /\ lapse' = FALSE
    /\ UNCHANGED <<configVars, clientVars, part, stale>>

RestartNow(r) ==
    /\ owes[r] = "restart" /\ owes' = [owes EXCEPT ![r] = "nothing"]
    /\ stale' = FALSE /\ lapse' = FALSE
    /\ UNCHANGED <<configVars, clientVars, part, flag>>

\* The tick is to make up for it.
RestartFails(r) ==
    /\ owes[r] = "restart" /\ Owes(r, "flag")
    /\ UNCHANGED <<configVars, clientVars, part, flag, stale>>

Tick ==
    /\ flag /\ flag' = FALSE
    /\ stale' = FALSE /\ lapse' = FALSE
    /\ UNCHANGED <<configVars, clientVars, part, owes>>

\* A table cannot be read: the flag has been taken, and the error is only logged.
TickFails ==
    /\ flag /\ flag' = FALSE
    /\ lapse' = (lapse \/ stale)
    /\ UNCHANGED <<configVars, clientVars, part, stale, owes>>

\* startTask starts xray with what the tables hold.
Restarted ==
    /\ flag' = FALSE /\ stale' = FALSE /\ lapse' = FALSE
    /\ owes' = [r \in Request \cup Editor |-> "nothing"]
    /\ UNCHANGED part

Boot ==
    \/ part = "clients" /\ R!Boot /\ Restarted /\ UNCHANGED configVars
    \/ part = "config" /\ C!Dies /\ Restarted /\ UNCHANGED clientVars

\* The panel waits for the next request.
Rest == (\A r \in DOMAIN owes : Free(r)) /\ C!Idle /\ R!Idle /\ ~flag /\ UNCHANGED vars

Next ==
    \/ \E r \in Request :
          \/ InboundHandlers(r) \/ BulkHandlers(r) \/ DelAllInbounds(r)
          \/ DisableInvalidInbounds(r) \/ OutboundHandlers(r) \/ RuleHandlers(r)
          \/ Service(r) \/ UpdateFromPanel(r) \/ ServiceFails(r)
          \/ RestartNow(r) \/ RestartFails(r)
    \/ \E r \in Editor : ClientHandlers(r) \/ EditStep(r)
    \/ \E r \in Request \cup Editor : SetToNeedRestart(r)
    \/ Tick \/ TickFails \/ Boot \/ Rest

Spec == Init /\ [][Next]_vars

-----------------------------------------------------------------------------
(* Properties.                                                              *)
EnabledIsValid == C!EnabledIsValid
RulesApply == C!RulesApply
UnboundWhenDeleted == C!UnboundWhenDeleted
RowsCoverClients == R!RowsCoverClients
CountsSurvive == R!CountsSurvive

\* The service has changed the config, or may have, and has not returned.
Midway(r) ==
    IF r \in Editor THEN stage[r] \in {"rows", "write", "drop"} /\ at[r] # 0
    ELSE pc[r] = "drop"

\* Whatever handlers and ticks overlap, xray does not go on with a config that the
\* tables have left behind unless the flag is up or a handler is on its way to raise
\* it.  Two things are excepted, until the flag is next raised: a deletion of an
\* outbound that failed half way, and a tick that took the flag and failed.
ChangesAreNoticed ==
    stale => flag \/ lapse \/ \E r \in Request \cup Editor : ~Free(r) \/ Midway(r)
=============================================================================
