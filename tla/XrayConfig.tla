------------------------------- MODULE XrayConfig -------------------------------
(***************************************************************************)
(* The tables xray's config is built from, the requests that change them,  *)
(* and the config itself:                                                  *)
(*   web/service/inbound.go      AddInbound(s), UpdateInbound,             *)
(*                               SetEnableMany and their checks            *)
(*   web/service/outbound.go     Add, Update, SetEnable, Delete(Many)      *)
(*   web/service/block_rule.go   Add, Update, SetEnable, Delete,           *)
(*                               ApplyPreset                               *)
(*   web/service/xray.go         GetXrayConfig, injectBlockRules,          *)
(*                               injectUserOutbounds                       *)
(*   web/service/xray_dryrun.go  what is validated before it is saved      *)
(*                                                                         *)
(* Every SQL statement is a step, and so is the run of xray that validates *)
(* a candidate config.  Whether xray accepts a row is a field of the row.  *)
(***************************************************************************)
EXTENDS Naturals, Sequences, FiniteSetsExt, Functions

CONSTANTS
    Port,
    Protocol, MultiUser,   \* the protocols, and those with settings.clients[]
    Tag,                   \* tags of outbounds
    Direct,                \* no outbound: xray's own exit
    Blocked,               \* the template's black hole
    Dest,                  \* kinds of traffic that rules tell apart
    Template,              \* the template's rules
    Everyone,              \* a block rule for all inbounds
    Request,
    Kinds,                 \* the requests that occur
    Alone,                 \* those that never overlap another one
    MaxInbounds, MaxRules, \* bounds on the inbounds ever made, and on the block rules
    MaxOps                 \* bound on the requests

Kind == {"create", "bulk", "edit", "enable", "disable", "delete", "deleteAll", "newOutbound",
         "editOutbound", "toggleOutbound", "dropOutbound", "dropOutbounds", "newRule",
         "editRule", "toggleRule", "dropRule", "preset"}

Id == 1..MaxInbounds
RuleId == 1..MaxRules

\* ok: xray accepts the row.  named: the tag is inbound-<port>, or else empty.
Inbound == [port : Port, protocol : Protocol, out : Tag \cup {Direct}, named : BOOLEAN,
            on : BOOLEAN, ok : BOOLEAN]
Outbound == [on : BOOLEAN]
BlockRule == [scope : Port \cup {Everyone}, to : SUBSET Dest \ {{}}, on : BOOLEAN, ok : BOOLEAN]
NoRow == [none |-> TRUE]

ConstantsOK ==
    /\ MultiUser \subseteq Protocol
    /\ {Direct, Blocked} \cap Tag = {}
    /\ Everyone \notin Port
    /\ Template \in Seq([from : SUBSET Port, to : SUBSET Dest, out : Tag \cup {Direct, Blocked}])
    /\ Kinds \subseteq Kind /\ Alone \subseteq Kind
    /\ MaxInbounds \in Nat /\ MaxRules \in Nat /\ MaxOps \in Nat

VARIABLES
    inbounds,     \* inbounds[i], for those that exist
    made,         \* the last id given to one
    outbounds,    \* outbounds[t], for those that exist
    rules,        \* rules[k]: the block rules, for those that exist
    pc, kind,     \* a request: where it is, what it is
    target,       \* the rows it writes: ids, or a tag
    body,         \* the row it will write
    sound,        \* the other inbounds of its candidate config pass
    ops

tables == <<inbounds, made, outbounds, rules>>
reqVars == <<pc, kind, target, body, sound>>
vars == <<tables, reqVars, ops>>

TypeOK ==
    /\ DOMAIN inbounds \subseteq Id /\ \A i \in DOMAIN inbounds : inbounds[i] \in Inbound
    /\ made \in Id \cup {0} /\ \A i \in DOMAIN inbounds : i <= made
    /\ DOMAIN outbounds \subseteq Tag /\ \A t \in DOMAIN outbounds : outbounds[t] \in Outbound
    /\ DOMAIN rules \subseteq RuleId /\ \A k \in DOMAIN rules : rules[k] \in BlockRule
    /\ pc \in [Request -> {"idle", "port", "singleton", "load", "snapshot", "test", "save",
                           "update", "outbound", "drop", "rule"}]
    /\ kind \in [Request -> Kind]
    /\ target \in [Request -> SUBSET (Id \cup Tag \cup RuleId)]
    /\ body \in [Request -> Inbound \cup Outbound \cup BlockRule \cup {NoRow}]
    /\ sound \in [Request -> BOOLEAN]
    /\ \A r \in Request : pc[r] = "save" => body[r] \in Inbound
    /\ ops \in 0..MaxOps

Empty == [x \in {} |-> NoRow]

Init ==
    /\ inbounds = Empty /\ made = 0
    /\ outbounds = Empty /\ rules = Empty
    /\ pc = [r \in Request |-> "idle"]
    /\ kind = [r \in Request |-> "edit"]
    /\ target = [r \in Request |-> {}]
    /\ body = [r \in Request |-> NoRow]
    /\ sound = [r \in Request |-> FALSE]
    /\ ops = 0

\* f with f[x] = v.
With(f, x, v) == [y \in DOMAIN f \cup {x} |-> IF y = x THEN v ELSE f[y]]
Without(f, S) == Restrict(f, DOMAIN f \ S)

Arrives(r, k) ==
    /\ pc[r] = "idle" /\ k \in Kinds
    /\ \A s \in Request : pc[s] # "idle" => {k, kind[s]} \cap Alone = {}
    /\ ops < MaxOps /\ ops' = ops + 1

At(r, l) == pc' = [pc EXCEPT ![r] = l]

Starts(r, k, l, t, b) ==
    /\ Arrives(r, k)
    /\ At(r, l)
    /\ kind' = [kind EXCEPT ![r] = k]
    /\ target' = [target EXCEPT ![r] = t]
    /\ body' = [body EXCEPT ![r] = b]
    /\ UNCHANGED <<tables, sound>>

\* A request of one statement.
Write(r, k) == Arrives(r, k) /\ UNCHANGED reqVars

Ends(r) ==
    /\ At(r, "idle")
    /\ kind' = [kind EXCEPT ![r] = "edit"]
    /\ target' = [target EXCEPT ![r] = {}]
    /\ body' = [body EXCEPT ![r] = NoRow]
    /\ sound' = [sound EXCEPT ![r] = FALSE]
    /\ UNCHANGED ops

-----------------------------------------------------------------------------
(* Inbounds.                                                                *)

\* The panel names the inbound after its port and enables it; the API takes the body.
AddInbound(r) ==
    \E b \in Inbound : Starts(r, "create", "port", {}, b)

\* Of one inbound.
AddInbounds(r) ==
    \E b \in Inbound : Starts(r, "bulk", "port", {}, b)

UpdateInbound(r) ==
    \E i \in 1..made, b \in Inbound : Starts(r, "edit", "port", {i}, b)

\* No other inbound has the port.
CheckPortExist(r) ==
    /\ pc[r] = "port"
    /\ \A i \in DOMAIN inbounds \ target[r] : inbounds[i].port # body[r].port
    /\ At(r, "singleton")
    /\ UNCHANGED <<tables, kind, target, body, sound, ops>>

SameExit(a, b) == a.protocol = b.protocol /\ a.protocol \in MultiUser /\ a.out = b.out

\* Mutant: the row is validated when the inbound was enabled before.
TestsIfItWasOn(r) ==
    \/ kind[r] = "bulk"
    \/ \E i \in target[r] \cap DOMAIN inbounds : inbounds[i].on

\* Disabled rows are not validated, except in a batch.
NeedsTest(r) == body[r].on \/ kind[r] = "bulk"

\* No other inbound of a multi-user protocol leaves through the same outbound.
CheckProtocolSingleton(r) ==
    /\ pc[r] = "singleton"
    /\ \A i \in DOMAIN inbounds \ target[r] : ~SameExit(inbounds[i], body[r])
    /\ At(r, IF kind[r] = "edit" THEN "load" ELSE IF NeedsTest(r) THEN "snapshot" ELSE "save")
    /\ UNCHANGED <<tables, kind, target, body, sound, ops>>

\* GetInbound: everything but the outbound is replaced, and the tag follows the port.
GetInbound(r) ==
    /\ pc[r] = "load"
    /\ \E i \in target[r] \cap DOMAIN inbounds :
          body' = [body EXCEPT ![r].out = inbounds[i].out, ![r].named = TRUE]
    /\ At(r, IF NeedsTest(r) THEN "snapshot" ELSE "save")
    /\ UNCHANGED <<tables, kind, target, sound, ops>>

\* The candidate: all rows, and those of the request in their place.
GetAllInbounds(r) ==
    /\ pc[r] = "snapshot"
    /\ sound' = [sound EXCEPT ![r] =
          /\ \A i \in DOMAIN inbounds \ target[r] : inbounds[i].on => inbounds[i].ok
          /\ kind[r] = "enable" => \A i \in DOMAIN inbounds \cap target[r] : inbounds[i].ok]
    /\ At(r, "test")
    /\ UNCHANGED <<tables, kind, target, body, ops>>

RulesOK == \A k \in DOMAIN rules : rules[k].on => rules[k].ok

\* xray -test, of the template, the block rules and the candidate inbounds; the
\* outbounds and their rules are left out.
DryRun(r) ==
    /\ pc[r] = "test"
    /\ sound[r] /\ RulesOK
    /\ kind[r] # "enable" /\ body[r].on => body[r].ok
    /\ At(r, IF kind[r] = "enable" THEN "update" ELSE "save")
    /\ UNCHANGED <<tables, kind, target, body, sound, ops>>

\* Insert, or update by id (insert if it was deleted); port and tag are unique.
Fits(b, others) ==
    \A i \in others : inbounds[i].port # b.port /\ (inbounds[i].named \/ b.named)

\* Mutant: the id that was given is given again.
KeepsId(r) ==
    /\ pc[r] = "save" /\ kind[r] # "edit"
    /\ made + 1 \in Id /\ made' = made
    /\ Fits(body[r], DOMAIN inbounds)
    /\ inbounds' = With(inbounds, made + 1, body[r])
    /\ Ends(r)
    /\ UNCHANGED <<outbounds, rules>>

Create(r) ==
    /\ pc[r] = "save" /\ kind[r] # "edit"
    /\ made + 1 \in Id /\ made' = made + 1
    /\ Fits(body[r], DOMAIN inbounds)
    /\ inbounds' = With(inbounds, made + 1, body[r])
    /\ Ends(r)
    /\ UNCHANGED <<outbounds, rules>>

Save(r) ==
    /\ pc[r] = "save" /\ kind[r] = "edit"
    /\ Fits(body[r], DOMAIN inbounds \ target[r])
    /\ \E i \in target[r] : inbounds' = With(inbounds, i, body[r])
    /\ Ends(r)
    /\ UNCHANGED <<made, outbounds, rules>>

SwitchedTo(b, S) ==
    [i \in DOMAIN inbounds |-> IF i \in S THEN [inbounds[i] EXCEPT !.on = b] ELSE inbounds[i]]

\* SetEnableMany.
EnableMany(r) ==
    \E S \in SUBSET (1..made) \ {{}} : Starts(r, "enable", "snapshot", S, NoRow)

Enable(r) ==
    /\ pc[r] = "update"
    /\ inbounds' = SwitchedTo(TRUE, target[r])
    /\ Ends(r)
    /\ UNCHANGED <<made, outbounds, rules>>

\* Without a dry run; also what DisableInvalidInbounds does.
DisableMany(r) ==
    /\ Write(r, "disable")
    /\ \E S \in SUBSET DOMAIN inbounds : inbounds' = SwitchedTo(FALSE, S)
    /\ UNCHANGED <<made, outbounds, rules>>

DelInbound(r) ==
    /\ Write(r, "delete")
    /\ \E i \in DOMAIN inbounds : inbounds' = Without(inbounds, {i})
    /\ UNCHANGED <<made, outbounds, rules>>

DeleteAll(r) ==
    /\ Write(r, "deleteAll")
    /\ inbounds' = Empty
    /\ UNCHANGED <<made, outbounds, rules>>

-----------------------------------------------------------------------------
(* Outbounds, none of them validated by xray.                               *)
AddOutbound(r) ==
    /\ Write(r, "newOutbound")
    /\ \E t \in Tag \ DOMAIN outbounds, b \in Outbound : outbounds' = With(outbounds, t, b)
    /\ UNCHANGED <<inbounds, made, rules>>

\* Get ...
UpdateOutbound(r) ==
    \E t \in DOMAIN outbounds, b \in Outbound : Starts(r, "editOutbound", "outbound", {t}, b)

SetOutboundEnable(r) ==
    \E t \in DOMAIN outbounds, on \in BOOLEAN :
        Starts(r, "toggleOutbound", "outbound", {t}, [outbounds[t] EXCEPT !.on = on])

\* ... then Save, which inserts the row again if it was deleted.
SaveOutbound(r) ==
    /\ pc[r] = "outbound"
    /\ \E t \in target[r] : outbounds' = With(outbounds, t, body[r])
    /\ Ends(r)
    /\ UNCHANGED <<inbounds, made, rules>>

Unbound(S) ==
    [i \in DOMAIN inbounds |-> IF inbounds[i].out \in S THEN [inbounds[i] EXCEPT !.out = Direct]
                               ELSE inbounds[i]]

\* Mutant: the row is deleted first, and then the inbounds are unbound.
DeletesFirst(r) ==
    \E t \in DOMAIN outbounds :
        /\ Arrives(r, "dropOutbound")
        /\ At(r, "drop")
        /\ kind' = [kind EXCEPT ![r] = "dropOutbound"]
        /\ target' = [target EXCEPT ![r] = {t}]
        /\ outbounds' = Without(outbounds, {t})
        /\ UNCHANGED <<inbounds, made, rules, body, sound>>

\* Delete: the inbounds that use it exit directly ...
DeleteOutbound(r) ==
    \E t \in DOMAIN outbounds :
        /\ Arrives(r, "dropOutbound")
        /\ At(r, "drop")
        /\ kind' = [kind EXCEPT ![r] = "dropOutbound"]
        /\ target' = [target EXCEPT ![r] = {t}]
        /\ inbounds' = Unbound({t})
        /\ UNCHANGED <<made, outbounds, rules, body, sound>>

\* ... then the row goes.
DropOutbound(r) ==
    /\ pc[r] = "drop"
    /\ outbounds' = Without(outbounds, target[r])
    /\ Ends(r)
    /\ UNCHANGED <<inbounds, made, rules>>

\* DeleteMany: one transaction.
DeleteOutbounds(r) ==
    /\ Write(r, "dropOutbounds")
    /\ \E S \in SUBSET DOMAIN outbounds \ {{}} :
          /\ inbounds' = Unbound(S)
          /\ outbounds' = Without(outbounds, S)
    /\ UNCHANGED <<made, rules>>

-----------------------------------------------------------------------------
(* Block rules, neither.                                                    *)
AddRule(r) ==
    /\ Write(r, "newRule")
    /\ \E k \in RuleId \ DOMAIN rules, b \in BlockRule : rules' = With(rules, k, b)
    /\ UNCHANGED <<inbounds, made, outbounds>>

UpdateRule(r) ==
    \E k \in DOMAIN rules, b \in BlockRule : Starts(r, "editRule", "rule", {k}, b)

SaveRule(r) ==
    /\ pc[r] = "rule"
    /\ \E k \in target[r] : rules' = With(rules, k, body[r])
    /\ Ends(r)
    /\ UNCHANGED <<inbounds, made, outbounds>>

SetRuleEnable(r) ==
    /\ Write(r, "toggleRule")
    /\ \E k \in DOMAIN rules, on \in BOOLEAN : rules' = [rules EXCEPT ![k].on = on]
    /\ UNCHANGED <<inbounds, made, outbounds>>

DeleteRule(r) ==
    /\ Write(r, "dropRule")
    /\ \E k \in DOMAIN rules : rules' = Without(rules, {k})
    /\ UNCHANGED <<inbounds, made, outbounds>>

\* One transaction: a rule that is there is enabled, any other is inserted.  Of the
\* rules of a preset, one.
ApplyPreset(r) ==
    /\ Write(r, "preset")
    /\ \E b \in {c \in BlockRule : c.on} :
          LET same == {k \in DOMAIN rules : [rules[k] EXCEPT !.on = TRUE] = b}
          IN  IF same # {} THEN rules' = [rules EXCEPT ![Min(same)].on = TRUE]
              ELSE \E k \in RuleId \ DOMAIN rules : rules' = With(rules, k, b)
    /\ UNCHANGED <<inbounds, made, outbounds>>

-----------------------------------------------------------------------------
\* A check or the dry run refuses, or a statement fails: what was written stays.
Refused(r) ==
    /\ pc[r] # "idle"
    /\ Ends(r)
    /\ UNCHANGED tables

Arrival(r) ==
    \/ AddInbound(r) \/ AddInbounds(r) \/ UpdateInbound(r) \/ EnableMany(r) \/ DisableMany(r)
    \/ DelInbound(r) \/ DeleteAll(r)
    \/ AddOutbound(r) \/ UpdateOutbound(r) \/ SetOutboundEnable(r) \/ DeleteOutbound(r)
    \/ DeleteOutbounds(r)
    \/ AddRule(r) \/ UpdateRule(r) \/ SetRuleEnable(r) \/ DeleteRule(r) \/ ApplyPreset(r)

RequestStep(r) ==
    \/ CheckPortExist(r) \/ CheckProtocolSingleton(r) \/ GetInbound(r) \/ GetAllInbounds(r)
    \/ DryRun(r) \/ Create(r) \/ Save(r) \/ Enable(r)
    \/ SaveOutbound(r) \/ DropOutbound(r) \/ SaveRule(r)

Idle == \A r \in Request : pc[r] = "idle"

\* The panel dies with all its handlers.
Dies ==
    /\ ~Idle
    /\ pc' = [r \in Request |-> "idle"]
    /\ kind' = [r \in Request |-> "edit"]
    /\ target' = [r \in Request |-> {}]
    /\ body' = [r \in Request |-> NoRow]
    /\ sound' = [r \in Request |-> FALSE]
    /\ UNCHANGED <<tables, ops>>

\* The panel waits for the next request.
Rest == Idle /\ UNCHANGED vars

Next == (\E r \in Request : Arrival(r) \/ RequestStep(r) \/ Refused(r)) \/ Dies \/ Rest

Spec == Init /\ [][Next]_vars

-----------------------------------------------------------------------------
(* The config: routing.rules of GetXrayConfig, each for the traffic of some *)
(* inbounds to some destinations.                                           *)
Rank(k, S) == Cardinality({j \in S : j < k})

\* The values of f in the order of their keys.
ByKey(f, S) == [n \in 1..Cardinality(S) |-> f[CHOOSE k \in S : Rank(k, S) = n - 1]]

\* GenXrayRoutingRulesForInbounds.
RelayRules ==
    LET bound == {i \in DOMAIN inbounds :
                    inbounds[i].on /\ inbounds[i].named /\ inbounds[i].out # Direct}
    IN  ByKey([i \in bound |-> [from |-> {inbounds[i].port}, to |-> Dest,
                                out |-> inbounds[i].out]], bound)

\* GenXrayRoutingRules; that it merges rules of one scope and type changes no match.
BlockRules ==
    LET enabled == {k \in DOMAIN rules : rules[k].on}
    IN  ByKey([k \in enabled |->
                 [from |-> IF rules[k].scope = Everyone THEN Port ELSE {rules[k].scope},
                  to |-> rules[k].to, out |-> Blocked]], enabled)

\* Mutant: the relay rules are appended.
AppendsRelayRules == BlockRules \o Template \o RelayRules

\* injectBlockRules, then injectUserOutbounds: each prepends.  (One that cannot read
\* its table is left out with a warning, xray.go:142-152; here both can.)
RoutingRules == RelayRules \o BlockRules \o Template

\* xray takes the first rule that matches, or else its default outbound.
Exit(i, d) ==
    LET hits == {n \in DOMAIN RoutingRules :
                   inbounds[i].port \in RoutingRules[n].from /\ d \in RoutingRules[n].to}
    IN  IF hits = {} THEN Direct ELSE RoutingRules[Min(hits)].out

Forbidden(i, d) ==
    \E k \in DOMAIN rules :
        /\ rules[k].on /\ d \in rules[k].to
        /\ rules[k].scope \in {Everyone, inbounds[i].port}

-----------------------------------------------------------------------------
(* Properties.                                                              *)

\* inbound_dryrun_test.go:93-96: an inbound that xray rejects is never enabled, so
\* it cannot take the others down, however edits overlap.
EnabledIsValid == \A i \in DOMAIN inbounds : inbounds[i].on => inbounds[i].ok

\* outbound.go:144-145: when an outbound goes, no inbound is left bound to it, also
\* when the panel dies in between.
UnboundWhenDeleted ==
    [][\A t \in DOMAIN outbounds \ DOMAIN outbounds' :
          \A i \in DOMAIN inbounds' : inbounds'[i].out # t]_vars

\* block_rule.go:295-296 and xray.go:147-149: whatever the template says, what a block
\* rule forbids an inbound that exits directly is black-holed, and the traffic of
\* one that is bound to an outbound leaves there; a block rule may catch it.
RulesApply ==
    \A i \in DOMAIN inbounds, d \in Dest :
        inbounds[i].named =>
            IF inbounds[i].out = Direct THEN Forbidden(i, d) => Exit(i, d) = Blocked
            ELSE inbounds[i].on => Exit(i, d) = inbounds[i].out \/ Forbidden(i, d)

\* block_rule.go:295-296, model.go:145-146: block rules come first, for every inbound.
BlockRulesFirst ==
    \A i \in DOMAIN inbounds, d \in Dest :
        inbounds[i].on /\ inbounds[i].named /\ Forbidden(i, d) => Exit(i, d) = Blocked
=============================================================================
