---------------------------- MODULE HandlersProofs ----------------------------
(* For any number of requests, inbounds, outbounds, rules and emails: no      *)
(* change of the config goes unnoticed, and where the code does not overlap  *)
(* what it must not, only valid rows are enabled, no inbound is left bound   *)
(* to an outbound that goes, and every client keeps its row.                 *)
EXTENDS Handlers, Sequences, FiniteSetTheorems, WellFoundedInduction, TLAPS

-----------------------------------------------------------------------------
(* Each part moves by its own actions.                                      *)
ConfigMove ==
    \/ \E r \in Request : C!Arrival(r) \/ C!RequestStep(r) \/ C!Refused(r)
    \/ C!Dies

ClientMove == (\E r \in Editor : R!Arrival(r) \/ R!RequestStep(r)) \/ R!Boot

LEMMA Moves ==
    ASSUME [Next]_vars
    PROVE  /\ ConfigMove \/ UNCHANGED configVars
           /\ ClientMove \/ UNCHANGED clientVars
<1>1. ASSUME NEW r \in Request,
             \/ InboundHandlers(r) \/ BulkHandlers(r) \/ DelAllInbounds(r)
             \/ DisableInvalidInbounds(r) \/ OutboundHandlers(r) \/ RuleHandlers(r)
             \/ Service(r) \/ UpdateFromPanel(r) \/ ServiceFails(r)
      PROVE  ConfigMove /\ UNCHANGED clientVars
  BY <1>1 DEF InboundHandlers, BulkHandlers, DelAllInbounds, DisableInvalidInbounds,
     OutboundHandlers, OutboundController, RuleHandlers, BlockRuleController, Service,
     UpdateFromPanel, ServiceFails, OfConfig, ConfigMove, C!Arrival, C!RequestStep
<1>2. ASSUME NEW r \in Editor, ClientHandlers(r) \/ EditStep(r)
      PROVE  ClientMove /\ UNCHANGED configVars
  BY <1>2 DEF ClientHandlers, EditStep, OfClients, ClientMove, R!RequestStep
<1>3. CASE \/ \E r \in Request : RestartNow(r) \/ RestartFails(r)
           \/ \E r \in Request \cup Editor : SetToNeedRestart(r)
           \/ Tick \/ TickFails \/ Rest \/ UNCHANGED vars
  BY <1>3 DEF RestartNow, RestartFails, SetToNeedRestart, Tick, TickFails, Rest, vars
<1>4. CASE Boot
  BY <1>4 DEF Boot, ConfigMove, ClientMove
<1> QED
  BY <1>1, <1>2, <1>3, <1>4 DEF Next

-----------------------------------------------------------------------------
(* Rows and tables.                                                         *)
LEMMA InboundParts ==
    ASSUME NEW b \in C!Inbound
    PROVE  /\ b.port \in Port /\ b.protocol \in Protocol /\ b.out \in Tag \cup {Direct}
           /\ b.named \in BOOLEAN /\ b.on \in BOOLEAN /\ b.ok \in BOOLEAN
           /\ \A o \in Tag \cup {Direct} :
                  /\ [b EXCEPT !.out = o] \in C!Inbound
                  /\ [b EXCEPT !.out = o].out = o
                  /\ [b EXCEPT !.out = o].on = b.on /\ [b EXCEPT !.out = o].ok = b.ok
                  /\ [b EXCEPT !.out = o, !.named = TRUE] \in C!Inbound
                  /\ [b EXCEPT !.out = o, !.named = TRUE].on = b.on
                  /\ [b EXCEPT !.out = o, !.named = TRUE].ok = b.ok
           /\ \A on \in BOOLEAN :
                  /\ [b EXCEPT !.on = on] \in C!Inbound
                  /\ [b EXCEPT !.on = on].on = on
                  /\ [b EXCEPT !.on = on].ok = b.ok /\ [b EXCEPT !.on = on].out = b.out
BY DEF C!Inbound

LEMMA SwitchedRow ==
    ASSUME NEW b \in C!Inbound, NEW on \in BOOLEAN
    PROVE  /\ [b EXCEPT !.on = on].ok = b.ok /\ [b EXCEPT !.on = on].on = on
           /\ [b EXCEPT !.on = on].port = b.port
BY DEF C!Inbound

LEMMA ReboundRow ==
    ASSUME NEW b \in C!Inbound, NEW o
    PROVE  /\ [b EXCEPT !.out = o].out = o
           /\ [b EXCEPT !.out = o].on = b.on /\ [b EXCEPT !.out = o].ok = b.ok
           /\ [b EXCEPT !.out = o].port = b.port
           /\ [b EXCEPT !.out = o, !.named = TRUE].on = b.on
           /\ [b EXCEPT !.out = o, !.named = TRUE].ok = b.ok
BY DEF C!Inbound

LEMMA RuleParts ==
    ASSUME NEW b \in C!BlockRule
    PROVE  \A on \in BOOLEAN : [b EXCEPT !.on = on] \in C!BlockRule
BY DEF C!BlockRule

LEMMA OutboundParts ==
    ASSUME NEW b \in C!Outbound
    PROVE  \A on \in BOOLEAN : [b EXCEPT !.on = on] \in C!Outbound
BY DEF C!Outbound

-----------------------------------------------------------------------------
(* The config: its tables and the requests on them.                         *)
TablesTyped ==
    /\ DOMAIN inbounds \subseteq C!Id /\ \A i \in DOMAIN inbounds : inbounds[i] \in C!Inbound
    /\ made \in C!Id \cup {0} /\ \A i \in DOMAIN inbounds : i <= made
    /\ DOMAIN outbounds \subseteq Tag /\ \A t \in DOMAIN outbounds : outbounds[t] \in C!Outbound
    /\ DOMAIN rules \subseteq C!RuleId /\ \A k \in DOMAIN rules : rules[k] \in C!BlockRule

Place == {"idle", "port", "singleton", "load", "snapshot", "test", "save", "update", "outbound",
          "drop", "rule"}

RequestsTyped ==
    /\ pc \in [Request -> Place]
    /\ kind \in [Request -> C!Kind]
    /\ target \in [Request -> SUBSET (C!Id \cup Tag \cup C!RuleId)]
    /\ body \in [Request -> C!Inbound \cup C!Outbound \cup C!BlockRule \cup {C!NoRow}]
    /\ sound \in [Request -> BOOLEAN]
    /\ ops \in 0..MaxOps

\* What a request at work carries.
Shape(r) ==
    /\ pc[r] \in {"port", "singleton", "load", "save"} =>
           /\ body[r] \in C!Inbound /\ target[r] \subseteq 1..made /\ kind[r] # "enable"
           /\ \A i, j \in target[r] : i = j
    /\ pc[r] \in {"snapshot", "test"} =>
           /\ target[r] \subseteq 1..made
           /\ kind[r] = "enable" \/ (body[r] \in C!Inbound /\ \A i, j \in target[r] : i = j)
    /\ pc[r] = "update" => target[r] \subseteq 1..made /\ kind[r] = "enable"
    /\ pc[r] = "outbound" => target[r] \subseteq Tag /\ body[r] \in C!Outbound
    /\ pc[r] = "drop" => kind[r] = "dropOutbound"
    /\ pc[r] = "rule" => target[r] \subseteq C!RuleId /\ body[r] \in C!BlockRule

\* A request of a kind that is alone overlaps no other.
Exclusive ==
    \A q, r \in Request :
        q # r /\ pc[q] # "idle" /\ pc[r] # "idle" => {kind[q], kind[r]} \cap Alone = {}

ConfigInv == TablesTyped /\ RequestsTyped /\ (\A r \in Request : Shape(r)) /\ Exclusive

LEMMA ConfigConstants ==
    /\ MaxInbounds \in Nat /\ MaxRules \in Nat /\ MaxOps \in Nat
    /\ Kinds \subseteq C!Kind /\ Request \cap Editor = {}
    /\ Direct \notin Tag
BY HandlersConstants DEF HandlersConstants, C!ConstantsOK

LEMMA InitConfig == C!Init => ConfigInv
<1> SUFFICES ASSUME C!Init
             PROVE  ConfigInv
  OBVIOUS
<1>1. TablesTyped
  BY ConfigConstants DEF C!Init, TablesTyped, C!Empty
<1>2. RequestsTyped
  BY ConfigConstants DEF C!Init, RequestsTyped, Place, C!Kind
<1>3. \A r \in Request : Shape(r) /\ pc[r] = "idle"
  BY DEF C!Init, Shape
<1> QED
  BY <1>1, <1>2, <1>3 DEF ConfigInv, Exclusive

\* A step of a request: what it starts with, what it writes at once, how it goes
\* on and how it ends.
Starting(r) ==
    \/ C!AddInbound(r) \/ C!AddInbounds(r) \/ C!UpdateInbound(r) \/ C!EnableMany(r)
    \/ C!UpdateOutbound(r) \/ C!SetOutboundEnable(r) \/ C!UpdateRule(r)
Writing(r) ==
    \/ C!DisableMany(r) \/ C!DelInbound(r) \/ C!DeleteAll(r) \/ C!AddOutbound(r)
    \/ C!DeleteOutbounds(r) \/ C!AddRule(r) \/ C!SetRuleEnable(r) \/ C!DeleteRule(r)
    \/ C!ApplyPreset(r)
Checking(r) ==
    \/ C!CheckPortExist(r) \/ C!CheckProtocolSingleton(r) \/ C!GetInbound(r)
    \/ C!GetAllInbounds(r) \/ C!DryRun(r)
Ending(r) ==
    \/ C!Create(r) \/ C!Save(r) \/ C!Enable(r) \/ C!SaveOutbound(r) \/ C!DropOutbound(r)
    \/ C!SaveRule(r) \/ C!Refused(r)

LEMMA StepKinds ==
    ASSUME ConfigMove
    PROVE  \/ \E r \in Request : \/ Starting(r) \/ Writing(r) \/ C!DeleteOutbound(r)
                                 \/ Checking(r) \/ Ending(r)
           \/ C!Dies
BY DEF ConfigMove, C!Arrival, C!RequestStep, Starting, Writing, Checking, Ending

LEMMA StartingShape ==
    ASSUME ConfigInv, NEW r \in Request, Starting(r)
    PROVE  /\ \E k \in C!Kind, l \in Place, t \in SUBSET (C!Id \cup Tag \cup C!RuleId),
                 b \in C!Inbound \cup C!Outbound \cup C!BlockRule \cup {C!NoRow} :
                 /\ C!Starts(r, k, l, t, b)
                 /\ \/ /\ l = "port" /\ t \subseteq 1..made /\ b \in C!Inbound /\ k # "enable"
                       /\ \A i, j \in t : i = j
                    \/ l = "snapshot" /\ t \subseteq 1..made /\ k = "enable"
                    \/ l = "outbound" /\ t \subseteq Tag /\ b \in C!Outbound /\ k # "enable"
                    \/ l = "rule" /\ t \subseteq C!RuleId /\ b \in C!BlockRule /\ k # "enable"
<1> USE DEF ConfigInv, TablesTyped, C!Kind, Place
<1>1. CASE C!AddInbound(r) \/ C!AddInbounds(r)
  <2>1. PICK b \in C!Inbound : C!Starts(r, "create", "port", {}, b) \/ C!Starts(r, "bulk", "port", {}, b)
    BY <1>1 DEF C!AddInbound, C!AddInbounds
  <2> QED
    BY <2>1
<1>2. CASE C!UpdateInbound(r)
  <2>1. PICK i \in 1..made, b \in C!Inbound : C!Starts(r, "edit", "port", {i}, b)
    BY <1>2 DEF C!UpdateInbound
  <2>2. {i} \subseteq 1..made /\ {i} \subseteq C!Id
    BY ConfigConstants DEF C!Id
  <2> QED
    BY <2>1, <2>2
<1>3. CASE C!EnableMany(r)
  <2>1. PICK S \in SUBSET (1..made) \ {{}} : C!Starts(r, "enable", "snapshot", S, C!NoRow)
    BY <1>3 DEF C!EnableMany
  <2>2. S \subseteq 1..made /\ S \subseteq C!Id
    BY ConfigConstants DEF C!Id
  <2> QED
    BY <2>1, <2>2
<1>4. CASE C!UpdateOutbound(r)
  <2>1. PICK t \in DOMAIN outbounds, b \in C!Outbound :
            C!Starts(r, "editOutbound", "outbound", {t}, b)
    BY <1>4 DEF C!UpdateOutbound
  <2> QED
    BY <2>1
<1>5. CASE C!SetOutboundEnable(r)
  <2>1. PICK t \in DOMAIN outbounds, on \in BOOLEAN :
            C!Starts(r, "toggleOutbound", "outbound", {t}, [outbounds[t] EXCEPT !.on = on])
    BY <1>5 DEF C!SetOutboundEnable
  <2>2. [outbounds[t] EXCEPT !.on = on] \in C!Outbound
    BY OutboundParts
  <2> QED
    BY <2>1, <2>2
<1>6. CASE C!UpdateRule(r)
  <2>1. PICK k \in DOMAIN rules, b \in C!BlockRule : C!Starts(r, "editRule", "rule", {k}, b)
    BY <1>6 DEF C!UpdateRule
  <2> QED
    BY <2>1
<1> QED
  BY <1>1, <1>2, <1>3, <1>4, <1>5, <1>6 DEF Starting

LEMMA TablesNext ==
    ASSUME ConfigInv, ConfigMove
    PROVE  TablesTyped'
<1> USE DEF ConfigInv, TablesTyped
<1>1. ASSUME NEW r \in Request, Starting(r)
      PROVE  TablesTyped'
  BY <1>1, StartingShape DEF C!Starts, C!tables
<1>2. ASSUME NEW r \in Request, Checking(r)
      PROVE  TablesTyped'
  BY <1>2 DEF Checking, C!CheckPortExist, C!CheckProtocolSingleton, C!GetInbound,
     C!GetAllInbounds, C!DryRun, C!tables
<1>3. ASSUME NEW r \in Request, C!DisableMany(r) \/ C!Enable(r)
      PROVE  TablesTyped'
  <2>1. PICK on \in BOOLEAN : \E S : inbounds' = C!SwitchedTo(on, S)
    BY <1>3 DEF C!DisableMany, C!Enable
  <2>4. PICK S : inbounds' = C!SwitchedTo(on, S)
    BY <2>1
  <2>2. DOMAIN inbounds' = DOMAIN inbounds /\ \A i \in DOMAIN inbounds : inbounds'[i] \in C!Inbound
    BY <2>4, InboundParts DEF C!SwitchedTo
  <2>3. UNCHANGED <<made, outbounds, rules>>
    BY <1>3 DEF C!DisableMany, C!Enable
  <2> QED
    BY <2>2, <2>3
<1>4. ASSUME NEW r \in Request, C!DelInbound(r) \/ C!DeleteAll(r)
      PROVE  TablesTyped'
  BY <1>4 DEF C!DelInbound, C!DeleteAll, C!Empty, C!Without, C!Restrict
<1>5. ASSUME NEW r \in Request, C!Create(r)
      PROVE  TablesTyped'
  <2>1. body[r] \in C!Inbound /\ made' = made + 1 /\ made + 1 \in C!Id
    BY <1>5 DEF C!Create, Shape
  <2>2. inbounds' = C!With(inbounds, made + 1, body[r]) /\ UNCHANGED <<outbounds, rules>>
    BY <1>5 DEF C!Create
  <2>3. \A i \in DOMAIN inbounds : i <= made + 1
    BY ConfigConstants DEF C!Id
  <2> QED
    BY <2>1, <2>2, <2>3, ConfigConstants DEF C!Id, C!With
<1>6. ASSUME NEW r \in Request, C!Save(r)
      PROVE  TablesTyped'
  <2>1. body[r] \in C!Inbound /\ target[r] \subseteq 1..made /\ target[r] \subseteq C!Id
    BY <1>6, ConfigConstants DEF C!Save, Shape, C!Id
  <2>2. PICK i \in target[r] : inbounds' = C!With(inbounds, i, body[r])
    BY <1>6 DEF C!Save
  <2>3. UNCHANGED <<made, outbounds, rules>>
    BY <1>6 DEF C!Save
  <2> QED
    BY <2>1, <2>2, <2>3 DEF C!With
<1>7. ASSUME NEW r \in Request, C!DeleteOutbound(r) \/ C!DeleteOutbounds(r)
      PROVE  TablesTyped'
  <2>1. PICK S : inbounds' = C!Unbound(S) /\ (UNCHANGED outbounds \/ outbounds' = C!Without(outbounds, S))
    BY <1>7 DEF C!DeleteOutbound, C!DeleteOutbounds
  <2>2. DOMAIN inbounds' = DOMAIN inbounds /\ \A i \in DOMAIN inbounds : inbounds'[i] \in C!Inbound
    BY <2>1, InboundParts DEF C!Unbound
  <2>3. UNCHANGED <<made, rules>>
    BY <1>7 DEF C!DeleteOutbound, C!DeleteOutbounds
  <2> QED
    BY <2>1, <2>2, <2>3 DEF C!Without, C!Restrict
<1>8. ASSUME NEW r \in Request, C!AddOutbound(r) \/ C!SaveOutbound(r) \/ C!DropOutbound(r)
      PROVE  TablesTyped'
  <2>1. CASE C!DropOutbound(r)
    BY <2>1 DEF C!DropOutbound, C!Without, C!Restrict
  <2>2. CASE C!AddOutbound(r) \/ C!SaveOutbound(r)
    <3>1. PICK t \in Tag, b \in C!Outbound : outbounds' = C!With(outbounds, t, b)
      BY <2>2 DEF C!AddOutbound, C!SaveOutbound, Shape
    <3>2. UNCHANGED <<inbounds, made, rules>>
      BY <2>2 DEF C!AddOutbound, C!SaveOutbound
    <3> QED
      BY <3>1, <3>2 DEF C!With
  <2> QED
    BY <1>8, <2>1, <2>2
<1>9. ASSUME NEW r \in Request, C!AddRule(r) \/ C!SaveRule(r) \/ C!DeleteRule(r)
      PROVE  TablesTyped'
  <2>1. CASE C!DeleteRule(r)
    BY <2>1 DEF C!DeleteRule, C!Without, C!Restrict
  <2>2. CASE C!AddRule(r) \/ C!SaveRule(r)
    <3>1. PICK k \in C!RuleId, b \in C!BlockRule : rules' = C!With(rules, k, b)
      BY <2>2 DEF C!AddRule, C!SaveRule, Shape
    <3>2. UNCHANGED <<inbounds, made, outbounds>>
      BY <2>2 DEF C!AddRule, C!SaveRule
    <3> QED
      BY <3>1, <3>2 DEF C!With
  <2> QED
    BY <1>9, <2>1, <2>2
<1>10. ASSUME NEW r \in Request, C!SetRuleEnable(r)
       PROVE  TablesTyped'
  <2>1. PICK k \in DOMAIN rules, on \in BOOLEAN : rules' = [rules EXCEPT ![k].on = on]
    BY <1>10 DEF C!SetRuleEnable
  <2> QED
    BY <1>10, <2>1, RuleParts DEF C!SetRuleEnable
<1>11. ASSUME NEW r \in Request, C!ApplyPreset(r)
       PROVE  TablesTyped'
  <2>1. UNCHANGED <<inbounds, made, outbounds>>
    BY <1>11 DEF C!ApplyPreset
  <2>2. \/ \E k : rules' = [rules EXCEPT ![k].on = TRUE]
        \/ \E k \in C!RuleId, b \in C!BlockRule : rules' = C!With(rules, k, b)
    BY <1>11 DEF C!ApplyPreset
  <2>3. CASE \E k : rules' = [rules EXCEPT ![k].on = TRUE]
    <3>1. PICK k : rules' = [rules EXCEPT ![k].on = TRUE]
      BY <2>3
    <3>2. /\ DOMAIN rules' = DOMAIN rules
          /\ \A j \in DOMAIN rules :
                 rules'[j] = IF j = k THEN [rules[j] EXCEPT !.on = TRUE] ELSE rules[j]
      BY <3>1
    <3>3. \A j \in DOMAIN rules : rules'[j] \in C!BlockRule
      BY <3>2, RuleParts
    <3> QED
      BY <2>1, <3>1, <3>2, <3>3
  <2>4. CASE \E k \in C!RuleId, b \in C!BlockRule : rules' = C!With(rules, k, b)
    BY <2>1, <2>4 DEF C!With
  <2> QED
    BY <2>2, <2>3, <2>4
<1>12. ASSUME C!Dies \/ \E r \in Request : C!Refused(r)
       PROVE  TablesTyped'
  BY <1>12 DEF C!Dies, C!Refused, C!tables
<1> QED
  BY StepKinds, <1>1, <1>2, <1>3, <1>4, <1>5, <1>6, <1>7, <1>8, <1>9, <1>10, <1>11, <1>12
     DEF Writing, Ending

\* Only the request that moves is touched, and ends as it began.
LEMMA RequestEffect ==
    ASSUME ConfigInv, NEW r \in Request,
           \/ Starting(r) \/ Writing(r) \/ C!DeleteOutbound(r) \/ Checking(r) \/ Ending(r)
    PROVE  /\ \A q \in Request \ {r} :
                  /\ pc'[q] = pc[q] /\ kind'[q] = kind[q] /\ target'[q] = target[q]
                  /\ body'[q] = body[q] /\ sound'[q] = sound[q]
           /\ made' \in {made, made + 1}
<1> USE DEF ConfigInv, RequestsTyped
<1>1. CASE Starting(r)
  BY <1>1, StartingShape DEF C!Starts, C!At, C!tables
<1>2. CASE Writing(r) \/ C!DeleteOutbound(r)
  BY <1>2 DEF Writing, C!DisableMany, C!DelInbound, C!DeleteAll, C!AddOutbound, C!DeleteOutbounds,
     C!AddRule, C!SetRuleEnable, C!DeleteRule, C!ApplyPreset, C!Write, C!reqVars,
     C!DeleteOutbound, C!At
<1>3. CASE Checking(r)
  BY <1>3 DEF Checking, C!CheckPortExist, C!CheckProtocolSingleton, C!GetInbound,
     C!GetAllInbounds, C!DryRun, C!tables, C!At
<1>4. CASE Ending(r)
  BY <1>4 DEF Ending, C!Create, C!Save, C!Enable, C!SaveOutbound, C!DropOutbound, C!SaveRule,
     C!Refused, C!Ends, C!At, C!tables
<1> QED
  BY <1>1, <1>2, <1>3, <1>4

LEMMA RequestsNext ==
    ASSUME ConfigInv, ConfigMove
    PROVE  RequestsTyped' /\ \A r \in Request : Shape(r)'
<1> USE DEF ConfigInv, RequestsTyped, TablesTyped
<1>1. ASSUME NEW r \in Request, Starting(r)
      PROVE  RequestsTyped' /\ Shape(r)'
  <2>1. PICK k \in C!Kind, l \in Place, t \in SUBSET (C!Id \cup Tag \cup C!RuleId),
             b \in C!Inbound \cup C!Outbound \cup C!BlockRule \cup {C!NoRow} :
            /\ C!Starts(r, k, l, t, b)
            /\ \/ /\ l = "port" /\ t \subseteq 1..made /\ b \in C!Inbound /\ k # "enable"
                  /\ \A i, j \in t : i = j
               \/ l = "snapshot" /\ t \subseteq 1..made /\ k = "enable"
               \/ l = "outbound" /\ t \subseteq Tag /\ b \in C!Outbound /\ k # "enable"
               \/ l = "rule" /\ t \subseteq C!RuleId /\ b \in C!BlockRule /\ k # "enable"
    BY <1>1, StartingShape
  <2>2. UNCHANGED <<made, sound>>
    BY <2>1 DEF C!Starts, C!tables
  <2>3. ops' \in 0..MaxOps
    BY <2>1, ConfigConstants DEF C!Starts, C!Arrives
  <2>4. /\ pc' = [pc EXCEPT ![r] = l] /\ kind' = [kind EXCEPT ![r] = k]
        /\ target' = [target EXCEPT ![r] = t] /\ body' = [body EXCEPT ![r] = b]
    BY <2>1 DEF C!Starts, C!At
  <2>5. RequestsTyped'
    BY <2>2, <2>3, <2>4
  <2>6. Shape(r)'
    BY <2>1, <2>2, <2>4 DEF Shape
  <2> QED
    BY <2>5, <2>6
<1>2. ASSUME NEW r \in Request, Writing(r)
      PROVE  RequestsTyped' /\ Shape(r)'
  <2>1. UNCHANGED <<pc, kind, target, body, sound>> /\ ops' = ops + 1 /\ ops < MaxOps /\ pc[r] = "idle"
    BY <1>2 DEF Writing, C!DisableMany, C!DelInbound, C!DeleteAll, C!AddOutbound,
       C!DeleteOutbounds, C!AddRule, C!SetRuleEnable, C!DeleteRule, C!ApplyPreset, C!Write,
       C!Arrives, C!reqVars
  <2> QED
    BY <2>1, ConfigConstants DEF Shape
<1>3. ASSUME NEW r \in Request, C!DeleteOutbound(r)
      PROVE  RequestsTyped' /\ Shape(r)'
  <2>1. /\ \E t \in Tag : target' = [target EXCEPT ![r] = {t}]
        /\ pc' = [pc EXCEPT ![r] = "drop"] /\ kind' = [kind EXCEPT ![r] = "dropOutbound"]
        /\ UNCHANGED <<body, sound>> /\ ops' = ops + 1 /\ ops < MaxOps
    BY <1>3 DEF C!DeleteOutbound, C!Arrives, C!At
  <2> QED
    BY <2>1, ConfigConstants DEF Shape, C!Kind, Place
<1>4. ASSUME NEW r \in Request, Checking(r)
      PROVE  RequestsTyped' /\ Shape(r)'
  <2>1. CASE C!CheckPortExist(r) \/ C!CheckProtocolSingleton(r) \/ C!DryRun(r)
    BY <2>1 DEF C!CheckPortExist, C!CheckProtocolSingleton, C!DryRun, C!At, C!tables, Shape, Place
  <2>2. CASE C!GetInbound(r)
    <3>1. pc[r] = "load" /\ body[r] \in C!Inbound
      BY <2>2 DEF C!GetInbound, Shape
    <3>2. PICK i \in target[r] \cap DOMAIN inbounds :
              body' = [body EXCEPT ![r].out = inbounds[i].out, ![r].named = TRUE]
      BY <2>2 DEF C!GetInbound
    <3>3. [body[r] EXCEPT !.out = inbounds[i].out, !.named = TRUE] \in C!Inbound
      BY <3>1, <3>2, InboundParts
    <3>4. body' = [body EXCEPT ![r] = [body[r] EXCEPT !.out = inbounds[i].out, !.named = TRUE]]
      BY <3>2
    <3>5. /\ pc' = [pc EXCEPT ![r] = pc'[r]] /\ pc'[r] \in {"snapshot", "save"}
          /\ UNCHANGED <<made, kind, target, sound, ops>>
      BY <2>2 DEF C!GetInbound, C!At, C!tables
    <3>6. body'[r] \in C!Inbound
      BY <3>3, <3>4
    <3>7. body' \in [Request -> C!Inbound \cup C!Outbound \cup C!BlockRule \cup {C!NoRow}]
      BY <3>3, <3>4
    <3>8. RequestsTyped'
      BY <3>5, <3>7 DEF Place
    <3> QED
      BY <3>1, <3>5, <3>6, <3>8 DEF Shape
  <2>3. CASE C!GetAllInbounds(r)
    <3>1. PICK on : sound' = [sound EXCEPT ![r] = on] /\ on \in BOOLEAN
      BY <2>3, Zenon DEF C!GetAllInbounds
    <3>2. /\ pc[r] = "snapshot" /\ pc' = [pc EXCEPT ![r] = "test"]
          /\ UNCHANGED <<made, kind, target, body, ops>>
      BY <2>3 DEF C!GetAllInbounds, C!At, C!tables
    <3> QED
      BY <3>1, <3>2 DEF Shape, Place
  <2> QED
    BY <1>4, <2>1, <2>2, <2>3 DEF Checking
<1>5. ASSUME NEW r \in Request, Ending(r)
      PROVE  RequestsTyped' /\ Shape(r)'
  BY <1>5 DEF Ending, C!Create, C!Save, C!Enable, C!SaveOutbound, C!DropOutbound, C!SaveRule,
     C!Refused, C!Ends, C!At, C!Kind, Shape, Place
<1>6. CASE C!Dies
  BY <1>6 DEF C!Dies, C!Kind, Shape, Place
<1>7. ASSUME NEW r \in Request, NEW q \in Request, q # r,
             \/ Starting(r) \/ Writing(r) \/ C!DeleteOutbound(r) \/ Checking(r) \/ Ending(r)
      PROVE  Shape(q)'
  <2>1. made' >= made /\ 1..made \subseteq 1..made'
    BY <1>7, RequestEffect, ConfigConstants DEF C!Id
  <2> QED
    BY <1>7, <2>1, RequestEffect DEF Shape
<1> QED
  BY StepKinds, <1>1, <1>2, <1>3, <1>4, <1>5, <1>6, <1>7

LEMMA ExclusiveNext ==
    ASSUME ConfigInv, ConfigMove
    PROVE  Exclusive'
<1> USE DEF ConfigInv, RequestsTyped, Exclusive
<1>1. ASSUME NEW r \in Request, Starting(r) \/ C!DeleteOutbound(r)
      PROVE  Exclusive'
  <2>1. PICK k : C!Arrives(r, k) /\ kind' = [kind EXCEPT ![r] = k]
    BY <1>1, StartingShape DEF C!Starts, C!DeleteOutbound
  <2>2. \A s \in Request : pc[s] # "idle" => {k, kind[s]} \cap Alone = {}
    BY <2>1 DEF C!Arrives
  <2> QED
    BY <1>1, <2>1, <2>2, RequestEffect
<1>2. ASSUME NEW r \in Request, Writing(r) \/ Ending(r)
      PROVE  Exclusive'
  <2>1. pc'[r] = "idle"
    BY <1>2 DEF Writing, C!DisableMany, C!DelInbound, C!DeleteAll, C!AddOutbound,
       C!DeleteOutbounds, C!AddRule, C!SetRuleEnable, C!DeleteRule, C!ApplyPreset, C!Write,
       C!Arrives, C!reqVars, Ending, C!Create, C!Save, C!Enable, C!SaveOutbound, C!DropOutbound,
       C!SaveRule, C!Refused, C!Ends, C!At
  <2> QED
    BY <1>2, <2>1, RequestEffect
<1>3. ASSUME NEW r \in Request, Checking(r)
      PROVE  Exclusive'
  <2>1. pc[r] # "idle" /\ UNCHANGED kind
    BY <1>3 DEF Checking, C!CheckPortExist, C!CheckProtocolSingleton, C!GetInbound,
       C!GetAllInbounds, C!DryRun
  <2> QED
    BY <1>3, <2>1, RequestEffect
<1>4. CASE C!Dies
  BY <1>4 DEF C!Dies
<1> QED
  BY StepKinds, <1>1, <1>2, <1>3, <1>4

LEMMA ConfigInvNext ==
    ASSUME ConfigInv, [Next]_vars
    PROVE  ConfigInv'
<1>1. CASE ConfigMove
  BY <1>1, TablesNext, RequestsNext, ExclusiveNext DEF ConfigInv
<1>2. CASE UNCHANGED configVars
  BY <1>2 DEF configVars, ConfigInv, TablesTyped, RequestsTyped, Shape, Exclusive
<1> QED
  BY <1>1, <1>2, Moves

LEMMA ConfigTyped == ConfigInv => C!TypeOK
BY DEF ConfigInv, TablesTyped, RequestsTyped, Shape, Place, C!TypeOK

-----------------------------------------------------------------------------
(* Only valid rows are enabled.                                             *)
RequestMove(r) ==
    Starting(r) \/ Writing(r) \/ C!DeleteOutbound(r) \/ Checking(r) \/ Ending(r)

\* Beside a request of a kind that is alone nothing moves.
LEMMA AloneIsAlone ==
    ASSUME ConfigInv, NEW q \in Request, pc[q] # "idle", kind[q] \in Alone,
           NEW r \in Request, r # q
    PROVE  ~RequestMove(r)
<1> SUFFICES ASSUME RequestMove(r)
             PROVE  FALSE
  OBVIOUS
<1>1. CASE Starting(r) \/ Writing(r) \/ C!DeleteOutbound(r)
  <2>1. \E k : C!Arrives(r, k)
    BY <1>1, StartingShape DEF C!Starts, C!DeleteOutbound, Writing, C!DisableMany, C!DelInbound,
       C!DeleteAll, C!AddOutbound, C!DeleteOutbounds, C!AddRule, C!SetRuleEnable, C!DeleteRule,
       C!ApplyPreset, C!Write
  <2> QED
    BY <2>1 DEF C!Arrives
<1>2. CASE Checking(r) \/ Ending(r)
  <2>1. pc[r] # "idle"
    BY <1>2 DEF Checking, C!CheckPortExist, C!CheckProtocolSingleton, C!GetInbound,
       C!GetAllInbounds, C!DryRun, Ending, C!Create, C!Save, C!Enable, C!SaveOutbound,
       C!DropOutbound, C!SaveRule, C!Refused
  <2> QED
    BY <2>1 DEF ConfigInv, Exclusive
<1> QED
  BY <1>1, <1>2 DEF RequestMove

\* What the bulk updates of the inbounds leave.
LEMMA SwitchedDef ==
    ASSUME TablesTyped, NEW on \in BOOLEAN, NEW S
    PROVE  /\ DOMAIN C!SwitchedTo(on, S) = DOMAIN inbounds
           /\ \A i \in DOMAIN inbounds :
                  /\ C!SwitchedTo(on, S)[i].ok = inbounds[i].ok
                  /\ C!SwitchedTo(on, S)[i].port = inbounds[i].port
                  /\ i \in S => C!SwitchedTo(on, S)[i].on = on
                  /\ i \notin S => C!SwitchedTo(on, S)[i].on = inbounds[i].on
<1>1. DOMAIN C!SwitchedTo(on, S) = DOMAIN inbounds
  BY DEF C!SwitchedTo
<1>2. ASSUME NEW i \in DOMAIN inbounds, i \in S
      PROVE  /\ C!SwitchedTo(on, S)[i].ok = inbounds[i].ok /\ C!SwitchedTo(on, S)[i].on = on
             /\ C!SwitchedTo(on, S)[i].port = inbounds[i].port
  <2>1. C!SwitchedTo(on, S)[i] = [inbounds[i] EXCEPT !.on = on]
    BY <1>2 DEF C!SwitchedTo
  <2>2. inbounds[i] \in C!Inbound
    BY DEF TablesTyped
  <2> QED
    BY <2>1, <2>2, SwitchedRow
<1>3. ASSUME NEW i \in DOMAIN inbounds, i \notin S
      PROVE  C!SwitchedTo(on, S)[i] = inbounds[i]
  BY <1>3 DEF C!SwitchedTo
<1> QED
  BY <1>1, <1>2, <1>3

LEMMA UnboundDef ==
    ASSUME TablesTyped, NEW S, Direct \notin S
    PROVE  /\ DOMAIN C!Unbound(S) = DOMAIN inbounds
           /\ \A i \in DOMAIN inbounds :
                  /\ C!Unbound(S)[i].out \notin S
                  /\ C!Unbound(S)[i].on = inbounds[i].on /\ C!Unbound(S)[i].ok = inbounds[i].ok
                  /\ C!Unbound(S)[i].port = inbounds[i].port
<1>1. DOMAIN C!Unbound(S) = DOMAIN inbounds
  BY DEF C!Unbound
<1>2. ASSUME NEW i \in DOMAIN inbounds, inbounds[i].out \in S
      PROVE  /\ C!Unbound(S)[i].out = Direct
             /\ C!Unbound(S)[i].on = inbounds[i].on /\ C!Unbound(S)[i].ok = inbounds[i].ok
             /\ C!Unbound(S)[i].port = inbounds[i].port
  <2>1. C!Unbound(S)[i] = [inbounds[i] EXCEPT !.out = Direct]
    BY <1>2 DEF C!Unbound
  <2>2. inbounds[i] \in C!Inbound
    BY DEF TablesTyped
  <2> QED
    BY <2>1, <2>2, ReboundRow
<1>3. ASSUME NEW i \in DOMAIN inbounds, inbounds[i].out \notin S
      PROVE  C!Unbound(S)[i] = inbounds[i]
  BY <1>3 DEF C!Unbound
<1> QED
  BY <1>1, <1>2, <1>3

\* What a request is about to save is valid if it is enabled, and what a bulk
\* enable has validated still is when it is enabled.
SavesAreValid == \A r \in Request : pc[r] = "save" => (body[r].on => body[r].ok)

EnablesAreValid ==
    \A r \in Request :
        pc[r] = "update" \/ (pc[r] = "test" /\ kind[r] = "enable" /\ sound[r]) =>
            \A i \in DOMAIN inbounds \cap target[r] : inbounds[i].ok

ValidInv == EnabledIsValid /\ SavesAreValid /\ EnablesAreValid

LEMMA SavesNext ==
    ASSUME ConfigInv, SavesAreValid, ConfigMove
    PROVE  SavesAreValid'
<1> USE DEF ConfigInv, SavesAreValid, RequestsTyped
<1>1. ASSUME NEW r \in Request, RequestMove(r)
      PROVE  pc'[r] = "save" => (body'[r].on => body'[r].ok)
  <2>1. CASE Starting(r)
    BY <2>1, StartingShape DEF C!Starts, C!At
  <2>2. CASE Writing(r) \/ C!DeleteOutbound(r) \/ Ending(r)
    <3>1. pc'[r] \in {"idle", "drop"}
      BY <2>2 DEF Writing, C!DisableMany, C!DelInbound, C!DeleteAll, C!AddOutbound,
         C!DeleteOutbounds, C!AddRule, C!SetRuleEnable, C!DeleteRule, C!ApplyPreset, C!Write,
         C!Arrives, C!reqVars, C!DeleteOutbound, Ending, C!Create, C!Save, C!Enable,
         C!SaveOutbound, C!DropOutbound, C!SaveRule, C!Refused, C!Ends, C!At
    <3> QED
      BY <3>1
  <2>3. CASE C!CheckPortExist(r) \/ C!CheckProtocolSingleton(r) \/ C!GetAllInbounds(r) \/ C!DryRun(r)
    BY <2>3 DEF C!CheckPortExist, C!CheckProtocolSingleton, C!GetAllInbounds, C!DryRun, C!At,
       C!NeedsTest
  <2>4. CASE C!GetInbound(r)
    <3>1. pc[r] = "load" /\ body[r] \in C!Inbound
      BY <2>4 DEF C!GetInbound, Shape
    <3>2. PICK i \in target[r] \cap DOMAIN inbounds :
              body' = [body EXCEPT ![r].out = inbounds[i].out, ![r].named = TRUE]
      BY <2>4 DEF C!GetInbound
    <3>3. inbounds[i] \in C!Inbound
      BY <3>2 DEF TablesTyped
    <3>4. body'[r] = [body[r] EXCEPT !.out = inbounds[i].out, !.named = TRUE]
      BY <3>2
    <3>5. body'[r].on = body[r].on /\ body'[r].ok = body[r].ok
      BY <3>1, <3>4, ReboundRow
    <3>6. pc'[r] = "save" => ~body[r].on
      BY <2>4 DEF C!GetInbound, C!At, C!NeedsTest
    <3> QED
      BY <3>5, <3>6
  <2> QED
    BY <1>1, <2>1, <2>2, <2>3, <2>4 DEF RequestMove, Checking
<1>2. CASE C!Dies
  BY <1>2 DEF C!Dies
<1> QED
  BY StepKinds, RequestEffect, <1>1, <1>2 DEF RequestMove

LEMMA EnablesNext ==
    ASSUME "enable" \in Alone, ConfigInv, EnablesAreValid, ConfigMove
    PROVE  EnablesAreValid'
<1> USE DEF ConfigInv, EnablesAreValid, RequestsTyped
<1> DEFINE V(r) == pc[r] = "update" \/ (pc[r] = "test" /\ kind[r] = "enable" /\ sound[r]) =>
                       \A i \in DOMAIN inbounds \cap target[r] : inbounds[i].ok
<1>1. ASSUME NEW r \in Request, RequestMove(r)
      PROVE  V(r)'
  <2>1. CASE Starting(r)
    BY <2>1, StartingShape DEF C!Starts, C!At
  <2>2. CASE Writing(r) \/ C!DeleteOutbound(r) \/ Ending(r)
    <3>1. pc'[r] \in {"idle", "drop"}
      BY <2>2 DEF Writing, C!DisableMany, C!DelInbound, C!DeleteAll, C!AddOutbound,
         C!DeleteOutbounds, C!AddRule, C!SetRuleEnable, C!DeleteRule, C!ApplyPreset, C!Write,
         C!Arrives, C!reqVars, C!DeleteOutbound, Ending, C!Create, C!Save, C!Enable,
         C!SaveOutbound, C!DropOutbound, C!SaveRule, C!Refused, C!Ends, C!At
    <3> QED
      BY <3>1
  <2>3. CASE C!CheckPortExist(r) \/ C!CheckProtocolSingleton(r) \/ C!GetInbound(r)
    <3>1. pc'[r] \in {"singleton", "load", "snapshot", "save"}
      BY <2>3 DEF C!CheckPortExist, C!CheckProtocolSingleton, C!GetInbound, C!At
    <3> QED
      BY <3>1
  <2>4. CASE C!GetAllInbounds(r)
    <3>1. sound'[r] /\ kind[r] = "enable" => \A i \in DOMAIN inbounds \cap target[r] : inbounds[i].ok
      BY <2>4 DEF C!GetAllInbounds
    <3> QED
      BY <2>4, <3>1 DEF C!GetAllInbounds, C!At, C!tables
  <2>5. CASE C!DryRun(r)
    BY <2>5 DEF C!DryRun, C!At, C!tables
  <2> QED
    BY <1>1, <2>1, <2>2, <2>3, <2>4, <2>5 DEF RequestMove, Checking
<1>2. ASSUME NEW r \in Request, RequestMove(r), NEW q \in Request, q # r
      PROVE  V(q)'
  <2>1. kind[q] = "enable" => pc[q] = "idle"
    BY <1>2, AloneIsAlone
  <2>2. pc'[q] = pc[q] /\ kind'[q] = kind[q]
    BY <1>2, RequestEffect DEF RequestMove
  <2> QED
    BY <2>1, <2>2 DEF Shape
<1>3. CASE C!Dies
  BY <1>3 DEF C!Dies
<1> HIDE DEF V
<1>4. \A q \in Request : V(q)'
  BY StepKinds, <1>1, <1>2, <1>3 DEF RequestMove, V, C!Dies
<1> QED
  BY <1>4 DEF V

LEMMA EnabledNext ==
    ASSUME ConfigInv, ValidInv, ConfigMove
    PROVE  EnabledIsValid'
<1> USE DEF ConfigInv, TablesTyped, ValidInv, EnabledIsValid, C!EnabledIsValid
<1>1. ASSUME NEW r \in Request, C!DisableMany(r)
      PROVE  EnabledIsValid'
  <2>1. PICK S : inbounds' = C!SwitchedTo(FALSE, S)
    BY <1>1 DEF C!DisableMany
  <2> QED
    BY <2>1, SwitchedDef
<1>2. ASSUME NEW r \in Request, C!Enable(r)
      PROVE  EnabledIsValid'
  <2>1. \A i \in DOMAIN inbounds \cap target[r] : inbounds[i].ok
    BY <1>2 DEF C!Enable, EnablesAreValid
  <2>2. inbounds' = C!SwitchedTo(TRUE, target[r])
    BY <1>2 DEF C!Enable
  <2>3. DOMAIN inbounds' = DOMAIN inbounds
    BY <2>2 DEF C!SwitchedTo
  <2>4. ASSUME NEW i \in DOMAIN inbounds, i \in target[r]
        PROVE  inbounds'[i].ok
    <3>1. inbounds'[i] = [inbounds[i] EXCEPT !.on = TRUE]
      BY <2>2, <2>4 DEF C!SwitchedTo
    <3>2. inbounds[i] \in C!Inbound /\ inbounds[i].ok
      BY <2>1, <2>4
    <3> QED
      BY <3>1, <3>2, SwitchedRow
  <2>5. ASSUME NEW i \in DOMAIN inbounds, i \notin target[r]
        PROVE  inbounds'[i] = inbounds[i]
    BY <2>2, <2>5 DEF C!SwitchedTo
  <2> QED
    BY <2>3, <2>4, <2>5
<1>3. ASSUME NEW r \in Request, C!Create(r) \/ C!Save(r)
      PROVE  EnabledIsValid'
  <2>1. body[r].on => body[r].ok
    BY <1>3 DEF C!Create, C!Save, SavesAreValid
  <2>2. PICK i : inbounds' = C!With(inbounds, i, body[r])
    BY <1>3 DEF C!Create, C!Save
  <2> QED
    BY <2>1, <2>2 DEF C!With
<1>4. ASSUME NEW r \in Request, C!DelInbound(r) \/ C!DeleteAll(r)
      PROVE  EnabledIsValid'
  BY <1>4 DEF C!DelInbound, C!DeleteAll, C!Without, C!Restrict, C!Empty
<1>5. ASSUME NEW r \in Request, C!DeleteOutbound(r) \/ C!DeleteOutbounds(r)
      PROVE  EnabledIsValid'
  <2>1. PICK S \in SUBSET DOMAIN outbounds : inbounds' = C!Unbound(S)
    BY <1>5 DEF C!DeleteOutbound, C!DeleteOutbounds
  <2>2. Direct \notin S
    BY ConfigConstants
  <2> QED
    BY <2>1, <2>2, UnboundDef
<1>6. ASSUME UNCHANGED inbounds
      PROVE  EnabledIsValid'
  BY <1>6
<1>7. ASSUME NEW r \in Request,
             \/ Starting(r) \/ Checking(r) \/ C!AddOutbound(r) \/ C!AddRule(r)
             \/ C!SetRuleEnable(r) \/ C!DeleteRule(r) \/ C!ApplyPreset(r) \/ C!SaveOutbound(r)
             \/ C!DropOutbound(r) \/ C!SaveRule(r) \/ C!Refused(r)
      PROVE  UNCHANGED inbounds
  BY <1>7, StartingShape DEF C!Starts, C!tables, Checking, C!CheckPortExist,
     C!CheckProtocolSingleton, C!GetInbound, C!GetAllInbounds, C!DryRun, C!AddOutbound, C!AddRule,
     C!SetRuleEnable, C!DeleteRule, C!ApplyPreset, C!SaveOutbound, C!DropOutbound, C!SaveRule,
     C!Refused
<1>8. C!Dies => UNCHANGED inbounds
  BY DEF C!Dies, C!tables
<1> QED
  BY StepKinds, <1>1, <1>2, <1>3, <1>4, <1>5, <1>6, <1>7, <1>8 DEF Writing, Ending

\* inbound_dryrun_test.go:93-96: where a bulk enable overlaps no other request, an
\* inbound that xray rejects is never enabled, however the other requests
\* overlap and whatever they do between the checks and the save.
THEOREM EnabledStaysValid == "enable" \in Alone => (Spec => []EnabledIsValid)
<1> SUFFICES ASSUME "enable" \in Alone
             PROVE  Spec => []EnabledIsValid
  OBVIOUS
<1>1. Init => ConfigInv /\ ValidInv
  BY InitConfig DEF Init, C!Init, C!Empty, ValidInv, EnabledIsValid, C!EnabledIsValid,
     SavesAreValid, EnablesAreValid
<1>2. ConfigInv /\ ValidInv /\ [Next]_vars => (ConfigInv /\ ValidInv)'
  <2> SUFFICES ASSUME ConfigInv, ValidInv, [Next]_vars
               PROVE  (ConfigInv /\ ValidInv)'
    OBVIOUS
  <2>1. CASE ConfigMove
    BY <2>1, ConfigInvNext, SavesNext, EnablesNext, EnabledNext DEF ValidInv
  <2>2. CASE UNCHANGED configVars
    BY <2>2, ConfigInvNext DEF configVars, ValidInv, EnabledIsValid, C!EnabledIsValid,
       SavesAreValid, EnablesAreValid
  <2> QED
    BY <2>1, <2>2, Moves
<1>3. ConfigInv /\ ValidInv => EnabledIsValid
  BY DEF ValidInv
<1> QED
  BY <1>1, <1>2, <1>3, PTL DEF Spec

-----------------------------------------------------------------------------
(* No inbound stays bound to an outbound that goes.                         *)
DropsAreUnbound ==
    \A r \in Request : pc[r] = "drop" => \A i \in DOMAIN inbounds : inbounds[i].out \notin target[r]

LEMMA DropsNext ==
    ASSUME "dropOutbound" \in Alone, ConfigInv, DropsAreUnbound, ConfigMove
    PROVE  DropsAreUnbound'
<1> USE DEF ConfigInv, RequestsTyped, DropsAreUnbound
<1>1. ASSUME NEW r \in Request, RequestMove(r), pc'[r] = "drop"
      PROVE  \A i \in DOMAIN inbounds' : inbounds'[i].out \notin target'[r]
  <2>1. C!DeleteOutbound(r)
    <3>1. CASE Starting(r)
      BY <1>1, <3>1, StartingShape DEF C!Starts, C!At
    <3>2. CASE Writing(r) \/ Ending(r)
      BY <1>1, <3>2 DEF Writing, C!DisableMany, C!DelInbound, C!DeleteAll, C!AddOutbound,
         C!DeleteOutbounds, C!AddRule, C!SetRuleEnable, C!DeleteRule, C!ApplyPreset, C!Write,
         C!Arrives, C!reqVars, Ending, C!Create, C!Save, C!Enable,
         C!SaveOutbound, C!DropOutbound, C!SaveRule, C!Refused, C!Ends, C!At
    <3>3. CASE Checking(r)
      BY <1>1, <3>3 DEF Checking, C!CheckPortExist, C!CheckProtocolSingleton, C!GetInbound,
         C!GetAllInbounds, C!DryRun, C!At
    <3> QED
      BY <1>1, <3>1, <3>2, <3>3 DEF RequestMove
  <2>2. PICK t \in DOMAIN outbounds : target' = [target EXCEPT ![r] = {t}] /\ inbounds' = C!Unbound({t})
    BY <2>1 DEF C!DeleteOutbound
  <2>3. \A i \in DOMAIN inbounds : inbounds'[i].out # t
    <3>1. t # Direct
      BY ConfigConstants DEF TablesTyped
    <3> QED
      BY <2>2, <3>1, UnboundDef
  <2> QED
    BY <2>2, <2>3 DEF C!Unbound
<1>2. ASSUME NEW r \in Request, RequestMove(r), NEW q \in Request, q # r, pc'[q] = "drop"
      PROVE  FALSE
  <2>1. pc[q] = "drop" /\ kind[q] = "dropOutbound"
    BY <1>2, RequestEffect DEF RequestMove, Shape
  <2> QED
    BY <1>2, <2>1, AloneIsAlone
<1>3. CASE C!Dies
  BY <1>3 DEF C!Dies
<1> QED
  BY StepKinds, <1>1, <1>2, <1>3 DEF RequestMove

LEMMA UnboundStep ==
    ASSUME ConfigInv, DropsAreUnbound, ConfigMove
    PROVE  \A t \in DOMAIN outbounds \ DOMAIN outbounds' :
               \A i \in DOMAIN inbounds' : inbounds'[i].out # t
<1> USE DEF ConfigInv, TablesTyped
<1>1. ASSUME NEW r \in Request, C!DropOutbound(r)
      PROVE  \A t \in DOMAIN outbounds \ DOMAIN outbounds' :
                 \A i \in DOMAIN inbounds' : inbounds'[i].out # t
  BY <1>1 DEF C!DropOutbound, DropsAreUnbound, C!Without, C!Restrict
<1>2. ASSUME NEW r \in Request, C!DeleteOutbounds(r)
      PROVE  \A t \in DOMAIN outbounds \ DOMAIN outbounds' :
                 \A i \in DOMAIN inbounds' : inbounds'[i].out # t
  <2>1. PICK S \in SUBSET DOMAIN outbounds :
            inbounds' = C!Unbound(S) /\ outbounds' = C!Without(outbounds, S)
    BY <1>2 DEF C!DeleteOutbounds
  <2>2. DOMAIN outbounds \ DOMAIN outbounds' \subseteq S
    BY <2>1 DEF C!Without, C!Restrict
  <2>3. \A i \in DOMAIN inbounds : inbounds'[i].out \notin S
    <3>1. Direct \notin S
      BY ConfigConstants
    <3> QED
      BY <2>1, <3>1, UnboundDef
  <2>4. DOMAIN inbounds' = DOMAIN inbounds
    BY <2>1 DEF C!Unbound
  <2> QED
    BY <2>2, <2>3, <2>4
<1>3. ASSUME NEW r \in Request, C!AddOutbound(r) \/ C!SaveOutbound(r)
      PROVE  DOMAIN outbounds \subseteq DOMAIN outbounds'
  BY <1>3 DEF C!AddOutbound, C!SaveOutbound, C!With
<1>4. ASSUME NEW r \in Request,
             \/ Starting(r) \/ Checking(r) \/ C!DeleteOutbound(r) \/ C!DisableMany(r)
             \/ C!DelInbound(r) \/ C!DeleteAll(r) \/ C!AddRule(r) \/ C!SetRuleEnable(r)
             \/ C!DeleteRule(r) \/ C!ApplyPreset(r) \/ C!Create(r) \/ C!Save(r) \/ C!Enable(r)
             \/ C!SaveRule(r) \/ C!Refused(r)
      PROVE  UNCHANGED outbounds
  BY <1>4, StartingShape DEF C!Starts, C!tables, Checking, C!CheckPortExist,
     C!CheckProtocolSingleton, C!GetInbound, C!GetAllInbounds, C!DryRun, C!DeleteOutbound,
     C!DisableMany, C!DelInbound, C!DeleteAll, C!AddRule, C!SetRuleEnable, C!DeleteRule,
     C!ApplyPreset, C!Create, C!Save, C!Enable, C!SaveRule, C!Refused
<1>5. C!Dies => UNCHANGED outbounds
  BY DEF C!Dies, C!tables
<1> QED
  BY StepKinds, <1>1, <1>2, <1>3, <1>4, <1>5 DEF Writing, Ending

\* outbound.go:144-145: where a deletion of one outbound overlaps no other request, no
\* inbound is left bound to an outbound that goes, wherever the panel dies.
THEOREM DeletionUnbinds == "dropOutbound" \in Alone => (Spec => UnboundWhenDeleted)
<1> SUFFICES ASSUME "dropOutbound" \in Alone
             PROVE  Spec => UnboundWhenDeleted
  OBVIOUS
<1> DEFINE Unbinds == \A t \in DOMAIN outbounds \ DOMAIN outbounds' :
                          \A i \in DOMAIN inbounds' : inbounds'[i].out # t
<1>1. Init => ConfigInv /\ DropsAreUnbound
  BY InitConfig DEF Init, C!Init, DropsAreUnbound
<1>2. ConfigInv /\ DropsAreUnbound /\ [Next]_vars => (ConfigInv /\ DropsAreUnbound)'
  <2> SUFFICES ASSUME ConfigInv, DropsAreUnbound, [Next]_vars
               PROVE  (ConfigInv /\ DropsAreUnbound)'
    OBVIOUS
  <2>1. CASE ConfigMove
    BY <2>1, ConfigInvNext, DropsNext
  <2>2. CASE UNCHANGED configVars
    BY <2>2, ConfigInvNext DEF configVars, DropsAreUnbound
  <2> QED
    BY <2>1, <2>2, Moves
<1>3. ConfigInv /\ DropsAreUnbound /\ [Next]_vars => [Unbinds]_(C!vars)
  <2> SUFFICES ASSUME ConfigInv, DropsAreUnbound, [Next]_vars
               PROVE  [Unbinds]_(C!vars)
    OBVIOUS
  <2>1. CASE ConfigMove
    BY <2>1, UnboundStep
  <2>2. CASE UNCHANGED configVars
    BY <2>2 DEF configVars, C!vars, C!tables, C!reqVars
  <2> QED
    BY <2>1, <2>2, Moves
<1> QED
  BY <1>1, <1>2, <1>3, PTL DEF Spec, UnboundWhenDeleted, C!UnboundWhenDeleted
-----------------------------------------------------------------------------
(* The clients: their rows and the requests on them.                        *)

\* The finite sets the registry counts are those of FiniteSets.
LEMMA ClientConstants ==
    /\ IsFiniteSet(Email)
    /\ \E n \in Nat : R!Id = 1..n
    /\ \A i \in R!Id : Home[i] \subseteq Email
    /\ MaxEdits \in Nat /\ MaxBoots \in Nat
<1>1. R!IsFiniteSet(Email) /\ R!IsFiniteSet(R!Id) /\ R!Id = 1..R!Cardinality(R!Id)
  BY HandlersConstants DEF HandlersConstants, R!ConstantsOK
<1>2. IsFiniteSet(Email) /\ IsFiniteSet(R!Id)
  BY <1>1 DEF R!IsFiniteSet, IsFiniteSet
<1>3. R!Cardinality(R!Id) = Cardinality(R!Id)
  BY DEF R!Cardinality, Cardinality
<1>4. Cardinality(R!Id) \in Nat
  BY <1>2, FS_CardinalityType
<1> QED
  BY <1>1, <1>2, <1>3, <1>4, HandlersConstants DEF HandlersConstants, R!ConstantsOK

\* What an editor at work carries.
EditorShape(r) ==
    /\ stage[r] = "idle" => at[r] = 0 /\ drop[r] = {}
    /\ stage[r] \in {"idle", "check", "save"} => todo[r] = {}
    /\ at[r] = 0 => todo[r] = {} /\ extra[r] = {} /\ writing[r] = {}
    /\ at[r] # 0 => /\ at[r] \in 1..created
                    /\ todo[r] \subseteq Home[at[r]] /\ extra[r] \subseteq Home[at[r]]
                    /\ writing[r] \subseteq Home[at[r]]
    /\ stage[r] \in {"check", "save"} =>
           /\ at[r] # 0 /\ list[r] \subseteq Home[at[r]]
           /\ drop[r] \subseteq Home[at[r]] /\ drop[r] \cap list[r] = {}
    /\ found[r].id \in 0..rowIds
    /\ \A e, f \in writing[r] : e = f

ClientInv == R!TypeOK /\ \A r \in Editor : EditorShape(r)

LEMMA InitClients == R!Init => ClientInv
<1> SUFFICES ASSUME R!Init
             PROVE  ClientInv
  OBVIOUS
<1>1. R!TypeOK
  BY ClientConstants DEF R!Init, R!TypeOK
<1>2. \A r \in Editor : EditorShape(r)
  BY DEF R!Init, EditorShape, R!NoRow
<1> QED
  BY <1>1, <1>2 DEF ClientInv

Editing(r) ==
    \E i \in R!Id : \/ R!UpdateInbound(r, i)
                    \/ \E e \in Email : \/ R!AddClient(r, i, e) \/ R!DeleteClient(r, i, e)
                                        \/ \E f \in Email : R!UpdateClient(r, i, e, f)
Adding(r) == R!AddInbound(r) \/ R!AddInbounds(r)
Removing(r) == R!DeleteAll(r) \/ \E i \in R!Id : R!DelInbound(r, i)
Orphaning(r) == \E i \in R!Id, e \in Email : R!DeleteOrphan(r, i, e)
Going(r) == R!GetInbound(r) \/ R!Refused(r) \/ R!Save(r) \/ R!Synced(r) \/ R!Done(r)
Ensuring(r) == \E e \in Email : R!EnsureRead(r, e) \/ R!EnsureCreate(r, e) \/ R!EnsureSave(r, e)

EditorMove(r) ==
    \/ Editing(r) \/ Adding(r) \/ Removing(r) \/ Orphaning(r) \/ Going(r) \/ Ensuring(r)
    \/ R!DeleteByEmail(r)

LEMMA EditorKinds ==
    ASSUME ClientMove
    PROVE  (\E r \in Editor : EditorMove(r)) \/ R!Boot
<1>1. ASSUME NEW r \in Editor, R!Arrival(r)
      PROVE  EditorMove(r)
  BY <1>1 DEF R!Arrival, EditorMove, Editing, Adding, Removing, Orphaning
<1>2. ASSUME NEW r \in Editor, R!RequestStep(r)
      PROVE  EditorMove(r)
  BY <1>2 DEF R!RequestStep, EditorMove, Going, Ensuring
<1> QED
  BY <1>1, <1>2 DEF ClientMove

LEMMA EditingShape ==
    ASSUME ClientInv, NEW r \in Editor, Editing(r)
    PROVE  \E i \in 1..created :
               /\ i \in R!Id
               /\ \E l, d, x \in SUBSET Home[i] : d \cap l = {} /\ R!Edit(r, i, l, d, x)
               /\ stage[r] = "idle" /\ edits < MaxEdits /\ edits' = edits + 1 /\ boots' = boots
<1> USE DEF ClientInv, R!TypeOK
<1>1. ASSUME NEW i \in R!Id, R!UpdateInbound(r, i)
      PROVE  /\ i \in 1..created
             /\ \E l, d, x \in SUBSET Home[i] : d \cap l = {} /\ R!Edit(r, i, l, d, x)
             /\ stage[r] = "idle" /\ edits < MaxEdits /\ edits' = edits + 1 /\ boots' = boots
  <2>1. PICK l \in SUBSET Home[i] : R!Edit(r, i, l, {}, {})
    BY <1>1 DEF R!UpdateInbound
  <2> QED
    BY <1>1, <2>1 DEF R!UpdateInbound, R!Arrives
<1>2. ASSUME NEW i \in R!Id, NEW e \in Email, R!AddClient(r, i, e)
      PROVE  /\ i \in 1..created
             /\ \E l, d, x \in SUBSET Home[i] : d \cap l = {} /\ R!Edit(r, i, l, d, x)
             /\ stage[r] = "idle" /\ edits < MaxEdits /\ edits' = edits + 1 /\ boots' = boots
  <2>1. /\ i \in DOMAIN clients /\ e \in Home[i]
        /\ R!Edit(r, i, clients[i] \cup {e}, {}, {e})
    BY <1>2 DEF R!AddClient
  <2>2. i \in 1..created
    BY <2>1, ClientConstants
  <2>3. clients[i] \cup {e} \in SUBSET Home[i] /\ {e} \in SUBSET Home[i]
    BY <2>1
  <2>4. stage[r] = "idle" /\ edits < MaxEdits /\ edits' = edits + 1 /\ boots' = boots
    BY <1>2 DEF R!AddClient, R!Arrives
  <2> QED
    BY <2>1, <2>2, <2>3, <2>4
<1>3. ASSUME NEW i \in R!Id, NEW e \in Email, R!DeleteClient(r, i, e)
      PROVE  /\ i \in 1..created
             /\ \E l, d, x \in SUBSET Home[i] : d \cap l = {} /\ R!Edit(r, i, l, d, x)
             /\ stage[r] = "idle" /\ edits < MaxEdits /\ edits' = edits + 1 /\ boots' = boots
  <2>1. /\ i \in DOMAIN clients /\ e \in clients[i]
        /\ R!Edit(r, i, clients[i] \ {e}, {e}, {})
    BY <1>3 DEF R!DeleteClient
  <2>2. i \in 1..created
    BY <2>1, ClientConstants
  <2>3. clients[i] \ {e} \in SUBSET Home[i] /\ {e} \in SUBSET Home[i]
    BY <2>1
  <2>4. stage[r] = "idle" /\ edits < MaxEdits /\ edits' = edits + 1 /\ boots' = boots
    BY <1>3 DEF R!DeleteClient, R!Arrives
  <2> QED
    BY <2>1, <2>2, <2>3, <2>4
<1>4. ASSUME NEW i \in R!Id, NEW e \in Email, NEW f \in Email, R!UpdateClient(r, i, e, f)
      PROVE  /\ i \in 1..created
             /\ \E l, d, x \in SUBSET Home[i] : d \cap l = {} /\ R!Edit(r, i, l, d, x)
             /\ stage[r] = "idle" /\ edits < MaxEdits /\ edits' = edits + 1 /\ boots' = boots
  <2> DEFINE l == (clients[i] \ {e}) \cup {f}
             d == {e} \ {f}
  <2>1. i \in DOMAIN clients /\ e \in clients[i] /\ f \in Home[i] /\ R!Edit(r, i, l, d, {f})
    BY <1>4 DEF R!UpdateClient
  <2>2. i \in 1..created
    BY <2>1, ClientConstants
  <2>3. l \in SUBSET Home[i] /\ d \in SUBSET Home[i] /\ d \cap l = {} /\ {f} \in SUBSET Home[i]
    BY <2>1
  <2>4. stage[r] = "idle" /\ edits < MaxEdits /\ edits' = edits + 1 /\ boots' = boots
    BY <1>4 DEF R!UpdateClient, R!Arrives
  <2> HIDE DEF l, d
  <2> QED
    BY <2>1, <2>2, <2>3, <2>4
<1> QED
  BY <1>1, <1>2, <1>3, <1>4 DEF Editing

LEMMA EditorEffect ==
    ASSUME ClientInv, NEW r \in Editor, EditorMove(r)
    PROVE  /\ \A q \in Editor \ {r} :
                  /\ stage'[q] = stage[q] /\ at'[q] = at[q] /\ list'[q] = list[q]
                  /\ todo'[q] = todo[q] /\ found'[q] = found[q] /\ writing'[q] = writing[q]
                  /\ drop'[q] = drop[q] /\ extra'[q] = extra[q]
           /\ created' \in {created, created + 1} /\ rowIds' \in {rowIds, rowIds + 1}
<1> USE DEF ClientInv, R!TypeOK, R!At
<1>1. CASE Editing(r)
  BY <1>1, EditingShape DEF R!Edit, R!tables
<1>2. CASE Adding(r) \/ Removing(r) \/ Orphaning(r)
  BY <1>2 DEF Adding, R!AddInbound, R!AddInbounds, Removing, R!DeleteAll, R!DelInbound, Orphaning,
     R!DeleteOrphan, R!reqVars, R!tables
<1>3. CASE Going(r) \/ R!DeleteByEmail(r)
  BY <1>3 DEF Going, R!GetInbound, R!Refused, R!Save, R!Synced, R!Done, R!Forget, R!DeleteByEmail,
     R!tables
<1>4. CASE Ensuring(r)
  BY <1>4 DEF Ensuring, R!EnsureRead, R!EnsureCreate, R!EnsureSave, R!Written, R!tables
<1> QED
  BY <1>1, <1>2, <1>3, <1>4 DEF EditorMove

\* A nonempty set of numbers up to n has a greatest one.
LEMMA Greatest ==
    ASSUME NEW n \in Nat, NEW S, S \subseteq 1..n, S # {}
    PROVE  \E m \in S : \A k \in S : k <= m
<1> DEFINE T == {k \in 0..n : n - k \in S}
<1>1. T \subseteq Nat /\ T # {}
  <2>1. PICK k \in S : TRUE
    OBVIOUS
  <2>2. n - k \in T
    <3>1. k \in 1..n /\ n - k \in 0..n /\ n - (n - k) = k
      BY <2>1
    <3> QED
      BY <2>1, <3>1
  <2>3. T \subseteq Nat
    OBVIOUS
  <2> HIDE DEF T
  <2> QED
    BY <2>2, <2>3
<1>2. \E m \in T : \A k \in T : ~(<<k, m>> \in OpToRel(<, Nat))
  <2> HIDE DEF T
  <2> QED
    BY <1>1, WFMin, NatLessThanWellFounded
<1>3. PICK m \in T : \A k \in T : ~(k < m)
  BY <1>1, <1>2 DEF OpToRel
<1>4. ASSUME NEW k \in S
      PROVE  k <= n - m
  <2>1. n - k \in T /\ k \in 1..n
    OBVIOUS
  <2> QED
    BY <1>3, <2>1
<1> QED
  BY <1>3, <1>4

\* At the start every client that is listed has a row, of an inbound that lists it.
LEMMA LastHomeIsHome ==
    ASSUME ClientInv, NEW e \in R!Listed
    PROVE  R!LastHome(e) \in DOMAIN clients /\ e \in clients[R!LastHome(e)]
<1> USE DEF ClientInv, R!TypeOK
<1> DEFINE S == {i \in DOMAIN clients : e \in clients[i]}
<1>1. S # {}
  BY DEF R!Listed
<1>2. PICK n \in Nat : R!Id = 1..n
  BY ClientConstants
<1>3. S \subseteq 1..n
  BY <1>2
<1>4. \E m \in S : \A k \in S : k <= m
  <2> HIDE DEF S
  <2> QED
    BY <1>1, <1>3, Greatest
<1>5. \E i \in DOMAIN clients : e \in clients[i] /\ \A j \in DOMAIN clients : e \in clients[j] => j <= i
  BY <1>4
<1> QED
  BY <1>5 DEF R!LastHome

LEMMA BootRows ==
    ASSUME ClientInv, R!Boot
    PROVE  /\ DOMAIN row' = DOMAIN row \cup R!Listed
           /\ \A e \in DOMAIN row' : row'[e].id \in 0..rowIds' /\ row'[e] \in R!Row
           /\ \A e \in DOMAIN row : row'[e].id = row[e].id
           /\ \A e \in R!Listed : row'[e].inbound = R!LastHome(e)
           /\ \A e \in DOMAIN row \ R!Listed : row'[e].inbound = row[e].inbound
           /\ rowIds' \in Nat /\ rowIds' >= rowIds
<1> DEFINE new == R!Listed \ DOMAIN row
<1>1. new \subseteq Email
  BY ClientConstants DEF ClientInv, R!TypeOK, R!Listed
<1>2. IsFiniteSet(new) /\ Cardinality(new) \in Nat
  BY <1>1, ClientConstants, FS_Subset, FS_CardinalityType
<1>3. R!Cardinality(new) = Cardinality(new)
  BY DEF R!Cardinality, Cardinality
<1>4. PICK number \in [new -> (rowIds + 1)..(rowIds + R!Cardinality(new))] :
          /\ row' = [e \in DOMAIN row \cup new |->
                        [id |-> IF e \in new THEN number[e] ELSE row[e].id,
                         inbound |-> IF e \in R!Listed THEN R!LastHome(e) ELSE row[e].inbound]]
          /\ rowIds' = rowIds + R!Cardinality(new)
  BY DEF R!Boot
<1> HIDE DEF new
<1>5. rowIds \in Nat /\ rowIds' \in Nat /\ rowIds' >= rowIds
  BY <1>2, <1>3, <1>4 DEF ClientInv, R!TypeOK
<1>6. DOMAIN row' = DOMAIN row \cup R!Listed
  BY <1>4 DEF new
<1>7. ASSUME NEW e \in DOMAIN row'
      PROVE  /\ row'[e].id = IF e \in DOMAIN row THEN row[e].id ELSE number[e]
             /\ row'[e].inbound = IF e \in R!Listed THEN R!LastHome(e) ELSE row[e].inbound
             /\ row'[e] = [id |-> row'[e].id, inbound |-> row'[e].inbound]
  BY <1>4, <1>6, <1>7 DEF new
<1>8. ASSUME NEW e \in DOMAIN row'
      PROVE  row'[e].id \in 0..rowIds' /\ row'[e] \in R!Row
  <2>1. row'[e].id \in 0..rowIds'
    <3>1. CASE e \in DOMAIN row
      BY <1>5, <1>7, <3>1 DEF ClientInv, R!TypeOK, R!Row
    <3>2. CASE e \notin DOMAIN row
      <4>1. e \in new
        BY <1>6, <3>2 DEF new
      <4>2. number[e] \in (rowIds + 1)..(rowIds + R!Cardinality(new))
        BY <1>4, <4>1
      <4> QED
        BY <1>2, <1>3, <1>4, <1>5, <1>7, <3>2, <4>2
    <3> QED
      BY <3>1, <3>2
  <2>2. row'[e].inbound \in R!Id
    <3>1. CASE e \in R!Listed
      BY <1>7, <3>1, LastHomeIsHome DEF ClientInv, R!TypeOK
    <3>2. CASE e \notin R!Listed
      BY <1>6, <1>7, <3>2 DEF ClientInv, R!TypeOK, R!Row
    <3> QED
      BY <3>1, <3>2
  <2> QED
    BY <1>5, <1>7, <2>1, <2>2 DEF R!Row
<1> QED
  BY <1>5, <1>6, <1>7, <1>8

LEMMA BootForgets ==
    ASSUME R!Boot
    PROVE  /\ stage' = [r \in Editor |-> "idle"] /\ at' = [r \in Editor |-> 0]
           /\ list' = [r \in Editor |-> {}] /\ todo' = [r \in Editor |-> {}]
           /\ found' = [r \in Editor |-> R!NoRow] /\ writing' = [r \in Editor |-> {}]
           /\ drop' = [r \in Editor |-> {}] /\ extra' = [r \in Editor |-> {}]
           /\ unsynced' = {} /\ UNCHANGED <<clients, created, edits>> /\ boots' = boots + 1
BY DEF R!Boot

LEMMA ClientTypedNext ==
    ASSUME ClientInv, ClientMove
    PROVE  R!TypeOK'
<1> USE DEF ClientInv, R!TypeOK, R!At
<1>1. ASSUME NEW r \in Editor, Editing(r)
      PROVE  R!TypeOK'
  <2>1. PICK i \in 1..created :
            /\ i \in R!Id
            /\ \E l, d, x \in SUBSET Home[i] : d \cap l = {} /\ R!Edit(r, i, l, d, x)
            /\ stage[r] = "idle" /\ edits < MaxEdits /\ edits' = edits + 1 /\ boots' = boots
    BY <1>1, EditingShape
  <2>2. PICK l, d, x \in SUBSET Home[i] : d \cap l = {} /\ R!Edit(r, i, l, d, x)
    BY <2>1
  <2>3. l \subseteq Email /\ d \subseteq Email /\ x \subseteq Email
    BY <2>1, ClientConstants
  <2> QED
    BY <2>1, <2>2, <2>3, ClientConstants DEF R!Edit, R!tables
<1>2. ASSUME NEW r \in Editor, Adding(r)
      PROVE  R!TypeOK'
  <2>1. PICK l \in SUBSET Home[created + 1] :
            /\ created + 1 \in R!Id /\ created' = created + 1
            /\ clients' = R!With(clients, created + 1, l)
            /\ edits < MaxEdits /\ edits' = edits + 1 /\ boots' = boots
            /\ \/ /\ todo' = [todo EXCEPT ![r] = l] /\ at' = [at EXCEPT ![r] = created + 1]
                  /\ stage[r] = "idle" /\ stage' = [stage EXCEPT ![r] = "rows"]
                  /\ UNCHANGED <<row, rowIds, unsynced, list, found, writing, drop, extra>>
               \/ /\ unsynced' = unsynced \cup {created + 1}
                  /\ UNCHANGED <<row, rowIds, stage, at, list, todo, found, writing, drop, extra>>
    BY <1>2 DEF Adding, R!AddInbound, R!AddInbounds, R!Arrives, R!reqVars
  <2>2. l \subseteq Email
    BY <2>1, ClientConstants
  <2>3. /\ DOMAIN clients' \subseteq R!Id
        /\ \A i \in DOMAIN clients' : clients'[i] \subseteq Home[i] /\ i <= created'
    BY <2>1, ClientConstants DEF R!With
  <2>6. created' \in R!Id \cup {0} /\ edits' \in 0..MaxEdits /\ boots' \in 0..MaxBoots
    BY <2>1, ClientConstants
  <2>7. /\ row' = row /\ rowIds' = rowIds /\ list' = list /\ found' = found
        /\ writing' = writing /\ drop' = drop /\ extra' = extra /\ unsynced' \subseteq R!Id
    BY <2>1
  <2>4. CASE UNCHANGED <<stage, todo, at>>
    <3>1. stage' = stage /\ todo' = todo /\ at' = at
      BY <2>4
    <3> QED
      BY <2>3, <2>6, <2>7, <3>1
  <2>5. CASE /\ todo' = [todo EXCEPT ![r] = l] /\ at' = [at EXCEPT ![r] = created + 1]
             /\ stage[r] = "idle" /\ stage' = [stage EXCEPT ![r] = "rows"]
             /\ UNCHANGED <<row, rowIds, unsynced, list, found, writing, drop, extra>>
    <3>1. /\ todo' \in [Editor -> SUBSET Email] /\ at' \in [Editor -> R!Id \cup {0}]
          /\ stage' \in [Editor -> {"idle", "check", "save", "rows", "write", "drop"}]
      BY <2>1, <2>2, <2>5
    <3>2. \A q \in Editor : stage'[q] = "write" <=> stage[q] = "write"
      BY <2>5
    <3> QED
      BY <2>3, <2>6, <2>7, <3>1, <3>2
  <2> QED
    BY <2>1, <2>4, <2>5
<1>3. ASSUME NEW r \in Editor, Removing(r) \/ Orphaning(r)
      PROVE  R!TypeOK'
  <2>1. CASE R!DeleteAll(r)
    <3>1. DOMAIN clients' = {} /\ DOMAIN row' = {}
      BY <2>1 DEF R!DeleteAll
    <3>2. /\ edits < MaxEdits /\ edits' = edits + 1
          /\ UNCHANGED <<created, rowIds, unsynced, R!reqVars, boots>>
      BY <2>1 DEF R!DeleteAll, R!Arrives
    <3> QED
      BY <3>1, <3>2, ClientConstants DEF R!reqVars
  <2>2. ASSUME NEW i \in R!Id, R!DelInbound(r, i)
        PROVE  R!TypeOK'
    BY <2>2, ClientConstants DEF R!DelInbound, R!Arrives, R!reqVars, R!Restrict
  <2>3. ASSUME NEW i \in R!Id, NEW e \in Email, R!DeleteOrphan(r, i, e)
        PROVE  R!TypeOK'
    BY <2>3, ClientConstants DEF R!DeleteOrphan, R!Arrives, R!tables
  <2> QED
    BY <1>3, <2>1, <2>2, <2>3 DEF Removing, Orphaning
<1>4. ASSUME NEW r \in Editor, R!GetInbound(r) \/ R!Refused(r) \/ R!Synced(r) \/ R!Done(r)
      PROVE  R!TypeOK'
  BY <1>4 DEF R!GetInbound, R!Refused, R!Synced, R!Done, R!Forget, R!tables
<1>5. ASSUME NEW r \in Editor, R!Save(r)
      PROVE  R!TypeOK'
  <2>1. at[r] \in 1..created /\ at[r] \in R!Id /\ list[r] \subseteq Home[at[r]] /\ stage[r] = "save"
    BY <1>5, ClientConstants DEF R!Save, EditorShape
  <2>2. /\ clients' = R!With(clients, at[r], list[r]) /\ unsynced' = unsynced \ {at[r]}
        /\ todo' = [todo EXCEPT ![r] = list[r]] /\ stage' = [stage EXCEPT ![r] = "rows"]
        /\ UNCHANGED <<created, row, rowIds, at, list, found, writing, drop, extra, edits, boots>>
    BY <1>5 DEF R!Save
  <2>3. /\ DOMAIN clients' \subseteq R!Id
        /\ \A i \in DOMAIN clients' : clients'[i] \subseteq Home[i] /\ i <= created'
    BY <2>1, <2>2, ClientConstants DEF R!With
  <2> QED
    BY <2>1, <2>2, <2>3
<1>6. ASSUME NEW r \in Editor, NEW e \in Email, R!EnsureRead(r, e)
      PROVE  R!TypeOK'
  BY <1>6 DEF R!EnsureRead, R!tables
<1>7. ASSUME NEW r \in Editor, NEW e \in Email, R!EnsureCreate(r, e) \/ R!EnsureSave(r, e)
      PROVE  R!TypeOK'
  <2>1. at[r] \in R!Id /\ stage[r] = "write" /\ found[r].id \in 0..rowIds
    BY <1>7, ClientConstants DEF R!EnsureCreate, R!EnsureSave, EditorShape
  <2>2. R!Written(r)
    BY <1>7 DEF R!EnsureCreate, R!EnsureSave
  <2>3. \/ UNCHANGED <<row, rowIds>>
        \/ /\ rowIds' \in {rowIds, rowIds + 1}
           /\ \E n \in 0..rowIds' : row' = R!With(row, e, [id |-> n, inbound |-> at[r]])
    BY <1>7, <2>1 DEF R!EnsureCreate, R!EnsureSave
  <2>4. /\ rowIds' \in Nat /\ DOMAIN row' \subseteq Email
        /\ \A f \in DOMAIN row' : row'[f] \in R!Row /\ row'[f].id <= rowIds'
    BY <2>1, <2>3 DEF R!With, R!Row
  <2> QED
    BY <2>1, <2>2, <2>4 DEF R!Written
<1>8. ASSUME NEW r \in Editor, R!DeleteByEmail(r)
      PROVE  R!TypeOK'
  BY <1>8 DEF R!DeleteByEmail, R!Restrict
<1>9. ASSUME R!Boot
      PROVE  R!TypeOK'
  <2>1. DOMAIN row' \subseteq Email
    BY <1>9, BootRows, ClientConstants DEF R!Listed
  <2>2. \A e \in DOMAIN row' : row'[e] \in R!Row /\ row'[e].id <= rowIds'
    BY <1>9, BootRows
  <2>3. boots < MaxBoots
    BY <1>9 DEF R!Boot
  <2> QED
    BY <1>9, <2>1, <2>2, <2>3, BootRows, BootForgets, ClientConstants DEF R!NoRow
<1> QED
  BY EditorKinds, <1>1, <1>2, <1>3, <1>4, <1>5, <1>6, <1>7, <1>8, <1>9
     DEF EditorMove, Going, Ensuring

LEMMA EditorShapeNext ==
    ASSUME ClientInv, ClientMove
    PROVE  \A r \in Editor : EditorShape(r)'
<1> USE DEF ClientInv, R!TypeOK, R!At
<1>1. ASSUME NEW r \in Editor, Editing(r)
      PROVE  EditorShape(r)'
  <2>1. PICK i \in 1..created :
            /\ i \in R!Id
            /\ \E l, d, x \in SUBSET Home[i] : d \cap l = {} /\ R!Edit(r, i, l, d, x)
            /\ stage[r] = "idle" /\ edits < MaxEdits /\ edits' = edits + 1 /\ boots' = boots
    BY <1>1, EditingShape
  <2>2. PICK l, d, x \in SUBSET Home[i] : d \cap l = {} /\ R!Edit(r, i, l, d, x)
    BY <2>1
  <2> QED
    BY <2>1, <2>2 DEF R!Edit, R!tables, EditorShape
<1>2. ASSUME NEW r \in Editor, Adding(r)
      PROVE  EditorShape(r)'
  BY <1>2, ClientConstants DEF Adding, R!AddInbound, R!AddInbounds, R!Arrives, R!reqVars, EditorShape
<1>3. ASSUME NEW r \in Editor, Removing(r) \/ Orphaning(r)
      PROVE  EditorShape(r)'
  <2>1. CASE Removing(r)
    <3>1. UNCHANGED <<created, rowIds, R!reqVars>>
      BY <2>1 DEF Removing, R!DeleteAll, R!DelInbound
    <3> QED
      BY <3>1 DEF R!reqVars, EditorShape
  <2>2. CASE Orphaning(r)
    BY <2>2 DEF Orphaning, R!DeleteOrphan, R!Arrives, R!tables, EditorShape
  <2> QED
    BY <1>3, <2>1, <2>2
<1>4. ASSUME NEW r \in Editor, Going(r) \/ R!DeleteByEmail(r)
      PROVE  EditorShape(r)'
  BY <1>4 DEF Going, R!GetInbound, R!Refused, R!Save, R!Synced, R!Done, R!Forget, R!DeleteByEmail,
     R!tables, EditorShape
<1>5. ASSUME NEW r \in Editor, NEW e \in Email, R!EnsureRead(r, e)
      PROVE  EditorShape(r)'
  <2>1. (IF e \in DOMAIN row THEN row[e] ELSE R!NoRow).id \in 0..rowIds
    BY DEF R!Row, R!NoRow
  <2> QED
    BY <1>5, <2>1 DEF R!EnsureRead, R!tables, EditorShape
<1>6. ASSUME NEW r \in Editor, NEW e \in Email, R!EnsureCreate(r, e) \/ R!EnsureSave(r, e)
      PROVE  EditorShape(r)'
  BY <1>6 DEF R!EnsureCreate, R!EnsureSave, R!Written, R!NoRow, EditorShape
<1>7. ASSUME R!Boot
      PROVE  \A r \in Editor : EditorShape(r)'
  BY <1>7, BootRows, BootForgets DEF R!NoRow, EditorShape
<1>8. ASSUME NEW r \in Editor, EditorMove(r), NEW q \in Editor, q # r
      PROVE  EditorShape(q)'
  <2>1. created' >= created /\ rowIds' >= rowIds
    BY <1>8, EditorEffect, ClientConstants
  <2>2. 1..created \subseteq 1..created' /\ 0..rowIds \subseteq 0..rowIds'
    BY <1>8, <2>1, EditorEffect, ClientConstants
  <2> QED
    BY <1>8, <2>2, EditorEffect DEF EditorShape
<1>9. ASSUME NEW r \in Editor, EditorMove(r)
      PROVE  EditorShape(r)'
  BY <1>1, <1>2, <1>3, <1>4, <1>5, <1>6, <1>9 DEF EditorMove, Ensuring
<1> QED
  BY EditorKinds, <1>7, <1>8, <1>9

LEMMA ClientInvNext ==
    ASSUME ClientInv, [Next]_vars
    PROVE  ClientInv'
<1>1. CASE ClientMove
  BY <1>1, ClientTypedNext, EditorShapeNext DEF ClientInv
<1>2. CASE UNCHANGED clientVars
  BY <1>2 DEF clientVars, ClientInv, R!TypeOK, EditorShape
<1> QED
  BY <1>1, <1>2, Moves
-----------------------------------------------------------------------------
(* One editor at a time, of inbounds with emails of their own.              *)
OneEditor == \A q, r \in Editor : q = r

OwnEmails == \A i, j \in R!Id : i # j => Home[i] \cap Home[j] = {}

\* A row is of an inbound whose users go by its email.
RowsAtHome == \A e \in DOMAIN row : e \in Home[row[e].inbound]

\* What the editor has read is still what the table holds.
FoundIsCurrent ==
    \A r \in Editor : stage[r] = "write" =>
        \A e \in writing[r] : found[r] = IF e \in DOMAIN row THEN row[e] ELSE R!NoRow

\* The rows that it deletes are of no client.
DropsUnlisted ==
    \A r \in Editor : stage[r] \in {"rows", "write", "drop"} => drop[r] \cap R!Listed = {}

\* A client has its row, or the editor is on its way to it.
Covered(i, e) ==
    \/ e \in DOMAIN row /\ row[e].inbound = i
    \/ \E r \in Editor : at[r] = i /\ e \in todo[r] \cup writing[r]

ClientsCovered == \A i \in DOMAIN clients \ unsynced : \A e \in clients[i] : Covered(i, e)

RowInv == RowsAtHome /\ FoundIsCurrent /\ DropsUnlisted /\ ClientsCovered

LEMMA RowsAtHomeNext ==
    ASSUME ClientInv, RowsAtHome, ClientMove
    PROVE  RowsAtHome'
<1> USE DEF ClientInv, R!TypeOK, RowsAtHome
<1>1. ASSUME NEW r \in Editor, Editing(r) \/ Adding(r) \/ Orphaning(r) \/ Going(r)
      PROVE  RowsAtHome'
  <2>1. UNCHANGED row
    BY <1>1, EditingShape DEF R!Edit, Adding, R!AddInbound, R!AddInbounds, Orphaning,
       R!DeleteOrphan, Going, R!GetInbound, R!Refused, R!Save, R!Synced, R!Done, R!tables
  <2> QED
    BY <2>1
<1>2. ASSUME NEW r \in Editor, Removing(r) \/ R!DeleteByEmail(r)
      PROVE  RowsAtHome'
  <2>1. \/ DOMAIN row' = {} \/ UNCHANGED row
        \/ row' = R!Restrict(row, DOMAIN row \ drop[r])
    BY <1>2 DEF Removing, R!DeleteAll, R!DelInbound, R!DeleteByEmail
  <2> QED
    BY <2>1 DEF R!Restrict
<1>3. ASSUME NEW r \in Editor, NEW e \in Email, R!EnsureRead(r, e)
      PROVE  RowsAtHome'
  BY <1>3 DEF R!EnsureRead, R!tables
<1>4. ASSUME NEW r \in Editor, NEW e \in Email, R!EnsureCreate(r, e) \/ R!EnsureSave(r, e)
      PROVE  RowsAtHome'
  <2>1. e \in Home[at[r]]
    BY <1>4 DEF R!EnsureCreate, R!EnsureSave, EditorShape
  <2>2. \/ UNCHANGED row
        \/ \E n : row' = R!With(row, e, [id |-> n, inbound |-> at[r]])
    BY <1>4 DEF R!EnsureCreate, R!EnsureSave
  <2> QED
    BY <2>1, <2>2 DEF R!With
<1>5. ASSUME R!Boot
      PROVE  RowsAtHome'
  BY <1>5, BootRows, LastHomeIsHome
<1> QED
  BY EditorKinds, <1>1, <1>2, <1>3, <1>4, <1>5 DEF EditorMove, Ensuring

LEMMA FoundNext ==
    ASSUME OneEditor, ClientInv, FoundIsCurrent, ClientMove
    PROVE  FoundIsCurrent'
<1> USE DEF ClientInv, R!TypeOK, FoundIsCurrent, OneEditor, R!At
<1>1. ASSUME NEW r \in Editor,
             Editing(r) \/ Adding(r) \/ Removing(r) \/ Orphaning(r) \/ Going(r) \/ R!DeleteByEmail(r)
      PROVE  stage'[r] # "write"
  <2>1. CASE Editing(r)
    BY <2>1, EditingShape DEF R!Edit
  <2>2. CASE Adding(r) \/ Removing(r) \/ Orphaning(r)
    BY <2>2 DEF Adding, R!AddInbound, R!AddInbounds, Removing, R!DeleteAll, R!DelInbound, Orphaning,
       R!DeleteOrphan, R!Arrives, R!reqVars
  <2>3. CASE Going(r) \/ R!DeleteByEmail(r)
    BY <2>3 DEF Going, R!GetInbound, R!Refused, R!Save, R!Synced, R!Done, R!Forget, R!DeleteByEmail
  <2> QED
    BY <1>1, <2>1, <2>2, <2>3
<1>2. ASSUME NEW r \in Editor, NEW e \in Email, R!EnsureRead(r, e)
      PROVE  FoundIsCurrent'
  <2>1. /\ found'[r] = IF e \in DOMAIN row THEN row[e] ELSE R!NoRow
        /\ writing'[r] = {e} /\ UNCHANGED row
    BY <1>2 DEF R!EnsureRead, R!tables
  <2> QED
    BY <2>1
<1>3. ASSUME NEW r \in Editor, NEW e \in Email, R!EnsureCreate(r, e) \/ R!EnsureSave(r, e)
      PROVE  stage'[r] # "write"
  BY <1>3 DEF R!EnsureCreate, R!EnsureSave, R!Written
<1>4. ASSUME R!Boot
      PROVE  FoundIsCurrent'
  BY <1>4, BootForgets
<1> QED
  BY EditorKinds, <1>1, <1>2, <1>3, <1>4 DEF EditorMove, Ensuring

LEMMA DropsNextUnlisted ==
    ASSUME OneEditor, OwnEmails, ClientInv, RowsAtHome, DropsUnlisted, ClientMove
    PROVE  DropsUnlisted'
<1> USE DEF ClientInv, R!TypeOK, DropsUnlisted, OneEditor, R!At
<1>1. ASSUME NEW r \in Editor, Editing(r)
      PROVE  DropsUnlisted'
  <2>1. stage'[r] = "check"
    BY <1>1, EditingShape DEF R!Edit
  <2> QED
    BY <2>1
<1>2. ASSUME NEW r \in Editor, Adding(r)
      PROVE  DropsUnlisted'
  <2>1. drop'[r] = {}
    BY <1>2 DEF Adding, R!AddInbound, R!AddInbounds, R!Arrives, R!reqVars, EditorShape
  <2> QED
    BY <2>1
<1>3. ASSUME NEW r \in Editor, Removing(r)
      PROVE  DropsUnlisted'
  <2>1. stage'[r] = "idle"
    BY <1>3 DEF Removing, R!DeleteAll, R!DelInbound, R!Arrives, R!reqVars
  <2> QED
    BY <2>1
<1>4. ASSUME NEW r \in Editor, Orphaning(r)
      PROVE  DropsUnlisted'
  <2>1. PICK i \in R!Id, e \in Email : R!DeleteOrphan(r, i, e)
    BY <1>4 DEF Orphaning
  <2>2. e \in Home[i] /\ i \in DOMAIN clients /\ e \notin clients[i]
    BY <2>1 DEF R!DeleteOrphan, RowsAtHome
  <2>3. e \notin R!Listed
    BY <2>2 DEF OwnEmails, R!Listed
  <2>4. drop'[r] = {e} /\ UNCHANGED clients
    BY <2>1 DEF R!DeleteOrphan, R!tables
  <2> QED
    BY <2>3, <2>4 DEF R!Listed
<1>5. ASSUME NEW r \in Editor, R!Save(r)
      PROVE  DropsUnlisted'
  <2>1. /\ at[r] \in R!Id /\ drop[r] \subseteq Home[at[r]] /\ drop[r] \cap list[r] = {}
        /\ clients' = R!With(clients, at[r], list[r]) /\ drop' = drop
    BY <1>5 DEF R!Save, EditorShape
  <2>2. ASSUME NEW i \in DOMAIN clients', NEW e \in clients'[i], e \in drop[r]
        PROVE  FALSE
    BY <2>1, <2>2 DEF R!With, OwnEmails
  <2> QED
    BY <2>1, <2>2 DEF R!Listed
<1>6. ASSUME NEW r \in Editor,
             R!GetInbound(r) \/ R!Refused(r) \/ R!Synced(r) \/ R!Done(r) \/ R!DeleteByEmail(r)
      PROVE  DropsUnlisted'
  <2>1. \/ stage'[r] \in {"idle", "save"}
        \/ stage[r] \in {"rows", "drop"} /\ drop'[r] \subseteq drop[r] /\ UNCHANGED clients
    BY <1>6 DEF R!GetInbound, R!Refused, R!Synced, R!Done, R!Forget, R!DeleteByEmail, R!tables
  <2> QED
    BY <2>1 DEF R!Listed
<1>7. ASSUME NEW r \in Editor, Ensuring(r)
      PROVE  DropsUnlisted'
  <2>1. stage[r] \in {"rows", "write"} /\ UNCHANGED <<drop, clients>>
    BY <1>7 DEF Ensuring, R!EnsureRead, R!EnsureCreate, R!EnsureSave, R!Written, R!tables
  <2> QED
    BY <2>1 DEF R!Listed
<1>8. ASSUME R!Boot
      PROVE  DropsUnlisted'
  BY <1>8, BootForgets
<1> QED
  BY EditorKinds, <1>1, <1>2, <1>3, <1>4, <1>5, <1>6, <1>7, <1>8 DEF EditorMove, Going

LEMMA CoveredNext ==
    ASSUME OneEditor, OwnEmails, ClientInv, RowInv, ClientMove
    PROVE  ClientsCovered'
<1> USE DEF ClientInv, R!TypeOK, RowInv, ClientsCovered, Covered, OneEditor, R!At
<1>1. ASSUME NEW r \in Editor, Editing(r)
      PROVE  ClientsCovered'
  <2>1. stage[r] = "idle" /\ UNCHANGED <<clients, row, unsynced, todo, writing>>
    BY <1>1, EditingShape DEF R!Edit, R!tables
  <2>2. todo[r] = {} /\ writing[r] = {}
    BY <2>1 DEF EditorShape
  <2> QED
    BY <2>1, <2>2
<1>2. ASSUME NEW r \in Editor, R!AddInbound(r) \/ R!AddInbounds(r) \/ R!Save(r)
      PROVE  ClientsCovered'
  <2>1. PICK i, l : /\ clients' = R!With(clients, i, l) /\ UNCHANGED row
                    /\ \/ todo'[r] = l /\ at'[r] = i /\ unsynced \ {i} \subseteq unsynced'
                       \/ unsynced' = unsynced \cup {i}
    BY <1>2 DEF R!AddInbound, R!AddInbounds, R!Save
  <2>2. todo[r] = {} /\ writing[r] = {}
    BY <1>2 DEF R!AddInbound, R!AddInbounds, R!Save, R!Arrives, EditorShape
  <2>3. ASSUME NEW j \in DOMAIN clients' \ unsynced', NEW e \in clients'[j], j # i
        PROVE  e \in DOMAIN row' /\ row'[e].inbound = j
    BY <2>1, <2>2, <2>3 DEF R!With
  <2>4. ASSUME NEW e \in clients'[i], i \notin unsynced'
        PROVE  Covered(i, e)'
    BY <2>1, <2>4 DEF R!With
  <2> QED
    BY <2>3, <2>4
<1>3. ASSUME NEW r \in Editor, Removing(r)
      PROVE  ClientsCovered'
  <2>1. CASE R!DeleteAll(r)
    <3>1. DOMAIN clients' = {}
      BY <2>1 DEF R!DeleteAll
    <3> QED
      BY <3>1
  <2>2. ASSUME NEW i \in R!Id, R!DelInbound(r, i)
        PROVE  ClientsCovered'
    BY <2>2 DEF R!DelInbound, R!reqVars, R!Restrict
  <2> QED
    BY <1>3, <2>1, <2>2 DEF Removing
<1>4. ASSUME NEW r \in Editor, Orphaning(r)
      PROVE  ClientsCovered'
  BY <1>4 DEF Orphaning, R!DeleteOrphan, R!tables
<1>5. ASSUME NEW r \in Editor, R!GetInbound(r) \/ R!Refused(r) \/ R!Synced(r) \/ R!Done(r)
      PROVE  ClientsCovered'
  <2>1. todo[r] = {} /\ writing[r] = {} /\ UNCHANGED <<clients, row, unsynced>>
    BY <1>5 DEF R!GetInbound, R!Refused, R!Synced, R!Done, R!tables, EditorShape
  <2> QED
    BY <2>1
<1>6. ASSUME NEW r \in Editor, R!DeleteByEmail(r)
      PROVE  ClientsCovered'
  <2>1. /\ row' = R!Restrict(row, DOMAIN row \ drop[r]) /\ drop[r] \cap R!Listed = {}
        /\ UNCHANGED <<clients, unsynced, at, todo, writing>>
    BY <1>6 DEF R!DeleteByEmail, DropsUnlisted
  <2> QED
    BY <2>1 DEF R!Restrict, R!Listed
<1>7. ASSUME NEW r \in Editor, NEW e \in Email, R!EnsureRead(r, e)
      PROVE  ClientsCovered'
  <2>1. /\ todo'[r] \cup writing'[r] = todo[r] \cup writing[r]
        /\ UNCHANGED <<clients, row, unsynced, at>>
    BY <1>7 DEF R!EnsureRead, R!tables
  <2> QED
    BY <2>1
<1>8. ASSUME NEW r \in Editor, NEW e \in Email, R!EnsureCreate(r, e) \/ R!EnsureSave(r, e)
      PROVE  ClientsCovered'
  <2>1. /\ stage[r] = "write" /\ e \in writing[r] /\ at[r] \in R!Id
        /\ writing[r] \subseteq Home[at[r]] /\ found[r] = IF e \in DOMAIN row THEN row[e] ELSE R!NoRow
    BY <1>8 DEF R!EnsureCreate, R!EnsureSave, EditorShape, FoundIsCurrent
  <2>2. PICK n : row' = R!With(row, e, [id |-> n, inbound |-> at[r]])
    <3>1. e \in DOMAIN row => row[e] # R!NoRow
      <4>1. R!NoRow \notin R!Row
        <5>1. 0 \notin R!Id
          BY ClientConstants
        <5> QED
          BY <5>1 DEF R!NoRow, R!Row
      <4> QED
        BY <4>1
    <3> QED
      BY <1>8, <2>1, <3>1 DEF R!EnsureCreate, R!EnsureSave
  <2>3. UNCHANGED <<clients, unsynced, at, todo>> /\ writing'[r] = {}
    BY <1>8 DEF R!EnsureCreate, R!EnsureSave, R!Written
  <2>4. ASSUME NEW i \in DOMAIN clients \ unsynced, e \in clients[i]
        PROVE  e \in DOMAIN row' /\ row'[e].inbound = i
    <3>1. i = at[r]
      BY <2>1, <2>4 DEF OwnEmails
    <3> QED
      BY <2>2, <3>1 DEF R!With
  <2>5. ASSUME NEW i \in DOMAIN clients \ unsynced, NEW f \in clients[i], f # e
        PROVE  Covered(i, f)'
    <3>1. CASE f \in DOMAIN row /\ row[f].inbound = i
      BY <2>2, <2>5, <3>1 DEF R!With
    <3>2. CASE at[r] = i /\ f \in todo[r] \cup writing[r]
      <4>1. CASE f \in todo[r]
        BY <2>3, <3>2, <4>1
      <4>2. CASE f \in writing[r]
        BY <2>1, <2>5, <4>2 DEF EditorShape
      <4> QED
        BY <3>2, <4>1, <4>2
    <3> QED
      BY <3>1, <3>2
  <2> QED
    BY <2>3, <2>4, <2>5
<1>9. ASSUME R!Boot
      PROVE  ClientsCovered'
  <2>1. ASSUME NEW i \in DOMAIN clients, NEW e \in clients[i]
        PROVE  e \in DOMAIN row' /\ row'[e].inbound = i
    <3>1. e \in R!Listed
      BY DEF R!Listed
    <3>2. R!LastHome(e) \in DOMAIN clients /\ e \in clients[R!LastHome(e)]
      BY <3>1, LastHomeIsHome
    <3>3. R!LastHome(e) = i
      BY <3>2 DEF OwnEmails
    <3> QED
      BY <1>9, <3>1, <3>3, BootRows
  <2> QED
    BY <1>9, <2>1, BootForgets
<1> QED
  BY EditorKinds, <1>1, <1>2, <1>3, <1>4, <1>5, <1>6, <1>7, <1>8, <1>9
     DEF EditorMove, Adding, Going, Ensuring

LEMMA RowInvNext ==
    ASSUME OneEditor, OwnEmails, ClientInv, RowInv, [Next]_vars
    PROVE  RowInv'
<1>1. CASE ClientMove
  BY <1>1, RowsAtHomeNext, FoundNext, DropsNextUnlisted, CoveredNext DEF RowInv
<1>2. CASE UNCHANGED clientVars
  BY <1>2 DEF clientVars, RowInv, RowsAtHome, FoundIsCurrent, DropsUnlisted, ClientsCovered, Covered,
     R!Listed
<1> QED
  BY <1>1, <1>2, Moves

LEMMA InitRows == R!Init => RowInv
BY DEF R!Init, RowInv, RowsAtHome, FoundIsCurrent, DropsUnlisted, ClientsCovered

LEMMA RowsCovered == ClientInv /\ RowInv => RowsCoverClients
BY DEF RowInv, ClientsCovered, Covered, RowsCoverClients, R!RowsCoverClients, R!Idle, ClientInv,
   R!TypeOK, EditorShape

\* model.go:123-124: of one editor at a time, and of inbounds that share no email, every
\* client has its row between the requests, whatever edits, renames and deletions
\* there were and wherever the panel died.
THEOREM ClientsHaveRows == OneEditor /\ OwnEmails => (Spec => []RowsCoverClients)
<1> SUFFICES ASSUME OneEditor, OwnEmails
             PROVE  Spec => []RowsCoverClients
  OBVIOUS
<1>1. Init => ClientInv /\ RowInv
  BY InitClients, InitRows DEF Init
<1>2. ClientInv /\ RowInv /\ [Next]_vars => (ClientInv /\ RowInv)'
  BY ClientInvNext, RowInvNext
<1>3. ClientInv /\ RowInv => RowsCoverClients
  BY RowsCovered
<1> QED
  BY <1>1, <1>2, <1>3, PTL DEF Spec

LEMMA CountsStep ==
    ASSUME ClientInv, DropsUnlisted, ClientMove
    PROVE  \A e \in DOMAIN row : e \in R!Listed /\ e \in R!Listed' =>
               e \in DOMAIN row' /\ row'[e].id = row[e].id
<1> DEFINE Kept == \A e \in DOMAIN row : e \in R!Listed /\ e \in R!Listed' =>
                       e \in DOMAIN row' /\ row'[e].id = row[e].id
<1>1. ASSUME UNCHANGED row
      PROVE  Kept
  BY <1>1
<1>2. ASSUME NEW r \in Editor, Editing(r) \/ Adding(r) \/ Orphaning(r) \/ Going(r)
      PROVE  UNCHANGED row
  BY <1>2, EditingShape DEF R!Edit, Adding, R!AddInbound, R!AddInbounds, Orphaning,
     R!DeleteOrphan, Going, R!GetInbound, R!Refused, R!Save, R!Synced, R!Done, R!tables
<1>3. ASSUME NEW r \in Editor, Removing(r)
      PROVE  Kept
  <2>1. UNCHANGED row \/ DOMAIN clients' = {}
    BY <1>3 DEF Removing, R!DeleteAll, R!DelInbound
  <2> QED
    BY <2>1 DEF R!Listed
<1>4. ASSUME NEW r \in Editor, R!DeleteByEmail(r)
      PROVE  Kept
  BY <1>4 DEF R!DeleteByEmail, DropsUnlisted, R!Restrict
<1>5. ASSUME NEW r \in Editor, NEW e \in Email,
             R!EnsureRead(r, e) \/ R!EnsureCreate(r, e) \/ R!EnsureSave(r, e)
      PROVE  Kept
  BY <1>5 DEF R!EnsureRead, R!EnsureCreate, R!EnsureSave, R!With, R!tables
<1>6. ASSUME R!Boot
      PROVE  Kept
  BY <1>6, BootRows
<1> QED
  BY EditorKinds, <1>1, <1>2, <1>3, <1>4, <1>5, <1>6 DEF EditorMove, Ensuring

\* client.go:140-141: of one editor at a time, and of inbounds that share no email, the row
\* of a client that stays listed is never replaced, so its counts are kept.
THEOREM RowsSurvive == OneEditor /\ OwnEmails => (Spec => CountsSurvive)
<1> SUFFICES ASSUME OneEditor, OwnEmails
             PROVE  Spec => CountsSurvive
  OBVIOUS
<1> DEFINE Kept == \A e \in DOMAIN row : e \in R!Listed /\ e \in R!Listed' =>
                       e \in DOMAIN row' /\ row'[e].id = row[e].id
<1>1. Init => ClientInv /\ RowInv
  BY InitClients, InitRows DEF Init
<1>2. ClientInv /\ RowInv /\ [Next]_vars => (ClientInv /\ RowInv)'
  BY ClientInvNext, RowInvNext
<1>3. ClientInv /\ RowInv /\ [Next]_vars => [Kept]_(R!vars)
  <2> SUFFICES ASSUME ClientInv, RowInv, [Next]_vars
               PROVE  [Kept]_(R!vars)
    OBVIOUS
  <2>1. CASE ClientMove
    BY <2>1, CountsStep DEF RowInv
  <2>2. CASE UNCHANGED clientVars
    BY <2>2 DEF clientVars, R!vars, R!tables, R!reqVars
  <2> QED
    BY <2>1, <2>2, Moves
<1> QED
  BY <1>1, <1>2, <1>3, PTL DEF Spec, CountsSurvive, R!CountsSurvive
-----------------------------------------------------------------------------
(* The flag: who owes it, and what is left to notice.                       *)
FlagInv ==
    /\ part \in {"config", "clients"}
    /\ flag \in BOOLEAN /\ stale \in BOOLEAN /\ lapse \in BOOLEAN
    /\ owes \in [Request \cup Editor -> {"nothing", "flag", "restart"}]
    /\ \A r \in Request : owes[r] # "nothing" => pc[r] = "idle"

LEMMA SameConfig ==
    ASSUME UNCHANGED <<inbounds, outbounds, rules, clients>>
    PROVE  ConfigNow' = ConfigNow
BY DEF ConfigNow, Enabled

ConfigHandler(r) ==
    \/ InboundHandlers(r) \/ BulkHandlers(r) \/ DelAllInbounds(r) \/ DisableInvalidInbounds(r)
    \/ OutboundHandlers(r) \/ RuleHandlers(r) \/ Service(r) \/ UpdateFromPanel(r) \/ ServiceFails(r)

\* A request waits: the config is as it was, or it goes on to drop an outbound.
WaitsQuietly(r) ==
    /\ owes' = owes /\ lapse' = lapse
    /\ pc[r] # "drop" /\ (UNCHANGED ConfigNow \/ pc'[r] = "drop")

\* It is over, and its handler has the flag to raise or xray to restart.
ReturnsOwing(r) ==
    /\ lapse' = lapse /\ pc'[r] = "idle"
    /\ \E what \in {"flag", "restart"} : owes' = [owes EXCEPT ![r] = what]

FailsQuietly(r) ==
    /\ owes' = owes /\ lapse' = (lapse \/ (pc[r] = "drop" /\ stale))
    /\ UNCHANGED ConfigNow

LEMMA EndsIdle ==
    ASSUME ConfigInv, NEW r \in Request, Ending(r)
    PROVE  pc'[r] = "idle"
BY DEF ConfigInv, RequestsTyped, Ending, C!Create, C!Save, C!Enable, C!SaveOutbound,
   C!DropOutbound, C!SaveRule, C!Refused, C!Ends, C!At

LEMMA StartsQuietly ==
    ASSUME ConfigInv, FlagInv, NEW r \in Request, UNCHANGED clientVars,
           Starting(r) \/ Writing(r) \/ C!DeleteOutbound(r), AtOnce(r)
    PROVE  WaitsQuietly(r) \/ ReturnsOwing(r)
<1>1. CASE pc'[r] = "idle"
  BY <1>1 DEF AtOnce, Returns, Owes, ReturnsOwing
<1>2. CASE pc'[r] # "idle"
  <2>1. owes' = owes /\ lapse' = lapse
    BY <1>2 DEF AtOnce, Waits
  <2>2. CASE Starting(r)
    <3>1. pc[r] = "idle" /\ UNCHANGED <<inbounds, outbounds, rules, clients>>
      BY <2>2, StartingShape DEF C!Starts, C!tables, C!Arrives, clientVars
    <3> QED
      BY <2>1, <3>1, SameConfig DEF WaitsQuietly
  <2>3. CASE Writing(r)
    BY <1>2, <2>3 DEF Writing, C!DisableMany, C!DelInbound, C!DeleteAll, C!AddOutbound,
       C!DeleteOutbounds, C!AddRule, C!SetRuleEnable, C!DeleteRule, C!ApplyPreset, C!Write,
       C!Arrives, C!reqVars
  <2>4. CASE C!DeleteOutbound(r)
    BY <2>1, <2>4 DEF C!DeleteOutbound, C!Arrives, C!At, WaitsQuietly, ConfigInv, RequestsTyped
  <2> QED
    BY <2>2, <2>3, <2>4
<1> QED
  BY <1>1, <1>2

LEMMA ConfigHandlers ==
    ASSUME ConfigInv, FlagInv, NEW r \in Request, ConfigHandler(r)
    PROVE  /\ RequestMove(r) /\ Free(r) /\ Changes /\ UNCHANGED <<clientVars, part, flag>>
           /\ WaitsQuietly(r) \/ ReturnsOwing(r) \/ FailsQuietly(r)
<1>1. ASSUME \/ InboundHandlers(r) \/ BulkHandlers(r) \/ DelAllInbounds(r)
             \/ OutboundHandlers(r) \/ RuleHandlers(r)
      PROVE  /\ Starting(r) \/ Writing(r) \/ C!DeleteOutbound(r)
             /\ AtOnce(r) /\ Changes /\ UNCHANGED <<clientVars, part, flag>>
  BY <1>1 DEF InboundHandlers, BulkHandlers, DelAllInbounds, OutboundHandlers, OutboundController,
     RuleHandlers, BlockRuleController, OfConfig, Starting, Writing
<1>2. AtOnce(r) => Free(r)
  BY DEF AtOnce, Returns, Waits
<1>3. CASE DisableInvalidInbounds(r)
  <2>1. /\ C!DisableMany(r) /\ Changes /\ UNCHANGED <<clientVars, part, flag>>
        /\ IF inbounds' = inbounds THEN Waits(r) ELSE Returns(r)
    BY <1>3 DEF DisableInvalidInbounds, OfConfig
  <2>2. pc[r] = "idle" /\ pc'[r] = "idle" /\ UNCHANGED <<outbounds, rules, clients>>
    BY <2>1 DEF C!DisableMany, C!Write, C!Arrives, C!reqVars, clientVars
  <2>3. CASE inbounds' = inbounds
    BY <2>1, <2>2, <2>3, SameConfig DEF Waits, WaitsQuietly, RequestMove, Writing
  <2>4. CASE inbounds' # inbounds
    BY <2>1, <2>2, <2>4 DEF Returns, Owes, ReturnsOwing, RequestMove, Writing
  <2> QED
    BY <2>3, <2>4
<1>4. CASE Service(r)
  <2>1. /\ \/ Checking(r) /\ Waits(r)
           \/ Ending(r) /\ Returns(r)
        /\ Changes /\ UNCHANGED <<clientVars, part, flag>>
    BY <1>4 DEF Service, OfConfig, Checking, Ending
  <2>2. CASE Checking(r) /\ Waits(r)
    <3>1. pc[r] # "drop" /\ UNCHANGED <<inbounds, outbounds, rules, clients>>
      BY <2>1, <2>2 DEF Checking, C!CheckPortExist, C!CheckProtocolSingleton, C!GetInbound,
         C!GetAllInbounds, C!DryRun, C!tables, clientVars
    <3> QED
      BY <2>1, <2>2, <3>1, SameConfig DEF Waits, WaitsQuietly, RequestMove
  <2>3. CASE Ending(r) /\ Returns(r)
    BY <2>1, <2>3, EndsIdle DEF Returns, Owes, ReturnsOwing, RequestMove
  <2> QED
    BY <2>1, <2>2, <2>3
<1>5. CASE UpdateFromPanel(r)
  <2>1. /\ Ending(r) /\ Free(r) /\ Owes(r, "restart")
        /\ Changes /\ UNCHANGED <<clientVars, part, flag>>
    BY <1>5 DEF UpdateFromPanel, OfConfig, Ending
  <2> QED
    BY <2>1, EndsIdle DEF Owes, ReturnsOwing, RequestMove
<1>6. CASE ServiceFails(r)
  <2>1. /\ C!Refused(r) /\ Free(r) /\ UNCHANGED owes
        /\ Changes /\ UNCHANGED <<clientVars, part, flag>>
        /\ lapse' = (lapse \/ (pc[r] = "drop" /\ stale))
    BY <1>6 DEF ServiceFails, OfConfig
  <2>2. UNCHANGED ConfigNow
    BY <2>1, SameConfig DEF C!Refused, C!tables, clientVars
  <2> QED
    BY <2>1, <2>2 DEF FailsQuietly, RequestMove, Ending
<1> QED
  BY <1>1, <1>2, <1>3, <1>4, <1>5, <1>6, StartsQuietly DEF ConfigHandler, RequestMove

\* An editor that waits goes on, or has changed nothing.
EditsQuietly(r) ==
    /\ owes' = owes /\ lapse' = lapse
    /\ Midway(r) => Midway(r)'
    /\ UNCHANGED ConfigNow \/ Midway(r)'

EditsOwing(r) == lapse' = lapse /\ owes' = [owes EXCEPT ![r] = "flag"]

LEMMA ClientHandlersMove ==
    ASSUME ClientInv, FlagInv, NEW r \in Editor, ClientHandlers(r) \/ EditStep(r)
    PROVE  /\ EditorMove(r) /\ Free(r) /\ Changes /\ UNCHANGED <<configVars, part, flag>>
           /\ EditsQuietly(r) \/ EditsOwing(r)
<1> USE DEF ClientInv, R!TypeOK, R!At
<1>1. CASE ClientHandlers(r)
  <2>1. /\ R!Arrival(r) /\ Changes /\ UNCHANGED <<configVars, part, flag>>
        /\ IF stage'[r] = "idle" THEN Returns(r) ELSE Waits(r)
    BY <1>1 DEF ClientHandlers, OfClients
  <2>2. Editing(r) \/ Adding(r) \/ Removing(r) \/ Orphaning(r)
    BY <2>1 DEF R!Arrival, Editing, Adding, Removing, Orphaning
  <2>3. CASE stage'[r] = "idle"
    BY <2>1, <2>2, <2>3 DEF Returns, Owes, EditsOwing, EditorMove
  <2>4. CASE stage'[r] # "idle"
    <3>1. Waits(r) /\ stage[r] = "idle"
      BY <2>1, <2>2, <2>4, EditingShape DEF Adding, R!AddInbound, R!AddInbounds, Removing,
         R!DeleteAll, R!DelInbound, Orphaning, R!DeleteOrphan, R!Arrives
    <3>2. UNCHANGED <<inbounds, outbounds, rules>>
      BY <2>1 DEF configVars
    <3>3. CASE Editing(r) \/ Orphaning(r)
      <4>1. UNCHANGED clients
        BY <3>3, EditingShape DEF R!Edit, Orphaning, R!DeleteOrphan, R!tables
      <4> QED
        BY <2>1, <2>2, <3>1, <3>2, <4>1, SameConfig
           DEF Waits, EditsQuietly, Midway, EditorMove
    <3>4. CASE Adding(r) \/ Removing(r)
      <4>1. stage'[r] = "rows" /\ at'[r] # 0
        <5>1. R!AddInbound(r)
          BY <2>4, <3>1, <3>4 DEF Adding, R!AddInbounds, Removing, R!DeleteAll, R!DelInbound,
             R!reqVars
        <5>2. created + 1 # 0
          BY ClientConstants
        <5> QED
          BY <5>1, <5>2 DEF R!AddInbound
      <4> QED
        BY <2>1, <2>2, <3>1, <4>1 DEF Waits, EditsQuietly, Midway, EditorMove
    <3> QED
      BY <2>2, <3>3, <3>4
  <2> QED
    BY <2>3, <2>4
<1>2. CASE EditStep(r)
  <2>1. /\ Changes /\ UNCHANGED <<configVars, part, flag>>
        /\ \/ /\ \/ R!GetInbound(r) \/ R!Refused(r) \/ R!Save(r) \/ R!Synced(r)
                 \/ R!DeleteByEmail(r) \/ Ensuring(r)
              /\ Waits(r)
           \/ R!Done(r) /\ IF at[r] = 0 THEN Waits(r) ELSE Returns(r)
    BY <1>2 DEF EditStep, OfClients, Ensuring
  <2>2. UNCHANGED <<inbounds, outbounds, rules>>
    BY <2>1 DEF configVars
  <2>3. CASE R!Save(r) /\ Waits(r)
    BY <2>1, <2>3 DEF R!Save, EditorShape, Waits, EditsQuietly, Midway, EditorMove, Going
  <2>4. CASE /\ \/ R!GetInbound(r) \/ R!Refused(r) \/ R!Synced(r) \/ R!DeleteByEmail(r)
                \/ Ensuring(r)
             /\ Waits(r)
    <3>1. UNCHANGED clients /\ (Midway(r) => Midway(r)')
      BY <2>4 DEF R!GetInbound, R!Refused, R!Synced, R!DeleteByEmail, Ensuring, R!EnsureRead,
         R!EnsureCreate, R!EnsureSave, R!Written, R!tables, Midway
    <3> QED
      BY <2>1, <2>2, <2>4, <3>1, SameConfig DEF Waits, EditsQuietly, EditorMove, Going
  <2>5. CASE R!Done(r) /\ at[r] = 0 /\ Waits(r)
    BY <2>1, <2>2, <2>5, SameConfig DEF R!Done, R!tables, Waits, EditsQuietly, Midway, EditorMove,
       Going
  <2>6. CASE R!Done(r) /\ Returns(r)
    BY <2>1, <2>6 DEF Returns, Owes, EditsOwing, EditorMove, Going
  <2> QED
    BY <2>1, <2>3, <2>4, <2>5, <2>6
<1> QED
  BY <1>1, <1>2
-----------------------------------------------------------------------------
LEMMA FlagInvNext ==
    ASSUME ConfigInv, ClientInv, FlagInv, [Next]_vars
    PROVE  FlagInv'
<1> USE DEF FlagInv
<1>1. ASSUME NEW r \in Request, ConfigHandler(r)
      PROVE  FlagInv'
  <2>1. /\ RequestMove(r) /\ Free(r) /\ Changes /\ UNCHANGED <<clientVars, part, flag>>
        /\ WaitsQuietly(r) \/ ReturnsOwing(r) \/ FailsQuietly(r)
    BY <1>1, ConfigHandlers
  <2>2. UNCHANGED <<part, flag>> /\ stale' \in BOOLEAN /\ lapse' \in BOOLEAN
    <3>1. stale' = (stale \/ ConfigNow' # ConfigNow)
      BY <2>1 DEF Changes
    <3>2. lapse' = lapse \/ lapse' = (lapse \/ (pc[r] = "drop" /\ stale))
      BY <2>1 DEF WaitsQuietly, ReturnsOwing, FailsQuietly
    <3> QED
      BY <2>1, <3>1, <3>2
  <2>3. /\ owes' \in [Request \cup Editor -> {"nothing", "flag", "restart"}]
        /\ owes'[r] # "nothing" => pc'[r] = "idle"
        /\ \A q \in Request \ {r} : owes'[q] = owes[q]
    BY <2>1 DEF WaitsQuietly, ReturnsOwing, FailsQuietly, Free
  <2>4. \A q \in Request \ {r} : pc'[q] = pc[q]
    BY <2>1, RequestEffect DEF RequestMove
  <2> QED
    BY <2>2, <2>3, <2>4
<1>2. ASSUME NEW r \in Editor, ClientHandlers(r) \/ EditStep(r)
      PROVE  FlagInv'
  <2>1. /\ Changes /\ UNCHANGED <<configVars, part, flag>>
        /\ EditsQuietly(r) \/ EditsOwing(r)
    BY <1>2, ClientHandlersMove
  <2>2. UNCHANGED <<part, flag, lapse, pc>> /\ stale' \in BOOLEAN
    BY <2>1 DEF Changes, configVars, EditsQuietly, EditsOwing
  <2>3. /\ owes' \in [Request \cup Editor -> {"nothing", "flag", "restart"}]
        /\ \A q \in Request : owes'[q] = owes[q]
    BY <2>1, ConfigConstants DEF EditsQuietly, EditsOwing
  <2> QED
    BY <2>2, <2>3
<1>3. ASSUME NEW r \in Request \cup Editor, SetToNeedRestart(r)
      PROVE  FlagInv'
  BY <1>3 DEF SetToNeedRestart, Owes, configVars
<1>4. ASSUME NEW r \in Request, RestartNow(r) \/ RestartFails(r)
      PROVE  FlagInv'
  BY <1>4 DEF RestartNow, RestartFails, Owes, configVars
<1>5. CASE Tick \/ TickFails
  <2>1. CASE Tick
    BY <2>1 DEF Tick, configVars
  <2>2. CASE TickFails
    <3>1. /\ UNCHANGED <<part, stale, owes, pc>> /\ flag' = FALSE
          /\ lapse' = (lapse \/ stale)
      BY <2>2 DEF TickFails, configVars
    <3>2. lapse' \in BOOLEAN
      BY <3>1
    <3> QED
      BY <3>1, <3>2
  <2> QED
    BY <1>5, <2>1, <2>2
<1>6. CASE Boot
  BY <1>6 DEF Boot, Restarted
<1>7. CASE Rest \/ UNCHANGED vars
  BY <1>7 DEF Rest, vars, flagVars, configVars
<1> QED
  BY <1>1, <1>2, <1>3, <1>4, <1>5, <1>6, <1>7 DEF Next, ConfigHandler

\* Of a request only its own steps take it out of the middle.
LEMMA NoticedNext ==
    ASSUME ConfigInv, ClientInv, FlagInv, ChangesAreNoticed, [Next]_vars
    PROVE  ChangesAreNoticed'
<1> USE DEF FlagInv, ChangesAreNoticed
<1>1. ASSUME NEW r \in Request, ConfigHandler(r)
      PROVE  ChangesAreNoticed'
  <2>1. /\ RequestMove(r) /\ Free(r) /\ Changes /\ UNCHANGED <<clientVars, part, flag>>
        /\ WaitsQuietly(r) \/ ReturnsOwing(r) \/ FailsQuietly(r)
    BY <1>1, ConfigHandlers
  <2>2. r \notin Editor
    BY ConfigConstants
  <2>3. CASE ReturnsOwing(r)
    BY <2>3 DEF ReturnsOwing, Free
  <2>4. CASE owes' = owes
    <3>1. ASSUME NEW q \in Request \cup Editor, q # r, ~Free(q) \/ Midway(q)
          PROVE  (~Free(q) \/ Midway(q))'
      <4>1. CASE q \in Editor
        BY <2>1, <2>4, <3>1, <4>1 DEF Free, Midway, clientVars
      <4>2. CASE q \notin Editor
        <5>1. q \in Request \ {r} /\ pc'[q] = pc[q]
          BY <2>1, <3>1, <4>2, RequestEffect DEF RequestMove
        <5> QED
          BY <2>4, <3>1, <4>2, <5>1 DEF Free, Midway
      <4> QED
        BY <4>1, <4>2
    <3>2. CASE WaitsQuietly(r)
      <4>1. ~Midway(r)
        BY <2>2, <3>2 DEF WaitsQuietly, Midway
      <4>2. CASE pc'[r] = "drop"
        BY <2>2, <4>2 DEF Midway
      <4>3. CASE UNCHANGED ConfigNow
        <5>1. stale' => stale
          BY <2>1, <4>3 DEF Changes
        <5>2. flag' = flag /\ lapse' = lapse
          BY <2>1, <3>2 DEF WaitsQuietly
        <5> QED
          BY <2>1, <3>1, <4>1, <5>1, <5>2
      <4> QED
        BY <3>2, <4>2, <4>3 DEF WaitsQuietly
    <3>3. CASE FailsQuietly(r)
      <4>1. stale' => stale
        BY <2>1, <3>3 DEF FailsQuietly, Changes
      <4>2. lapse => lapse'
        BY <3>3 DEF FailsQuietly
      <4>3. Midway(r) /\ stale => lapse'
        BY <2>2, <3>3 DEF FailsQuietly, Midway
      <4> QED
        BY <2>1, <3>1, <4>1, <4>2, <4>3
    <3> QED
      BY <2>1, <2>3, <3>2, <3>3
  <2> QED
    BY <2>1, <2>3, <2>4 DEF WaitsQuietly, FailsQuietly
<1>2. ASSUME NEW r \in Editor, ClientHandlers(r) \/ EditStep(r)
      PROVE  ChangesAreNoticed'
  <2>1. /\ EditorMove(r) /\ Free(r) /\ Changes /\ UNCHANGED <<configVars, part, flag>>
        /\ EditsQuietly(r) \/ EditsOwing(r)
    BY <1>2, ClientHandlersMove
  <2>2. CASE EditsOwing(r)
    BY <2>2 DEF EditsOwing, Free
  <2>3. CASE EditsQuietly(r)
    <3>1. ASSUME NEW q \in Request \cup Editor, ~Free(q) \/ Midway(q)
          PROVE  (~Free(q) \/ Midway(q))'
      <4>1. CASE q \in Editor \ {r}
        BY <2>1, <2>3, <3>1, <4>1, EditorEffect DEF EditsQuietly, Free, Midway
      <4>2. CASE q \notin Editor
        BY <2>1, <2>3, <3>1, <4>2 DEF EditsQuietly, Free, Midway, configVars
      <4>3. CASE q = r
        BY <2>1, <2>3, <3>1, <4>3 DEF EditsQuietly, Free
      <4> QED
        BY <4>1, <4>2, <4>3
    <3>2. CASE Midway(r)'
      BY <3>2
    <3>3. CASE UNCHANGED ConfigNow
      <4>1. stale' => stale
        BY <2>1, <3>3 DEF Changes
      <4>2. flag' = flag /\ lapse' = lapse
        BY <2>1, <2>3 DEF EditsQuietly
      <4> QED
        BY <3>1, <4>1, <4>2
    <3> QED
      BY <2>3, <3>2, <3>3 DEF EditsQuietly
  <2> QED
    BY <2>1, <2>2, <2>3
<1>3. ASSUME NEW r \in Request, RestartFails(r)
      PROVE  ChangesAreNoticed'
  BY <1>3 DEF RestartFails, Owes, Free
<1>4. CASE (\E r \in Request : RestartNow(r)) \/ Tick \/ Boot
  BY <1>4 DEF RestartNow, Tick, Boot, Restarted
<1>5. CASE \E r \in Request \cup Editor : SetToNeedRestart(r)
  BY <1>5 DEF SetToNeedRestart
<1>6. CASE TickFails
  <2>1. stale' = stale /\ lapse' = (lapse \/ stale)
    BY <1>6 DEF TickFails
  <2> QED
    BY <2>1
<1>7. CASE Rest \/ UNCHANGED vars
  BY <1>7 DEF Rest, vars, flagVars, configVars, clientVars, Free, Midway
<1> QED
  BY <1>1, <1>2, <1>3, <1>4, <1>5, <1>6, <1>7 DEF Next, ConfigHandler

HandlersInv == ConfigInv /\ ClientInv /\ FlagInv

LEMMA InitHandlers == Init => HandlersInv
BY InitConfig, InitClients, ConfigConstants DEF Init, HandlersInv, FlagInv

\* Every table, request and flag keeps its type, and a handler that owes the flag has
\* no request on the tables.
THEOREM Typed == Spec => []TypeOK
<1>1. HandlersInv /\ [Next]_vars => HandlersInv'
  BY ConfigInvNext, ClientInvNext, FlagInvNext DEF HandlersInv
<1>2. HandlersInv => TypeOK
  BY ConfigTyped DEF HandlersInv, ClientInv, FlagInv, TypeOK
<1> QED
  BY InitHandlers, <1>1, <1>2, PTL DEF Spec

\* controller/inbound.go:40-47 and xray.go:385: for any number of requests and editors, and however
\* they, the ticks, failed ones included, and the deaths of the panel overlap, xray does
\* not go on with a config that the tables have left behind unless the flag is up or a
\* handler is on its way to raise it; or, since the flag was last raised, a deletion of
\* an outbound has failed half way, or a tick has taken the flag and failed.
THEOREM NoChangeIsLost == Spec => []ChangesAreNoticed
<1>1. Init => HandlersInv /\ ChangesAreNoticed
  BY InitHandlers DEF Init, ChangesAreNoticed
<1>2. HandlersInv /\ ChangesAreNoticed /\ [Next]_vars => (HandlersInv /\ ChangesAreNoticed)'
  BY ConfigInvNext, ClientInvNext, FlagInvNext, NoticedNext DEF HandlersInv
<1>3. HandlersInv /\ ChangesAreNoticed => ChangesAreNoticed
  OBVIOUS
<1> QED
  BY <1>1, <1>2, <1>3, PTL DEF Spec
-----------------------------------------------------------------------------
(* The routing rules: which of them decides.                                *)

\* Of a finite set of numbers, each rank below its size is that of one of them.
LEMMA Ranks ==
    ASSUME NEW n \in Nat, NEW S, S \subseteq 1..n
    PROVE  /\ Cardinality(S) \in Nat
           /\ \A k \in S : C!Rank(k, S) \in 0..(Cardinality(S) - 1)
           /\ \A k, m \in S : C!Rank(k, S) = C!Rank(m, S) => k = m
           /\ \A p \in 0..(Cardinality(S) - 1) : \E k \in S : C!Rank(k, S) = p
<1> DEFINE Below(k) == {j \in S : j < k}
<1>1. IsFiniteSet(S) /\ Cardinality(S) \in Nat
  <2>1. IsFiniteSet(1..n)
    BY FS_Interval
  <2> QED
    BY <2>1, FS_Subset, FS_CardinalityType
<1>2. \A k \in S : C!Rank(k, S) = Cardinality(Below(k))
  BY DEF C!Rank, C!Cardinality, Cardinality
<1>3. \A k \in S : IsFiniteSet(Below(k)) /\ Cardinality(Below(k)) \in Nat
  BY <1>1, FS_Subset, FS_CardinalityType
<1>4. ASSUME NEW k \in S
      PROVE  Cardinality(Below(k)) < Cardinality(S)
  <2>1. Below(k) \in SUBSET S /\ k \in S /\ k \notin Below(k)
    OBVIOUS
  <2> HIDE DEF Below
  <2> QED
    BY <1>1, <1>3, <2>1, FS_Subset
<1>5. ASSUME NEW k \in S, NEW m \in S, k < m
      PROVE  Cardinality(Below(k)) < Cardinality(Below(m))
  <2>1. Below(k) \in SUBSET Below(m) /\ k \in Below(m) /\ k \notin Below(k)
    <3>1. \A j \in S : j \in Nat /\ (j < k => j < m)
      BY <1>5
    <3>2. ~(k < k)
      BY <3>1
    <3> QED
      BY <1>5, <3>1, <3>2
  <2> HIDE DEF Below
  <2> QED
    BY <1>3, <2>1, FS_Subset
<1> HIDE DEF Below
<1>6. \A k \in S : C!Rank(k, S) \in 0..(Cardinality(S) - 1)
  BY <1>1, <1>2, <1>3, <1>4
<1>7. \A k, m \in S : C!Rank(k, S) = C!Rank(m, S) => k = m
  BY <1>2, <1>3, <1>5
<1>8. \A p \in 0..(Cardinality(S) - 1) : \E k \in S : C!Rank(k, S) = p
  <2> DEFINE f == [k \in S |-> C!Rank(k, S)]
             T == 0..(Cardinality(S) - 1)
  <2>1. f \in Injection(S, T)
    BY <1>6, <1>7 DEF Injection, IsInjective
  <2>2. IsFiniteSet(T) /\ Cardinality(T) = Cardinality(S)
    <3>1. Cardinality(S) - 1 \in Int /\ 0 \in Int
      BY <1>1
    <3>2. /\ IsFiniteSet(T)
          /\ Cardinality(T) = IF 0 > Cardinality(S) - 1 THEN 0
                              ELSE (Cardinality(S) - 1) - 0 + 1
      BY <3>1, FS_Interval
    <3> QED
      BY <1>1, <3>2
  <2>3. f \in Surjection(S, T)
    <3> HIDE DEF f, T
    <3> QED
      BY <1>1, <2>1, <2>2, FS_Injection
  <2> QED
    BY <2>3 DEF Surjection
<1> QED
  BY <1>1, <1>6, <1>7, <1>8

\* All the values of f over S, and no others.
Lists(s, f, S) ==
    /\ \A m \in 1..Len(s) : \E k \in S : s[m] = f[k]
    /\ \A k \in S : \E m \in 1..Len(s) : s[m] = f[k]

\* That is what ByKey makes.
LEMMA ByKeyLists ==
    ASSUME NEW n \in Nat, NEW S, S \subseteq 1..n, NEW f
    PROVE  /\ C!ByKey(f, S) \in Seq({f[k] : k \in S})
           /\ Lists(C!ByKey(f, S), f, S)
<1> DEFINE At(m) == CHOOSE k \in S : C!Rank(k, S) = m - 1
<1>1. C!ByKey(f, S) = [m \in 1..Cardinality(S) |-> f[At(m)]]
  BY DEF C!ByKey, C!Cardinality, Cardinality
<1>2. Cardinality(S) \in Nat
  BY Ranks
<1>3. ASSUME NEW m \in 1..Cardinality(S)
      PROVE  At(m) \in S /\ C!Rank(At(m), S) = m - 1
  <2>1. m - 1 \in 0..(Cardinality(S) - 1)
    BY <1>2
  <2>2. \E k \in S : C!Rank(k, S) = m - 1
    BY <2>1, Ranks
  <2> QED
    BY <2>2
<1>4. ASSUME NEW k \in S
      PROVE  \E m \in 1..Cardinality(S) : At(m) = k
  <2>1. C!Rank(k, S) \in 0..(Cardinality(S) - 1)
    BY Ranks
  <2>2. PICK m \in 1..Cardinality(S) : m - 1 = C!Rank(k, S)
    BY <1>2, <2>1
  <2>3. At(m) \in S /\ C!Rank(At(m), S) = m - 1
    BY <1>3
  <2> HIDE DEF At
  <2>4. At(m) = k
    BY <2>2, <2>3, Ranks
  <2> QED
    BY <2>4
<1> HIDE DEF At
<1>5. C!ByKey(f, S) \in Seq({f[k] : k \in S}) /\ Len(C!ByKey(f, S)) = Cardinality(S)
  BY <1>1, <1>2, <1>3
<1> QED
  BY <1>1, <1>3, <1>4, <1>5 DEF Lists

\* The first of the rules of three sequences that matches.
LEMMA ThreeLists ==
    ASSUME NEW V, NEW a \in Seq(V), NEW b \in Seq(V), NEW c \in Seq(V)
    PROVE  /\ DOMAIN (a \o b \o c) = 1..(Len(a) + Len(b) + Len(c))
           /\ \A n \in 1..Len(a) : (a \o b \o c)[n] = a[n]
           /\ \A n \in 1..Len(b) : (a \o b \o c)[Len(a) + n] = b[n]
           /\ \A n \in (Len(a) + 1)..(Len(a) + Len(b)) : (a \o b \o c)[n] = b[n - Len(a)]
<1>1. Len(a) \in Nat /\ Len(b) \in Nat /\ Len(c) \in Nat
  OBVIOUS
<1>2. a \o b \in Seq(V) /\ Len(a \o b) = Len(a) + Len(b)
  OBVIOUS
<1>3. /\ DOMAIN ((a \o b) \o c) = 1..(Len(a) + Len(b) + Len(c))
      /\ \A n \in 1..(Len(a) + Len(b)) : ((a \o b) \o c)[n] = (a \o b)[n]
  BY <1>1, <1>2
<1>4. /\ \A n \in 1..Len(a) : (a \o b)[n] = a[n]
      /\ \A n \in (Len(a) + 1)..(Len(a) + Len(b)) : (a \o b)[n] = b[n - Len(a)]
  OBVIOUS
<1> QED
  BY <1>1, <1>3, <1>4

LEMMA LeastOf ==
    ASSUME NEW S, S \subseteq Nat, S # {}
    PROVE  C!Min(S) \in S /\ \A k \in S : C!Min(S) <= k
<1>1. PICK m \in S : \A k \in S : ~(<<k, m>> \in OpToRel(<, Nat))
  BY WFMin, NatLessThanWellFounded
<1>2. \E x \in S : \A y \in S : x <= y
  <2>1. \A k \in S : ~(k < m)
    BY <1>1 DEF OpToRel
  <2> QED
    BY <2>1
<1> QED
  BY <1>2 DEF C!Min

\* No two inbounds have a port in common: the port of a rule tells its inbound.
PortsApart == \A i, j \in DOMAIN inbounds : inbounds[i].port = inbounds[j].port => i = j

LEMMA PortsNext ==
    ASSUME ConfigInv, PortsApart, ConfigMove
    PROVE  PortsApart'
<1> USE DEF ConfigInv, PortsApart
<1>1. ASSUME NEW r \in Request, C!DisableMany(r) \/ C!Enable(r)
      PROVE  PortsApart'
  <2>1. PICK on \in BOOLEAN : \E S : inbounds' = C!SwitchedTo(on, S)
    BY <1>1 DEF C!DisableMany, C!Enable
  <2>2. /\ DOMAIN inbounds' = DOMAIN inbounds
        /\ \A i \in DOMAIN inbounds : inbounds'[i].port = inbounds[i].port
    BY <2>1, SwitchedDef
  <2> QED
    BY <2>2
<1>2. ASSUME NEW r \in Request, C!DeleteOutbound(r) \/ C!DeleteOutbounds(r)
      PROVE  PortsApart'
  <2>1. PICK S \in SUBSET DOMAIN outbounds : inbounds' = C!Unbound(S)
    BY <1>2 DEF C!DeleteOutbound, C!DeleteOutbounds
  <2>2. Direct \notin S
    BY ConfigConstants DEF TablesTyped
  <2>3. /\ DOMAIN inbounds' = DOMAIN inbounds
        /\ \A i \in DOMAIN inbounds : inbounds'[i].port = inbounds[i].port
    BY <2>1, <2>2, UnboundDef
  <2> QED
    BY <2>3
<1>3. ASSUME NEW r \in Request, C!Create(r) \/ C!Save(r)
      PROVE  PortsApart'
  <2>1. PICK i : /\ inbounds' = C!With(inbounds, i, body[r])
                 /\ C!Fits(body[r], DOMAIN inbounds \ {i})
    <3>1. CASE C!Create(r)
      BY <3>1 DEF C!Create, C!Fits
    <3>2. CASE C!Save(r)
      <4>1. PICK i \in target[r] : inbounds' = C!With(inbounds, i, body[r])
        BY <3>2 DEF C!Save
      <4>2. target[r] = {i}
        BY <3>2, <4>1 DEF C!Save, Shape
      <4> QED
        BY <3>2, <4>1, <4>2 DEF C!Save
    <3> QED
      BY <1>3, <3>1, <3>2
  <2>2. \A j \in DOMAIN inbounds \ {i} : inbounds[j].port # body[r].port
    BY <2>1 DEF C!Fits
  <2> QED
    BY <2>1, <2>2 DEF C!With
<1>4. ASSUME NEW r \in Request, C!DelInbound(r) \/ C!DeleteAll(r)
      PROVE  PortsApart'
  BY <1>4 DEF C!DelInbound, C!DeleteAll, C!Without, C!Restrict, C!Empty
<1>5. ASSUME NEW r \in Request,
             \/ Starting(r) \/ Checking(r) \/ C!AddOutbound(r) \/ C!AddRule(r)
             \/ C!SetRuleEnable(r) \/ C!DeleteRule(r) \/ C!ApplyPreset(r) \/ C!SaveOutbound(r)
             \/ C!DropOutbound(r) \/ C!SaveRule(r) \/ C!Refused(r)
      PROVE  UNCHANGED inbounds
  BY <1>5, StartingShape DEF C!Starts, C!tables, Checking, C!CheckPortExist,
     C!CheckProtocolSingleton, C!GetInbound, C!GetAllInbounds, C!DryRun, C!AddOutbound, C!AddRule,
     C!SetRuleEnable, C!DeleteRule, C!ApplyPreset, C!SaveOutbound, C!DropOutbound, C!SaveRule,
     C!Refused
<1>6. C!Dies => UNCHANGED inbounds
  BY DEF C!Dies, C!tables
<1> QED
  BY StepKinds, <1>1, <1>2, <1>3, <1>4, <1>5, <1>6 DEF Writing, Ending

RelayRule(i) == [from |-> {inbounds[i].port}, to |-> Dest, out |-> inbounds[i].out]
Relayed == {i \in DOMAIN inbounds :
               inbounds[i].on /\ inbounds[i].named /\ inbounds[i].out # Direct}
BlockRuleOf(k) ==
    [from |-> IF rules[k].scope = Everyone THEN Port ELSE {rules[k].scope},
     to |-> rules[k].to, out |-> Blocked]
Blocking == {k \in DOMAIN rules : rules[k].on}

LEMMA RuleLists ==
    ASSUME ConfigInv
    PROVE  \E V : /\ C!RelayRules \in Seq(V) /\ C!BlockRules \in Seq(V) /\ Template \in Seq(V)
                  /\ Lists(C!RelayRules, [i \in Relayed |-> RelayRule(i)], Relayed)
                  /\ Lists(C!BlockRules, [k \in Blocking |-> BlockRuleOf(k)], Blocking)
<1> DEFINE f == [i \in Relayed |-> RelayRule(i)]
           g == [k \in Blocking |-> BlockRuleOf(k)]
<1>1. Relayed \subseteq 1..MaxInbounds /\ Blocking \subseteq 1..MaxRules
  BY DEF ConfigInv, TablesTyped, Relayed, Blocking, C!Id, C!RuleId
<1>2. C!RelayRules = C!ByKey(f, Relayed) /\ C!BlockRules = C!ByKey(g, Blocking)
  BY DEF C!RelayRules, C!BlockRules, Relayed, Blocking, RelayRule, BlockRuleOf
<1>3. PICK X : Template \in Seq(X)
  BY HandlersConstants DEF HandlersConstants, C!ConstantsOK
<1> HIDE DEF f, g
<1> DEFINE V == {f[i] : i \in Relayed} \cup {g[k] : k \in Blocking} \cup X
<1>4. C!RelayRules \in Seq({f[i] : i \in Relayed}) /\ Lists(C!RelayRules, f, Relayed)
  BY <1>1, <1>2, ByKeyLists, ConfigConstants
<1>5. C!BlockRules \in Seq({g[k] : k \in Blocking}) /\ Lists(C!BlockRules, g, Blocking)
  BY <1>1, <1>2, ByKeyLists, ConfigConstants
<1>6. C!RelayRules \in Seq(V) /\ C!BlockRules \in Seq(V) /\ Template \in Seq(V)
  BY <1>3, <1>4, <1>5
<1> QED
  BY <1>4, <1>5, <1>6 DEF f, g

LEMMA RulesDecide == ConfigInv /\ PortsApart => RulesApply
<1> SUFFICES ASSUME ConfigInv, PortsApart,
                    NEW i \in DOMAIN inbounds, NEW d \in Dest, inbounds[i].named
             PROVE  IF inbounds[i].out = Direct
                    THEN C!Forbidden(i, d) => C!Exit(i, d) = Blocked
                    ELSE inbounds[i].on =>
                             C!Exit(i, d) = inbounds[i].out \/ C!Forbidden(i, d)
  BY DEF RulesApply, C!RulesApply
<1> DEFINE a == C!RelayRules
           b == C!BlockRules
           all == C!RoutingRules
           p == inbounds[i].port
           Hit(s, n) == p \in s[n].from /\ d \in s[n].to
           hits == {n \in DOMAIN all : Hit(all, n)}
<1>1. p \in Port
  BY InboundParts DEF ConfigInv, TablesTyped
<1>2. PICK V : /\ a \in Seq(V) /\ b \in Seq(V) /\ Template \in Seq(V)
               /\ Lists(a, [j \in Relayed |-> RelayRule(j)], Relayed)
               /\ Lists(b, [k \in Blocking |-> BlockRuleOf(k)], Blocking)
  BY RuleLists
<1>3. all = a \o b \o Template
  BY DEF C!RoutingRules
<1>4. C!Exit(i, d) = IF hits = {} THEN Direct ELSE all[C!Min(hits)].out
  BY DEF C!Exit
<1>5. ASSUME NEW n \in 1..Len(a), Hit(a, n)
      PROVE  i \in Relayed /\ a[n].out = inbounds[i].out
  <2>1. PICK j \in Relayed : a[n] = RelayRule(j)
    BY <1>2 DEF Lists
  <2>2. inbounds[j].port = p
    BY <1>5, <2>1 DEF RelayRule
  <2>3. j = i
    BY <2>2 DEF PortsApart, Relayed
  <2> QED
    BY <2>1, <2>3 DEF RelayRule
<1>6. ASSUME i \in Relayed
      PROVE  \E n \in 1..Len(a) : Hit(a, n)
  <2>1. PICK n \in 1..Len(a) : a[n] = RelayRule(i)
    BY <1>2, <1>6 DEF Lists
  <2> QED
    BY <2>1 DEF RelayRule
<1>7. ASSUME C!Forbidden(i, d)
      PROVE  \E n \in 1..Len(b) : Hit(b, n)
  <2>1. PICK k \in Blocking : d \in rules[k].to /\ rules[k].scope \in {Everyone, p}
    BY <1>7 DEF C!Forbidden, Blocking
  <2>2. PICK n \in 1..Len(b) : b[n] = BlockRuleOf(k)
    BY <1>2, <2>1 DEF Lists
  <2>3. p \in BlockRuleOf(k).from /\ d \in BlockRuleOf(k).to
    BY <1>1, <2>1 DEF BlockRuleOf
  <2> QED
    BY <2>2, <2>3
<1>8. \A n \in 1..Len(b) : b[n].out = Blocked
  <2>1. ASSUME NEW n \in 1..Len(b)
        PROVE  \E k \in Blocking : b[n] = BlockRuleOf(k)
    BY <1>2 DEF Lists
  <2>2. \A k \in Blocking : BlockRuleOf(k).out = Blocked
    BY DEF BlockRuleOf
  <2> HIDE DEF b
  <2> QED
    BY <2>1, <2>2
<1> HIDE DEF a, b, all, p, Hit
<1>9. Len(a) \in Nat /\ Len(b) \in Nat /\ Len(Template) \in Nat
  BY <1>2
<1>10. hits \subseteq Nat /\ (hits # {} => C!Min(hits) \in hits /\ \A n \in hits : C!Min(hits) <= n)
  <2>1. hits \subseteq Nat
    BY <1>2, <1>3, <1>9, ThreeLists
  <2> HIDE DEF hits
  <2> QED
    BY <2>1, LeastOf
<1>11. CASE inbounds[i].out = Direct /\ C!Forbidden(i, d)
  <2>1. i \notin Relayed
    BY <1>11 DEF Relayed
  <2>2. PICK n \in 1..Len(b) : Hit(b, n)
    BY <1>7, <1>11
  <2>3. Len(a) + n \in hits
    BY <1>2, <1>3, <1>9, <2>2, ThreeLists DEF Hit
  <2>4. \A m \in 1..Len(a) : m \notin hits
    <3> SUFFICES ASSUME NEW m \in 1..Len(a), m \in hits PROVE FALSE
      OBVIOUS
    <3>1. all[m] = a[m]
      BY <1>2, <1>3, ThreeLists
    <3>2. Hit(a, m)
      BY <3>1 DEF Hit
    <3> QED
      BY <1>5, <2>1, <3>2
  <2>5. C!Min(hits) \in (Len(a) + 1)..(Len(a) + Len(b))
    <3>1. C!Min(hits) \in hits /\ C!Min(hits) <= Len(a) + n /\ C!Min(hits) \in Nat
      BY <1>10, <2>3
    <3>2. C!Min(hits) \in 1..(Len(a) + Len(b) + Len(Template))
      BY <1>2, <1>3, <3>1, ThreeLists
    <3>3. C!Min(hits) \notin 1..Len(a)
      BY <2>4, <3>1
    <3> HIDE DEF hits
    <3> QED
      BY <1>9, <2>2, <3>1, <3>2, <3>3
  <2> HIDE DEF hits
  <2>6. all[C!Min(hits)] = b[C!Min(hits) - Len(a)] /\ C!Min(hits) - Len(a) \in 1..Len(b)
    <3>1. C!Min(hits) - Len(a) \in 1..Len(b)
      BY <1>9, <2>5
    <3>2. all[C!Min(hits)] = b[C!Min(hits) - Len(a)]
      BY <1>2, <1>3, <2>5, ThreeLists
    <3> QED
      BY <3>1, <3>2
  <2> QED
    BY <1>4, <1>8, <1>11, <2>3, <2>6
<1>12. CASE inbounds[i].out # Direct /\ inbounds[i].on
  <2>1. i \in Relayed
    BY <1>12 DEF Relayed
  <2>2. PICK n \in 1..Len(a) : Hit(a, n)
    BY <1>6, <2>1
  <2>3. n \in hits
    BY <1>2, <1>3, <1>9, <2>2, ThreeLists DEF Hit
  <2>4. C!Min(hits) \in 1..Len(a) /\ C!Min(hits) \in hits
    <3>1. C!Min(hits) \in hits /\ C!Min(hits) <= n /\ C!Min(hits) \in Nat
      BY <1>10, <2>3
    <3>2. C!Min(hits) \in 1..(Len(a) + Len(b) + Len(Template))
      BY <1>2, <1>3, <3>1, ThreeLists
    <3> HIDE DEF hits
    <3> QED
      BY <1>9, <2>2, <3>1, <3>2
  <2>5. all[C!Min(hits)] = a[C!Min(hits)]
    BY <1>2, <1>3, <2>4, ThreeLists
  <2>6. Hit(a, C!Min(hits))
    BY <2>4, <2>5 DEF Hit
  <2>7. a[C!Min(hits)].out = inbounds[i].out
    BY <1>5, <2>4, <2>6
  <2> QED
    BY <1>4, <1>12, <2>3, <2>5, <2>7
<1> QED
  BY <1>11, <1>12

\* block_rule.go:295-296 and xray.go:147-149: whatever the template and whichever requests
\* overlap, what a block rule forbids an inbound that exits directly is black-holed,
\* and an inbound bound to an outbound leaves there.
THEOREM RulesTakeEffect == Spec => []RulesApply
<1>1. Init => ConfigInv /\ PortsApart
  BY InitConfig DEF Init, C!Init, C!Empty, PortsApart
<1>2. ConfigInv /\ PortsApart /\ [Next]_vars => (ConfigInv /\ PortsApart)'
  <2> SUFFICES ASSUME ConfigInv, PortsApart, [Next]_vars
               PROVE  (ConfigInv /\ PortsApart)'
    OBVIOUS
  <2>1. CASE ConfigMove
    BY <2>1, ConfigInvNext, PortsNext
  <2>2. CASE UNCHANGED configVars
    BY <2>2, ConfigInvNext DEF configVars, PortsApart
  <2> QED
    BY <2>1, <2>2, Moves
<1> QED
  BY <1>1, <1>2, RulesDecide, PTL DEF Spec
=============================================================================
