---------------------------- MODULE ClientRegistry ----------------------------
(***************************************************************************)
(* Which clients the inbounds list, and which of them have a row in        *)
(* client_traffics:                                                        *)
(*   web/service/client.go    AddClient, UpdateClient, DeleteClient        *)
(*   web/service/inbound.go   AddInbound(s), UpdateInbound, Del*, SyncAll  *)
(*   web/service/client_traffic.go  EnsureRow, DeleteByEmail               *)
(*   web/web.go, main.go      the sync at the start of a server            *)
(*                                                                         *)
(* A request is a sequence of SQL statements and of the dry run (seconds   *)
(* of an external process) between them.  Counts and limits are            *)
(* TrafficLedger's.                                                        *)
(***************************************************************************)
EXTENDS Naturals, FiniteSets, Functions

CONSTANTS
    Email,
    Request,      \* handlers
    Home,         \* Home[i]: the emails its users give to the i-th inbound
    Kinds,        \* the requests that occur
    MaxOps,       \* bound on the requests
    MaxBoots      \* bound on the restarts of the panel

Kind == {"create", "bulk", "form", "add", "rename", "remove", "delete", "deleteAll"}
Id == DOMAIN Home

ConstantsOK ==
    /\ Kinds \subseteq Kind
    /\ IsFiniteSet(Email)
    /\ IsFiniteSet(Id) /\ Id = 1..Cardinality(Id)
    /\ \A i \in Id : Home[i] \subseteq Email
    /\ MaxOps \in Nat /\ MaxBoots \in Nat

VARIABLES
    clients,      \* clients[i]: settings.clients[] of inbound i, for those that exist
    made,         \* the last id given to an inbound
    row,          \* row[e]: [id, inbound] of the client_traffics row, for those that exist
    rows,         \* the last id given to a row
    pc, at,       \* a request: where it is, the inbound it edits
    list,         \* its copy of settings.clients[]
    todo,         \* the emails whose rows it has yet to ensure
    found,        \* the row it has read for the email it is writing, if any
    writing,      \* that email, as a set
    drop, extra,  \* the rows it deletes and ensures after the sync
    unsynced,     \* history: inbounds created in bulk and not synced since
    ops, boots

tables == <<clients, made, row, rows, unsynced>>
reqVars == <<pc, at, list, todo, found, writing, drop, extra>>
vars == <<tables, reqVars, ops, boots>>

Listed == UNION {clients[i] : i \in DOMAIN clients}
NoRow == [id |-> 0, inbound |-> 0]
Row == [id : Nat, inbound : Id]

TypeOK ==
    /\ DOMAIN clients \subseteq Id
    /\ \A i \in DOMAIN clients : clients[i] \subseteq Home[i] /\ i <= made
    /\ made \in Id \cup {0} /\ rows \in Nat
    /\ DOMAIN row \subseteq Email
    /\ \A e \in DOMAIN row : row[e] \in Row /\ row[e].id <= rows
    /\ pc \in [Request -> {"idle", "check", "save", "rows", "write", "drop"}]
    /\ at \in [Request -> Id \cup {0}]
    /\ list \in [Request -> SUBSET Email]
    /\ todo \in [Request -> SUBSET Email]
    /\ found \in [Request -> Row \cup {NoRow}]
    /\ writing \in [Request -> SUBSET Email]
    /\ \A r \in Request : writing[r] # {} <=> pc[r] = "write"
    /\ drop \in [Request -> SUBSET Email]
    /\ extra \in [Request -> SUBSET Email]
    /\ unsynced \subseteq Id
    /\ ops \in 0..MaxOps /\ boots \in 0..MaxBoots

Init ==
    /\ clients = [i \in {} |-> {}] /\ made = 0
    /\ row = [e \in {} |-> NoRow] /\ rows = 0
    /\ pc = [r \in Request |-> "idle"]
    /\ at = [r \in Request |-> 0]
    /\ list = [r \in Request |-> {}]
    /\ todo = [r \in Request |-> {}]
    /\ found = [r \in Request |-> NoRow]
    /\ writing = [r \in Request |-> {}]
    /\ drop = [r \in Request |-> {}]
    /\ extra = [r \in Request |-> {}]
    /\ unsynced = {}
    /\ ops = 0 /\ boots = 0

\* f with f[x] = v.
With(f, x, v) == [y \in DOMAIN f \cup {x} |-> IF y = x THEN v ELSE f[y]]

Arrives(r, k) ==
    /\ pc[r] = "idle"
    /\ k \in Kinds
    /\ ops < MaxOps /\ ops' = ops + 1
    /\ UNCHANGED boots

At(r, l) == pc' = [pc EXCEPT ![r] = l]

-----------------------------------------------------------------------------
(* The requests: what each has decided when it first writes.                *)

\* UpdateInbound will save l, then DeleteByEmail d and EnsureRow x.
Edit(r, i, l, d, x) ==
    /\ At(r, "check")
    /\ at' = [at EXCEPT ![r] = i]
    /\ list' = [list EXCEPT ![r] = l]
    /\ drop' = [drop EXCEPT ![r] = d]
    /\ extra' = [extra EXCEPT ![r] = x]
    /\ UNCHANGED <<tables, todo, found, writing>>

\* The form, or the API's PUT: any list of clients.
UpdateInbound(r, i) ==
    /\ Arrives(r, "form")
    /\ i \in 1..made
    /\ \E l \in SUBSET Home[i] : Edit(r, i, l, {}, {})

AddClient(r, i, e) ==
    /\ Arrives(r, "add")
    /\ i \in DOMAIN clients /\ e \in Home[i] \ clients[i]
    /\ Edit(r, i, clients[i] \cup {e}, {}, {e})

\* Mutant: the row of the old client is deleted even when its email stays.
DropsAlways(r, i, e, f) ==
    /\ Arrives(r, "rename")
    /\ i \in DOMAIN clients /\ e \in clients[i]
    /\ f \in Home[i] \ (clients[i] \ {e})
    /\ Edit(r, i, (clients[i] \ {e}) \cup {f}, {e}, {f})

\* Replaces client e by one with email f; xray refuses a list with f twice.
UpdateClient(r, i, e, f) ==
    /\ Arrives(r, "rename")
    /\ i \in DOMAIN clients /\ e \in clients[i]
    /\ f \in Home[i] \ (clients[i] \ {e})
    /\ Edit(r, i, (clients[i] \ {e}) \cup {f}, {e} \ {f}, {f})

DeleteClient(r, i, e) ==
    /\ Arrives(r, "remove")
    /\ i \in DOMAIN clients /\ e \in clients[i]
    /\ Edit(r, i, clients[i] \ {e}, {e}, {})

\* The client is not listed, its row is there: only the row goes.
DeleteOrphan(r, i, e) ==
    /\ Arrives(r, "remove")
    /\ i \in DOMAIN clients /\ e \notin clients[i]
    /\ e \in DOMAIN row /\ row[e].inbound = i
    /\ At(r, "drop")
    /\ drop' = [drop EXCEPT ![r] = {e}]
    /\ UNCHANGED <<tables, at, list, todo, found, writing, extra>>

\* Mutant: the rows of the clients the form came with are left out.
AddsNoRows(r) ==
    /\ Arrives(r, "create")
    /\ made + 1 \in Id /\ made' = made + 1
    /\ \E l \in SUBSET Home[made + 1] : clients' = With(clients, made + 1, l)
    /\ UNCHANGED <<row, rows, unsynced, reqVars>>

\* AddInbound: insert, then the rows of the clients the form came with.
AddInbound(r) ==
    /\ Arrives(r, "create")
    /\ made + 1 \in Id /\ made' = made + 1
    /\ \E l \in SUBSET Home[made + 1] :
          /\ clients' = With(clients, made + 1, l)
          /\ todo' = [todo EXCEPT ![r] = l]
    /\ at' = [at EXCEPT ![r] = made + 1]
    /\ At(r, "rows")
    /\ UNCHANGED <<row, rows, unsynced, list, found, writing, drop, extra>>

\* AddInbounds, of one: no rows.
AddInbounds(r) ==
    /\ Arrives(r, "bulk")
    /\ made + 1 \in Id /\ made' = made + 1
    /\ \E l \in SUBSET Home[made + 1] : clients' = With(clients, made + 1, l)
    /\ unsynced' = unsynced \cup {made + 1}
    /\ UNCHANGED <<row, rows, reqVars>>

\* DelInbound, DeleteMany: the rows stay.
DelInbound(r, i) ==
    /\ Arrives(r, "delete")
    /\ i \in DOMAIN clients
    /\ clients' = Restrict(clients, DOMAIN clients \ {i})
    /\ UNCHANGED <<made, row, rows, unsynced, reqVars>>

\* DeleteAll: one transaction.
DeleteAll(r) ==
    /\ Arrives(r, "deleteAll")
    /\ clients' = [i \in {} |-> {}]
    /\ row' = [e \in {} |-> NoRow]
    /\ UNCHANGED <<made, rows, unsynced, reqVars>>

-----------------------------------------------------------------------------
(* The statements of UpdateInbound, and of what follows it.                 *)
Forget(r) ==
    /\ At(r, "idle")
    /\ at' = [at EXCEPT ![r] = 0]
    /\ list' = [list EXCEPT ![r] = {}]
    /\ drop' = [drop EXCEPT ![r] = {}]
    /\ extra' = [extra EXCEPT ![r] = {}]

\* GetInbound, which the port and protocol checks precede and the dry run follows.
GetInbound(r) ==
    /\ pc[r] = "check" /\ at[r] \in DOMAIN clients
    /\ At(r, "save")
    /\ UNCHANGED <<tables, at, list, todo, found, writing, drop, extra, ops, boots>>

\* No such inbound, a port or outbound taken, or a config that xray refuses.
Refused(r) ==
    /\ pc[r] = "check" \/ pc[r] = "save"
    /\ Forget(r)
    /\ UNCHANGED <<tables, todo, found, writing, ops, boots>>

\* Save updates the row of that id, and inserts it when there is none.
Save(r) ==
    /\ pc[r] = "save"
    /\ clients' = With(clients, at[r], list[r])
    /\ todo' = [todo EXCEPT ![r] = list[r]]
    /\ At(r, "rows")
    /\ unsynced' = unsynced \ {at[r]}
    /\ UNCHANGED <<made, row, rows, at, list, found, writing, drop, extra, ops, boots>>

\* EnsureRow: First ...
EnsureRead(r, e) ==
    /\ pc[r] = "rows" /\ e \in todo[r]
    /\ found' = [found EXCEPT ![r] = IF e \in DOMAIN row THEN row[e] ELSE NoRow]
    /\ writing' = [writing EXCEPT ![r] = {e}]
    /\ todo' = [todo EXCEPT ![r] = @ \ {e}]
    /\ At(r, "write")
    /\ UNCHANGED <<tables, at, list, drop, extra, ops, boots>>

Written(r) ==
    /\ At(r, "rows")
    /\ writing' = [writing EXCEPT ![r] = {}]
    /\ found' = [found EXCEPT ![r] = NoRow]
    /\ UNCHANGED <<clients, made, unsynced, at, list, todo, drop, extra, ops, boots>>

\* ... then Create, which the unique index on email refuses if there is one by now,
EnsureCreate(r, e) ==
    /\ pc[r] = "write" /\ e \in writing[r] /\ found[r] = NoRow
    /\ IF e \in DOMAIN row
       THEN UNCHANGED <<row, rows>>
       ELSE /\ rows' = rows + 1
            /\ row' = With(row, e, [id |-> rows + 1, inbound |-> at[r]])
    /\ Written(r)

\* ... or Save, by the id that was read: a row deleted since is inserted again,
\* and one with another id by now keeps its place.
EnsureSave(r, e) ==
    /\ pc[r] = "write" /\ e \in writing[r] /\ found[r] # NoRow
    /\ IF e \in DOMAIN row /\ row[e].id # found[r].id
       THEN UNCHANGED row
       ELSE row' = With(row, e, [id |-> found[r].id, inbound |-> at[r]])
    /\ UNCHANGED rows
    /\ Written(r)

\* The clients are in sync: AddClient, UpdateClient, DeleteClient go on.
Synced(r) ==
    /\ pc[r] = "rows" /\ todo[r] = {} /\ drop[r] \cup extra[r] # {}
    /\ todo' = [todo EXCEPT ![r] = IF drop[r] = {} THEN extra[r] ELSE {}]
    /\ extra' = [extra EXCEPT ![r] = IF drop[r] = {} THEN {} ELSE @]
    /\ At(r, IF drop[r] = {} THEN "rows" ELSE "drop")
    /\ UNCHANGED <<tables, at, list, found, writing, drop, ops, boots>>

DeleteByEmail(r) ==
    /\ pc[r] = "drop"
    /\ row' = Restrict(row, DOMAIN row \ drop[r])
    /\ drop' = [drop EXCEPT ![r] = {}]
    /\ At(r, "rows")
    /\ UNCHANGED <<clients, made, rows, unsynced, at, list, todo, found, writing, extra, ops,
                   boots>>

Done(r) ==
    /\ pc[r] = "rows" /\ todo[r] = {} /\ drop[r] \cup extra[r] = {}
    /\ Forget(r)
    /\ UNCHANGED <<tables, todo, found, writing, ops, boots>>

-----------------------------------------------------------------------------
\* The inbound whose EnsureRow is the last for e: they are visited by id.
LastHome(e) ==
    CHOOSE i \in DOMAIN clients :
        e \in clients[i] /\ \A j \in DOMAIN clients : e \in clients[j] => j <= i

\* The panel dies, wherever its handlers are, and starts: startTask runs
\* SyncAllClientTraffics before the server takes a request.
Boot ==
    /\ boots < MaxBoots /\ boots' = boots + 1
    /\ LET new == Listed \ DOMAIN row
       IN  \E number \in [new -> (rows + 1)..(rows + Cardinality(new))] :
              /\ IsInjective(number)
              /\ row' = [e \in DOMAIN row \cup new |->
                            [id |-> IF e \in new THEN number[e] ELSE row[e].id,
                             inbound |-> IF e \in Listed THEN LastHome(e)
                                         ELSE row[e].inbound]]
              /\ rows' = rows + Cardinality(new)
    /\ pc' = [r \in Request |-> "idle"]
    /\ at' = [r \in Request |-> 0]
    /\ list' = [r \in Request |-> {}]
    /\ todo' = [r \in Request |-> {}]
    /\ found' = [r \in Request |-> NoRow]
    /\ writing' = [r \in Request |-> {}]
    /\ drop' = [r \in Request |-> {}]
    /\ extra' = [r \in Request |-> {}]
    /\ unsynced' = {}
    /\ UNCHANGED <<clients, made, ops>>

Arrival(r) ==
    \/ AddInbound(r) \/ AddInbounds(r) \/ DeleteAll(r)
    \/ \E i \in Id :
          \/ UpdateInbound(r, i) \/ DelInbound(r, i)
          \/ \E e \in Email :
                \/ AddClient(r, i, e) \/ DeleteClient(r, i, e) \/ DeleteOrphan(r, i, e)
                \/ \E f \in Email : UpdateClient(r, i, e, f)

RequestStep(r) ==
    \/ GetInbound(r) \/ Refused(r) \/ Save(r) \/ Synced(r) \/ DeleteByEmail(r) \/ Done(r)
    \/ \E e \in Email : EnsureRead(r, e) \/ EnsureCreate(r, e) \/ EnsureSave(r, e)

Idle == \A r \in Request : pc[r] = "idle"

\* The panel waits for the next request.
Rest == Idle /\ UNCHANGED vars

Next == (\E r \in Request : Arrival(r) \/ RequestStep(r)) \/ Boot \/ Rest

Spec == Init /\ [][Next]_vars

-----------------------------------------------------------------------------
(* Properties.                                                              *)

\* Between requests every client of an inbound has its row, under that inbound,
\* whatever edits, renames, deletions and crashes there were (model.go:123-124); an
\* inbound created in bulk waits for its next edit or the next start.
RowsCoverClients ==
    Idle => \A i \in DOMAIN clients \ unsynced : \A e \in clients[i] :
                e \in DOMAIN row /\ row[e].inbound = i

\* The row of a client that stays listed, and with it the client's counts, is
\* never replaced.
CountsSurvive ==
    [][\A e \in DOMAIN row : e \in Listed /\ e \in Listed' =>
          e \in DOMAIN row' /\ row'[e].id = row[e].id]_vars
=============================================================================
