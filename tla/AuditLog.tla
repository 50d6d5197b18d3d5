------------------------------- MODULE AuditLog -------------------------------
(***************************************************************************)
(* What the access log of the API promises (docs/API.md, "access-logs"): a *)
(* call that has ended is on its way to the log, then in it, and leaves it *)
(* for good.  On its way or in the log it may be lost, never twice logged. *)
(* ApiLog implements it with a buffer, batches and a table.                *)
(***************************************************************************)
CONSTANT Entry

VARIABLES
    pending,        \* calls that have ended and are not in the log yet
    logged,
    gone            \* purged, or lost on the way

auditVars == <<pending, logged, gone>>

Init == pending = {} /\ logged = {} /\ gone = {}

Record(c) ==
    /\ c \notin pending \cup logged \cup gone
    /\ pending' = pending \cup {c}
    /\ UNCHANGED <<logged, gone>>

Write(b) ==
    /\ b \subseteq pending /\ pending' = pending \ b
    /\ logged' = logged \cup b
    /\ UNCHANGED gone

Lose(b) ==
    /\ b \subseteq pending /\ pending' = pending \ b
    /\ gone' = gone \cup b
    /\ UNCHANGED logged

Purge(b) ==
    /\ b \subseteq logged /\ logged' = logged \ b
    /\ gone' = gone \cup b
    /\ UNCHANGED pending

Next ==
    \/ \E c \in Entry : Record(c)
    \/ \E b \in SUBSET Entry : Write(b) \/ Lose(b) \/ Purge(b)

Spec == Init /\ [][Next]_auditVars
=============================================================================
