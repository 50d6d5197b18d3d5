--------------------------- MODULE MCTrafficLedger ---------------------------
(* Two clients, two overlapping traffic jobs, up to two requests at a time,  *)
(* a few bytes; no limits, or a quota of one byte and an expiry.            *)
EXTENDS TrafficLedger, TLC

CONSTANTS c1, c2, j1, j2, r1, r2

Unlimited == [total |-> 0, expires |-> FALSE]
Metered == [total |-> 1, expires |-> TRUE]
Metering == {Metered}
Plans == {Unlimited, Metered}

\* Safety only: clients, jobs and requests are interchangeable.
Symmetry ==
    Permutations({c1, c2}) \cup Permutations({j1, j2}) \cup Permutations({r1, r2})
=============================================================================
