------------------------------ MODULE MCHostOps ------------------------------
(* The instances of HostOps that TLC checks. *)
EXTENDS HostOps, TLC

CONSTANTS panel, api, old, r1, r2, u1, u2, d1, d2, b1, b2, x1, w1, w2, a1, k1, first

Symmetry ==
    UNION {Permutations(S) : S \in {{panel, api}, {r1, r2}, {u1, u2}, {d1, d2}, {b1, b2}, {w1, w2}}}
=============================================================================
