------------------------------- MODULE MCHandlers -------------------------------
(* Handlers for TLC: the template sends the web out directly by a rule of its    *)
(* own, as the operators' catch-all rules do; two inbounds have emails of their  *)
(* own.                                                                          *)
EXTENDS Handlers, TLC

CONSTANTS r1, r2, everyone, direct, blocked, p1, p2, t1, web, e1, e2, e3, h1

CatchAll == << [from |-> {p1, p2}, to |-> {web}, out |-> direct] >>

Apart == <<{e1, e2}, {e3}>>

Symmetry == Permutations(Request) \cup Permutations(Port)
=============================================================================
