------------------------------ MODULE MCXrayConfig ------------------------------
(* XrayConfig for TLC: the template sends the web out directly by a rule of   *)
(* its own, as the operators' catch-all rules do.                             *)
EXTENDS XrayConfig, TLC

CONSTANTS r1, r2, everyone, direct, blocked, p1, p2, t1, web, lan

CatchAll == << [from |-> {p1, p2}, to |-> {lan}, out |-> blocked],
               [from |-> {p1, p2}, to |-> {web}, out |-> direct] >>

Symmetry == Permutations(Request) \cup Permutations(Port)
=============================================================================
