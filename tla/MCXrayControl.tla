---------------------------- MODULE MCXrayControl ----------------------------
(* Two handlers and the signal loop, two tables (one whose read error is     *)
(* fatal, one whose read error is skipped), two contents, two Processes.    *)
EXTENDS XrayControl, TLC

CONSTANTS h1, h2, q1, q2, a, b

\* Safety only: goroutines, children and table contents are interchangeable.
Symmetry ==
    Permutations({h1, h2}) \cup Permutations({q1, q2}) \cup Permutations({a, b})
=============================================================================
