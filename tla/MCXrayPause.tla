------------------------------ MODULE MCXrayPause ------------------------------
(* XrayPause for TLC: one operator.                                           *)
EXTENDS XrayPause, TLC

CONSTANTS h1, q1, q2, a, b
=============================================================================
