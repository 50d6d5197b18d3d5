----------------------------- MODULE MCPanelAccess ---------------------------
(* The instances of PanelAccess that TLC checks. *)
EXTENDS PanelAccess, TLC

CONSTANTS
    q1, q2, q3, t1, t2, t3, a1, a2, c1, v1, v2, l1, ip, admin, other, p1, p2,
    e4, panel, cli

\* No behaviour moves two parts, so the values of one serve in the others:
\* Call = Query, Entry = Query and one more, OldToken = Form = Attempt,
\* Client = Visit; a token is a file or a slug, a password a bot token.
Symmetry == UNION {Permutations(X) : X \in {Query, Attempt, Visit}}
=============================================================================
