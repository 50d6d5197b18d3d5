---------------------------- MODULE MCOnlineReport ---------------------------
(* The instances of OnlineReport that TLC checks. *)
EXTENDS OnlineReport

CONSTANTS u1, u2, e1, e2

OneEmail == [u \in User |-> e1]
TwoEmails == [u \in User |-> IF u = u1 THEN e1 ELSE e2]
=============================================================================
