------------------------------- MODULE MCRoster -------------------------------
(* A small instance of Roster: three members, one without a password; one  *)
(* client knows all of them, the other only two.                           *)
EXTENDS Roster, TLC

CONSTANTS c1, c2, x, y, z

MCKnown == c1 :> {x, y, z} @@ c2 :> {x, y}
=============================================================================
