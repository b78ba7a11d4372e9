------------------------------- MODULE FileHome -------------------------------
(***************************************************************************)
(* What a federation promises about one file: it lives at one member, or   *)
(* has been removed.  A move takes it from one member to another in one    *)
(* step.                                                                   *)
(***************************************************************************)
CONSTANTS Member, Gone

VARIABLE home

HInit == home \in Member

Move == /\ home \in Member
        /\ home' \in Member \ {home}

Remove == /\ home \in Member
          /\ home' = Gone

HSpec == HInit /\ [][Move \/ Remove]_home
=============================================================================
