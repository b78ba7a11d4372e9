----------------------------- MODULE MCResolver -----------------------------
(* Small federations for Resolver. *)
EXTENDS Resolver

CONSTANTS ann, p

(* Members are interchangeable, and so are paths: the first home is fixed.  *)
MCInit == Init /\ rows[ann] = {p}

MCSpec == MCInit /\ [][Next]_vars
=============================================================================
