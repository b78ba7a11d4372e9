----------------------------- MODULE MCConsumer -----------------------------
(* Small federations for Consumer. *)
EXTENDS Consumer

CONSTANTS ann, p

(* Members are interchangeable, and so are paths: the first home is fixed.  *)
MCInit == CInit /\ rows[ann] = {p}

MCSpec == MCInit /\ [][CNext]_allVars /\ WF_allVars(Use)
=============================================================================
