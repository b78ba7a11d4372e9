---------------------------- MODULE MCCrossMove ----------------------------
(* Small federations for CrossMove. *)
EXTENDS CrossMove, TLC

(* Members are interchangeable, and so are paths. *)
Alike == Permutations(Member) \cup Permutations(Path)
=============================================================================
