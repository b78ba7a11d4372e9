------------------------------- MODULE MCVerify -------------------------------
(* A small instance of Verify and, through it, of Ingest: two paths and    *)
(* two contents of one size; there is one file to begin with.              *)
EXTENDS Verify, TLC

CONSTANTS a, b, s, t

MCSize == s :> 1 @@ t :> 1

(* The record of a file whose log is lost, ingested by a scan, *)
MCReceipts == {[path |-> a, sha |-> t, op |-> None]}

(* or by name: not IdsUnique, if its id goes to another row first. *)
MCByName == {[path |-> a, sha |-> s, op |-> 0]}

MCInit ==
  VInit /\ disk = [p \in Path |-> IF p = a THEN [sha |-> s, mtime |-> 0] ELSE None]

MCSpec == MCInit /\ [][VNext]_<<vars, check>>
=============================================================================
