-------------------------------- MODULE MCWal --------------------------------
(***************************************************************************)
(* A small instance of Wal: put and move contend for one blob, gc needs    *)
(* another one.                                                            *)
(***************************************************************************)
EXTENDS Wal, TLC

CONSTANTS c1, c2, c3, put, move, gc, b1, b2

MCOps  == {put, move, gc}
MCRefs == (put :> {b1}) @@ (move :> {b1}) @@ (gc :> {b2})

(* Clients are interchangeable, and so are the two operations on b1. *)
Interchangeable == Permutations({c1, c2, c3}) \cup Permutations({put, move})

(* One operation, presented again and again. *)
PutRefs == (put :> {b1})
Swap    == Permutations({c1, c2})
=============================================================================
