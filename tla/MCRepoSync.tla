------------------------------ MODULE MCRepoSync ------------------------------
(* A small instance of RepoSync: two clones; the first path has a history, *)
(* the second is preserved.                                                *)
EXTENDS RepoSync, TLC

CONSTANTS a, b

(* The first push and the third read the same time, the second an earlier *)
(* one.                                                                    *)
MCClock == <<2, 1, 2>>

Symmetric == Permutations(Clone)
=============================================================================
