----------------------------- MODULE MCVaultNode -----------------------------
(***************************************************************************)
(* A small instance of VaultNode: the files first put at a and b hold the  *)
(* same bytes, those first put at g and h other ones.                      *)
(***************************************************************************)
EXTENDS VaultNode, TLC

CONSTANTS c1, c2, a, b, g, h, s1, s2, s3, s4, s5

MCContent == (a :> s1) @@ (b :> s1) @@ (g :> s2) @@ (h :> s3)

(* g and h may be edited in place. *)
MCDrift == (s1 :> s1) @@ (s2 :> s4) @@ (s3 :> s5) @@ (s4 :> s4) @@ (s5 :> s5)

AllCommands == {"ingest", "delete", "move", "sync", "gc", "retry", "rebuild"}

(* ops retry of sweeps cut short or failed, and of moves and removals cut   *)
(* short.                                                                   *)
MCRetryable == {<<"gc", "intent">>, <<"gc", "failed">>, <<"move", "intent">>, <<"delete", "intent">>}

(* a and b differ in name only; so do g and h, each with its content. *)
GitTwins == (g :> h) @@ (h :> g) @@ (s2 :> s3) @@ (s3 :> s2) @@ (s4 :> s5) @@ (s5 :> s4)
TwinFiles == Permutations({a, b}) \cup {GitTwins}
=============================================================================
