------------------------------- MODULE LockFile -------------------------------
(***************************************************************************)
(* tailvault.lock: one entry per managed path, the merge of two committed  *)
(* locks (the git merge driver), and the shas a lock keeps alive for gc.   *)
(*                                                                         *)
(* Paths, shas and times are numbers because the code orders them: a push  *)
(* visits paths in order, a merge breaks ties by the greater sha.  An      *)
(* entry's location, size, pusher and federated identity take no part in   *)
(* what a push, a merge or a sweep decides and are left out.               *)
(***************************************************************************)
EXTENDS Integers

CONSTANTS Path, Sha, Time, None

ASSUME LockAssumption ==
  /\ Path \subseteq Nat /\ Sha \subseteq Nat /\ Time \subseteq Nat
  /\ None \notin Nat

(* versions is a set: its order serves display only (the head that matters *)
(* to a push is that of the ref list, kept apart in RepoSync).             *)
Entry == [sha: Sha, at: Time, history: BOOLEAN, preserve: BOOLEAN,
          deleted: BOOLEAN, versions: SUBSET Sha]

NoEntry == [sha |-> None]
Lock    == [Path -> Entry \cup {NoEntry}]

EmptyLock == [p \in Path |-> NoEntry]

Has(l, p)  == l[p] # NoEntry
Live(l, p) == Has(l, p) /\ ~l[p].deleted

-----------------------------------------------------------------------------
(* The merge driver. *)

(* Mutant: a tie goes to the side that merges. *)
WinsIfNewer(b, a) == b.at > a.at

(* Both sides name different contents: the newer push wins, then the       *)
(* greater sha.                                                            *)
Wins(b, a) == b.at > a.at \/ (b.at = a.at /\ b.sha > a.sha)

WithVersions(e, more) == [e EXCEPT !.versions = @ \cup more]

Resolve(a, b) == IF Wins(b, a) THEN WithVersions(b, a.versions)
                               ELSE WithVersions(a, b.versions)

(* Both sides name one content: ours is kept, live beats tombstone. *)
Same(o, t) == [WithVersions(o, t.versions) EXCEPT !.deleted = @ /\ t.deleted]

MergeEntry(o, t) ==
  IF t = NoEntry THEN o
  ELSE IF o = NoEntry THEN t
  ELSE IF o.sha = t.sha THEN Same(o, t) ELSE Resolve(o, t)

Merge(ours, theirs) == [p \in Path |-> MergeEntry(ours[p], theirs[p])]

-----------------------------------------------------------------------------
(* What a lock keeps alive. *)

ShasOf(e) == IF e = NoEntry THEN {} ELSE {e.sha} \cup e.versions

ReferencedSHAs(l) == UNION {ShasOf(l[p]) : p \in Path}
PreservedSHAs(l)  == UNION {ShasOf(l[p]) : p \in {q \in Path : Has(l, q) /\ l[q].preserve}}

(* The content each path of the lock has. *)
Named(l) == {l[p].sha : p \in {q \in Path : Has(l, q)}}
=============================================================================
