---------------------------- MODULE RepoSyncProofs ----------------------------
(***************************************************************************)
(* Proofs about LockFile.tla and RepoSync.tla, for any number of clones,   *)
(* paths, contents and pushes: merges agree and lose nothing, and, when    *)
(* files stay as they are while they are pushed, no push forgets what is   *)
(* preserved and a repository never gets ahead of storage if gc runs alone. *)
(***************************************************************************)
EXTENDS RepoSync, TLAPS, WellFoundedInduction

(* The phases of a push, and those in which it has seen its content stored. *)
Pushing == {"scan", "put", "verify", "record", "unref", "ref"}
Seen    == {"record", "unref", "ref"}

(* Everything stored is what its name says. *)
Whole == \A s \in Sha : objects[s] \in {None, s}

(* What a push has in hand is on the node, and the tree is as it scanned it. *)
Hand(c) ==
  pc[c] \in Pushing =>
    /\ job[c].scan = Shas(tree[c])
    /\ job[c].todo \subseteq {p \in Path : tree[c][p] # NoFile}
    /\ \A p \in Path : Has(job[c].new, p) => Intact(job[c].new[p].sha)
    /\ \A p \in Path : tree[c][p] # NoFile =>
         \/ p \in job[c].todo
         \/ Live(job[c].new, p) /\ job[c].new[p].sha = tree[c][p].sha
    /\ pc[c] # "scan" => job[c].todo # {}
    /\ pc[c] \in Seen => Intact(New(c))

InHand == \A c \in Clone : Hand(c)

(* While a gc deletes nobody pushes, and no lock names what it deletes. *)
Sweeping ==
  \A c \in Clone : pc[c] = "gc" =>
    /\ \A d \in Clone : pc[d] \notin Pushing
    /\ \A d \in Clone : job[c].list \cap (ReferencedSHAs(lock[d])
                                          \cup ReferencedSHAs(head[d].lock)) = {}

(* A push has read the time, and a sha for each path it visits. *)
ScanCovers ==
  \A c \in Clone : /\ \A p \in job[c].todo : job[c].scan[p] # None
                   /\ pc[c] \in Pushing => job[c].at \in Time

(* The inductive invariant. *)
Safe    == Whole /\ NamedIsStored /\ InHand /\ Sweeping
RepoInv == TypeOK /\ ScanCovers /\ Safe

LEMMA LeastIn ==
  ASSUME NEW S \in SUBSET Nat, S # {}
  PROVE  Least(S) \in S
<1> DEFINE R == OpToRel(<, Nat)
<1>1. IsWellFoundedOn(R, Nat)
  BY NatLessThanWellFounded
<1>2. PICK x \in S : \A y \in S : ~(<<y, x>> \in R)
  <2> HIDE DEF R
  <2> QED BY <1>1, WFMin
<1>3. \A y \in S : ~(y < x)
  BY <1>2 DEF OpToRel
<1>4. \A y \in S : x <= y
  BY <1>3
<1> QED
  BY <1>4 DEF Least

-----------------------------------------------------------------------------
(* Merging *)

(* Of two entries of one path. *)
ShownEntry(e) == IF e # NoEntry THEN <<e.sha, e.deleted, e.versions>> ELSE None

LEMMA NoneIsNoSha == None \notin Sha /\ NoEntry \notin Entry
BY LockAssumption DEF NoEntry, Entry

LEMMA MergedEntry ==
  ASSUME NEW o \in Entry \cup {NoEntry}, NEW t \in Entry \cup {NoEntry}
  PROVE  /\ MergeEntry(o, t) \in Entry \cup {NoEntry}
         /\ MergeEntry(o, t) # NoEntry => MergeEntry(o, t).sha \in {x.sha : x \in {o, t} \ {NoEntry}}
         /\ ShasOf(MergeEntry(o, t)) \subseteq ShasOf(o) \cup ShasOf(t)
         /\ \A x \in {o, t} : x # NoEntry =>
              MergeEntry(o, t) # NoEntry /\ x.versions \subseteq MergeEntry(o, t).versions
<1>1. CASE o = NoEntry \/ t = NoEntry
  BY <1>1 DEF MergeEntry, ShasOf
<1>2. CASE o # NoEntry /\ t # NoEntry
  <2>1. o \in Entry /\ t \in Entry
    BY <1>2
  <2>2. CASE o.sha = t.sha
    <3>1. MergeEntry(o, t) = Same(o, t)
      BY <1>2, <2>2 DEF MergeEntry
    <3>2. /\ Same(o, t) \in Entry /\ Same(o, t).sha = o.sha
          /\ Same(o, t).versions = o.versions \cup t.versions
      BY <2>1 DEF Same, WithVersions, Entry
    <3> QED
      BY <1>2, <2>1, <3>1, <3>2, NoneIsNoSha DEF ShasOf
  <2>3. CASE o.sha # t.sha
    <3>1. MergeEntry(o, t) = Resolve(o, t)
      BY <1>2, <2>3 DEF MergeEntry
    <3>2. /\ Resolve(o, t) \in Entry /\ Resolve(o, t).sha \in {o.sha, t.sha}
          /\ Resolve(o, t).versions = o.versions \cup t.versions
      BY <2>1 DEF Resolve, WithVersions, Entry
    <3> QED
      BY <1>2, <2>1, <3>1, <3>2, NoneIsNoSha DEF ShasOf
  <2> QED
    BY <2>2, <2>3
<1> QED
  BY <1>1, <1>2

LEMMA EntriesAgree ==
  ASSUME NEW o \in Entry \cup {NoEntry}, NEW t \in Entry \cup {NoEntry}
  PROVE  ShownEntry(MergeEntry(o, t)) = ShownEntry(MergeEntry(t, o))
<1>1. CASE o = NoEntry \/ t = NoEntry
  BY <1>1 DEF MergeEntry
<1>2. CASE o # NoEntry /\ t # NoEntry
  <2>1. o \in Entry /\ t \in Entry
    BY <1>2
  <2>2. /\ o.sha \in Nat /\ t.sha \in Nat /\ o.at \in Nat /\ t.at \in Nat
    BY <2>1, LockAssumption DEF Entry
  <2>3. CASE o.sha = t.sha
    <3>1. MergeEntry(o, t) = Same(o, t) /\ MergeEntry(t, o) = Same(t, o)
      BY <1>2, <2>3 DEF MergeEntry
    <3>2. /\ Same(o, t) \in Entry /\ Same(t, o) \in Entry
          /\ Same(o, t).sha = Same(t, o).sha
          /\ Same(o, t).deleted = (o.deleted /\ t.deleted)
          /\ Same(t, o).deleted = (t.deleted /\ o.deleted)
          /\ Same(o, t).versions = o.versions \cup t.versions
          /\ Same(t, o).versions = t.versions \cup o.versions
      BY <2>1, <2>3 DEF Same, WithVersions, Entry
    <3>3. o.deleted \in BOOLEAN /\ t.deleted \in BOOLEAN
      BY <2>1 DEF Entry
    <3>4. Same(o, t).deleted = Same(t, o).deleted
      BY <3>2, <3>3
    <3>5. Same(o, t).versions = Same(t, o).versions
      BY <3>2
    <3> QED
      BY <3>1, <3>2, <3>4, <3>5, NoneIsNoSha DEF ShownEntry
  <2>4. CASE o.sha # t.sha
    <3>1. MergeEntry(o, t) = Resolve(o, t) /\ MergeEntry(t, o) = Resolve(t, o)
      BY <1>2, <2>4 DEF MergeEntry
    <3>2. Wins(o, t) <=> ~Wins(t, o)
      BY <2>2, <2>4 DEF Wins
    <3>3. CASE Wins(t, o)
      <4>1. Resolve(o, t) = WithVersions(t, o.versions) /\ Resolve(t, o) = WithVersions(t, o.versions)
        BY <3>2, <3>3 DEF Resolve
      <4> QED
        BY <3>1, <4>1
    <3>4. CASE Wins(o, t)
      <4>1. Resolve(o, t) = WithVersions(o, t.versions) /\ Resolve(t, o) = WithVersions(o, t.versions)
        BY <3>2, <3>4 DEF Resolve
      <4> QED
        BY <3>1, <4>1
    <3> QED
      BY <3>2, <3>3, <3>4
  <2> QED
    BY <2>3, <2>4
<1> QED
  BY <1>1, <1>2

(* Whichever of two branches is merged into the other, every path is shown *)
(* the same: content, liveness and versions (the merge driver).            *)
THEOREM MergeIsSymmetric ==
  ASSUME NEW o \in Lock, NEW t \in Lock
  PROVE  Shown(Merge(o, t)) = Shown(Merge(t, o))
<1>1. \A p \in Path : o[p] \in Entry \cup {NoEntry} /\ t[p] \in Entry \cup {NoEntry}
  BY DEF Lock
<1>2. \A p \in Path : /\ Merge(o, t)[p] = MergeEntry(o[p], t[p])
                      /\ Merge(t, o)[p] = MergeEntry(t[p], o[p])
  BY DEF Merge
<1>3. \A p \in Path : ShownEntry(Merge(o, t)[p]) = ShownEntry(Merge(t, o)[p])
  BY <1>1, <1>2, EntriesAgree
<1> QED
  BY <1>3 DEF Shown, ShownEntry, Has

LEMMA MergedLock ==
  ASSUME NEW o \in Lock, NEW t \in Lock
  PROVE  /\ Merge(o, t) \in Lock
         /\ Named(Merge(o, t)) \subseteq Named(o) \cup Named(t)
         /\ ReferencedSHAs(Merge(o, t)) \subseteq ReferencedSHAs(o) \cup ReferencedSHAs(t)
<1>1. \A p \in Path : o[p] \in Entry \cup {NoEntry} /\ t[p] \in Entry \cup {NoEntry}
  BY DEF Lock
<1>2. \A p \in Path : Merge(o, t)[p] = MergeEntry(o[p], t[p])
  BY DEF Merge
<1>3. Merge(o, t) \in Lock
  BY <1>1, <1>2, MergedEntry DEF Lock, Merge
<1>4. ASSUME NEW p \in Path, Has(Merge(o, t), p)
      PROVE  Merge(o, t)[p].sha \in Named(o) \cup Named(t)
  <2>1. MergeEntry(o[p], t[p]).sha \in {x.sha : x \in {o[p], t[p]} \ {NoEntry}}
    BY <1>1, <1>2, <1>4, MergedEntry DEF Has
  <2> QED
    BY <1>2, <2>1 DEF Named, Has
<1>5. \A p \in Path : ShasOf(Merge(o, t)[p]) \subseteq ShasOf(o[p]) \cup ShasOf(t[p])
  BY <1>1, <1>2, MergedEntry
<1> QED
  BY <1>3, <1>4, <1>5 DEF Named, ReferencedSHAs

(* A merge keeps every path of either side and every version either side   *)
(* has of it, whichever content wins: revert and gc can count on it.       *)
THEOREM MergeLosesNothing ==
  ASSUME NEW o \in Lock, NEW t \in Lock, NEW p \in Path, NEW l \in {o, t}, Has(l, p)
  PROVE  Has(Merge(o, t), p) /\ l[p].versions \subseteq Merge(o, t)[p].versions
<1>1. o[p] \in Entry \cup {NoEntry} /\ t[p] \in Entry \cup {NoEntry}
  BY DEF Lock
<1>2. Merge(o, t)[p] = MergeEntry(o[p], t[p])
  BY DEF Merge
<1> QED
  BY <1>1, <1>2, MergedEntry DEF Has

-----------------------------------------------------------------------------
(* Typing *)

LEMMA AtInPath ==
  ASSUME TypeOK, NEW c \in Clone, job[c].todo # {}
  PROVE  At(c) \in job[c].todo /\ At(c) \in Path
<1>1. job[c].todo \in SUBSET Path
  BY DEF TypeOK, Job
<1>2. job[c].todo \in SUBSET Nat
  BY <1>1, LockAssumption
<1> QED
  BY <1>1, <1>2, LeastIn DEF At

LEMMA RepoInit == Init => TypeOK /\ ScanCovers
<1> SUFFICES ASSUME Init PROVE TypeOK /\ ScanCovers
  OBVIOUS
<1>1. EmptyLock \in Lock /\ NoFiles \in [Path -> Sha \cup {None}] /\ NoRef \in Ref
  BY DEF EmptyLock, Lock, NoFiles, NoRef, Ref
<1>2. NoJob \in Job /\ NoJob.todo = {}
  BY <1>1 DEF NoJob, Job
<1>3. [lock |-> EmptyLock, files |-> NoFiles] \in Commit
  BY <1>1 DEF Commit
<1>4. job \in [Clone -> Job] /\ \A c \in Clone : job[c].todo = {}
  BY <1>2 DEF Init
<1>5. tree \in [Clone -> [Path -> File \cup {NoFile}]]
  BY DEF Init
<1> QED
  BY <1>1, <1>3, <1>4, <1>5, RepoAssumption DEF Init, TypeOK, ScanCovers, Phase, Pushing

(* Steps that change files, locks and commits only. *)
LEMMA TreeType ==
  ASSUME TypeOK, NEW c \in Clone, NEW p \in Path, NEW f \in File \cup {NoFile},
         tree' = [tree EXCEPT ![c][p] = f]
  PROVE  tree' \in [Clone -> [Path -> File \cup {NoFile}]]
BY DEF TypeOK

LEMMA UserType ==
  ASSUME TypeOK, ScanCovers, NEW c \in Clone, User(c)
  PROVE  TypeOK' /\ ScanCovers'
<1> USE DEF File, Bytes
<1> SUFFICES TypeOK' /\ UNCHANGED <<pc, job>>
  BY DEF ScanCovers
<1>1. ASSUME NEW p \in Path, Remove(c, p) PROVE TypeOK' /\ UNCHANGED <<pc, job>>
  <2>1. tree' \in [Clone -> [Path -> File \cup {NoFile}]]
    BY <1>1, TreeType DEF Remove
  <2> QED
    BY <1>1, <2>1, RepoAssumption DEF Remove, TypeOK
<1>2. ASSUME NEW p \in Path, NEW s \in Sha, Edit(c, p, s) PROVE TypeOK' /\ UNCHANGED <<pc, job>>
  <2>1. tree' \in [Clone -> [Path -> File \cup {NoFile}]]
    BY <1>2, TreeType DEF Edit
  <2> QED
    BY <1>2, <2>1, RepoAssumption DEF Edit, TypeOK
<1>3. ASSUME NEW p \in Path, NEW q \in Path, Move(c, p, q) PROVE TypeOK' /\ UNCHANGED <<pc, job>>
  <2>1. tree' \in [Clone -> [Path -> File \cup {NoFile}]]
    BY <1>3 DEF Move, TypeOK
  <2> QED
    BY <1>3, <2>1, RepoAssumption DEF Move, TypeOK
<1>4. ASSUME NEW p \in Path, Smudge(c, p) PROVE TypeOK' /\ UNCHANGED <<pc, job>>
  <2>1. tree[c][p] \in File
    <3>1. tree[c][p] \in File \cup {NoFile}
      BY DEF TypeOK
    <3> QED
      BY <1>4, <3>1 DEF Smudge, NoFile
  <2>2. tree' \in [Clone -> [Path -> File \cup {NoFile}]]
    BY <1>4, <2>1, TreeType DEF Smudge, Fetch
  <2> QED
    BY <1>4, <2>2 DEF Smudge, Fetch, TypeOK
<1>5. ASSUME NEW p \in Path, Pull(c, p) PROVE TypeOK' /\ UNCHANGED <<pc, job>>
  <2>1. lock[c][p] \in Entry
    BY <1>5 DEF Pull, Live, Has, TypeOK, Lock
  <2>2. tree' \in [Clone -> [Path -> File \cup {NoFile}]]
    BY <1>5, <2>1, TreeType DEF Pull, Fetch, Entry
  <2> QED
    BY <1>5, <2>2 DEF Pull, Fetch, TypeOK
<1>6. ASSUME NEW p \in Path, NEW s \in Sha, Revert(c, p, s) PROVE TypeOK' /\ UNCHANGED <<pc, job>>
  <2>1. lock[c][p] \in Entry
    BY <1>6 DEF Revert, Has, TypeOK, Lock
  <2>2. [lock[c][p] EXCEPT !.sha = s] \in Entry
    BY <2>1 DEF Entry
  <2>3. tree' \in [Clone -> [Path -> File \cup {NoFile}]]
    BY <1>6, TreeType DEF Revert, Fetch
  <2>3a. Repointed(lock[c], p, s) \in Lock
    BY <2>1, <2>2 DEF Repointed, TypeOK, Lock
  <2>4. lock' \in [Clone -> Lock]
    BY <1>6, <2>3a DEF Revert, TypeOK
  <2> QED
    BY <1>6, <2>3, <2>4 DEF Revert, Fetch, TypeOK
<1>7. ASSUME NEW k \in Commit, TakeCommit(c, k) PROVE TypeOK' /\ UNCHANGED <<pc, job>>
  <2>1. CheckedOut(tree[c], k.files) \in [Path -> File \cup {NoFile}]
    BY <1>7 DEF CheckedOut, Commit, Pointer, TypeOK
  <2>2. tree' \in [Clone -> [Path -> File \cup {NoFile}]]
    BY <1>7, <2>1 DEF TakeCommit, TypeOK
  <2>3. k.lock \in Lock
    BY DEF Commit
  <2> QED
    BY <1>7, <2>2, <2>3 DEF TakeCommit, TypeOK
<1>8. ASSUME NEW d \in Clone, GitMerge(c, d) PROVE TypeOK' /\ UNCHANGED <<pc, job>>
  <2>1. head[c] \in Commit /\ head[d] \in Commit
    BY DEF TypeOK
  <2>2. PICK theirs \in SUBSET Path :
          TakeCommit(c, [lock  |-> Merge(head[c].lock, head[d].lock),
                         files |-> [p \in Path |-> IF p \in theirs THEN head[d].files[p]
                                                   ELSE head[c].files[p]]])
    BY <1>8 DEF GitMerge
  <2> DEFINE k == [lock  |-> Merge(head[c].lock, head[d].lock),
                   files |-> [p \in Path |-> IF p \in theirs THEN head[d].files[p]
                                             ELSE head[c].files[p]]]
  <2>3. k \in Commit
    BY <2>1, MergedLock DEF Commit
  <2> HIDE DEF k
  <2> QED
    BY <1>7, <2>2, <2>3 DEF k
<1>9. ASSUME NEW d \in Clone, Checkout(c, d) PROVE TypeOK' /\ UNCHANGED <<pc, job>>
  BY <1>7, <1>9 DEF Checkout, TypeOK
<1>10. ASSUME CommitAll(c) PROVE TypeOK' /\ UNCHANGED <<pc, job>>
  <2>1. Shas(tree[c]) \in [Path -> Sha \cup {None}]
    BY DEF Shas, TypeOK, NoFile
  <2>2. [lock |-> lock[c], files |-> Shas(tree[c])] \in Commit
    BY <2>1 DEF Commit, TypeOK
  <2> QED
    BY <1>10, <2>2 DEF CommitAll, TypeOK
<1> QED
  BY <1>1, <1>2, <1>3, <1>4, <1>5, <1>6, <1>8, <1>9, <1>10 DEF User

(* The entry of a visited path takes its place among the new ones. *)
LEMMA VisitedType ==
  ASSUME NEW j \in Job, NEW p \in Path, NEW e \in Entry, NEW h \in SUBSET Path
  PROVE  /\ Visited(j, p, e, h) \in Job
         /\ Visited(j, p, e, h).scan = j.scan
         /\ Visited(j, p, e, h).todo = j.todo \ {p}
         /\ Visited(j, p, e, h).new = [j.new EXCEPT ![p] = e]
         /\ Visited(j, p, e, h).at = j.at
BY DEF Visited, Job, Lock

LEMMA RecordedType ==
  ASSUME TypeOK, ScanCovers, NEW c \in Clone, NEW ph \in Pushing, Visits(c, ph),
         NEW e \in Entry, NEW h \in SUBSET Path, Recorded(c, e, h)
  PROVE  /\ job' \in [Clone -> Job] /\ pc' \in [Clone -> Phase]
         /\ ScanCovers'
<1>1. At(c) \in Path
  BY AtInPath DEF Visits
<1>2. job[c] \in Job /\ job[c].at \in Time
  BY DEF TypeOK, ScanCovers, Visits
<1> DEFINE j == Visited(job[c], At(c), e, h)
<1>3. j \in Job /\ j.scan = job[c].scan /\ j.todo = job[c].todo \ {At(c)} /\ j.at = job[c].at
  BY <1>1, <1>2 DEF Visited, Job, Lock
<1> HIDE DEF j
<1>4. job' = [job EXCEPT ![c] = j]
  BY DEF Recorded, j
<1>5. job' \in [Clone -> Job] /\ pc' \in [Clone -> Phase]
  BY <1>3, <1>4 DEF Recorded, TypeOK, Phase
<1>6. job'[c] = j /\ \A d \in Clone : d # c => job'[d] = job[d] /\ pc'[d] = pc[d]
  BY <1>4 DEF Recorded, TypeOK
<1>7. \A p \in j.todo : j.scan[p] # None
  BY <1>3 DEF ScanCovers, TypeOK, Job
<1>8. ASSUME NEW d \in Clone
      PROVE  /\ \A p \in job'[d].todo : job'[d].scan[p] # None
             /\ pc'[d] \in Pushing => job'[d].at \in Time
  <2>1. CASE d = c
    BY <1>2, <1>3, <1>6, <1>7, <2>1
  <2>2. CASE d # c
    BY <1>6, <2>2 DEF ScanCovers
  <2> QED
    BY <2>1, <2>2
<1> QED
  BY <1>5, <1>8 DEF ScanCovers

LEMMA NewEntryType ==
  ASSUME TypeOK, ScanCovers, NEW c \in Clone, NEW ph \in Pushing, Visits(c, ph),
         NEW v \in SUBSET Sha
  PROVE  NewEntry(c, v) \in Entry /\ NewEntry(c, v).sha = New(c) /\ New(c) \in Sha
         /\ ~NewEntry(c, v).deleted
<1>1. At(c) \in job[c].todo /\ At(c) \in Path
  BY AtInPath DEF Visits
<1>2. New(c) \in Sha
  BY <1>1 DEF New, TypeOK, Job, ScanCovers
<1>3. job[c].at \in Time
  BY DEF ScanCovers, Visits
<1>4. NewEntry(c, v) \in Entry
  BY <1>2, <1>3 DEF NewEntry, Entry
<1> QED
  BY <1>2, <1>4 DEF NewEntry

(* Steps that change where a client is, and what it lists. *)
LEMMA PhaseType ==
  ASSUME TypeOK, ScanCovers, NEW c \in Clone, NEW ph \in Phase, pc' = [pc EXCEPT ![c] = ph],
         NEW j \in Job, job' = [job EXCEPT ![c] = j],
         \A p \in j.todo : j.scan[p] # None,
         ph \in Pushing => j.at \in Time
  PROVE  pc' \in [Clone -> Phase] /\ job' \in [Clone -> Job] /\ ScanCovers'
<1>1. job' \in [Clone -> Job] /\ pc' \in [Clone -> Phase]
  BY DEF TypeOK
<1>2. ASSUME NEW d \in Clone
      PROVE  /\ \A p \in job'[d].todo : job'[d].scan[p] # None
             /\ pc'[d] \in Pushing => job'[d].at \in Time
  <2>1. CASE d = c
    BY <2>1 DEF TypeOK
  <2>2. CASE d # c
    <3>1. job'[d] = job[d] /\ pc'[d] = pc[d]
      BY <2>2 DEF TypeOK
    <3> QED
      BY <3>1 DEF ScanCovers
  <2> QED
    BY <2>1, <2>2
<1> QED
  BY <1>1, <1>2 DEF ScanCovers

LEMMA ListType ==
  ASSUME NEW j \in Job, NEW l \in SUBSET Sha
  PROVE  /\ WithList(j, l) \in Job /\ WithList(j, l).todo = j.todo
         /\ WithList(j, l).scan = j.scan /\ WithList(j, l).at = j.at
         /\ WithList(j, l).new = j.new /\ WithList(j, l).list = l
BY DEF WithList, Job

(* The rest of a state's type, by what a step of a push or a gc leaves alone. *)
Rest == <<objects, refs, tree, lock, head, edits, pushes>>

LEMMA NothingElse ==
  ASSUME TypeOK, UNCHANGED Rest, pc' \in [Clone -> Phase], job' \in [Clone -> Job]
  PROVE  TypeOK'
BY DEF TypeOK, Rest

LEMMA NoJobType == NoJob \in Job /\ NoJob.todo = {}
BY DEF NoJob, Job, EmptyLock, Lock, NoFiles

LEMMA EndType ==
  ASSUME TypeOK, ScanCovers, NEW c \in Clone,
         pc' = [pc EXCEPT ![c] = "idle"], job' = [job EXCEPT ![c] = NoJob]
  PROVE  pc' \in [Clone -> Phase] /\ job' \in [Clone -> Job] /\ ScanCovers'
BY NoJobType, PhaseType DEF Phase, Pushing

LEMMA AdvanceType ==
  ASSUME TypeOK, ScanCovers, NEW c \in Clone, NEW ph \in Phase, pc' = [pc EXCEPT ![c] = ph],
         UNCHANGED job, pc[c] \in Pushing \/ ph \notin Pushing
  PROVE  pc' \in [Clone -> Phase] /\ job' \in [Clone -> Job] /\ ScanCovers'
<1>1. /\ job[c] \in Job /\ job' = [job EXCEPT ![c] = job[c]]
      /\ \A p \in job[c].todo : job[c].scan[p] # None
      /\ ph \in Pushing => job[c].at \in Time
  BY DEF TypeOK, ScanCovers
<1> QED
  BY <1>1, PhaseType

LEMMA ScannedShas ==
  ASSUME TypeOK, NEW c \in Clone
  PROVE  /\ Shas(tree[c]) \in [Path -> Sha \cup {None}]
         /\ \A p \in Path : tree[c][p] # NoFile => Shas(tree[c])[p] \in Sha
         /\ \A p \in Path : tree[c][p] = NoFile => Shas(tree[c])[p] = None
         /\ None \notin Sha
<1>1. ASSUME NEW p \in Path
      PROVE  tree[c][p] # NoFile => tree[c][p].sha \in Sha
  <2>1. tree[c][p] \in File \cup {NoFile}
    BY DEF TypeOK
  <2> QED
    BY <2>1 DEF File
<1>2. \A p \in Path : tree[c][p] = NoFile => tree[c][p].sha = None
  BY DEF NoFile
<1>3. \A p \in Path : Shas(tree[c])[p] = tree[c][p].sha
  BY DEF Shas
<1>4. \A p \in Path : tree[c][p].sha \in Sha \cup {None}
  BY <1>1, <1>2
<1>5. Shas(tree[c]) \in [Path -> Sha \cup {None}]
  BY <1>3, <1>4 DEF Shas
<1> QED
  BY <1>1, <1>2, <1>3, <1>5, NoneIsNoSha

LEMMA PushStartType ==
  ASSUME TypeOK, ScanCovers, NEW c \in Clone, PushStart(c)
  PROVE  TypeOK' /\ ScanCovers'
<1> DEFINE j == [NoJob EXCEPT !.scan = Shas(tree[c]), !.at = Clock[pushes + 1],
                              !.todo = {p \in Path : tree[c][p] # NoFile}]
<1>1. pushes \in Nat /\ pushes + 1 \in 1 .. MaxPushes
  BY RepoAssumption DEF PushStart, TypeOK
<1>2. Clock[pushes + 1] \in Time
  BY <1>1, RepoAssumption
<1>3. /\ Shas(tree[c]) \in [Path -> Sha \cup {None}]
      /\ \A p \in Path : tree[c][p] # NoFile => Shas(tree[c])[p] # None
  BY ScannedShas
<1>4. /\ j \in Job /\ \A p \in j.todo : j.scan[p] # None
      /\ j.at \in Time
  BY <1>2, <1>3 DEF NoJob, Job, EmptyLock, Lock
<1>5. job' = [job EXCEPT ![c] = j] /\ pc' = [pc EXCEPT ![c] = "scan"]
  BY DEF PushStart
<1> HIDE DEF j
<1>6. pc' \in [Clone -> Phase] /\ job' \in [Clone -> Job] /\ ScanCovers'
  BY <1>4, <1>5, PhaseType DEF Phase
<1>7. pushes' \in 0 .. MaxPushes
  BY <1>1 DEF PushStart
<1> QED
  BY <1>6, <1>7 DEF PushStart, TypeOK

LEMMA CarriedEntry ==
  ASSUME TypeOK, NEW c \in Clone, NEW ph, Visits(c, ph), RenameSources(c) # {}
  PROVE  LET q == Least(RenameSources(c))
         IN  /\ q \in Path /\ q \in RenameSources(c) /\ Live(lock[c], q)
             /\ lock[c][q] \in Entry /\ lock[c][q].sha = New(c)
<1> DEFINE q == Least(RenameSources(c))
<1>1. RenameSources(c) \in SUBSET Path /\ RenameSources(c) \in SUBSET Nat
  BY LockAssumption DEF RenameSources
<1>2. q \in RenameSources(c)
  BY <1>1, LeastIn
<1> HIDE DEF q
<1>3. q \in Path /\ Live(lock[c], q) /\ lock[c][q].sha = New(c)
  BY <1>1, <1>2 DEF RenameSources
<1>4. lock[c][q] \in Entry
  BY <1>3 DEF Live, Has, TypeOK, Lock
<1> QED
  BY <1>2, <1>3, <1>4 DEF q

LEMMA DeparturesType ==
  ASSUME TypeOK, NEW c \in Clone
  PROVE  Departures(c) \in Lock
<1>1. job[c].new \in Lock /\ lock[c] \in Lock
  BY DEF TypeOK, Job
<1>2. \A p \in Path : Has(lock[c], p) =>
        lock[c][p] \in Entry /\ Tombstone(lock[c][p]) \in Entry
  BY <1>1 DEF Lock, Has, Tombstone, Entry
<1> QED
  BY <1>1, <1>2 DEF Departures, Lock

LEMMA PushStepType ==
  ASSUME TypeOK, ScanCovers, NEW c \in Clone, PushStep(c)
  PROVE  TypeOK' /\ ScanCovers'
<1> DEFINE Typed == pc' \in [Clone -> Phase] /\ job' \in [Clone -> Job] /\ ScanCovers'
<1>1. ASSUME KeepEntry(c) PROVE TypeOK' /\ ScanCovers'
  <2>1. At(c) \in Path
    BY <1>1, AtInPath DEF KeepEntry, Visits
  <2>2. Old(c) \in Entry
    BY <1>1, <2>1 DEF KeepEntry, Unchanged, Old, TypeOK, Lock
  <2>3. Typed
    BY <1>1, <2>2, RecordedType DEF KeepEntry, Pushing
  <2> QED
    BY <1>1, <2>3, NothingElse DEF KeepEntry, Rest
<1>2. ASSUME CarryEntry(c) PROVE TypeOK' /\ ScanCovers'
  <2> DEFINE q == Least(RenameSources(c))
  <2>1. q \in Path /\ lock[c][q] \in Entry
    BY <1>2, CarriedEntry DEF CarryEntry
  <2>2. Visits(c, "scan") /\ Recorded(c, lock[c][q], {q})
    BY <1>2 DEF CarryEntry
  <2> HIDE DEF q
  <2>3. Typed
    BY <2>1, <2>2, RecordedType DEF Pushing
  <2> QED
    BY <1>2, <2>3, NothingElse DEF CarryEntry, Rest
<1>3. ASSUME StatBlob(c) PROVE TypeOK' /\ ScanCovers'
  <2>1. PICK ph \in {"record", "put"} : pc' = [pc EXCEPT ![c] = ph]
    BY <1>3 DEF StatBlob
  <2>2. Typed
    BY <1>3, <2>1, AdvanceType DEF StatBlob, Visits, Pushing, Phase
  <2> QED
    BY <1>3, <2>2, NothingElse DEF StatBlob, Rest
<1>4. ASSUME PutBlob(c) PROVE TypeOK' /\ ScanCovers'
  <2>1. At(c) \in job[c].todo /\ At(c) \in Path
    BY <1>4, AtInPath DEF PutBlob, Visits
  <2>2. tree[c][At(c)] \in File /\ New(c) \in Sha
    BY <1>4, <2>1 DEF PutBlob, TypeOK, New, ScanCovers, Job
  <2>3. objects' \in [Sha -> Sha \cup {None}]
    BY <1>4, <2>2 DEF PutBlob, TypeOK, File
  <2>4. Typed
    BY <1>4, AdvanceType DEF PutBlob, Visits, Pushing, Phase
  <2> QED
    BY <1>4, <2>3, <2>4 DEF PutBlob, TypeOK
<1>5. ASSUME VerifyPut(c) PROVE TypeOK' /\ ScanCovers'
  <2>1. Typed
    BY <1>5, AdvanceType DEF VerifyPut, Visits, Pushing, Phase
  <2> QED
    BY <1>5, <2>1, NothingElse DEF VerifyPut, Rest
<1>6. ASSUME RecordPlain(c) PROVE TypeOK' /\ ScanCovers'
  <2>1. NewEntry(c, {}) \in Entry
    BY <1>6, NewEntryType DEF RecordPlain, Pushing
  <2>2. Typed
    BY <1>6, <2>1, RecordedType DEF RecordPlain, Pushing
  <2> QED
    BY <1>6, <2>2, NothingElse DEF RecordPlain, Rest
<1>7. ASSUME RefIsCurrent(c) PROVE TypeOK' /\ ScanCovers'
  <2>1. At(c) \in Path
    BY <1>7, AtInPath DEF RefIsCurrent, Visits
  <2>2. refs[At(c)].all \in SUBSET Sha
    BY <2>1 DEF TypeOK, Ref
  <2>3. NewEntry(c, refs[At(c)].all) \in Entry
    BY <1>7, <2>2, NewEntryType DEF RefIsCurrent, Pushing
  <2>4. Typed
    BY <1>7, <2>3, RecordedType DEF RefIsCurrent, Pushing
  <2> QED
    BY <1>7, <2>4, NothingElse DEF RefIsCurrent, Rest
<1>8. ASSUME ReadRef(c) PROVE TypeOK' /\ ScanCovers'
  <2> DEFINE l == refs[At(c)].all \cup {New(c)}
             j == WithList(job[c], l)
  <2>1. At(c) \in job[c].todo /\ At(c) \in Path
    BY <1>8, AtInPath DEF ReadRef, Visits
  <2>2. l \in SUBSET Sha /\ job[c] \in Job
    BY <2>1 DEF TypeOK, Ref, New, ScanCovers, Job
  <2>3. job' = [job EXCEPT ![c] = j] /\ pc' = [pc EXCEPT ![c] = "unref"]
    BY <1>8 DEF ReadRef
  <2> HIDE DEF l
  <2>4. j \in Job /\ j.todo = job[c].todo /\ j.scan = job[c].scan /\ j.at = job[c].at
    BY <2>2, ListType
  <2>5. (\A p \in j.todo : j.scan[p] # None) /\ j.at \in Time
    BY <1>8, <2>4 DEF ScanCovers, ReadRef, Visits, Pushing
  <2> HIDE DEF j
  <2>6. Typed
    BY <2>3, <2>4, <2>5, PhaseType DEF Phase
  <2> QED
    BY <1>8, <2>6, NothingElse DEF ReadRef, Rest
<1>9. ASSUME DeleteRef(c) PROVE TypeOK' /\ ScanCovers'
  <2>1. Typed
    BY <1>9, AdvanceType DEF DeleteRef, Visits, Pushing, Phase
  <2>2. refs' \in [Path -> Ref]
    BY <1>9 DEF DeleteRef, TypeOK, NoRef, Ref
  <2> QED
    BY <1>9, <2>1, <2>2 DEF DeleteRef, TypeOK
<1>10. ASSUME PutRef(c) PROVE TypeOK' /\ ScanCovers'
  <2>1. job[c].list \in SUBSET Sha
    BY DEF TypeOK, Job
  <2>2. NewEntry(c, job[c].list) \in Entry /\ New(c) \in Sha
    BY <1>10, <2>1, NewEntryType DEF PutRef, Pushing
  <2>3. Typed
    BY <1>10, <2>2, RecordedType DEF PutRef, Pushing
  <2>4. refs' \in [Path -> Ref]
    BY <1>10, <2>1, <2>2 DEF PutRef, TypeOK, Ref
  <2> QED
    BY <1>10, <2>3, <2>4 DEF PutRef, TypeOK
<1>11. ASSUME FinishPush(c) PROVE TypeOK' /\ ScanCovers'
  <2>1. Typed
    BY <1>11, EndType DEF FinishPush
  <2> QED
    BY <1>11, <2>1, DeparturesType DEF FinishPush, TypeOK
<1> QED
  BY <1>1, <1>2, <1>3, <1>4, <1>5, <1>6, <1>7, <1>8, <1>9, <1>10, <1>11 DEF PushStep

LEMMA GcType ==
  ASSUME TypeOK, ScanCovers, NEW c \in Clone, Gc(c) \/ Abandon(c)
  PROVE  TypeOK' /\ ScanCovers'
<1>1. ASSUME Abandon(c) PROVE TypeOK' /\ ScanCovers'
  BY <1>1, EndType, NothingElse DEF Abandon, Rest
<1>2. ASSUME GcStart(c) PROVE TypeOK' /\ ScanCovers'
  <2> DEFINE j == WithList(NoJob, PlanSweep(c))
  <2>1. PlanSweep(c) \in SUBSET Sha
    BY DEF PlanSweep
  <2>2. j \in Job /\ j.todo = {}
    BY <2>1, NoJobType, ListType
  <2>3. job' = [job EXCEPT ![c] = j] /\ pc' = [pc EXCEPT ![c] = "gc"]
    BY <1>2 DEF GcStart
  <2> HIDE DEF j
  <2>4. pc' \in [Clone -> Phase] /\ job' \in [Clone -> Job] /\ ScanCovers'
    BY <2>2, <2>3, PhaseType DEF Phase, Pushing
  <2> QED
    BY <1>2, <2>4, NothingElse DEF GcStart, Rest
<1>3. ASSUME GcDelete(c) PROVE TypeOK' /\ ScanCovers'
  <2> DEFINE s == Least(job[c].list)
             j == WithList(job[c], job[c].list \ {s})
  <2>1. job[c] \in Job /\ job[c].list \ {s} \in SUBSET Sha
    BY DEF TypeOK, Job
  <2>2. /\ job' = [job EXCEPT ![c] = j] /\ objects' = [objects EXCEPT ![s] = None]
        /\ pc' = [pc EXCEPT ![c] = "gc"]
    BY <1>3 DEF GcDelete, TypeOK
  <2> HIDE DEF s
  <2>3. j \in Job /\ \A p \in j.todo : j.scan[p] # None
    BY <2>1, ListType DEF ScanCovers
  <2> HIDE DEF j
  <2>4. pc' \in [Clone -> Phase] /\ job' \in [Clone -> Job] /\ ScanCovers'
    BY <2>2, <2>3, PhaseType DEF Phase, Pushing
  <2>5. objects' \in [Sha -> Sha \cup {None}]
    BY <2>2 DEF TypeOK
  <2> QED
    BY <1>3, <2>4, <2>5 DEF GcDelete, TypeOK
<1>4. ASSUME GcFinish(c) PROVE TypeOK' /\ ScanCovers'
  <2>1. pc' \in [Clone -> Phase] /\ job' \in [Clone -> Job] /\ ScanCovers'
    BY <1>4, AdvanceType DEF GcFinish, Phase, Pushing
  <2> QED
    BY <1>4, <2>1, NothingElse DEF GcFinish, Rest
<1> QED
  BY <1>1, <1>2, <1>3, <1>4 DEF Gc

LEMMA RepoTypeStep == TypeOK /\ ScanCovers /\ [Next]_vars => TypeOK' /\ ScanCovers'
<1> SUFFICES ASSUME TypeOK, ScanCovers, [Next]_vars PROVE TypeOK' /\ ScanCovers'
  OBVIOUS
<1>1. CASE Next
  BY <1>1, UserType, PushStartType, PushStepType, GcType DEF Next
<1>2. CASE UNCHANGED vars
  BY <1>2 DEF vars, TypeOK, ScanCovers
<1> QED
  BY <1>1, <1>2

(* The types of the clones' trees, locks, commits and commands, and of the *)
(* store.                                                                  *)
THEOREM RepoTypeCorrect == Spec => []TypeOK
BY RepoInit, RepoTypeStep, PTL DEF Spec

-----------------------------------------------------------------------------
(* The repository never gets ahead of storage *)

(* What a lock of some clone, working or committed, refers to. *)
OnRecord == UNION {ReferencedSHAs(lock[d]) \cup ReferencedSHAs(head[d].lock) : d \in Clone}

(* The commands of one clone leave the files and the command of another    *)
(* alone, and lose no content.                                             *)
Kept == \A s \in Sha : Intact(s) => Intact(s)'

LEMMA OthersHand ==
  ASSUME TypeOK, ScanCovers, Kept, NEW d \in Clone, Hand(d),
         tree'[d] = tree[d], job'[d] = job[d], pc'[d] = pc[d]
  PROVE  Hand(d)'
<1> SUFFICES ASSUME pc[d] \in Pushing PROVE Hand(d)'
  BY DEF Hand
<1>1. New(d)' = New(d)
  BY DEF New, At
<1>2. \A p \in Path : Has(job[d].new, p) => job[d].new[p].sha \in Sha
  BY DEF TypeOK, Job, Lock, Has, Entry
<1>3. ASSUME pc[d] \in Seen PROVE Intact(New(d))'
  <2>1. job[d].todo # {}
    BY <1>3 DEF Hand, Seen
  <2>2. New(d) \in Sha
    BY <2>1, AtInPath DEF New, TypeOK, Job, ScanCovers
  <2>3. Intact(New(d))
    BY <1>3 DEF Hand
  <2> QED
    BY <1>1, <2>2, <2>3 DEF Kept, Intact
<1>4. \A p \in Path : Has(job[d].new, p) => Intact(job[d].new[p].sha)'
  <2>1. \A p \in Path : Has(job[d].new, p) => Intact(job[d].new[p].sha)
    BY DEF Hand
  <2> QED
    BY <1>2, <2>1 DEF Kept, Intact
<1> QED
  BY <1>1, <1>3, <1>4 DEF Hand, Has, Live

LEMMA NamedReferenced ==
  ASSUME NEW l \in Lock
  PROVE  Named(l) \subseteq ReferencedSHAs(l) /\ ReferencedSHAs(l) \subseteq Sha
<1>1. \A p \in Path : l[p] \in Entry \cup {NoEntry}
  BY DEF Lock
<1> QED
  BY <1>1, NoneIsNoSha DEF Named, ReferencedSHAs, ShasOf, Has, Entry

LEMMA LocksAre ==
  ASSUME TypeOK, NEW c \in Clone
  PROVE  lock[c] \in Lock /\ head[c] \in Commit /\ head[c].lock \in Lock
BY DEF TypeOK, Commit

LEMMA TakenCommit ==
  ASSUME TypeOK, NamedIsStored, NEW c \in Clone, NEW k, TakeCommit(c, k), Idle(c),
         \A s \in Named(k.lock) : Intact(s), ReferencedSHAs(k.lock) \subseteq OnRecord
  PROVE  NamedIsStored' /\ OnRecord' \subseteq OnRecord
<1>1. ASSUME NEW d \in Clone
      PROVE  /\ \A s \in Named(lock'[d]) \cup Named(head'[d].lock) : Intact(s)
             /\ ReferencedSHAs(lock'[d]) \cup ReferencedSHAs(head'[d].lock) \subseteq OnRecord
  <2>1. CASE d = c
    <3>1. lock'[d] = k.lock /\ head'[d] = k
      BY <2>1 DEF TakeCommit, TypeOK
    <3> QED
      BY <3>1
  <2>2. CASE d # c
    <3>1. lock'[d] = lock[d] /\ head'[d] = head[d]
      BY <2>2 DEF TakeCommit, TypeOK
    <3> QED
      BY <3>1 DEF NamedIsStored, OnRecord
  <2> QED
    BY <2>1, <2>2
<1>2. \A s : Intact(s)' <=> Intact(s)
  BY DEF TakeCommit, Intact
<1>3. NamedIsStored'
  BY <1>1, <1>2 DEF NamedIsStored
<1>4. OnRecord' \subseteq OnRecord
  BY <1>1 DEF OnRecord
<1> QED
  BY <1>3, <1>4

LEMMA SameLocks ==
  ASSUME TypeOK, NamedIsStored, UNCHANGED <<objects, lock, head>>
  PROVE  NamedIsStored' /\ OnRecord' \subseteq OnRecord
BY DEF NamedIsStored, Intact, OnRecord

LEMMA RepointedLock ==
  ASSUME NEW l \in Lock, NEW p \in Path, Has(l, p), NEW s \in l[p].versions
  PROVE  /\ Repointed(l, p, s) \in Lock
         /\ Named(Repointed(l, p, s)) \subseteq Named(l) \cup {s}
         /\ ReferencedSHAs(Repointed(l, p, s)) \subseteq ReferencedSHAs(l)
<1>1. l[p] \in Entry /\ s \in Sha
  BY DEF Lock, Has, Entry
<1> DEFINE e == [l[p] EXCEPT !.sha = s]
<1>2. e \in Entry /\ e.sha = s /\ e.versions = l[p].versions
  BY <1>1 DEF Entry
<1>3. ShasOf(e) \subseteq ShasOf(l[p])
  BY <1>1, <1>2, NoneIsNoSha DEF ShasOf
<1>4. Repointed(l, p, s) = [l EXCEPT ![p] = e]
  BY DEF Repointed
<1> HIDE DEF e
<1>5. Repointed(l, p, s) \in Lock
  BY <1>2, <1>4 DEF Lock
<1>6. \A q \in Path : Repointed(l, p, s)[q] = IF q = p THEN e ELSE l[q]
  BY <1>4 DEF Lock
<1>7. Named(Repointed(l, p, s)) \subseteq Named(l) \cup {s}
  BY <1>2, <1>6 DEF Named, Has
<1>8. ReferencedSHAs(Repointed(l, p, s)) \subseteq ReferencedSHAs(l)
  BY <1>3, <1>6 DEF ReferencedSHAs
<1> QED
  BY <1>5, <1>7, <1>8

(* What git and the user do brings no content into a lock that was not on  *)
(* record, nor one into what a lock names that is not stored.              *)
LEMMA UserLocks ==
  ASSUME Still, TypeOK, NamedIsStored, NEW c \in Clone, User(c)
  PROVE  NamedIsStored' /\ OnRecord' \subseteq OnRecord
<1>1. ASSUME NEW p \in Path, Remove(c, p) \/ Smudge(c, p) \/ Pull(c, p)
      PROVE  NamedIsStored' /\ OnRecord' \subseteq OnRecord
  BY <1>1, SameLocks DEF Remove, Smudge, Pull, Fetch
<1>2. ASSUME NEW p \in Path, NEW s \in Sha, Edit(c, p, s)
      PROVE  NamedIsStored' /\ OnRecord' \subseteq OnRecord
  BY <1>2, SameLocks DEF Edit
<1>3. ASSUME NEW p \in Path, NEW q \in Path, Move(c, p, q)
      PROVE  NamedIsStored' /\ OnRecord' \subseteq OnRecord
  BY <1>3, SameLocks DEF Move
<1>4. ASSUME NEW p \in Path, NEW s \in Sha, Revert(c, p, s)
      PROVE  NamedIsStored' /\ OnRecord' \subseteq OnRecord
  <2>1. CASE UNCHANGED lock
    BY <1>4, <2>1, SameLocks DEF Revert, Fetch
  <2>2. CASE lock' = [lock EXCEPT ![c] = Repointed(lock[c], p, s)]
    <3> DEFINE l == Repointed(lock[c], p, s)
    <3>1. lock[c] \in Lock /\ Has(lock[c], p) /\ s \in lock[c][p].versions /\ Intact(s)
      BY <1>4, LocksAre DEF Revert, Fetch
    <3>2. Named(l) \subseteq Named(lock[c]) \cup {s} /\ ReferencedSHAs(l) \subseteq ReferencedSHAs(lock[c])
      BY <3>1, RepointedLock
    <3>3. lock' = [lock EXCEPT ![c] = l] /\ UNCHANGED <<objects, head>>
      BY <1>4, <2>2 DEF Revert, Fetch
    <3> HIDE DEF l
    <3>4. ASSUME NEW d \in Clone
          PROVE  /\ Named(lock'[d]) \subseteq Named(lock[d]) \cup {s}
                 /\ ReferencedSHAs(lock'[d]) \subseteq ReferencedSHAs(lock[d])
      <4>1. CASE d = c
        BY <3>2, <3>3, <4>1 DEF TypeOK
      <4>2. CASE d # c
        BY <3>3, <4>2 DEF TypeOK
      <4> QED
        BY <4>1, <4>2
    <3>5. NamedIsStored'
      BY <3>1, <3>3, <3>4 DEF NamedIsStored, Intact
    <3>6. OnRecord' \subseteq OnRecord
      BY <3>3, <3>4 DEF OnRecord
    <3> QED
      BY <3>5, <3>6
  <2> QED
    BY <1>4, <2>1, <2>2 DEF Revert
<1>5. ASSUME NEW d \in Clone, Checkout(c, d)
      PROVE  NamedIsStored' /\ OnRecord' \subseteq OnRecord
  <2>1. \A s \in Named(head[d].lock) : Intact(s)
    BY DEF NamedIsStored
  <2>2. ReferencedSHAs(head[d].lock) \subseteq OnRecord
    BY DEF OnRecord
  <2> QED
    BY <1>5, <2>1, <2>2, TakenCommit DEF Checkout
<1>6. ASSUME NEW d \in Clone, GitMerge(c, d)
      PROVE  NamedIsStored' /\ OnRecord' \subseteq OnRecord
  <2>1. PICK theirs \in SUBSET Path :
          TakeCommit(c, [lock  |-> Merge(head[c].lock, head[d].lock),
                         files |-> [p \in Path |-> IF p \in theirs THEN head[d].files[p]
                                                   ELSE head[c].files[p]]])
    BY <1>6 DEF GitMerge
  <2> DEFINE k == [lock  |-> Merge(head[c].lock, head[d].lock),
                   files |-> [p \in Path |-> IF p \in theirs THEN head[d].files[p]
                                             ELSE head[c].files[p]]]
  <2>2. k.lock = Merge(head[c].lock, head[d].lock) /\ TakeCommit(c, k)
    BY <2>1
  <2>3. /\ Named(k.lock) \subseteq Named(head[c].lock) \cup Named(head[d].lock)
        /\ ReferencedSHAs(k.lock) \subseteq ReferencedSHAs(head[c].lock) \cup ReferencedSHAs(head[d].lock)
    BY <2>2, LocksAre, MergedLock
  <2> HIDE DEF k
  <2>4. \A s \in Named(k.lock) : Intact(s)
    BY <2>3 DEF NamedIsStored
  <2>5. ReferencedSHAs(k.lock) \subseteq OnRecord
    BY <2>3 DEF OnRecord
  <2> QED
    BY <1>6, <2>2, <2>4, <2>5, TakenCommit DEF GitMerge
<1>7. ASSUME CommitAll(c) PROVE NamedIsStored' /\ OnRecord' \subseteq OnRecord
  <2> DEFINE k == [lock |-> lock[c], files |-> Shas(tree[c])]
  <2>1. head' = [head EXCEPT ![c] = k] /\ k.lock = lock[c] /\ UNCHANGED <<objects, lock>>
    BY <1>7 DEF CommitAll
  <2> HIDE DEF k
  <2>2. \A d \in Clone : head'[d].lock \in {lock[d], head[d].lock}
    BY <2>1 DEF TypeOK
  <2>3. NamedIsStored'
    BY <2>1, <2>2 DEF NamedIsStored, Intact
  <2>4. OnRecord' \subseteq OnRecord
    BY <2>1, <2>2 DEF OnRecord
  <2> QED
    BY <2>3, <2>4
<1> QED
  BY <1>1, <1>2, <1>3, <1>4, <1>5, <1>6, <1>7 DEF User

(* and leaves the files of a pushing clone, and of other clones, alone.    *)
LEMMA UserFiles ==
  ASSUME Still, TypeOK, NEW c \in Clone, User(c)
  PROVE  /\ UNCHANGED <<objects, pc, job>> /\ pc[c] = "idle"
         /\ \A d \in Clone : d # c => tree'[d] = tree[d]
BY DEF User, Remove, Smudge, Pull, Edit, Revert, Move, GitMerge, Checkout, CommitAll,
       TakeCommit, Fetch, Idle, TypeOK

LEMMA AllHands ==
  ASSUME TypeOK, ScanCovers, InHand, Kept, NEW c \in Clone, Hand(c)',
         \A d \in Clone : d # c => tree'[d] = tree[d] /\ job'[d] = job[d] /\ pc'[d] = pc[d]
  PROVE  InHand'
<1>1. ASSUME NEW d \in Clone, d # c PROVE Hand(d)'
  BY <1>1, OthersHand DEF InHand
<1> QED
  BY <1>1 DEF InHand

LEMMA NobodySweeps ==
  ASSUME Sweeping, TypeOK, NEW c \in Clone, pc[c] \in Pushing, NEW ph \in Phase \ {"gc"},
         pc' = [pc EXCEPT ![c] = ph]
  PROVE  Sweeping'
BY DEF Sweeping, TypeOK

(* What is stored under its own name, and seen by this push, is recorded. *)
LEMMA RecordedHand ==
  ASSUME TypeOK, ScanCovers, NEW c \in Clone, Hand(c), NEW ph \in Pushing, Visits(c, ph),
         NEW e \in Entry, ~e.deleted, e.sha = New(c), Intact(New(c)),
         NEW h \in SUBSET Path, Recorded(c, e, h), UNCHANGED <<objects, tree>>
  PROVE  Hand(c)'
<1>1. At(c) \in job[c].todo /\ At(c) \in Path
  BY AtInPath DEF Visits
<1>2. job[c] \in Job
  BY DEF TypeOK
<1> DEFINE p == At(c)
           j == Visited(job[c], p, e, h)
<1>3. /\ j.scan = job[c].scan /\ j.todo = job[c].todo \ {p} /\ job[c].new \in Lock
      /\ j.new = [job[c].new EXCEPT ![p] = e]
  BY <1>1, <1>2, VisitedType DEF Job
<1>4. job' = [job EXCEPT ![c] = j] /\ pc' = [pc EXCEPT ![c] = "scan"]
  BY DEF Recorded
<1> HIDE DEF j
<1>5. job'[c] = j /\ pc'[c] = "scan"
  BY <1>4 DEF TypeOK
<1>6. New(c) = tree[c][p].sha
  BY <1>1 DEF Hand, New, Visits, Shas
<1>7. \A q \in Path : j.new[q] = IF q = p THEN e ELSE job[c].new[q]
  BY <1>1, <1>3 DEF Lock
<1>8. \A q \in Path : Has(j.new, q) => objects'[j.new[q].sha] = j.new[q].sha
  <2>1. \A q \in Path : Has(job[c].new, q) => Intact(job[c].new[q].sha)
    BY DEF Hand, Visits
  <2> QED
    BY <1>7, <2>1 DEF Has, Intact
<1>9. ASSUME NEW q \in Path, tree[c][q] # NoFile
      PROVE  q \in j.todo \/ (Live(j.new, q) /\ j.new[q].sha = tree[c][q].sha)
  <2>1. CASE q = p
    BY <1>6, <1>7, <2>1, NoneIsNoSha DEF Live, Has
  <2>2. CASE q # p
    <3>1. q \in job[c].todo \/ (Live(job[c].new, q) /\ job[c].new[q].sha = tree[c][q].sha)
      BY <1>9 DEF Hand, Visits
    <3> QED
      BY <1>3, <1>7, <2>2, <3>1 DEF Live, Has
  <2> QED
    BY <2>1, <2>2
<1> QED
  BY <1>3, <1>5, <1>8, <1>9 DEF Hand, Seen, Visits, Intact, Has, Live

(* Steps of a push that keep its entries. *)
LEMMA MovedHand ==
  ASSUME TypeOK, ScanCovers, Kept, NEW c \in Clone, Hand(c), NEW ph \in Pushing, Visits(c, ph),
         NEW next \in Pushing, pc' = [pc EXCEPT ![c] = next],
         NEW l \in SUBSET Sha, job' \in {job, [job EXCEPT ![c] = WithList(job[c], l)]},
         next \in Seen => Intact(New(c))', UNCHANGED tree
  PROVE  Hand(c)'
<1>1. job[c] \in Job
  BY DEF TypeOK
<1>2. /\ job'[c].scan = job[c].scan /\ job'[c].todo = job[c].todo /\ job'[c].new = job[c].new
  <2>1. CASE job' = job
    BY <2>1
  <2>2. CASE job' = [job EXCEPT ![c] = WithList(job[c], l)]
    BY <1>1, <2>2, ListType DEF TypeOK
  <2> QED
    BY <2>1, <2>2
<1>3. \A p \in Path : Has(job[c].new, p) => job[c].new[p].sha \in Sha
  BY DEF TypeOK, Job, Lock, Has, Entry
<1>4. \A p \in Path : Has(job[c].new, p) => objects'[job[c].new[p].sha] = job[c].new[p].sha
  <2>1. \A p \in Path : Has(job[c].new, p) => Intact(job[c].new[p].sha)
    BY DEF Hand, Visits
  <2> QED
    BY <1>3, <2>1 DEF Kept, Intact
<1>5. New(c)' = job'[c].scan[At(c)'] /\ At(c)' = At(c)
  BY <1>2 DEF New, At
<1>6. pc'[c] = next /\ pc[c] \in Pushing /\ job[c].todo # {}
  BY DEF TypeOK, Visits
<1> QED
  BY <1>2, <1>4, <1>5, <1>6 DEF Hand, Has, Live, Intact

LEMMA OtherClones ==
  ASSUME TypeOK, NEW c \in Clone, NEW ph, NEW j,
         pc' = [pc EXCEPT ![c] = ph], job' = [job EXCEPT ![c] = j], UNCHANGED tree
  PROVE  \A d \in Clone : d # c => tree'[d] = tree[d] /\ job'[d] = job[d] /\ pc'[d] = pc[d]
BY DEF TypeOK

LEMMA SafeStart ==
  ASSUME GcAlone, TypeOK, ScanCovers, Safe, NEW c \in Clone, PushStart(c)
  PROVE  Safe'
<1> DEFINE j == [NoJob EXCEPT !.scan = Shas(tree[c]), !.at = Clock[pushes + 1],
                              !.todo = {p \in Path : tree[c][p] # NoFile}]
<1>1. job' = [job EXCEPT ![c] = j] /\ pc' = [pc EXCEPT ![c] = "scan"]
  BY DEF PushStart
<1>2. UNCHANGED <<objects, tree, lock, head>> /\ \A d \in Clone : pc[d] # "gc"
  BY DEF PushStart, NoSweep
<1>3. /\ j.scan = Shas(tree[c]) /\ j.todo = {p \in Path : tree[c][p] # NoFile}
      /\ j.new = EmptyLock
  BY DEF NoJob
<1> HIDE DEF j
<1>4. Hand(c)'
  <2>1. job'[c] = j /\ pc'[c] = "scan"
    BY <1>1 DEF TypeOK
  <2> QED
    BY <1>2, <1>3, <2>1 DEF Hand, Has, EmptyLock, Seen
<1>5. Kept
  BY <1>2 DEF Kept, Intact
<1>6. InHand'
  BY <1>1, <1>2, <1>4, <1>5, AllHands, OtherClones DEF Safe
<1>7. Sweeping'
  BY <1>1, <1>2 DEF Sweeping, TypeOK
<1>8. Whole' /\ NamedIsStored'
  BY <1>2, SameLocks DEF Safe, Whole
<1> QED
  BY <1>6, <1>7, <1>8 DEF Safe

LEMMA SafeSeen ==
  ASSUME TypeOK, ScanCovers, Safe, NEW c \in Clone, NEW ph \in Pushing, Visits(c, ph), Stored(New(c))
  PROVE  Intact(New(c))
<1>1. At(c) \in job[c].todo /\ At(c) \in Path
  BY AtInPath DEF Visits
<1>2. New(c) \in Sha
  BY <1>1 DEF New, TypeOK, Job, ScanCovers
<1> QED
  BY <1>2 DEF Safe, Whole, Stored, Intact

(* A step that records an entry, or moves on, and stores nothing. *)
LEMMA SafeQuiet ==
  ASSUME TypeOK, ScanCovers, Safe, NEW c \in Clone, pc[c] \in Pushing, NEW ph \in Pushing, NEW j,
         pc' = [pc EXCEPT ![c] = ph], job' = [job EXCEPT ![c] = j],
         UNCHANGED <<objects, tree, lock, head>>, Hand(c)'
  PROVE  Safe'
<1>1. Kept
  BY DEF Kept, Intact
<1>2. InHand'
  BY <1>1, AllHands, OtherClones DEF Safe
<1>3. Sweeping'
  BY NobodySweeps DEF Safe, Pushing, Phase
<1>4. Whole' /\ NamedIsStored'
  BY SameLocks DEF Safe, Whole
<1> QED
  BY <1>2, <1>3, <1>4 DEF Safe

LEMMA SafeRecorded ==
  ASSUME TypeOK, ScanCovers, Safe, NEW c \in Clone, NEW ph \in Pushing, Visits(c, ph),
         NEW e \in Entry, ~e.deleted, e.sha = New(c), Intact(New(c)),
         NEW h \in SUBSET Path, Recorded(c, e, h), UNCHANGED <<objects, tree, lock, head>>
  PROVE  Safe'
<1>1. Hand(c)
  BY DEF Safe, InHand
<1>2. Hand(c)'
  BY <1>1, RecordedHand
<1>3. pc[c] \in Pushing /\ "scan" \in Pushing
  BY DEF Visits, Pushing
<1> QED
  BY <1>2, <1>3, SafeQuiet DEF Recorded

LEMMA SafeMoved ==
  ASSUME TypeOK, ScanCovers, Safe, NEW c \in Clone, NEW ph \in Pushing, Visits(c, ph),
         NEW next \in Pushing, pc' = [pc EXCEPT ![c] = next],
         NEW l \in SUBSET Sha, job' \in {job, [job EXCEPT ![c] = WithList(job[c], l)]},
         next \in Seen => Intact(New(c)), UNCHANGED <<objects, tree, lock, head>>
  PROVE  Safe'
<1>1. New(c)' = New(c)
  <2>1. job'[c].scan = job[c].scan /\ job'[c].todo = job[c].todo
    <3>1. CASE job' = job
      BY <3>1
    <3>2. CASE job' = [job EXCEPT ![c] = WithList(job[c], l)]
      BY <3>2, ListType DEF TypeOK
    <3> QED
      BY <3>1, <3>2
  <2> QED
    BY <2>1 DEF New, At
<1>2. next \in Seen => Intact(New(c))'
  BY <1>1 DEF Intact
<1>3. Hand(c) /\ Kept
  BY DEF Safe, InHand, Kept, Intact
<1>4. Hand(c)'
  BY <1>2, <1>3, MovedHand
<1>5. PICK j : job' = [job EXCEPT ![c] = j]
  <2>1. CASE job' = job
    <3>1. job' = [job EXCEPT ![c] = job[c]]
      BY <2>1 DEF TypeOK
    <3> QED
      BY <3>1
  <2>2. CASE job' = [job EXCEPT ![c] = WithList(job[c], l)]
    BY <2>2
  <2> QED
    BY <2>1, <2>2
<1>6. pc[c] \in Pushing
  BY DEF Visits
<1> QED
  BY <1>4, <1>5, <1>6, SafeQuiet

LEMMA SafePut ==
  ASSUME TypeOK, ScanCovers, Safe, NEW c \in Clone, PutBlob(c)
  PROVE  Safe'
<1>1. At(c) \in job[c].todo /\ At(c) \in Path /\ Visits(c, "put")
  BY AtInPath DEF PutBlob, Visits
<1>2. New(c) \in Sha
  BY <1>1 DEF New, TypeOK, Job, ScanCovers
<1>3. Hand(c)
  BY DEF Safe, InHand
<1>4. tree[c][At(c)].sha = New(c)
  BY <1>1, <1>3 DEF Hand, Visits, Pushing, New, Shas
<1>5. objects' \in {objects, [objects EXCEPT ![New(c)] = New(c)]}
  BY <1>4 DEF PutBlob
<1>6. Kept /\ Whole'
  BY <1>2, <1>5 DEF Safe, Whole, Kept, Intact, TypeOK
<1>7. pc' = [pc EXCEPT ![c] = "verify"] /\ UNCHANGED <<job, tree, lock, head>>
  BY DEF PutBlob
<1>8. Hand(c)'
  BY <1>1, <1>3, <1>6, <1>7, MovedHand DEF Pushing, Seen
<1>9. \A d \in Clone : d # c => tree'[d] = tree[d] /\ job'[d] = job[d] /\ pc'[d] = pc[d]
  BY <1>7 DEF TypeOK
<1>10. InHand'
  BY <1>6, <1>8, <1>9, AllHands DEF Safe
<1>11. Sweeping'
  BY <1>1, <1>7, NobodySweeps DEF Safe, Pushing, Phase, Visits
<1>12. NamedIsStored'
  <2>1. \A d \in Clone : Named(lock[d]) \cup Named(head[d].lock) \subseteq Sha
    BY LocksAre, NamedReferenced
  <2> QED
    BY <1>6, <1>7, <2>1 DEF Safe, NamedIsStored, Kept, Intact
<1> QED
  BY <1>6, <1>10, <1>11, <1>12 DEF Safe

(* A step that ends a command, its clone's lock at most changed. *)
LEMMA SafeEnd ==
  ASSUME TypeOK, ScanCovers, Safe, NEW c \in Clone, NEW j,
         pc' = [pc EXCEPT ![c] = "idle"], job' = [job EXCEPT ![c] = j],
         UNCHANGED <<objects, tree, head>>,
         NEW l, \/ lock' = lock
                \/ /\ lock' = [lock EXCEPT ![c] = l]
                   /\ \A s \in Named(l) : Intact(s)
                   /\ \A d \in Clone : pc[d] # "gc"
  PROVE  Safe'
<1>1. Kept /\ Whole'
  BY DEF Kept, Intact, Safe, Whole
<1>2. Hand(c)'
  BY DEF Hand, Pushing, TypeOK
<1>3. InHand'
  BY <1>1, <1>2, AllHands, OtherClones DEF Safe
<1>4. ASSUME NEW d \in Clone
      PROVE  \/ lock'[d] = lock[d]
             \/ lock'[d] = l /\ \A s \in Named(l) : Intact(s)
  <2>1. CASE lock' = lock
    BY <2>1
  <2>2. CASE lock' = [lock EXCEPT ![c] = l] /\ \A s \in Named(l) : Intact(s)
    <3>1. lock'[d] = IF d = c THEN l ELSE lock[d]
      BY <2>2 DEF TypeOK
    <3> QED
      BY <2>2, <3>1
  <2> QED
    BY <2>1, <2>2
<1>5. NamedIsStored'
  BY <1>4 DEF Safe, NamedIsStored, Intact
<1>6. \A d \in Clone : pc'[d] \in {"idle", pc[d]} /\ (pc'[d] = "gc" => job'[d] = job[d])
  BY DEF TypeOK
<1>7. Sweeping'
  <2>1. CASE lock' = lock
    BY <1>6, <2>1 DEF Safe, Sweeping, Pushing
  <2>2. CASE \A d \in Clone : pc[d] # "gc"
    BY <1>6, <2>2 DEF Sweeping
  <2> QED
    BY <2>1, <2>2
<1> QED
  BY <1>1, <1>3, <1>5, <1>7 DEF Safe

LEMMA DepartedNames ==
  ASSUME TypeOK, Safe, NEW c \in Clone, pc[c] = "scan"
  PROVE  \A s \in Named(Departures(c)) : Intact(s)
<1> SUFFICES ASSUME NEW p \in Path, Has(Departures(c), p)
             PROVE  Intact(Departures(c)[p].sha)
  BY DEF Named
<1>1. Hand(c)
  BY DEF Safe, InHand
<1>2. CASE job[c].scan[p] # None
  <2>1. Departures(c)[p] = job[c].new[p]
    BY <1>2 DEF Departures
  <2> QED
    BY <1>1, <2>1 DEF Hand, Pushing, Has
<1>3. CASE job[c].scan[p] = None
  <2>1. Has(lock[c], p) /\ Departures(c)[p] \in {lock[c][p], Tombstone(lock[c][p])}
    BY <1>3 DEF Departures, Has
  <2>2. lock[c][p] \in Entry
    BY <2>1 DEF TypeOK, Lock, Has
  <2>3. Tombstone(lock[c][p]).sha = lock[c][p].sha
    BY <2>2 DEF Tombstone, Entry
  <2>4. Intact(lock[c][p].sha)
    BY <2>1 DEF Safe, NamedIsStored, Named
  <2> QED
    BY <2>1, <2>3, <2>4
<1> QED
  BY <1>2, <1>3

LEMMA SafePush ==
  ASSUME TypeOK, ScanCovers, Safe, NEW c \in Clone, PushStep(c)
  PROVE  Safe'
<1> USE DEF Pushing, Seen
<1>1. ASSUME KeepEntry(c) PROVE Safe'
  <2>1. At(c) \in Path /\ Visits(c, "scan")
    BY <1>1, AtInPath DEF KeepEntry, Visits
  <2>2. Old(c) \in Entry /\ ~Old(c).deleted /\ Old(c).sha = New(c)
    BY <1>1, <2>1 DEF KeepEntry, Unchanged, Old, TypeOK, Lock
  <2>3. Intact(New(c))
    BY <1>1, <2>1, <2>2 DEF KeepEntry, Unchanged, Safe, NamedIsStored, Named, Has, Old
  <2> QED
    BY <1>1, <2>1, <2>2, <2>3, SafeRecorded DEF KeepEntry
<1>2. ASSUME CarryEntry(c) PROVE Safe'
  <2> DEFINE q == Least(RenameSources(c))
  <2>1. q \in Path /\ lock[c][q] \in Entry /\ Live(lock[c], q) /\ lock[c][q].sha = New(c)
    BY <1>2, CarriedEntry DEF CarryEntry
  <2>2. Visits(c, "scan") /\ Recorded(c, lock[c][q], {q}) /\ UNCHANGED <<objects, tree, lock, head>>
    BY <1>2 DEF CarryEntry
  <2> HIDE DEF q
  <2>3. Intact(New(c)) /\ ~lock[c][q].deleted
    BY <2>1 DEF Safe, NamedIsStored, Named, Live
  <2> QED
    BY <2>1, <2>2, <2>3, SafeRecorded
<1>3. ASSUME StatBlob(c) PROVE Safe'
  <2>1. CASE Stored(New(c))
    <3>1. Intact(New(c))
      BY <1>3, <2>1, SafeSeen DEF StatBlob
    <3>2. pc' = [pc EXCEPT ![c] = "record"]
      BY <1>3, <2>1 DEF StatBlob
    <3> QED
      BY <1>3, <3>1, <3>2, SafeMoved DEF StatBlob
  <2>2. CASE ~Stored(New(c))
    <3>1. pc' = [pc EXCEPT ![c] = "put"]
      BY <1>3, <2>2 DEF StatBlob
    <3> QED
      BY <1>3, <3>1, SafeMoved DEF StatBlob
  <2> QED
    BY <2>1, <2>2
<1>4. ASSUME PutBlob(c) PROVE Safe'
  BY <1>4, SafePut
<1>5. ASSUME VerifyPut(c) PROVE Safe'
  <2>1. Intact(New(c))
    BY <1>5, SafeSeen DEF VerifyPut
  <2> QED
    BY <1>5, <2>1, SafeMoved DEF VerifyPut
<1>6. ASSUME Visits(c, "record") \/ Visits(c, "unref") \/ Visits(c, "ref") PROVE Intact(New(c))
  BY <1>6 DEF Safe, InHand, Hand, Visits
<1>7. ASSUME RecordPlain(c) PROVE Safe'
  <2>1. NewEntry(c, {}) \in Entry /\ NewEntry(c, {}).sha = New(c) /\ ~NewEntry(c, {}).deleted
    BY <1>7, NewEntryType DEF RecordPlain
  <2> QED
    BY <1>6, <1>7, <2>1, SafeRecorded DEF RecordPlain
<1>8. ASSUME RefIsCurrent(c) PROVE Safe'
  <2> DEFINE e == NewEntry(c, refs[At(c)].all)
  <2>1. At(c) \in Path
    BY <1>8, AtInPath DEF RefIsCurrent, Visits
  <2>2. refs[At(c)].all \in SUBSET Sha
    BY <2>1 DEF TypeOK, Ref
  <2>3. e \in Entry /\ e.sha = New(c) /\ ~e.deleted
    BY <1>8, <2>2, NewEntryType DEF RefIsCurrent
  <2>4. Recorded(c, e, {}) /\ Visits(c, "record") /\ UNCHANGED <<objects, tree, lock, head>>
    BY <1>8 DEF RefIsCurrent
  <2> HIDE DEF e
  <2> QED
    BY <1>6, <2>3, <2>4, SafeRecorded
<1>9. ASSUME ReadRef(c) PROVE Safe'
  <2> DEFINE l == refs[At(c)].all \cup {New(c)}
  <2>1. At(c) \in job[c].todo /\ At(c) \in Path
    BY <1>9, AtInPath DEF ReadRef, Visits
  <2>2. l \in SUBSET Sha
    BY <2>1 DEF TypeOK, Ref, New, ScanCovers, Job
  <2>3. /\ job' = [job EXCEPT ![c] = WithList(job[c], l)] /\ pc' = [pc EXCEPT ![c] = "unref"]
        /\ Visits(c, "record") /\ UNCHANGED <<objects, tree, lock, head>>
    BY <1>9 DEF ReadRef, TypeOK
  <2> HIDE DEF l
  <2> QED
    BY <1>6, <2>2, <2>3, SafeMoved
<1>10. ASSUME DeleteRef(c) PROVE Safe'
  BY <1>6, <1>10, SafeMoved DEF DeleteRef
<1>11. ASSUME PutRef(c) PROVE Safe'
  <2>1. job[c].list \in SUBSET Sha
    BY DEF TypeOK, Job
  <2> DEFINE e == NewEntry(c, job[c].list)
  <2>2. e \in Entry /\ e.sha = New(c) /\ ~e.deleted
    BY <1>11, <2>1, NewEntryType DEF PutRef
  <2>3. Recorded(c, e, {}) /\ Visits(c, "ref") /\ UNCHANGED <<objects, tree, lock, head>>
    BY <1>11 DEF PutRef
  <2> HIDE DEF e
  <2> QED
    BY <1>6, <2>2, <2>3, SafeRecorded
<1>12. ASSUME FinishPush(c) PROVE Safe'
  <2>1. /\ pc' = [pc EXCEPT ![c] = "idle"] /\ job' = [job EXCEPT ![c] = NoJob]
        /\ lock' = [lock EXCEPT ![c] = Departures(c)]
        /\ UNCHANGED <<objects, tree, head>> /\ pc[c] = "scan"
    BY <1>12 DEF FinishPush
  <2>2. \A d \in Clone : pc[d] # "gc"
    BY <2>1 DEF Safe, Sweeping
  <2>3. \A s \in Named(Departures(c)) : Intact(s)
    BY <2>1, DepartedNames
  <2> DEFINE l == Departures(c)
             j == NoJob
  <2>4. lock' = [lock EXCEPT ![c] = l] /\ \A s \in Named(l) : Intact(s)
    BY <2>1, <2>3
  <2>5. job' = [job EXCEPT ![c] = j] /\ pc' = [pc EXCEPT ![c] = "idle"]
    BY <2>1
  <2>6. UNCHANGED <<objects, tree, head>>
    BY <2>1
  <2> HIDE DEF l, j
  <2> QED
    BY <2>2, <2>4, <2>5, <2>6, SafeEnd
<1> QED
  BY <1>1, <1>2, <1>3, <1>4, <1>5, <1>7, <1>8, <1>9, <1>10, <1>11, <1>12 DEF PushStep

LEMMA SafeGc ==
  ASSUME GcAlone, TypeOK, ScanCovers, Safe, NEW c \in Clone, Gc(c) \/ Abandon(c)
  PROVE  Safe'
<1>1. ASSUME Abandon(c) PROVE Safe'
  <2> DEFINE j == NoJob
  <2>1. /\ pc' = [pc EXCEPT ![c] = "idle"] /\ job' = [job EXCEPT ![c] = j]
        /\ UNCHANGED <<objects, tree, head, lock>>
    BY <1>1 DEF Abandon
  <2> HIDE DEF j
  <2> QED
    BY <2>1, SafeEnd
<1>2. ASSUME GcStart(c) PROVE Safe'
  <2> DEFINE l == PlanSweep(c)
  <2>1. /\ pc' = [pc EXCEPT ![c] = "gc"] /\ job' = [job EXCEPT ![c] = WithList(NoJob, l)]
        /\ UNCHANGED <<objects, tree, lock, head>>
    BY <1>2 DEF GcStart
  <2>2. \A d \in Clone : pc[d] = "idle" /\ lock[d] = head[d].lock
    BY <1>2 DEF GcStart, Quiet, Idle
  <2>3. l \in SUBSET Sha /\ \A d \in Clone : l \cap ReferencedSHAs(head[d].lock) = {}
    BY DEF PlanSweep, Keep, Branches
  <2>4. WithList(NoJob, l).list = l
    BY <2>3, NoJobType, ListType
  <2> HIDE DEF l
  <2>5. \A d \in Clone : pc'[d] \in {"idle", "gc"}
    BY <2>1, <2>2 DEF TypeOK
  <2>6. \A d \in Clone : pc'[d] = "gc" => job'[d].list = l
    BY <2>1, <2>2, <2>4 DEF TypeOK
  <2>7. Sweeping'
    BY <2>1, <2>2, <2>3, <2>5, <2>6 DEF Sweeping, Pushing
  <2>8. InHand'
    BY <2>5 DEF InHand, Hand, Pushing
  <2>9. Whole' /\ NamedIsStored'
    BY <2>1, SameLocks DEF Safe, Whole
  <2> QED
    BY <2>7, <2>8, <2>9 DEF Safe
<1>3. ASSUME GcDelete(c) PROVE Safe'
  <2> DEFINE s == Least(job[c].list)
             l == job[c].list \ {s}
  <2>1. job[c] \in Job /\ job[c].list \in SUBSET Sha /\ job[c].list \in SUBSET Nat
    BY LockAssumption DEF TypeOK, Job
  <2>2. s \in job[c].list
    BY <1>3, <2>1, LeastIn DEF GcDelete
  <2>3. /\ objects' = [objects EXCEPT ![s] = None]
        /\ job' = [job EXCEPT ![c] = WithList(job[c], l)]
        /\ UNCHANGED <<tree, lock, head, pc>> /\ pc[c] = "gc"
    BY <1>3 DEF GcDelete, TypeOK
  <2>4. WithList(job[c], l).list = l
    BY <2>1, ListType
  <2>5. \A d \in Clone : pc[d] \notin Pushing
    BY <2>3 DEF Safe, Sweeping
  <2>6. \A d \in Clone : s \notin ReferencedSHAs(lock[d]) \cup ReferencedSHAs(head[d].lock)
    BY <2>2, <2>3 DEF Safe, Sweeping
  <2>7. l \subseteq job[c].list
    OBVIOUS
  <2> HIDE DEF s, l
  <2>8. Whole'
    BY <2>2, <2>3 DEF Safe, Whole, TypeOK
  <2>9. NamedIsStored'
    <3>1. ASSUME NEW d \in Clone, NEW x \in Named(lock[d]) \cup Named(head[d].lock)
          PROVE  objects'[x] = x
      <4>1. x \in Sha /\ x # s
        BY <2>6, LocksAre, NamedReferenced
      <4>2. objects[x] = x
        BY DEF Safe, NamedIsStored, Intact
      <4> QED
        BY <2>3, <4>1, <4>2 DEF TypeOK
    <3> QED
      BY <2>3, <3>1 DEF NamedIsStored, Intact
  <2>10. \A d \in Clone : job'[d].list \subseteq job[d].list
    BY <2>3, <2>4, <2>7 DEF TypeOK
  <2>11. Sweeping'
    BY <2>3, <2>10 DEF Safe, Sweeping
  <2>12. InHand'
    BY <2>3, <2>5 DEF InHand, Hand
  <2> QED
    BY <2>8, <2>9, <2>11, <2>12 DEF Safe
<1>4. ASSUME GcFinish(c) PROVE Safe'
  <2> DEFINE j == job[c]
  <2>1. /\ pc' = [pc EXCEPT ![c] = "idle"] /\ job' = [job EXCEPT ![c] = j]
        /\ UNCHANGED <<objects, tree, head, lock>>
    BY <1>4 DEF GcFinish, TypeOK
  <2> HIDE DEF j
  <2> QED
    BY <2>1, SafeEnd
<1> QED
  BY <1>1, <1>2, <1>3, <1>4 DEF Gc

LEMMA SafeUser ==
  ASSUME Still, TypeOK, ScanCovers, Safe, NEW c \in Clone, User(c)
  PROVE  Safe'
<1>1. UNCHANGED <<objects, pc, job>> /\ pc[c] = "idle"
  BY UserFiles
<1>2. \A d \in Clone : d # c => tree'[d] = tree[d]
  BY UserFiles
<1>3. NamedIsStored' /\ OnRecord' \subseteq OnRecord
  BY UserLocks DEF Safe
<1>4. Kept /\ Whole'
  BY <1>1 DEF Kept, Intact, Safe, Whole
<1>5. Hand(c)'
  BY <1>1 DEF Hand, Pushing
<1>6. InHand'
  BY <1>1, <1>2, <1>4, <1>5, AllHands DEF Safe
<1>7. Sweeping'
  <2>1. ASSUME NEW d \in Clone, pc[d] = "gc"
        PROVE  job[d].list \cap OnRecord' = {}
    <3>1. job[d].list \cap OnRecord = {}
      BY <2>1 DEF Safe, Sweeping, OnRecord
    <3> QED
      BY <1>3, <3>1
  <2> QED
    BY <1>1, <2>1 DEF Safe, Sweeping, OnRecord
<1> QED
  BY <1>3, <1>4, <1>6, <1>7 DEF Safe

LEMMA SafeInit == Init => Safe
<1> SUFFICES ASSUME Init PROVE Safe
  OBVIOUS
<1>1. Whole
  BY DEF Init, Whole
<1>2. Named(EmptyLock) = {}
  BY DEF Named, Has, EmptyLock
<1>3. \A c \in Clone : lock[c] = EmptyLock /\ head[c].lock = EmptyLock /\ pc[c] = "idle"
  BY DEF Init
<1> QED
  BY <1>1, <1>2, <1>3 DEF Safe, NamedIsStored, InHand, Hand, Sweeping, Pushing

LEMMA RepoStep ==
  ASSUME GcAlone, Still
  PROVE  RepoInv /\ [Next]_vars => RepoInv'
<1> SUFFICES ASSUME RepoInv, [Next]_vars PROVE RepoInv'
  OBVIOUS
<1>1. TypeOK' /\ ScanCovers'
  BY RepoTypeStep DEF RepoInv
<1>2. Safe'
  <2>1. ASSUME NEW c \in Clone, User(c) PROVE Safe'
    BY <2>1, SafeUser DEF RepoInv
  <2>2. ASSUME NEW c \in Clone, PushStart(c) PROVE Safe'
    BY <2>2, SafeStart DEF RepoInv
  <2>3. ASSUME NEW c \in Clone, PushStep(c) PROVE Safe'
    BY <2>3, SafePush DEF RepoInv
  <2>4. ASSUME NEW c \in Clone, Gc(c) \/ Abandon(c) PROVE Safe'
    BY <2>4, SafeGc DEF RepoInv
  <2>5. CASE UNCHANGED vars
    BY <2>5 DEF vars, RepoInv, Safe, Whole, NamedIsStored, Intact, InHand, Hand, Sweeping, New, At
  <2> QED
    BY <2>1, <2>2, <2>3, <2>4, <2>5 DEF Next
<1> QED
  BY <1>1, <1>2 DEF RepoInv

LEMMA RepoSafe ==
  ASSUME GcAlone, Still
  PROVE  Spec => []RepoInv
<1>1. Init => RepoInv
  BY RepoInit, SafeInit DEF RepoInv
<1>2. RepoInv /\ [Next]_vars => RepoInv'
  BY RepoStep
<1> QED
  BY <1>1, <1>2, PTL DEF Spec

(* The repository never gets ahead of storage: whatever any clone's lock   *)
(* names is stored, if gc runs alone and files stay as they are while they *)
(* are pushed (the order of uploads and the write of the lock in push.Run, *)
(* the keep-set of gc, and the merge driver).                              *)
THEOREM NamedIsStoredHolds ==
  ASSUME GcAlone, Still
  PROVE  Spec => []NamedIsStored
<1>1. RepoInv => NamedIsStored
  BY DEF RepoInv, Safe
<1> QED
  BY <1>1, RepoSafe, PTL

(* Branches merge to the same, whichever way round.                        *)
THEOREM MergesAgreeHolds == Spec => []MergesAgree
<1>1. TypeOK => MergesAgree
  BY LocksAre, MergeIsSymmetric DEF MergesAgree
<1> QED
  BY <1>1, RepoTypeCorrect, PTL

(* A push that says it is done has every file on record and stored.        *)
THEOREM GreenPushHolds ==
  ASSUME GcAlone, Still
  PROVE  Spec => GreenPush
<1> DEFINE Green == \A c \in Clone : FinishPush(c) =>
                     \A p \in Path : tree[c][p] # NoFile =>
                       /\ Live(lock'[c], p) /\ lock'[c][p].sha = tree[c][p].sha
                       /\ Intact(tree[c][p].sha)
<1>1. RepoInv => [Green]_vars
  <2> SUFFICES ASSUME RepoInv, NEW c \in Clone, FinishPush(c), NEW p \in Path, tree[c][p] # NoFile
               PROVE  /\ Live(lock'[c], p) /\ lock'[c][p].sha = tree[c][p].sha
                      /\ Intact(tree[c][p].sha)
    OBVIOUS
  <2>1. TypeOK /\ Hand(c) /\ pc[c] = "scan" /\ job[c].todo = {}
    BY DEF RepoInv, Safe, InHand, FinishPush
  <2>2. /\ Live(job[c].new, p) /\ job[c].new[p].sha = tree[c][p].sha
        /\ Intact(job[c].new[p].sha) /\ job[c].scan[p] = Shas(tree[c])[p]
    BY <2>1 DEF Hand, Pushing, Live
  <2>3. job[c].scan[p] # None
    BY <2>1, <2>2, ScannedShas
  <2>4. lock'[c] = Departures(c)
    BY <2>1 DEF FinishPush, TypeOK
  <2>5. lock'[c][p] = job[c].new[p]
    BY <2>3, <2>4 DEF Departures
  <2> QED
    BY <2>2, <2>5 DEF Live, Has
<1>2. []RepoInv /\ [][Next]_vars => [][Green]_vars
  BY <1>1, PTL
<1> QED
  BY <1>2, RepoSafe, PTL DEF Spec, GreenPush

-----------------------------------------------------------------------------
(* What a push forgets *)

(* The tree is as a push scanned it, and the content of every path it took *)
(* for the source of a move is on record under the path it moved to.       *)
Carries(c) ==
  pc[c] \in Pushing =>
    /\ job[c].scan = Shas(tree[c])
    /\ \A q \in job[c].handled :
         \E r \in Path \ job[c].todo :
           /\ job[c].scan[r] # None
           /\ Has(job[c].new, r) /\ job[c].new[r].sha = lock[c][q].sha

CarryInv == TypeOK /\ ScanCovers /\ \A c \in Clone : Carries(c)

LEMMA CarryStart ==
  ASSUME TypeOK, NEW c \in Clone, PushStart(c)
  PROVE  Carries(c)'
<1> DEFINE j == [NoJob EXCEPT !.scan = Shas(tree[c]), !.at = Clock[pushes + 1],
                              !.todo = {p \in Path : tree[c][p] # NoFile}]
<1>1. job' = [job EXCEPT ![c] = j] /\ UNCHANGED tree
  BY DEF PushStart
<1>2. j.scan = Shas(tree[c]) /\ j.handled = {}
  BY DEF NoJob
<1> HIDE DEF j
<1>3. job'[c] = j
  BY <1>1 DEF TypeOK
<1> QED
  BY <1>1, <1>2, <1>3 DEF Carries

(* An entry goes on record, with h for the source of a move if there is one. *)
LEMMA CarryRecorded ==
  ASSUME TypeOK, ScanCovers, NEW c \in Clone, Carries(c), NEW ph \in Pushing, Visits(c, ph),
         NEW e \in Entry, NEW h \in SUBSET Path, \A q \in h : lock[c][q].sha = e.sha,
         Recorded(c, e, h), UNCHANGED <<tree, lock>>
  PROVE  Carries(c)'
<1>1. At(c) \in job[c].todo /\ At(c) \in Path
  BY AtInPath DEF Visits
<1>2. job[c] \in Job /\ job[c].new \in Lock
  BY DEF TypeOK, Job
<1> DEFINE p == At(c)
           j == Visited(job[c], p, e, h)
<1>3. /\ j.scan = job[c].scan /\ j.todo = job[c].todo \ {p}
      /\ j.new = [job[c].new EXCEPT ![p] = e]
  BY <1>1, <1>2, VisitedType
<1>4. j.handled = job[c].handled \cup h
  BY <1>2 DEF Visited, Job
<1>5. job' = [job EXCEPT ![c] = j]
  BY DEF Recorded
<1> HIDE DEF j
<1>6. job'[c] = j
  BY <1>5 DEF TypeOK
<1>7. \A r \in Path : j.new[r] = IF r = p THEN e ELSE job[c].new[r]
  BY <1>1, <1>2, <1>3 DEF Lock
<1>8. ASSUME NEW q \in j.handled
      PROVE  \E r \in Path \ j.todo : /\ j.scan[r] # None /\ Has(j.new, r)
                                      /\ j.new[r].sha = lock[c][q].sha
  <2>1. CASE q \in h
    <3>1. Has(j.new, p) /\ j.new[p].sha = lock[c][q].sha
      BY <1>1, <1>7, <2>1, NoneIsNoSha DEF Has
    <3>2. p \in Path \ j.todo /\ j.scan[p] # None
      BY <1>1, <1>3 DEF ScanCovers
    <3> QED
      BY <3>1, <3>2
  <2>2. CASE q \in job[c].handled
    <3>1. PICK r \in Path \ job[c].todo :
            /\ job[c].scan[r] # None
            /\ Has(job[c].new, r) /\ job[c].new[r].sha = lock[c][q].sha
      BY <2>2 DEF Carries, Visits
    <3>2. r # p
      BY <1>1, <3>1
    <3>3. r \in Path \ j.todo /\ j.scan[r] # None
      BY <1>3, <3>1
    <3>4. Has(j.new, r) /\ j.new[r].sha = lock[c][q].sha
      BY <1>7, <3>1, <3>2 DEF Has
    <3> QED
      BY <3>3, <3>4
  <2> QED
    BY <1>4, <2>1, <2>2
<1>9. j.scan = Shas(tree[c])
  BY <1>3 DEF Carries, Visits
<1> QED
  BY <1>6, <1>8, <1>9 DEF Carries

(* A step of a push that records nothing, at most the versions it read. *)
LEMMA CarryMoved ==
  ASSUME TypeOK, NEW c \in Clone, Carries(c), pc[c] \in Pushing, NEW l \in SUBSET Sha,
         job' \in {job, [job EXCEPT ![c] = WithList(job[c], l)]}, UNCHANGED <<tree, lock>>
  PROVE  Carries(c)'
<1>1. /\ job'[c].scan = job[c].scan /\ job'[c].todo = job[c].todo
      /\ job'[c].new = job[c].new /\ job'[c].handled = job[c].handled
  <2>1. CASE job' = job
    BY <2>1
  <2>2. CASE job' = [job EXCEPT ![c] = WithList(job[c], l)]
    <3>1. WithList(job[c], l).handled = job[c].handled
      BY DEF WithList, TypeOK, Job
    <3> QED
      BY <2>2, <3>1, ListType DEF TypeOK
  <2> QED
    BY <2>1, <2>2
<1> QED
  BY <1>1 DEF Carries, Has

LEMMA CarryPush ==
  ASSUME TypeOK, ScanCovers, NEW c \in Clone, Carries(c), PushStep(c)
  PROVE  Carries(c)'
<1> USE DEF Pushing
<1>1. ASSUME KeepEntry(c) PROVE Carries(c)'
  <2>1. At(c) \in Path
    BY <1>1, AtInPath DEF KeepEntry, Visits
  <2>2. Old(c) \in Entry
    BY <1>1, <2>1 DEF KeepEntry, Unchanged, Old, TypeOK, Lock
  <2> QED
    BY <1>1, <2>2, CarryRecorded DEF KeepEntry
<1>2. ASSUME CarryEntry(c) PROVE Carries(c)'
  <2> DEFINE q == Least(RenameSources(c))
  <2>1. q \in Path /\ lock[c][q] \in Entry
    BY <1>2, CarriedEntry DEF CarryEntry
  <2>2. Visits(c, "scan") /\ Recorded(c, lock[c][q], {q}) /\ UNCHANGED <<tree, lock>>
    BY <1>2 DEF CarryEntry
  <2> HIDE DEF q
  <2> QED
    BY <2>1, <2>2, CarryRecorded
<1>3. ASSUME StatBlob(c) \/ PutBlob(c) \/ VerifyPut(c) \/ DeleteRef(c) PROVE Carries(c)'
  <2>1. pc[c] \in Pushing /\ UNCHANGED <<job, tree, lock>>
    BY <1>3 DEF StatBlob, PutBlob, VerifyPut, DeleteRef, Visits
  <2> QED
    BY <2>1, CarryMoved
<1>4. ASSUME RecordPlain(c) PROVE Carries(c)'
  <2>1. NewEntry(c, {}) \in Entry
    BY <1>4, NewEntryType DEF RecordPlain
  <2> QED
    BY <1>4, <2>1, CarryRecorded DEF RecordPlain
<1>5. ASSUME RefIsCurrent(c) PROVE Carries(c)'
  <2> DEFINE e == NewEntry(c, refs[At(c)].all)
  <2>1. At(c) \in Path
    BY <1>5, AtInPath DEF RefIsCurrent, Visits
  <2>2. refs[At(c)].all \in SUBSET Sha
    BY <2>1 DEF TypeOK, Ref
  <2>3. e \in Entry
    BY <1>5, <2>2, NewEntryType DEF RefIsCurrent
  <2>4. Recorded(c, e, {}) /\ Visits(c, "record") /\ UNCHANGED <<tree, lock>>
    BY <1>5 DEF RefIsCurrent
  <2> HIDE DEF e
  <2> QED
    BY <2>3, <2>4, CarryRecorded
<1>6. ASSUME ReadRef(c) PROVE Carries(c)'
  <2> DEFINE l == refs[At(c)].all \cup {New(c)}
  <2>1. At(c) \in job[c].todo /\ At(c) \in Path
    BY <1>6, AtInPath DEF ReadRef, Visits
  <2>2. l \in SUBSET Sha
    BY <2>1 DEF TypeOK, Ref, New, ScanCovers, Job
  <2>3. job' = [job EXCEPT ![c] = WithList(job[c], l)] /\ pc[c] \in Pushing /\ UNCHANGED <<tree, lock>>
    BY <1>6 DEF ReadRef, Visits
  <2> HIDE DEF l
  <2> QED
    BY <2>2, <2>3, CarryMoved
<1>7. ASSUME PutRef(c) PROVE Carries(c)'
  <2> DEFINE e == NewEntry(c, job[c].list)
  <2>1. job[c].list \in SUBSET Sha
    BY DEF TypeOK, Job
  <2>2. e \in Entry
    BY <1>7, <2>1, NewEntryType DEF PutRef
  <2>3. Recorded(c, e, {}) /\ Visits(c, "ref") /\ UNCHANGED <<tree, lock>>
    BY <1>7 DEF PutRef
  <2> HIDE DEF e
  <2> QED
    BY <2>2, <2>3, CarryRecorded
<1>8. ASSUME FinishPush(c) PROVE Carries(c)'
  <2>1. pc'[c] = "idle"
    BY <1>8 DEF FinishPush, TypeOK
  <2> QED
    BY <2>1 DEF Carries
<1> QED
  BY <1>1, <1>2, <1>3, <1>4, <1>5, <1>6, <1>7, <1>8 DEF PushStep

(* A command of one clone changes no other's files, lock or command. *)
LEMMA OthersAlone ==
  ASSUME TypeOK, NEW c \in Clone,
         User(c) \/ PushStart(c) \/ PushStep(c) \/ Abandon(c) \/ Gc(c),
         NEW d \in Clone, d # c
  PROVE  tree'[d] = tree[d] /\ lock'[d] = lock[d] /\ pc'[d] = pc[d] /\ job'[d] = job[d]
<1>1. CASE User(c)
  BY <1>1 DEF User, Remove, Smudge, Pull, Edit, Revert, Move, GitMerge, Checkout, CommitAll,
              TakeCommit, Fetch, TypeOK
<1>2. CASE PushStart(c) \/ Abandon(c)
  BY <1>2 DEF PushStart, Abandon, TypeOK
<1>3. CASE PushStep(c)
  BY <1>3 DEF PushStep, KeepEntry, CarryEntry, StatBlob, PutBlob, VerifyPut, RecordPlain,
              RefIsCurrent, ReadRef, DeleteRef, PutRef, FinishPush, Recorded, TypeOK
<1>4. CASE Gc(c)
  BY <1>4 DEF Gc, GcStart, GcDelete, GcFinish, TypeOK
<1> QED
  BY <1>1, <1>2, <1>3, <1>4

LEMMA CarryStep ==
  ASSUME Still
  PROVE  CarryInv /\ [Next]_vars => CarryInv'
<1> SUFFICES ASSUME CarryInv, [Next]_vars PROVE CarryInv'
  OBVIOUS
<1>1. TypeOK' /\ ScanCovers'
  BY RepoTypeStep DEF CarryInv
<1>2. CASE Next
  <2>1. PICK c \in Clone : User(c) \/ PushStart(c) \/ PushStep(c) \/ Abandon(c) \/ Gc(c)
    BY <1>2 DEF Next
  <2>2. ASSUME NEW d \in Clone, d # c PROVE Carries(d)'
    <3>1. tree'[d] = tree[d] /\ lock'[d] = lock[d] /\ pc'[d] = pc[d] /\ job'[d] = job[d]
      BY <2>1, <2>2, OthersAlone DEF CarryInv
    <3> QED
      BY <3>1 DEF CarryInv, Carries, Has
  <2>3. CASE User(c)
    <3>1. pc'[c] = "idle"
      BY <2>3, UserFiles DEF CarryInv
    <3> QED
      BY <1>1, <2>2, <3>1 DEF CarryInv, Carries, Pushing
  <2>4. CASE PushStart(c)
    BY <1>1, <2>2, <2>4, CarryStart DEF CarryInv
  <2>5. CASE PushStep(c)
    BY <1>1, <2>2, <2>5, CarryPush DEF CarryInv
  <2>6. CASE Abandon(c) \/ Gc(c)
    <3>1. pc'[c] \notin Pushing
      BY <2>6 DEF Abandon, Gc, GcStart, GcDelete, GcFinish, CarryInv, TypeOK, Pushing
    <3> QED
      BY <1>1, <2>2, <3>1 DEF CarryInv, Carries
  <2> QED
    BY <2>1, <2>3, <2>4, <2>5, <2>6
<1>3. CASE UNCHANGED vars
  BY <1>1, <1>3 DEF CarryInv, Carries, Has, vars
<1> QED
  BY <1>2, <1>3

LEMMA CarrySafe ==
  ASSUME Still
  PROVE  Spec => []CarryInv
<1>1. Init => CarryInv
  BY RepoInit DEF Init, CarryInv, Carries, Pushing
<1>2. CarryInv /\ [Next]_vars => CarryInv'
  BY CarryStep
<1> QED
  BY <1>1, <1>2, PTL DEF Spec

(* A push forgets a content only when its file has other content, or was   *)
(* removed with auto_delete and is not preserved, if files stay as they    *)
(* are while they are pushed; gc may run at any time (what push.Run does   *)
(* with renames and with the entries of files that are gone).              *)
THEOREM ForgetsNoPreservedHolds ==
  ASSUME Still
  PROVE  Spec => ForgetsNoPreserved
<1> DEFINE Forgets == \A c \in Clone : FinishPush(c) =>
                        \A p \in Path : Has(lock[c], p) /\ lock[c][p].sha \notin Named(lock'[c]) =>
                          \/ tree[c][p] # NoFile
                          \/ AutoDelete /\ ~lock[c][p].preserve /\ ~lock[c][p].deleted
<1>1. CarryInv => [Forgets]_vars
  <2> SUFFICES ASSUME CarryInv, NEW c \in Clone, FinishPush(c), NEW p \in Path, Has(lock[c], p),
                      tree[c][p] = NoFile,
                      ~(AutoDelete /\ ~lock[c][p].preserve /\ ~lock[c][p].deleted)
               PROVE  lock[c][p].sha \in Named(lock'[c])
    OBVIOUS
  <2>1. TypeOK /\ Carries(c) /\ pc[c] = "scan"
    BY DEF CarryInv, FinishPush
  <2>2. lock'[c] = Departures(c)
    BY <2>1 DEF FinishPush, TypeOK
  <2>3. job[c].scan[p] = None
    BY <2>1, ScannedShas DEF Carries, Pushing
  <2>4. CASE p \in job[c].handled
    <3>1. PICK r \in Path : /\ job[c].scan[r] # None
                            /\ Has(job[c].new, r) /\ job[c].new[r].sha = lock[c][p].sha
      BY <2>1, <2>4 DEF Carries, Pushing
    <3>2. lock'[c][r] = job[c].new[r]
      BY <2>2, <3>1 DEF Departures
    <3> QED
      BY <3>1, <3>2 DEF Named, Has
  <2>5. CASE p \notin job[c].handled
    <3>1. lock'[c][p] \in {lock[c][p], Tombstone(lock[c][p])}
      BY <2>2, <2>3, <2>5 DEF Departures
    <3>2. lock[c][p] \in Entry
      BY <2>1 DEF TypeOK, Lock, Has
    <3>3. Tombstone(lock[c][p]).sha = lock[c][p].sha /\ Tombstone(lock[c][p]) \in Entry
      BY <3>2 DEF Tombstone, Entry
    <3>4. Has(lock'[c], p) /\ lock'[c][p].sha = lock[c][p].sha
      BY <3>1, <3>2, <3>3, NoneIsNoSha DEF Has
    <3> QED
      BY <3>4 DEF Named
  <2> QED
    BY <2>4, <2>5
<1>2. []CarryInv /\ [][Next]_vars => [][Forgets]_vars
  BY <1>1, PTL
<1> QED
  BY <1>2, CarrySafe, PTL DEF Spec, ForgetsNoPreserved
=============================================================================
