------------------------------- MODULE RepoSync -------------------------------
(***************************************************************************)
(* A git repository whose large files live in a vault: several clones,     *)
(* each with its working tree, its working tailvault.lock and its branch,  *)
(* and the node that stores objects/<sha> and refs/<path>.  The commands   *)
(* push, pull, revert and (plain) gc, the clean and smudge filters, and    *)
(* what git and the user do in between: edits, commits, merges, checkouts. *)
(*                                                                         *)
(* Every backend call of a push and of a gc is a step of its own, and both *)
(* may end at any step, by a crash or by an error of the call: that they   *)
(* leave everything done so far behind is the point.                       *)
(***************************************************************************)
EXTENDS LockFile

CONSTANTS Clone,
          HistoryOn, Preserved,  \* the paths the rules give history, preserve
          AutoDelete,            \* rules.auto_delete
          MaxEdits, MaxPushes,   \* bounds: changes of files, pushes begun
          Clock,    \* what the n-th push reads for the time; clocks of
                    \* machines differ, so in no order
          GcAlone,  \* is gc run when no push is under way and every lock is
                    \* committed, in a clone that has every branch?
          Still     \* are files left alone while a push runs?

ASSUME RepoAssumption ==
  /\ HistoryOn \subseteq Path /\ Preserved \subseteq Path
  /\ AutoDelete \in BOOLEAN /\ GcAlone \in BOOLEAN /\ Still \in BOOLEAN
  /\ MaxEdits \in Nat /\ MaxPushes \in Nat
  /\ Clock \in [1 .. MaxPushes -> Time]

(* A file of a working tree: its bytes, or a pointer to them. *)
File    == [sha: Sha, ptr: BOOLEAN]
NoFile  == [sha |-> None, ptr |-> FALSE]
Bytes(s)   == [sha |-> s, ptr |-> FALSE]
Pointer(s) == [sha |-> s, ptr |-> TRUE]

(* A commit: its lock, and the content its pointers name. *)
Commit == [lock: Lock, files: [Path -> Sha \cup {None}]]

(* refs/<path>: the newest version pushed, and all of them. *)
Ref   == [head: Sha \cup {None}, all: SUBSET Sha]
NoRef == [head |-> None, all |-> {}]

Phase == {"idle", "scan", "put", "verify", "record", "unref", "ref", "gc"}

(* What a command has in memory:                                           *)
(*   scan     the tree as a push scanned it                                *)
(*   at       its pushed_at                                                *)
(*   todo     the paths it has still to visit                              *)
(*   new      the entries it will write                                    *)
(*   handled  the old paths it took for the source of a move               *)
(*   list     the versions it read; the shas a gc will delete              *)
Job == [scan: [Path -> Sha \cup {None}], at: Time \cup {None}, todo: SUBSET Path,
        new: Lock, handled: SUBSET Path, list: SUBSET Sha]

VARIABLES
  objects,  \* objects/<sha>: the content stored under it, or None
  refs,
  tree,     \* the working trees
  lock,     \* the working tailvault.lock of each clone
  head,     \* the commit at the tip of each clone's branch
  pc, job,  \* where each clone's command is, and what it has in memory
  edits, pushes

vars == <<objects, refs, tree, lock, head, pc, job, edits, pushes>>

NoFiles == [p \in Path |-> None]
NoJob   == [scan |-> NoFiles, at |-> None, todo |-> {}, new |-> EmptyLock,
            handled |-> {}, list |-> {}]

Init ==
  /\ objects = [s \in Sha |-> None]
  /\ refs = [p \in Path |-> NoRef]
  /\ tree = [c \in Clone |-> [p \in Path |-> NoFile]]
  /\ lock = [c \in Clone |-> EmptyLock]
  /\ head = [c \in Clone |-> [lock |-> EmptyLock, files |-> NoFiles]]
  /\ pc = [c \in Clone |-> "idle"]
  /\ job = [c \in Clone |-> NoJob]
  /\ edits = 0 /\ pushes = 0

Stored(s) == objects[s] # None     \* what Stat can tell
Intact(s) == objects[s] = s        \* what a verified Get can tell

(* The content of each managed file; that of a pointer is what it points   *)
(* to (ManagedFiles, ScanTree).                                            *)
Shas(t) == [p \in Path |-> t[p].sha]

Least(S) == CHOOSE x \in S : \A y \in S : x <= y

Idle(c) == pc[c] = "idle"

-----------------------------------------------------------------------------
(* The user and git. *)

Edit(c, p, s) ==
  /\ edits < MaxEdits /\ (Still => Idle(c))
  /\ tree[c][p] # Bytes(s)
  /\ tree' = [tree EXCEPT ![c][p] = Bytes(s)]
  /\ edits' = edits + 1
  /\ UNCHANGED <<objects, refs, lock, head, pc, job, pushes>>

Remove(c, p) ==
  /\ edits < MaxEdits /\ (Still => Idle(c))
  /\ tree[c][p] # NoFile
  /\ tree' = [tree EXCEPT ![c][p] = NoFile]
  /\ edits' = edits + 1
  /\ UNCHANGED <<objects, refs, lock, head, pc, job, pushes>>

Move(c, p, q) ==
  /\ edits < MaxEdits /\ (Still => Idle(c))
  /\ p # q /\ tree[c][p] # NoFile
  /\ tree' = [tree EXCEPT ![c][p] = NoFile, ![c][q] = tree[c][p]]
  /\ edits' = edits + 1
  /\ UNCHANGED <<objects, refs, lock, head, pc, job, pushes>>

(* git commit of the whole tree; the clean filter commits pointers. *)
CommitAll(c) ==
  LET k == [lock |-> lock[c], files |-> Shas(tree[c])]
  IN  /\ Idle(c) /\ k # head[c]
      /\ head' = [head EXCEPT ![c] = k]
      /\ UNCHANGED <<objects, refs, tree, lock, pc, job, edits, pushes>>

Clean(c) == lock[c] = head[c].lock /\ Shas(tree[c]) = head[c].files

(* Files git changes come as pointers, until the smudge filter or the      *)
(* post-merge hook's pull replaces them.                                   *)
CheckedOut(t, files) ==
  [p \in Path |-> IF files[p] = t[p].sha THEN t[p]
                  ELSE IF files[p] = None THEN NoFile ELSE Pointer(files[p])]

TakeCommit(c, k) ==
  /\ head' = [head EXCEPT ![c] = k]
  /\ lock' = [lock EXCEPT ![c] = k.lock]
  /\ tree' = [tree EXCEPT ![c] = CheckedOut(tree[c], k.files)]
  /\ UNCHANGED <<objects, refs, pc, job, edits, pushes>>

(* git merge of d's branch, both having changed the lock: the driver       *)
(* merges the locks, git or the user picks a side for each file.           *)
GitMerge(c, d) ==
  /\ Idle(c) /\ Clean(c) /\ head[c] # head[d]
  /\ \E theirs \in SUBSET {p \in Path : head[c].files[p] # head[d].files[p]} :
       LET k == [lock  |-> Merge(head[c].lock, head[d].lock),
                 files |-> [p \in Path |-> IF p \in theirs THEN head[d].files[p]
                                           ELSE head[c].files[p]]]
       IN  k # head[c] /\ TakeCommit(c, k)

(* A checkout of d's commit, or a merge that is a fast-forward to it. *)
Checkout(c, d) ==
  /\ Idle(c) /\ Clean(c) /\ head[c] # head[d]
  /\ TakeCommit(c, head[d])

-----------------------------------------------------------------------------
(* From the vault into the tree. *)

Fetch(c, p, s) ==
  /\ Intact(s)
  /\ tree' = [tree EXCEPT ![c][p] = Bytes(s)]

(* The smudge filter, given a pointer. *)
Smudge(c, p) ==
  /\ Idle(c) /\ tree[c][p].ptr /\ Fetch(c, p, tree[c][p].sha)
  /\ UNCHANGED <<objects, refs, lock, head, pc, job, edits, pushes>>

(* pull takes the entries in order and ends at the first it cannot fetch;  *)
(* one step fetches one entry.                                             *)
Correct(c, p) == tree[c][p] = Bytes(lock[c][p].sha)

Pull(c, p) ==
  /\ Idle(c) /\ Live(lock[c], p) /\ ~Correct(c, p)
  /\ \A q \in Path : q < p /\ Live(lock[c], q) => Correct(c, q)
  /\ Fetch(c, p, lock[c][p].sha)
  /\ UNCHANGED <<objects, refs, lock, head, pc, job, edits, pushes>>

Repointed(l, p, s) == [l EXCEPT ![p] = [@ EXCEPT !.sha = s]]

(* revert writes the file, then the lock; it may die in between. *)
Revert(c, p, s) ==
  /\ Idle(c) /\ Has(lock[c], p)
  /\ lock[c][p].history /\ s \in lock[c][p].versions /\ s # lock[c][p].sha
  /\ Fetch(c, p, s)
  /\ \/ lock' = [lock EXCEPT ![c] = Repointed(lock[c], p, s)]
     \/ UNCHANGED lock
  /\ UNCHANGED <<objects, refs, head, pc, job, edits, pushes>>

-----------------------------------------------------------------------------
(* push. *)

NoSweep == GcAlone => \A d \in Clone : pc[d] # "gc"

PushStart(c) ==
  /\ Idle(c) /\ NoSweep /\ pushes < MaxPushes
  /\ job' = [job EXCEPT ![c] =
               [NoJob EXCEPT !.scan = Shas(tree[c]), !.at = Clock[pushes + 1],
                             !.todo = {p \in Path : tree[c][p] # NoFile}]]
  /\ pc' = [pc EXCEPT ![c] = "scan"]
  /\ pushes' = pushes + 1
  /\ UNCHANGED <<objects, refs, tree, lock, head, edits>>

WithList(j, l) == [j EXCEPT !.list = l]

At(c)  == Least(job[c].todo)                 \* the path being visited
Old(c) == lock[c][At(c)]
New(c) == job[c].scan[At(c)]                 \* its content

(* Put entry e on record and go on to the next path. *)
Visited(j, p, e, handled) ==
  [j EXCEPT !.new = [@ EXCEPT ![p] = e], !.handled = @ \cup handled,
            !.todo = @ \ {p}, !.list = {}]

Recorded(c, e, handled) ==
  /\ job' = [job EXCEPT ![c] = Visited(job[c], At(c), e, handled)]
  /\ pc' = [pc EXCEPT ![c] = "scan"]

Visits(c, ph) == pc[c] = ph /\ job[c].todo # {}

(* Mutant: a tombstone with the content of the file is unchanged too. *)
UnchangedOrGone(c) == Old(c) # NoEntry /\ Old(c).sha = New(c)

Unchanged(c) == Old(c) # NoEntry /\ Old(c).sha = New(c) /\ ~Old(c).deleted

(* The live entries with the content whose file has left the tree. *)
RenameSources(c) ==
  IF Old(c) # NoEntry THEN {}
  ELSE {q \in Path \ job[c].handled :
          Live(lock[c], q) /\ lock[c][q].sha = New(c) /\ job[c].scan[q] = None}

KeepEntry(c) ==
  /\ Visits(c, "scan") /\ Unchanged(c)
  /\ Recorded(c, Old(c), {})
  /\ UNCHANGED <<objects, refs, tree, lock, head, edits, pushes>>

CarryEntry(c) ==
  /\ Visits(c, "scan") /\ ~Unchanged(c) /\ RenameSources(c) # {}
  /\ LET q == Least(RenameSources(c)) IN Recorded(c, lock[c][q], {q})
  /\ UNCHANGED <<objects, refs, tree, lock, head, edits, pushes>>

StatBlob(c) ==
  /\ Visits(c, "scan") /\ ~Unchanged(c) /\ RenameSources(c) = {}
  /\ pc' = [pc EXCEPT ![c] = IF Stored(New(c)) THEN "record" ELSE "put"]
  /\ UNCHANGED <<objects, refs, tree, lock, head, job, edits, pushes>>

(* Put uploads what the file holds by now, under the sha of the scan,      *)
(* unless somebody stored something there meanwhile.                       *)
PutBlob(c) ==
  LET f == tree[c][At(c)]
  IN  /\ Visits(c, "put") /\ f # NoFile /\ ~f.ptr
      /\ objects' = IF Stored(New(c)) THEN objects
                    ELSE [objects EXCEPT ![New(c)] = f.sha]
      /\ pc' = [pc EXCEPT ![c] = "verify"]
      /\ UNCHANGED <<refs, tree, lock, head, job, edits, pushes>>

VerifyPut(c) ==
  /\ Visits(c, "verify") /\ Stored(New(c))
  /\ pc' = [pc EXCEPT ![c] = "record"]
  /\ UNCHANGED <<objects, refs, tree, lock, head, job, edits, pushes>>

(* Mutant: the entry is not stamped. *)
NewEntryUnstamped(c, versions) ==
  [sha |-> New(c), at |-> None, history |-> At(c) \in HistoryOn,
   preserve |-> At(c) \in Preserved, deleted |-> FALSE, versions |-> versions]

NewEntry(c, versions) ==
  [sha |-> New(c), at |-> job[c].at, history |-> At(c) \in HistoryOn,
   preserve |-> At(c) \in Preserved, deleted |-> FALSE, versions |-> versions]

RecordPlain(c) ==
  /\ Visits(c, "record") /\ At(c) \notin HistoryOn
  /\ Recorded(c, NewEntry(c, {}), {})
  /\ UNCHANGED <<objects, refs, tree, lock, head, edits, pushes>>

(* AppendVersion: the list is read, deleted and put again. *)
RefIsCurrent(c) ==
  /\ Visits(c, "record") /\ At(c) \in HistoryOn /\ refs[At(c)].head = New(c)
  /\ Recorded(c, NewEntry(c, refs[At(c)].all), {})
  /\ UNCHANGED <<objects, refs, tree, lock, head, edits, pushes>>

ReadRef(c) ==
  /\ Visits(c, "record") /\ At(c) \in HistoryOn /\ refs[At(c)].head # New(c)
  /\ job' = [job EXCEPT ![c] = WithList(@, refs[At(c)].all \cup {New(c)})]
  /\ pc' = [pc EXCEPT ![c] = "unref"]
  /\ UNCHANGED <<objects, refs, tree, lock, head, edits, pushes>>

DeleteRef(c) ==
  /\ Visits(c, "unref")
  /\ refs' = [refs EXCEPT ![At(c)] = NoRef]
  /\ pc' = [pc EXCEPT ![c] = "ref"]
  /\ UNCHANGED <<objects, tree, lock, head, job, edits, pushes>>

PutRef(c) ==
  /\ Visits(c, "ref")
  /\ refs' = IF refs[At(c)] # NoRef THEN refs
             ELSE [refs EXCEPT ![At(c)] = [head |-> New(c), all |-> job[c].list]]
  /\ Recorded(c, NewEntry(c, job[c].list), {})
  /\ UNCHANGED <<objects, tree, lock, head, edits, pushes>>

Tombstone(e) == [e EXCEPT !.deleted = TRUE]

(* Mutant: the tombstone of an earlier push is taken for a deletion. *)
DeparturesAgain(c) ==
  [p \in Path |->
    IF job[c].scan[p] # None THEN job[c].new[p]
    ELSE IF ~Has(lock[c], p) \/ p \in job[c].handled \/ lock[c][p].deleted THEN NoEntry
    ELSE IF AutoDelete /\ ~lock[c][p].preserve THEN NoEntry
    ELSE Tombstone(lock[c][p])]

(* The entries of the files that are gone: carried on if they are          *)
(* tombstones already, dropped, or made tombstones.                        *)
Departures(c) ==
  [p \in Path |->
    IF job[c].scan[p] # None THEN job[c].new[p]
    ELSE IF ~Has(lock[c], p) \/ p \in job[c].handled THEN NoEntry
    ELSE IF lock[c][p].deleted THEN lock[c][p]
    ELSE IF AutoDelete /\ ~lock[c][p].preserve THEN NoEntry
    ELSE Tombstone(lock[c][p])]

(* The lock is written last. *)
FinishPush(c) ==
  /\ pc[c] = "scan" /\ job[c].todo = {}
  /\ lock' = [lock EXCEPT ![c] = Departures(c)]
  /\ pc' = [pc EXCEPT ![c] = "idle"] /\ job' = [job EXCEPT ![c] = NoJob]
  /\ UNCHANGED <<objects, refs, tree, head, edits, pushes>>

PushStep(c) ==
  \/ KeepEntry(c) \/ CarryEntry(c) \/ StatBlob(c) \/ PutBlob(c) \/ VerifyPut(c)
  \/ RecordPlain(c) \/ RefIsCurrent(c) \/ ReadRef(c) \/ DeleteRef(c) \/ PutRef(c)
  \/ FinishPush(c)

(* A push or a gc ends where it is: killed, the node out of reach, an      *)
(* error of the call.                                                      *)
Abandon(c) ==
  /\ ~Idle(c)
  /\ pc' = [pc EXCEPT ![c] = "idle"] /\ job' = [job EXCEPT ![c] = NoJob]
  /\ UNCHANGED <<objects, refs, tree, lock, head, edits, pushes>>

-----------------------------------------------------------------------------
(* gc. *)

(* The branches the clone of the gc has: all, or only its own. *)
Branches(c) == IF GcAlone THEN Clone ELSE {c}

(* Mutant: what the versions name is not kept, nor are tombstones. *)
KeepLive(c) == UNION {{head[d].lock[p].sha : p \in {q \in Path : Live(head[d].lock, q)}}
                       : d \in Branches(c)}

Keep(c) == UNION {ReferencedSHAs(head[d].lock) \cup PreservedSHAs(head[d].lock)
                   : d \in Branches(c)}

PlanSweep(c) == {s \in Sha : Stored(s)} \ Keep(c)

Quiet == \A d \in Clone : Idle(d) /\ lock[d] = head[d].lock

GcStart(c) ==
  /\ Idle(c) /\ (GcAlone => Quiet) /\ PlanSweep(c) # {}
  /\ job' = [job EXCEPT ![c] = WithList(NoJob, PlanSweep(c))]
  /\ pc' = [pc EXCEPT ![c] = "gc"]
  /\ UNCHANGED <<objects, refs, tree, lock, head, edits, pushes>>

GcDelete(c) ==
  /\ pc[c] = "gc" /\ job[c].list # {}
  /\ LET s == Least(job[c].list)
     IN  /\ objects' = [objects EXCEPT ![s] = None]
         /\ job' = [job EXCEPT ![c] = WithList(@, job[c].list \ {s})]
  /\ UNCHANGED <<refs, tree, lock, head, pc, edits, pushes>>

GcFinish(c) ==
  /\ pc[c] = "gc" /\ job[c].list = {}
  /\ pc' = [pc EXCEPT ![c] = "idle"]
  /\ UNCHANGED <<objects, refs, tree, lock, head, job, edits, pushes>>

-----------------------------------------------------------------------------
User(c) ==
  \/ \E p \in Path : Remove(c, p) \/ Smudge(c, p) \/ Pull(c, p)
  \/ \E p \in Path, s \in Sha : Edit(c, p, s) \/ Revert(c, p, s)
  \/ \E p, q \in Path : Move(c, p, q)
  \/ \E d \in Clone : GitMerge(c, d) \/ Checkout(c, d)
  \/ CommitAll(c)

Gc(c) == GcStart(c) \/ GcDelete(c) \/ GcFinish(c)

Next == \E c \in Clone : User(c) \/ PushStart(c) \/ PushStep(c) \/ Abandon(c) \/ Gc(c)

Spec == Init /\ [][Next]_vars
-----------------------------------------------------------------------------
(* Properties. *)

(* Types. *)
TypeOK ==
  /\ objects \in [Sha -> Sha \cup {None}]
  /\ refs \in [Path -> Ref]
  /\ tree \in [Clone -> [Path -> File \cup {NoFile}]]
  /\ lock \in [Clone -> Lock]
  /\ head \in [Clone -> Commit]
  /\ pc \in [Clone -> Phase]
  /\ job \in [Clone -> Job]
  /\ edits \in 0 .. MaxEdits /\ pushes \in 0 .. MaxPushes

(* The repository never gets ahead of storage: whatever content a lock     *)
(* names for a path, committed or not, live or tombstone, is stored, and   *)
(* under its own sha; however pushes die and whatever is merged, reverted, *)
(* renamed or swept.                                                       *)
NamedIsStored ==
  \A c \in Clone : \A s \in Named(lock[c]) \cup Named(head[c].lock) : Intact(s)

(* A merge shows every path the same whichever branch is merged into the   *)
(* other: the same content, live or not, with the same versions.           *)
Shown(l) == [p \in Path |-> IF Has(l, p)
                            THEN <<l[p].sha, l[p].deleted, l[p].versions>> ELSE None]

MergesAgree ==
  \A c, d \in Clone : Shown(Merge(head[c].lock, head[d].lock))
                    = Shown(Merge(head[d].lock, head[c].lock))

(* A push that succeeds has every file of the tree live in the lock with   *)
(* the bytes stored, so a clone of what is committed next can pull it.     *)
GreenPush ==
  [][\A c \in Clone : FinishPush(c) =>
       \A p \in Path : tree[c][p] # NoFile =>
         /\ Live(lock'[c], p) /\ lock'[c][p].sha = tree[c][p].sha
         /\ Intact(tree[c][p].sha)]_vars

(* A push forgets a content only when its file has other content now, or   *)
(* was removed with auto_delete and is not preserved: a preserved file     *)
(* that was deleted, or moved, is still named, by every later push.        *)
ForgetsNoPreserved ==
  [][\A c \in Clone : FinishPush(c) =>
       \A p \in Path : Has(lock[c], p) /\ lock[c][p].sha \notin Named(lock'[c]) =>
         \/ tree[c][p] # NoFile
         \/ AutoDelete /\ ~lock[c][p].preserve /\ ~lock[c][p].deleted]_vars

(* pull and revert never destroy the last copy of bytes.  Not so: pull     *)
(* replaces any file that differs from the lock, edited ones included.     *)
Held(s) == Intact(s) \/ \E c \in Clone, p \in Path : tree[c][p] = Bytes(s)

PullSparesEdits ==
  [][(\E c \in Clone, p \in Path : Pull(c, p)) => \A s \in Sha : Held(s) => Held(s)']_vars
=============================================================================
