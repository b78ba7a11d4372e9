--------------------------------- MODULE Wal ---------------------------------
(***************************************************************************)
(* internal/wal/log.go: one node's write-ahead log, kept as files under    *)
(* meta/wal/ of the node's backend and driven by clients that share no     *)
(* memory.  Every call of the backend (List, Get, Stat, the rename that    *)
(* ends a Put, Delete) is a step of its own; what a client does between    *)
(* two calls is local and belongs to the step before or after.             *)
(*                                                                         *)
(* The store:                                                              *)
(*   slot[s]   meta/wal/<s>.toml: the entry in slot s, or NoEntry          *)
(*   done      the s for which meta/wal/<s>.done exists                    *)
(*   failed    the s for which meta/wal/<s>.failed exists                  *)
(*   anchors   the markers meta/wal/pruned/<s>, each the digest of the     *)
(*             last entry a Prune removed                                  *)
(*                                                                         *)
(* A sha256 over an entry's bytes is a Digest: the sequence number, the    *)
(* operation and the client (its created_at) tell any two entries that     *)
(* are ever written apart.                                                 *)
(***************************************************************************)
EXTENDS Integers

CONSTANTS Client,       \* processes that run tailvault against this node
          Op,           \* operation ids (deterministic: any client may present one)
          Blob,         \* file ids
          BlobRefs,     \* the blobs each operation locks
          MaxSeq,       \* bound: the highest sequence number explored
          RacingPuts,   \* may two clients be inside Put of one slot at once?
          RacingPrune,  \* may Prune run while another call is in progress?
          NoEntry, NoOp, ZeroHash

Slot   == 0 .. MaxSeq
Digest == [seq: Slot, op: Op, by: Client]
Hash   == Digest \cup {ZeroHash}
Entry  == [op: Op, by: Client, prev: Hash]

ASSUME WalAssumption ==
  /\ MaxSeq \in Nat
  /\ BlobRefs \in [Op -> SUBSET Blob]
  /\ RacingPuts \in BOOLEAN
  /\ RacingPrune \in BOOLEAN
  /\ NoEntry \notin Entry
  /\ NoOp \notin Op

VARIABLES slot, done, failed, anchors,  \* the store
          pc,      \* where each client is in its call
          job,     \* which call, for which operation
          view,    \* what loadRaw has collected so far
          cand,    \* the slot AppendIntent last tried, and its prev_hash
          sweep,   \* what a Prune has still to delete
          released \* history: the owners whose intent somebody else marked

storeVars == <<slot, done, failed, anchors>>
vars == <<slot, done, failed, anchors, pc, job, view, cand, sweep, released>>

Call == {"append", "done", "failed", "prune"}

(* Where a client can be: between calls ("idle"), holding an appended       *)
(* intent ("own"), in loadRaw ("list", "get"), in the Put of a slot         *)
(* ("rename", "readback") or in the deletions of Prune.                     *)
Phase == {"idle", "own", "list", "get", "rename", "readback",
          "delEntry", "delMark", "drop"}

View == [todo: SUBSET Slot, todoA: SUBSET Slot,
         ents: [Slot -> Entry \cup {NoEntry}], anch: SUBSET Digest,
         done: SUBSET Slot, failed: SUBSET Slot]

NoEntries == [s \in Slot |-> NoEntry]
NoView == [todo |-> {}, todoA |-> {}, ents |-> NoEntries, anch |-> {},
           done |-> {}, failed |-> {}]
NoJob   == [call |-> "append", op |-> NoOp]
NoCand  == [seq |-> -1, prev |-> ZeroHash]
NoSweep == [del |-> {}, drop |-> {}]

-----------------------------------------------------------------------------
(* What readVerified computes from a set of entries E and anchors A; used   *)
(* on a client's view and on the store itself.                              *)

(* Mutant: the entry an anchor stands for still counts. *)
KeptAtAnchor(E, A) == {s \in Slot : E[s] # NoEntry /\ \A a \in A : a.seq <= s}

(* An entry counts when it lies above every anchor. *)
Kept(E, A) == {s \in Slot : E[s] # NoEntry /\ \A a \in A : a.seq < s}

DigestOf(E, s) == [seq |-> s, op |-> E[s].op, by |-> E[s].by]

(* The hash the entry in slot n must carry: that of its predecessor, or of  *)
(* the anchor that replaces it, or zeros at the very start.                 *)
LinksTo(E, A, n, h) ==
  \/ n - 1 \in Kept(E, A) /\ h = DigestOf(E, n - 1)
  \/ \E a \in A : a.seq = n - 1 /\ h = a
  \/ n = 0 /\ h = ZeroHash

(* verifyChain: no gap from the anchor (or from slot 0) to the tail, and    *)
(* every entry names the hash of the one before it.                         *)
Chained(E, A) ==
  \A t \in Kept(E, A) :
    /\ LinksTo(E, A, t, E[t].prev)
    /\ \A s \in 0 .. t - 1 : s \in Kept(E, A) \/ \E a \in A : s <= a.seq

(* AppendIntent's next slot: one past the tail, else past the anchor, else 0. *)
IsNext(E, A, n) ==
  /\ \A s \in Kept(E, A) : s < n
  /\ \A a \in A : a.seq < n
  /\ n = 0 \/ n - 1 \in Kept(E, A) \/ \E a \in A : a.seq = n - 1

Conflict(o, p) == BlobRefs[o] \cap BlobRefs[p] # {}

Visible == Kept(slot, anchors)
Pending == {s \in Visible : s \notin done \cup failed}

-----------------------------------------------------------------------------
(* Environment: which calls may overlap. *)

Active(c) == pc[c] \notin {"idle", "own"}

(* Nothing in the code keeps Prune and the other calls apart. *)
MayRun(c, call) ==
  \/ RacingPrune
  \/ \A d \in Client \ {c} :
       Active(d) => call # "prune" /\ job[d].call # "prune"

(* Put is Stat, then a write to a temporary file and a rename; nothing in   *)
(* the code keeps two clients from being in between on the same key.        *)
MayEnterPut(c, n) ==
  \/ RacingPuts
  \/ \A d \in Client \ {c} : pc[d] = "rename" => cand[d].seq # n

-----------------------------------------------------------------------------
Init ==
  /\ slot = NoEntries
  /\ done = {} /\ failed = {} /\ anchors = {}
  /\ pc = [c \in Client |-> "idle"]
  /\ job = [c \in Client |-> NoJob]
  /\ view = [c \in Client |-> NoView]
  /\ cand = [c \in Client |-> NoCand]
  /\ sweep = [c \in Client |-> NoSweep]
  /\ released = {}

Goto(c, p) == pc' = [pc EXCEPT ![c] = p]

(* A call returns, or its process dies: nothing of it is left but files. *)
Return(c) ==
  /\ Goto(c, "idle")
  /\ job' = [job EXCEPT ![c] = NoJob]
  /\ view' = [view EXCEPT ![c] = NoView]
  /\ cand' = [cand EXCEPT ![c] = NoCand]
  /\ sweep' = [sweep EXCEPT ![c] = NoSweep]

Reset(c) == Return(c) /\ released' = released \ {c}

-----------------------------------------------------------------------------
(* loadRaw: one List, then a Get of every listed entry and anchor in key    *)
(* order; the markers are known from their names alone.                     *)

Listing ==
  [todo |-> {s \in Slot : slot[s] # NoEntry}, todoA |-> {a.seq : a \in anchors},
   ents |-> NoEntries, anch |-> {}, done |-> done, failed |-> failed]

(* Every call begins with a List. *)
Start(c, call, o) ==
  /\ MayRun(c, call)
  /\ Goto(c, "get")
  /\ job' = [job EXCEPT ![c] = [call |-> call, op |-> o]]
  /\ view' = [view EXCEPT ![c] = Listing]
  /\ cand' = [cand EXCEPT ![c] = NoCand]
  /\ released' = released \ {c}
  /\ UNCHANGED <<storeVars, sweep>>

StartAppend(c, o) == pc[c] = "idle" /\ Start(c, "append", o)

(* The owner ends its operation, or another client ends one it found on the *)
(* log (ops retry, or a command repeated after ErrDuplicateOp).             *)
StartMark(c, o, outcome) ==
  /\ \/ pc[c] = "own" /\ job[c].op = o
     \/ pc[c] = "idle" /\ \E s \in Slot : slot[s] # NoEntry /\ slot[s].op = o
  /\ Start(c, outcome, o)

StartPrune(c) == pc[c] = "idle" /\ Start(c, "prune", NoOp)

(* AppendIntent goes round again. *)
List(c) ==
  /\ pc[c] = "list"
  /\ Goto(c, "get")
  /\ view' = [view EXCEPT ![c] = Listing]
  /\ UNCHANGED <<storeVars, job, cand, sweep, released>>

(* A listed key that is gone by now is skipped (getMaybe). *)
GetEntry(c) ==
  /\ pc[c] = "get"
  /\ \E s \in view[c].todo :
       /\ \A t \in view[c].todo : s <= t
       /\ view' = [view EXCEPT ![c].todo = @ \ {s}, ![c].ents[s] = slot[s]]
  /\ UNCHANGED <<storeVars, pc, job, cand, sweep, released>>

GetAnchor(c) ==
  /\ pc[c] = "get"
  /\ view[c].todo = {}
  /\ \E s \in view[c].todoA :
       /\ \A t \in view[c].todoA : s <= t
       /\ view' = [view EXCEPT ![c].todoA = @ \ {s},
                               ![c].anch = @ \cup {a \in anchors : a.seq = s}]
  /\ UNCHANGED <<storeVars, pc, job, cand, sweep, released>>

(* All of it is read: what follows depends on the view alone. *)
Loaded(c) == pc[c] = "get" /\ view[c].todo = {} /\ view[c].todoA = {}

ViewKept(c)     == Kept(view[c].ents, view[c].anch)
ViewVerifies(c) == Chained(view[c].ents, view[c].anch)
ViewPending(c)  == ViewKept(c) \ (view[c].done \cup view[c].failed)

(* ErrChainBroken: every call gives up. *)
ChainError(c) ==
  /\ Loaded(c)
  /\ ~ViewVerifies(c)
  /\ Reset(c)
  /\ UNCHANGED storeVars

-----------------------------------------------------------------------------
(* AppendIntent. *)

(* Mutant: an operation that has ended is forgotten. *)
OnRecordPending(c) == \E s \in ViewPending(c) : view[c].ents[s].op = job[c].op

OnRecord(c) == \E s \in ViewKept(c) : view[c].ents[s].op = job[c].op

Blocked(c) == \E s \in ViewPending(c) : Conflict(view[c].ents[s].op, job[c].op)

(* ErrDuplicateOp or ErrOpInFlight. *)
AppendRefused(c) ==
  /\ Loaded(c) /\ job[c].call = "append"
  /\ ViewVerifies(c)
  /\ OnRecord(c) \/ Blocked(c)
  /\ Reset(c)
  /\ UNCHANGED storeVars

(* Put's Stat of the next slot: one that exists is left alone. *)
PutStat(c) ==
  /\ Loaded(c) /\ job[c].call = "append"
  /\ ViewVerifies(c)
  /\ ~OnRecord(c) /\ ~Blocked(c)
  /\ \E n \in Slot, h \in Hash :
       /\ IsNext(view[c].ents, view[c].anch, n)
       /\ LinksTo(view[c].ents, view[c].anch, n, h)
       /\ MayEnterPut(c, n)
       /\ cand' = [cand EXCEPT ![c] = [seq |-> n, prev |-> h]]
       /\ Goto(c, IF slot[n] = NoEntry THEN "rename" ELSE "readback")
  /\ view' = [view EXCEPT ![c] = NoView]
  /\ UNCHANGED <<storeVars, job, sweep, released>>

(* Put's rename replaces whatever is there by now. *)
PutRename(c) ==
  /\ pc[c] = "rename"
  /\ slot' = [slot EXCEPT ![cand[c].seq] =
                [op |-> job[c].op, by |-> c, prev |-> cand[c].prev]]
  /\ Goto(c, "readback")
  /\ UNCHANGED <<done, failed, anchors, job, view, cand, sweep, released>>

(* Mutant: that the slot is there is taken for success. *)
WonAnyhow(c) == slot[cand[c].seq] # NoEntry

(* The op id read back decides who owns the slot. *)
Won(c) == slot[cand[c].seq] # NoEntry /\ slot[cand[c].seq].op = job[c].op

ReadBackWon(c) ==
  /\ pc[c] = "readback"
  /\ Won(c)
  /\ Goto(c, "own")
  /\ released' = IF cand[c].seq \in done \cup failed THEN released \cup {c}
                                                    ELSE released
  /\ UNCHANGED <<storeVars, job, view, cand, sweep>>

(* Mutant: the next round reuses what is in memory. *)
RetryUnread(c) ==
  /\ pc[c] = "readback"
  /\ ~Won(c)
  /\ Goto(c, "get")
  /\ UNCHANGED <<storeVars, job, view, cand, sweep, released>>

ReadBackLost(c) ==
  /\ pc[c] = "readback"
  /\ ~Won(c)
  /\ Goto(c, "list")
  /\ UNCHANGED <<storeVars, job, view, cand, sweep, released>>

-----------------------------------------------------------------------------
(* MarkDone and MarkFailed. *)

(* An unknown op id is a silent success. *)
MarkUnknown(c) ==
  /\ Loaded(c) /\ job[c].call \in {"done", "failed"}
  /\ ViewVerifies(c)
  /\ ~OnRecord(c)
  /\ Reset(c)
  /\ UNCHANGED storeVars

(* Those who were told that they own what is now marked. *)
Owners(s, o) == {d \in Client : pc[d] = "own" /\ cand[d].seq = s /\ job[d].op = o}

(* Mutant: the marker is keyed by the operation, not by its slot. *)
MarkPutByOp(c) ==
  /\ Loaded(c) /\ job[c].call \in {"done", "failed"}
  /\ ViewVerifies(c)
  /\ OnRecord(c)
  /\ done' = IF job[c].call = "done" THEN done \cup {job[c].op} ELSE done
  /\ failed' = IF job[c].call = "failed" THEN failed \cup {job[c].op} ELSE failed
  /\ released' = released \ {c}
  /\ Return(c)
  /\ UNCHANGED <<slot, anchors>>

MarkPut(c) ==
  /\ Loaded(c) /\ job[c].call \in {"done", "failed"}
  /\ ViewVerifies(c)
  /\ \E s \in ViewKept(c) :
       /\ view[c].ents[s].op = job[c].op
       /\ done' = IF job[c].call = "done" THEN done \cup {s} ELSE done
       /\ failed' = IF job[c].call = "failed" THEN failed \cup {s} ELSE failed
       /\ released' = (released \cup Owners(s, job[c].op)) \ {c}
  /\ Return(c)
  /\ UNCHANGED <<slot, anchors>>

-----------------------------------------------------------------------------
(* Prune. *)

(* Mutant: the entries are not asked whether they are done. *)
PrunableAll(c, l) == l \in ViewKept(c)

(* Everything up to l is done, so with a suitable age window the leading    *)
(* run ends at l.                                                           *)
Prunable(c, l) ==
  /\ l \in ViewKept(c)
  /\ \A s \in ViewKept(c) : s <= l => s \in view[c].done

(* The live anchor of a view is the one with the highest sequence number. *)
TopAnchor(A) == {a \in A : \A b \in A : b.seq <= a.seq}

(* Nothing done and old enough. A Read or a Pending is this call: it loads,  *)
(* verifies and returns.                                                    *)
PruneNothing(c) ==
  /\ Loaded(c) /\ job[c].call = "prune"
  /\ ViewVerifies(c)
  /\ Reset(c)
  /\ UNCHANGED storeVars

(* The new anchor comes first; Put leaves an existing one alone. *)
PutAnchor(c) ==
  /\ Loaded(c) /\ job[c].call = "prune"
  /\ ViewVerifies(c)
  /\ \E l \in Slot :
       /\ Prunable(c, l)
       /\ anchors' = IF \E a \in anchors : a.seq = l THEN anchors
                     ELSE anchors \cup {DigestOf(view[c].ents, l)}
       /\ sweep' = [sweep EXCEPT ![c] =
                     [del |-> {s \in ViewKept(c) : s <= l},
                      drop |-> {a.seq : a \in TopAnchor(view[c].anch)}]]
  /\ Goto(c, "delEntry")
  /\ view' = [view EXCEPT ![c] = NoView]
  /\ UNCHANGED <<slot, done, failed, job, cand, released>>

DeleteEntry(c) ==
  /\ pc[c] = "delEntry"
  /\ \E s \in sweep[c].del :
       /\ \A t \in sweep[c].del : s <= t
       /\ slot' = [slot EXCEPT ![s] = NoEntry]
  /\ Goto(c, "delMark")
  /\ UNCHANGED <<done, failed, anchors, job, view, cand, sweep, released>>

(* The done marker goes with its entry, unless the backend fails, which is  *)
(* ignored; a failed marker beside it stays.                                *)
DeleteMark(c) ==
  /\ pc[c] = "delMark"
  /\ \E s \in sweep[c].del :
       /\ \A t \in sweep[c].del : s <= t
       /\ done' \in {done \ {s}, done}
       /\ sweep' = [sweep EXCEPT ![c].del = @ \ {s}]
       /\ Goto(c, IF sweep[c].del = {s} THEN "drop" ELSE "delEntry")
  /\ UNCHANGED <<slot, failed, anchors, job, view, cand, released>>

(* Last, the superseded anchor. *)
DropAnchor(c) ==
  /\ pc[c] = "drop"
  /\ anchors' = {a \in anchors : a.seq \notin sweep[c].drop}
  /\ Reset(c)
  /\ UNCHANGED <<slot, done, failed>>

-----------------------------------------------------------------------------
(* The process of a client dies: its files stay, its memory does not. *)
Crash(c) ==
  /\ pc[c] # "idle"
  /\ Reset(c)
  /\ UNCHANGED storeVars

(* The steps of a call once it has begun. *)
Step(c) ==
  \/ List(c) \/ GetEntry(c) \/ GetAnchor(c)
  \/ ChainError(c)
  \/ AppendRefused(c) \/ PutStat(c) \/ PutRename(c)
  \/ ReadBackWon(c) \/ ReadBackLost(c)
  \/ MarkUnknown(c) \/ MarkPut(c)
  \/ PruneNothing(c) \/ PutAnchor(c)
  \/ DeleteEntry(c) \/ DeleteMark(c) \/ DropAnchor(c)

Begin(c) ==
  \/ \E o \in Op : StartAppend(c, o)
  \/ \E o \in Op, outcome \in {"done", "failed"} : StartMark(c, o, outcome)
  \/ StartPrune(c)

Next == \E c \in Client : Begin(c) \/ Step(c) \/ Crash(c)

Spec == Init /\ [][Next]_vars

-----------------------------------------------------------------------------
TypeOK ==
  /\ slot \in [Slot -> Entry \cup {NoEntry}]
  /\ done \in SUBSET Slot /\ failed \in SUBSET Slot
  /\ anchors \in SUBSET Digest
  /\ pc \in [Client -> Phase]
  /\ job \in [Client -> [call: Call, op: Op \cup {NoOp}]]
  /\ view \in [Client -> View]
  /\ cand \in [Client -> [seq: Slot \cup {-1}, prev: Hash]]
  /\ sweep \in [Client -> [del: SUBSET Slot, drop: SUBSET Slot]]
  /\ released \in SUBSET Client

(* The files always verify: after any interleaving of calls, and after a    *)
(* crash between any two file operations of any of them (Prune above all),  *)
(* the next reader finds an unbroken chain.                                 *)
ChainIntact == Chained(slot, anchors)

(* The log is a lock table: no two pending operations on record share a     *)
(* blob, and no operation is on record twice.                               *)
LockTable ==
  \A s, t \in Visible : s # t =>
    /\ slot[s].op # slot[t].op
    /\ s \in Pending /\ t \in Pending => ~Conflict(slot[s].op, slot[t].op)

(* c was told that its intent is recorded and nobody has marked it since. *)
Owns(c) == pc[c] = "own" /\ c \notin released

(* Appending the intent is acquiring the lock: two clients that were both   *)
(* told they own an operation never work on a common blob, unless it is one *)
(* operation, presented twice.  The read-back sees to it as long as no two  *)
(* are between the Stat and the rename of one slot (RacingPuts); nothing    *)
(* sees to that.                                                            *)
MutualExclusion ==
  \A c, d \in Client :
    Owns(c) /\ Owns(d) /\ job[c].op # job[d].op => ~Conflict(job[c].op, job[d].op)

(* AppendIntent comes to an end (its loop is only a backstop at 256         *)
(* rounds): each round tries a higher slot than the round before, so a      *)
(* client loses at most once to every entry the others append.              *)
RetriesAdvance ==
  [][\A c \in Client : PutStat(c) => cand'[c].seq > cand[c].seq]_vars

(* The files, read as a journal. *)
Journal ==
  [s \in Visible |->
     [op |-> slot[s].op,
      state |-> IF s \in done THEN "done"
                ELSE IF s \in failed THEN "failed" ELSE "intent"]]

J == INSTANCE OpJournal WITH journal <- Journal

(* The log implements the journal with one lock per blob. *)
JournalSpec == J!JSpec
=============================================================================
