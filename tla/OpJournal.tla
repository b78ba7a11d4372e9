------------------------------ MODULE OpJournal ------------------------------
(***************************************************************************)
(* What one node's write-ahead log promises to the commands that use it    *)
(* (internal/wal, package comment of entry.go): an ordered journal of      *)
(* operations that is also a lock per blob.  A journal maps a sequence     *)
(* number to a record [op, state]; only its order matters, not the         *)
(* numbers.  Wal.tla, the log as the code keeps it in files, implements    *)
(* this specification.                                                     *)
(***************************************************************************)
EXTENDS Integers

CONSTANTS Op,        \* operation ids
          Blob,      \* file ids an operation can lock
          BlobRefs,  \* the blobs each operation locks (Entry.BlobRefs)
          Slot       \* sequence numbers

VARIABLE journal

(* The effective state of an operation: wal.StateIntent, StateDone, StateFailed. *)
OpState == {"intent", "done", "failed"}

Record == [op: Op, state: OpState]

Conflict(o, p) == BlobRefs[o] \cap BlobRefs[p] # {}

JInit == journal = [s \in {} |-> 0]

(* AppendIntent succeeds: o is not on record, and no pending operation     *)
(* shares a blob with it.                                                  *)
Begin(o) ==
  /\ \A t \in DOMAIN journal :
        /\ journal[t].op # o
        /\ journal[t].state = "intent" => ~Conflict(journal[t].op, o)
  /\ \E s \in Slot :
        /\ \A t \in DOMAIN journal : t < s
        /\ journal' = [t \in DOMAIN journal \cup {s} |->
                         IF t = s THEN [op |-> o, state |-> "intent"]
                                  ELSE journal[t]]

(* MarkDone or MarkFailed: a pending operation ends; a failed one can still *)
(* be completed (done wins over failed), a done one never changes.         *)
Close(s, st) ==
  /\ s \in DOMAIN journal
  /\ \/ journal[s].state = "intent" /\ st \in {"done", "failed"}
     \/ journal[s].state = "failed" /\ st = "done"
  /\ journal' = [journal EXCEPT ![s].state = st]

(* Prune forgets a prefix of the journal, all of it done. *)
Forget(n) ==
  /\ \A t \in DOMAIN journal : t <= n => journal[t].state = "done"
  /\ journal' = [t \in {s \in DOMAIN journal : s > n} |-> journal[t]]

JNext ==
  \/ \E o \in Op : Begin(o)
  \/ \E s \in Slot, st \in OpState : Close(s, st)
  \/ \E n \in Slot : Forget(n)

JSpec == JInit /\ [][JNext]_journal
=============================================================================
