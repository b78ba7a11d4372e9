------------------------------ MODULE WalProofs ------------------------------
(***************************************************************************)
(* Proofs about Wal.tla, for any number of clients, operations, blobs and  *)
(* slots, when Puts of one slot do not overlap and Prune runs alone.       *)
(* (When Puts may overlap, exclusion is false: see the run wal_put_race; a *)
(* Prune that overlaps is the subject of the run wal_pruned.)              *)
(***************************************************************************)
EXTENDS Wal, TLAPS

Below(s) == \E a \in anchors : s <= a.seq

(* What a call is for, by where it is. *)
CallInv ==
  \A c \in Client :
    /\ pc[c] \in {"list", "rename", "readback", "own"} => job[c].call = "append"
    /\ pc[c] \in {"delEntry", "delMark", "drop"} => job[c].call = "prune"
    /\ pc[c] # "idle" /\ job[c].call # "prune" => job[c].op \in Op

(* A Prune in progress is the only call in progress. *)
PruneAlone ==
  \A c, d \in Client :
    c # d /\ Active(c) /\ job[c].call = "prune" => ~Active(d)

(* No two clients are about to write an entry. *)
RenameAlone == \A c, d \in Client : pc[c] = "rename" /\ pc[d] = "rename" => c = d

(* A marker belongs to an entry, or lies below an anchor. *)
MarkersInv == \A s \in done \cup failed : slot[s] # NoEntry \/ Below(s)

(* What a client has collected is still there, and the slots it has listed  *)
(* leave none out below them.                                               *)
Listed(c) == {s \in Slot : s \in view[c].todo \/ view[c].ents[s] # NoEntry}

ViewOK(c) == pc[c] = "get" =>
  /\ \A s \in Slot : view[c].ents[s] # NoEntry => view[c].ents[s] = slot[s]
  /\ \A s \in view[c].todo : slot[s] # NoEntry
  /\ \A t \in Listed(c), s \in Slot : s < t /\ slot[s] # NoEntry => s \in Listed(c)
  /\ view[c].anch \subseteq anchors
  /\ \A a \in anchors : a \in view[c].anch \/ a.seq \in view[c].todoA
  /\ view[c].done \subseteq done
  /\ view[c].failed \subseteq failed
  /\ cand[c].seq # -1 => cand[c].seq \in Listed(c) /\ ~Below(cand[c].seq)

(* Nothing on record forbids operation o, to be written in slot n with      *)
(* prev_hash h.                                                             *)
Admits(n, h, o) ==
  /\ IsNext(slot, anchors, n)
  /\ LinksTo(slot, anchors, n, h)
  /\ \A s \in Visible : slot[s].op # o
  /\ \A s \in Pending : ~Conflict(slot[s].op, o)

RenameOK(c) == pc[c] = "rename" =>
  /\ cand[c].seq \in Slot
  /\ slot[cand[c].seq] = NoEntry
  /\ Admits(cand[c].seq, cand[c].prev, job[c].op)

(* A slot that was tried is taken. *)
TriedOK(c) == pc[c] \in {"list", "readback"} => cand[c].seq \in Visible

(* An owner that nobody released is on record, and pending. *)
OwnOK(c) == Owns(c) =>
  cand[c].seq \in Pending /\ slot[cand[c].seq].op = job[c].op

(* What a Prune deletes lies below an anchor that it does not delete. *)
SweepOK(c) == pc[c] \in {"delEntry", "delMark", "drop"} =>
  \E a \in anchors :
    /\ \A s \in sweep[c].del : s <= a.seq
    /\ \A s \in sweep[c].drop : s < a.seq

LocalOK(c) == ViewOK(c) /\ RenameOK(c) /\ TriedOK(c) /\ OwnOK(c) /\ SweepOK(c)

StoreInv == ChainIntact /\ LockTable /\ MarkersInv

IInv ==
  /\ TypeOK /\ CallInv /\ PruneAlone /\ RenameAlone /\ StoreInv
  /\ \A c \in Client : LocalOK(c)

-----------------------------------------------------------------------------
(* Typing *)

LEMMA NoViewType == NoView \in View /\ NoEntries \in [Slot -> Entry \cup {NoEntry}]
  BY DEF NoView, View, NoEntries

LEMMA ListingType == TypeOK => Listing \in View
  BY NoViewType DEF Listing, View, TypeOK, Digest

LEMMA ReturnType ==
  ASSUME TypeOK, NEW c \in Client, Return(c)
  PROVE  /\ pc' \in [Client -> Phase]
         /\ job' \in [Client -> [call: Call, op: Op \cup {NoOp}]]
         /\ view' \in [Client -> View]
         /\ cand' \in [Client -> [seq: Slot \cup {-1}, prev: Hash]]
         /\ sweep' \in [Client -> [del: SUBSET Slot, drop: SUBSET Slot]]
  BY NoViewType DEF TypeOK, Return, Goto, Phase, NoJob, Call, NoCand, NoSweep, Hash

LEMMA StartType ==
  ASSUME TypeOK, NEW c \in Client, NEW call \in Call, NEW o \in Op \cup {NoOp},
         Start(c, call, o)
  PROVE  TypeOK'
  BY ListingType DEF TypeOK, Start, Goto, Phase, NoCand, Hash, storeVars

LEMMA DigestType ==
  ASSUME NEW E \in [Slot -> Entry \cup {NoEntry}], NEW s \in Slot, E[s] # NoEntry
  PROVE  DigestOf(E, s) \in Digest
  <1>1. E[s] \in Entry
    OBVIOUS
  <1>2. QED
    BY <1>1 DEF Entry, DigestOf, Digest

LEMMA TypeStep == TypeOK /\ CallInv /\ [Next]_vars => TypeOK'
<1> SUFFICES ASSUME TypeOK, CallInv, [Next]_vars PROVE TypeOK'
  OBVIOUS
<1>1. ASSUME NEW c \in Client, Begin(c) PROVE TypeOK'
  BY <1>1, StartType DEF Begin, StartAppend, StartMark, StartPrune, Call
<1>2. ASSUME NEW c \in Client, Crash(c) \/ ChainError(c) \/ AppendRefused(c)
             \/ MarkUnknown(c) \/ PruneNothing(c)
      PROVE TypeOK'
  BY <1>2, ReturnType DEF Crash, ChainError, AppendRefused, MarkUnknown,
       PruneNothing, Reset, TypeOK, storeVars
<1>3. ASSUME NEW c \in Client, List(c) PROVE TypeOK'
  BY <1>3, ListingType DEF List, TypeOK, storeVars, Goto, Phase
<1>4. ASSUME NEW c \in Client, GetEntry(c) PROVE TypeOK'
  <2>1. PICK s \in view[c].todo :
          view' = [view EXCEPT ![c].todo = @ \ {s}, ![c].ents[s] = slot[s]]
    BY <1>4 DEF GetEntry
  <2>2. view[c] \in View /\ s \in Slot
    BY <2>1 DEF TypeOK, View
  <2>3. view' \in [Client -> View]
    BY <2>1, <2>2 DEF TypeOK, View
  <2>4. QED
    BY <1>4, <2>3 DEF GetEntry, TypeOK, storeVars
<1>5. ASSUME NEW c \in Client, GetAnchor(c) PROVE TypeOK'
  <2>1. PICK s \in view[c].todoA :
          view' = [view EXCEPT ![c].todoA = @ \ {s},
                               ![c].anch = @ \cup {a \in anchors : a.seq = s}]
    BY <1>5 DEF GetAnchor
  <2>2. view[c] \in View /\ s \in Slot /\ {a \in anchors : a.seq = s} \in SUBSET Digest
    BY DEF TypeOK, View
  <2>3. view' \in [Client -> View]
    BY <2>1, <2>2 DEF TypeOK, View
  <2>4. QED
    BY <1>5, <2>3 DEF GetAnchor, TypeOK, storeVars
<1>6. ASSUME NEW c \in Client, PutStat(c) PROVE TypeOK'
  BY <1>6, NoViewType DEF PutStat, TypeOK, storeVars, Goto, Phase
<1>7. ASSUME NEW c \in Client, PutRename(c) PROVE TypeOK'
  <2>1. job[c].op \in Op
    BY <1>7 DEF PutRename, CallInv
  <2>2. [op |-> job[c].op, by |-> c, prev |-> cand[c].prev] \in Entry
    BY <2>1 DEF Entry, TypeOK
  <2>3. slot' \in [Slot -> Entry \cup {NoEntry}]
    BY <1>7, <2>2 DEF PutRename, TypeOK
  <2>4. QED
    BY <1>7, <2>3 DEF PutRename, TypeOK, Goto, Phase
<1>8. ASSUME NEW c \in Client, ReadBackWon(c) \/ ReadBackLost(c) PROVE TypeOK'
  BY <1>8 DEF ReadBackWon, ReadBackLost, TypeOK, storeVars, Goto, Phase
<1>9. ASSUME NEW c \in Client, MarkPut(c) PROVE TypeOK'
  BY <1>9, ReturnType DEF MarkPut, TypeOK, ViewKept, Kept, Owners
<1>10. ASSUME NEW c \in Client, PutAnchor(c) PROVE TypeOK'
  <2>1. PICK l \in Slot :
          /\ Prunable(c, l)
          /\ anchors' = IF \E a \in anchors : a.seq = l THEN anchors
                        ELSE anchors \cup {DigestOf(view[c].ents, l)}
          /\ sweep' = [sweep EXCEPT ![c] =
                        [del |-> {s \in ViewKept(c) : s <= l},
                         drop |-> {a.seq : a \in TopAnchor(view[c].anch)}]]
    BY <1>10 DEF PutAnchor
  <2>2. view[c].ents \in [Slot -> Entry \cup {NoEntry}] /\ view[c].anch \subseteq Digest
    BY DEF TypeOK, View
  <2>3. DigestOf(view[c].ents, l) \in Digest
    BY <2>1, <2>2, DigestType DEF Prunable, ViewKept, Kept
  <2>4. sweep' \in [Client -> [del: SUBSET Slot, drop: SUBSET Slot]]
    BY <2>1, <2>2 DEF TypeOK, ViewKept, Kept, TopAnchor, Digest
  <2>5. QED
    BY <1>10, <2>1, <2>3, <2>4, NoViewType DEF PutAnchor, TypeOK, Goto, Phase
<1>11. ASSUME NEW c \in Client, DeleteEntry(c) \/ DeleteMark(c) PROVE TypeOK'
  <2>1. CASE DeleteEntry(c)
    BY <2>1 DEF DeleteEntry, TypeOK, Goto, Phase
  <2>2. CASE DeleteMark(c)
    <3>1. PICK s \in sweep[c].del :
            /\ done' \in {done \ {s}, done}
            /\ sweep' = [sweep EXCEPT ![c].del = @ \ {s}]
      BY <2>2 DEF DeleteMark
    <3>2. sweep' \in [Client -> [del: SUBSET Slot, drop: SUBSET Slot]]
      BY <3>1 DEF TypeOK
    <3>3. pc' \in [Client -> Phase]
      BY <2>2 DEF DeleteMark, TypeOK, Goto, Phase
    <3>4. QED
      BY <2>2, <3>1, <3>2, <3>3 DEF DeleteMark, TypeOK
  <2>3. QED
    BY <1>11, <2>1, <2>2
<1>12. ASSUME NEW c \in Client, DropAnchor(c) PROVE TypeOK'
  BY <1>12, ReturnType DEF DropAnchor, Reset, TypeOK
<1>13. CASE UNCHANGED vars
  BY <1>13 DEF vars, TypeOK
<1>14. QED
  BY <1>1, <1>2, <1>3, <1>4, <1>5, <1>6, <1>7, <1>8, <1>9, <1>10, <1>11, <1>12,
     <1>13 DEF Next, Step
-----------------------------------------------------------------------------
(* What a loaded view says about the store *)

LEMMA LoadedView ==
  ASSUME TypeOK, NEW c \in Client, ViewOK(c), Loaded(c)
  PROVE  /\ view[c].anch = anchors
         /\ ViewKept(c) \subseteq Visible
         /\ \A s \in ViewKept(c) : view[c].ents[s] = slot[s]
         /\ ViewKept(c) \cap Pending \subseteq ViewPending(c)
  <1>1. view[c].anch = anchors
    BY DEF ViewOK, Loaded
  <1>2. QED
    BY <1>1 DEF ViewOK, Loaded, ViewKept, Visible, Kept, ViewPending, Pending

(* The slot AppendIntent computes is above every anchor and every slot it   *)
(* tried before; if it is free, it is the next slot of the log itself.      *)
LEMMA NextSlot ==
  ASSUME TypeOK, ChainIntact, NEW c \in Client, ViewOK(c), Loaded(c),
         job[c].call = "append", ViewVerifies(c), ~OnRecord(c), ~Blocked(c),
         NEW n \in Slot, NEW h,
         IsNext(view[c].ents, view[c].anch, n),
         LinksTo(view[c].ents, view[c].anch, n, h)
  PROVE  /\ ~Below(n)
         /\ cand[c].seq < n
         /\ slot[n] = NoEntry => Admits(n, h, job[c].op)
  <1> DEFINE K == ViewKept(c)
  <1>1. /\ view[c].anch = anchors /\ K \subseteq Visible
        /\ \A s \in K : view[c].ents[s] = slot[s]
        /\ K \cap Pending \subseteq ViewPending(c)
    BY LoadedView
  <1>2. /\ \A s \in K : s < n
        /\ \A a \in anchors : a.seq < n
        /\ n = 0 \/ n - 1 \in K \/ \E a \in anchors : a.seq = n - 1
    BY <1>1 DEF IsNext, ViewKept
  <1>3. n \in Nat /\ \A a \in anchors : a.seq \in Nat
    BY DEF Slot, TypeOK, Digest
  <1>4. ~Below(n)
    BY <1>2, <1>3 DEF Below
  <1>5. cand[c].seq < n
    <2>1. CASE cand[c].seq = -1
      BY <2>1, <1>3
    <2>2. CASE cand[c].seq # -1
      <3>1. cand[c].seq \in Listed(c) /\ ~Below(cand[c].seq)
        BY <2>2 DEF ViewOK, Loaded
      <3>2. cand[c].seq \in K
        BY <3>1, <1>1, <1>3 DEF Listed, Loaded, ViewKept, Kept, Below, Slot
      <3>3. QED
        BY <3>2, <1>2
    <2>3. QED
      BY <2>1, <2>2
  <1>6. ASSUME slot[n] = NoEntry
        PROVE  Admits(n, h, job[c].op)
    <2>1. \A s \in Visible : s < n
      <3> SUFFICES ASSUME NEW s \in Visible, s >= n PROVE FALSE
        BY <1>3 DEF Visible, Kept, Slot
      <3>1. s \in Slot /\ s # n /\ s > n
        BY <1>6 DEF Visible, Kept, Slot
      <3>2. n \in Visible \/ \E a \in anchors : n <= a.seq
        BY <3>1, <1>3 DEF ChainIntact, Chained, Visible, Slot
      <3>3. QED
        BY <3>2, <1>6, <1>4 DEF Visible, Kept, Below
    <2>2. Visible \subseteq K
      <3> SUFFICES ASSUME NEW s \in Visible PROVE s \in K
        OBVIOUS
      <3>1. s \in Slot /\ s < n /\ \A a \in anchors : a.seq < s
        BY <2>1 DEF Visible, Kept
      <3>2. n - 1 \in K
        BY <3>1, <1>2, <1>3 DEF Slot
      <3>3. CASE s = n - 1
        BY <3>3, <3>2
      <3>4. CASE s # n - 1
        <4>1. s \in 0 .. (n - 1) - 1
          BY <3>1, <3>4, <1>3 DEF Slot
        <4>2. s \in K \/ \E a \in anchors : s <= a.seq
          BY <4>1, <3>2, <1>1 DEF ViewVerifies, Chained, ViewKept
        <4>3. QED
          BY <4>2, <3>1, <1>3 DEF Slot
      <3>5. QED
        BY <3>3, <3>4
    <2>3. IsNext(slot, anchors, n)
      BY <1>1, <1>2, <2>1 DEF IsNext, Visible
    <2>4. LinksTo(slot, anchors, n, h)
      BY <1>1 DEF LinksTo, DigestOf, Visible, ViewKept
    <2>5. \A s \in Visible : slot[s].op # job[c].op
      BY <1>1, <2>2 DEF OnRecord
    <2>6. \A s \in Pending : ~Conflict(slot[s].op, job[c].op)
      BY <1>1, <2>2 DEF Blocked, ViewPending, Pending
    <2>7. QED
      BY <2>3, <2>4, <2>5, <2>6 DEF Admits
  <1>7. QED
    BY <1>4, <1>5, <1>6

(* There is one next slot. *)
LEMMA NextUnique ==
  ASSUME TypeOK, NEW m \in Slot, NEW n \in Slot,
         IsNext(slot, anchors, m), IsNext(slot, anchors, n)
  PROVE  m = n
  BY DEF IsNext, Slot, Kept
-----------------------------------------------------------------------------
(* Steps that change no file *)

(* Every client but c is where it was. *)
Others(c) ==
  \A d \in Client \ {c} :
    /\ pc'[d] = pc[d] /\ job'[d] = job[d] /\ view'[d] = view[d]
    /\ cand'[d] = cand[d] /\ sweep'[d] = sweep[d]
    /\ d \in released => d \in released'

LEMMA Frame ==
  ASSUME StoreInv, UNCHANGED storeVars, NEW c \in Client, Others(c),
         \A d \in Client : LocalOK(d), LocalOK(c)'
  PROVE  StoreInv' /\ \A d \in Client : LocalOK(d)'
<1>1. StoreInv'
  BY DEF StoreInv, ChainIntact, LockTable, MarkersInv, Below, Visible, Pending, storeVars
<1>2. ASSUME NEW d \in Client, d # c PROVE LocalOK(d)'
  <2>1. LocalOK(d) /\ UNCHANGED <<slot, done, failed, anchors, pc[d], job[d],
                                   view[d], cand[d], sweep[d]>>
        /\ (d \in released => d \in released')
    BY <1>2 DEF Others, storeVars
  <2>2. ViewOK(d)'
    BY <2>1 DEF LocalOK, ViewOK, Listed, Below
  <2>3. RenameOK(d)'
    BY <2>1 DEF LocalOK, RenameOK, Admits, Visible, Pending
  <2>4. TriedOK(d)' /\ OwnOK(d)' /\ SweepOK(d)'
    BY <2>1 DEF LocalOK, TriedOK, OwnOK, Owns, SweepOK, Visible, Pending
  <2>5. QED
    BY <2>2, <2>3, <2>4 DEF LocalOK
<1>3. QED
  BY <1>1, <1>2

(* The two assumptions on the environment. *)
Exclusive == RacingPuts = FALSE /\ RacingPrune = FALSE

Rest == CallInv /\ PruneAlone /\ RenameAlone /\ StoreInv /\ \A d \in Client : LocalOK(d)

LEMMA ReturnStep ==
  ASSUME IInv, NEW c \in Client, Reset(c), UNCHANGED storeVars
  PROVE  Rest'
<1>1. pc' = [pc EXCEPT ![c] = "idle"] /\ Others(c)
  BY DEF Reset, Return, Goto, Others, IInv, TypeOK
<1>2. pc'[c] = "idle" /\ \A d \in Client \ {c} : pc'[d] = pc[d] /\ job'[d] = job[d]
  BY <1>1 DEF IInv, TypeOK, Others
<1>3. CallInv' /\ PruneAlone' /\ RenameAlone'
  BY <1>2 DEF IInv, CallInv, PruneAlone, RenameAlone, Active
<1>4. LocalOK(c)'
  BY <1>2 DEF LocalOK, ViewOK, RenameOK, TriedOK, OwnOK, Owns, SweepOK
<1>5. QED
  BY <1>1, <1>3, <1>4, Frame DEF IInv, Rest

LEMMA StartStep ==
  ASSUME Exclusive, IInv, NEW c \in Client, pc[c] \in {"idle", "own"},
         NEW call, NEW o, call # "prune" => o \in Op, Start(c, call, o)
  PROVE  Rest'
<1>1. /\ pc' = [pc EXCEPT ![c] = "get"]
      /\ job' = [job EXCEPT ![c] = [call |-> call, op |-> o]]
      /\ view' = [view EXCEPT ![c] = Listing]
      /\ cand' = [cand EXCEPT ![c] = NoCand]
      /\ sweep' = sweep /\ released' = released \ {c}
      /\ UNCHANGED storeVars
  BY DEF Start, Goto
<1>2. Others(c)
  BY <1>1 DEF Others, IInv, TypeOK
<1>3. /\ pc'[c] = "get" /\ job'[c].call = call /\ job'[c].op = o
      /\ view'[c] = Listing /\ cand'[c].seq = -1
  BY <1>1 DEF IInv, TypeOK, NoCand
<1>4. CallInv'
  BY <1>2, <1>3 DEF IInv, CallInv, Others
<1>5. PruneAlone'
  <2>1. \A d \in Client \ {c} :
          Active(d) => call # "prune" /\ job[d].call # "prune"
    BY DEF Start, MayRun, Exclusive
  <2>2. QED
    BY <1>2, <1>3, <2>1 DEF IInv, PruneAlone, Active, Others
<1>6. RenameAlone'
  BY <1>2, <1>3 DEF IInv, RenameAlone, Others
<1>7. ViewOK(c)'
  BY <1>1, <1>3 DEF ViewOK, Listing, Listed, storeVars, NoEntries
<1>8. LocalOK(c)'
  BY <1>3, <1>7 DEF LocalOK, RenameOK, TriedOK, OwnOK, Owns, SweepOK
<1>9. QED
  BY <1>1, <1>2, <1>4, <1>5, <1>6, <1>8, Frame DEF IInv, Rest

LEMMA ListStep ==
  ASSUME IInv, NEW c \in Client, List(c)
  PROVE  Rest'
<1>1. /\ pc[c] = "list" /\ pc' = [pc EXCEPT ![c] = "get"]
      /\ view' = [view EXCEPT ![c] = Listing]
      /\ UNCHANGED <<storeVars, job, cand, sweep, released>>
  BY DEF List, Goto
<1>2. Others(c) /\ pc'[c] = "get" /\ view'[c] = Listing
  BY <1>1 DEF Others, IInv, TypeOK
<1>3. CallInv' /\ PruneAlone' /\ RenameAlone'
  BY <1>1, <1>2 DEF IInv, CallInv, PruneAlone, RenameAlone, Active, Others
<1>4. cand[c].seq \in Visible
  BY <1>1 DEF IInv, LocalOK, TriedOK
<1>5. ViewOK(c)'
  BY <1>1, <1>2, <1>4
     DEF ViewOK, Listing, Listed, storeVars, NoEntries, Visible, Kept, Below,
         IInv, TypeOK, Slot, Digest
<1>6. LocalOK(c)'
  BY <1>2, <1>5 DEF LocalOK, RenameOK, TriedOK, OwnOK, Owns, SweepOK
<1>7. QED
  BY <1>1, <1>2, <1>3, <1>6, Frame DEF IInv, Rest

LEMMA GetStep ==
  ASSUME IInv, NEW c \in Client, GetEntry(c) \/ GetAnchor(c)
  PROVE  Rest'
<1>1. /\ pc[c] = "get"
      /\ UNCHANGED <<storeVars, pc, job, cand, sweep, released>>
      /\ \A d \in Client \ {c} : view'[d] = view[d]
  BY DEF GetEntry, GetAnchor, IInv, TypeOK
<1>2. Others(c)
  BY <1>1 DEF Others
<1>3. CallInv' /\ PruneAlone' /\ RenameAlone'
  BY <1>1 DEF IInv, CallInv, PruneAlone, RenameAlone, Active
<1>4. view[c] \in View /\ ViewOK(c)
  BY DEF IInv, TypeOK, LocalOK
<1>5. ViewOK(c)'
  <2>1. CASE GetEntry(c)
    <3>1. PICK s \in view[c].todo :
            view' = [view EXCEPT ![c].todo = @ \ {s}, ![c].ents[s] = slot[s]]
      BY <2>1 DEF GetEntry
    <3>2. /\ view'[c].todo = view[c].todo \ {s}
          /\ view'[c].ents = [view[c].ents EXCEPT ![s] = slot[s]]
          /\ view'[c].todoA = view[c].todoA /\ view'[c].anch = view[c].anch
          /\ view'[c].done = view[c].done /\ view'[c].failed = view[c].failed
      BY <3>1, <1>4 DEF IInv, TypeOK, View
    <3>3. s \in Slot /\ slot[s] # NoEntry
      BY <1>1, <1>4 DEF ViewOK, View
    <3>4. \A t \in Slot : view'[c].ents[t] = IF t = s THEN slot[s] ELSE view[c].ents[t]
      BY <3>2, <1>4 DEF View
    <3>5. Listed(c)' = Listed(c)
      BY <3>2, <3>3, <3>4 DEF Listed
    <3>6. QED
      BY <1>1, <1>4, <3>2, <3>3, <3>4, <3>5 DEF ViewOK, Below, storeVars
  <2>2. CASE GetAnchor(c)
    <3>1. PICK s \in view[c].todoA :
            view' = [view EXCEPT ![c].todoA = @ \ {s},
                                 ![c].anch = @ \cup {a \in anchors : a.seq = s}]
      BY <2>2 DEF GetAnchor
    <3>2. /\ view'[c].todoA = view[c].todoA \ {s}
          /\ view'[c].anch = view[c].anch \cup {a \in anchors : a.seq = s}
          /\ view'[c].todo = view[c].todo /\ view'[c].ents = view[c].ents
          /\ view'[c].done = view[c].done /\ view'[c].failed = view[c].failed
      BY <3>1, <1>4 DEF IInv, TypeOK, View
    <3>3. Listed(c)' = Listed(c)
      BY <3>2 DEF Listed
    <3>4. QED
      BY <1>1, <1>4, <3>2, <3>3 DEF ViewOK, Below, storeVars
  <2>3. QED
    BY <2>1, <2>2
<1>6. LocalOK(c)'
  BY <1>1, <1>5 DEF LocalOK, RenameOK, TriedOK, OwnOK, Owns, SweepOK
<1>7. QED
  BY <1>1, <1>2, <1>3, <1>6, Frame DEF IInv, Rest

LEMMA PutStatStep ==
  ASSUME Exclusive, IInv, NEW c \in Client, PutStat(c)
  PROVE  Rest' /\ cand'[c].seq > cand[c].seq
<1>1. PICK n \in Slot, h \in Hash :
        /\ IsNext(view[c].ents, view[c].anch, n)
        /\ LinksTo(view[c].ents, view[c].anch, n, h)
        /\ MayEnterPut(c, n)
        /\ cand' = [cand EXCEPT ![c] = [seq |-> n, prev |-> h]]
        /\ pc' = [pc EXCEPT ![c] = IF slot[n] = NoEntry THEN "rename" ELSE "readback"]
  BY DEF PutStat, Goto
<1>2. /\ Loaded(c) /\ job[c].call = "append" /\ ViewVerifies(c)
      /\ ~OnRecord(c) /\ ~Blocked(c)
      /\ UNCHANGED <<storeVars, job, sweep, released>>
      /\ view' = [view EXCEPT ![c] = NoView]
  BY DEF PutStat
<1>3. /\ ~Below(n) /\ cand[c].seq < n
      /\ slot[n] = NoEntry => Admits(n, h, job[c].op)
  BY <1>1, <1>2, NextSlot DEF IInv, StoreInv, LocalOK
<1>4. Others(c)
  BY <1>1, <1>2 DEF Others, IInv, TypeOK
<1>5. /\ cand'[c].seq = n /\ cand'[c].prev = h
      /\ pc'[c] = IF slot[n] = NoEntry THEN "rename" ELSE "readback"
  BY <1>1 DEF IInv, TypeOK
<1>6. CallInv' /\ PruneAlone'
  BY <1>2, <1>4, <1>5 DEF IInv, CallInv, PruneAlone, Active, Others, Loaded
<1>7. RenameAlone'
  <2>1. ASSUME NEW d \in Client, d # c, pc[d] = "rename", slot[n] = NoEntry
        PROVE  FALSE
    <3>1. cand[d].seq \in Slot /\ IsNext(slot, anchors, cand[d].seq)
      BY <2>1 DEF IInv, LocalOK, RenameOK, Admits
    <3>2. cand[d].seq = n
      BY <3>1, <1>3, <2>1, NextUnique DEF IInv, Admits
    <3>3. QED
      BY <1>1, <2>1, <3>2 DEF MayEnterPut, Exclusive
  <2>2. QED
    BY <1>4, <1>5, <2>1 DEF IInv, RenameAlone, Others
<1>8. RenameOK(c)'
  BY <1>2, <1>3, <1>5 DEF RenameOK, Admits, Visible, Pending, storeVars
<1>9. TriedOK(c)'
  <2>1. slot[n] # NoEntry => n \in Visible
    BY <1>3 DEF Visible, Kept, Below, Slot, IInv, TypeOK, Digest
  <2>2. QED
    BY <1>2, <1>5, <2>1 DEF TriedOK, Visible, storeVars
<1>10. LocalOK(c)'
  BY <1>5, <1>8, <1>9 DEF LocalOK, ViewOK, OwnOK, Owns, SweepOK
<1>11. cand'[c].seq > cand[c].seq
  BY <1>3, <1>5 DEF IInv, TypeOK, Slot
<1>12. QED
  BY <1>2, <1>4, <1>6, <1>10, <1>11, <1>7, Frame DEF IInv, Rest

LEMMA ReadBackStep ==
  ASSUME IInv, NEW c \in Client, ReadBackWon(c) \/ ReadBackLost(c)
  PROVE  Rest'
<1>1. /\ pc[c] = "readback" /\ UNCHANGED <<storeVars, job, view, cand, sweep>>
      /\ pc' = [pc EXCEPT ![c] = IF Won(c) THEN "own" ELSE "list"]
      /\ released \subseteq released'
      /\ Won(c) /\ c \notin released' => cand[c].seq \notin done \cup failed
  BY DEF ReadBackWon, ReadBackLost, Goto
<1>2. Others(c) /\ pc'[c] = IF Won(c) THEN "own" ELSE "list"
  BY <1>1 DEF Others, IInv, TypeOK
<1>3. CallInv' /\ PruneAlone' /\ RenameAlone'
  BY <1>1, <1>2 DEF IInv, CallInv, PruneAlone, RenameAlone, Active, Others
<1>4. cand[c].seq \in Visible
  BY <1>1 DEF IInv, LocalOK, TriedOK
<1>5. TriedOK(c)'
  BY <1>1, <1>4 DEF TriedOK, Visible, storeVars
<1>6. OwnOK(c)'
  BY <1>1, <1>2, <1>4 DEF OwnOK, Owns, Won, Visible, Pending, storeVars
<1>7. LocalOK(c)'
  BY <1>2, <1>5, <1>6 DEF LocalOK, ViewOK, RenameOK, SweepOK
<1>8. QED
  BY <1>1, <1>2, <1>3, <1>7, Frame DEF IInv, Rest
-----------------------------------------------------------------------------
(* Steps that change files *)

LEMMA PutRenameStep ==
  ASSUME IInv, NEW c \in Client, PutRename(c)
  PROVE  Rest' /\ J!Begin(job[c].op)
<1> DEFINE n == cand[c].seq
<1>1. /\ pc[c] = "rename" /\ pc' = [pc EXCEPT ![c] = "readback"]
      /\ slot' = [slot EXCEPT ![n] = [op |-> job[c].op, by |-> c, prev |-> cand[c].prev]]
      /\ UNCHANGED <<done, failed, anchors, job, view, cand, sweep, released>>
  BY DEF PutRename, Goto
<1>2. n \in Slot /\ slot[n] = NoEntry /\ Admits(n, cand[c].prev, job[c].op)
  BY <1>1 DEF IInv, LocalOK, RenameOK
<1>3. Others(c) /\ pc'[c] = "readback"
  BY <1>1 DEF Others, IInv, TypeOK
<1>4. CallInv' /\ PruneAlone' /\ RenameAlone'
  BY <1>1, <1>3 DEF IInv, CallInv, PruneAlone, RenameAlone, Active, Others
<1>5. /\ \A s \in Slot : s # n => slot'[s] = slot[s]
      /\ slot'[n] = [op |-> job[c].op, by |-> c, prev |-> cand[c].prev]
      /\ slot'[n] # NoEntry
  <2>1. job[c].op \in Op
    BY <1>1 DEF IInv, CallInv
  <2>2. [op |-> job[c].op, by |-> c, prev |-> cand[c].prev] \in Entry
    BY <2>1 DEF Entry, IInv, TypeOK
  <2>3. QED
    BY <1>1, <1>2, <2>2, WalAssumption DEF IInv, TypeOK
<1>6. /\ \A s \in Visible : s < n
      /\ \A a \in anchors : a.seq < n
      /\ n = 0 \/ n - 1 \in Visible \/ \E a \in anchors : a.seq = n - 1
  BY <1>2 DEF Admits, IsNext, Visible
<1>7. Visible' = Visible \cup {n}
  BY <1>1, <1>2, <1>5, <1>6 DEF Visible, Kept
<1>8. n \in Nat /\ n \notin Visible /\ \A a \in anchors : a.seq \in Nat
  BY <1>2 DEF Slot, Visible, Kept, IInv, TypeOK, Digest
<1>9. ChainIntact'
  <2>1. ASSUME NEW t \in Visible'
        PROVE  /\ LinksTo(slot', anchors', t, slot'[t].prev)
               /\ \A s \in 0 .. t - 1 : s \in Visible' \/ \E a \in anchors' : s <= a.seq
    <3>1. CASE t = n
      <4>1. LinksTo(slot, anchors, n, cand[c].prev)
        BY <1>2 DEF Admits
      <4>2. LinksTo(slot', anchors', n, slot'[n].prev)
        <5>1. slot'[n].prev = cand[c].prev
              /\ (n - 1 \in Visible => slot'[n - 1] = slot[n - 1])
          BY <1>5, <1>8 DEF Visible, Kept
        <5>2. QED
          BY <4>1, <5>1, <1>1, <1>7 DEF LinksTo, DigestOf, Visible
      <4>3. ASSUME NEW s \in 0 .. n - 1
            PROVE  s \in Visible \/ \E a \in anchors : s <= a.seq
        <5>1. CASE n - 1 \in Visible
          BY <5>1, <1>8 DEF ChainIntact, Chained, Visible, IInv, StoreInv
        <5>2. CASE \E a \in anchors : a.seq = n - 1
          BY <5>2, <1>8
        <5>3. QED
          BY <5>1, <5>2, <1>6
      <4>4. QED
        BY <3>1, <4>2, <4>3, <1>1, <1>7
    <3>2. CASE t \in Visible
      <4>1. /\ LinksTo(slot, anchors, t, slot[t].prev)
            /\ \A s \in 0 .. t - 1 : s \in Visible \/ \E a \in anchors : s <= a.seq
        BY <3>2 DEF ChainIntact, Chained, Visible, IInv, StoreInv
      <4>2. t < n /\ t \in Slot /\ t \in Nat
        BY <3>2, <1>6 DEF Visible, Kept, Slot
      <4>3. LinksTo(slot', anchors', t, slot'[t].prev)
        <5>1. slot'[t] = slot[t] /\ (t - 1 \in Visible => slot'[t - 1] = slot[t - 1])
          BY <4>2, <1>5, <1>8 DEF Visible, Kept
        <5>2. QED
          BY <4>1, <5>1, <1>1, <1>7 DEF LinksTo, DigestOf, Visible
      <4>4. QED
        BY <4>1, <4>3, <1>1, <1>7
    <3>3. QED
      BY <2>1, <3>1, <3>2, <1>7
  <2>2. QED
    BY <2>1 DEF ChainIntact, Chained, Visible
<1>10. Pending \subseteq Pending' /\ Pending' \subseteq Pending \cup {n}
  BY <1>1, <1>7 DEF Pending
<1>11. /\ \A s \in Visible : slot[s].op # job[c].op
       /\ \A s \in Pending : ~Conflict(slot[s].op, job[c].op)
  BY <1>2 DEF Admits
<1>12. \A s \in Visible : slot'[s] = slot[s]
  BY <1>5, <1>8 DEF Visible, Kept
<1>13. LockTable'
  <2> SUFFICES ASSUME NEW s \in Visible', NEW t \in Visible', s # t
               PROVE  /\ slot'[s].op # slot'[t].op
                      /\ s \in Pending' /\ t \in Pending'
                           => ~Conflict(slot'[s].op, slot'[t].op)
    BY DEF LockTable
  <2>1. CASE s # n /\ t # n
    BY <2>1, <1>7, <1>10, <1>12 DEF IInv, StoreInv, LockTable
  <2>2. CASE s = n
    <3>1. t \in Visible /\ slot'[t] = slot[t] /\ slot'[s].op = job[c].op
      BY <2>2, <1>5, <1>7, <1>12
    <3>2. QED
      BY <3>1, <2>2, <1>8, <1>10, <1>11 DEF Conflict
  <2>3. CASE t = n
    <3>1. s \in Visible /\ slot'[s] = slot[s] /\ slot'[t].op = job[c].op
      BY <2>3, <1>5, <1>7, <1>12
    <3>2. QED
      BY <3>1, <2>3, <1>8, <1>10, <1>11 DEF Conflict
  <2>4. QED
    BY <2>1, <2>2, <2>3
<1>14. MarkersInv'
  BY <1>1, <1>2, <1>5 DEF MarkersInv, Below, IInv, StoreInv, TypeOK
<1>15. ASSUME NEW d \in Client, d # c PROVE LocalOK(d)'
  <2>1. /\ UNCHANGED <<pc[d], job[d], view[d], cand[d], sweep[d], anchors, done, failed>>
        /\ released' = released /\ LocalOK(d) /\ view[d] \in View
    BY <1>1, <1>3, <1>15 DEF IInv, Others, TypeOK
  <2>2. ViewOK(d)'
    <3> SUFFICES ASSUME pc[d] = "get" PROVE ViewOK(d)'
      BY <2>1 DEF ViewOK
    <3>1. \A t \in Listed(d) : slot[t] # NoEntry
      BY <2>1 DEF LocalOK, ViewOK, Listed
    <3>2. \A t \in Listed(d) : t \in Slot /\ ~(n < t)
      <4> SUFFICES ASSUME NEW t \in Listed(d), n < t PROVE FALSE
        BY DEF Listed
      <4>1. t \in Slot /\ t \in Nat /\ slot[t] # NoEntry
        BY <3>1 DEF Listed, Slot
      <4>2. t \in Visible
        BY <4>1, <1>6, <1>8 DEF Visible, Kept
      <4>3. QED
        BY <4>1, <4>2, <1>6, <1>8
    <3>3. QED
      BY <2>1, <3>2, <1>2, <1>5 DEF LocalOK, ViewOK, Listed, Below, View
  <2>3. RenameOK(d)'
    BY <2>1, <1>1, <1>15 DEF IInv, RenameAlone, RenameOK
  <2>4. TriedOK(d)' /\ OwnOK(d)' /\ SweepOK(d)'
    BY <2>1, <1>7, <1>10, <1>12 DEF LocalOK, TriedOK, OwnOK, Owns, SweepOK, Pending
  <2>5. QED
    BY <2>2, <2>3, <2>4 DEF LocalOK
<1>16. LocalOK(c)'
  BY <1>1, <1>3, <1>7 DEF LocalOK, ViewOK, RenameOK, TriedOK, OwnOK, Owns, SweepOK
<1>17. J!Begin(job[c].op)
  <2>1. DOMAIN Journal = Visible /\ \A s \in Visible :
          /\ Journal[s].op = slot[s].op
          /\ Journal[s].state = "intent" => s \in Pending
    BY DEF Journal, Pending
  <2>2. \A t \in DOMAIN Journal :
          /\ Journal[t].op # job[c].op
          /\ Journal[t].state = "intent" => ~J!Conflict(Journal[t].op, job[c].op)
    BY <2>1, <1>11 DEF Conflict, J!Conflict
  <2>3. n \notin done \cup failed
    BY <1>2, <1>6, <1>8 DEF IInv, StoreInv, MarkersInv, Below
  <2>4. Journal' = [t \in Visible \cup {n} |->
                      IF t = n THEN [op |-> job[c].op, state |-> "intent"]
                               ELSE Journal[t]]
    BY <2>1, <2>3, <1>1, <1>5, <1>7, <1>12 DEF Journal
  <2>5. QED
    BY <2>1, <2>2, <2>4, <1>2, <1>6 DEF J!Begin
<1>18. QED
  BY <1>4, <1>9, <1>13, <1>14, <1>15, <1>16, <1>17 DEF Rest, StoreInv

LEMMA MarkPutStep ==
  ASSUME IInv, NEW c \in Client, MarkPut(c)
  PROVE  Rest' /\ [J!JNext]_Journal
<1>1. PICK s \in ViewKept(c) :
        /\ view[c].ents[s].op = job[c].op
        /\ done' = IF job[c].call = "done" THEN done \cup {s} ELSE done
        /\ failed' = IF job[c].call = "failed" THEN failed \cup {s} ELSE failed
        /\ released' = (released \cup Owners(s, job[c].op)) \ {c}
  BY DEF MarkPut
<1>2. Loaded(c) /\ UNCHANGED <<slot, anchors>> /\ Return(c)
  BY DEF MarkPut
<1>3. /\ s \in Visible /\ slot[s].op = job[c].op
  BY <1>1, <1>2, LoadedView DEF IInv, LocalOK
<1>4. Others(c) /\ pc'[c] = "idle"
  BY <1>1, <1>2 DEF Return, Goto, Others, IInv, TypeOK
<1>5. CallInv' /\ PruneAlone' /\ RenameAlone'
  BY <1>4 DEF IInv, CallInv, PruneAlone, RenameAlone, Active, Others
<1>6. /\ Visible' = Visible /\ Pending' \subseteq Pending
      /\ done \subseteq done' /\ failed \subseteq failed'
      /\ \A t \in Pending : t # s => t \in Pending'
  BY <1>1, <1>2 DEF Visible, Pending
<1>7. StoreInv'
  <2>1. ChainIntact' /\ LockTable'
    BY <1>2, <1>6 DEF IInv, StoreInv, ChainIntact, LockTable
  <2>2. MarkersInv'
    BY <1>1, <1>2, <1>3 DEF IInv, StoreInv, MarkersInv, Below, Visible, Kept
  <2>3. QED
    BY <2>1, <2>2 DEF StoreInv
<1>8. ASSUME NEW d \in Client, d # c PROVE LocalOK(d)'
  <2>1. /\ UNCHANGED <<pc[d], job[d], view[d], cand[d], sweep[d], slot, anchors>>
        /\ LocalOK(d)
    BY <1>2, <1>4, <1>8 DEF IInv, Others
  <2>2. ViewOK(d)'
    BY <2>1, <1>6 DEF LocalOK, ViewOK, Listed, Below
  <2>3. RenameOK(d)' /\ TriedOK(d)' /\ SweepOK(d)'
    BY <2>1, <1>6 DEF LocalOK, RenameOK, Admits, TriedOK, SweepOK
  <2>4. OwnOK(d)'
    <3> SUFFICES ASSUME Owns(d)'
                 PROVE  cand[d].seq \in Pending' /\ slot[cand[d].seq].op = job[d].op
      BY <2>1 DEF OwnOK
    <3>1. d \notin released /\ d \notin Owners(s, job[c].op) /\ pc[d] = "own"
      BY <2>1, <1>1, <1>8 DEF Owns
    <3>2. cand[d].seq \in Pending /\ slot[cand[d].seq].op = job[d].op
      BY <2>1, <3>1 DEF LocalOK, OwnOK, Owns
    <3>3. cand[d].seq # s
      BY <3>1, <3>2, <1>3 DEF Owners
    <3>4. QED
      BY <3>2, <3>3, <1>6
  <2>5. QED
    BY <2>2, <2>3, <2>4 DEF LocalOK
<1>9. LocalOK(c)'
  BY <1>4 DEF LocalOK, ViewOK, RenameOK, TriedOK, OwnOK, Owns, SweepOK
<1>10. [J!JNext]_Journal
  <2>1. s \in Slot /\ job[c].call \in {"done", "failed"}
    BY <1>1 DEF MarkPut, ViewKept, Kept
  <2>2. CASE s \in done \/ (s \in failed /\ job[c].call = "failed")
    <3>1. \A t \in Visible : /\ t \in done' <=> t \in done
                             /\ t \notin done => (t \in failed' <=> t \in failed)
      BY <2>1, <2>2, <1>1
    <3>2. Journal' = Journal
      BY <3>1, <1>2, <1>6 DEF Journal
    <3>3. QED
      BY <3>2
  <2>3. CASE s \notin done /\ ~(s \in failed /\ job[c].call = "failed")
    <3>1. Journal' = [Journal EXCEPT ![s].state = job[c].call]
      BY <2>1, <2>3, <1>1, <1>2, <1>3, <1>6 DEF Journal
    <3>2. J!Close(s, job[c].call)
      BY <2>1, <2>3, <3>1, <1>3 DEF J!Close, Journal
    <3>3. QED
      BY <2>1, <3>2 DEF J!JNext, J!OpState
  <2>4. QED
    BY <2>2, <2>3
<1>11. QED
  BY <1>5, <1>7, <1>8, <1>9, <1>10 DEF Rest

LEMMA PutAnchorStep ==
  ASSUME IInv, NEW c \in Client, PutAnchor(c)
  PROVE  Rest' /\ \E l \in Slot : J!Forget(l)
<1>1. PICK l \in Slot :
        /\ Prunable(c, l)
        /\ anchors' = IF \E a \in anchors : a.seq = l THEN anchors
                      ELSE anchors \cup {DigestOf(view[c].ents, l)}
        /\ sweep' = [sweep EXCEPT ![c] =
                      [del |-> {s \in ViewKept(c) : s <= l},
                       drop |-> {a.seq : a \in TopAnchor(view[c].anch)}]]
  BY DEF PutAnchor
<1>2. /\ Loaded(c) /\ job[c].call = "prune" /\ pc' = [pc EXCEPT ![c] = "delEntry"]
      /\ view' = [view EXCEPT ![c] = NoView]
      /\ UNCHANGED <<slot, done, failed, job, cand, released>>
  BY DEF PutAnchor, Goto
<1>3. /\ view[c].anch = anchors /\ ViewKept(c) \subseteq Visible
      /\ \A s \in ViewKept(c) : view[c].ents[s] = slot[s]
  BY <1>2, LoadedView DEF IInv, LocalOK
<1>4. /\ l \in ViewKept(c) /\ l \in Visible /\ slot[l] # NoEntry
      /\ \A a \in anchors : a.seq < l
      /\ \A s \in ViewKept(c) : s <= l => s \in done
  BY <1>1, <1>2, <1>3 DEF Prunable, Visible, Kept, IInv, LocalOK, ViewOK, Loaded
<1>5. l \in Nat /\ \A a \in anchors : a.seq \in Nat
  BY DEF Slot, IInv, TypeOK, Digest
<1>6. anchors' = anchors \cup {DigestOf(slot, l)}
  BY <1>1, <1>3, <1>4, <1>5 DEF DigestOf
<1>7. DigestOf(slot, l).seq = l
  BY DEF DigestOf
<1>8. Visible' = {s \in Visible : s > l}
  BY <1>2, <1>6, <1>7 DEF Visible, Kept, Slot
<1>9. \A s \in Visible : s <= l => s \in done
  <2> SUFFICES ASSUME NEW s \in Visible, s <= l PROVE s \in ViewKept(c)
    BY <1>4
  <2>1. s \in Slot /\ slot[s] # NoEntry /\ l \in Listed(c)
    BY <1>4 DEF Visible, Kept, Listed, ViewKept
  <2>2. s \in Listed(c)
    BY <2>1, <1>2, <1>5 DEF IInv, LocalOK, ViewOK, Loaded, Slot
  <2>3. QED
    BY <2>2, <1>2, <1>3 DEF Listed, Loaded, ViewKept, Visible, Kept
<1>10. Others(c) /\ pc'[c] = "delEntry"
  BY <1>1, <1>2 DEF Others, IInv, TypeOK
<1>11. CallInv' /\ PruneAlone' /\ RenameAlone'
  BY <1>2, <1>10 DEF IInv, CallInv, PruneAlone, RenameAlone, Active, Others, Loaded
<1>12. ChainIntact'
  <2>1. ASSUME NEW t \in Visible'
        PROVE  /\ LinksTo(slot', anchors', t, slot'[t].prev)
               /\ \A s \in 0 .. t - 1 : s \in Visible' \/ \E a \in anchors' : s <= a.seq
    <3>1. t \in Visible /\ t > l /\ t \in Slot /\ t \in Nat
      BY <2>1, <1>8 DEF Visible, Kept, Slot
    <3>2. /\ LinksTo(slot, anchors, t, slot[t].prev)
          /\ \A s \in 0 .. t - 1 : s \in Visible \/ \E a \in anchors : s <= a.seq
      BY <3>1 DEF ChainIntact, Chained, Visible, IInv, StoreInv
    <3>3. CASE t - 1 = l
      <4>1. slot[t].prev = DigestOf(slot, l)
        BY <3>1, <3>2, <3>3, <1>4, <1>5 DEF LinksTo
      <4>2. QED
        BY <4>1, <3>1, <3>2, <3>3, <1>2, <1>6, <1>7, <1>8 DEF LinksTo
    <3>4. CASE t - 1 # l
      <4>1. t - 1 > l
        BY <3>1, <3>4, <1>5
      <4>2. t - 1 \in Visible /\ slot[t].prev = DigestOf(slot, t - 1)
        BY <3>1, <3>2, <4>1, <1>4, <1>5 DEF LinksTo, Visible
      <4>3. t - 1 \in Visible'
        BY <4>1, <4>2, <1>8
      <4>4. LinksTo(slot', anchors', t, slot'[t].prev)
        BY <4>2, <4>3, <1>2 DEF LinksTo, Visible
      <4>5. QED
        BY <4>4, <3>2, <1>2, <1>5, <1>6, <1>7, <1>8
    <3>5. QED
      BY <3>3, <3>4
  <2>2. QED
    BY <2>1 DEF ChainIntact, Chained, Visible
<1>13. /\ Visible' \subseteq Visible
       /\ Pending' \subseteq Pending
       /\ Pending \subseteq Pending'
  <2>1. Visible' \subseteq Visible /\ Pending' \subseteq Pending
    BY <1>2, <1>8 DEF Pending
  <2>2. \A s \in Pending : s \in Visible /\ s > l
    BY <1>5, <1>9 DEF Pending, Visible, Kept, Slot
  <2>3. QED
    BY <2>1, <2>2, <1>2, <1>8 DEF Pending
<1>14. LockTable' /\ MarkersInv'
  BY <1>2, <1>6, <1>13 DEF IInv, StoreInv, LockTable, MarkersInv, Below
<1>15. ASSUME NEW d \in Client, d # c PROVE LocalOK(d)'
  <2>1. /\ UNCHANGED <<pc[d], job[d], cand[d]>> /\ released' = released /\ LocalOK(d)
        /\ pc[d] \in {"idle", "own"}
    BY <1>2, <1>10, <1>15 DEF IInv, Others, PruneAlone, Active, Loaded
  <2>2. OwnOK(d)'
    BY <2>1, <1>2, <1>13 DEF LocalOK, OwnOK, Owns
  <2>3. QED
    BY <2>1, <2>2 DEF LocalOK, ViewOK, RenameOK, TriedOK, SweepOK
<1>16. SweepOK(c)'
  <2>1. /\ sweep'[c].del = {s \in ViewKept(c) : s <= l}
        /\ sweep'[c].drop = {a.seq : a \in TopAnchor(view[c].anch)}
    BY <1>1 DEF IInv, TypeOK
  <2>2. /\ \A s \in sweep'[c].del : s <= l
        /\ \A s \in sweep'[c].drop : s < l
    BY <2>1, <1>3, <1>4 DEF TopAnchor
  <2>3. QED
    BY <2>2, <1>6, <1>7 DEF SweepOK
<1>17. LocalOK(c)'
  BY <1>10, <1>16 DEF LocalOK, ViewOK, RenameOK, TriedOK, OwnOK, Owns
<1>18. J!Forget(l)
  <2>1. DOMAIN Journal = Visible
    BY DEF Journal
  <2>2. \A t \in Visible : t <= l => Journal[t].state = "done"
    BY <1>9 DEF Journal
  <2>3. Journal' = [t \in {s \in Visible : s > l} |-> Journal[t]]
    BY <1>2, <1>8 DEF Journal
  <2>4. QED
    BY <2>1, <2>2, <2>3 DEF J!Forget
<1>19. QED
  BY <1>11, <1>12, <1>14, <1>15, <1>17, <1>18 DEF Rest, StoreInv

(* Deleting what lies below an anchor that stays changes nothing.           *)
LEMMA SweepStep ==
  ASSUME IInv, NEW c \in Client, job[c].call = "prune",
         pc[c] \in {"delEntry", "delMark", "drop"},
         Others(c), job'[c] = job[c] \/ pc'[c] = "idle",
         pc'[c] \in {"idle", "delEntry", "delMark", "drop"},
         \A s \in Slot : slot'[s] = slot[s] \/ (slot'[s] = NoEntry /\ Below(s)),
         done' \subseteq done, \A s \in done \ done' : Below(s), failed' = failed,
         anchors' \subseteq anchors,
         \A a \in anchors : a \in anchors' \/ \E b \in anchors' : a.seq < b.seq,
         \A d \in Client \ {c} : d \in released' <=> d \in released,
         SweepOK(c)'
  PROVE  Rest' /\ UNCHANGED Journal
<1>1. \A s \in Slot : Below(s)' <=> Below(s)
  <2>1. \A a \in anchors : a.seq \in Nat
    BY DEF IInv, TypeOK, Digest, Slot
  <2>2. QED
    BY <2>1 DEF Below, Slot
<1>2. \A s \in Slot : Below(s) <=> ~(\A a \in anchors : a.seq < s)
  BY DEF Below, Slot, IInv, TypeOK, Digest
<1>3. \A s \in Slot : Below(s)' <=> ~(\A a \in anchors' : a.seq < s)
  BY DEF Below, Slot, IInv, TypeOK, Digest
<1>4. Visible' = Visible
  BY <1>1, <1>2, <1>3 DEF Visible, Kept
<1>5. \A s \in Visible : s \in Slot /\ slot'[s] = slot[s] /\ ~Below(s)
  BY <1>2 DEF Visible, Kept
<1>6. Pending' = Pending
  BY <1>4, <1>5 DEF Pending
<1>7. ChainIntact'
  <2>1. ASSUME NEW t \in Visible
        PROVE  /\ LinksTo(slot', anchors', t, slot'[t].prev)
               /\ \A s \in 0 .. t - 1 : s \in Visible' \/ \E a \in anchors' : s <= a.seq
    <3>1. /\ LinksTo(slot, anchors, t, slot[t].prev)
          /\ \A s \in 0 .. t - 1 : s \in Visible \/ Below(s)
      BY DEF ChainIntact, Chained, Visible, IInv, StoreInv, Below
    <3>2. slot'[t] = slot[t] /\ t \in Slot /\ \A a \in anchors' : a.seq < t
      BY <1>1, <1>3, <1>5
    <3>3. \A a \in anchors : a.seq = t - 1 => a \in anchors'
      BY <3>2 DEF Slot, IInv, TypeOK, Digest
    <3>4. LinksTo(slot', anchors', t, slot[t].prev)
      BY <3>1, <3>3, <1>4, <1>5 DEF LinksTo, DigestOf, Visible
    <3>5. \A s \in 0 .. t - 1 : s \in Visible' \/ \E a \in anchors' : s <= a.seq
      <4>1. \A s \in 0 .. t - 1 : s \in Slot
        BY <3>2, WalAssumption DEF Slot
      <4>2. QED
        BY <3>1, <4>1, <1>1, <1>4 DEF Below
    <3>6. QED
      BY <3>2, <3>4, <3>5
  <2>2. QED
    BY <2>1, <1>4 DEF ChainIntact, Chained, Visible
<1>8. LockTable'
  BY <1>4, <1>5, <1>6 DEF IInv, StoreInv, LockTable
<1>9. MarkersInv'
  <2>1. done \cup failed \subseteq Slot
    BY DEF IInv, TypeOK
  <2>2. QED
    BY <2>1, <1>1 DEF IInv, StoreInv, MarkersInv
<1>10. ASSUME NEW d \in Client, d # c PROVE LocalOK(d)'
  <2>1. /\ UNCHANGED <<pc[d], job[d], cand[d]>> /\ LocalOK(d)
        /\ d \in released => d \in released'
        /\ pc[d] \in {"idle", "own"}
    BY <1>10 DEF IInv, Others, PruneAlone, Active
  <2>2. OwnOK(d)'
    BY <2>1, <1>10, <1>5, <1>6 DEF LocalOK, OwnOK, Owns, Pending
  <2>3. QED
    BY <2>1, <2>2 DEF LocalOK, ViewOK, RenameOK, TriedOK, SweepOK
<1>11. LocalOK(c)'
  BY DEF LocalOK, ViewOK, RenameOK, TriedOK, OwnOK, Owns
<1>12. CallInv' /\ PruneAlone' /\ RenameAlone'
  BY DEF IInv, CallInv, PruneAlone, RenameAlone, Active, Others
<1>13. UNCHANGED Journal
  <2>1. \A s \in Visible : s \in done' <=> s \in done
    BY <1>5
  <2>2. QED
    BY <2>1, <1>4, <1>5 DEF Journal
<1>14. QED
  BY <1>7, <1>8, <1>9, <1>10, <1>11, <1>12, <1>13 DEF Rest, StoreInv

LEMMA DeleteStep ==
  ASSUME IInv, NEW c \in Client, DeleteEntry(c) \/ DeleteMark(c)
  PROVE  Rest' /\ UNCHANGED Journal
<1>1. PICK s \in sweep[c].del :
        \/ /\ pc[c] = "delEntry" /\ pc' = [pc EXCEPT ![c] = "delMark"]
           /\ slot' = [slot EXCEPT ![s] = NoEntry]
           /\ UNCHANGED <<done, sweep>>
        \/ /\ pc[c] = "delMark"
           /\ pc' = [pc EXCEPT ![c] = IF sweep[c].del = {s} THEN "drop" ELSE "delEntry"]
           /\ done' \in {done \ {s}, done}
           /\ sweep' = [sweep EXCEPT ![c].del = @ \ {s}]
           /\ UNCHANGED slot
  BY DEF DeleteEntry, DeleteMark, Goto
<1>2. UNCHANGED <<failed, anchors, job, view, cand, released>>
  BY DEF DeleteEntry, DeleteMark
<1>3. SweepOK(c) /\ job[c].call = "prune"
  BY <1>1 DEF IInv, LocalOK, CallInv
<1>4. Others(c)
  BY <1>1, <1>2 DEF Others, IInv, TypeOK
<1>5. pc'[c] \in {"delMark", "delEntry", "drop"}
  BY <1>1 DEF IInv, TypeOK
<1>6. sweep'[c].del \subseteq sweep[c].del /\ sweep'[c].drop = sweep[c].drop
  BY <1>1 DEF IInv, TypeOK
<1>7. SweepOK(c)'
  BY <1>1, <1>2, <1>3, <1>6 DEF SweepOK
<1>8. s \in Slot /\ Below(s)
  BY <1>1, <1>3 DEF SweepOK, Below, IInv, TypeOK
<1>9. /\ \A t \in Slot : slot'[t] = slot[t] \/ (slot'[t] = NoEntry /\ Below(t))
      /\ done' \subseteq done /\ \A t \in done \ done' : Below(t)
  BY <1>1, <1>8 DEF IInv, TypeOK
<1>10. QED
  BY <1>1, <1>2, <1>3, <1>4, <1>5, <1>7, <1>9, SweepStep

LEMMA DropAnchorStep ==
  ASSUME IInv, NEW c \in Client, DropAnchor(c)
  PROVE  Rest' /\ UNCHANGED Journal
<1>1. /\ pc[c] = "drop" /\ anchors' = {a \in anchors : a.seq \notin sweep[c].drop}
      /\ UNCHANGED <<slot, done, failed>> /\ Reset(c)
  BY DEF DropAnchor
<1>2. PICK a \in anchors : \A s \in sweep[c].drop : s < a.seq
  BY <1>1 DEF IInv, LocalOK, SweepOK
<1>3. a \in anchors'
  BY <1>1, <1>2 DEF IInv, TypeOK, Digest, Slot
<1>4. \A b \in anchors : b \in anchors' \/ \E e \in anchors' : b.seq < e.seq
  BY <1>1, <1>2, <1>3
<1>5. Others(c) /\ pc'[c] = "idle" /\ \A d \in Client \ {c} : d \in released' <=> d \in released
  BY <1>1 DEF Others, Reset, Return, Goto, IInv, TypeOK
<1>6. job[c].call = "prune"
  BY <1>1 DEF IInv, CallInv
<1>7. SweepOK(c)'
  BY <1>5 DEF SweepOK
<1>8. QED
  BY <1>1, <1>4, <1>5, <1>6, <1>7, SweepStep
-----------------------------------------------------------------------------
(* The inductive invariant *)

LEMMA IInvInit == Init => IInv
<1> SUFFICES ASSUME Init PROVE IInv
  OBVIOUS
<1>1. TypeOK
  BY NoViewType DEF Init, TypeOK, Phase, NoJob, Call, NoCand, NoSweep, Hash
<1>2. Visible = {}
  BY DEF Init, NoEntries, Visible, Kept
<1>3. CallInv /\ PruneAlone /\ RenameAlone
  BY DEF Init, CallInv, PruneAlone, RenameAlone, Active
<1>4. StoreInv
  BY <1>2 DEF Init, StoreInv, ChainIntact, Chained, LockTable, MarkersInv, Visible
<1>5. ASSUME NEW c \in Client PROVE LocalOK(c)
  BY DEF Init, LocalOK, ViewOK, RenameOK, TriedOK, OwnOK, Owns, SweepOK
<1>6. QED
  BY <1>1, <1>3, <1>4, <1>5 DEF IInv

LEMMA IInvStep == Exclusive /\ IInv /\ [Next]_vars => IInv'
<1> SUFFICES ASSUME Exclusive, IInv, [Next]_vars PROVE IInv'
  OBVIOUS
<1>1. TypeOK'
  BY TypeStep DEF IInv
<1>2. ASSUME NEW c \in Client, Begin(c) PROVE Rest'
  <2>1. ASSUME NEW o \in Op, StartAppend(c, o) PROVE Rest'
    BY <2>1, StartStep DEF StartAppend
  <2>2. ASSUME NEW o \in Op, NEW outcome \in {"done", "failed"}, StartMark(c, o, outcome)
        PROVE Rest'
    BY <2>2, StartStep DEF StartMark
  <2>3. CASE StartPrune(c)
    BY <2>3, StartStep DEF StartPrune
  <2>4. QED
    BY <1>2, <2>1, <2>2, <2>3 DEF Begin
<1>3. ASSUME NEW c \in Client, Crash(c) PROVE Rest'
  BY <1>3, ReturnStep DEF Crash
<1>4. ASSUME NEW c \in Client, Step(c) PROVE Rest'
  <2>1. CASE ChainError(c) \/ AppendRefused(c) \/ MarkUnknown(c) \/ PruneNothing(c)
    BY <2>1, ReturnStep DEF ChainError, AppendRefused, MarkUnknown, PruneNothing
  <2>2. CASE List(c) \/ GetEntry(c) \/ GetAnchor(c)
    BY <2>2, ListStep, GetStep
  <2>3. CASE PutStat(c) \/ PutRename(c) \/ ReadBackWon(c) \/ ReadBackLost(c)
    BY <2>3, PutStatStep, PutRenameStep, ReadBackStep
  <2>4. CASE MarkPut(c)
    BY <2>4, MarkPutStep
  <2>5. CASE PutAnchor(c) \/ DeleteEntry(c) \/ DeleteMark(c) \/ DropAnchor(c)
    BY <2>5, PutAnchorStep, DeleteStep, DropAnchorStep
  <2>6. QED
    BY <1>4, <2>1, <2>2, <2>3, <2>4, <2>5 DEF Step
<1>5. CASE UNCHANGED vars
  <2>1. \A c \in Client : LocalOK(c)' <=> LocalOK(c)
    BY <1>5 DEF vars, LocalOK, ViewOK, Listed, Below, RenameOK, Admits, TriedOK,
         OwnOK, Owns, SweepOK, Visible, Pending
  <2>2. StoreInv'
    BY <1>5 DEF vars, IInv, StoreInv, ChainIntact, LockTable, MarkersInv, Below,
         Visible, Pending
  <2>3. CallInv' /\ PruneAlone' /\ RenameAlone'
    BY <1>5 DEF vars, IInv, CallInv, PruneAlone, RenameAlone, Active
  <2>4. QED
    BY <1>1, <2>1, <2>2, <2>3 DEF IInv
<1>6. CASE Next
  <2>1. Rest'
    BY <1>2, <1>3, <1>4, <1>6 DEF Next
  <2>2. QED
    BY <1>1, <2>1 DEF Rest, IInv
<1>7. QED
  BY <1>5, <1>6

(* Under the two assumptions on the environment, every reachable state      *)
(* satisfies the inductive invariant.                                       *)
THEOREM Inductive == Exclusive => (Spec => []IInv)
<1> SUFFICES ASSUME Exclusive PROVE Spec => []IInv
  OBVIOUS
<1>1. IInv /\ [Next]_vars => IInv'
  BY IInvStep
<1>2. QED
  BY IInvInit, <1>1, PTL DEF Spec
-----------------------------------------------------------------------------
(* What the invariant gives *)

(* Every variable keeps its type. *)
THEOREM TypeCorrect == Exclusive => (Spec => []TypeOK)
<1> SUFFICES ASSUME Exclusive PROVE Spec => []TypeOK
  OBVIOUS
<1>1. IInv => TypeOK
  BY DEF IInv
<1>2. QED
  BY Inductive, <1>1, PTL

(* The log's files verify at every moment, whatever crashed when: in        *)
(* particular between any two deletions of a Prune.                         *)
THEOREM ChainHolds == Exclusive => (Spec => []ChainIntact)
<1> SUFFICES ASSUME Exclusive PROVE Spec => []ChainIntact
  OBVIOUS
<1>1. IInv => ChainIntact
  BY DEF IInv, StoreInv
<1>2. QED
  BY Inductive, <1>1, PTL

(* Pending operations on record never share a blob. *)
THEOREM LockTableHolds == Exclusive => (Spec => []LockTable)
<1> SUFFICES ASSUME Exclusive PROVE Spec => []LockTable
  OBVIOUS
<1>1. IInv => LockTable
  BY DEF IInv, StoreInv
<1>2. QED
  BY Inductive, <1>1, PTL

(* Two clients that AppendIntent told they own different operations, not    *)
(* marked since, work on different blobs.  That no two are in one Put of    *)
(* one slot is the hypothesis here, not something the code ensures.         *)
LEMMA Exclusion == Exclusive => (Spec => []MutualExclusion)
<1> SUFFICES ASSUME Exclusive PROVE Spec => []MutualExclusion
  OBVIOUS
<1>1. ASSUME IInv PROVE MutualExclusion
  <2> SUFFICES ASSUME NEW c \in Client, NEW d \in Client, Owns(c), Owns(d),
                      job[c].op # job[d].op
               PROVE  ~Conflict(job[c].op, job[d].op)
    BY DEF MutualExclusion
  <2>1. /\ cand[c].seq \in Pending /\ slot[cand[c].seq].op = job[c].op
        /\ cand[d].seq \in Pending /\ slot[cand[d].seq].op = job[d].op
    BY <1>1 DEF IInv, LocalOK, OwnOK
  <2>2. cand[c].seq # cand[d].seq
    BY <2>1
  <2>3. QED
    BY <1>1, <2>1, <2>2 DEF IInv, StoreInv, LockTable, Pending
<1>2. QED
  BY Inductive, <1>1, PTL

(* Each round of AppendIntent tries a higher slot than the round before.    *)
THEOREM RoundsAdvance == Exclusive => (Spec => RetriesAdvance)
<1> SUFFICES ASSUME Exclusive PROVE Spec => RetriesAdvance
  OBVIOUS
<1>1. IInv /\ [Next]_vars => [\A c \in Client : PutStat(c) => cand'[c].seq > cand[c].seq]_vars
  BY PutStatStep
<1>2. QED
  BY Inductive, <1>1, PTL DEF Spec, RetriesAdvance

(* The files implement the journal with one lock per blob: an append adds a *)
(* pending record, a marker closes one, a Prune forgets a done prefix the   *)
(* moment its anchor is written, and no other file operation, and no crash, *)
(* shows.                                                                   *)
THEOREM Refinement == Exclusive => (Spec => JournalSpec)
<1> SUFFICES ASSUME Exclusive PROVE Spec => JournalSpec
  OBVIOUS
<1>1. Init => J!JInit
  BY DEF Init, NoEntries, J!JInit, Journal, Visible, Kept
<1>2. ASSUME IInv, [Next]_vars PROVE [J!JNext]_Journal
  <2>1. UNCHANGED storeVars => UNCHANGED Journal
    BY DEF storeVars, Journal, Visible
  <2>2. ASSUME NEW c \in Client, Begin(c) \/ Crash(c) PROVE UNCHANGED Journal
    BY <2>1, <2>2 DEF Begin, StartAppend, StartMark, StartPrune, Start, Crash
  <2>3. ASSUME NEW c \in Client, Step(c) PROVE [J!JNext]_Journal
    <3>1. CASE \/ ChainError(c) \/ AppendRefused(c) \/ MarkUnknown(c) \/ PruneNothing(c)
               \/ List(c) \/ GetEntry(c) \/ GetAnchor(c)
               \/ PutStat(c) \/ ReadBackWon(c) \/ ReadBackLost(c)
      BY <2>1, <3>1 DEF ChainError, AppendRefused, MarkUnknown, PruneNothing, List,
           GetEntry, GetAnchor, PutStat, ReadBackWon, ReadBackLost
    <3>2. CASE PutRename(c)
      <4>1. job[c].op \in Op
        BY <1>2, <3>2 DEF PutRename, IInv, CallInv
      <4>2. QED
        BY <1>2, <3>2, <4>1, PutRenameStep DEF J!JNext
    <3>3. CASE MarkPut(c)
      BY <1>2, <3>3, MarkPutStep
    <3>4. CASE PutAnchor(c)
      BY <1>2, <3>4, PutAnchorStep DEF J!JNext
    <3>5. CASE DeleteEntry(c) \/ DeleteMark(c) \/ DropAnchor(c)
      BY <1>2, <3>5, DeleteStep, DropAnchorStep
    <3>6. QED
      BY <2>3, <3>1, <3>2, <3>3, <3>4, <3>5 DEF Step
  <2>4. QED
    BY <1>2, <2>1, <2>2, <2>3 DEF Next, vars, storeVars
<1>3. QED
  BY Inductive, <1>1, <1>2, PTL DEF Spec, JournalSpec, J!JSpec
=============================================================================
