--------------------------- MODULE CrossMoveProofs ---------------------------
(***************************************************************************)
(* Proofs about CrossMove.tla, for any number of members, paths and        *)
(* records.  The types hold whoever runs; when commands do not overlap,    *)
(* the file is never lost, also when moves are retried and asked for again *)
(* after they were done; when they are not, it has one live home, and a    *)
(* move takes it from one to another in one step (FileHome).               *)
(***************************************************************************)
EXTENDS CrossMove, TLAPS

(* Commands do not overlap. *)
OneAtATime == \A c, d \in Client : c = d

(* What a client has in hand, by where it is. *)
CallInv ==
  \A c \in Client :
    /\ pc[c] \notin {"idle", "rewrite", "mark"} => job[c].op \in Move
    /\ pc[c] \in {"rewrite", "mark"} => job[c].at \in Member

TypeInv == MoveTypeOK /\ CallInv

-----------------------------------------------------------------------------
(* Typing *)

LEMMA IsASequence ==
  ASSUME NEW S, NEW l \in Nat, NEW f \in [1 .. l -> S]
  PROVE  f \in Seq(S)
  OBVIOUS

(* A record of a log that is closed is a record still, of the same part in  *)
(* the same operation.                                                      *)
LEMMA ClosedType ==
  ASSUME MoveTypeOK, NEW m \in Member, NEW n
  PROVE  /\ Closed(m, n) \in [Member -> Seq(Entry)]
         /\ \A k \in Member :
              /\ DOMAIN Closed(m, n)[k] = DOMAIN log[k]
              /\ \A i \in DOMAIN log[k] : /\ Closed(m, n)[k][i].role = log[k][i].role
                                          /\ Closed(m, n)[k][i].op = log[k][i].op
<1> DEFINE s == [log[m] EXCEPT ![n].state = "done"]
<1>1. log[m] \in Seq(Entry)
  BY DEF MoveTypeOK
<1>2. PICK l \in Nat : log[m] \in [1 .. l -> Entry]
  BY <1>1
<1>3. \A i \in 1 .. l : s[i] = IF i = n THEN [log[m][i] EXCEPT !.state = "done"] ELSE log[m][i]
  BY <1>2
<1>4. \A e \in Entry : /\ [e EXCEPT !.state = "done"] \in Entry
                       /\ [e EXCEPT !.state = "done"].role = e.role
                       /\ [e EXCEPT !.state = "done"].op = e.op
  BY DEF Entry
<1>5. s \in [1 .. l -> Entry]
  BY <1>2, <1>3, <1>4
<1>6. s \in Seq(Entry)
  <2> HIDE DEF s
  <2> QED
    BY <1>5, IsASequence
<1>7. Closed(m, n) = [log EXCEPT ![m] = s]
  BY DEF Closed
<1>8. /\ DOMAIN s = DOMAIN log[m]
      /\ \A i \in DOMAIN log[m] : s[i].role = log[m][i].role /\ s[i].op = log[m][i].op
  BY <1>2, <1>3, <1>4
<1> HIDE DEF s
<1>9. QED
  BY <1>6, <1>7, <1>8 DEF MoveTypeOK

LEMMA AnnounceType ==
  ASSUME MoveTypeOK, NEW m \in Member, NEW o \in Move, NEW role \in {"out", "in"},
         Announce(m, o, role)
  PROVE  log' \in [Member -> Seq(Entry)]
<1>1. [op |-> o, role |-> role, state |-> "intent"] \in Entry
  BY DEF Entry
<1>2. log[m] \in Seq(Entry)
  BY DEF MoveTypeOK
<1>3. Append(log[m], [op |-> o, role |-> role, state |-> "intent"]) \in Seq(Entry)
  BY <1>1, <1>2
<1>4. QED
  BY <1>3 DEF Announce, MoveTypeOK

LEMMA JobType == NoJob \in Job
  BY DEF NoJob, Job, Place

LEMMA LeaveType ==
  ASSUME TypeInv, NEW c \in Client, Leave(c)
  PROVE  /\ pc' \in [Client -> Phase]
         /\ job' \in [Client -> Job]
         /\ CallInv'
  BY JobType DEF TypeInv, MoveTypeOK, CallInv, Leave, Goto, Phase, NoJob

(* A step on the way of a move, to phase p. *)
LEMMA GotoType ==
  ASSUME TypeInv, NEW c \in Client,
         NEW p \in {"in", "transfer", "arrive", "inDone", "reread", "depart", "outDone"},
         Goto(c, p), pc[c] \notin {"idle", "rewrite", "mark"}, UNCHANGED job
  PROVE  /\ pc' \in [Client -> Phase]
         /\ job' \in [Client -> Job]
         /\ CallInv'
  BY DEF TypeInv, MoveTypeOK, CallInv, Goto, Phase

LEMMA InHand ==
  ASSUME TypeInv, NEW c \in Client, pc[c] \notin {"idle", "rewrite", "mark"}
  PROVE  /\ job[c].op \in Move
         /\ job[c].op.from \in Member /\ job[c].op.to \in Member
         /\ job[c].op.path \in Path /\ job[c].cat \in SUBSET Place
  BY DEF TypeInv, CallInv, MoveTypeOK, Job, Move

LEMMA TypeStep == TypeInv /\ [MoveNext]_moveVars => TypeInv'
<1> SUFFICES ASSUME TypeInv, [MoveNext]_moveVars PROVE TypeInv'
  OBVIOUS
<1> USE DEF TypeInv
<1>1. ASSUME NEW c \in Client, NEW o \in Move, Mv(c, o) PROVE TypeInv'
  <2>1. [NoJob EXCEPT !.op = o, !.cat = rows[o.to]] \in Job
    BY JobType DEF NoJob, Job, MoveTypeOK, Move
  <2>2. [NoJob EXCEPT !.op = o, !.cat = rows[o.to]].op = o
    BY DEF NoJob
  <2>3. QED
    BY <1>1, <2>1, <2>2 DEF Mv, MoveTypeOK, CallInv, Goto, Phase, nodes
<1>2. ASSUME NEW c \in Client, OutIntent(c) PROVE TypeInv'
  BY <1>2, InHand, AnnounceType, GotoType DEF OutIntent, MoveTypeOK
<1>3. ASSUME NEW c \in Client, InIntent(c) PROVE TypeInv'
  BY <1>3, InHand, AnnounceType, GotoType DEF InIntent, MoveTypeOK
<1>4. ASSUME NEW c \in Client, Transfer(c) PROVE TypeInv'
  BY <1>4, InHand, GotoType DEF Transfer, MoveTypeOK
<1>5. ASSUME NEW c \in Client, Arrive(c) PROVE TypeInv'
  BY <1>5, InHand, GotoType DEF Arrive, MoveTypeOK, Place
<1>6. ASSUME NEW c \in Client, InDone(c) PROVE TypeInv'
  BY <1>6, InHand, ClosedType, GotoType DEF InDone, MoveTypeOK
<1>7. ASSUME NEW c \in Client, Reread(c) PROVE TypeInv'
  <2>1. job' \in [Client -> Job]
    BY <1>7, InHand DEF Reread, MoveTypeOK, Job
  <2>2. \A d \in Client : job'[d].op = job[d].op /\ job'[d].at = job[d].at
    BY <1>7 DEF Reread, MoveTypeOK, Job
  <2>3. QED
    BY <1>7, <2>1, <2>2 DEF Reread, MoveTypeOK, CallInv, Goto, Phase, nodes
<1>8. ASSUME NEW c \in Client, Depart(c) PROVE TypeInv'
  BY <1>8, InHand, GotoType DEF Depart, MoveTypeOK
<1>9. ASSUME NEW c \in Client, OutDone(c) PROVE TypeInv'
  BY <1>9, InHand, ClosedType, LeaveType DEF OutDone, MoveTypeOK
<1>10. ASSUME NEW c \in Client, NEW m \in Member, Rm(c, m) PROVE TypeInv'
  <2>1. [op |-> NoMove, role |-> "rm", state |-> "done"] \in Entry
    BY DEF Entry
  <2>2. log' \in [Member -> Seq(Entry)]
    BY <1>10, <2>1 DEF Rm, MoveTypeOK
  <2>3. rows' \in [Member -> SUBSET Place] /\ objects' \in SUBSET Member
    BY <1>10 DEF Rm, MoveTypeOK
  <2>4. QED
    BY <1>10, <2>2, <2>3 DEF Rm, MoveTypeOK, CallInv
<1>11. ASSUME NEW c \in Client, NEW m \in Member, NEW n \in DOMAIN log[m], Retry(c, m, n)
       PROVE TypeInv'
  <2>1. n \in Nat
    BY DEF MoveTypeOK
  <2>2. [NoJob EXCEPT !.cat = rows[m], !.at = m, !.n = n] \in Job
    BY <2>1, JobType DEF NoJob, Job, MoveTypeOK
  <2>3. [NoJob EXCEPT !.cat = rows[m], !.at = m, !.n = n].at = m
    BY DEF NoJob
  <2>4. QED
    BY <1>11, <2>2, <2>3 DEF Retry, MoveTypeOK, CallInv, Goto, Phase, nodes
<1>12. ASSUME NEW c \in Client, RetryWrite(c) PROVE TypeInv'
  <2>1. \A k, role : Renamed(k, role) \in SUBSET Place
    BY DEF Renamed, Place
  <2>2. QED
    BY <1>12, <2>1 DEF RetryWrite, MoveTypeOK, CallInv, Goto, Phase
<1>13. ASSUME NEW c \in Client, RetryDone(c) PROVE TypeInv'
  <2>1. job[c].at \in Member
    BY <1>13 DEF RetryDone, CallInv
  <2>2. QED
    BY <1>13, <2>1, ClosedType, LeaveType DEF RetryDone, MoveTypeOK
<1>14. ASSUME NEW c \in Client, Crash(c) PROVE TypeInv'
  BY <1>14, LeaveType DEF Crash, MoveTypeOK, nodes
<1>15. CASE UNCHANGED moveVars
  BY <1>15 DEF moveVars, MoveTypeOK, CallInv
<1>16. QED
  BY <1>1, <1>2, <1>3, <1>4, <1>5, <1>6, <1>7, <1>8, <1>9, <1>10, <1>11, <1>12,
     <1>13, <1>14, <1>15 DEF MoveNext, Command, Progress

LEMMA TypeStart == MoveInit => TypeInv
  BY JobType DEF MoveInit, TypeInv, MoveTypeOK, CallInv, Phase, Place

LEMMA TypeInductive == MoveSpec => []TypeInv
  BY TypeStart, TypeStep, PTL DEF MoveSpec

(* The catalogs, logs and calls keep their shape, however many commands     *)
(* overlap: what mvCross and ops retry write is a path, a member's name or  *)
(* the empty path.                                                          *)
THEOREM MoveTypeCorrect == MoveSpec => []MoveTypeOK
<1>1. TypeInv => MoveTypeOK
  BY DEF TypeInv
<1>2. QED
  BY <1>1, TypeInductive, PTL

-----------------------------------------------------------------------------
(* The file is never lost *)

(* A move goes to another member.  Once its bytes are there they stay while *)
(* the move goes on, and so does its row, until the source has let go.  A   *)
(* catalog about to be written is the one that is there.                    *)
HandOK(c) ==
  /\ pc[c] \notin {"idle", "rewrite", "mark"} => job[c].op.from # job[c].op.to
  /\ pc[c] \in {"arrive", "inDone", "reread", "depart"} => job[c].op.to \in objects
  /\ pc[c] \in {"inDone", "reread", "depart"} => Holds(job[c].op.to)
  /\ pc[c] = "depart" => job[c].cat = rows[job[c].op.from]
  /\ pc[c] = "rewrite" => job[c].cat = rows[job[c].at]

LostInv == NeverLost /\ \A c \in Client : HandOK(c)

(* A removal is on record for good. *)
LEMMA AppendKeeps ==
  ASSUME MoveTypeOK, NEW m \in Member, NEW e \in Entry,
         log' = [log EXCEPT ![m] = Append(@, e)]
  PROVE  /\ Removed => Removed'
         /\ e.role = "rm" => Removed'
<1>1. log[m] \in Seq(Entry)
  BY DEF MoveTypeOK
<1>2. /\ DOMAIN Append(log[m], e) = 1 .. Len(log[m]) + 1
      /\ \A n \in 1 .. Len(log[m]) : Append(log[m], e)[n] = log[m][n]
      /\ Append(log[m], e)[Len(log[m]) + 1] = e
      /\ DOMAIN log[m] = 1 .. Len(log[m]) /\ Len(log[m]) \in Nat
  BY <1>1
<1>3. /\ log'[m] = Append(log[m], e)
      /\ \A k \in Member : k # m => log'[k] = log[k]
  BY DEF MoveTypeOK
<1>4. ASSUME NEW k \in Member, NEW n \in DOMAIN log[k]
      PROVE  n \in DOMAIN log'[k] /\ log'[k][n] = log[k][n]
  BY <1>2, <1>3
<1>5. Len(log[m]) + 1 \in DOMAIN log'[m] /\ log'[m][Len(log[m]) + 1] = e
  BY <1>2, <1>3
<1>6. QED
  BY <1>4, <1>5 DEF Removed

LEMMA ClosedKeeps ==
  ASSUME MoveTypeOK, NEW m \in Member, NEW n, log' = Closed(m, n)
  PROVE  Removed => Removed'
<1>1. \A k \in Member :
        /\ DOMAIN log'[k] = DOMAIN log[k]
        /\ \A i \in DOMAIN log[k] : log'[k][i].role = log[k][i].role
  BY ClosedType
<1>2. QED
  BY <1>1 DEF Removed

LEMMA RemovedStays ==
  ASSUME TypeInv, [MoveNext]_moveVars
  PROVE  Removed => Removed'
<1> USE DEF TypeInv
<1>1. ASSUME NEW m \in Member, NEW n, log' = Closed(m, n) PROVE Removed => Removed'
  BY <1>1, ClosedKeeps
<1>2. ASSUME NEW m \in Member, NEW o \in Move, NEW role \in {"out", "in"},
             Announce(m, o, role)
      PROVE  Removed => Removed'
  <2>1. [op |-> o, role |-> role, state |-> "intent"] \in Entry
    BY DEF Entry
  <2>2. CASE UNCHANGED log
    BY <2>2 DEF Removed
  <2>3. QED
    BY <1>2, <2>1, <2>2, AppendKeeps DEF Announce
<1>3. ASSUME NEW c \in Client, NEW m \in Member, Rm(c, m) PROVE Removed => Removed'
  <2>1. [op |-> NoMove, role |-> "rm", state |-> "done"] \in Entry
    BY DEF Entry
  <2>2. QED
    BY <1>3, <2>1, AppendKeeps DEF Rm
<1>4. ASSUME NEW c \in Client, OutIntent(c) \/ InIntent(c) PROVE Removed => Removed'
  BY <1>2, <1>4, InHand DEF OutIntent, InIntent
<1>5. ASSUME NEW c \in Client, InDone(c) \/ OutDone(c) PROVE Removed => Removed'
  BY <1>1, <1>5, InHand DEF InDone, OutDone
<1>6. ASSUME NEW c \in Client, RetryDone(c) PROVE Removed => Removed'
  BY <1>1, <1>6 DEF RetryDone, CallInv
<1>7. CASE UNCHANGED log
  BY <1>7 DEF Removed
<1>8. QED
  BY <1>3, <1>4, <1>5, <1>6, <1>7 DEF MoveNext, Command, Progress, Mv, Transfer, Arrive,
     Reread, Depart, Retry, RetryWrite, Crash, nodes, moveVars

(* Nobody but the one client is at work. *)
LEMMA Alone ==
  ASSUME OneAtATime, NEW c \in Client, HandOK(c)'
  PROVE  (\A d \in Client : HandOK(d))'
  BY DEF OneAtATime

LEMMA LostStep ==
  ASSUME OneAtATime, TypeInv, LostInv, [MoveNext]_moveVars
  PROVE  LostInv'
<1> USE DEF TypeInv
<1>1. ASSUME NEW c \in Client, NEW o \in Move, Mv(c, o) PROVE LostInv'
  <2>1. job'[c].op = o /\ pc'[c] = "out"
    BY <1>1 DEF Mv, Goto, NoJob, MoveTypeOK
  <2>2. HandOK(c)'
    BY <1>1, <2>1 DEF HandOK, Mv
  <2>3. QED
    BY <1>1, <2>2, Alone DEF LostInv, NeverLost, Removed, Holds, Mv, nodes
<1>2. ASSUME NEW c \in Client, OutIntent(c) PROVE LostInv'
  <2>1. HandOK(c)'
    BY <1>2 DEF HandOK, LostInv, OutIntent, Goto, MoveTypeOK
  <2>2. QED
    BY <1>2, <2>1, Alone, RemovedStays DEF LostInv, NeverLost, Holds, OutIntent
<1>3. ASSUME NEW c \in Client, InIntent(c) PROVE LostInv'
  <2>1. HandOK(c)'
    BY <1>3 DEF HandOK, LostInv, InIntent, Goto, MoveTypeOK
  <2>2. QED
    BY <1>3, <2>1, Alone, RemovedStays DEF LostInv, NeverLost, Holds, InIntent
<1>4. ASSUME NEW c \in Client, Transfer(c) PROVE LostInv'
  <2>1. HandOK(c)'
    BY <1>4 DEF HandOK, LostInv, Transfer, Goto, MoveTypeOK
  <2>2. QED
    BY <1>4, <2>1, Alone, RemovedStays DEF LostInv, NeverLost, Holds, Transfer
<1>5. ASSUME NEW c \in Client, Arrive(c) PROVE LostInv'
  <2>1. job[c].op.to \in Member /\ job[c].op.to \in objects
    BY <1>5, InHand DEF Arrive, LostInv, HandOK
  <2>2. /\ rows'[job[c].op.to] # {}
        /\ \A m \in Member : m # job[c].op.to => rows'[m] = rows[m]
    BY <1>5, <2>1 DEF Arrive, MoveTypeOK
  <2>3. HandOK(c)'
    BY <1>5, <2>1, <2>2 DEF HandOK, LostInv, Arrive, Goto, MoveTypeOK, Holds
  <2>4. QED
    BY <1>5, <2>1, <2>2, <2>3, Alone DEF LostInv, NeverLost, Holds, Arrive
<1>6. ASSUME NEW c \in Client, InDone(c) PROVE LostInv'
  <2>1. HandOK(c)'
    BY <1>6 DEF HandOK, LostInv, InDone, Goto, MoveTypeOK, Holds
  <2>2. QED
    BY <1>6, <2>1, Alone, RemovedStays DEF LostInv, NeverLost, Holds, InDone
<1>7. ASSUME NEW c \in Client, Reread(c) PROVE LostInv'
  <2>1. job'[c].cat = rows[job[c].op.from] /\ job'[c].op = job[c].op
    BY <1>7 DEF Reread, MoveTypeOK, Job
  <2>2. pc'[c] = "depart" /\ rows' = rows /\ objects' = objects
    BY <1>7 DEF Reread, Goto, MoveTypeOK, nodes
  <2>3. /\ job[c].op.from # job[c].op.to
        /\ job[c].op.to \in objects /\ Holds(job[c].op.to)
    BY <1>7 DEF Reread, LostInv, HandOK
  <2>4. HandOK(c)'
    BY <2>1, <2>2, <2>3 DEF HandOK, Holds
  <2>5. QED
    BY <1>7, <2>4, Alone, RemovedStays DEF LostInv, NeverLost, Holds, Reread, nodes
<1>8. ASSUME NEW c \in Client, Depart(c) PROVE LostInv'
  <2>1. /\ job[c].op.from \in Member /\ job[c].op.to \in Member
        /\ job[c].op.from # job[c].op.to /\ Holds(job[c].op.to)
        /\ job[c].cat = rows[job[c].op.from]
    BY <1>8, InHand DEF Depart, LostInv, HandOK
  <2>2. /\ rows'[job[c].op.from] \subseteq rows[job[c].op.from]
        /\ \A m \in Member : m # job[c].op.from => rows'[m] = rows[m]
    BY <1>8, <2>1 DEF Depart, MoveTypeOK
  <2>3. HandOK(c)'
    BY <1>8 DEF HandOK, LostInv, Depart, Goto, MoveTypeOK
  <2>4. QED
    BY <1>8, <2>1, <2>2, <2>3, Alone DEF LostInv, NeverLost, Holds, Depart
<1>9. ASSUME NEW c \in Client, OutDone(c) PROVE LostInv'
  <2>1. HandOK(c)'
    BY <1>9 DEF HandOK, OutDone, Leave, Goto, MoveTypeOK
  <2>2. QED
    BY <1>9, <2>1, Alone, RemovedStays DEF LostInv, NeverLost, Holds, OutDone
<1>10. ASSUME NEW c \in Client, NEW m \in Member, Rm(c, m) PROVE LostInv'
  <2>1. [op |-> NoMove, role |-> "rm", state |-> "done"] \in Entry
    BY DEF Entry
  <2>2. Removed'
    BY <1>10, <2>1, AppendKeeps DEF Rm
  <2>3. PICK p \in rows[m] :
          /\ rows' = [rows EXCEPT ![m] = @ \ {p}]
          /\ objects' = IF rows[m] = {p} THEN objects \ {m} ELSE objects
    BY <1>10 DEF Rm
  <2>4. \A k \in Member : Holds(k)' => k \in objects'
    BY <2>3 DEF LostInv, NeverLost, Holds, MoveTypeOK
  <2>5. HandOK(c)'
    BY <1>10 DEF Rm, HandOK
  <2>6. QED
    BY <2>2, <2>4, <2>5, Alone DEF LostInv, NeverLost
<1>11. ASSUME NEW c \in Client, NEW m \in Member, NEW n \in DOMAIN log[m], Retry(c, m, n)
       PROVE LostInv'
  <2>1. job'[c].cat = rows[m] /\ job'[c].at = m /\ pc'[c] = "rewrite"
    BY <1>11 DEF Retry, Goto, NoJob, MoveTypeOK
  <2>2. HandOK(c)'
    BY <1>11, <2>1 DEF HandOK, Retry, nodes
  <2>3. QED
    BY <1>11, <2>2, Alone, RemovedStays DEF LostInv, NeverLost, Holds, Retry, nodes
<1>12. ASSUME NEW c \in Client, RetryWrite(c) PROVE LostInv'
  <2>1. job[c].at \in Member /\ job[c].cat = rows[job[c].at]
    BY <1>12 DEF RetryWrite, CallInv, LostInv, HandOK
  <2>2. \A m \in Member : rows'[m] = {} <=> rows[m] = {}
    BY <1>12, <2>1 DEF RetryWrite, Renamed, MoveTypeOK
  <2>3. HandOK(c)'
    BY <1>12 DEF HandOK, RetryWrite, Goto, MoveTypeOK
  <2>4. QED
    BY <1>12, <2>2, <2>3, Alone, RemovedStays DEF LostInv, NeverLost, Holds, RetryWrite
<1>13. ASSUME NEW c \in Client, RetryDone(c) PROVE LostInv'
  <2>1. HandOK(c)'
    BY <1>13 DEF HandOK, RetryDone, Leave, Goto, MoveTypeOK
  <2>2. QED
    BY <1>13, <2>1, Alone, RemovedStays DEF LostInv, NeverLost, Holds, RetryDone
<1>14. ASSUME NEW c \in Client, Crash(c) PROVE LostInv'
  <2>1. HandOK(c)'
    BY <1>14 DEF HandOK, Crash, Leave, Goto, MoveTypeOK
  <2>2. QED
    BY <1>14, <2>1, Alone, RemovedStays DEF LostInv, NeverLost, Holds, Crash, nodes
<1>15. CASE UNCHANGED moveVars
  BY <1>15, RemovedStays DEF moveVars, LostInv, NeverLost, HandOK, Holds
<1>16. QED
  BY <1>1, <1>2, <1>3, <1>4, <1>5, <1>6, <1>7, <1>8, <1>9, <1>10, <1>11, <1>12,
     <1>13, <1>14, <1>15 DEF MoveNext, Command, Progress

LEMMA LostStart == MoveInit => LostInv
<1> SUFFICES ASSUME MoveInit PROVE LostInv
  OBVIOUS
<1>1. PICK m \in Member, p \in Path :
        /\ rows = [k \in Member |-> IF k = m THEN {p} ELSE {}]
        /\ objects = {m}
  BY DEF MoveInit
<1>2. NeverLost
  BY <1>1 DEF NeverLost, Holds
<1>3. QED
  BY <1>2 DEF MoveInit, LostInv, HandOK

(* When one command runs at a time, whoever lists the file has its bytes,   *)
(* and somebody lists it until it is removed: wherever a move of mvCross    *)
(* was cut short, and whatever was then asked for again, or retried as ops  *)
(* retry does it.                                                           *)
THEOREM FileNeverLost == OneAtATime => (MoveSpec => []NeverLost)
<1> SUFFICES ASSUME OneAtATime PROVE MoveSpec => []NeverLost
  OBVIOUS
<1>1. TypeInv /\ LostInv /\ [MoveNext]_moveVars => LostInv'
  BY LostStep
<1>2. LostInv => NeverLost
  BY DEF LostInv
<1>3. QED
  BY <1>1, <1>2, LostStart, TypeInductive, PTL DEF MoveSpec

-----------------------------------------------------------------------------
(* One live home *)

(* Moves are not asked for again once they are done, nor retried.           *)
Prompt == ~Late /\ ~Retries

(* A record of a move is at the member it is from, or to; each move has one *)
(* there; only the last may be pending; the source is announced first.      *)
RecordOK(m, n) ==
  LET e == log[m][n] IN
  /\ e.role = "out" => e.op \in Move /\ e.op.from = m /\ e.op.to # m
  /\ e.role = "in" => /\ e.op \in Move /\ e.op.to = m /\ e.op.from # m
                      /\ Recorded(e.op.from, e.op)
  /\ e.state = "intent" => n = Len(log[m]) /\ e.role # "rm"
  /\ \A i \in DOMAIN log[m] :
       e.role # "rm" /\ Records(log[m][i], e.op) => i = n

LogInv == \A m \in Member : \A n \in DOMAIN log[m] : RecordOK(m, n)

(* Between its intent and its done marker at m. *)
Open(m, o) == Recorded(m, o) /\ ~Finished(m, o)

(* The last thing that happened at a member was the arrival of the file:    *)
(* it is there.                                                             *)
Arrived ==
  \A o \in Move :
    /\ Recorded(o.to, o) /\ Index(o.to, o) = Len(log[o.to])
    /\ Finished(o.to, o) \/ Holds(o.to)
    => o.path \in rows[o.to]

(* A member has the file at one path. *)
OnePath == \A m \in Member : \A p, q \in rows[m] : p = q

(* What holds of a move in hand, by where it is. *)
OnTheWay(c) ==
  LET o == job[c].op
      at(S) == pc[c] \in S
  IN  /\ ~at({"rewrite", "mark"})
      /\ ~at({"idle"}) => o.from # o.to
      /\ at({"out", "in", "transfer", "arrive", "inDone", "reread", "depart"}) =>
           rows[o.from] = {o.src}
      /\ at({"out", "in"}) => /\ Timely(o) /\ o.path \notin rows[o.to]
                              /\ job[c].cat = rows[o.to]
      /\ at({"in", "transfer", "arrive", "inDone", "reread", "depart", "outDone"}) =>
           Open(o.from, o)
      /\ at({"in", "transfer", "arrive"}) => o.from \in Live
      /\ at({"transfer", "arrive", "inDone"}) => Open(o.to, o)
      /\ at({"transfer", "arrive"}) => rows[o.to] = {} /\ job[c].cat = {}
      /\ at({"inDone"}) => rows[o.to] = {o.path}
      /\ at({"reread", "depart", "outDone"}) => Finished(o.to, o)
      /\ at({"depart"}) => job[c].cat = rows[o.from]
      /\ at({"outDone"}) => rows[o.from] = {}

NodeInv == LogInv /\ Arrived /\ OnePath /\ OneHome

HomeInv == TypeInv /\ NodeInv /\ \A c \in Client : OnTheWay(c)

-----------------------------------------------------------------------------
(* The log, seen through Recorded and Finished *)

LEMMA IndexIs ==
  ASSUME LogInv, NEW m \in Member, NEW o, NEW n \in DOMAIN log[m], Records(log[m][n], o)
  PROVE  Index(m, o) = n
<1>1. Recorded(m, o)
  BY DEF Recorded
<1>2. Index(m, o) \in DOMAIN log[m] /\ Records(log[m][Index(m, o)], o)
  BY <1>1 DEF Recorded, Index
<1>3. log[m][n].role # "rm" /\ Records(log[m][Index(m, o)], log[m][n].op)
  BY <1>2 DEF Records
<1>4. QED
  BY <1>2, <1>3 DEF LogInv, RecordOK

LEMMA RecordedAt ==
  ASSUME NEW m \in Member, NEW o, Recorded(m, o)
  PROVE  Index(m, o) \in DOMAIN log[m] /\ Records(log[m][Index(m, o)], o)
  BY DEF Recorded, Index

LEMMA EntryAt ==
  ASSUME TypeInv, NEW m \in Member, NEW n \in DOMAIN log[m]
  PROVE  /\ log[m][n] \in Entry /\ log[m][n].state \in {"intent", "done"}
         /\ log[m][n].role \in {"out", "in", "rm"}
<1>1. log[m][n] \in Entry
  BY DEF TypeInv, MoveTypeOK
<1>2. QED
  BY <1>1 DEF Entry

LEMMA OpenAt ==
  ASSUME TypeInv, NEW m \in Member, NEW o, Open(m, o)
  PROVE  /\ Index(m, o) \in DOMAIN log[m]
         /\ Records(log[m][Index(m, o)], o)
         /\ log[m][Index(m, o)].state = "intent"
<1>1. Index(m, o) \in DOMAIN log[m] /\ Records(log[m][Index(m, o)], o)
  BY RecordedAt DEF Open
<1>2. log[m][Index(m, o)].state # "done"
  BY DEF Open, Finished
<1>3. QED
  BY <1>1, <1>2, EntryAt

(* Two moves with the same op id. *)
Same(o, x) == o.from = x.from /\ o.to = x.to /\ o.path = x.path

LEMMA SameRecord ==
  ASSUME NEW m \in Member, NEW o, NEW x, Same(o, x)
  PROVE  /\ Recorded(m, o) <=> Recorded(m, x)
         /\ Finished(m, o) <=> Finished(m, x)
         /\ Open(m, o) <=> Open(m, x)
         /\ Index(m, o) = Index(m, x)
<1>1. \A e : Records(e, o) <=> Records(e, x)
  BY DEF Records, Same
<1>2. QED
  BY <1>1 DEF Recorded, Finished, Index, Open

(* A record of one's own. *)
LEMMA RecordOf ==
  ASSUME TypeInv, LogInv, NEW m \in Member, NEW n \in DOMAIN log[m], log[m][n].role # "rm"
  PROVE  /\ log[m][n].op \in Move
         /\ Recorded(m, log[m][n].op) /\ Index(m, log[m][n].op) = n
         /\ Open(m, log[m][n].op) <=> log[m][n].state = "intent"
<1>1. log[m][n] \in Entry
  BY DEF TypeInv, MoveTypeOK
<1>2. log[m][n].op \in Move
  BY <1>1 DEF LogInv, RecordOK, Entry
<1>3. Records(log[m][n], log[m][n].op)
  BY DEF Records
<1>4. QED
  BY <1>1, <1>2, <1>3, IndexIs DEF Recorded, Open, Finished, Entry

(* The record of an open move is the last. *)
LEMMA OpenLast ==
  ASSUME TypeInv, LogInv, NEW m \in Member, NEW o, Open(m, o)
  PROVE  /\ Index(m, o) = Len(log[m])
         /\ Busy(m)
         /\ \A x : Open(m, x) => Same(o, x)
<1>1. \A x : Open(m, x) => /\ Index(m, x) \in DOMAIN log[m]
                           /\ Records(log[m][Index(m, x)], x)
                           /\ log[m][Index(m, x)].state = "intent"
  BY OpenAt
<1>2. \A x : Open(m, x) => Index(m, x) = Len(log[m])
  BY <1>1 DEF LogInv, RecordOK
<1>3. QED
  BY <1>1, <1>2 DEF Busy, Records, Same

LEMMA BusyOpen ==
  ASSUME TypeInv, LogInv, NEW m \in Member, Busy(m)
  PROVE  \E o \in Move : Open(m, o)
<1>1. PICK n \in DOMAIN log[m] : log[m][n].state = "intent"
  BY DEF Busy
<1>2. log[m][n].role # "rm"
  BY <1>1 DEF LogInv, RecordOK
<1>3. QED
  BY <1>1, <1>2, RecordOf

(* What Left says of the log. *)
MovedOn(m, o) ==
  /\ o.from = m /\ o.to # m /\ Open(m, o)
  /\ Recorded(o.to, o)
  /\ Finished(o.to, o) \/ Holds(o.to)

LEMMA LeftIs ==
  TypeInv /\ LogInv => \A m \in Member : Left(m) <=> \E o \in Move : MovedOn(m, o)
<1> SUFFICES ASSUME TypeInv, LogInv, NEW m \in Member
             PROVE  Left(m) <=> \E o \in Move : MovedOn(m, o)
  OBVIOUS
<1>1. ASSUME Left(m)
      PROVE  \E o \in Move : MovedOn(m, o)
  <2>1. PICK n \in DOMAIN log[m] :
          LET e == log[m][n] IN
          /\ e.role = "out" /\ e.state = "intent"
          /\ Recorded(e.op.to, e.op)
          /\ Finished(e.op.to, e.op) \/ Holds(e.op.to)
    BY <1>1 DEF Left
  <2>2. log[m][n].op \in Move /\ log[m][n].op.from = m /\ log[m][n].op.to # m
    BY <2>1 DEF LogInv, RecordOK
  <2>3. Open(m, log[m][n].op)
    BY <2>1, RecordOf
  <2>4. QED
    BY <2>1, <2>2, <2>3 DEF MovedOn
<1>2. ASSUME NEW o \in Move, MovedOn(m, o)
      PROVE  Left(m)
  <2> DEFINE n == Index(m, o)
             e == log[m][n]
  <2>1. n \in DOMAIN log[m] /\ Records(e, o) /\ e.state = "intent"
    BY <1>2, OpenAt DEF MovedOn
  <2>2. e.role = "out"
    BY <1>2, <2>1, EntryAt DEF LogInv, RecordOK, Records, MovedOn
  <2>3. e.op.to = o.to /\ Same(o, e.op)
    BY <2>1 DEF Records, Same
  <2>4. o.to \in Member
    BY DEF Move
  <2>5. Recorded(e.op.to, e.op) /\ (Finished(e.op.to, e.op) \/ Holds(e.op.to))
    BY <1>2, <2>3, <2>4, SameRecord DEF MovedOn
  <2>6. QED
    BY <2>1, <2>2, <2>5 DEF Left
<1>3. QED
  BY <1>1, <1>2

LEMMA LeftIsNext ==
  (TypeInv /\ LogInv => \A m \in Member : Left(m) <=> \E o \in Move : MovedOn(m, o))'
  BY LeftIs, PTL

(* What is recorded at the destination is recorded at the source. *)
LEMMA SourceFirst ==
  ASSUME TypeInv, LogInv, NEW o \in Move, o.from # o.to, Recorded(o.to, o)
  PROVE  Recorded(o.from, o)
<1>1. o.to \in Member /\ o.from \in Member
  BY DEF Move
<1>2. PICK n \in DOMAIN log[o.to] : Records(log[o.to][n], o)
  BY DEF Recorded
<1> DEFINE e == log[o.to][n]
<1>3. e.role = "in"
  BY <1>1, <1>2, EntryAt DEF LogInv, RecordOK, Records
<1>4. Recorded(e.op.from, e.op) /\ e.op.from = o.from /\ Same(e.op, o)
  BY <1>1, <1>2, <1>3 DEF LogInv, RecordOK, Records, Same
<1>5. QED
  BY <1>1, <1>4, SameRecord

-----------------------------------------------------------------------------
(* What the steps do to the log *)

(* A record that may be written next at m. *)
Writable(m, e) ==
  /\ e \in Entry
  /\ ~Busy(m)
  /\ \/ e.role = "rm" /\ e.state = "done"
     \/ /\ e.op \in Move /\ ~Recorded(m, e.op)
        /\ \/ e.role = "out" /\ e.op.from = m /\ e.op.to # m
           \/ /\ e.role = "in" /\ e.op.to = m /\ e.op.from # m
              /\ Recorded(e.op.from, e.op)

LEMMA AppendLog ==
  ASSUME TypeInv, LogInv, NEW m \in Member, NEW e, Writable(m, e),
         log' = [log EXCEPT ![m] = Append(@, e)]
  PROVE  /\ LogInv'
         /\ \A k \in Member : k # m => log'[k] = log[k]
         /\ Len(log'[m]) = Len(log[m]) + 1 /\ Len(log[m]) \in Nat
         /\ log'[m][Len(log'[m])] = e
         /\ \A k \in Member : \A o :
              /\ Recorded(k, o)' <=> Recorded(k, o) \/ (k = m /\ Records(e, o))
              /\ Recorded(k, o) => Index(k, o)' = Index(k, o)
              /\ Recorded(k, o) => (Finished(k, o)' <=> Finished(k, o))
              /\ ~Recorded(k, o) /\ k = m /\ Records(e, o) =>
                   Index(k, o)' = Len(log'[m]) /\ (Finished(k, o)' <=> e.state = "done")
<1> DEFINE l == Len(log[m])
<1>1. log[m] \in Seq(Entry)
  BY DEF TypeInv, MoveTypeOK
<1>2. /\ l \in Nat /\ DOMAIN log[m] = 1 .. l
      /\ log'[m] = Append(log[m], e)
      /\ \A k \in Member : k # m => log'[k] = log[k]
  BY <1>1 DEF TypeInv, MoveTypeOK
<1>3. /\ Len(log'[m]) = l + 1 /\ DOMAIN log'[m] = 1 .. l + 1
      /\ \A n \in 1 .. l : log'[m][n] = log[m][n]
      /\ log'[m][l + 1] = e
  BY <1>1, <1>2
<1> HIDE DEF l
<1>4. \A k \in Member : \A n \in DOMAIN log[k] : n \in DOMAIN log'[k] /\ log'[k][n] = log[k][n]
  BY <1>2, <1>3
<1>5. \A k \in Member : \A n \in DOMAIN log'[k] :
        n \in DOMAIN log[k] \/ (k = m /\ n = l + 1)
  BY <1>2, <1>3
<1>6. \A k \in Member : \A o : Recorded(k, o)' <=> Recorded(k, o) \/ (k = m /\ Records(e, o))
  <2>1. ASSUME NEW k \in Member, NEW o, Recorded(k, o) PROVE Recorded(k, o)'
    BY <2>1, <1>4 DEF Recorded
  <2>2. ASSUME NEW o, Records(e, o) PROVE Recorded(m, o)'
    BY <2>2, <1>2, <1>3 DEF Recorded
  <2>3. ASSUME NEW k \in Member, NEW o, Recorded(k, o)'
        PROVE  Recorded(k, o) \/ (k = m /\ Records(e, o))
    <3>1. PICK n \in DOMAIN log'[k] : Records(log'[k][n], o)
      BY <2>3 DEF Recorded
    <3>2. QED
      BY <3>1, <1>3, <1>4, <1>5 DEF Recorded
  <2>4. QED
    BY <2>1, <2>2, <2>3
<1>7. LogInv'
  <2> SUFFICES ASSUME NEW k \in Member, NEW n \in DOMAIN log'[k]
               PROVE  RecordOK(k, n)'
    BY DEF LogInv
  <2> DEFINE r == log'[k][n]
  <2>1. CASE n \in DOMAIN log[k]
    <3>1. r = log[k][n]
      BY <2>1, <1>4
    <3>2. /\ r.role = "out" => r.op \in Move /\ r.op.from = k /\ r.op.to # k
          /\ r.role = "in" => /\ r.op \in Move /\ r.op.to = k /\ r.op.from # k
                              /\ Recorded(r.op.from, r.op)
      BY <2>1, <3>1 DEF LogInv, RecordOK
    <3>3. r.role = "in" => \E i \in DOMAIN log'[r.op.from] : Records(log'[r.op.from][i], r.op)
      <4> HAVE r.role = "in"
      <4>1. r.op.from \in Member
        BY <3>2 DEF Move
      <4>2. QED
        BY <4>1, <3>2, <1>6 DEF Recorded
    <3>4. r.state = "intent" => n = Len(log'[k]) /\ r.role # "rm"
      BY <2>1, <3>1, <1>2 DEF LogInv, RecordOK, Writable, Busy
    <3>5. ASSUME NEW i \in DOMAIN log'[k], r.role # "rm", Records(log'[k][i], r.op)
          PROVE  i = n
      <4>1. CASE i \in DOMAIN log[k]
        BY <4>1, <3>1, <3>5, <2>1, <1>4 DEF LogInv, RecordOK
      <4>2. CASE k = m /\ i = l + 1
        <5>1. Records(e, r.op)
          BY <4>2, <3>5, <1>3
        <5>2. e.role # "rm" /\ Same(e.op, r.op)
          BY <5>1 DEF Records, Same
        <5>3. Recorded(m, r.op)
          BY <4>2, <3>1, <3>5, <2>1 DEF Recorded, Records
        <5>4. QED
          BY <5>2, <5>3, SameRecord DEF Writable
      <4>3. QED
        BY <4>1, <4>2, <1>5
    <3>6. QED
      BY <3>2, <3>3, <3>4, <3>5 DEF RecordOK, Recorded
  <2>2. CASE k = m /\ n = l + 1
    <3>1. r = e
      BY <2>2, <1>3
    <3>2. /\ r.role = "out" => r.op \in Move /\ r.op.from = k /\ r.op.to # k
          /\ r.role = "in" => /\ r.op \in Move /\ r.op.to = k /\ r.op.from # k
                              /\ Recorded(r.op.from, r.op)
          /\ r.state = "intent" => r.role # "rm"
      BY <2>2, <3>1 DEF Writable
    <3>3. r.role = "in" => \E i \in DOMAIN log'[r.op.from] : Records(log'[r.op.from][i], r.op)
      <4> HAVE r.role = "in"
      <4>1. r.op.from \in Member
        BY <3>2 DEF Move
      <4>2. QED
        BY <4>1, <3>2, <1>6 DEF Recorded
    <3>4. ASSUME NEW i \in DOMAIN log'[k], r.role # "rm", Records(log'[k][i], r.op)
          PROVE  i = n
      <4>1. CASE i \in DOMAIN log[k]
        <5>1. Recorded(m, e.op)
          BY <4>1, <3>1, <3>4, <2>2, <1>4 DEF Recorded
        <5>2. QED
          BY <5>1, <3>1, <3>4 DEF Writable
      <4>2. QED
        BY <4>1, <2>2, <1>5
    <3>5. n = Len(log'[k])
      BY <2>2, <1>3
    <3>6. QED
      BY <3>2, <3>3, <3>4, <3>5 DEF RecordOK, Recorded
  <2>3. QED
    BY <2>1, <2>2, <1>5
<1>8. \A k \in Member : \A o : \A n \in DOMAIN log'[k] :
        Records(log'[k][n], o) => Index(k, o)' = n
  <2> SUFFICES ASSUME NEW k \in Member, NEW o, NEW n \in DOMAIN log'[k],
                      Records(log'[k][n], o)
               PROVE  Index(k, o)' = n
    OBVIOUS
  <2>1. Index(k, o)' \in DOMAIN log'[k] /\ Records(log'[k][Index(k, o)'], o)
    BY DEF Index
  <2>2. log'[k][n].role # "rm" /\ Records(log'[k][Index(k, o)'], log'[k][n].op)
    BY <2>1 DEF Records
  <2>3. QED
    BY <1>7, <2>1, <2>2 DEF LogInv, RecordOK
<1>9. ASSUME NEW k \in Member, NEW o, Recorded(k, o)
      PROVE  Index(k, o)' = Index(k, o) /\ (Finished(k, o)' <=> Finished(k, o))
  <2>1. Index(k, o) \in DOMAIN log[k] /\ Records(log[k][Index(k, o)], o)
    BY <1>9, RecordedAt
  <2>2. Index(k, o)' = Index(k, o) /\ log'[k][Index(k, o)] = log[k][Index(k, o)]
    BY <2>1, <1>4, <1>8
  <2>3. QED
    BY <2>2, <1>6, <1>9 DEF Finished
<1>10. ASSUME NEW o, Records(e, o)
       PROVE  ~Recorded(m, o) => /\ Index(m, o)' = l + 1
                                 /\ Finished(m, o)' <=> e.state = "done"
  <2>1. l + 1 \in DOMAIN log'[m] /\ Records(log'[m][l + 1], o)
    BY <1>10, <1>2, <1>3
  <2>2. Index(m, o)' = l + 1
    BY <2>1, <1>8
  <2>3. Recorded(m, o)'
    BY <1>10, <1>6
  <2>4. QED
    BY <2>2, <2>3, <1>3 DEF Finished
<1>11. QED
  BY <1>2, <1>3, <1>6, <1>7, <1>9, <1>10

LEMMA CloseLog ==
  ASSUME TypeInv, LogInv, NEW m \in Member, NEW o, Open(m, o),
         log' = Closed(m, Index(m, o))
  PROVE  /\ LogInv'
         /\ \A k \in Member : Len(log'[k]) = Len(log[k])
         /\ \A k \in Member : \A x :
              /\ Recorded(k, x)' <=> Recorded(k, x)
              /\ Recorded(k, x) => Index(k, x)' = Index(k, x)
              /\ Finished(k, x)' <=> Finished(k, x) \/ (k = m /\ Same(o, x))
<1> DEFINE j == Index(m, o)
<1>1. j \in DOMAIN log[m] /\ Records(log[m][j], o) /\ j = Len(log[m])
  BY OpenAt, OpenLast
<1>2. \A k \in Member :
        /\ DOMAIN log'[k] = DOMAIN log[k]
        /\ \A n \in DOMAIN log[k] :
             /\ log'[k][n].role = log[k][n].role
             /\ log'[k][n].op = log[k][n].op
  BY ClosedType DEF TypeInv
<1>3. \A k \in Member : \A n \in DOMAIN log[k] :
        log'[k][n].state = IF k = m /\ n = j THEN "done" ELSE log[k][n].state
  <2>1. \A n \in DOMAIN log[m] :
          [log[m] EXCEPT ![j].state = "done"][n]
            = IF n = j THEN [log[m][j] EXCEPT !.state = "done"] ELSE log[m][n]
    OBVIOUS
  <2>2. log' = [log EXCEPT ![m] = [log[m] EXCEPT ![j].state = "done"]]
    BY DEF Closed
  <2>3. log[m][j] \in Entry
    BY <1>1, EntryAt
  <2>4. [log[m][j] EXCEPT !.state = "done"].state = "done"
    BY <2>3 DEF Entry
  <2>5. QED
    BY <2>1, <2>2, <2>4 DEF TypeInv, MoveTypeOK
<1>4. \A k \in Member : Len(log'[k]) = Len(log[k])
  <2>1. \A k \in Member : log[k] \in Seq(Entry) /\ log'[k] \in Seq(Entry)
    BY ClosedType DEF TypeInv, MoveTypeOK
  <2>2. QED
    BY <2>1, <1>2
<1> HIDE DEF j
<1>5. \A k \in Member : \A n, x :
        n \in DOMAIN log[k] => (Records(log'[k][n], x) <=> Records(log[k][n], x))
  BY <1>2 DEF Records
<1>6. \A k \in Member : \A x : Recorded(k, x)' <=> Recorded(k, x)
  BY <1>2, <1>5 DEF Recorded
<1>7. LogInv'
  <2> SUFFICES ASSUME NEW k \in Member, NEW n \in DOMAIN log'[k]
               PROVE  RecordOK(k, n)'
    BY DEF LogInv
  <2> DEFINE r == log'[k][n]
             q == log[k][n]
  <2>1. n \in DOMAIN log[k] /\ r.role = q.role /\ r.op = q.op
    BY <1>2
  <2>2. r.state = "intent" => q.state = "intent"
    BY <2>1, <1>3
  <2>3. /\ q.role = "out" => q.op \in Move /\ q.op.from = k /\ q.op.to # k
        /\ q.role = "in" => /\ q.op \in Move /\ q.op.to = k /\ q.op.from # k
                            /\ Recorded(q.op.from, q.op)
        /\ q.state = "intent" => n = Len(log[k]) /\ q.role # "rm"
        /\ \A i \in DOMAIN log[k] :
             q.role # "rm" /\ Records(log[k][i], q.op) => i = n
    BY <2>1 DEF LogInv, RecordOK
  <2>4. r.role = "in" => \E i \in DOMAIN log'[r.op.from] : Records(log'[r.op.from][i], r.op)
    <3> HAVE r.role = "in"
    <3>1. r.op.from \in Member
      BY <2>1, <2>3 DEF Move
    <3>2. QED
      BY <3>1, <2>1, <2>3, <1>6 DEF Recorded
  <2>5. \A i \in DOMAIN log'[k] : r.role # "rm" /\ Records(log'[k][i], r.op) => i = n
    BY <2>1, <2>3, <1>2, <1>5
  <2> HIDE DEF r, q
  <2>6. QED
    BY <2>1, <2>2, <2>3, <2>4, <2>5, <1>4 DEF RecordOK, Recorded, r
<1>8. \A k \in Member : \A x : Recorded(k, x) => Index(k, x)' = Index(k, x)
  <2> SUFFICES ASSUME NEW k \in Member, NEW x, Recorded(k, x)
               PROVE  Index(k, x)' = Index(k, x)
    OBVIOUS
  <2>1. Index(k, x) \in DOMAIN log[k] /\ Records(log[k][Index(k, x)], x)
    BY RecordedAt
  <2>2. \E n \in DOMAIN log'[k] : Records(log'[k][n], x)
    BY <2>1, <1>2, <1>5
  <2>3. Index(k, x)' \in DOMAIN log'[k] /\ Records(log'[k][Index(k, x)'], x)
    BY <2>2 DEF Index
  <2>4. Index(k, x)' \in DOMAIN log[k] /\ Records(log[k][Index(k, x)'], x)
    BY <2>3, <1>2, <1>5
  <2>5. QED
    BY <2>4, IndexIs
<1>9. ASSUME NEW k \in Member, NEW x
      PROVE  Finished(k, x)' <=> Finished(k, x) \/ (k = m /\ Same(o, x))
  <2>1. CASE ~Recorded(k, x)
    BY <2>1, <1>6, SameRecord DEF Finished, Open
  <2>2. CASE Recorded(k, x)
    <3>1. Index(k, x) \in DOMAIN log[k] /\ Records(log[k][Index(k, x)], x)
      BY <2>2, RecordedAt
    <3>2. Finished(k, x)' <=> log'[k][Index(k, x)].state = "done"
      BY <2>2, <1>6, <1>8 DEF Finished
    <3>3. Finished(k, x) <=> log[k][Index(k, x)].state = "done"
      BY <2>2 DEF Finished
    <3>4. k = m => (Index(k, x) = j <=> Same(o, x))
      <4>1. ASSUME k = m, Index(k, x) = j PROVE Same(o, x)
        BY <4>1, <3>1, <1>1 DEF Records, Same
      <4>2. ASSUME k = m, Same(o, x) PROVE Index(k, x) = j
        BY <4>2, SameRecord DEF j
      <4>3. QED
        BY <4>1, <4>2
    <3>5. QED
      BY <3>1, <3>2, <3>3, <3>4, <1>3
  <2>3. QED
    BY <2>1, <2>2
<1>10. QED
  BY <1>4, <1>6, <1>7, <1>8, <1>9

-----------------------------------------------------------------------------
(* What the steps do to the homes *)

LiveStep ==
  \/ Live' = Live
  \/ \E a, b \in Member : a # b /\ Live = {a} /\ Live' = {b}
  \/ \E a \in Member : Live = {a} /\ Live' = {} /\ Removed'

LEMMA OneHomeStep ==
  ASSUME OneHome, LiveStep, Removed => Removed'
  PROVE  OneHome'
  BY DEF OneHome, LiveStep

LEMMA NodesStay ==
  ASSUME NodeInv, UNCHANGED <<rows, log>>
  PROVE  NodeInv' /\ Live' = Live
<1>1. /\ LogInv'
      /\ \A m, o : /\ Recorded(m, o)' <=> Recorded(m, o)
                   /\ Finished(m, o)' <=> Finished(m, o)
                   /\ Index(m, o)' = Index(m, o)
  BY DEF NodeInv, LogInv, RecordOK, Recorded, Finished, Index
<1>2. Live' = Live
  BY DEF Live, Left, Holds, Recorded, Finished, Index
<1>3. Arrived' /\ OnePath'
  BY <1>1 DEF NodeInv, Arrived, OnePath, Holds
<1>4. OneHome'
  BY <1>2 DEF NodeInv, OneHome, Removed
<1>5. QED
  BY <1>1, <1>2, <1>3, <1>4 DEF NodeInv

(* Who is live, once it is known who holds the file and who has left. *)
LEMMA LiveIs ==
  ASSUME TypeInv, LogInv, NEW m \in Member
  PROVE  m \in Live <=> Holds(m) /\ ~\E o \in Move : MovedOn(m, o)
  BY LeftIs DEF Live

LEMMA LiveIsNext ==
  ASSUME TypeInv', LogInv', NEW m \in Member
  PROVE  m \in Live' <=> Holds(m)' /\ ~\E o \in Move : MovedOn(m, o)'
  BY LeftIsNext DEF Live

(* A member with nothing pending has not moved on. *)
LEMMA IdleStays ==
  ASSUME TypeInv, LogInv, NEW m \in Member, ~Busy(m), Holds(m)
  PROVE  m \in Live
  BY LiveIs, OpenLast DEF MovedOn

(* An arrival announced is not an arrival. *)
LEMMA ArrivedAppend ==
  ASSUME TypeInv, LogInv, Arrived, NEW m \in Member, NEW e, Writable(m, e),
         log' = [log EXCEPT ![m] = Append(@, e)],
         \A k \in Member : k # m => rows'[k] = rows[k],
         e.role = "in" => e.state = "intent" /\ rows'[m] = {}
  PROVE  Arrived'
<1> SUFFICES ASSUME NEW x \in Move, Recorded(x.to, x)',
                    Index(x.to, x)' = Len(log'[x.to]),
                    Finished(x.to, x)' \/ Holds(x.to)'
             PROVE  x.path \in rows'[x.to]
  BY DEF Arrived
<1>1. /\ \A k \in Member : k # m => log'[k] = log[k]
      /\ Len(log'[m]) = Len(log[m]) + 1 /\ Len(log[m]) \in Nat
  BY AppendLog
<1>2. \A k \in Member :
        /\ Recorded(k, x)' <=> Recorded(k, x) \/ (k = m /\ Records(e, x))
        /\ Recorded(k, x) => Index(k, x)' = Index(k, x)
        /\ Recorded(k, x) => (Finished(k, x)' <=> Finished(k, x))
        /\ ~Recorded(k, x) /\ k = m /\ Records(e, x) => (Finished(k, x)' <=> e.state = "done")
  BY AppendLog
<1>3. x.to \in Member
  BY DEF Move
<1>4. CASE x.to # m
  BY <1>1, <1>2, <1>3, <1>4 DEF Arrived, Holds
<1>5. CASE x.to = m /\ Recorded(m, x)
  <2>1. Index(m, x) = Len(log'[m])
    BY <1>2, <1>5
  <2>2. Index(m, x) \in 1 .. Len(log[m])
    BY <1>5, RecordedAt DEF TypeInv, MoveTypeOK
  <2>3. QED
    BY <2>1, <2>2, <1>1
<1>6. CASE x.to = m /\ ~Recorded(m, x)
  <2>1. Records(e, x)
    BY <1>2, <1>6
  <2>2. e.role = "in"
    BY <2>1, <1>6 DEF Writable, Records
  <2>3. QED
    BY <2>1, <2>2, <1>2, <1>6 DEF Holds
<1>7. QED
  BY <1>4, <1>5, <1>6

LEMMA InMembers ==
  ASSUME NEW o \in Move
  PROVE  o.from \in Member /\ o.to \in Member /\ o.path \in Path
  BY DEF Move

(* A move of the one client that is at work. *)
LEMMA MoveAtWork ==
  ASSUME HomeInv, NEW c \in Client, pc[c] # "idle"
  PROVE  /\ job[c].op \in Move /\ job[c].op.from # job[c].op.to
         /\ job[c].op.from \in Member /\ job[c].op.to \in Member
         /\ OnTheWay(c)
<1>1. pc[c] \notin {"rewrite", "mark"} /\ OnTheWay(c)
  BY DEF HomeInv, OnTheWay
<1>2. QED
  BY <1>1, InHand DEF HomeInv, OnTheWay

LEMMA MvHome ==
  ASSUME Prompt, HomeInv, TypeInv', NEW c \in Client, NEW o \in Move, Mv(c, o)
  PROVE  NodeInv' /\ OnTheWay(c)' /\ Live' = Live
<1>1. NodeInv' /\ Live' = Live
  BY NodesStay DEF HomeInv, Mv, nodes
<1>2. job'[c].op = o /\ job'[c].cat = rows[o.to] /\ pc'[c] = "out"
  BY DEF Mv, Goto, NoJob, HomeInv, TypeInv, MoveTypeOK
<1>3. rows[o.from] = {o.src}
  BY InMembers DEF Mv, HomeInv, NodeInv, OnePath
<1>4. Timely(o)' <=> Timely(o)
  BY DEF Mv, nodes, Timely, Finished, Recorded, Index
<1>5. OnTheWay(c)'
  BY <1>2, <1>3, <1>4 DEF OnTheWay, Mv, nodes, Prompt
<1>6. QED
  BY <1>1, <1>5

LEMMA OutIntentHome ==
  ASSUME HomeInv, TypeInv', NEW c \in Client, NEW o \in Move, job[c].op = o, OutIntent(c)
  PROVE  NodeInv' /\ OnTheWay(c)' /\ Live' = Live
<1> DEFINE f == o.from
           t == o.to
<1>1. /\ pc[c] = "out" /\ pc'[c] = "in" /\ rows' = rows /\ job' = job
      /\ Announce(f, o, "out")
  BY DEF OutIntent, Goto, HomeInv, TypeInv, MoveTypeOK
<1>2. f # t /\ f \in Member /\ t \in Member
  BY <1>1, MoveAtWork
<1>3. /\ rows[f] = {o.src} /\ Timely(o) /\ o.path \notin rows[t] /\ job[c].cat = rows[t]
  BY <1>1 DEF HomeInv, OnTheWay
<1>4. job'[c].op = o
  BY <1>1
<1>5. TypeInv /\ LogInv /\ Arrived /\ OneHome
  BY DEF HomeInv, NodeInv
<1>6. CASE Recorded(f, o) /\ UNCHANGED log
  <2>1. NodeInv' /\ Live' = Live
    BY <1>1, <1>6, NodesStay DEF HomeInv
  <2>2. Open(f, o)
    BY <1>3, <1>4, <1>6 DEF Timely, Open
  <2>3. Open(f, o)' /\ (Timely(o)' <=> Timely(o))
    BY <1>6, <2>2 DEF Open, Timely, Finished, Recorded, Index
  <2>4. ASSUME NEW x \in Move, MovedOn(f, x) PROVE FALSE
    <3>1. Same(o, x)
      BY <2>2, <2>4, <1>2, <1>5, OpenLast DEF MovedOn
    <3>2. Recorded(t, o) /\ (Finished(t, o) \/ Holds(t))
      BY <3>1, <2>4, <1>2, <1>4, SameRecord DEF MovedOn, Same
    <3>3. Index(t, o) = Len(log[t])
      BY <3>2, <1>3, <1>4 DEF Timely
    <3>4. o.path \in rows[t]
      BY <3>2, <3>3, <1>2, <1>4, <1>5 DEF Arrived
    <3>5. QED
      BY <3>4, <1>3
  <2>5. f \in Live
    BY <2>4, <1>2, <1>3, <1>5, LiveIs DEF Holds
  <2>6. OnTheWay(c)'
    BY <2>1, <2>3, <2>5, <1>1, <1>2, <1>3, <1>4 DEF OnTheWay
  <2>7. QED
    BY <2>1, <2>6
<1>7. CASE ~Recorded(f, o) /\ ~Busy(f)
           /\ log' = [log EXCEPT ![f] = Append(@, [op |-> o, role |-> "out", state |-> "intent"])]
  <2> DEFINE e == [op |-> o, role |-> "out", state |-> "intent"]
  <2>1. Writable(f, e)
    BY <1>2, <1>4, <1>7 DEF Writable, Entry
  <2>2. \A x : Records(e, x) <=> Same(o, x)
    BY DEF Records, Same
  <2> HIDE DEF e
  <2>3. log' = [log EXCEPT ![f] = Append(@, e)] /\ e.state = "intent"
    BY <1>7 DEF e
  <2>4. /\ LogInv'
        /\ \A k \in Member : k # f => log'[k] = log[k]
        /\ Len(log'[f]) = Len(log[f]) + 1 /\ Len(log[f]) \in Nat
    BY <2>1, <2>3, <1>2, <1>5, AppendLog
  <2>5. \A k \in Member : \A x :
              /\ Recorded(k, x)' <=> Recorded(k, x) \/ (k = f /\ Same(o, x))
              /\ Recorded(k, x) => Index(k, x)' = Index(k, x)
              /\ Recorded(k, x) => (Finished(k, x)' <=> Finished(k, x))
              /\ ~Recorded(k, x) /\ k = f /\ Same(o, x) =>
                   Index(k, x)' = Len(log'[f]) /\ ~Finished(k, x)'
    BY <2>1, <2>2, <2>3, <1>2, <1>5, AppendLog
  <2>6. ASSUME NEW m \in Member, m # f, NEW x \in Move
        PROVE  MovedOn(m, x)' <=> MovedOn(m, x)
    <3>1. CASE x.from = m /\ x.to # m
      <4>1. x.to \in Member /\ ~Same(o, x)
        BY <3>1, <2>6, <1>4, InMembers DEF Same
      <4>2. QED
        BY <4>1, <2>5, <2>6, <1>1 DEF MovedOn, Open, Holds, Finished
    <3>2. QED
      BY <3>1 DEF MovedOn
  <2>7. ASSUME NEW x \in Move, MovedOn(f, x)' PROVE FALSE
    <3>1. Recorded(f, x)' /\ ~Finished(f, x)' /\ Recorded(x.to, x)' /\ x.to # f
      BY <2>7 DEF MovedOn, Open
    <3>2. ~Open(f, x)
      BY <1>2, <1>5, <1>7, OpenLast
    <3>3. Same(o, x)
      BY <3>1, <3>2, <2>5, <1>2 DEF Open
    <3>4. Recorded(t, o)
      BY <3>1, <3>3, <2>5, <1>2, <1>4, SameRecord DEF Same
    <3>5. QED
      BY <3>4, <1>2, <1>4, <1>5, <1>7, SourceFirst
  <2>8. f \in Live
    BY <1>2, <1>3, <1>5, <1>7, IdleStays DEF Holds
  <2>9. Live' = Live
    <3>1. ASSUME NEW m \in Member, m # f PROVE m \in Live' <=> m \in Live
      BY <3>1, <2>4, <2>6, <1>1, <1>5, LiveIs, LiveIsNext DEF Holds
    <3>2. f \in Live'
      BY <2>4, <2>7, <1>1, <1>2, <1>3, LiveIsNext DEF Holds
    <3>3. QED
      BY <3>1, <3>2, <2>8 DEF Live
  <2>10. Arrived'
    BY <2>1, <2>3, <1>1, <1>2, <1>5, ArrivedAppend DEF e
  <2>11. OnTheWay(c)'
    <3>1. Open(f, o)'
      BY <2>5, <1>2, <1>7 DEF Open, Same
    <3>2. Timely(o)'
      <4>1. Recorded(t, o)' => Recorded(t, o) /\ Index(t, o)' = Index(t, o)
        BY <2>5, <1>2
      <4>2. QED
        BY <4>1, <3>1, <2>4, <1>2, <1>3, <1>4 DEF Timely, Open
    <3>3. QED
      BY <3>1, <3>2, <2>8, <2>9, <1>1, <1>2, <1>3, <1>4 DEF OnTheWay
  <2>12. Removed => Removed'
    <3>1. e \in Entry
      BY <2>1 DEF Writable
    <3>2. QED
      BY <3>1, <2>3, <1>2, <1>5, AppendKeeps DEF TypeInv
  <2>13. QED
    BY <2>4, <2>9, <2>10, <2>11, <2>12, <1>1, <1>5, OneHomeStep
       DEF LiveStep, NodeInv, OnePath, HomeInv
<1>8. QED
  BY <1>1, <1>6, <1>7 DEF Announce

LEMMA InIntentHome ==
  ASSUME HomeInv, TypeInv', NEW c \in Client, NEW o \in Move, job[c].op = o, InIntent(c)
  PROVE  NodeInv' /\ OnTheWay(c)' /\ Live' = Live
<1> DEFINE f == o.from
           t == o.to
<1>1. /\ pc[c] = "in" /\ pc'[c] = "transfer" /\ rows' = rows /\ job' = job
      /\ Announce(t, o, "in")
  BY DEF InIntent, Goto, HomeInv, TypeInv, MoveTypeOK
<1>2. f # t /\ f \in Member /\ t \in Member
  BY <1>1, MoveAtWork
<1>3. /\ rows[f] = {o.src} /\ Timely(o) /\ o.path \notin rows[t] /\ job[c].cat = rows[t]
      /\ Open(f, o) /\ f \in Live
  BY <1>1 DEF HomeInv, OnTheWay
<1>4. job'[c].op = o
  BY <1>1
<1>5. TypeInv /\ LogInv /\ Arrived /\ OneHome
  BY DEF HomeInv, NodeInv
<1>6. CASE Recorded(t, o) /\ UNCHANGED log
  <2>1. NodeInv' /\ Live' = Live
    BY <1>1, <1>6, NodesStay DEF HomeInv
  <2>2. Index(t, o) = Len(log[t])
    BY <1>3, <1>6 DEF Timely
  <2>3. Open(t, o) /\ rows[t] = {}
    BY <2>2, <1>3, <1>5, <1>6 DEF Arrived, Open, Holds
  <2>4. Open(t, o)' /\ Open(f, o)'
    BY <2>3, <1>3, <1>6 DEF Open, Finished, Recorded, Index
  <2>5. OnTheWay(c)'
    BY <2>1, <2>3, <2>4, <1>1, <1>2, <1>3, <1>4 DEF OnTheWay
  <2>6. QED
    BY <2>1, <2>5
<1>7. CASE ~Recorded(t, o) /\ ~Busy(t)
           /\ log' = [log EXCEPT ![t] = Append(@, [op |-> o, role |-> "in", state |-> "intent"])]
  <2> DEFINE e == [op |-> o, role |-> "in", state |-> "intent"]
  <2>1. Writable(t, e)
    BY <1>2, <1>3, <1>7 DEF Writable, Entry, Open
  <2>2. \A x : Records(e, x) <=> Same(o, x)
    BY DEF Records, Same
  <2> HIDE DEF e
  <2>3. log' = [log EXCEPT ![t] = Append(@, e)] /\ e.state = "intent"
    BY <1>7 DEF e
  <2>4. /\ LogInv'
        /\ \A k \in Member : k # t => log'[k] = log[k]
    BY <2>1, <2>3, <1>2, <1>5, AppendLog
  <2>5. \A k \in Member : \A x :
              /\ Recorded(k, x)' <=> Recorded(k, x) \/ (k = t /\ Same(o, x))
              /\ Recorded(k, x) => (Finished(k, x)' <=> Finished(k, x))
              /\ ~Recorded(k, x) /\ k = t /\ Same(o, x) => ~Finished(k, x)'
    BY <2>1, <2>2, <2>3, <1>2, <1>5, AppendLog
  <2>6. rows[t] = {}
    <3>1. Holds(t) => t \in Live
      BY <1>2, <1>5, <1>7, IdleStays
    <3>2. QED
      BY <3>1, <1>2, <1>3, <1>5 DEF OneHome, Holds
  <2>7. ASSUME NEW m \in Member, m # t, NEW x \in Move
        PROVE  MovedOn(m, x)' <=> MovedOn(m, x)
    <3>1. CASE x.from = m /\ x.to # m
      <4>1. x.to \in Member
        BY InMembers
      <4>2. CASE x.to = t /\ Same(o, x) /\ ~Recorded(t, x)
        BY <4>2, <2>5, <2>6, <2>7, <1>1, <1>2 DEF MovedOn, Holds
      <4>3. CASE ~(x.to = t /\ Same(o, x) /\ ~Recorded(t, x))
        BY <4>1, <4>3, <3>1, <2>5, <2>7, <1>1 DEF MovedOn, Open, Holds, Finished
      <4>4. QED
        BY <4>2, <4>3
    <3>2. QED
      BY <3>1 DEF MovedOn
  <2>8. Live' = Live
    <3>1. ASSUME NEW m \in Member, m # t PROVE m \in Live' <=> m \in Live
      BY <3>1, <2>4, <2>7, <1>1, <1>5, LiveIs, LiveIsNext DEF Holds
    <3>2. t \notin Live' /\ t \notin Live
      BY <2>6, <1>1 DEF Live, Holds
    <3>3. QED
      BY <3>1, <3>2 DEF Live
  <2>9. Arrived'
    BY <2>1, <2>3, <2>6, <1>1, <1>2, <1>5, ArrivedAppend DEF e
  <2>10. OnTheWay(c)'
    <3>1. Open(t, o)'
      BY <2>5, <1>2, <1>7 DEF Open, Same
    <3>2. Open(f, o)'
      BY <2>5, <1>2, <1>3 DEF Open
    <3>3. QED
      BY <3>1, <3>2, <2>6, <2>8, <1>1, <1>2, <1>3, <1>4 DEF OnTheWay
  <2>11. Removed => Removed'
    <3>1. e \in Entry
      BY <2>1 DEF Writable
    <3>2. QED
      BY <3>1, <2>3, <1>2, <1>5, AppendKeeps DEF TypeInv
  <2>12. QED
    BY <2>4, <2>8, <2>9, <2>10, <2>11, <1>1, <1>5, OneHomeStep
       DEF LiveStep, NodeInv, OnePath, HomeInv
<1>8. QED
  BY <1>1, <1>6, <1>7 DEF Announce

LEMMA TransferHome ==
  ASSUME HomeInv, TypeInv', NEW c \in Client, NEW o \in Move, job[c].op = o, Transfer(c)
  PROVE  NodeInv' /\ OnTheWay(c)' /\ Live' = Live
<1>1. /\ pc[c] = "transfer" /\ pc'[c] = "arrive" /\ rows' = rows /\ job' = job /\ log' = log
  BY DEF Transfer, Goto, HomeInv, TypeInv, MoveTypeOK
<1>2. NodeInv' /\ Live' = Live
  BY <1>1, NodesStay DEF HomeInv
<1>3. \A k : Open(k, o)' <=> Open(k, o)
  BY <1>1 DEF Open, Finished, Recorded, Index
<1>4. job'[c].op = o /\ job'[c].cat = job[c].cat
  BY <1>1
<1>5. /\ o.from # o.to /\ rows[o.from] = {o.src} /\ Open(o.from, o) /\ o.from \in Live
      /\ Open(o.to, o) /\ rows[o.to] = {} /\ job[c].cat = {}
  BY <1>1 DEF HomeInv, OnTheWay
<1>6. OnTheWay(c)'
  BY <1>1, <1>2, <1>3, <1>4, <1>5 DEF OnTheWay
<1>7. QED
  BY <1>2, <1>6

(* Here the home changes: the row at the destination is the file's, and the *)
(* row at the source is that of a file that has left.                       *)
LEMMA ArriveHome ==
  ASSUME HomeInv, TypeInv', NEW c \in Client, NEW o \in Move, job[c].op = o, Arrive(c)
  PROVE  NodeInv' /\ OnTheWay(c)' /\ Live = {o.from} /\ Live' = {o.to}
<1> DEFINE f == o.from
           t == o.to
<1>1. /\ pc[c] = "arrive" /\ pc'[c] = "inDone" /\ log' = log /\ job' = job
  BY DEF Arrive, Goto, HomeInv, TypeInv, MoveTypeOK
<1>2. f # t /\ f \in Member /\ t \in Member
  BY <1>1, MoveAtWork
<1>3. /\ rows[f] = {o.src} /\ Open(f, o) /\ f \in Live
      /\ Open(t, o) /\ rows[t] = {} /\ job[c].cat = {}
  BY <1>1 DEF HomeInv, OnTheWay
<1>4. /\ rows'[t] = {o.path}
      /\ \A k \in Member : k # t => rows'[k] = rows[k]
  BY <1>2, <1>3 DEF Arrive, HomeInv, TypeInv, MoveTypeOK
<1>5. TypeInv /\ LogInv /\ Arrived /\ OneHome /\ OnePath
  BY DEF HomeInv, NodeInv
<1>6. \A k, x : /\ Open(k, x)' <=> Open(k, x)
                /\ Recorded(k, x)' <=> Recorded(k, x)
                /\ Finished(k, x)' <=> Finished(k, x)
                /\ Index(k, x)' = Index(k, x)
  BY <1>1 DEF Open, Finished, Recorded, Index
<1>7. LogInv'
  BY <1>1, <1>5, <1>6 DEF LogInv, RecordOK, Recorded
<1>8. f \notin Live'
  <2>1. MovedOn(f, o)'
    BY <1>2, <1>3, <1>4, <1>6 DEF MovedOn, Open, Holds
  <2>2. QED
    BY <2>1, <1>2, <1>7, LiveIsNext
<1>9. t \in Live'
  <2>1. ASSUME NEW x \in Move, MovedOn(t, x)' PROVE FALSE
    BY <2>1, <1>2, <1>3, <1>5, <1>6, OpenLast DEF MovedOn, Same
  <2>2. QED
    BY <2>1, <1>2, <1>4, <1>7, LiveIsNext DEF Holds
<1>10. ASSUME NEW m \in Live', m # t PROVE FALSE
  <2>1. m \in Member /\ m # f /\ Holds(m)
    BY <1>10, <1>4, <1>8 DEF Live, Holds
  <2>2. \A x \in Move : MovedOn(m, x) => MovedOn(m, x)'
    <3>1. \A k \in Member : Holds(k) => Holds(k)'
      BY <1>4 DEF Holds
    <3>2. QED
      BY <3>1, <1>6, InMembers DEF MovedOn
  <2>3. \A x \in Move : ~MovedOn(m, x)'
    BY <2>1, <1>10, <1>7, LiveIsNext
  <2>4. m \in Live
    BY <2>1, <2>2, <2>3, <1>5, LiveIs
  <2>5. QED
    BY <2>1, <2>4, <1>3, <1>5 DEF OneHome
<1>11. Live = {f} /\ Live' = {t}
  BY <1>3, <1>5, <1>9, <1>10 DEF OneHome, Live
<1>12. OneHome'
  BY <1>11 DEF OneHome
<1>13. Arrived'
  <2> SUFFICES ASSUME NEW x \in Move, Recorded(x.to, x), Index(x.to, x) = Len(log[x.to]),
                      Finished(x.to, x) \/ Holds(x.to)'
               PROVE  x.path \in rows'[x.to]
    BY <1>1, <1>6 DEF Arrived
  <2>1. CASE x.to = t
    <3>1. Index(t, x) = Index(t, o)
      BY <2>1, <1>2, <1>3, <1>5, OpenLast
    <3>2. Same(o, x)
      BY <3>1, <2>1, <1>2, <1>3, RecordedAt DEF Open, Records, Same
    <3>3. QED
      BY <3>2, <2>1, <1>4 DEF Same
  <2>2. CASE x.to # t
    BY <2>2, <1>4, <1>5, InMembers DEF Arrived, Holds
  <2>3. QED
    BY <2>1, <2>2
<1>14. OnePath'
  BY <1>4, <1>5 DEF OnePath
<1>15. OnTheWay(c)'
  <2>1. job'[c].op = o
    BY <1>1
  <2>2. QED
    BY <2>1, <1>1, <1>2, <1>3, <1>4, <1>6 DEF OnTheWay
<1>16. QED
  BY <1>7, <1>11, <1>12, <1>13, <1>14, <1>15 DEF NodeInv

LEMMA InDoneHome ==
  ASSUME HomeInv, TypeInv', NEW c \in Client, NEW o \in Move, job[c].op = o, InDone(c)
  PROVE  NodeInv' /\ OnTheWay(c)' /\ Live' = Live
<1> DEFINE f == o.from
           t == o.to
<1>1. /\ pc[c] = "inDone" /\ pc'[c] = "reread" /\ rows' = rows /\ job' = job
      /\ log' = Closed(t, Index(t, o))
  BY DEF InDone, Goto, HomeInv, TypeInv, MoveTypeOK
<1>2. f # t /\ f \in Member /\ t \in Member
  BY <1>1, MoveAtWork
<1>3. rows[f] = {o.src} /\ Open(f, o) /\ Open(t, o) /\ rows[t] = {o.path}
  BY <1>1 DEF HomeInv, OnTheWay
<1>4. TypeInv /\ LogInv /\ Arrived /\ OneHome /\ OnePath
  BY DEF HomeInv, NodeInv
<1>5. LogInv' /\ \A k \in Member : Len(log'[k]) = Len(log[k])
  BY <1>1, <1>2, <1>3, <1>4, CloseLog
<1>6. \A k \in Member : \A x :
        /\ Recorded(k, x)' <=> Recorded(k, x)
        /\ Recorded(k, x) => Index(k, x)' = Index(k, x)
        /\ Finished(k, x)' <=> Finished(k, x) \/ (k = t /\ Same(o, x))
  BY <1>1, <1>2, <1>3, <1>4, CloseLog
<1>7. ASSUME NEW m \in Member, NEW x \in Move
      PROVE  MovedOn(m, x)' <=> MovedOn(m, x)
  <2>1. CASE x.from = m /\ x.to # m
    <3>1. x.to \in Member
      BY InMembers
    <3>2. Open(m, x)' <=> Open(m, x)
      BY <2>1, <1>2, <1>6 DEF Open, Same
    <3>3. /\ Holds(x.to)' <=> Holds(x.to)
          /\ x.to = t => Holds(x.to)
      BY <1>1, <1>3 DEF Holds
    <3>4. QED
      BY <3>1, <3>2, <3>3, <1>6 DEF MovedOn
  <2>2. QED
    BY <2>1 DEF MovedOn
<1>8. Live' = Live
  <2>1. ASSUME NEW m \in Member PROVE m \in Live' <=> m \in Live
    BY <1>1, <1>4, <1>5, <1>7, LiveIs, LiveIsNext DEF Holds
  <2>2. QED
    BY <2>1 DEF Live
<1>9. Arrived'
  <2> SUFFICES ASSUME NEW x \in Move, Recorded(x.to, x)',
                      Index(x.to, x)' = Len(log'[x.to]),
                      Finished(x.to, x)' \/ Holds(x.to)'
               PROVE  x.path \in rows'[x.to]
    BY DEF Arrived
  <2>1. x.to \in Member
    BY InMembers
  <2>2. Recorded(x.to, x) /\ Index(x.to, x) = Len(log[x.to])
    BY <2>1, <1>5, <1>6
  <2>3. CASE x.to = t /\ Same(o, x)
    BY <2>3, <1>1, <1>3 DEF Same
  <2>4. CASE ~(x.to = t /\ Same(o, x))
    BY <2>1, <2>2, <2>4, <1>1, <1>4, <1>6 DEF Arrived, Holds
  <2>5. QED
    BY <2>3, <2>4
<1>10. OnTheWay(c)'
  <2>1. job'[c].op = o
    BY <1>1
  <2>2. Open(f, o)' /\ Finished(t, o)'
    BY <1>2, <1>3, <1>6 DEF Open, Same
  <2>3. QED
    BY <2>1, <2>2, <1>1, <1>2, <1>3 DEF OnTheWay
<1>11. Removed => Removed'
  BY <1>1, <1>2, <1>4, ClosedKeeps DEF TypeInv
<1>12. QED
  BY <1>1, <1>4, <1>5, <1>8, <1>9, <1>10, <1>11, OneHomeStep DEF LiveStep, NodeInv, OnePath

LEMMA RereadHome ==
  ASSUME HomeInv, TypeInv', NEW c \in Client, NEW o \in Move, job[c].op = o, Reread(c)
  PROVE  NodeInv' /\ OnTheWay(c)' /\ Live' = Live
<1>1. /\ pc[c] = "reread" /\ pc'[c] = "depart" /\ rows' = rows /\ log' = log
      /\ job'[c].op = o /\ job'[c].cat = rows[o.from]
  BY DEF Reread, Goto, nodes, HomeInv, TypeInv, MoveTypeOK, Job
<1>2. NodeInv' /\ Live' = Live
  BY <1>1, NodesStay DEF HomeInv
<1>3. \A k : (Open(k, o)' <=> Open(k, o)) /\ (Finished(k, o)' <=> Finished(k, o))
  BY <1>1 DEF Open, Finished, Recorded, Index
<1>4. o.from # o.to /\ rows[o.from] = {o.src} /\ Open(o.from, o) /\ Finished(o.to, o)
  BY <1>1 DEF HomeInv, OnTheWay
<1>5. OnTheWay(c)'
  BY <1>1, <1>3, <1>4 DEF OnTheWay
<1>6. QED
  BY <1>2, <1>5

LEMMA DepartHome ==
  ASSUME HomeInv, TypeInv', NEW c \in Client, NEW o \in Move, job[c].op = o, Depart(c)
  PROVE  NodeInv' /\ OnTheWay(c)' /\ Live' = Live
<1> DEFINE f == o.from
           t == o.to
<1>1. /\ pc[c] = "depart" /\ pc'[c] = "outDone" /\ log' = log /\ job' = job
  BY DEF Depart, Goto, HomeInv, TypeInv, MoveTypeOK
<1>2. f # t /\ f \in Member /\ t \in Member
  BY <1>1, MoveAtWork
<1>3. rows[f] = {o.src} /\ Open(f, o) /\ Finished(t, o) /\ job[c].cat = {o.src}
  BY <1>1 DEF HomeInv, OnTheWay
<1>4. /\ rows'[f] = {}
      /\ \A k \in Member : k # f => rows'[k] = rows[k]
  BY <1>2, <1>3 DEF Depart, HomeInv, TypeInv, MoveTypeOK
<1>5. TypeInv /\ LogInv /\ Arrived /\ OneHome /\ OnePath
  BY DEF HomeInv, NodeInv
<1>6. \A k, x : /\ Open(k, x)' <=> Open(k, x)
                /\ Recorded(k, x)' <=> Recorded(k, x)
                /\ Finished(k, x)' <=> Finished(k, x)
                /\ Index(k, x)' = Index(k, x)
  BY <1>1 DEF Open, Finished, Recorded, Index
<1>7. LogInv'
  BY <1>1, <1>5, <1>6 DEF LogInv, RecordOK, Recorded
<1>8. \A x : Open(f, x) => Same(o, x)
  BY <1>2, <1>3, <1>5, OpenLast
<1>9. ASSUME NEW m \in Member, NEW x \in Move
      PROVE  MovedOn(m, x)' <=> MovedOn(m, x)
  <2>1. CASE x.from = m /\ x.to # m
    <3>1. x.to = f /\ Recorded(f, x) => Finished(f, x)
      BY <1>2, <1>8 DEF Open, Same
    <3>2. x.to # f => (Holds(x.to)' <=> Holds(x.to))
      BY <1>4, InMembers DEF Holds
    <3>3. QED
      BY <3>1, <3>2, <1>6 DEF MovedOn
  <2>2. QED
    BY <2>1 DEF MovedOn
<1>10. f \notin Live /\ f \notin Live'
  <2>1. MovedOn(f, o)
    BY <1>2, <1>3 DEF MovedOn, Finished
  <2>2. QED
    BY <2>1, <1>2, <1>4, <1>5, LiveIs DEF Live, Holds
<1>11. Live' = Live
  <2>1. ASSUME NEW m \in Member, m # f PROVE m \in Live' <=> m \in Live
    BY <2>1, <1>4, <1>5, <1>7, <1>9, LiveIs, LiveIsNext DEF Holds
  <2>2. QED
    BY <2>1, <1>10 DEF Live
<1>12. Arrived'
  <2> SUFFICES ASSUME NEW x \in Move, Recorded(x.to, x), Index(x.to, x) = Len(log[x.to]),
                      Finished(x.to, x) \/ Holds(x.to)'
               PROVE  x.path \in rows'[x.to]
    BY <1>1, <1>6 DEF Arrived
  <2>1. x.to # f
    <3>1. Index(f, o) = Len(log[f]) /\ Records(log[f][Index(f, o)], o)
      BY <1>2, <1>3, <1>5, OpenLast, RecordedAt DEF Open
    <3>2. ASSUME x.to = f PROVE FALSE
      <4>1. Records(log[f][Len(log[f])], x)
        BY <3>2, <1>2, RecordedAt
      <4>2. QED
        BY <4>1, <3>1, <3>2, <1>2 DEF Records
    <3>3. QED
      BY <3>2
  <2>2. QED
    BY <2>1, <1>4, <1>5, InMembers DEF Arrived, Holds
<1>13. OnePath'
  BY <1>4, <1>5 DEF OnePath
<1>14. OnTheWay(c)'
  <2>1. job'[c].op = o
    BY <1>1
  <2>2. QED
    BY <2>1, <1>1, <1>2, <1>3, <1>4, <1>6 DEF OnTheWay
<1>15. OneHome'
  BY <1>1, <1>5, <1>11 DEF OneHome, Removed
<1>16. QED
  BY <1>7, <1>11, <1>12, <1>13, <1>14, <1>15 DEF NodeInv, LiveStep

LEMMA OutDoneHome ==
  ASSUME HomeInv, TypeInv', NEW c \in Client, NEW o \in Move, job[c].op = o, OutDone(c)
  PROVE  NodeInv' /\ OnTheWay(c)' /\ Live' = Live
<1> DEFINE f == o.from
           t == o.to
<1>1. /\ pc[c] = "outDone" /\ pc'[c] = "idle" /\ rows' = rows
      /\ log' = Closed(f, Index(f, o))
  BY DEF OutDone, Leave, Goto, HomeInv, TypeInv, MoveTypeOK
<1>2. f # t /\ f \in Member /\ t \in Member
  BY <1>1, MoveAtWork
<1>3. rows[f] = {} /\ Open(f, o)
  BY <1>1 DEF HomeInv, OnTheWay
<1>4. TypeInv /\ LogInv /\ Arrived /\ OneHome /\ OnePath
  BY DEF HomeInv, NodeInv
<1>5. LogInv' /\ \A k \in Member : Len(log'[k]) = Len(log[k])
  BY <1>1, <1>2, <1>3, <1>4, CloseLog
<1>6. \A k \in Member : \A x :
        /\ Recorded(k, x)' <=> Recorded(k, x)
        /\ Recorded(k, x) => Index(k, x)' = Index(k, x)
        /\ Finished(k, x)' <=> Finished(k, x) \/ (k = f /\ Same(o, x))
  BY <1>1, <1>2, <1>3, <1>4, CloseLog
<1>7. ASSUME NEW m \in Member, m # f, NEW x \in Move
      PROVE  MovedOn(m, x)' <=> MovedOn(m, x)
  <2>1. CASE x.from = m /\ x.to # m
    <3>1. x.to \in Member /\ ~(x.to = f /\ Same(o, x))
      BY <1>2, InMembers DEF Same
    <3>2. Open(m, x)' <=> Open(m, x)
      BY <1>6, <1>7 DEF Open
    <3>3. QED
      BY <3>1, <3>2, <1>1, <1>6 DEF MovedOn, Holds
  <2>2. QED
    BY <2>1 DEF MovedOn
<1>8. Live' = Live
  <2>1. ASSUME NEW m \in Member, m # f PROVE m \in Live' <=> m \in Live
    BY <2>1, <1>1, <1>4, <1>5, <1>7, LiveIs, LiveIsNext DEF Holds
  <2>2. f \notin Live /\ f \notin Live'
    BY <1>1, <1>3 DEF Live, Holds
  <2>3. QED
    BY <2>1, <2>2 DEF Live
<1>9. Arrived'
  <2> SUFFICES ASSUME NEW x \in Move, Recorded(x.to, x)',
                      Index(x.to, x)' = Len(log'[x.to]),
                      Finished(x.to, x)' \/ Holds(x.to)'
               PROVE  x.path \in rows'[x.to]
    BY DEF Arrived
  <2>1. x.to \in Member
    BY InMembers
  <2>2. Recorded(x.to, x) /\ Index(x.to, x) = Len(log[x.to])
    BY <2>1, <1>5, <1>6
  <2>3. Finished(x.to, x) \/ Holds(x.to)
    <3>1. ~(x.to = f /\ Same(o, x))
      BY <1>2 DEF Same
    <3>2. QED
      BY <2>1, <3>1, <1>1, <1>6 DEF Holds
  <2>4. QED
    BY <2>2, <2>3, <1>1, <1>4 DEF Arrived
<1>10. OnTheWay(c)'
  BY <1>1 DEF OnTheWay
<1>11. Removed => Removed'
  BY <1>1, <1>2, <1>4, ClosedKeeps DEF TypeInv
<1>12. QED
  BY <1>1, <1>4, <1>5, <1>8, <1>9, <1>10, <1>11, OneHomeStep DEF LiveStep, NodeInv, OnePath

(* What is removed is the file at its home: where it has left, the record   *)
(* of the move is pending.                                                  *)
LEMMA RmHome ==
  ASSUME HomeInv, TypeInv', NEW c \in Client, NEW m \in Member, Rm(c, m)
  PROVE  /\ NodeInv' /\ OnTheWay(c)' /\ Live = {m} /\ Live' = {} /\ Removed'
         /\ rows[m] # {} /\ rows' = [rows EXCEPT ![m] = {}]
<1> DEFINE e == [op |-> NoMove, role |-> "rm", state |-> "done"]
<1>1. /\ pc[c] = "idle" /\ pc' = pc /\ ~Busy(m)
      /\ log' = [log EXCEPT ![m] = Append(@, e)]
  BY DEF Rm
<1>2. Holds(m) /\ rows' = [rows EXCEPT ![m] = {}]
  <2>1. PICK p \in rows[m] : rows' = [rows EXCEPT ![m] = @ \ {p}]
    BY DEF Rm
  <2>2. rows[m] = {p}
    BY <2>1 DEF HomeInv, NodeInv, OnePath
  <2>3. QED
    BY <2>1, <2>2 DEF Holds, HomeInv, TypeInv, MoveTypeOK
<1>3. TypeInv /\ LogInv /\ Arrived /\ OneHome /\ OnePath
  BY DEF HomeInv, NodeInv
<1>4. /\ rows'[m] = {}
      /\ \A k \in Member : k # m => rows'[k] = rows[k]
  BY <1>2, <1>3 DEF TypeInv, MoveTypeOK
<1>5. Writable(m, e) /\ e \in Entry /\ e.role = "rm" /\ \A x : ~Records(e, x)
  BY <1>1 DEF Writable, Entry, Records
<1> HIDE DEF e
<1>6. LogInv'
  BY <1>1, <1>3, <1>5, AppendLog
<1>7. \A k \in Member : \A x : /\ Recorded(k, x)' <=> Recorded(k, x)
                               /\ Finished(k, x)' <=> Finished(k, x)
  <2>1. \A k \in Member : \A x :
          /\ Recorded(k, x)' <=> Recorded(k, x)
          /\ Recorded(k, x) => (Finished(k, x)' <=> Finished(k, x))
    BY <1>1, <1>3, <1>5, AppendLog
  <2>2. QED
    BY <2>1 DEF Finished
<1>8. ASSUME NEW k \in Member, NEW x \in Move
      PROVE  MovedOn(k, x)' <=> MovedOn(k, x)
  <2>1. x.to \in Member
    BY InMembers
  <2>2. x.to = m /\ Recorded(m, x) => Finished(m, x)
    BY <1>1, <1>3, OpenLast DEF Open
  <2>3. x.to # m => (Holds(x.to)' <=> Holds(x.to))
    BY <2>1, <1>4 DEF Holds
  <2>4. QED
    BY <2>1, <2>2, <2>3, <1>7 DEF MovedOn, Open
<1>9. Live = {m}
  <2>1. m \in Live
    BY <1>1, <1>2, <1>3, IdleStays
  <2>2. QED
    BY <2>1, <1>3 DEF OneHome, Live
<1>10. Live' = {}
  <2>1. ASSUME NEW k \in Member, k # m PROVE k \notin Live'
    <3>1. k \in Live' => k \in Live
      BY <2>1, <1>3, <1>4, <1>6, <1>8, LiveIs, LiveIsNext DEF Holds
    <3>2. QED
      BY <3>1, <2>1, <1>9
  <2>2. m \notin Live'
    BY <1>4 DEF Live, Holds
  <2>3. QED
    BY <2>1, <2>2 DEF Live
<1>11. Removed'
  BY <1>1, <1>3, <1>5, AppendKeeps DEF TypeInv
<1>12. Arrived'
  BY <1>1, <1>3, <1>4, <1>5, ArrivedAppend
<1>13. OnePath'
  BY <1>3, <1>4 DEF OnePath
<1>14. OnTheWay(c)'
  BY <1>1 DEF OnTheWay
<1>15. OneHome'
  BY <1>10, <1>11 DEF OneHome
<1>16. QED
  BY <1>2, <1>6, <1>9, <1>10, <1>11, <1>12, <1>13, <1>14, <1>15 DEF NodeInv, Holds

-----------------------------------------------------------------------------
(* The invariant, and what follows from it *)

(* A step of a move in hand: only the arrival changes the live home. *)
LEMMA ProgressHome ==
  ASSUME HomeInv, TypeInv', NEW c \in Client, Progress(c)
  PROVE  /\ NodeInv' /\ OnTheWay(c)'
         /\ IF Arrive(c) THEN Live = {job[c].op.from} /\ Live' = {job[c].op.to}
                         ELSE Live' = Live
<1>1. ~(RetryWrite(c) \/ RetryDone(c))
  BY DEF RetryWrite, RetryDone, HomeInv, OnTheWay
<1>2. pc[c] # "idle"
  BY DEF Progress, OutIntent, InIntent, Transfer, Arrive, InDone, Reread, Depart,
         OutDone, RetryWrite, RetryDone
<1>3. PICK o \in Move : job[c].op = o
  BY <1>2, MoveAtWork
<1>4. CASE Arrive(c)
  BY <1>3, <1>4, ArriveHome
<1>5. CASE OutIntent(c) \/ InIntent(c) \/ Transfer(c) \/ InDone(c)
             \/ Reread(c) \/ Depart(c) \/ OutDone(c)
  <2>1. NodeInv' /\ OnTheWay(c)' /\ Live' = Live
    BY <1>3, <1>5, OutIntentHome, InIntentHome, TransferHome, InDoneHome, RereadHome,
       DepartHome, OutDoneHome
  <2>2. ~Arrive(c)
    BY <1>5 DEF Arrive, OutIntent, InIntent, Transfer, InDone, Reread, Depart, OutDone
  <2>3. QED
    BY <2>1, <2>2
<1>6. QED
  BY <1>1, <1>4, <1>5 DEF Progress

LEMMA HomeStep ==
  ASSUME OneAtATime, Prompt, HomeInv, [MoveNext]_moveVars
  PROVE  HomeInv' /\ LiveStep
<1>1. TypeInv'
  BY TypeStep DEF HomeInv
<1>2. ASSUME NEW c \in Client, NodeInv', OnTheWay(c)', LiveStep
      PROVE  HomeInv' /\ LiveStep
  <2>1. \A d \in Client : d = c
    BY DEF OneAtATime
  <2>2. QED
    BY <2>1, <1>1, <1>2 DEF HomeInv
<1>3. CASE UNCHANGED moveVars
  <2>1. NodeInv' /\ Live' = Live
    BY <1>3, NodesStay DEF HomeInv, moveVars
  <2>2. \A k, x : /\ Open(k, x)' <=> Open(k, x)
                  /\ Finished(k, x)' <=> Finished(k, x)
                  /\ Recorded(k, x)' <=> Recorded(k, x)
                  /\ Index(k, x)' = Index(k, x)
    BY <1>3 DEF moveVars, Open, Finished, Recorded, Index
  <2>3. \A c \in Client : OnTheWay(c)'
    BY <1>3, <2>1, <2>2 DEF HomeInv, OnTheWay, moveVars, Timely
  <2>4. QED
    BY <2>1, <2>3, <1>1 DEF HomeInv, LiveStep
<1>4. ASSUME NEW c \in Client, NEW o \in Move, Mv(c, o) PROVE HomeInv' /\ LiveStep
  <2>1. NodeInv' /\ OnTheWay(c)' /\ Live' = Live
    BY <1>1, <1>4, MvHome
  <2>2. QED
    BY <2>1, <1>2 DEF LiveStep
<1>5. ASSUME NEW c \in Client, NEW m \in Member, Rm(c, m) PROVE HomeInv' /\ LiveStep
  <2>1. NodeInv' /\ OnTheWay(c)' /\ Live = {m} /\ Live' = {} /\ Removed'
    BY <1>1, <1>5, RmHome
  <2>2. QED
    BY <2>1, <1>2 DEF LiveStep
<1>7. ASSUME NEW c \in Client, Crash(c) PROVE HomeInv' /\ LiveStep
  <2>1. NodeInv' /\ Live' = Live
    BY <1>7, NodesStay DEF HomeInv, Crash, nodes
  <2>2. OnTheWay(c)'
    BY <1>7 DEF Crash, Leave, Goto, OnTheWay, HomeInv, TypeInv, MoveTypeOK
  <2>3. QED
    BY <2>1, <2>2, <1>2 DEF LiveStep
<1>8. ASSUME NEW c \in Client, NEW m, NEW n, Retry(c, m, n) PROVE FALSE
  BY <1>8 DEF Retry, Prompt
<1>9. ASSUME NEW c \in Client, Progress(c) PROVE HomeInv' /\ LiveStep
  <2>1. NodeInv' /\ OnTheWay(c)'
    BY <1>1, <1>9, ProgressHome
  <2>2. CASE Arrive(c)
    <3>1. pc[c] # "idle"
      BY <2>2 DEF Arrive
    <3>2. /\ job[c].op.from \in Member /\ job[c].op.to \in Member
          /\ job[c].op.from # job[c].op.to
      BY <3>1, MoveAtWork
    <3>3. Live = {job[c].op.from} /\ Live' = {job[c].op.to}
      BY <1>1, <1>9, <2>2, ProgressHome
    <3>4. QED
      BY <1>2, <2>1, <3>2, <3>3 DEF LiveStep
  <2>3. CASE ~Arrive(c)
    BY <1>1, <1>2, <1>9, <2>1, <2>3, ProgressHome DEF LiveStep
  <2>4. QED
    BY <2>2, <2>3
<1>10. QED
  BY <1>3, <1>4, <1>5, <1>7, <1>8, <1>9 DEF MoveNext, Command

LEMMA HomeStart == MoveInit => HomeInv
<1> SUFFICES ASSUME MoveInit PROVE HomeInv
  OBVIOUS
<1>1. PICK m \in Member, p \in Path :
        rows = [k \in Member |-> IF k = m THEN {p} ELSE {}]
  BY DEF MoveInit
<1>2. \A k \in Member : \A n : n \notin DOMAIN log[k]
  BY DEF MoveInit
<1>3. Live = {m}
  BY <1>1, <1>2 DEF Live, Left, Holds
<1>4. LogInv /\ Arrived
  BY <1>2, InMembers DEF LogInv, Arrived, Recorded
<1>5. OnePath /\ OneHome
  BY <1>1, <1>3 DEF OnePath, OneHome
<1>6. QED
  BY <1>4, <1>5, TypeStart DEF MoveInit, HomeInv, NodeInv, OnTheWay

(* The invariant: a pending record is the last of its log, what arrived     *)
(* last at a member is there, and a move that was announced but has not     *)
(* arrived leaves the file at its home.                                     *)
THEOREM HomeInductive == OneAtATime /\ Prompt => (MoveSpec => []HomeInv)
<1> SUFFICES ASSUME OneAtATime, Prompt PROVE MoveSpec => []HomeInv
  OBVIOUS
<1>1. HomeInv /\ [MoveNext]_moveVars => HomeInv'
  BY HomeStep
<1>2. QED
  BY <1>1, HomeStart, PTL DEF MoveSpec

(* Never two live homes, and never none before the file is removed: when    *)
(* one command runs at a time and moves that are done are not asked for     *)
(* again, wherever a move was cut short.                                    *)
THEOREM OneHomeHolds == OneAtATime /\ Prompt => (MoveSpec => []OneHome)
<1> SUFFICES ASSUME OneAtATime, Prompt PROVE MoveSpec => []OneHome
  OBVIOUS
<1>1. HomeInv => OneHome
  BY DEF HomeInv, NodeInv
<1>2. QED
  BY <1>1, HomeInductive, PTL

LEMMA HomeMoves ==
  ASSUME OneAtATime, Prompt, HomeInv, [MoveNext]_moveVars
  PROVE  [H!Move \/ H!Remove]_Home
<1>1. LiveStep
  BY HomeStep
<1>2. CASE Live' = Live
  BY <1>2 DEF Home
<1>3. ASSUME NEW a \in Member, NEW b \in Member, a # b, Live = {a}, Live' = {b}
      PROVE  H!Move
  <2>1. Home = a /\ Home' = b
    BY <1>3 DEF Home
  <2>2. QED
    BY <2>1, <1>3 DEF H!Move
<1>4. ASSUME NEW a \in Member, Live = {a}, Live' = {}
      PROVE  H!Remove
  <2>1. Home = a /\ Home' = Gone
    BY <1>4 DEF Home
  <2>2. QED
    BY <2>1 DEF H!Remove
<1>5. QED
  BY <1>1, <1>2, <1>3, <1>4 DEF LiveStep

(* A move of eight steps, with crashes between them, is one step to whoever *)
(* counts live homes: mvCross implements FileHome.                          *)
THEOREM HomeRefinement == OneAtATime /\ Prompt => (MoveSpec => HomeSpec)
<1> SUFFICES ASSUME OneAtATime, Prompt PROVE MoveSpec => HomeSpec
  OBVIOUS
<1>1. HomeInv /\ [MoveNext]_moveVars => [H!Move \/ H!Remove]_Home
  BY HomeMoves
<1>2. MoveInit => H!HInit
  <2> SUFFICES ASSUME MoveInit PROVE H!HInit
    OBVIOUS
  <2>1. PICK m \in Member, p \in Path :
          rows = [k \in Member |-> IF k = m THEN {p} ELSE {}]
    BY DEF MoveInit
  <2>2. \A k \in Member : \A n : n \notin DOMAIN log[k]
    BY DEF MoveInit
  <2>3. Live = {m}
    BY <2>1, <2>2 DEF Live, Left, Holds
  <2>4. QED
    BY <2>3 DEF Home, H!HInit
<1>3. QED
  BY <1>1, <1>2, HomeInductive, PTL DEF MoveSpec, HomeSpec, H!HSpec
=============================================================================
