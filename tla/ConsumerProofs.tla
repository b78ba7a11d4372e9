---------------------------- MODULE ConsumerProofs ----------------------------
(***************************************************************************)
(* Proofs about Resolver.tla and Consumer.tla, for any number of members,  *)
(* paths, records and hops.  The types hold whoever runs and whatever is   *)
(* out of reach; what a resolution finds can be fetched when commands do   *)
(* not overlap; absence is concluded rightly when at most one move is at   *)
(* work while members are asked, and shares are mounted.                   *)
(***************************************************************************)
EXTENDS Consumer, CrossMoveProofs, FiniteSetTheorems

(* One command moves the file at a time, no move is asked for again or      *)
(* retried, one at most is at work while the members are asked, and there   *)
(* is no share that may not be mounted.                                     *)
OneMover == OneAtATime /\ Prompt /\ MaxMoves <= 1 /\ Share = {}

(* Only so many processes are at work; those since the reader began are     *)
(* counted.                                                                 *)
AtWorkNow == {c \in Client : pc[c] # "idle"}

Counted == /\ IsFiniteSet(AtWorkNow) /\ begun \in Nat
           /\ AtWork /\ AtWorkNow # {} => begun >= 1

(* The file got to its home by o while the members were asked: o is the     *)
(* last that happened where it came from, and at most its own command is at *)
(* work, with the row at the destination written.                           *)
Moved(o) ==
  /\ begun >= 1
  /\ Recorded(o.from, o) /\ Index(o.from, o) = Len(log[o.from])
  /\ \A c \in AtWorkNow : /\ pc[c] \in {"inDone", "reread", "depart", "outDone"}
                          /\ job[c].op = o

(* The reader has still to hear of it, or has and will go there. *)
ToldOf(o) ==
  \/ o.from \in toAsk \cup toTell
  \/ <<o.from, o.to>> \in pointer
  \/ stage = "hop" /\ chain = {o.from} /\ dest = o.to

(* While all members have answered and none lists the file nor has a move   *)
(* of it pending: whoever lists it is its home, or was not read; and the    *)
(* home was not read, or the file came there meanwhile, and what tells of   *)
(* it is before the reader.                                                 *)
Searching == stage \in {"query", "hop", "hopLog"} /\ whole /\ ~moving /\ held = {}

SearchInv ==
  Searching =>
    /\ \A m \in Member : Holds(m) => m \in toAsk \cup Live
    /\ \A m \in Live \ toAsk : \E o \in Move : o.to = m /\ Moved(o) /\ ToldOf(o)

(* What is missing is removed, and no row of it is left, nor comes.         *)
Missing == verdict = "missing" => Removed /\ \A m \in Member : ~Holds(m)

ReadInv == HomeInv /\ dark = {} /\ Counted /\ SearchInv /\ Missing

-----------------------------------------------------------------------------
(* Typing *)

(* A departure on record is that of a move.                                 *)
OutOps == \A m \in Member : \A n \in DOMAIN log[m] :
            log[m][n].role = "out" => log[m][n].op \in Move

(* A member to go to is one, and so is the one that was found.              *)
Headed == /\ stage \in {"hop", "hopLog"} => dest \in Member
          /\ stage = "over" => verdict # "none"
          /\ verdict = "found" => where \in Member

ReadTypeInv ==
  TypeInv /\ OutOps /\ TypeOK /\ IsFiniteSet(AtWorkNow) /\ Headed

LEMMA StepMoves == Step => MoveNext
BY DEF Step, MoveNext, Command

LEMMA GreatestIn ==
  ASSUME NEW l \in Nat, NEW S \in SUBSET (1 .. l), S # {}
  PROVE  \E x \in S : \A y \in S : y <= x
<1> DEFINE T == {k \in Nat : l - k \in S}
           R == OpToRel(<, Nat)
<1>1. PICK y \in S : TRUE
  OBVIOUS
<1>2. l - y \in T
  <2>1. l - y \in Nat /\ l - (l - y) = y
    BY <1>1
  <2> QED
    BY <2>1, <1>1
<1>3. IsWellFoundedOn(R, Nat)
  BY NatLessThanWellFounded
<1>4. PICK k \in T : \A j \in T : ~(<<j, k>> \in R)
  <2> HIDE DEF R, T
  <2>1. T \in SUBSET Nat
    BY DEF T
  <2> QED
    BY <1>2, <1>3, <2>1, WFMin
<1>5. \A j \in T : ~(j < k)
  BY <1>4 DEF OpToRel
<1>6. ASSUME NEW z \in S PROVE z <= l - k
  <2>1. z \in 1 .. l /\ l - z \in Nat /\ l - (l - z) = z
    OBVIOUS
  <2>2. l - z \in T
    BY <2>1
  <2>3. ~(l - z < k) /\ k \in Nat
    BY <1>5, <2>2
  <2> QED
    BY <2>1, <2>3
<1> QED
  BY <1>6

(* The last departure of a member is to another. *)
LEMMA LastDeparture ==
  ASSUME MoveTypeOK, NEW m \in Member, Departures(m) # {}
  PROVE  \E n \in Departures(m) : /\ \A k \in Departures(m) : k <= n
                                  /\ MovedTo(m) = log[m][n].op.to
<1> DEFINE last == CHOOSE n \in Departures(m) : \A k \in Departures(m) : k <= n
<1>1. m \notin dark
  BY DEF Departures, LogOf
<1>2. log[m] \in Seq(Entry) /\ LogOf(m) = log[m]
  BY <1>1 DEF MoveTypeOK, LogOf
<1>3. Len(log[m]) \in Nat /\ Departures(m) \in SUBSET (1 .. Len(log[m]))
  BY <1>2 DEF Departures
<1>4. \E n \in Departures(m) : \A k \in Departures(m) : k <= n
  BY <1>3, GreatestIn
<1>5. last \in Departures(m) /\ \A k \in Departures(m) : k <= last
  BY <1>4
<1>6. MovedTo(m) = log[m][last].op.to
  BY DEF MovedTo
<1> HIDE DEF last
<1> QED
  BY <1>5, <1>6

LEMMA MovedToType ==
  ASSUME TypeInv, OutOps, NEW m \in Member
  PROVE  MovedTo(m) \in Member \cup {NoMove}
<1>1. CASE Departures(m) = {}
  BY <1>1 DEF MovedTo
<1>2. CASE Departures(m) # {}
  <2>1. PICK n \in Departures(m) : MovedTo(m) = log[m][n].op.to
    BY <1>2, LastDeparture DEF TypeInv
  <2>2. n \in DOMAIN log[m] /\ log[m][n].role = "out"
    BY <2>1 DEF Departures, LogOf
  <2>3. log[m][n].op \in Move
    BY <2>2 DEF OutOps
  <2> QED
    BY <2>1, <2>3 DEF Move
<1> QED
  BY <1>1, <1>2

LEMMA AppendOuts ==
  ASSUME MoveTypeOK, OutOps, NEW m \in Member, NEW e \in Entry, e.role = "out" => e.op \in Move,
         log' = [log EXCEPT ![m] = Append(@, e)]
  PROVE  OutOps'
<1>1. log[m] \in Seq(Entry)
  BY DEF MoveTypeOK
<1>2. /\ \A n \in DOMAIN Append(log[m], e) : n \in DOMAIN log[m] \/ n = Len(log[m]) + 1
      /\ \A n \in DOMAIN log[m] : Append(log[m], e)[n] = log[m][n]
      /\ Append(log[m], e)[Len(log[m]) + 1] = e
  BY <1>1
<1>3. /\ log'[m] = Append(log[m], e)
      /\ \A k \in Member : k # m => log'[k] = log[k]
  BY DEF MoveTypeOK
<1>4. ASSUME NEW k \in Member, NEW n \in DOMAIN log'[k], log'[k][n].role = "out"
      PROVE  log'[k][n].op \in Move
  <2>1. CASE k # m
    BY <1>3, <1>4, <2>1 DEF OutOps
  <2>2. CASE k = m /\ n \in DOMAIN log[m]
    BY <1>2, <1>3, <1>4, <2>2 DEF OutOps
  <2>3. CASE k = m /\ n = Len(log[m]) + 1
    BY <1>2, <1>3, <1>4, <2>3
  <2> QED
    BY <1>2, <1>3, <2>1, <2>2, <2>3
<1> QED
  BY <1>4 DEF OutOps

LEMMA ClosedOuts ==
  ASSUME MoveTypeOK, OutOps, NEW m \in Member, NEW n, log' = Closed(m, n)
  PROVE  OutOps'
<1>1. \A k \in Member :
        /\ DOMAIN log'[k] = DOMAIN log[k]
        /\ \A i \in DOMAIN log[k] : /\ log'[k][i].role = log[k][i].role
                                    /\ log'[k][i].op = log[k][i].op
  BY ClosedType
<1> QED
  BY <1>1 DEF OutOps

LEMMA OutsStep ==
  ASSUME TypeInv, OutOps, [MoveNext]_moveVars
  PROVE  OutOps'
<1> USE DEF TypeInv
<1>1. ASSUME NEW m \in Member, NEW o \in Move, NEW role \in {"out", "in"}, Announce(m, o, role)
      PROVE  OutOps'
  <2> DEFINE e == [op |-> o, role |-> role, state |-> "intent"]
  <2>1. e \in Entry /\ e.op = o
    BY DEF Entry
  <2>2. log' = log \/ log' = [log EXCEPT ![m] = Append(@, e)]
    BY <1>1 DEF Announce
  <2> HIDE DEF e
  <2>3. CASE log' = log
    BY <2>3 DEF OutOps
  <2> QED
    BY <2>1, <2>2, <2>3, AppendOuts
<1>2. ASSUME NEW c \in Client, NEW m \in Member, Rm(c, m) PROVE OutOps'
  <2> DEFINE e == [op |-> NoMove, role |-> "rm", state |-> "done"]
  <2>1. e \in Entry /\ e.role = "rm" /\ log' = [log EXCEPT ![m] = Append(@, e)]
    BY <1>2 DEF Rm, Entry
  <2> HIDE DEF e
  <2> QED
    BY <2>1, AppendOuts
<1>3. ASSUME NEW c \in Client, OutIntent(c) \/ InIntent(c) PROVE OutOps'
  BY <1>1, <1>3, InHand DEF OutIntent, InIntent
<1>4. ASSUME NEW c \in Client, InDone(c) \/ OutDone(c) PROVE OutOps'
  BY <1>4, ClosedOuts, InHand DEF InDone, OutDone
<1>5. ASSUME NEW c \in Client, RetryDone(c) PROVE OutOps'
  BY <1>5, ClosedOuts DEF RetryDone, CallInv
<1>6. CASE UNCHANGED log
  BY <1>6 DEF OutOps
<1> QED
  BY <1>2, <1>3, <1>4, <1>5, <1>6 DEF MoveNext, Command, Progress, Mv, Transfer, Arrive,
     Reread, Depart, Retry, RetryWrite, Crash, nodes, moveVars

(* Whoever goes on, dies or removes the file sets nobody to work.           *)
LEMMA NoMoreWork ==
  ASSUME MoveTypeOK, NEW c \in Client,
         Progress(c) \/ Crash(c) \/ \E m \in Member : Rm(c, m)
  PROVE  AtWorkNow' \subseteq AtWorkNow
<1>1. ASSUME NEW d \in Client, pc[d] # "idle", NEW p, Goto(d, p)
      PROVE  AtWorkNow' \subseteq AtWorkNow
  BY <1>1 DEF AtWorkNow, Goto, MoveTypeOK
<1>2. CASE Progress(c) \/ Crash(c)
  BY <1>1, <1>2 DEF Progress, OutIntent, InIntent, Transfer, Arrive, InDone, Reread, Depart,
     OutDone, RetryWrite, RetryDone, Crash, Leave
<1>3. CASE \E m \in Member : Rm(c, m)
  BY <1>3 DEF Rm, AtWorkNow
<1> QED
  BY <1>2, <1>3

(* A step sets at most one more process to work, and that is a new move or  *)
(* a retry.                                                                 *)
LEMMA WorkStep ==
  ASSUME MoveTypeOK, [MoveNext]_moveVars
  PROVE  /\ IsFiniteSet(AtWorkNow) => IsFiniteSet(AtWorkNow)'
         /\ \/ AtWorkNow' \subseteq AtWorkNow
            \/ \E c \in Client, o \in Move : Mv(c, o)
            \/ \E c \in Client, m \in Member : \E n \in DOMAIN log[m] : Retry(c, m, n)
<1>3. ASSUME NEW c \in Client, Progress(c) \/ Crash(c) \/ \E m \in Member : Rm(c, m)
      PROVE  AtWorkNow' \subseteq AtWorkNow
  BY <1>3, NoMoreWork
<1>4. ASSUME NEW c \in Client, NEW p, Goto(c, p) PROVE AtWorkNow' \subseteq AtWorkNow \cup {c}
  BY <1>4 DEF AtWorkNow, Goto, MoveTypeOK
<1>5. CASE UNCHANGED moveVars
  BY <1>5, FS_Subset DEF moveVars, AtWorkNow
<1>6. CASE \E c \in Client, o \in Move : Mv(c, o)
  <2>1. PICK c \in Client : AtWorkNow' \subseteq AtWorkNow \cup {c}
    BY <1>4, <1>6 DEF Mv
  <2> QED
    BY <1>6, <2>1, FS_AddElement, FS_Subset
<1>7. CASE \E c \in Client, m \in Member : \E n \in DOMAIN log[m] : Retry(c, m, n)
  <2>1. PICK c \in Client : AtWorkNow' \subseteq AtWorkNow \cup {c}
    BY <1>4, <1>7 DEF Retry
  <2> QED
    BY <1>7, <2>1, FS_AddElement, FS_Subset
<1>8. CASE AtWorkNow' \subseteq AtWorkNow
  BY <1>8, FS_Subset
<1> QED
  BY <1>3, <1>5, <1>6, <1>7, <1>8 DEF MoveNext, Command

LEMMA ReadTypeStart == Init => ReadTypeInv
<1> SUFFICES ASSUME Init PROVE ReadTypeInv
  OBVIOUS
<1>1. TypeInv /\ MoveTypeOK
  BY TypeStart DEF Init, TypeInv
<1>2. AtWorkNow = {} /\ OutOps
  BY DEF Init, MoveInit, AtWorkNow, OutOps
<1> QED
  BY <1>1, <1>2, FS_EmptySet DEF Init, ReadTypeInv, TypeOK, Headed

LEMMA ConcludeType ==
  ASSUME TypeOK, NEW v \in {"found", "partial", "missing", "failed"}, NEW m \in Member \cup {NoMove},
         v = "found" => m \in Member, Conclude(v, m), UNCHANGED <<moveVars, dark, begun>>
  PROVE  TypeOK' /\ Headed'
  BY DEF TypeOK, Conclude, MoveTypeOK, moveVars, Headed

LEMMA ReadType ==
  ASSUME ReadTypeInv, Read, UNCHANGED <<moveVars, dark>>
  PROVE  TypeOK' /\ Headed'
<1>1. TypeInv /\ OutOps /\ TypeOK /\ Headed
  BY DEF ReadTypeInv
<1>2. MoveTypeOK'
  BY <1>1 DEF TypeInv, MoveTypeOK, moveVars
<1> DEFINE OK == TypeOK' /\ Headed'
<1>3. ASSUME NEW v \in {"found", "partial", "missing", "failed"},
             NEW m \in Member \cup {NoMove}, v = "found" => m \in Member,
             Conclude(v, m), UNCHANGED begun
      PROVE  OK
  BY <1>1, <1>3, ConcludeType
<1>4. CASE \E answered \in SUBSET Member : Probe(answered)
  BY <1>1, <1>2, <1>4 DEF Probe, TypeOK, Headed
<1>5. ASSUME NEW m \in Member, QueryCatalog(m) PROVE OK
  BY <1>1, <1>2, <1>5 DEF QueryCatalog, TypeOK, Headed
<1>6. ASSUME NEW m \in Member, QueryLog(m) PROVE OK
  <2>1. MovedTo(m) \in Member \cup {NoMove}
    BY <1>1, MovedToType
  <2>2. PendingMove(m) \in BOOLEAN
    BY DEF PendingMove
  <2>3. /\ stage = "query" /\ toTell' = toTell \ {m}
        /\ moving' = (moving \/ PendingMove(m))
        /\ \/ pointer' = pointer
           \/ MovedTo(m) \in Member /\ pointer' = pointer \cup {<<m, MovedTo(m)>>}
        /\ UNCHANGED <<stage, toAsk, held, chain, dest, whole, verdict, where, begun, dark>>
    BY <1>6, <2>1 DEF QueryLog
  <2> HIDE DEF OK
  <2>4. pointer' \in SUBSET (Member \X Member)
    BY <1>1, <2>3 DEF TypeOK
  <2>5. moving' \in BOOLEAN
    BY <1>1, <2>2, <2>3 DEF TypeOK
  <2> QED
    BY <1>1, <1>2, <2>3, <2>4, <2>5 DEF TypeOK, OK, Headed
<1>7. CASE Found
  BY <1>1, <1>3, <1>7 DEF Found, TypeOK
<1>8. CASE NotFound
  BY <1>3, <1>8 DEF NotFound
<1>9. CASE QueryFails \/ Astray \/ HopOffline
  BY <1>3, <1>9 DEF QueryFails, Astray, HopOffline
<1>10. ASSUME NEW p \in pointer, Follow(p) PROVE OK
  <2>1. p[1] \in Member /\ p[2] \in Member
    BY <1>1 DEF TypeOK
  <2> QED
    BY <1>1, <1>2, <1>10, <2>1 DEF Follow, TypeOK, Headed
<1>11. CASE HopFound
  <2>1. dest \in Member
    BY <1>1, <1>11 DEF HopFound, HopReady, Headed
  <2> QED
    BY <1>3, <1>11, <2>1 DEF HopFound
<1>12. CASE HopMiss
  <2>1. dest \in Member
    BY <1>1, <1>12 DEF HopMiss, HopReady, Headed
  <2> QED
    BY <1>1, <1>2, <1>12, <2>1 DEF HopMiss, TypeOK, Headed
<1>13. CASE HopLog
  <2>1. dest \in Member
    BY <1>1, <1>13 DEF HopLog, Headed
  <2>2. MovedTo(dest) \in Member \cup {NoMove}
    BY <1>1, <2>1, MovedToType
  <2> HIDE DEF OK
  <2>3. \/ MovedTo(dest) \in Member /\ stage' = "hop" /\ dest' = MovedTo(dest) /\ UNCHANGED chain
        \/ stage' = "query" /\ dest' = NoMove /\ chain' = {}
    BY <1>13, <2>2 DEF HopLog
  <2> QED
    BY <1>1, <1>2, <1>13, <2>3 DEF HopLog, TypeOK, OK, Headed
<1> QED
  BY <1>4, <1>5, <1>6, <1>7, <1>8, <1>9, <1>10, <1>11, <1>12, <1>13 DEF Read

LEMMA ReadTypeStep ==
  ASSUME ReadTypeInv, [Next]_vars
  PROVE  ReadTypeInv'
<1>1. [MoveNext]_moveVars
  BY StepMoves DEF Next, vars, moveVars
<1>2. TypeInv' /\ OutOps'
  BY <1>1, TypeStep, OutsStep DEF ReadTypeInv
<1>3. IsFiniteSet(AtWorkNow)'
  BY <1>1, WorkStep DEF ReadTypeInv, TypeInv
<1>4. MoveTypeOK'
  BY <1>2 DEF TypeInv
<1> DEFINE OK == TypeOK' /\ Headed'
<1>5. ASSUME NEW hint \in Member \cup {NoMove}, Ask(hint), UNCHANGED <<moveVars, dark>>
      PROVE  OK
  <2> SUFFICES TypeOK' /\ Headed'
    OBVIOUS
  <2>1. begun' \in Nat
    BY <1>5, FS_CardinalityType DEF Ask, AtWorkNow, ReadTypeInv
  <2>2. TypeOK /\ Headed
    BY DEF ReadTypeInv
  <2>3. CASE hint \in Member /\ Conclude("found", hint)
    BY <1>4, <1>5, <2>1, <2>2, <2>3 DEF Conclude, TypeOK, Headed
  <2>4. CASE stage' = "probe" /\ UNCHANGED <<toAsk, toTell, held, pointer, moving, chain, dest, whole, verdict, where>>
    BY <1>4, <1>5, <2>1, <2>2, <2>4 DEF TypeOK, Headed
  <2> QED
    BY <1>5, <2>3, <2>4 DEF Ask
<1>6. ASSUME Step, UNCHANGED <<readVars, dark>> PROVE OK
  <2>1. begun' \in Nat
    BY <1>6 DEF Step, ReadTypeInv, TypeOK
  <2> QED
    BY <1>4, <1>6, <2>1 DEF ReadTypeInv, TypeOK, readVars, Headed
<1>7. ASSUME UNCHANGED vars PROVE OK
  BY <1>4, <1>7 DEF ReadTypeInv, TypeOK, vars, readVars, Headed
<1>8. OK
  <2> HIDE DEF OK
  <2>1. ASSUME Read, UNCHANGED <<moveVars, dark>> PROVE OK
    BY <2>1, ReadType DEF OK
  <2> QED
    BY <1>5, <1>6, <1>7, <2>1 DEF Next
<1> QED
  BY <1>2, <1>3, <1>8 DEF ReadTypeInv

(* Destinations read off the logs are members, whatever is retried and      *)
(* however many commands overlap.                                           *)
THEOREM ReadTypeCorrect == Spec => []TypeOK
<1>1. ReadTypeInv => TypeOK
  BY DEF ReadTypeInv
<1> QED
  BY <1>1, ReadTypeStart, ReadTypeStep, PTL DEF Spec

(* What a command does is a step of the resolution it runs, or none of it.  *)
UseTypes == seen \in Member \cup {NoMove} /\ place \in Member
UseInv   == ReadTypeInv /\ UseTypeOK

LEMMA UseReads ==
  ASSUME UseTypes, [CNext]_allVars
  PROVE  [Next]_vars
<1>1. CASE Resolve
  BY <1>1 DEF Resolve, Others, UseTypes, Next
<1>2. CASE Read /\ UNCHANGED <<Others, useVars>>
  BY <1>2 DEF Others, Next
<1>3. CASE Step /\ UNCHANGED <<readVars, dark, command, unread, seen, blind, answer, place>>
  BY <1>3 DEF Next
<1>4. CASE UNCHANGED allVars
  BY <1>4 DEF allVars, vars
<1>5. CASE UNCHANGED vars
  BY <1>5
<1> QED
  BY <1>1, <1>2, <1>3, <1>4, <1>5 DEF CNext, Use, Repo, GetByPath, GetById, RestoreIdentity, Begin,
     LookInto, LookBlind, NoMatch, Report, Fetch, FetchFails, Heal, Collision, Restore, Answer

LEMMA UseTypeStart == CInit => UseInv
  BY ReadTypeStart DEF CInit, UseInv, ReadTypeInv, UseTypeOK

LEMMA UseTypeStep ==
  ASSUME UseInv, [CNext]_allVars
  PROVE  UseInv'
<1>1. ReadTypeInv'
  BY UseReads, ReadTypeStep DEF UseInv, UseTypeOK, UseTypes
<1>2. TypeOK'
  BY <1>1 DEF ReadTypeInv
<1>3. UseTypeOK
  BY DEF UseInv
<1>4. ASSUME UNCHANGED useVars PROVE UseTypeOK'
  BY <1>2, <1>3, <1>4 DEF UseTypeOK, useVars
<1>5. ASSUME NEW name \in {"pull", "heal", "get", "restore"}, Begin(name),
             unread' \in SUBSET Member, seen' \in Member \cup {NoMove}
      PROVE  UseTypeOK'
  BY <1>2, <1>3, <1>5 DEF UseTypeOK, Begin, AllIdle
<1>6. ASSUME NEW m \in Member, LookInto(m) \/ LookBlind(m) PROVE UseTypeOK'
  BY <1>2, <1>3, <1>6 DEF UseTypeOK, LookInto, LookBlind
<1>7. ASSUME NEW a \in {"unknown", "partial", "missing", "failed", "delivered", "absent",
                        "healed", "taken", "restored"},
             answer' = a, place' \in Member, UNCHANGED <<command, unread, seen, blind, still>>
      PROVE  UseTypeOK'
  BY <1>2, <1>3, <1>7 DEF UseTypeOK
<1>8. UseTypeOK'
  <2>1. CASE \/ \E name \in {"pull", "heal"} : Repo(name)
             \/ \E m \in Member : GetByPath(m)
             \/ GetById \/ RestoreIdentity
    BY <1>3, <1>5, <2>1 DEF Repo, GetByPath, GetById, RestoreIdentity, UseTypeOK
  <2>2. CASE \E m \in Member : LookInto(m) \/ LookBlind(m)
    BY <1>6, <2>2
  <2>3. CASE Resolve \/ (Read /\ UNCHANGED <<Others, useVars>>) \/ UNCHANGED allVars
    BY <1>4, <2>3 DEF Resolve, allVars
  <2>4. CASE NoMatch \/ Fetch \/ FetchFails \/ Collision \/ Restore
    BY <1>3, <1>7, <2>4 DEF NoMatch, Fetch, FetchFails, Collision, Restore, Answer, UseTypeOK
  <2>5. CASE Report
    <3>1. verdict \in {"partial", "missing", "failed"}
      BY <2>5 DEF Report, Answer, UseInv, ReadTypeInv, Headed, TypeOK
    <3> QED
      BY <1>3, <1>7, <2>5, <3>1 DEF Report, Answer, UseTypeOK
  <2>6. CASE Heal
    <3>1. where \in Member
      BY <2>6 DEF Heal, UseInv, ReadTypeInv, Headed
    <3> QED
      BY <1>7, <2>6, <3>1 DEF Heal, Answer
  <2>7. CASE Step /\ UNCHANGED <<readVars, dark, command, unread, seen, blind, answer, place>>
                  /\ still' = (still /\ \A c \in Client : pc'[c] = "idle")
    BY <1>2, <1>3, <2>7 DEF UseTypeOK
  <2> QED
    BY <2>1, <2>2, <2>3, <2>4, <2>5, <2>6, <2>7 DEF CNext, Use
<1> QED
  BY <1>1, <1>8 DEF UseInv

LEMMA UseTypeInductive == CSpec => []UseInv
  BY UseTypeStart, UseTypeStep, PTL DEF CSpec

(* A reader knows members, also where the log names a destination, and the  *)
(* lock names one, whatever is asked and moved, by however many.            *)
THEOREM UseTypeCorrect == CSpec => []UseTypeOK
<1>1. UseInv => UseTypeOK
  BY DEF UseInv
<1> QED
  BY <1>1, UseTypeInductive, PTL

(* A command that resolves a file is a resolution to whoever looks at the   *)
(* reads alone.                                                             *)
THEOREM ConsumerReads == CSpec => Spec
<1>1. CInit => Init
  BY DEF CInit
<1>2. UseInv /\ [CNext]_allVars => [Next]_vars
  BY UseReads DEF UseInv, UseTypeOK, UseTypes
<1> QED
  BY <1>1, <1>2, UseTypeInductive, PTL DEF CSpec, Spec

-----------------------------------------------------------------------------
(* What is found can be fetched *)

(* The lock, the members that were seen to list the file and the one it was *)
(* found at have its bytes, and keep them until it is removed.              *)
Served ==
  /\ place \in objects /\ answer # "absent"
  /\ held \subseteq objects
  /\ verdict = "found" => where \in objects

ServeInv == UseInv /\ LostInv /\ (Removed \/ Served)

LEMMA ObjectsStay ==
  ASSUME TypeInv, [MoveNext]_moveVars
  PROVE  Removed' \/ objects \subseteq objects'
<1>1. ASSUME NEW c \in Client, NEW m \in Member, Rm(c, m) PROVE Removed'
  <2>1. [op |-> NoMove, role |-> "rm", state |-> "done"] \in Entry
    BY DEF Entry
  <2> QED
    BY <1>1, <2>1, AppendKeeps DEF Rm, TypeInv
<1>2. CASE UNCHANGED objects
  BY <1>2
<1> QED
  BY <1>1, <1>2 DEF MoveNext, Command, Progress, Mv, OutIntent, InIntent, Transfer, Arrive,
     InDone, Reread, Depart, OutDone, Retry, RetryWrite, RetryDone, Crash, nodes, moveVars

LEMMA ReadServes ==
  ASSUME ReadTypeInv, NeverLost, Served, Read, UNCHANGED <<Others, useVars>>
  PROVE  Served'
<1>1. UNCHANGED <<objects, place, answer>>
  BY DEF Others, moveVars, useVars
<1>2. \A m \in Member : Lists(m) => m \in objects
  BY DEF NeverLost, Lists
<1>3. ASSUME NEW v, NEW m, v = "found" => m \in objects, Conclude(v, m) PROVE Served'
  BY <1>1, <1>3 DEF Served, Conclude
<1>4. CASE UNCHANGED <<held, verdict, where>>
  BY <1>1, <1>4 DEF Served
<1>5. CASE \E answered \in SUBSET Member : Probe(answered)
  BY <1>4, <1>5 DEF Probe
<1>6. ASSUME NEW m \in Member, QueryCatalog(m) PROVE Served'
  <2>1. /\ UNCHANGED <<verdict, where>>
        /\ held' \subseteq held \cup {m}
        /\ Lists(m) \/ held' = held
    BY <1>6 DEF QueryCatalog
  <2> QED
    BY <1>1, <1>2, <2>1 DEF Served
<1>7. CASE (\E m \in Member : QueryLog(m)) \/ (\E p \in pointer : Follow(p)) \/ HopMiss \/ HopLog
  BY <1>4, <1>7 DEF QueryLog, Follow, HopMiss, HopLog
<1>8. CASE Found
  BY <1>3, <1>8 DEF Found, Served
<1>9. CASE NotFound
  <2>1. PICK v \in {"missing", "partial"} : Conclude(v, NoMove)
    BY <1>9 DEF NotFound
  <2> QED
    BY <1>3, <2>1
<1>10. CASE QueryFails \/ Astray \/ HopOffline
  BY <1>3, <1>10 DEF QueryFails, Astray, HopOffline
<1>11. CASE HopFound
  <2>1. dest \in Member /\ Lists(dest)
    BY <1>11 DEF HopFound, HopReady, ReadTypeInv, Headed
  <2> QED
    BY <1>2, <1>3, <1>11, <2>1 DEF HopFound
<1> QED
  BY <1>5, <1>6, <1>7, <1>8, <1>9, <1>10, <1>11 DEF Read

LEMMA MovesOrNot ==
  ASSUME [CNext]_allVars
  PROVE  /\ [MoveNext]_moveVars
         /\ \/ UNCHANGED moveVars
            \/ Step /\ UNCHANGED <<readVars, dark, command, unread, seen, blind, answer, place>>
  BY StepMoves DEF CNext, Use, Repo, GetByPath, GetById, RestoreIdentity, Begin, LookInto,
     LookBlind, NoMatch, Resolve, Report, Fetch, FetchFails, Heal, Collision, Restore, Answer,
     Others, allVars, vars, moveVars

LEMMA ServeStep ==
  ASSUME OneAtATime, ServeInv, [CNext]_allVars
  PROVE  ServeInv'
<1>1. TypeInv /\ ReadTypeInv /\ UseTypeOK /\ UseInv /\ LostInv /\ NeverLost
  BY DEF ServeInv, UseInv, ReadTypeInv, LostInv
<1>2. UseInv' /\ LostInv' /\ (Removed => Removed')
  BY <1>1, UseTypeStep, MovesOrNot, LostStep, RemovedStays
<1>3. SUFFICES ASSUME Served, ~Removed' PROVE Served'
  BY <1>2 DEF ServeInv
<1>4. CASE Step /\ UNCHANGED <<readVars, dark, command, unread, seen, blind, answer, place>>
  <2>1. objects \subseteq objects'
    BY <1>1, <1>3, MovesOrNot, ObjectsStay
  <2> QED
    BY <1>3, <1>4, <2>1 DEF Served, readVars
<1>5. ASSUME UNCHANGED <<objects, held, verdict, where>>, answer' # "absent", place' \in objects
      PROVE  Served'
  BY <1>3, <1>5 DEF Served
<1>6. ASSUME UNCHANGED vars, answer' # "absent", place' \in objects PROVE Served'
  BY <1>5, <1>6 DEF vars, moveVars, readVars
<1>7. CASE Read /\ UNCHANGED <<Others, useVars>>
  BY <1>1, <1>3, <1>7, ReadServes
<1>8. CASE Resolve
  <2>1. PICK hint \in Member \cup {NoMove} :
          Ask(hint) /\ UNCHANGED <<objects, place, answer>>
    BY <1>1, <1>8 DEF Resolve, Others, moveVars, useVars, UseTypeOK
  <2>2. CASE hint \in Member /\ Lists(hint) /\ Conclude("found", hint)
    BY <1>1, <1>3, <2>1, <2>2 DEF Served, Conclude, NeverLost, Lists
  <2>3. CASE UNCHANGED <<held, verdict, where>>
    BY <1>3, <2>1, <2>3 DEF Served
  <2> QED
    BY <2>1, <2>2, <2>3 DEF Ask
<1>9. CASE \/ \E name \in {"pull", "heal"} : Repo(name)
           \/ \E m \in Member : GetByPath(m)
           \/ GetById \/ RestoreIdentity
           \/ \E m \in Member : LookInto(m) \/ LookBlind(m)
           \/ UNCHANGED allVars
  <2>1. UNCHANGED vars /\ answer' = answer /\ place' = place
    BY <1>9 DEF Repo, GetByPath, GetById, RestoreIdentity, Begin, LookInto, LookBlind, allVars, useVars
  <2> QED
    BY <1>3, <1>6, <2>1 DEF Served
<1>10. CASE NoMatch \/ Report \/ Collision \/ Restore \/ FetchFails
  <2>1. UNCHANGED vars /\ place' = place
    BY <1>10 DEF NoMatch, Report, Collision, Restore, FetchFails, Answer
  <2>2. answer' # "absent"
    <3>1. verdict # "absent"
      BY <1>1 DEF ReadTypeInv, TypeOK
    <3> QED
      BY <1>10, <3>1 DEF NoMatch, Report, Collision, Restore, FetchFails, Answer
  <2> QED
    BY <1>3, <1>6, <2>1, <2>2 DEF Served
<1>11. CASE Fetch
  BY <1>3, <1>6, <1>11 DEF Fetch, Answer, Served
<1>12. CASE Heal
  BY <1>3, <1>6, <1>12 DEF Heal, Answer, Served
<1> QED
  BY <1>4, <1>7, <1>8, <1>9, <1>10, <1>11, <1>12 DEF CNext, Use

LEMMA ServeStart == CInit => ServeInv
<1> SUFFICES ASSUME CInit PROVE ServeInv
  OBVIOUS
<1>1. UseInv /\ LostInv
  BY UseTypeStart, LostStart DEF CInit, Init
<1>2. Served
  BY <1>1 DEF CInit, Init, Served, LostInv, NeverLost
<1> QED
  BY <1>1, <1>2 DEF ServeInv

(* When one command moves the file at a time, whoever is told where it is   *)
(* can fetch it there, however long after it was seen and however often it  *)
(* has moved on since, wherever a move was cut short, asked for again or    *)
(* retried, and whichever shares are not mounted: only vault rm takes bytes *)
(* away.                                                                    *)
THEOREM ServedUntilRemoved == OneAtATime => (CSpec => []ServesOrGone)
<1> SUFFICES ASSUME OneAtATime PROVE CSpec => []ServesOrGone
  OBVIOUS
<1>1. ServeInv /\ [CNext]_allVars => ServeInv'
  BY ServeStep
<1>2. ServeInv => ServesOrGone
  BY DEF ServeInv, Served, ServesOrGone
<1> QED
  BY <1>1, <1>2, ServeStart, PTL DEF CSpec

-----------------------------------------------------------------------------
(* Absence is concluded of what was removed *)

ReaderInv == ReadTypeInv /\ ReadInv

LEMMA CountStep ==
  ASSUME Prompt, ReaderInv, [Next]_vars
  PROVE  Counted'
<1>1. MoveTypeOK /\ Counted /\ ReadTypeInv
  BY DEF ReaderInv, ReadTypeInv, ReadInv, TypeInv
<1>2. IsFiniteSet(AtWorkNow)' /\ begun' \in Nat
  BY <1>1, ReadTypeStep DEF ReadTypeInv, TypeOK
<1>3. CASE \E hint \in Member \cup {NoMove} : Ask(hint) /\ UNCHANGED <<moveVars, dark>>
  <2>1. begun' = Cardinality(AtWorkNow) /\ AtWorkNow' = AtWorkNow
    BY <1>3 DEF Ask, AtWorkNow, moveVars
  <2>2. AtWorkNow # {} => begun' # 0
    BY <1>1, <2>1, FS_EmptySet DEF Counted
  <2> QED
    BY <1>2, <2>1, <2>2 DEF Counted
<1>4. CASE Read /\ UNCHANGED <<moveVars, dark>>
  <2>1. AtWork /\ AtWorkNow' = AtWorkNow /\ begun' = begun
    BY <1>4 DEF AtWork, AtWorkNow, moveVars, Read, Probe, QueryCatalog, QueryLog, Found, NotFound,
       QueryFails, Follow, Astray, HopOffline, HopFound, HopMiss, HopLog, HopReady
  <2> QED
    BY <1>1, <1>2, <2>1 DEF Counted
<1>5. CASE Step /\ UNCHANGED <<readVars, dark>>
  <2>1. AtWork' <=> AtWork
    BY <1>5 DEF AtWork, readVars
  <2>2. CASE begun' = IF AtWork THEN begun + 1 ELSE begun
    BY <1>1, <1>2, <2>1, <2>2 DEF Counted
  <2>3. ASSUME NEW c \in Client,
               Progress(c) \/ Crash(c) \/ \E m \in Member : Rm(c, m), UNCHANGED begun
        PROVE  Counted'
    BY <1>1, <1>2, <2>1, <2>3, NoMoreWork DEF Counted
  <2> QED
    BY <1>5, <2>2, <2>3 DEF Step, Retry, Prompt
<1>6. CASE UNCHANGED vars
  BY <1>1, <1>6 DEF vars, moveVars, readVars, Counted, AtWork, AtWorkNow
<1> QED
  BY <1>3, <1>4, <1>5, <1>6 DEF Next

-----------------------------------------------------------------------------
(* The steps of the reader *)

(* What a member's log tells, once nothing is pending there and the last    *)
(* that happened is that the file left.                                     *)
LEMMA ToldByLog ==
  ASSUME HomeInv, dark = {}, NEW o \in Move, Moved(o), ~PendingMove(o.from)
  PROVE  MovedTo(o.from) = o.to /\ o.to # NoMove
<1> DEFINE m == o.from
           l == Len(log[m])
           e == log[m][l]
<1>1. m \in Member /\ TypeInv /\ LogInv /\ MoveTypeOK
  BY InMembers DEF HomeInv, NodeInv, TypeInv
<1>2. l \in DOMAIN log[m] /\ Records(e, o)
  BY <1>1, RecordedAt DEF Moved
<1>3. LogOf(m) = log[m]
  BY DEF LogOf
<1>4. e.state = "done"
  BY <1>1, <1>2, <1>3, EntryAt DEF PendingMove, Records
<1>5. e.role = "out"
  BY <1>1, <1>2, EntryAt DEF LogInv, RecordOK, Records
<1>6. l \in Departures(m)
  BY <1>2, <1>3, <1>4, <1>5 DEF Departures
<1>7. PICK n \in Departures(m) : /\ \A k \in Departures(m) : k <= n
                                 /\ MovedTo(m) = log[m][n].op.to
  BY <1>1, <1>6, LastDeparture
<1>8. n = l
  <2>1. log[m] \in Seq(Entry) /\ n \in DOMAIN log[m]
    BY <1>1, <1>3, <1>7 DEF MoveTypeOK, Departures
  <2>2. n \in 1 .. l /\ l \in Nat /\ l <= n
    BY <2>1, <1>6, <1>7
  <2> QED
    BY <2>2
<1>9. o.to # NoMove
  BY CrossMoveAssumption DEF Move
<1> QED
  BY <1>2, <1>7, <1>8, <1>9 DEF Records

LEMMA SearchRead ==
  ASSUME ReaderInv, Read, UNCHANGED <<moveVars, dark>>
  PROVE  SearchInv' /\ Missing'
<1>1. /\ HomeInv /\ dark = {} /\ SearchInv /\ Missing /\ LogInv /\ OneHome /\ TypeInv
      /\ Headed
  BY DEF ReaderInv, ReadInv, HomeInv, NodeInv, ReadTypeInv
<1>2. /\ Live' = Live /\ Removed' = Removed /\ \A m : Holds(m)' <=> Holds(m)
      /\ \A m : Lists(m) <=> Holds(m)
  BY <1>1 DEF moveVars, Live, Left, Holds, Recorded, Finished, Index, Removed, Lists
<1>3. begun' = begun
  BY DEF Read, Probe, QueryCatalog, QueryLog, Found, NotFound, QueryFails, Follow, Astray,
     HopOffline, HopFound, HopMiss, HopLog
<1>4. \A o \in Move : Moved(o)' <=> Moved(o)
  BY <1>3 DEF Moved, moveVars, Recorded, Index, AtWorkNow
<1> DEFINE OK == SearchInv' /\ Missing'
<1>5. ASSUME Searching, UNCHANGED verdict,
             \A m \in Member : Holds(m) /\ m \in toAsk => m \in toAsk',
             \A o \in Move : Moved(o) /\ Holds(o.to) /\ ToldOf(o) => ToldOf(o)'
      PROVE  OK
  <2>1. Missing'
    BY <1>1, <1>2, <1>5 DEF Missing
  <2>2. \A m \in Member : Holds(m)' => m \in toAsk' \cup Live'
    BY <1>1, <1>2, <1>5 DEF SearchInv
  <2>3. ASSUME NEW m \in Live' \ toAsk' PROVE \E o \in Move : o.to = m /\ Moved(o)' /\ ToldOf(o)'
    <3>1. m \in Live /\ Holds(m) /\ m \notin toAsk
      BY <1>2, <1>5, <2>3 DEF Live
    <3>2. PICK o \in Move : o.to = m /\ Moved(o) /\ ToldOf(o)
      BY <1>1, <1>5, <3>1 DEF SearchInv
    <3> QED
      BY <1>4, <1>5, <3>1, <3>2
  <2> QED
    BY <2>1, <2>2, <2>3 DEF SearchInv
<1>6. ASSUME UNCHANGED verdict, ~Searching' PROVE OK
  BY <1>1, <1>2, <1>6 DEF Missing, SearchInv
<1>7. ASSUME NEW v, NEW m, Conclude(v, m), v # "missing" PROVE OK
  BY <1>7 DEF Conclude, Missing, SearchInv, Searching
<1> HIDE DEF OK
<1>8. ASSUME NEW answered \in SUBSET Member, Probe(answered) PROVE OK
  <2>1. verdict' = verdict /\ toAsk' = answered /\ (whole' => answered = Member)
    BY <1>8 DEF Probe
  <2>2. Live \in SUBSET Member
    BY DEF Live
  <2>3. SearchInv'
    BY <1>2, <2>1, <2>2 DEF SearchInv, Searching
  <2>4. Missing'
    BY <1>1, <1>2, <2>1 DEF Missing
  <2> QED
    BY <2>3, <2>4 DEF OK
<1>9. ASSUME NEW m \in Member, QueryCatalog(m) PROVE OK
  <2>1. /\ verdict' = verdict /\ toAsk' = toAsk \ {m} /\ stage = "query"
        /\ UNCHANGED <<stage, pointer, moving, chain, dest, whole>>
    BY <1>9 DEF QueryCatalog
  <2> SUFFICES ASSUME Searching' PROVE OK
    BY <1>6, <2>1
  <2>2. ~Holds(m) /\ held = {} /\ toTell' = toTell \cup {m}
    BY <1>2, <1>9 DEF QueryCatalog, Searching
  <2>3. Searching
    BY <2>1, <2>2 DEF Searching
  <2>4. \A o \in Move : ToldOf(o) => ToldOf(o)'
    BY <2>1, <2>2 DEF ToldOf
  <2> QED
    BY <1>5, <2>1, <2>2, <2>3, <2>4
<1>10. ASSUME NEW m \in Member, QueryLog(m) PROVE OK
  <2>1. /\ verdict' = verdict /\ toAsk' = toAsk /\ toTell' = toTell \ {m}
        /\ moving' = (moving \/ PendingMove(m))
        /\ UNCHANGED <<stage, held, chain, dest, whole>>
        /\ pointer \subseteq pointer'
        /\ MovedTo(m) # NoMove => <<m, MovedTo(m)>> \in pointer'
    BY <1>10 DEF QueryLog
  <2> SUFFICES ASSUME Searching' PROVE OK
    BY <1>6, <2>1
  <2>2. Searching /\ ~PendingMove(m)
    BY <2>1 DEF Searching
  <2>3. ASSUME NEW o \in Move, Moved(o), ToldOf(o) PROVE ToldOf(o)'
    <3>1. CASE o.from = m
      <4>1. MovedTo(m) = o.to /\ o.to # NoMove
        BY <1>1, <2>2, <2>3, <3>1, ToldByLog
      <4> QED
        BY <2>1, <3>1, <4>1 DEF ToldOf
    <3>2. CASE o.from # m
      BY <2>1, <2>3, <3>2 DEF ToldOf
    <3> QED
      BY <3>1, <3>2
  <2> QED
    BY <1>5, <2>1, <2>2, <2>3
<1>11. CASE Found
  <2>1. PICK m \in held : Conclude("found", m)
    BY <1>11 DEF Found
  <2>2. OK
    BY <1>7, <2>1
  <2> QED
    BY <2>2 DEF OK
<1>12. ASSUME NotFound PROVE OK
  <2>1. CASE Proof
    <3>1. /\ Searching /\ toAsk = {} /\ toTell = {} /\ pointer = {} /\ stage = "query"
          /\ Conclude("missing", NoMove)
      BY <1>12, <2>1 DEF NotFound, Proof, Searching
    <3>2. Live = {}
      BY <1>1, <3>1 DEF SearchInv, ToldOf
    <3>3. Removed /\ \A m \in Member : ~Holds(m)
      BY <1>1, <3>1, <3>2 DEF SearchInv, OneHome
    <3>4. Missing'
      BY <1>2, <3>3 DEF Missing
    <3>5. SearchInv'
      BY <3>1 DEF Conclude, SearchInv, Searching
    <3> QED
      BY <3>4, <3>5 DEF OK
  <2>2. CASE ~Proof
    BY <1>7, <1>12, <2>2 DEF NotFound
  <2> QED
    BY <2>1, <2>2
<1>13. ASSUME QueryFails \/ Astray \/ HopOffline PROVE OK
  BY <1>7, <1>13 DEF QueryFails, Astray, HopOffline
<1>14. ASSUME HopFound PROVE OK
  BY <1>7, <1>14 DEF HopFound
<1>15. ASSUME NEW p \in pointer, Follow(p) PROVE OK
  <2>1. /\ verdict' = verdict /\ stage = "query" /\ stage' = "hop"
        /\ pointer' = pointer \ {p} /\ chain' = {p[1]} /\ dest' = p[2]
        /\ UNCHANGED <<toAsk, toTell, held, moving, whole>>
    BY <1>15 DEF Follow
  <2>2. \A o \in Move : ToldOf(o) => ToldOf(o)'
    BY <2>1 DEF ToldOf
  <2>3. Searching' => Searching
    BY <2>1 DEF Searching
  <2> QED
    BY <1>5, <1>6, <2>1, <2>2, <2>3
<1>16. ASSUME HopMiss PROVE OK
  <2>1. /\ verdict' = verdict /\ stage = "hop" /\ stage' = "hopLog" /\ ~Holds(dest)
        /\ UNCHANGED <<toAsk, toTell, held, pointer, moving, dest, whole>>
    BY <1>2, <1>16 DEF HopMiss, HopReady
  <2>2. \A o \in Move : Holds(o.to) /\ ToldOf(o) => ToldOf(o)'
    BY <2>1 DEF ToldOf
  <2>3. Searching' => Searching
    BY <2>1 DEF Searching
  <2> QED
    BY <1>5, <1>6, <2>1, <2>2, <2>3
<1>17. ASSUME HopLog PROVE OK
  <2>1. /\ verdict' = verdict /\ stage = "hopLog" /\ stage' \in {"hop", "query"}
        /\ UNCHANGED <<toAsk, toTell, held, pointer, moving, whole>>
    BY <1>17 DEF HopLog
  <2>2. \A o \in Move : ToldOf(o) => ToldOf(o)'
    BY <2>1 DEF ToldOf
  <2>3. Searching' => Searching
    BY <2>1 DEF Searching
  <2> QED
    BY <1>5, <1>6, <2>1, <2>2, <2>3
<1>18. OK
  BY <1>8, <1>9, <1>10, <1>11, <1>12, <1>13, <1>14, <1>15, <1>16, <1>17 DEF Read, OK
<1> QED
  BY <1>18 DEF OK

-----------------------------------------------------------------------------
(* The steps of the move *)

(* Nobody comes to list the file but the destination, when it gets there.   *)
LEMMA HoldersStay ==
  ASSUME HomeInv, TypeInv', NEW c \in Client,
         \/ \E o \in Move : Mv(c, o)
         \/ \E m \in Member : Rm(c, m)
         \/ Progress(c) /\ ~Arrive(c)
         \/ Crash(c)
  PROVE  \A k \in Member : Holds(k)' => Holds(k)
<1>1. ASSUME NEW m \in Member, Rm(c, m) PROVE \A k \in Member : Holds(k)' => Holds(k)
  <2>1. rows' = [rows EXCEPT ![m] = {}]
    BY <1>1, RmHome
  <2> QED
    BY <2>1 DEF Holds, HomeInv, TypeInv, MoveTypeOK
<1>2. CASE Depart(c)
  <2>1. pc[c] = "depart" /\ job[c].cat = rows[job[c].op.from]
    BY <1>2 DEF Depart, HomeInv, OnTheWay
  <2>2. rows' = [rows EXCEPT ![job[c].op.from] = @ \ {job[c].op.src}]
    BY <1>2, <2>1 DEF Depart
  <2> QED
    BY <2>2 DEF Holds, HomeInv, TypeInv, MoveTypeOK
<1>3. ~RetryWrite(c) /\ ~RetryDone(c)
  BY DEF HomeInv, OnTheWay, RetryWrite, RetryDone
<1>4. CASE UNCHANGED rows
  BY <1>4 DEF Holds
<1> QED
  BY <1>1, <1>2, <1>3, <1>4 DEF Progress, Mv, OutIntent, InIntent, Transfer, InDone, Reread,
     OutDone, Crash, nodes

(* A move that got to its home while the members were asked still has, by   *)
(* what the log says, when its command goes on.                             *)
LEMMA MovedGoesOn ==
  ASSUME OneAtATime, HomeInv, TypeInv', NEW c \in Client, NEW o \in Move, Moved(o),
         Progress(c), begun' = begun
  PROVE  Moved(o)'
<1>1. pc[c] # "idle"
  BY DEF Progress, OutIntent, InIntent, Transfer, Arrive, InDone, Reread, Depart,
     OutDone, RetryWrite, RetryDone
<1>2. /\ pc[c] \in {"inDone", "reread", "depart", "outDone"} /\ job[c].op = o
      /\ begun >= 1 /\ Recorded(o.from, o) /\ Index(o.from, o) = Len(log[o.from])
  BY <1>1 DEF Moved, AtWorkNow
<1>3. CASE InDone(c) \/ Reread(c) \/ Depart(c)
  <2>1. /\ pc'[c] \in {"inDone", "reread", "depart", "outDone"} /\ job'[c].op = o
    BY <1>2, <1>3 DEF InDone, Reread, Depart, Goto, nodes, HomeInv, TypeInv, MoveTypeOK, Job
  <2>2. \A d \in AtWorkNow' : pc'[d] \in {"inDone", "reread", "depart", "outDone"} /\ job'[d].op = o
    BY <2>1 DEF OneAtATime, AtWorkNow
  <2>3. Recorded(o.from, o)' /\ Index(o.from, o)' = Len(log'[o.from])
    <3>1. CASE InDone(c)
      <4>1. Open(o.to, o) /\ log' = Closed(o.to, Index(o.to, o))
        BY <1>2, <3>1 DEF InDone, HomeInv, OnTheWay
      <4> QED
        BY <1>2, <4>1, CloseLog, InMembers DEF HomeInv, NodeInv
    <3>2. CASE UNCHANGED log
      BY <1>2, <3>2 DEF Recorded, Index
    <3> QED
      BY <1>3, <3>1, <3>2 DEF Reread, Depart, nodes
  <2> QED
    BY <1>2, <2>2, <2>3 DEF Moved
<1>4. CASE OutDone(c)
  <2>1. pc'[c] = "idle" /\ Open(o.from, o) /\ log' = Closed(o.from, Index(o.from, o))
    BY <1>2, <1>4 DEF OutDone, Leave, Goto, HomeInv, OnTheWay, TypeInv, MoveTypeOK
  <2>2. AtWorkNow' = {}
    BY <2>1 DEF OneAtATime, AtWorkNow
  <2>3. Recorded(o.from, o)' /\ Index(o.from, o)' = Len(log'[o.from])
    BY <1>2, <2>1, CloseLog, InMembers DEF HomeInv, NodeInv
  <2> QED
    BY <1>2, <2>2, <2>3 DEF Moved
<1> QED
  BY <1>2, <1>3, <1>4 DEF Progress, OutIntent, InIntent, Transfer, Arrive, RetryWrite, RetryDone

(* The home changes: where the file comes from was not read yet, for else   *)
(* the file had come there while the members were asked, by another move.   *)
LEMMA SearchArrive ==
  ASSUME OneAtATime, ReaderInv, TypeInv', NEW c \in Client, Arrive(c),
         UNCHANGED <<readVars, dark, begun>>, Searching
  PROVE  SearchInv'
<1>1. /\ HomeInv /\ SearchInv /\ Counted /\ LogInv /\ TypeInv
      /\ pc[c] = "arrive" /\ pc'[c] = "inDone" /\ log' = log /\ job' = job
  BY DEF Arrive, Goto, ReaderInv, ReadInv, HomeInv, NodeInv, TypeInv, MoveTypeOK
<1>0. PICK o \in Move : job[c].op = o
  BY <1>1, MoveAtWork
<1>2. o.from # o.to /\ o.from \in Member /\ o.to \in Member
  BY <1>1, <1>0, MoveAtWork
<1>3. Live = {o.from} /\ Live' = {o.to}
  BY <1>1, <1>0, ProgressHome DEF Progress
<1>4. \A k \in Member : k # o.to => rows'[k] = rows[k]
  BY <1>1, <1>0 DEF Arrive, TypeInv, MoveTypeOK
<1>5. c \in AtWorkNow
  BY <1>1 DEF AtWorkNow
<1>6. o.from \in toAsk
  <2>1. \A x \in Move : ~Moved(x)
    BY <1>1, <1>5 DEF Moved
  <2> QED
    BY <1>1, <1>3, <2>1 DEF SearchInv
<1>7. Moved(o)'
  <2>1. begun >= 1
    BY <1>1, <1>5 DEF Counted, AtWork, Searching
  <2>2. Open(o.from, o)
    BY <1>1, <1>0 DEF HomeInv, OnTheWay
  <2>3. Recorded(o.from, o) /\ Index(o.from, o) = Len(log[o.from])
    BY <1>1, <1>2, <2>2, OpenLast DEF Open
  <2>4. \A d \in Client : pc'[d] = "inDone" /\ job'[d].op = o
    BY <1>1, <1>0 DEF OneAtATime
  <2>5. Recorded(o.from, o)' /\ Index(o.from, o)' = Len(log'[o.from])
    BY <1>1, <2>3 DEF Recorded, Index
  <2> QED
    BY <2>1, <2>4, <2>5 DEF Moved, AtWorkNow
<1>8. ToldOf(o)' /\ toAsk' = toAsk
  BY <1>6 DEF ToldOf, readVars
<1>9. \A k \in Member : Holds(k)' => k \in toAsk' \cup Live'
  <2>1. \A k \in Member : k # o.to /\ Holds(k) => k \in toAsk
    BY <1>1, <1>3, <1>6 DEF SearchInv
  <2> QED
    BY <1>3, <1>4, <1>8, <2>1 DEF Holds
<1> QED
  BY <1>2, <1>3, <1>7, <1>8, <1>9 DEF SearchInv

(* Whoever is at work, the readers have what they had.                      *)
LEMMA SearchOn ==
  ASSUME SearchInv, Searching, UNCHANGED readVars, Live' = Live,
         \A k \in Member : Holds(k)' => Holds(k),
         \A o \in Move : Moved(o) => Moved(o)'
  PROVE  SearchInv'
<1>1. \A o \in Move : ToldOf(o)' <=> ToldOf(o)
  BY DEF ToldOf, readVars
<1>2. toAsk' = toAsk
  BY DEF readVars
<1> QED
  BY <1>1, <1>2 DEF SearchInv

LEMMA SearchStep ==
  ASSUME OneMover, ReaderInv, Step, UNCHANGED <<readVars, dark>>
  PROVE  SearchInv' /\ Missing'
<1>1. [MoveNext]_moveVars /\ OneAtATime /\ Prompt
  BY StepMoves DEF OneMover
<1>2. /\ HomeInv /\ SearchInv /\ Counted /\ Missing /\ TypeInv
  BY DEF ReaderInv, ReadInv, HomeInv
<1>3. TypeInv' /\ (Removed => Removed')
  BY <1>1, <1>2, TypeStep, RemovedStays
<1>4. Searching' <=> Searching
  BY DEF Searching, readVars
<1>5. SUFFICES ASSUME NEW c \in Client,
                      \/ (\E o \in Move : Mv(c, o)) /\ (AtWork => begun < MaxMoves)
                      \/ /\ UNCHANGED begun
                         /\ (\E m \in Member : Rm(c, m)) \/ Progress(c) \/ Crash(c)
               PROVE  SearchInv' /\ Missing'
  <2>1. \A c \in Client : \A m, n : ~Retry(c, m, n)
    BY <1>1 DEF Retry, Prompt
  <2> QED
    BY <1>5, <2>1 DEF Step
<1>6. Missing'
  <2> SUFFICES ASSUME verdict = "missing" PROVE Removed' /\ \A m \in Member : ~Holds(m)'
    BY DEF Missing, readVars
  <2>1. Removed /\ \A m \in Member : ~Holds(m)
    BY <1>2 DEF Missing
  <2>2. ~Arrive(c)
    <3>1. ASSUME Arrive(c) PROVE FALSE
      <4>1. pc[c] = "arrive" /\ job[c].op.from \in Live
        BY <1>2, <3>1 DEF Arrive, HomeInv, OnTheWay
      <4> QED
        BY <2>1, <4>1 DEF Live
    <3> QED
      BY <3>1
  <2>3. \A k \in Member : Holds(k)' => Holds(k)
    BY <1>2, <1>3, <1>5, <2>2, HoldersStay
  <2> QED
    BY <1>3, <2>1, <2>3
<1>7. SearchInv'
  <2> SUFFICES ASSUME Searching PROVE SearchInv'
    BY <1>4 DEF SearchInv
  <2>1. AtWork
    BY DEF AtWork, Searching
  <2>2. ASSUME NEW o \in Move, Mv(c, o), begun < MaxMoves PROVE SearchInv'
    <3>1. Live' = Live
      BY <1>1, <1>2, <1>3, <2>2, MvHome
    <3>2. \A k \in Member : Holds(k)' => Holds(k)
      BY <2>2 DEF Mv, nodes, Holds
    <3>3. ~(begun >= 1)
      BY <1>2, <2>2, ResolverAssumption DEF OneMover, Counted
    <3> QED
      BY <1>2, <3>1, <3>2, <3>3, SearchOn DEF Moved
  <2>3. ASSUME NEW m \in Member, Rm(c, m) PROVE SearchInv'
    <3>1. Live = {m} /\ Live' = {} /\ rows' = [rows EXCEPT ![m] = {}]
      BY <1>2, <1>3, <2>3, RmHome
    <3>2. \A k \in Member : Holds(k)' => Holds(k) /\ k # m
      BY <1>2, <3>1 DEF Holds, TypeInv, MoveTypeOK
    <3>3. toAsk' = toAsk
      BY DEF readVars
    <3> QED
      BY <1>2, <3>1, <3>2, <3>3 DEF SearchInv
  <2>4. ASSUME Crash(c), UNCHANGED begun PROVE SearchInv'
    <3>1. Live' = Live /\ \A k \in Member : Holds(k)' => Holds(k)
      BY <1>2, <2>4, NodesStay DEF HomeInv, Crash, nodes, Holds
    <3>2. \A d \in AtWorkNow' : d \in AtWorkNow /\ pc'[d] = pc[d] /\ job'[d] = job[d]
      BY <1>2, <2>4 DEF Crash, Leave, Goto, AtWorkNow, TypeInv, MoveTypeOK
    <3>3. \A o \in Move : Moved(o) => Moved(o)'
      BY <2>4, <3>2 DEF Moved, Crash, nodes, Recorded, Index
    <3> QED
      BY <1>2, <3>1, <3>3, SearchOn
  <2>5. ASSUME Progress(c), ~Arrive(c), UNCHANGED begun PROVE SearchInv'
    <3>1. Live' = Live
      BY <1>2, <1>3, <2>5, ProgressHome
    <3>2. \A k \in Member : Holds(k)' => Holds(k)
      BY <1>2, <1>3, <2>5, HoldersStay
    <3>3. \A o \in Move : Moved(o) => Moved(o)'
      BY <1>1, <1>2, <1>3, <2>5, MovedGoesOn
    <3> QED
      BY <1>2, <3>1, <3>2, <3>3, SearchOn
  <2>6. ASSUME Arrive(c), UNCHANGED begun PROVE SearchInv'
    BY <1>1, <1>3, <2>6, SearchArrive
  <2> QED
    BY <1>5, <2>1, <2>2, <2>3, <2>4, <2>5, <2>6
<1> QED
  BY <1>6, <1>7

-----------------------------------------------------------------------------
LEMMA ReaderStep ==
  ASSUME OneMover, ReaderInv, [Next]_vars
  PROVE  ReaderInv'
<1>1. [MoveNext]_moveVars /\ OneAtATime /\ Prompt
  BY StepMoves DEF OneMover, Next, vars, moveVars
<1>2. ReadTypeInv' /\ HomeInv' /\ Counted'
  BY <1>1, ReadTypeStep, HomeStep, CountStep DEF ReaderInv, ReadInv
<1>3. dark' = {}
  BY <1>2 DEF ReadTypeInv, TypeOK, OneMover
<1>4. SearchInv' /\ Missing'
  <2>1. CASE Read /\ UNCHANGED <<moveVars, dark>>
    BY <2>1, SearchRead
  <2>2. CASE Step /\ UNCHANGED <<readVars, dark>>
    BY <2>2, SearchStep
  <2>3. CASE \E hint \in Member \cup {NoMove} : Ask(hint) /\ UNCHANGED <<moveVars, dark>>
    <3>1. stage' \in {"probe", "over"} /\ (verdict' = verdict \/ verdict' = "found")
      BY <2>3 DEF Ask, Conclude
    <3>2. Removed' = Removed /\ \A m : Holds(m)' <=> Holds(m)
      BY <2>3 DEF moveVars, Removed, Holds
    <3> QED
      BY <3>1, <3>2 DEF ReaderInv, ReadInv, SearchInv, Searching, Missing
  <2>4. CASE UNCHANGED vars
    <3>1. /\ Live' = Live /\ Removed' = Removed
          /\ \A m : Holds(m)' <=> Holds(m)
          /\ \A o : (Moved(o)' <=> Moved(o)) /\ (ToldOf(o)' <=> ToldOf(o))
      BY <2>4 DEF vars, moveVars, readVars, Live, Left, Removed, Holds, Recorded, Finished,
         Index, Moved, AtWorkNow, ToldOf
    <3>2. toAsk' = toAsk /\ (Searching' <=> Searching) /\ verdict' = verdict
      BY <2>4 DEF vars, readVars, Searching
    <3> QED
      BY <3>1, <3>2 DEF ReaderInv, ReadInv, SearchInv, Missing
  <2> QED
    BY <2>1, <2>2, <2>3, <2>4 DEF Next
<1> QED
  BY <1>2, <1>3, <1>4 DEF ReaderInv, ReadInv

LEMMA ReaderStart == OneMover /\ Init => ReaderInv
<1> SUFFICES ASSUME OneMover, Init PROVE ReaderInv
  OBVIOUS
<1>1. ReadTypeInv /\ HomeInv
  BY ReadTypeStart, HomeStart DEF Init
<1>2. dark = {} /\ AtWorkNow = {}
  BY DEF Init, MoveInit, OneMover, AtWorkNow
<1> QED
  BY <1>1, <1>2 DEF Init, ReaderInv, ReadInv, Counted, ReadTypeInv, SearchInv, Searching, Missing

(* The search: while every member has answered, whoever lists the file is   *)
(* its home or has yet to be read; and if the home has been read, the file  *)
(* came there since, and the record of that move is still before the reader.*)
THEOREM ReaderInductive == OneMover => (Spec => []ReaderInv)
<1> SUFFICES ASSUME OneMover PROVE Spec => []ReaderInv
  OBVIOUS
<1>1. ReaderInv /\ [Next]_vars => ReaderInv'
  BY ReaderStep
<1> QED
  BY <1>1, ReaderStart, PTL DEF Spec

(* Resolve says "missing" only of a file that was removed: if commands do   *)
(* not overlap, shares are mounted, moves are neither asked for again nor   *)
(* retried, and one at most is at work while the members are asked, for any *)
(* number of members and hops and wherever moves were cut short before.     *)
THEOREM MissingOnlyIfGone == OneMover => (Spec => []MissingIsGone)
<1> SUFFICES ASSUME OneMover PROVE Spec => []MissingIsGone
  OBVIOUS
<1>1. ReaderInv => MissingIsGone
  BY DEF ReaderInv, ReadInv, Missing, MissingIsGone
<1> QED
  BY <1>1, ReaderInductive, PTL

(* restore-identity never gives back an id that some member still lists.    *)
THEOREM NeverGivenTwice == OneMover => (CSpec => RestoredOnce)
<1> SUFFICES ASSUME OneMover PROVE CSpec => RestoredOnce
  OBVIOUS
<1> DEFINE A == Restore => \A m \in Member : ~Holds(m)
<1>1. ReaderInv /\ [CNext]_allVars => [A]_allVars
  BY DEF ReaderInv, ReadInv, Missing, Restore
<1>2. CSpec => []ReaderInv
  BY ConsumerReads, ReaderInductive, PTL
<1>3. []ReaderInv /\ [][CNext]_allVars => [][A]_allVars
  BY <1>1, PTL
<1> QED
  BY <1>2, <1>3, PTL DEF CSpec, RestoredOnce

-----------------------------------------------------------------------------
(* An id is called unknown when it is gone *)

(* While vault get has neither seen the id nor been unable to look, and no  *)
(* move has been at work: the members that list the file are still ahead.   *)
Looking == command = "get" /\ seen = NoMove /\ ~blind /\ still

LookInv == Looking => AllIdle /\ \A m \in Member : Holds(m) => m \in unread

UnknownInv == answer = "unknown" => command = "get" /\ (still => Removed)

KnowInv == UseInv /\ LostInv /\ dark = {} /\ LookInv /\ UnknownInv

(* From nobody at work, a step either sets one to work or removes a row.    *)
LEMMA IdleStep ==
  ASSUME MoveTypeOK, AllIdle, Step
  PROVE  \/ \E c \in Client : pc'[c] # "idle"
         \/ \A m \in Member : Holds(m)' => Holds(m)
<1>1. ASSUME NEW c \in Client, NEW m \in Member, Rm(c, m)
      PROVE  \A k \in Member : Holds(k)' => Holds(k)
  BY <1>1 DEF Rm, Holds, MoveTypeOK
<1>2. ASSUME NEW c \in Client, (\E o \in Move : Mv(c, o)) \/ (\E m, n : Retry(c, m, n))
      PROVE  pc'[c] # "idle"
  BY <1>2 DEF Mv, Retry, Goto, MoveTypeOK
<1>3. \A c \in Client : ~Progress(c) /\ ~Crash(c)
  BY DEF AllIdle, Progress, OutIntent, InIntent, Transfer, Arrive, InDone, Reread, Depart, OutDone,
     RetryWrite, RetryDone, Crash
<1> QED
  BY <1>1, <1>2, <1>3 DEF Step

LEMMA KnowStep ==
  ASSUME OneAtATime, Share = {}, KnowInv, [CNext]_allVars
  PROVE  KnowInv'
<1>1. /\ TypeInv /\ MoveTypeOK /\ UseTypeOK /\ UseInv /\ LostInv /\ dark = {}
      /\ LookInv /\ UnknownInv
  BY DEF KnowInv, UseInv, ReadTypeInv, TypeInv
<1>2. UseInv' /\ LostInv' /\ (Removed => Removed')
  BY <1>1, UseTypeStep, MovesOrNot, LostStep, RemovedStays
<1>3. dark' = {}
  BY <1>2 DEF UseInv, ReadTypeInv, TypeOK
<1>4. NoMove \notin Member /\ \A m : Lists(m) <=> Holds(m)
  BY <1>1, CrossMoveAssumption DEF Lists
<1> DEFINE OK == LookInv' /\ UnknownInv'
<1>5. ASSUME UNCHANGED moveVars
      PROVE  (AllIdle' <=> AllIdle) /\ \A m : Holds(m)' <=> Holds(m)
  BY <1>5 DEF moveVars, AllIdle, Holds
<1>6. ASSUME UNCHANGED <<moveVars, command, unread, seen, blind, still>>,
             answer' = answer \/ answer' # "unknown"
      PROVE  OK
  BY <1>1, <1>2, <1>5, <1>6 DEF LookInv, Looking, UnknownInv
<1>7. ASSUME NEW name, Begin(name),
             name = "get" => unread' = Member \/ seen' # NoMove
      PROVE  OK
  <2>1. /\ command = "none" /\ command' = name /\ still' = AllIdle /\ answer' = answer
        /\ UNCHANGED moveVars
    BY <1>7 DEF Begin, vars
  <2>2. UnknownInv'
    BY <1>1, <2>1 DEF UnknownInv
  <2>3. LookInv'
    BY <1>5, <1>7, <2>1 DEF LookInv, Looking
  <2> QED
    BY <2>2, <2>3
<1> HIDE DEF OK
<1>8. ASSUME \/ \E name \in {"pull", "heal"} : Repo(name)
             \/ \E m \in Member : GetByPath(m)
             \/ GetById \/ RestoreIdentity
      PROVE  OK
  BY <1>4, <1>7, <1>8 DEF Repo, GetByPath, GetById, RestoreIdentity
<1>9. ASSUME NEW m \in Member, LookInto(m) PROVE OK
  <2>1. /\ unread' = unread \ {m} /\ UNCHANGED <<moveVars, command, blind, answer, still>>
        /\ seen' = NoMove => seen = NoMove /\ ~Holds(m)
    BY <1>4, <1>9 DEF LookInto, vars
  <2> QED
    BY <1>1, <1>2, <1>5, <2>1 DEF OK, LookInv, Looking, UnknownInv
<1>10. ASSUME NEW m \in Member, LookBlind(m) PROVE OK
  BY <1>1, <1>2, <1>10 DEF LookBlind, vars, OK, LookInv, Looking, UnknownInv
<1>11. ASSUME NoMatch PROVE OK
  <2>1. /\ UNCHANGED <<moveVars, command, unread, seen, blind, still>>
        /\ command = "get" /\ unread = {} /\ seen = NoMove
        /\ answer' = "unknown" => ~blind
    BY <1>11 DEF NoMatch, vars
  <2>2. answer' = "unknown" /\ still => Removed
    BY <1>1, <2>1 DEF LookInv, Looking, LostInv, NeverLost
  <2>3. UnknownInv'
    BY <1>2, <2>1, <2>2 DEF UnknownInv
  <2>4. LookInv'
    BY <1>1, <1>5, <2>1 DEF LookInv, Looking
  <2> QED
    BY <2>3, <2>4 DEF OK
<1>12. ASSUME Resolve \/ (Read /\ UNCHANGED <<Others, useVars>>) PROVE OK
  BY <1>6, <1>12 DEF Resolve, Others, useVars
<1>13. ASSUME Report \/ Fetch \/ FetchFails \/ Heal \/ Collision \/ Restore PROVE OK
  <2>1. verdict # "unknown"
    BY <1>1 DEF UseInv, ReadTypeInv, TypeOK
  <2>2. /\ UNCHANGED <<moveVars, command, unread, seen, blind, still>> /\ answer' # "unknown"
    BY <1>13, <2>1 DEF Report, Fetch, FetchFails, Heal, Collision, Restore, Answer, vars
  <2> QED
    BY <1>6, <2>2
<1>14. ASSUME Step, UNCHANGED <<readVars, dark, command, unread, seen, blind, answer, place>>,
              still' = (still /\ \A c \in Client : pc'[c] = "idle")
       PROVE  OK
  <2>1. UnknownInv'
    BY <1>1, <1>2, <1>14 DEF UnknownInv
  <2>2. LookInv'
    <3> SUFFICES ASSUME Looking' PROVE (AllIdle /\ \A m \in Member : Holds(m) => m \in unread)'
      BY DEF LookInv
    <3>1. Looking /\ AllIdle'
      BY <1>14 DEF Looking, AllIdle
    <3>2. \A m \in Member : Holds(m)' => Holds(m)
      BY <1>1, <1>14, <3>1, IdleStep DEF LookInv, AllIdle
    <3> QED
      BY <1>1, <1>14, <3>1, <3>2 DEF LookInv
  <2> QED
    BY <2>1, <2>2 DEF OK
<1>15. ASSUME UNCHANGED allVars PROVE OK
  BY <1>6, <1>15 DEF allVars, vars, useVars
<1>16. OK
  BY <1>8, <1>9, <1>10, <1>11, <1>12, <1>13, <1>14, <1>15 DEF CNext, Use
<1> QED
  BY <1>2, <1>3, <1>16 DEF KnowInv, OK

LEMMA KnowStart == Share = {} /\ CInit => KnowInv
<1> SUFFICES ASSUME Share = {}, CInit PROVE KnowInv
  OBVIOUS
<1>1. UseInv /\ LostInv
  BY UseTypeStart, LostStart DEF CInit, Init
<1> QED
  BY <1>1 DEF CInit, Init, KnowInv, LookInv, Looking, UnknownInv

(* vault get calls an id unknown only if the file was removed, when no move *)
(* was at work from its first look on: wherever moves were cut short before *)
(* that, were asked for again or retried.                                   *)
THEOREM UnknownOnlyIfGone == OneAtATime /\ Share = {} => (CSpec => []UnknownIsGone)
<1> SUFFICES ASSUME OneAtATime, Share = {} PROVE CSpec => []UnknownIsGone
  OBVIOUS
<1>1. KnowInv /\ [CNext]_allVars => KnowInv'
  BY KnowStep
<1>2. KnowInv => UnknownIsGone
  BY DEF KnowInv, UnknownInv, UnknownIsGone
<1> QED
  BY <1>1, <1>2, KnowStart, PTL DEF CSpec
=============================================================================
