----------------------------- MODULE RosterProofs -----------------------------
(***************************************************************************)
(* Proofs about Roster.tla, for any members, clients and number of         *)
(* changes: the merge of rosters does not depend on the order in which     *)
(* they are read, everything is of its type, and no roster write takes a   *)
(* membership back or mixes federations, if commands run one at a time,    *)
(* members keep still while one runs, and no join takes its roster from a  *)
(* sponsor alone.                                                          *)
(***************************************************************************)
EXTENDS Roster, TLAPS

(* Old is no later than new. *)
Le(old, new) == ~Beats(old, new)

AnyRow == Row \cup {NoRow}

LEMMA RowFacts ==
  ASSUME NEW r \in AnyRow
  PROVE  /\ r.at \in Nat /\ Rank(r.status) \in 0 .. 2
         /\ r.status \in Status
         /\ r = NoRow => r.at = 0 /\ Rank(r.status) = 0
         /\ r.at = 0 => r = NoRow
<1>1. CASE r = NoRow
  BY <1>1 DEF NoRow, Rank, Status
<1>2. CASE r \in Row
  <2>1. r.at \in 1 .. MaxTime /\ r.status \in Status
    BY <1>2 DEF Row
  <2> QED
    BY <2>1, RosterAssumption DEF Rank, Status, NoRow
<1> QED
  BY <1>1, <1>2 DEF AnyRow

LEMMA SameRank ==
  ASSUME NEW r \in AnyRow, NEW s \in AnyRow, r.at = s.at, Rank(r.status) = Rank(s.status)
  PROVE  r = s
<1>1. CASE r = NoRow \/ s = NoRow
  BY <1>1, RowFacts
<1>2. CASE r \in Row /\ s \in Row
  <2>1. r.status \in Status /\ s.status \in Status
    BY <1>2 DEF Row
  <2>2. r.status = s.status
    BY <2>1 DEF Status, Rank
  <2> QED
    BY <1>2, <2>2 DEF Row
<1> QED
  BY <1>1, <1>2 DEF AnyRow

LEMMA LeOrder ==
  ASSUME NEW r \in AnyRow, NEW s \in AnyRow, NEW t \in AnyRow
  PROVE  /\ Le(r, r)
         /\ Le(r, s) \/ Le(s, r)
         /\ Le(r, s) /\ Le(s, t) => Le(r, t)
         /\ Le(r, s) /\ Le(s, r) => r = s
         /\ Le(NoRow, r)
<1>1. r.at \in Nat /\ s.at \in Nat /\ t.at \in Nat
  BY RowFacts
<1>2. Rank(r.status) \in 0 .. 2 /\ Rank(s.status) \in 0 .. 2 /\ Rank(t.status) \in 0 .. 2
  BY RowFacts
<1>3. NoRow.at = 0 /\ Rank(NoRow.status) = 0
  BY DEF NoRow, Rank
<1>4. Le(r, s) /\ Le(s, r) => r.at = s.at /\ Rank(r.status) = Rank(s.status)
  BY <1>1, <1>2 DEF Le, Beats
<1> QED
  BY <1>1, <1>2, <1>3, <1>4, SameRank DEF Le, Beats

LEMMA MergedRow ==
  ASSUME NEW r \in Rows, NEW s \in Rows
  PROVE  /\ MergeRows(r, s) \in Rows
         /\ \A m \in Member : MergeRows(r, s)[m] = IF Beats(s[m], r[m]) THEN s[m] ELSE r[m]
         /\ \A m \in Member : r[m] \in AnyRow /\ s[m] \in AnyRow
BY DEF MergeRows, Rows, AnyRow

(* In whatever order the members of a federation are read, the merged      *)
(* roster is the same (fed.Merge: the output is deterministic regardless   *)
(* of input order); what is read twice changes nothing.                    *)
THEOREM MergeCommutes ==
  ASSUME NEW r \in Rows, NEW s \in Rows
  PROVE  MergeRows(r, s) = MergeRows(s, r)
<1>1. ASSUME NEW m \in Member PROVE MergeRows(r, s)[m] = MergeRows(s, r)[m]
  <2>1. r[m] \in AnyRow /\ s[m] \in AnyRow
    BY MergedRow
  <2>2. Le(r[m], s[m]) \/ Le(s[m], r[m])
    BY <2>1, LeOrder
  <2>3. Le(r[m], s[m]) /\ Le(s[m], r[m]) => r[m] = s[m]
    BY <2>1, LeOrder
  <2> QED
    BY <2>2, <2>3, MergedRow DEF Le
<1> QED
  BY <1>1 DEF MergeRows

THEOREM MergeAssociates ==
  ASSUME NEW r \in Rows, NEW s \in Rows, NEW t \in Rows
  PROVE  MergeRows(MergeRows(r, s), t) = MergeRows(r, MergeRows(s, t))
<1>1. MergeRows(r, s) \in Rows /\ MergeRows(s, t) \in Rows
  BY MergedRow
<1>2. ASSUME NEW m \in Member
      PROVE  MergeRows(MergeRows(r, s), t)[m] = MergeRows(r, MergeRows(s, t))[m]
  <2>1. r[m] \in AnyRow /\ s[m] \in AnyRow /\ t[m] \in AnyRow
    BY MergedRow
  <2>2. /\ Le(r[m], s[m]) \/ Le(s[m], r[m])
        /\ Le(s[m], t[m]) \/ Le(t[m], s[m])
        /\ Le(r[m], t[m]) \/ Le(t[m], r[m])
    BY <2>1, LeOrder
  <2>3. /\ Le(r[m], s[m]) /\ Le(s[m], t[m]) => Le(r[m], t[m])
        /\ Le(t[m], s[m]) /\ Le(s[m], r[m]) => Le(t[m], r[m])
        /\ Le(r[m], t[m]) /\ Le(t[m], r[m]) => r[m] = t[m]
    BY <2>1, LeOrder
  <2>4. /\ MergeRows(r, s)[m] = IF Le(s[m], r[m]) THEN r[m] ELSE s[m]
        /\ MergeRows(s, t)[m] = IF Le(t[m], s[m]) THEN s[m] ELSE t[m]
    BY MergedRow DEF Le
  <2>5. /\ MergeRows(MergeRows(r, s), t)[m] =
             IF Le(t[m], MergeRows(r, s)[m]) THEN MergeRows(r, s)[m] ELSE t[m]
        /\ MergeRows(r, MergeRows(s, t))[m] =
             IF Le(MergeRows(s, t)[m], r[m]) THEN r[m] ELSE MergeRows(s, t)[m]
    BY <1>1, MergedRow DEF Le
  <2> QED
    BY <2>2, <2>3, <2>4, <2>5
<1> QED
  BY <1>2 DEF MergeRows

THEOREM MergeRepeats ==
  ASSUME NEW r \in Rows, NEW s \in Rows
  PROVE  MergeRows(MergeRows(r, s), s) = MergeRows(r, s)
<1>1. MergeRows(r, s) \in Rows
  BY MergedRow
<1>2. ASSUME NEW m \in Member
      PROVE  MergeRows(MergeRows(r, s), s)[m] = MergeRows(r, s)[m]
  <2>1. r[m] \in AnyRow /\ s[m] \in AnyRow
    BY MergedRow
  <2>2. Le(s[m], MergeRows(r, s)[m])
    BY <2>1, LeOrder, MergedRow DEF Le
  <2> QED
    BY <1>1, <2>2, MergedRow DEF Le
<1> QED
  BY <1>1, <1>2 DEF MergeRows

-----------------------------------------------------------------------------
(* Types. *)

LEMMA NothingTyped ==
  /\ NoRow \in AnyRow /\ NoRows \in Rows /\ Nothing \in Section
  /\ NoJob \in Job /\ NoJob.view = Nothing
  /\ \A x \in Member : NoRows[x] = NoRow
BY DEF NoRows, Rows, Nothing, Section, NoJob, Job, AnyRow

LEMMA WithMemberTyped ==
  ASSUME NEW rows \in Rows, NEW m \in Member, NEW t \in 1 .. MaxTime
  PROVE  /\ WithMember(rows, m, t) \in Rows
         /\ WithMember(rows, m, t)[m] = [at |-> t, status |-> "active"]
         /\ \A x \in Member \ {m} : WithMember(rows, m, t)[x] = rows[x]
<1>1. [at |-> t, status |-> "active"] \in Row
  BY DEF Row, Status
<1> QED
  BY <1>1 DEF WithMember, Rows

LEMMA WithStatusTyped ==
  ASSUME NEW rows \in Rows, NEW m \in Member, NEW st \in Status, Listed(rows, m)
  PROVE  /\ WithStatus(rows, m, st) \in Rows
         /\ WithStatus(rows, m, st)[m] = [at |-> rows[m].at, status |-> st]
         /\ \A x \in Member \ {m} : WithStatus(rows, m, st)[x] = rows[x]
<1>1. rows[m] \in Row
  BY DEF Listed, Rows
<1>2. rows[m].at \in 1 .. MaxTime
  BY <1>1 DEF Row
<1>3. [at |-> rows[m].at, status |-> st] \in Row
  BY <1>2 DEF Row
<1> QED
  BY <1>3 DEF WithStatus, Rows

LEMMA MergeTyped ==
  ASSUME NEW v \in Section, NEW s \in Section
  PROVE  Merge(v, s) \in Section /\ Merge(v, s).id = s.id
         /\ Merge(v, s).rows = MergeRows(v.rows, s.rows)
<1>1. v.rows \in Rows /\ s.rows \in Rows /\ s.id \in Fed \cup {None}
  BY DEF Section
<1>2. MergeRows(v.rows, s.rows) \in Rows
  BY <1>1, MergedRow
<1> QED
  BY <1>1, <1>2 DEF Merge, Section

LEMMA ViewedTyped ==
  ASSUME NEW j \in Job, NEW m \in Member, NEW s \in Section
  PROVE  /\ Viewed(j, m, s) \in Job
         /\ Viewed(j, m, s).act = j.act /\ Viewed(j, m, s).who = j.who
         /\ Viewed(j, m, s).todo = j.todo \ {m} /\ Viewed(j, m, s).view = s
BY DEF Job, Viewed

LEMMA PlannedTyped ==
  ASSUME NEW j \in Job, NEW rows \in Rows, NEW reach \in SUBSET Member
  PROVE  /\ Planned(j, rows, reach) \in Job
         /\ Planned(j, rows, reach).act = j.act /\ Planned(j, rows, reach).who = j.who
         /\ Planned(j, rows, reach).todo = reach /\ Planned(j, rows, reach).reach = reach
         /\ Planned(j, rows, reach).view.id = j.view.id
         /\ Planned(j, rows, reach).view.rows = rows
         /\ Planned(j, rows, reach).self = (j.act = "join")
<1>1. j.view.id \in Fed \cup {None}
  BY DEF Job, Section
<1>2. [id |-> j.view.id, rows |-> rows] \in Section
  BY <1>1 DEF Section
<1> QED
  BY <1>2 DEF Job, Planned

LEMMA TodoTyped ==
  ASSUME NEW j \in Job, NEW S \in SUBSET Member
  PROVE  /\ WithTodo(j, S) \in Job
         /\ WithTodo(j, S).act = j.act /\ WithTodo(j, S).who = j.who
         /\ WithTodo(j, S).view = j.view /\ WithTodo(j, S).todo = S
         /\ WithTodo(j, S).reach = j.reach /\ WithTodo(j, S).self = j.self
BY DEF Job, WithTodo

LEMMA JoinerTyped ==
  ASSUME NEW j \in Job, j.who \in Member
  PROVE  /\ ForJoiner(j) \in Job
         /\ ForJoiner(j).act = j.act /\ ForJoiner(j).who = j.who
         /\ ForJoiner(j).view = j.view /\ ForJoiner(j).todo = {j.who}
         /\ ForJoiner(j).reach = j.reach /\ ForJoiner(j).self = FALSE
BY DEF Job, ForJoiner

LEMMA AskedTyped ==
  ASSUME NEW act \in Action, NEW m \in Member, NEW S \in SUBSET Member
  PROVE  /\ Asked(act, m, S) \in Job
         /\ Asked(act, m, S).act = act /\ Asked(act, m, S).who = m
         /\ Asked(act, m, S).todo = S /\ Asked(act, m, S).view = Nothing
BY NothingTyped DEF Job, Asked, NoJob

LEMMA MintedTyped ==
  ASSUME NEW m \in Member, NEW s \in Section
  PROVE  /\ Minted(m, s) \in Job
         /\ Minted(m, s).act \in Action /\ Minted(m, s).act # "join"
         /\ Minted(m, s).who = m
         /\ Minted(m, s).todo = {m} /\ Minted(m, s).reach = {m}
         /\ Minted(m, s).view = s /\ Minted(m, s).self = FALSE
BY NothingTyped DEF Job, Minted, NoJob, Action

LEMMA FirstIn == ASSUME NEW S, S # {} PROVE First(S) \in S
BY DEF First

(* A command that runs knows what it does to whom. *)
Named == \A c \in Client : pc[c] # "idle" => job[c].who \in Member /\ job[c].act \in Action

LEMMA Entered ==
  ASSUME TypeOK, NEW c \in Client, NEW ph \in Phase, NEW j \in Job, Enter(c, ph, j)
  PROVE  /\ pc' \in [Client -> Phase] /\ job' \in [Client -> Job]
         /\ pc'[c] = ph /\ job'[c] = j
         /\ \A d \in Client \ {c} : pc'[d] = pc[d] /\ job'[d] = job[d]
BY DEF TypeOK, Enter

LEMMA Keeps ==
  ASSUME TypeOK, Named, NEW c \in Client, NEW ph \in Phase, NEW j \in Job, Enter(c, ph, j),
         ph # "idle" => j.who \in Member /\ j.act \in Action,
         section' \in [Member -> Section], up' \subseteq Member, now' \in 0 .. MaxTime
  PROVE  TypeOK' /\ Named'
<1>1. /\ pc' \in [Client -> Phase] /\ job' \in [Client -> Job]
      /\ pc'[c] = ph /\ job'[c] = j
      /\ \A d \in Client \ {c} : pc'[d] = pc[d] /\ job'[d] = job[d]
  BY Entered
<1>2. ASSUME NEW d \in Client, pc'[d] # "idle"
      PROVE  job'[d].who \in Member /\ job'[d].act \in Action
  <2>1. CASE d = c
    BY <1>1, <1>2, <2>1
  <2>2. CASE d # c
    BY <1>1, <1>2, <2>2 DEF Named
  <2> QED
    BY <2>1, <2>2
<1> QED
  BY <1>1, <1>2 DEF TypeOK, Named

LEMMA LeaveKeeps ==
  ASSUME TypeOK, Named, NEW c \in Client, Leave(c), UNCHANGED <<section, up, now>>
  PROVE  TypeOK' /\ Named'
<1>1. NoJob \in Job /\ "idle" \in Phase
  BY NothingTyped DEF Phase
<1>2. Enter(c, "idle", NoJob)
  BY DEF Leave
<1>3. section' \in [Member -> Section] /\ up' \subseteq Member /\ now' \in 0 .. MaxTime
  BY DEF TypeOK
<1> QED
  BY <1>1, <1>2, <1>3, Keeps

(* What the roster becomes that a command writes. *)
LEMMA ChangedTyped ==
  ASSUME TypeOK, Named, NEW c \in Client, pc[c] # "idle", now < MaxTime,
         View(c).id # None, ~AlreadySo(c), ~Refused(c)
  PROVE  /\ Changed(c) \in Rows /\ View(c) \in Section
         /\ \A x \in Member \ {job[c].who} : Changed(c)[x] = View(c).rows[x]
         /\ \/ /\ Changed(c)[job[c].who] = [at |-> now + 1, status |-> "active"]
               /\ job[c].act = "join"
            \/ /\ View(c).rows[job[c].who].status = "active"
               /\ Changed(c)[job[c].who].at = View(c).rows[job[c].who].at
               /\ Changed(c)[job[c].who].status \in Status \ {"active"}
               /\ job[c].act # "join"
<1>1. /\ job[c] \in Job /\ View(c) \in Section /\ View(c).rows \in Rows
      /\ job[c].who \in Member /\ job[c].act \in Action
  BY DEF TypeOK, Named, View, Job, Section
<1>2. CASE job[c].act = "join"
  <2>1. now + 1 \in 1 .. MaxTime
    BY RosterAssumption DEF TypeOK
  <2>2. Changed(c) = WithMember(View(c).rows, job[c].who, now + 1)
    BY <1>2 DEF Changed
  <2> QED
    BY <1>1, <1>2, <2>1, <2>2, WithMemberTyped
<1>3. CASE job[c].act # "join"
  <2>1. Listed(View(c).rows, job[c].who)
    BY <1>3 DEF Refused
  <2>2. job[c].who \in Active(View(c).rows)
    BY <1>3, <2>1 DEF AlreadySo
  <2>3. View(c).rows[job[c].who].status = "active"
    BY <2>2 DEF Active
  <2> DEFINE st == IF job[c].act = "leave" THEN "left" ELSE "evicted"
  <2>4. st \in Status \ {"active"} /\ Changed(c) = WithStatus(View(c).rows, job[c].who, st)
    BY <1>3 DEF Changed, Status
  <2> HIDE DEF st
  <2>5. /\ Changed(c) \in Rows
        /\ Changed(c)[job[c].who] = [at |-> View(c).rows[job[c].who].at, status |-> st]
        /\ \A x \in Member \ {job[c].who} : Changed(c)[x] = View(c).rows[x]
    BY <1>1, <2>1, <2>4, WithStatusTyped
  <2> QED
    BY <1>1, <1>3, <2>3, <2>4, <2>5
<1> QED
  BY <1>2, <1>3

LEMMA InitTyped == Init => TypeOK /\ Named
<1>1. Nothing \in Section /\ NoJob \in Job
  BY NothingTyped
<1>2. 0 \in 0 .. MaxTime
  BY RosterAssumption
<1> QED
  BY <1>1, <1>2 DEF Init, TypeOK, Named, Phase

LEMMA StepTyped == TypeOK /\ Named /\ [Next]_vars => TypeOK' /\ Named'
<1> SUFFICES ASSUME TypeOK, Named, [Next]_vars PROVE TypeOK' /\ Named'
  OBVIOUS
<1> USE DEF Phase
<1>1. ASSUME NEW c \in Client
      PROVE  /\ job[c] \in Job /\ View(c) \in Section /\ job[c].todo \in SUBSET Member
             /\ job[c].reach \in SUBSET Member
  BY DEF TypeOK, Job, View
<1>2. /\ section \in [Member -> Section] /\ up \subseteq Member /\ now \in 0 .. MaxTime
  BY DEF TypeOK
<1>3. ASSUME NEW c \in Client, pc[c] # "idle"
      PROVE  job[c].who \in Member /\ job[c].act \in Action
  BY <1>3 DEF Named
<1>4. ASSUME NEW c \in Client, Leave(c), UNCHANGED <<section, up, now>>
      PROVE  TypeOK' /\ Named'
  BY <1>4, LeaveKeeps
<1>5. ASSUME NEW c \in Client, NEW m \in Member, NEW f \in Fed, InitFed(c, m, f)
      PROVE  TypeOK' /\ Named'
  <2>1. now + 1 \in 1 .. MaxTime /\ now' = now + 1 /\ UNCHANGED <<section, up>>
    BY <1>2, <1>5, RosterAssumption DEF InitFed
  <2>2. [id |-> f, rows |-> WithMember(NoRows, m, now + 1)] \in Section
    BY <2>1, NothingTyped, WithMemberTyped DEF Section
  <2>3. PICK s \in Section : Enter(c, "write", Minted(m, s))
    BY <1>5, <2>2 DEF InitFed
  <2>4. Minted(m, s) \in Job /\ Minted(m, s).who = m /\ Minted(m, s).act \in Action
    BY MintedTyped
  <2>5. section' \in [Member -> Section] /\ up' \subseteq Member /\ now' \in 0 .. MaxTime
    BY <1>2, <2>1
  <2> QED
    BY <2>3, <2>4, <2>5, Keeps
<1>6. ASSUME NEW c \in Client, NEW m \in Member, NEW act \in Action, Begin(c, act, m)
      PROVE  TypeOK' /\ Named'
  <2>1. PICK S \in SUBSET Member : Enter(c, "load", Asked(act, m, S))
    BY <1>6, RosterAssumption DEF Begin
  <2>2. Asked(act, m, S) \in Job /\ Asked(act, m, S).who = m /\ Asked(act, m, S).act = act
    BY AskedTyped
  <2>3. section' \in [Member -> Section] /\ up' \subseteq Member /\ now' \in 0 .. MaxTime
    BY <1>2, <1>6 DEF Begin
  <2> QED
    BY <2>1, <2>2, <2>3, Keeps
<1>7. ASSUME NEW c \in Client, ReadRoster(c)
      PROVE  TypeOK' /\ Named'
  <2> DEFINE m == First(job[c].todo)
  <2>1. m \in job[c].todo /\ pc[c] = "load" /\ UNCHANGED <<section, up, now>>
    BY <1>7, FirstIn DEF ReadRoster
  <2>2. m \in Member /\ section[m] \in Section
    BY <1>1, <1>2, <2>1
  <2>3. CASE Leave(c)
    BY <1>4, <2>1, <2>3
  <2>4. CASE ~Leave(c)
    <3>1. PICK s \in {View(c), Merge(View(c), section[m])} :
            Enter(c, "load", Viewed(job[c], m, s))
      BY <1>7, <2>4 DEF ReadRoster
    <3>2. s \in Section
      BY <1>1, <2>2, <3>1, MergeTyped
    <3> HIDE DEF m
    <3>3. /\ Viewed(job[c], m, s) \in Job /\ Viewed(job[c], m, s).act = job[c].act
          /\ Viewed(job[c], m, s).who = job[c].who
      BY <1>1, <2>2, <3>2, ViewedTyped
    <3>4. job[c].who \in Member /\ job[c].act \in Action
      BY <1>3, <2>1
    <3>5. section' \in [Member -> Section] /\ up' \subseteq Member /\ now' \in 0 .. MaxTime
      BY <1>2, <2>1
    <3> QED
      BY <3>1, <3>3, <3>4, <3>5, Keeps
  <2> QED
    BY <2>3, <2>4
<1>8. ASSUME NEW c \in Client, Plan(c)
      PROVE  TypeOK' /\ Named'
  <2>1. /\ pc[c] = "load" /\ now < MaxTime /\ now' = now + 1 /\ UNCHANGED <<section, up>>
        /\ ~AlreadySo(c) /\ ~Refused(c) /\ View(c).id # None
    BY <1>8 DEF Plan, Loaded, Refused
  <2> DEFINE reach == Targets(c) \cap Reachable(c)
  <2>2. Enter(c, "gate", Planned(job[c], Changed(c), reach))
    BY <1>8 DEF Plan
  <2>3. reach \in SUBSET Member /\ Changed(c) \in Rows
    BY <2>1, ChangedTyped, RosterAssumption DEF Targets, Active
  <2> HIDE DEF reach
  <2>4. /\ Planned(job[c], Changed(c), reach) \in Job
        /\ Planned(job[c], Changed(c), reach).act = job[c].act
        /\ Planned(job[c], Changed(c), reach).who = job[c].who
    BY <1>1, <2>3, PlannedTyped
  <2>5. job[c].who \in Member /\ job[c].act \in Action
    BY <1>3, <2>1
  <2>6. section' \in [Member -> Section] /\ up' \subseteq Member /\ now' \in 0 .. MaxTime
    BY <1>2, <2>1, RosterAssumption
  <2> QED
    BY <2>2, <2>4, <2>5, <2>6, Keeps
<1>9. ASSUME NEW c \in Client, NEW ph \in Phase, NEW S \in SUBSET Member, pc[c] # "idle",
             Enter(c, ph, WithTodo(job[c], S)), section' \in [Member -> Section],
             UNCHANGED <<up, now>>
      PROVE  TypeOK' /\ Named'
  <2>1. /\ WithTodo(job[c], S) \in Job /\ WithTodo(job[c], S).act = job[c].act
        /\ WithTodo(job[c], S).who = job[c].who
    BY <1>1, TodoTyped
  <2>2. job[c].who \in Member /\ job[c].act \in Action
    BY <1>3, <1>9
  <2>3. up' \subseteq Member /\ now' \in 0 .. MaxTime
    BY <1>2, <1>9
  <2> QED
    BY <1>9, <2>1, <2>2, <2>3, Keeps
<1>10. ASSUME NEW c \in Client, Pass(c) \/ AllPassed(c)
       PROVE  TypeOK' /\ Named'
  <2>1. PICK ph \in Phase, S \in SUBSET Member : Enter(c, ph, WithTodo(job[c], S))
    BY <1>1, <1>10 DEF Pass, AllPassed
  <2>2. pc[c] # "idle" /\ UNCHANGED <<section, up, now>>
    BY <1>10 DEF Pass, AllPassed
  <2> QED
    BY <1>2, <1>9, <2>1, <2>2
<1>11. ASSUME NEW c \in Client, Write(c)
       PROVE  TypeOK' /\ Named'
  <2> DEFINE m == First(job[c].todo)
  <2>1. m \in job[c].todo /\ pc[c] = "write" /\ UNCHANGED <<up, now>>
    BY <1>11, FirstIn DEF Write
  <2>2. Enter(c, "write", WithTodo(job[c], job[c].todo \ {m}))
    BY <1>11 DEF Write
  <2>3. section' = [section EXCEPT ![m] = View(c)]
    BY <1>11 DEF Write
  <2> HIDE DEF m
  <2>4. section' \in [Member -> Section] /\ job[c].todo \ {m} \in SUBSET Member
    BY <1>1, <1>2, <2>3
  <2> QED
    BY <1>9, <2>1, <2>2, <2>4
<1>12. ASSUME NEW c \in Client, JoinerPasses(c)
       PROVE  TypeOK' /\ Named'
  <2>1. /\ pc[c] = "write" /\ Enter(c, "write", ForJoiner(job[c]))
        /\ UNCHANGED <<section, up, now>>
    BY <1>12 DEF JoinerPasses
  <2>2. job[c].who \in Member /\ job[c].act \in Action
    BY <1>3, <2>1
  <2>3. /\ ForJoiner(job[c]) \in Job /\ ForJoiner(job[c]).act = job[c].act
        /\ ForJoiner(job[c]).who = job[c].who
    BY <1>1, <2>2, JoinerTyped
  <2>4. section' \in [Member -> Section] /\ up' \subseteq Member /\ now' \in 0 .. MaxTime
    BY <1>2, <2>1
  <2> QED
    BY <2>1, <2>2, <2>3, <2>4, Keeps
<1>13. ASSUME NEW c \in Client,
              GiveUp(c) \/ Refuse(c) \/ JoinerRefuses(c) \/ Finish(c) \/ Abandon(c)
       PROVE  TypeOK' /\ Named'
  BY <1>4, <1>13 DEF GiveUp, Refuse, JoinerRefuses, Finish, Abandon
<1>14. ASSUME NEW m \in Member, Weather(m)
       PROVE  TypeOK' /\ Named'
  BY <1>14 DEF Weather, GoesDown, ComesUp, TypeOK, Named
<1>15. CASE UNCHANGED vars
  BY <1>15 DEF vars, TypeOK, Named
<1> QED
  BY <1>5, <1>6, <1>7, <1>8, <1>10, <1>11, <1>12, <1>13, <1>14, <1>15 DEF Next, Step

(* Types: every state of every run is of the declared form, whatever the   *)
(* clients, their locations and the members that answer.                   *)
THEOREM RosterTypeCorrect == Spec => []TypeOK
<1>1. Init => TypeOK /\ Named
  BY InitTyped
<1>2. (TypeOK /\ Named) /\ [Next]_vars => (TypeOK /\ Named)'
  BY StepTyped
<1> QED
  BY <1>1, <1>2, PTL DEF Spec

-----------------------------------------------------------------------------
(* The fan-out of a change.  What a command is about to write is later than *)
(* every catalog it may write, because it has read all of those it reaches; *)
(* this is true of no roster but the one in its hands, so the invariant     *)
(* follows the command from its first read to its last write.               *)

OneByOne == Alone /\ Steady /\ Sponsors = {}

(* No row is later than the clock. *)
Dated(rows, t) == \A x \in Member : rows[x].at <= t

(* A catalog that may be overwritten with this view. *)
Past(s, v) == s.id \in {None, v.id} /\ \A x \in Member : Le(s.rows[x], v.rows[x])

(* What is in no federation has no rows. *)
Store(sec, t) ==
  \A m \in Member : Dated(sec[m].rows, t) /\ (sec[m].id = None => sec[m].rows = NoRows)

(* The catalogs a command at place ph may write, or has read. *)
Scope(ph, j, R) ==
  IF ph = "load" THEN R \ j.todo ELSE IF j.act = "init" THEN {j.who} ELSE R

(* A command at place ph with j in memory, where it reaches the members R. *)
Fit(ph, j, sec, t, R) ==
  /\ Dated(j.view.rows, t)
  /\ ph = "load" => j.act # "init"
  /\ ph # "load" => j.view.id # None
  /\ j.act = "init" => j.todo \cup j.reach \subseteq {j.who}
  /\ \A n \in Scope(ph, j, R) : Past(sec[n], j.view)

Lone     == \A c, d \in Client : pc[c] # "idle" /\ pc[d] # "idle" => c = d
Ready(c) == pc[c] # "idle" => Fit(pc[c], job[c], section, now, Reachable(c))

FanInv == TypeOK /\ Named /\ Lone /\ Store(section, now) /\ \A c \in Client : Ready(c)

LEMMA RowOf == ASSUME NEW rows \in Rows, NEW x \in Member PROVE rows[x] \in AnyRow /\ rows[x].at \in Nat
<1>1. rows[x] \in AnyRow
  BY DEF Rows, AnyRow
<1> QED
  BY <1>1, RowFacts

LEMMA SectionFacts ==
  ASSUME TypeOK
  PROVE  /\ \A m \in Member : section[m] \in Section /\ section[m].rows \in Rows
         /\ now \in Nat
         /\ \A c \in Client : /\ job[c] \in Job /\ View(c) = job[c].view
                              /\ View(c) \in Section /\ View(c).rows \in Rows
                              /\ pc[c] \in Phase /\ job[c].todo \in SUBSET Member
                              /\ job[c].reach \in SUBSET Member /\ Reachable(c) \in SUBSET Member
BY RosterAssumption DEF TypeOK, Section, Job, View, Reachable

(* A view later than one that may be written over a catalog may be too. *)
LEMMA PastGrows ==
  ASSUME NEW s \in Section, NEW v \in Section, NEW w \in Section, Past(s, v),
         v.id \in {None, w.id}, \A x \in Member : Le(v.rows[x], w.rows[x])
  PROVE  Past(s, w)
<1>1. s.rows \in Rows /\ v.rows \in Rows /\ w.rows \in Rows
  BY DEF Section
<1>2. ASSUME NEW x \in Member PROVE Le(s.rows[x], w.rows[x])
  <2>1. s.rows[x] \in AnyRow /\ v.rows[x] \in AnyRow /\ w.rows[x] \in AnyRow
    BY <1>1, RowOf
  <2>2. Le(s.rows[x], v.rows[x]) /\ Le(v.rows[x], w.rows[x])
    BY DEF Past
  <2> QED
    BY <2>1, <2>2, LeOrder
<1> QED
  BY <1>2 DEF Past

LEMMA PastSelf == ASSUME NEW v \in Section PROVE Past(v, v)
<1>1. ASSUME NEW x \in Member PROVE Le(v.rows[x], v.rows[x])
  BY RowOf, LeOrder DEF Section
<1> QED
  BY <1>1 DEF Past

LEMMA PastBlank ==
  ASSUME NEW s \in Section, NEW v \in Section, s.id = None, s.rows = NoRows
  PROVE  Past(s, v)
<1>1. ASSUME NEW x \in Member PROVE Le(s.rows[x], v.rows[x])
  BY NothingTyped, RowOf, LeOrder DEF Section
<1> QED
  BY <1>1 DEF Past

LEMMA DatedLater ==
  ASSUME NEW rows \in Rows, NEW t \in Nat, Dated(rows, t)
  PROVE  Dated(rows, t + 1)
<1>1. ASSUME NEW x \in Member PROVE rows[x].at <= t + 1
  BY RowOf DEF Dated
<1> QED
  BY <1>1 DEF Dated

(* Nobody else runs: a step of one command is fit if what it enters is.    *)
LEMMA Alonely ==
  ASSUME FanInv, NEW c \in Client, pc[c] # "idle" \/ Quiet, NEW ph \in Phase, NEW j \in Job,
         Enter(c, ph, j), TypeOK', Named', Store(section', now'), up' = up,
         ph # "idle" => Fit(ph, j, section', now', Reachable(c))
  PROVE  FanInv'
<1>1. /\ pc'[c] = ph /\ job'[c] = j
      /\ \A d \in Client \ {c} : pc'[d] = pc[d] /\ job'[d] = job[d]
  BY Entered DEF FanInv
<1>2. ASSUME NEW d \in Client, d # c PROVE pc[d] = "idle"
  BY <1>2 DEF FanInv, Lone, Quiet, Idle
<1>3. Lone'
  BY <1>1, <1>2 DEF Lone
<1>4. ASSUME NEW d \in Client PROVE Ready(d)'
  <2>1. CASE d = c
    BY <1>1, <2>1 DEF Ready, Reachable
  <2>2. CASE d # c
    BY <1>1, <1>2, <2>2 DEF Ready
  <2> QED
    BY <2>1, <2>2
<1> QED
  BY <1>3, <1>4 DEF FanInv

LEMMA LeaveFits ==
  ASSUME FanInv, NEW c \in Client, Leave(c), UNCHANGED <<section, up, now>>,
         TypeOK', Named'
  PROVE  FanInv'
<1>1. NoJob \in Job /\ "idle" \in Phase
  BY NothingTyped DEF Phase
<1>2. /\ pc'[c] = "idle" /\ \A d \in Client \ {c} : pc'[d] = pc[d] /\ job'[d] = job[d]
  BY <1>1, Entered DEF FanInv, Leave
<1>3. Lone'
  BY <1>2 DEF FanInv, Lone
<1>4. ASSUME NEW d \in Client PROVE Ready(d)'
  <2>1. CASE d = c
    BY <1>2, <2>1 DEF Ready
  <2>2. CASE d # c
    BY <1>2, <2>2 DEF FanInv, Ready, Reachable
  <2> QED
    BY <2>1, <2>2
<1> QED
  BY <1>3, <1>4 DEF FanInv

(* What the change of a roster makes of it is later than what was read.    *)
LEMMA ChangeIsLater ==
  ASSUME FanInv, NEW c \in Client, Plan(c)
  PROVE  /\ Changed(c) \in Rows
         /\ \A x \in Member : Le(View(c).rows[x], Changed(c)[x])
         /\ Dated(Changed(c), now + 1)
         /\ ~Le(Changed(c)[job[c].who], View(c).rows[job[c].who])
<1>1. /\ TypeOK /\ Named /\ pc[c] # "idle" /\ now < MaxTime /\ View(c).id # None
      /\ ~AlreadySo(c) /\ ~Refused(c) /\ pc[c] = "load"
  BY DEF FanInv, Plan, Loaded, Refused
<1>2. /\ now \in Nat /\ View(c).rows \in Rows /\ job[c].who \in Member
      /\ View(c) = job[c].view
  BY <1>1, SectionFacts DEF Named
<1>3. Dated(View(c).rows, now)
  BY <1>1, <1>2 DEF FanInv, Ready, Fit
<1> DEFINE old == View(c).rows
           m == job[c].who
<1>4. /\ Changed(c) \in Rows
      /\ \A x \in Member \ {m} : Changed(c)[x] = old[x]
      /\ \/ Changed(c)[m] = [at |-> now + 1, status |-> "active"]
         \/ /\ old[m].status = "active" /\ Changed(c)[m].at = old[m].at
            /\ Changed(c)[m].status \in Status
            /\ Rank(Changed(c)[m].status) > 0
  <2>1. \A st \in Status \ {"active"} : Rank(st) > 0
    BY DEF Status, Rank
  <2> QED
    BY <1>1, <2>1, ChangedTyped
<1>5. ASSUME NEW x \in Member PROVE Le(old[x], Changed(c)[x]) /\ Changed(c)[x].at <= now + 1
  <2>1. /\ old[x] \in AnyRow /\ old[x].at \in Nat /\ Changed(c)[x] \in AnyRow
        /\ Changed(c)[x].at \in Nat
    BY <1>2, <1>4, RowOf
  <2>2. old[x].at <= now
    BY <1>3 DEF Dated
  <2>3. CASE x # m
    BY <1>2, <1>4, <2>1, <2>2, <2>3, LeOrder
  <2>4. CASE x = m /\ Changed(c)[m] = [at |-> now + 1, status |-> "active"]
    BY <1>2, <2>1, <2>2, <2>4 DEF Le, Beats
  <2>5. CASE x = m /\ old[m].status = "active" /\ Changed(c)[m].at = old[m].at
    <3>1. Rank(old[m].status) = 0 /\ Rank(Changed(c)[m].status) \in 0 .. 2
      BY <2>1, <2>5, RowFacts DEF Rank
    <3> QED
      BY <1>2, <2>1, <2>2, <2>5, <3>1 DEF Le, Beats
  <2> QED
    BY <1>4, <2>3, <2>4, <2>5
<1>6. ~Le(Changed(c)[m], old[m])
  <2>1. old[m].at \in Nat /\ old[m].at <= now
    BY <1>2, <1>3, RowOf DEF Dated
  <2>2. CASE Changed(c)[m] = [at |-> now + 1, status |-> "active"]
    BY <1>2, <2>1, <2>2 DEF Le, Beats
  <2>3. CASE /\ old[m].status = "active" /\ Changed(c)[m].at = old[m].at
             /\ Rank(Changed(c)[m].status) > 0
    <3>1. Rank(old[m].status) = 0
      BY <2>3 DEF Rank
    <3> QED
      BY <2>1, <2>3, <3>1 DEF Le, Beats
  <2> QED
    BY <1>4, <2>2, <2>3
<1> QED
  BY <1>4, <1>5, <1>6 DEF Dated

LEMMA ReadFits ==
  ASSUME OneByOne, FanInv, NEW c \in Client, ReadRoster(c), TypeOK', Named'
  PROVE  FanInv'
<1> DEFINE m == First(job[c].todo)
<1>1. /\ m \in job[c].todo /\ pc[c] = "load" /\ UNCHANGED <<section, up, now>>
  BY FirstIn DEF ReadRoster
<1>2. /\ job[c] \in Job /\ View(c) \in Section /\ View(c) = job[c].view /\ TypeOK
      /\ m \in Member /\ section[m] \in Section /\ Reachable(c) \in SUBSET Member
  BY <1>1, SectionFacts DEF FanInv
<1>3. /\ Store(section, now)' /\ Store(section, now)
  BY <1>1 DEF FanInv
<1>4. Fit("load", job[c], section, now, Reachable(c))
  BY <1>1 DEF FanInv, Ready
(* Whatever is later than the view, and than this catalog if it is read. *)
<1>5. ASSUME NEW w \in Section, Enter(c, "load", Viewed(job[c], m, w)),
             Dated(w.rows, now), View(c).id \in {None, w.id},
             \A x \in Member : Le(View(c).rows[x], w.rows[x]),
             m \in Reachable(c) => Past(section[m], w)
      PROVE  FanInv'
  <2> DEFINE j == Viewed(job[c], m, w)
  <2>1. /\ j \in Job /\ j.act = job[c].act /\ j.who = job[c].who /\ j.view = w
        /\ j.todo = job[c].todo \ {m} /\ j.reach = job[c].reach
    <3>1. Viewed(job[c], m, w).reach = job[c].reach
      BY <1>2 DEF Job, Viewed
    <3> QED
      BY <1>2, <3>1, ViewedTyped
  <2>2. ASSUME NEW n \in Scope("load", j, Reachable(c)) PROVE Past(section[n], w)
    <3>1. n \in Reachable(c) /\ n \in Member /\ section[n] \in Section
      BY <1>2, <2>1, SectionFacts DEF Scope
    <3>2. CASE n = m
      BY <1>5, <3>1, <3>2
    <3>3. CASE n # m
      <4>1. n \in Scope("load", job[c], Reachable(c))
        BY <2>1, <2>2, <3>3 DEF Scope
      <4>2. Past(section[n], View(c))
        BY <1>2, <1>4, <4>1 DEF Fit
      <4> QED
        BY <1>2, <1>5, <3>1, <4>2, PastGrows
    <3> QED
      BY <3>2, <3>3
  <2>3. Fit("load", j, section, now, Reachable(c))
    BY <1>4, <1>5, <2>1, <2>2 DEF Fit
  <2> HIDE DEF j, m
  <2>4. Fit("load", j, section', now', Reachable(c))
    BY <1>1, <2>3
  <2>5. pc[c] # "idle" /\ "load" \in Phase /\ Enter(c, "load", j) /\ up' = up
    BY <1>1, <1>5 DEF Phase, j
  <2> QED
    BY <1>3, <2>1, <2>4, <2>5, Alonely
<1>6. /\ View(c).id \in {None, View(c).id} /\ Dated(View(c).rows, now)
      /\ \A x \in Member : Le(View(c).rows[x], View(c).rows[x])
  BY <1>2, <1>4, PastSelf DEF Fit, Past
<1>7. CASE m \notin Reachable(c) \/ section[m].id = None
  <2>1. Enter(c, "load", Viewed(job[c], m, View(c)))
    BY <1>7 DEF ReadRoster
  <2>2. m \in Reachable(c) => Past(section[m], View(c))
    BY <1>2, <1>3, <1>7, PastBlank DEF Store
  <2> HIDE DEF m
  <2> QED
    BY <1>2, <1>5, <1>6, <2>1, <2>2
<1>8. CASE ~(m \notin Reachable(c) \/ section[m].id = None) /\ Agree(View(c), section[m])
  <2> DEFINE w == Merge(View(c), section[m])
  <2>1. Enter(c, "load", Viewed(job[c], m, w))
    BY <1>8 DEF ReadRoster
  <2> HIDE DEF m
  <2>2. /\ w \in Section /\ w.id = section[m].id
        /\ w.rows = MergeRows(View(c).rows, section[m].rows)
    BY <1>2, MergeTyped
  <2>3. View(c).rows \in Rows /\ section[m].rows \in Rows
    BY <1>2 DEF Section
  <2>4. ASSUME NEW x \in Member
        PROVE  /\ Le(View(c).rows[x], w.rows[x]) /\ Le(section[m].rows[x], w.rows[x])
               /\ w.rows[x].at <= now
    <3>1. View(c).rows[x] \in AnyRow /\ section[m].rows[x] \in AnyRow
      BY <2>3, RowOf
    <3>2. w.rows[x] = IF Le(section[m].rows[x], View(c).rows[x]) THEN View(c).rows[x]
                      ELSE section[m].rows[x]
      BY <2>2, <2>3, MergedRow DEF Le
    <3>3. /\ Le(View(c).rows[x], View(c).rows[x])
          /\ Le(section[m].rows[x], section[m].rows[x])
          /\ \/ Le(section[m].rows[x], View(c).rows[x])
             \/ Le(View(c).rows[x], section[m].rows[x])
      BY <3>1, LeOrder
    <3>4. View(c).rows[x].at <= now /\ section[m].rows[x].at <= now
      BY <1>2, <1>3, <1>6 DEF Dated, Store
    <3> QED
      BY <3>2, <3>3, <3>4
  <2>5. Past(section[m], w) /\ Dated(w.rows, now) /\ View(c).id \in {None, w.id}
    BY <1>8, <2>2, <2>4 DEF Past, Dated, Agree
  <2> HIDE DEF w
  <2> QED
    BY <1>5, <2>1, <2>2, <2>4, <2>5
<1>9. CASE ~(m \notin Reachable(c) \/ section[m].id = None) /\ ~Agree(View(c), section[m])
  <2>1. Leave(c)
    BY <1>9 DEF ReadRoster
  <2> QED
    BY <1>1, <2>1, LeaveFits
<1> QED
  BY <1>7, <1>8, <1>9

(* The members a command reaches are all still to be read when it begins.  *)
LEMMA BeginFits ==
  ASSUME OneByOne, FanInv, NEW c \in Client, NEW act \in Action, NEW m \in Member,
         Begin(c, act, m), TypeOK', Named'
  PROVE  FanInv'
<1> DEFINE j == Asked(act, m, Known[c])
<1>1. Quiet /\ act # "init" /\ UNCHANGED <<section, up, now>> /\ Enter(c, "load", j)
  BY DEF Begin, MayStart, OneByOne
<1>2. /\ j \in Job /\ j.act = act /\ j.todo = Known[c] /\ j.view = Nothing
  BY RosterAssumption, AskedTyped
<1> HIDE DEF j
<1>3. Scope("load", j, Reachable(c)) = {}
  BY <1>2 DEF Scope, Reachable
<1>4. Dated(Nothing.rows, now)
  <2>1. now \in Nat
    BY SectionFacts DEF FanInv
  <2>2. Nothing.rows = NoRows /\ NoRow.at = 0
    BY DEF Nothing, NoRow
  <2> QED
    BY <2>1, <2>2, NothingTyped DEF Dated
<1>5. Fit("load", j, section', now', Reachable(c))
  BY <1>1, <1>2, <1>3, <1>4 DEF Fit
<1>6. Store(section', now') /\ "load" \in Phase
  BY <1>1 DEF FanInv, Phase
<1> QED
  BY <1>1, <1>2, <1>5, <1>6, Alonely

(* A new federation is written where none was, and nothing runs beside. *)
LEMMA FoundFits ==
  ASSUME OneByOne, FanInv, NEW c \in Client, NEW m \in Member, NEW f \in Fed,
         InitFed(c, m, f), TypeOK', Named'
  PROVE  FanInv'
<1> DEFINE v == [id |-> f, rows |-> WithMember(NoRows, m, now + 1)]
           j == Minted(m, v)
<1>1. /\ Quiet /\ section[m].id = None /\ now < MaxTime /\ now' = now + 1
      /\ UNCHANGED <<section, up>> /\ Enter(c, "write", j)
  BY DEF InitFed, MayStart, OneByOne
<1>2. now \in Nat /\ now + 1 \in 1 .. MaxTime /\ TypeOK
  BY <1>1, RosterAssumption, SectionFacts DEF FanInv, TypeOK
<1>3. /\ v \in Section /\ v.id # None
      /\ Dated(v.rows, now + 1)
  <2>1. /\ WithMember(NoRows, m, now + 1) \in Rows
        /\ WithMember(NoRows, m, now + 1)[m] = [at |-> now + 1, status |-> "active"]
        /\ \A x \in Member \ {m} : WithMember(NoRows, m, now + 1)[x] = NoRow
    BY <1>2, NothingTyped, WithMemberTyped
  <2>2. ASSUME NEW x \in Member PROVE WithMember(NoRows, m, now + 1)[x].at <= now + 1
    BY <1>2, <2>1 DEF NoRow
  <2> QED
    BY <2>1, <2>2, RosterAssumption DEF Section, Dated
<1> HIDE DEF v
<1>4. /\ j \in Job /\ j.act = "init" /\ j.who = m /\ j.todo = {m} /\ j.reach = {m} /\ j.view = v
  <2>1. j.act = "init"
    BY NothingTyped DEF Minted, NoJob, Job
  <2> QED
    BY <1>3, <2>1, MintedTyped
<1> HIDE DEF j
<1>5. Past(section[m], v)
  BY <1>1, <1>2, <1>3, SectionFacts, PastBlank DEF FanInv, Store
<1>6. Fit("write", j, section', now', Reachable(c))
  BY <1>1, <1>3, <1>4, <1>5 DEF Fit, Scope
<1>7. Store(section', now') /\ "write" \in Phase
  BY <1>1, <1>2, SectionFacts, DatedLater DEF FanInv, Store, Phase
<1> QED
  BY <1>1, <1>4, <1>6, <1>7, Alonely

(* By now every catalog within reach has been read. *)
LEMMA PlanFits ==
  ASSUME OneByOne, FanInv, NEW c \in Client, Plan(c), TypeOK', Named'
  PROVE  FanInv'
<1> DEFINE reach == Targets(c) \cap Reachable(c)
           j == Planned(job[c], Changed(c), reach)
<1>1. /\ pc[c] = "load" /\ job[c].todo = {} /\ now' = now + 1 /\ UNCHANGED <<section, up>>
      /\ Enter(c, "gate", j) /\ View(c).id # None
  BY DEF Plan, Loaded, Refused
<1>2. /\ Changed(c) \in Rows /\ \A x \in Member : Le(View(c).rows[x], Changed(c)[x])
      /\ Dated(Changed(c), now + 1)
  BY ChangeIsLater
<1>3. /\ job[c] \in Job /\ View(c) = job[c].view /\ View(c) \in Section /\ now \in Nat
      /\ Reachable(c) \in SUBSET Member /\ reach \in SUBSET Member
  BY SectionFacts DEF FanInv, Targets, Active
<1> HIDE DEF reach
<1>4. /\ j \in Job /\ j.act = job[c].act /\ j.view.id = View(c).id /\ j.view.rows = Changed(c)
      /\ j.view \in Section
  BY <1>2, <1>3, PlannedTyped DEF Job
<1> HIDE DEF j
<1>5. Fit("load", job[c], section, now, Reachable(c))
  BY <1>1 DEF FanInv, Ready
<1>6. j.act # "init"
  BY <1>4, <1>5 DEF Fit
<1>7. ASSUME NEW n \in Reachable(c) PROVE Past(section[n], j.view)
  <2>1. n \in Scope("load", job[c], Reachable(c)) /\ section[n] \in Section
    BY <1>1, <1>3, SectionFacts DEF Scope, FanInv
  <2>2. Past(section[n], View(c))
    BY <1>3, <1>5, <2>1 DEF Fit
  <2> QED
    BY <1>2, <1>3, <1>4, <2>1, <2>2, PastGrows
<1>8. Fit("gate", j, section', now', Reachable(c))
  BY <1>1, <1>2, <1>4, <1>6, <1>7 DEF Fit, Scope
<1>9. Store(section', now') /\ "gate" \in Phase /\ pc[c] # "idle"
  BY <1>1, <1>3, SectionFacts, DatedLater DEF FanInv, Store, Phase
<1> QED
  BY <1>1, <1>4, <1>8, <1>9, Alonely

(* The passwords, and the joiner's turn, change nothing of that. *)
LEMMA GateFits ==
  ASSUME FanInv, NEW c \in Client, Pass(c) \/ AllPassed(c) \/ JoinerPasses(c),
         TypeOK', Named'
  PROVE  FanInv'
<1>1. /\ pc[c] \in {"gate", "write"} /\ UNCHANGED <<section, up, now>>
  BY DEF Pass, AllPassed, JoinerPasses
<1>2. /\ job[c] \in Job /\ View(c) \in Section /\ View(c) = job[c].view
      /\ job[c].todo \in SUBSET Member /\ job[c].reach \in SUBSET Member
      /\ job[c].who \in Member
  BY <1>1, SectionFacts DEF FanInv, Named
<1>3. PICK j \in Job, ph \in {"gate", "write"} :
        /\ Enter(c, ph, j)
        /\ j.act = job[c].act /\ j.who = job[c].who /\ j.view = job[c].view
        /\ j.reach = job[c].reach
        /\ j.todo \subseteq job[c].todo \cup job[c].reach \cup {job[c].who}
  <2>1. CASE Pass(c)
    <3>1. job[c].todo \ {First(job[c].todo)} \in SUBSET Member
      BY <1>2
    <3> QED
      BY <1>2, <2>1, <3>1, TodoTyped DEF Pass
  <2>2. CASE AllPassed(c)
    BY <1>2, <2>2, TodoTyped DEF AllPassed
  <2>3. CASE JoinerPasses(c)
    BY <1>2, <2>3, JoinerTyped DEF JoinerPasses
  <2> QED
    BY <2>1, <2>2, <2>3
<1>4. Fit(pc[c], job[c], section, now, Reachable(c))
  BY <1>1 DEF FanInv, Ready
<1>5. Fit(ph, j, section', now', Reachable(c))
  BY <1>1, <1>3, <1>4 DEF Fit, Scope
<1>6. Store(section', now') /\ ph \in Phase /\ pc[c] # "idle"
  BY <1>1 DEF FanInv, Phase
<1> QED
  BY <1>1, <1>3, <1>5, <1>6, Alonely

(* What is written is later than what it replaces, and of its federation.  *)
LEMMA WriteIsLater ==
  ASSUME FanInv, NEW c \in Client, Write(c)
  PROVE  /\ First(job[c].todo) \in Member
         /\ section' = [section EXCEPT ![First(job[c].todo)] = View(c)]
         /\ Past(section[First(job[c].todo)], View(c))
<1> DEFINE m == First(job[c].todo)
<1>1. /\ m \in job[c].todo /\ pc[c] = "write" /\ m \in Reachable(c)
      /\ section' = [section EXCEPT ![m] = View(c)]
  BY FirstIn DEF Write
<1>2. View(c) = job[c].view /\ m \in Member
  BY <1>1, SectionFacts DEF FanInv
<1>3. Fit("write", job[c], section, now, Reachable(c))
  BY <1>1 DEF FanInv, Ready
<1>4. m \in Scope("write", job[c], Reachable(c))
  BY <1>1, <1>3 DEF Fit, Scope
<1> QED
  BY <1>1, <1>2, <1>3, <1>4 DEF Fit

LEMMA WriteFits ==
  ASSUME FanInv, NEW c \in Client, Write(c), TypeOK', Named'
  PROVE  FanInv'
<1> DEFINE m == First(job[c].todo)
           j == WithTodo(job[c], job[c].todo \ {m})
<1>1. /\ m \in Member /\ section' = [section EXCEPT ![m] = View(c)]
      /\ Past(section[m], View(c))
  BY WriteIsLater
<1>2. /\ pc[c] = "write" /\ UNCHANGED <<up, now>> /\ Enter(c, "write", j)
  BY DEF Write
<1>3. /\ job[c] \in Job /\ View(c) \in Section /\ View(c) = job[c].view
      /\ job[c].todo \ {m} \in SUBSET Member /\ section \in [Member -> Section]
      /\ Reachable(c) \in SUBSET Member
  BY SectionFacts DEF FanInv, TypeOK
<1> HIDE DEF m
<1>4. /\ j \in Job /\ j.act = job[c].act /\ j.who = job[c].who /\ j.view = View(c)
      /\ j.todo = job[c].todo \ {m} /\ j.reach = job[c].reach
  BY <1>3, TodoTyped
<1> HIDE DEF j
<1>5. Fit("write", job[c], section, now, Reachable(c))
  BY <1>2 DEF FanInv, Ready
<1>6. job[c].who \in Member
  BY <1>2 DEF FanInv, Named
<1>7. ASSUME NEW n \in Scope("write", j, Reachable(c)) PROVE Past(section'[n], View(c))
  <2>1. n \in Member /\ n \in Scope("write", job[c], Reachable(c))
    BY <1>3, <1>4, <1>6, <1>7 DEF Scope
  <2>2. CASE n = m
    BY <1>1, <1>3, <2>1, <2>2, PastSelf
  <2>3. CASE n # m
    BY <1>1, <1>3, <1>5, <2>1, <2>3 DEF Fit
  <2> QED
    BY <2>2, <2>3
<1>8. Fit("write", j, section', now', Reachable(c))
  BY <1>2, <1>3, <1>4, <1>5, <1>7 DEF Fit
<1>9. Store(section', now')
  <2>1. ASSUME NEW n \in Member
        PROVE  /\ Dated(section'[n].rows, now')
               /\ section'[n].id = None => section'[n].rows = NoRows
    BY <1>1, <1>2, <1>3, <1>5 DEF FanInv, Store, Fit
  <2> QED
    BY <2>1 DEF Store
<1>10. "write" \in Phase /\ pc[c] # "idle"
  BY <1>2 DEF Phase
<1> QED
  BY <1>2, <1>4, <1>8, <1>9, <1>10, Alonely

LEMMA InitFits == Init => FanInv
<1> SUFFICES ASSUME Init PROVE FanInv
  OBVIOUS
<1>1. TypeOK /\ Named
  BY InitTyped
<1>2. Lone /\ \A c \in Client : Ready(c)
  BY DEF Init, Lone, Ready
<1>3. Store(section, now)
  BY NothingTyped DEF Init, Store, Nothing, Dated, NoRow
<1> QED
  BY <1>1, <1>2, <1>3 DEF FanInv

LEMMA StepFits == ASSUME OneByOne PROVE FanInv /\ [Next]_vars => FanInv'
<1> SUFFICES ASSUME FanInv, [Next]_vars PROVE FanInv'
  OBVIOUS
<1>1. TypeOK' /\ Named'
  BY StepTyped DEF FanInv
<1>2. ASSUME NEW c \in Client,
             GiveUp(c) \/ Refuse(c) \/ JoinerRefuses(c) \/ Finish(c) \/ Abandon(c)
      PROVE  FanInv'
  BY <1>1, <1>2, LeaveFits DEF GiveUp, Refuse, JoinerRefuses, Finish, Abandon
<1>3. ASSUME NEW c \in Client, Step(c) PROVE FanInv'
  BY <1>1, <1>2, <1>3, FoundFits, BeginFits, ReadFits, PlanFits, GateFits, WriteFits DEF Step
<1>4. ASSUME NEW m \in Member, Weather(m) PROVE FanInv'
  <2>1. \A c \in Client : pc[c] = "idle"
    BY <1>4 DEF Weather, OneByOne, Quiet, Idle
  <2> QED
    BY <1>1, <1>4, <2>1 DEF Weather, FanInv, Lone, Ready
<1>5. CASE UNCHANGED vars
  <2>1. UNCHANGED <<section, up, now, pc, job>>
    BY <1>5 DEF vars
  <2> QED
    BY <1>1, <2>1 DEF FanInv, Lone, Ready, Reachable
<1> QED
  BY <1>3, <1>4, <1>5 DEF Next

(* No step but a write touches a catalog. *)
LEMMA OnlyWrites ==
  ASSUME [Next]_vars, section' # section
  PROVE  \E c \in Client : Write(c)
<1>1. ASSUME NEW c \in Client, Step(c), ~Write(c) PROVE section' = section
  BY <1>1 DEF Step, InitFed, Begin, ReadRoster, GiveUp, Plan, Pass, Refuse, AllPassed,
              JoinerPasses, JoinerRefuses, Finish, Abandon
<1> QED
  BY <1>1 DEF Next, Weather, vars

(* A catalog stays or is replaced by one later than it. *)
LEMMA CatalogsGrow ==
  ASSUME FanInv, [Next]_vars, NEW m \in Member
  PROVE  Past(section[m], section'[m])
<1>1. section \in [Member -> Section] /\ section[m] \in Section
  BY DEF FanInv, TypeOK
<1>2. CASE section' = section
  BY <1>1, <1>2, PastSelf
<1>3. CASE section' # section
  <2>1. PICK c \in Client : Write(c)
    BY <1>3, OnlyWrites
  <2>2. /\ section' = [section EXCEPT ![First(job[c].todo)] = View(c)]
        /\ Past(section[First(job[c].todo)], View(c))
    BY <2>1, WriteIsLater
  <2> QED
    BY <1>1, <2>2, PastSelf
<1> QED
  BY <1>2, <1>3

(* What a command holds is later than all it may write, and is not written *)
(* anywhere else.                                                          *)
THEOREM FanInductive == OneByOne => (Spec => []FanInv)
<1> SUFFICES ASSUME OneByOne PROVE Spec => []FanInv
  OBVIOUS
<1>1. Init => FanInv
  BY InitFits
<1>2. FanInv /\ [Next]_vars => FanInv'
  BY StepFits
<1> QED
  BY <1>1, <1>2, PTL DEF Spec

(* A member that left or was evicted stays so wherever it is known, until  *)
(* it joins anew: no write of any roster command takes a row back.         *)
THEOREM RowsGrowHolds == OneByOne => (Spec => RowsGrow)
<1> SUFFICES ASSUME OneByOne PROVE Spec => RowsGrow
  OBVIOUS
<1>1. FanInv /\ [Next]_vars
        => [\A m, x \in Member : ~Beats(section[m].rows[x], section'[m].rows[x])]_vars
  BY CatalogsGrow DEF Past, Le
<1> QED
  BY FanInductive, <1>1, PTL DEF Spec, RowsGrow

(* Federations do not mix: a catalog that is in one is never written with  *)
(* the roster of another.                                                  *)
THEOREM OneFederationHolds == OneByOne => (Spec => OneFederation)
<1> SUFFICES ASSUME OneByOne PROVE Spec => OneFederation
  OBVIOUS
<1>1. FanInv /\ [Next]_vars
        => [\A m \in Member : section[m].id \in {None, section'[m].id}]_vars
  BY CatalogsGrow DEF Past
<1> QED
  BY FanInductive, <1>1, PTL DEF Spec, OneFederation

-----------------------------------------------------------------------------
(* What has been written so far.                                           *)

Joiner(j) == IF j.self THEN {j.who} ELSE {}

(* A command at place ph will write, or has written, all active members of *)
(* its roster that it reaches; before its first write none of them has the *)
(* change; and a federation that is being made is nowhere yet.             *)
Due(ph, j, sec, R) ==
  LET all == Active(j.view.rows) \cap R
  IN  /\ ph = "gate" =>
           /\ j.act # "init"
           /\ all \subseteq j.reach \cup Joiner(j)
           /\ \A m \in j.reach : sec[m].rows[j.who] # j.view.rows[j.who]
      /\ ph = "write" =>
           /\ \A m \in all \ (j.todo \cup Joiner(j)) : sec[m] = j.view
           /\ j.act = "init" => \A n \in Member \ {j.who} : sec[n].id # j.view.id

OnTime(c) == Due(pc[c], job[c], section, Reachable(c))

DueInv == FanInv /\ \A c \in Client : OnTime(c)

LEMMA AloneOnTime ==
  ASSUME DueInv, FanInv', NEW c \in Client, pc[c] # "idle" \/ Quiet, NEW ph \in Phase,
         NEW j \in Job, Enter(c, ph, j), up' = up, Due(ph, j, section', Reachable(c))
  PROVE  DueInv'
<1>1. /\ pc'[c] = ph /\ job'[c] = j
      /\ \A d \in Client \ {c} : pc'[d] = pc[d] /\ job'[d] = job[d]
  BY Entered DEF DueInv, FanInv
<1>2. ASSUME NEW d \in Client, d # c PROVE pc[d] = "idle"
  BY <1>2 DEF DueInv, FanInv, Lone, Quiet, Idle
<1>3. ASSUME NEW d \in Client PROVE OnTime(d)'
  <2>1. CASE d = c
    BY <1>1, <2>1 DEF OnTime, Reachable
  <2>2. CASE d # c
    BY <1>1, <1>2, <2>2 DEF OnTime, Due
  <2> QED
    BY <2>1, <2>2
<1> QED
  BY <1>3 DEF DueInv

LEMMA LeaveOnTime ==
  ASSUME DueInv, FanInv', NEW c \in Client, Leave(c), UNCHANGED <<section, up, now>>
  PROVE  DueInv'
<1>1. NoJob \in Job /\ "idle" \in Phase
  BY NothingTyped DEF Phase
<1>2. /\ pc'[c] = "idle" /\ \A d \in Client \ {c} : pc'[d] = pc[d] /\ job'[d] = job[d]
  BY <1>1, Entered DEF DueInv, FanInv, Leave
<1>3. ASSUME NEW d \in Client PROVE OnTime(d)'
  <2>1. CASE d = c
    BY <1>2, <2>1 DEF OnTime, Due
  <2>2. CASE d # c
    BY <1>2, <2>2 DEF DueInv, OnTime, Reachable
  <2> QED
    BY <2>1, <2>2
<1> QED
  BY <1>3 DEF DueInv

(* A command that reads has nothing due. *)
LEMMA LoadOnTime ==
  ASSUME DueInv, FanInv', NEW c \in Client, pc[c] # "idle" \/ Quiet, NEW j \in Job,
         Enter(c, "load", j), up' = up
  PROVE  DueInv'
BY AloneOnTime DEF Due, Phase

LEMMA BeginOnTime ==
  ASSUME OneByOne, DueInv, FanInv', NEW c \in Client, NEW act \in Action, NEW m \in Member,
         Begin(c, act, m)
  PROVE  DueInv'
<1>1. Asked(act, m, Known[c]) \in Job
  BY RosterAssumption, AskedTyped
<1>2. Quiet /\ up' = up /\ Enter(c, "load", Asked(act, m, Known[c]))
  BY DEF Begin, MayStart, OneByOne
<1> QED
  BY <1>1, <1>2, LoadOnTime

LEMMA ReadOnTime ==
  ASSUME DueInv, FanInv', NEW c \in Client, ReadRoster(c)
  PROVE  DueInv'
<1> DEFINE m == First(job[c].todo)
<1>1. m \in job[c].todo /\ pc[c] = "load" /\ UNCHANGED <<section, up, now>>
  BY FirstIn DEF ReadRoster
<1>2. job[c] \in Job /\ View(c) \in Section /\ m \in Member /\ section[m] \in Section
  BY <1>1, SectionFacts DEF DueInv, FanInv
<1>3. CASE Leave(c)
  BY <1>1, <1>3, LeaveOnTime
<1>4. CASE ~Leave(c)
  <2>1. PICK s \in {View(c), Merge(View(c), section[m])} : Enter(c, "load", Viewed(job[c], m, s))
    BY <1>4 DEF ReadRoster
  <2>2. s \in Section
    BY <1>2, <2>1, MergeTyped
  <2> HIDE DEF m
  <2>3. Viewed(job[c], m, s) \in Job /\ pc[c] # "idle"
    BY <1>1, <1>2, <2>2, ViewedTyped
  <2> QED
    BY <1>1, <2>1, <2>3, LoadOnTime
<1> QED
  BY <1>3, <1>4

(* The federation is new: no catalog has it. *)
LEMMA FoundOnTime ==
  ASSUME OneByOne, DueInv, FanInv', NEW c \in Client, NEW m \in Member, NEW f \in Fed,
         InitFed(c, m, f)
  PROVE  DueInv'
<1> DEFINE v == [id |-> f, rows |-> WithMember(NoRows, m, now + 1)]
           j == Minted(m, v)
<1>1. /\ Quiet /\ now < MaxTime /\ UNCHANGED <<section, up>> /\ Enter(c, "write", j)
      /\ \A n \in Member : section[n].id # f
  BY DEF InitFed, MayStart, OneByOne
<1>2. now + 1 \in 1 .. MaxTime
  BY <1>1, RosterAssumption, SectionFacts DEF DueInv, FanInv
<1>3. v \in Section
  BY <1>2, NothingTyped, WithMemberTyped DEF Section
<1>4. ASSUME NEW x \in Active(v.rows) PROVE x = m
  <2>1. \A y \in Member \ {m} : v.rows[y] = NoRow
    BY <1>2, NothingTyped, WithMemberTyped
  <2> QED
    BY <2>1 DEF Active, Listed
<1>5. v.id = f
  OBVIOUS
<1> HIDE DEF v
<1>6. j \in Job /\ j.who = m /\ j.todo = {m} /\ j.view = v
  BY <1>3, MintedTyped
<1> HIDE DEF j
<1>7. Due("write", j, section', Reachable(c))
  BY <1>1, <1>4, <1>5, <1>6 DEF Due
<1> QED
  BY <1>1, <1>6, <1>7, AloneOnTime DEF Phase

(* Planned are all that are active in the new roster; none has the change. *)
LEMMA PlanOnTime ==
  ASSUME DueInv, FanInv', NEW c \in Client, Plan(c)
  PROVE  DueInv'
<1> DEFINE reach == Targets(c) \cap Reachable(c)
           j == Planned(job[c], Changed(c), reach)
           m == job[c].who
           old == View(c).rows
<1>1. /\ pc[c] = "load" /\ job[c].todo = {} /\ now < MaxTime /\ UNCHANGED <<section, up>>
      /\ Enter(c, "gate", j) /\ ~Refused(c) /\ ~AlreadySo(c) /\ View(c).id # None
      /\ FanInv /\ TypeOK /\ Named
  BY DEF Plan, Loaded, Refused, DueInv, FanInv
<1>2. /\ Changed(c) \in Rows /\ ~Le(Changed(c)[m], old[m])
      /\ \A x \in Member : Le(old[x], Changed(c)[x])
  BY <1>1, ChangeIsLater
<1>3. /\ \A x \in Member \ {m} : Changed(c)[x] = old[x]
      /\ job[c].act # "join" => Changed(c)[m].status # "active"
  BY <1>1, ChangedTyped
<1>4. /\ job[c] \in Job /\ View(c) = job[c].view /\ old \in Rows /\ m \in Member
      /\ Reachable(c) \in SUBSET Member /\ reach \in SUBSET Member
      /\ \A n \in Member : section[n].rows \in Rows
  BY <1>1, SectionFacts DEF Targets, Active, Named
<1>5. Fit("load", job[c], section, now, Reachable(c))
  BY <1>1 DEF FanInv, Ready
<1>6. ASSUME NEW n \in reach PROVE section[n].rows[m] # Changed(c)[m]
  <2>1. n \in Scope("load", job[c], Reachable(c)) /\ n \in Member
    BY <1>1, <1>4 DEF Scope
  <2>2. Le(section[n].rows[m], old[m])
    BY <1>4, <1>5, <2>1 DEF Fit, Past
  <2> QED
    BY <1>2, <2>2
<1>7. ASSUME NEW x \in Active(Changed(c)) \cap Reachable(c)
      PROVE  x \in reach \/ (x = m /\ job[c].act = "join")
  <2>1. x \in Member /\ Listed(Changed(c), x) /\ Changed(c)[x].status = "active"
    BY DEF Active
  <2>2. CASE x # m
    <3>1. x \in Active(old)
      BY <1>3, <2>1, <2>2 DEF Active, Listed
    <3>2. x \in Targets(c)
      BY <2>2, <3>1 DEF Targets
    <3> QED
      BY <1>7, <3>2
  <2>3. CASE x = m
    BY <1>3, <2>1, <2>3
  <2> QED
    BY <2>2, <2>3
<1> HIDE DEF reach
<1>8. /\ j \in Job /\ j.act = job[c].act /\ j.who = m /\ j.view.rows = Changed(c)
      /\ j.reach = reach /\ j.self = (job[c].act = "join")
  BY <1>2, <1>4, PlannedTyped
<1> HIDE DEF j
<1>9. Due("gate", j, section', Reachable(c))
  BY <1>1, <1>5, <1>6, <1>7, <1>8 DEF Due, Joiner, Fit
<1> QED
  BY <1>1, <1>8, <1>9, AloneOnTime DEF Phase

LEMMA GateOnTime ==
  ASSUME DueInv, FanInv', NEW c \in Client, Pass(c) \/ AllPassed(c) \/ JoinerPasses(c)
  PROVE  DueInv'
<1>1. /\ pc[c] \in {"gate", "write"} /\ UNCHANGED <<section, up, now>>
  BY DEF Pass, AllPassed, JoinerPasses
<1>2. /\ job[c] \in Job /\ job[c].todo \in SUBSET Member /\ job[c].reach \in SUBSET Member
      /\ job[c].who \in Member
  BY <1>1, SectionFacts DEF DueInv, FanInv, Named
<1>3. Due(pc[c], job[c], section, Reachable(c))
  BY DEF DueInv, OnTime
<1>4. CASE Pass(c)
  <2> DEFINE S == job[c].todo \ {First(job[c].todo)}
             j == WithTodo(job[c], S)
  <2>1. pc[c] = "gate" /\ Enter(c, "gate", j) /\ S \in SUBSET Member
    BY <1>2, <1>4 DEF Pass
  <2> HIDE DEF S
  <2>2. /\ j \in Job /\ j.act = job[c].act /\ j.who = job[c].who /\ j.view = job[c].view
        /\ j.reach = job[c].reach /\ j.self = job[c].self
    BY <1>2, <2>1, TodoTyped
  <2> HIDE DEF j
  <2>3. Due("gate", j, section', Reachable(c))
    BY <1>1, <1>3, <2>1, <2>2 DEF Due, Joiner
  <2> QED
    BY <1>1, <2>1, <2>2, <2>3, AloneOnTime DEF Phase
<1>5. CASE AllPassed(c)
  <2> DEFINE j == WithTodo(job[c], job[c].reach)
  <2>1. pc[c] = "gate" /\ Enter(c, "write", j)
    BY <1>5 DEF AllPassed
  <2>2. /\ j \in Job /\ j.act = job[c].act /\ j.who = job[c].who /\ j.view = job[c].view
        /\ j.todo = job[c].reach /\ j.self = job[c].self
    BY <1>2, TodoTyped
  <2> HIDE DEF j
  <2>3. Due("write", j, section', Reachable(c))
    BY <1>1, <1>3, <2>1, <2>2 DEF Due, Joiner
  <2> QED
    BY <1>1, <2>1, <2>2, <2>3, AloneOnTime DEF Phase
<1>6. CASE JoinerPasses(c)
  <2> DEFINE j == ForJoiner(job[c])
  <2>1. pc[c] = "write" /\ job[c].self /\ job[c].todo = {} /\ Enter(c, "write", j)
    BY <1>6 DEF JoinerPasses
  <2>2. /\ j \in Job /\ j.act = job[c].act /\ j.who = job[c].who /\ j.view = job[c].view
        /\ j.todo = {job[c].who} /\ j.self = FALSE
    BY <1>2, JoinerTyped
  <2> HIDE DEF j
  <2>3. Due("write", j, section', Reachable(c))
    BY <1>1, <1>3, <2>1, <2>2 DEF Due, Joiner
  <2> QED
    BY <1>1, <2>1, <2>2, <2>3, AloneOnTime DEF Phase
<1> QED
  BY <1>4, <1>5, <1>6

LEMMA WriteOnTime ==
  ASSUME DueInv, FanInv', NEW c \in Client, Write(c)
  PROVE  DueInv'
<1> DEFINE m == First(job[c].todo)
           j == WithTodo(job[c], job[c].todo \ {m})
<1>1. m \in Member /\ m \in job[c].todo /\ section' = [section EXCEPT ![m] = View(c)]
  BY WriteIsLater, FirstIn DEF DueInv, Write
<1>2. pc[c] = "write" /\ UNCHANGED <<up, now>> /\ Enter(c, "write", j)
  BY DEF Write
<1>3. /\ job[c] \in Job /\ View(c) = job[c].view /\ job[c].todo \in SUBSET Member
      /\ section \in [Member -> Section] /\ job[c].who \in Member
  BY <1>2, SectionFacts DEF DueInv, FanInv, TypeOK, Named
<1>4. job[c].act = "init" => m = job[c].who
  BY <1>1, <1>2 DEF DueInv, FanInv, Ready, Fit
<1>5. Due("write", job[c], section, Reachable(c))
  BY <1>2 DEF DueInv, OnTime
<1>6. job[c].todo \ {m} \in SUBSET Member
  BY <1>3
<1> HIDE DEF m
<1>7. /\ j \in Job /\ j.act = job[c].act /\ j.who = job[c].who /\ j.view = job[c].view
      /\ j.todo = job[c].todo \ {m} /\ j.self = job[c].self
  BY <1>3, <1>6, TodoTyped
<1> HIDE DEF j
<1>8. ASSUME NEW x \in (Active(j.view.rows) \cap Reachable(c)) \ (j.todo \cup Joiner(j))
      PROVE  section'[x] = j.view
  <2>1. x \in Member
    BY DEF Active
  <2>2. x # m => section[x] = job[c].view
    BY <1>5, <1>7, <1>8 DEF Due, Joiner
  <2> QED
    BY <1>1, <1>3, <1>7, <2>1, <2>2
<1>9. ASSUME j.act = "init", NEW n \in Member \ {j.who} PROVE section'[n].id # j.view.id
  BY <1>1, <1>3, <1>4, <1>5, <1>7, <1>9 DEF Due
<1>10. Due("write", j, section', Reachable(c))
  BY <1>8, <1>9 DEF Due
<1> QED
  BY <1>2, <1>7, <1>10, AloneOnTime DEF Phase

LEMMA StepOnTime == ASSUME OneByOne PROVE DueInv /\ [Next]_vars => DueInv'
<1> SUFFICES ASSUME DueInv, [Next]_vars PROVE DueInv'
  OBVIOUS
<1>1. FanInv'
  BY StepFits DEF DueInv
<1>2. ASSUME NEW c \in Client,
             GiveUp(c) \/ Refuse(c) \/ JoinerRefuses(c) \/ Finish(c) \/ Abandon(c)
      PROVE  DueInv'
  BY <1>1, <1>2, LeaveOnTime DEF GiveUp, Refuse, JoinerRefuses, Finish, Abandon
<1>3. ASSUME NEW c \in Client, Step(c) PROVE DueInv'
  BY <1>1, <1>2, <1>3, FoundOnTime, BeginOnTime, ReadOnTime, PlanOnTime, GateOnTime,
     WriteOnTime DEF Step
<1>4. ASSUME NEW m \in Member, Weather(m) PROVE DueInv'
  <2>1. \A c \in Client : pc[c] = "idle"
    BY <1>4 DEF Weather, OneByOne, Quiet, Idle
  <2> QED
    BY <1>1, <1>4, <2>1 DEF Weather, DueInv, OnTime, Due
<1>5. CASE UNCHANGED vars
  <2>1. UNCHANGED <<section, up, now, pc, job>>
    BY <1>5 DEF vars
  <2> QED
    BY <1>1, <2>1 DEF DueInv, OnTime, Reachable
<1> QED
  BY <1>3, <1>4, <1>5 DEF Next

THEOREM DueInductive == OneByOne => (Spec => []DueInv)
<1> SUFFICES ASSUME OneByOne PROVE Spec => []DueInv
  OBVIOUS
<1>1. Init => DueInv
  BY InitFits DEF Init, DueInv, OnTime, Due
<1>2. DueInv /\ [Next]_vars => DueInv'
  BY StepOnTime
<1> QED
  BY <1>1, <1>2, PTL DEF Spec

LEMMA FinishConverges ==
  ASSUME DueInv, NEW c \in Client, Finish(c),
         NEW m \in Active(View(c).rows) \cap Reachable(c), NEW n \in Reachable(c)
  PROVE  /\ Sig(section[m]) = Sig(View(c))
         /\ section[n].id = View(c).id =>
              \A x \in Member : ~Beats(section[n].rows[x], section[m].rows[x])
<1>1. pc[c] = "write" /\ job[c].todo = {} /\ ~job[c].self
  BY DEF Finish
<1>2. View(c) = job[c].view /\ Reachable(c) \in SUBSET Member /\ job[c].who \in Member
  BY <1>1, SectionFacts DEF DueInv, FanInv, Named
<1>3. Due("write", job[c], section, Reachable(c))
  BY <1>1 DEF DueInv, OnTime
<1>4. section[m] = View(c)
  BY <1>1, <1>2, <1>3 DEF Due, Joiner
<1>5. Fit("write", job[c], section, now, Reachable(c))
  BY <1>1 DEF DueInv, FanInv, Ready
<1>6. ASSUME section[n].id = View(c).id PROVE Past(section[n], View(c))
  <2>1. n \in Scope("write", job[c], Reachable(c))
    BY <1>2, <1>3, <1>6 DEF Scope, Due
  <2> QED
    BY <1>2, <1>5, <2>1 DEF Fit
<1> QED
  BY <1>4, <1>6 DEF Past, Le

(* A change that succeeds brings every member it reaches up to date with   *)
(* all that any catalog within reach knows, so also with the changes that  *)
(* member missed while it was away.                                        *)
THEOREM ChangeConvergesHolds == OneByOne => (Spec => ChangeConverges)
<1> SUFFICES ASSUME OneByOne PROVE Spec => ChangeConverges
  OBVIOUS
<1>1. DueInv /\ [Next]_vars
        => [\A c \in Client : Finish(c) =>
              \A m \in Active(View(c).rows) \cap Reachable(c), n \in Reachable(c) :
                /\ Sig(section[m]) = Sig(View(c))
                /\ section[n].id = View(c).id =>
                     \A x \in Member : ~Beats(section[n].rows[x], section[m].rows[x])]_vars
  BY FinishConverges
<1> QED
  BY DueInductive, <1>1, PTL DEF Spec, ChangeConverges

(* One wrong password leaves the roster untouched everywhere: all are asked *)
(* before any is written.                                                   *)
THEOREM RefusalHolds == OneByOne => (Spec => RefusedTouchesNothing)
<1> SUFFICES ASSUME OneByOne PROVE Spec => RefusedTouchesNothing
  OBVIOUS
<1>1. ASSUME DueInv, NEW c \in Client, Refuse(c), NEW m \in job[c].reach
      PROVE  section[m].rows[job[c].who] # View(c).rows[job[c].who]
  <2>1. pc[c] = "gate" /\ View(c) = job[c].view
    BY <1>1 DEF Refuse, Gating, View
  <2> QED
    BY <1>1, <2>1 DEF DueInv, OnTime, Due
<1>2. DueInv /\ [Next]_vars
        => [\A c \in Client : Refuse(c) =>
              \A m \in job[c].reach : section[m].rows[job[c].who] # View(c).rows[job[c].who]]_vars
  BY <1>1
<1> QED
  BY DueInductive, <1>2, PTL DEF Spec, RefusedTouchesNothing
=============================================================================
