-------------------------------- MODULE Roster --------------------------------
(***************************************************************************)
(* Federation membership.  Every member's catalog has a [federation]       *)
(* section with the whole roster; fed init, join, leave and evict read the *)
(* sections they can reach, merge them, change one row and write the       *)
(* result into the catalog of every active member they can reach, one      *)
(* after the other.  Nothing but the next change brings a member up to     *)
(* date that was out of reach.                                             *)
(*                                                                         *)
(* A catalog's files are left out: a roster write keeps them.  So is the   *)
(* roster operation each write records in the member's log: it locks       *)
(* nothing, is taken up again whatever its state, and ops retry refuses    *)
(* it.  A member's password is its verdict, which may be either.           *)
(***************************************************************************)
EXTENDS Integers

CONSTANTS Client, Member, Fed, None,
          Known,    \* the members in each client's locations.toml
          Gated,    \* the members with a password (those reached by SSH)
          Sponsors, \* the members a join may name with --via
          MaxTime,  \* bound: changes; the clock counts them
          Alone,    \* does a command start only when no other runs?
          Steady    \* does a member come and go only when no command runs?

ASSUME RosterAssumption ==
  /\ Known \in [Client -> SUBSET Member]
  /\ Gated \subseteq Member /\ Sponsors \subseteq Member
  /\ None \notin Fed \cup Member
  /\ MaxTime \in Nat /\ Alone \in BOOLEAN /\ Steady \in BOOLEAN

Action == {"init", "join", "leave", "evict"}
Status == {"active", "left", "evicted"}

Row   == [at: 1 .. MaxTime, status: Status]
NoRow == [at |-> 0, status |-> "active"]       \* older than every row

Rows    == [Member -> Row \cup {NoRow}]
NoRows  == [m \in Member |-> NoRow]
Section == [id: Fed \cup {None}, rows: Rows]
Nothing == [id |-> None, rows |-> NoRows]

Phase == {"idle", "load", "gate", "write"}

(* What a command has in memory: what it does to whom, the roster it read  *)
(* and then the one it writes, the members still to visit, and those it    *)
(* found reachable; join has its own member to write last.                 *)
Job == [act: Action \cup {None}, who: Member \cup {None}, view: Section,
        todo: SUBSET Member, reach: SUBSET Member, self: BOOLEAN]

NoJob == [act |-> None, who |-> None, view |-> Nothing, todo |-> {}, reach |-> {},
          self |-> FALSE]

VARIABLES
  section,  \* the [federation] section of each member's catalog
  up,       \* the members that answer
  now,      \* the clock
  pc, job

vars == <<section, up, now, pc, job>>

Init ==
  /\ section = [m \in Member |-> Nothing]
  /\ up = Member
  /\ now = 0
  /\ pc = [c \in Client |-> "idle"]
  /\ job = [c \in Client |-> NoJob]

Idle(c)   == pc[c] = "idle"
Quiet     == \A c \in Client : Idle(c)
Reachable(c) == Known[c] \cap up

(* Members are visited in a fixed order, in the code that of their names. *)
First(S) == CHOOSE m \in S : TRUE

-----------------------------------------------------------------------------
(* Rosters. *)

Rank(s) == IF s = "evicted" THEN 2 ELSE IF s = "left" THEN 1 ELSE 0

(* memberWins: the later join; of one join, what is final. *)
Beats(x, y) == x.at > y.at \/ (x.at = y.at /\ Rank(x.status) > Rank(y.status))

Listed(rows, m) == rows[m] # NoRow

(* Mutant: of two rows the one read last counts. *)
MergeLast(r, s) == [m \in Member |-> IF Listed(s, m) THEN s[m] ELSE r[m]]

MergeRows(r, s) == [m \in Member |-> IF Beats(s[m], r[m]) THEN s[m] ELSE r[m]]

(* Mutant: the id of the section read last. *)
AgreeAlways(v, s) == TRUE

Agree(v, s) == v.id \in {None, s.id}

(* Mutant: any one roster will do, as they are replicas. *)
MergeAny(v, s) == IF v.id = None THEN s ELSE v

Merge(v, s) == [id |-> s.id, rows |-> MergeRows(v.rows, s.rows)]

Active(rows)    == {m \in Member : Listed(rows, m) /\ rows[m].status = "active"}

(* rosterSig: the federation, and who has which status. *)
Sig(s) == [id |-> s.id, of |-> [m \in Member |-> IF Listed(s.rows, m) THEN s.rows[m].status
                                                 ELSE None]]

WithStatus(rows, m, st) == [rows EXCEPT ![m] = [at |-> @.at, status |-> st]]

(* Mutant: a status the roster does not know. *)
WithMemberJoined(rows, m, t) == [rows EXCEPT ![m] = [at |-> t, status |-> "joined"]]

WithMember(rows, m, t) == [rows EXCEPT ![m] = [at |-> t, status |-> "active"]]

-----------------------------------------------------------------------------
(* A command reads the rosters. *)

Enter(c, ph, j) == pc' = [pc EXCEPT ![c] = ph] /\ job' = [job EXCEPT ![c] = j]

Leave(c) == Enter(c, "idle", NoJob)     \* whatever the outcome

MayStart(c) == Idle(c) /\ (Alone => Quiet)

Minted(m, s) ==
  [NoJob EXCEPT !.act = "init", !.who = m, !.todo = {m}, !.reach = {m}, !.view = s]

(* fed init reads only its own member, and mints a new id. *)
InitFed(c, m, f) ==
  /\ MayStart(c) /\ m \in Reachable(c) /\ section[m].id = None /\ now < MaxTime
  /\ \A n \in Member : section[n].id # f
  /\ \A d \in Client : job[d].view.id # f
  /\ now' = now + 1
  /\ Enter(c, "write",
           Minted(m, [id |-> f, rows |-> WithMember(NoRows, m, now + 1)]))
  /\ UNCHANGED <<section, up>>

Asked(act, m, from) == [NoJob EXCEPT !.act = act, !.who = m, !.todo = from]

(* The others read every catalog they know; join can be told to read that  *)
(* of a sponsor only.  join has found the joiner's catalog there.          *)
Begin(c, act, m) ==
  /\ MayStart(c) /\ act # "init"
  /\ act = "join" => m \in Reachable(c)
  /\ \/ Enter(c, "load", Asked(act, m, Known[c]))
     \/ /\ act = "join"
        /\ \E s \in Sponsors : Enter(c, "load", Asked(act, m, {s}))
  /\ UNCHANGED <<section, up, now>>

View(c) == job[c].view

Viewed(j, m, s) == [j EXCEPT !.todo = @ \ {m}, !.view = s]

(* A member that does not answer, or has no federation, is passed over; a  *)
(* second federation ends the command.                                     *)
ReadRoster(c) ==
  LET m == First(job[c].todo)
  IN  /\ pc[c] = "load" /\ job[c].todo # {}
      /\ IF m \notin Reachable(c) \/ section[m].id = None
           THEN Enter(c, "load", Viewed(job[c], m, View(c)))
         ELSE IF Agree(View(c), section[m])
           THEN Enter(c, "load", Viewed(job[c], m, Merge(View(c), section[m])))
         ELSE Leave(c)
      /\ UNCHANGED <<section, up, now>>

-----------------------------------------------------------------------------
(* It decides what to change. *)

Loaded(c) == pc[c] = "load" /\ job[c].todo = {}

(* Nothing to do: a member that is active already joins, one that is not   *)
(* active leaves or is evicted.                                            *)
AlreadySo(c) ==
  /\ View(c).id # None
  /\ IF job[c].act = "join" THEN job[c].who \in Active(View(c).rows)
     ELSE Listed(View(c).rows, job[c].who) /\ job[c].who \notin Active(View(c).rows)

(* No roster found, not a member, or the member to evict answers.          *)
Refused(c) ==
  \/ View(c).id = None
  \/ job[c].act # "join" /\ ~Listed(View(c).rows, job[c].who)
  \/ job[c].act = "evict" /\ job[c].who \in Reachable(c)

GiveUp(c) ==
  /\ Loaded(c) /\ (AlreadySo(c) \/ Refused(c)) /\ Leave(c)
  /\ UNCHANGED <<section, up, now>>

Changed(c) ==
  LET rows == View(c).rows
      m    == job[c].who
  IN  IF job[c].act = "join" THEN WithMember(rows, m, now + 1)
      ELSE WithStatus(rows, m, IF job[c].act = "leave" THEN "left" ELSE "evicted")

(* Active members of the roster that was read, but for an evicted one. *)
Targets(c) == Active(View(c).rows) \ {m \in Member : job[c].act = "evict" /\ m = job[c].who}

Planned(j, rows, reach) ==
  [j EXCEPT !.view = [id |-> @.id, rows |-> rows], !.todo = reach, !.reach = reach,
            !.self = (j.act = "join")]

(* Targets out of reach are reported pending, which leaves no trace.       *)
Plan(c) ==
  /\ Loaded(c) /\ ~AlreadySo(c) /\ ~Refused(c)
  /\ now < MaxTime
  /\ now' = now + 1
  /\ Enter(c, "gate", Planned(job[c], Changed(c), Targets(c) \cap Reachable(c)))
  /\ UNCHANGED <<section, up>>

-----------------------------------------------------------------------------
(* It asks every reachable target for the password, then writes them all.  *)

(* Mutant: each target is asked when its turn to be written comes. *)
GatingLate(c) == pc[c] \in {"gate", "write"} /\ job[c].todo # {}

Gating(c) == pc[c] = "gate" /\ job[c].todo # {}

WithTodo(j, s) == [j EXCEPT !.todo = s]

Pass(c) ==
  LET m == First(job[c].todo)
  IN  /\ pc[c] = "gate" /\ job[c].todo # {} /\ m \in Reachable(c)
      /\ Enter(c, "gate", WithTodo(job[c], job[c].todo \ {m}))
      /\ UNCHANGED <<section, up, now>>

Refuse(c) ==
  /\ Gating(c) /\ First(job[c].todo) \in Gated
  /\ Leave(c)
  /\ UNCHANGED <<section, up, now>>

AllPassed(c) ==
  /\ pc[c] = "gate" /\ job[c].todo = {}
  /\ Enter(c, "write", WithTodo(job[c], job[c].reach))
  /\ UNCHANGED <<section, up, now>>

(* Only the section is replaced, and by all of the roster. *)
Write(c) ==
  LET m == First(job[c].todo)
  IN  /\ pc[c] = "write" /\ job[c].todo # {} /\ m \in Reachable(c)
      /\ section' = [section EXCEPT ![m] = View(c)]
      /\ Enter(c, "write", WithTodo(job[c], job[c].todo \ {m}))
      /\ UNCHANGED <<up, now>>

(* The joiner comes last: its password is asked when the others are        *)
(* written.                                                                *)
ForJoiner(j) == [j EXCEPT !.self = FALSE, !.todo = {j.who}]

JoinerPasses(c) ==
  /\ pc[c] = "write" /\ job[c].todo = {} /\ job[c].self
  /\ Enter(c, "write", ForJoiner(job[c]))
  /\ UNCHANGED <<section, up, now>>

JoinerRefuses(c) ==
  /\ pc[c] = "write" /\ job[c].todo = {} /\ job[c].self /\ job[c].who \in Gated
  /\ Leave(c)
  /\ UNCHANGED <<section, up, now>>

Finish(c) ==
  /\ pc[c] = "write" /\ job[c].todo = {} /\ ~job[c].self
  /\ Leave(c)
  /\ UNCHANGED <<section, up, now>>

(* Killed, or an error of a call. *)
Abandon(c) ==
  /\ ~Idle(c) /\ Leave(c)
  /\ UNCHANGED <<section, up, now>>

-----------------------------------------------------------------------------
GoesDown(m) == m \in up /\ up' = up \ {m}
ComesUp(m)  == m \notin up /\ up' = up \cup {m}

Weather(m) ==
  /\ Steady => Quiet
  /\ GoesDown(m) \/ ComesUp(m)
  /\ UNCHANGED <<section, now, pc, job>>

Step(c) ==
  \/ \E m \in Member : \/ \E f \in Fed : InitFed(c, m, f)
                       \/ \E act \in Action : Begin(c, act, m)
  \/ ReadRoster(c) \/ GiveUp(c) \/ Plan(c)
  \/ Pass(c) \/ Refuse(c) \/ AllPassed(c) \/ Write(c)
  \/ JoinerPasses(c) \/ JoinerRefuses(c) \/ Finish(c) \/ Abandon(c)

Next == (\E c \in Client : Step(c)) \/ (\E m \in Member : Weather(m))

Spec == Init /\ [][Next]_vars
-----------------------------------------------------------------------------
(* Properties. *)

(* Types. *)
TypeOK ==
  /\ section \in [Member -> Section]
  /\ up \subseteq Member
  /\ now \in 0 .. MaxTime
  /\ pc \in [Client -> Phase]
  /\ job \in [Client -> Job]

(* A member that left or was evicted stays so in every catalog that knows, *)
(* until it joins anew: no roster write takes any row of any catalog back  *)
(* to an earlier join, or from departed to active.                         *)
RowsGrow ==
  [][\A m, x \in Member : ~Beats(section[m].rows[x], section'[m].rows[x])]_vars

(* Federations do not mix: a catalog in one is never written by another.   *)
OneFederation ==
  [][\A m \in Member : section[m].id \in {None, section'[m].id}]_vars

(* A change that succeeds brings every member it reached up to date with   *)
(* all changes any catalog within reach knows of, those included it had    *)
(* missed while it was away.                                               *)
ChangeConverges ==
  [][\A c \in Client : Finish(c) =>
       \A m \in Active(View(c).rows) \cap Reachable(c), n \in Reachable(c) :
         /\ Sig(section[m]) = Sig(View(c))
         /\ section[n].id = View(c).id =>
              \A x \in Member : ~Beats(section[n].rows[x], section[m].rows[x])]_vars

(* One wrong password leaves the roster untouched everywhere: when a       *)
(* target refuses, no reachable target has the change.                     *)
RefusedTouchesNothing ==
  [][\A c \in Client : Refuse(c) =>
       \A m \in job[c].reach : section[m].rows[job[c].who] # View(c).rows[job[c].who]]_vars
=============================================================================
