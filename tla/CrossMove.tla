------------------------------ MODULE CrossMove ------------------------------
(***************************************************************************)
(* vault mv between members of a federation (mvCross), for one file: an    *)
(* intent on the log of the source and one on the log of the destination,  *)
(* the bytes from node to node, the row at the destination, done there,    *)
(* the row at the source, done there.  Each of these is a step, and the    *)
(* command may die between any two.  The completed record at the source    *)
(* then forwards readers to the destination (Resolver).                    *)
(*                                                                         *)
(* Logs are used as OpJournal promises them.  vault rm is here in one      *)
(* step (VaultNode takes it apart), and the bytes do not change.           *)
(***************************************************************************)
EXTENDS Naturals, Sequences

CONSTANTS Client,   \* processes that run tailvault commands
          Member,   \* members of the federation
          Path,     \* paths a member may keep the file at
          MaxOps,   \* bound: records on one log, beside one removal
          Late,     \* is a move asked for again once it is done, or once the
                    \* destination has gone on to something else?
          Retries,  \* is ops retry used on moves between members?
          Misnamed, \* the path a retried source record gives the file: a member's name
          Blank,    \* the path a retried destination record gives it: none
          NoMove,
          Gone

(* A move, from a path to a path. *)
Move == [from: Member, to: Member, src: Path \cup {Misnamed}, path: Path]

ASSUME CrossMoveAssumption ==
  /\ MaxOps \in Nat
  /\ Late \in BOOLEAN /\ Retries \in BOOLEAN
  /\ Misnamed \notin Path /\ Blank \notin Path /\ Misnamed # Blank
  /\ NoMove \notin Move \cup Member /\ Gone \notin Member

Place == Path \cup {Misnamed, Blank}

(* On a log: "out" at the source, "in" at the destination; a removal. *)
Entry == [op: Move \cup {NoMove}, role: {"out", "in", "rm"}, state: {"intent", "done"}]

Phase == {"idle", "out", "in", "transfer", "arrive", "inDone", "reread",
          "depart", "outDone", "rewrite", "mark"}

(* What a client has in hand: its move, a catalog it read, a record to retry. *)
Job   == [op: Move \cup {NoMove}, cat: SUBSET Place, at: Member \cup {NoMove}, n: Nat]
NoJob == [op |-> NoMove, cat |-> {}, at |-> NoMove, n |-> 0]

VARIABLES rows,     \* of each catalog: the paths it lists the file at
          objects,  \* the members that store its bytes
          log,      \* the log of each member
          pc, job   \* where each client is, and with what

nodes == <<rows, objects, log>>
moveVars == <<rows, objects, log, pc, job>>

-----------------------------------------------------------------------------
(* The file has been put at one member. *)
MoveInit ==
  /\ \E m \in Member, p \in Path :
       /\ rows = [k \in Member |-> IF k = m THEN {p} ELSE {}]
       /\ objects = {m}
  /\ log = [m \in Member |-> << >>]
  /\ pc = [c \in Client |-> "idle"]
  /\ job = [c \in Client |-> NoJob]

Goto(c, p) == pc' = [pc EXCEPT ![c] = p]

(* The command ends, fails, or its process dies. *)
Leave(c) == Goto(c, "idle") /\ job' = [job EXCEPT ![c] = NoJob]

(* A catalog with an empty path in it cannot be parsed. *)
Readable(m) == Blank \notin rows[m]

(* The op id of a move: source, destination, and the path there. *)
Records(e, o) ==
  e.role # "rm" /\ e.op.from = o.from /\ e.op.to = o.to /\ e.op.path = o.path

Recorded(m, o) == \E n \in DOMAIN log[m] : Records(log[m][n], o)
Index(m, o)    == CHOOSE n \in DOMAIN log[m] : Records(log[m][n], o)
Finished(m, o) == Recorded(m, o) /\ log[m][Index(m, o)].state = "done"

(* Every operation names the one file: a pending one locks it. *)
Busy(m) == \E n \in DOMAIN log[m] : log[m][n].state = "intent"

Room(m) == Len(log[m]) < MaxOps

Removed == \E m \in Member : \E n \in DOMAIN log[m] : log[m][n].role = "rm"

-----------------------------------------------------------------------------
(* A move that is begun for the first time, or taken up where it was cut    *)
(* short, when nothing else has happened at the destination since.          *)
Timely(o) ==
  /\ ~Finished(o.from, o)
  /\ Recorded(o.to, o) => Index(o.to, o) = Len(log[o.to])

(* vault mv: resolve the source, read the destination's catalog; a          *)
(* destination that exists is refused (or gets another path).               *)
Mv(c, o) ==
  /\ pc[c] = "idle"
  /\ o.from # o.to
  /\ Readable(o.from) /\ o.src \in rows[o.from]
  /\ Readable(o.to) /\ o.path \notin rows[o.to]
  /\ Late \/ Timely(o)
  /\ Goto(c, "out")
  /\ job' = [job EXCEPT ![c] = [NoJob EXCEPT !.op = o, !.cat = rows[o.to]]]
  /\ UNCHANGED nodes

(* Mutant: a pending operation at the destination does not keep the move out. *)
AnnounceAnyway(m, o, role) ==
  \/ Recorded(m, o) /\ UNCHANGED log
  \/ /\ ~Recorded(m, o) /\ Room(m)
     /\ log' = [log EXCEPT ![m] = Append(@, [op |-> o, role |-> role, state |-> "intent"])]

(* An intent on the log of m.  One that is there is taken up again, in      *)
(* whatever state (ErrDuplicateOp).                                         *)
Announce(m, o, role) ==
  \/ Recorded(m, o) /\ UNCHANGED log
  \/ /\ ~Recorded(m, o) /\ ~Busy(m) /\ Room(m)
     /\ log' = [log EXCEPT ![m] = Append(@, [op |-> o, role |-> role, state |-> "intent"])]

OutIntent(c) ==
  /\ pc[c] = "out"
  /\ Announce(job[c].op.from, job[c].op, "out")
  /\ Goto(c, "in")
  /\ UNCHANGED <<rows, objects, job>>

(* Mutant: the bytes are taken to be there. *)
InIntentOnly(c) ==
  /\ pc[c] = "in"
  /\ Announce(job[c].op.to, job[c].op, "in")
  /\ Goto(c, "arrive")
  /\ UNCHANGED <<rows, objects, job>>

InIntent(c) ==
  /\ pc[c] = "in"
  /\ Announce(job[c].op.to, job[c].op, "in")
  /\ Goto(c, "transfer")
  /\ UNCHANGED <<rows, objects, job>>

(* Mutant: the source lets go first. *)
TransferAndLeave(c) ==
  /\ pc[c] = "transfer"
  /\ job[c].op.from \in objects
  /\ objects' = objects \cup {job[c].op.to}
  /\ rows' = [rows EXCEPT ![job[c].op.from] = @ \ {job[c].op.src}]
  /\ Goto(c, "arrive")
  /\ UNCHANGED <<log, job>>

(* From node to node, then hashed at the destination. *)
Transfer(c) ==
  /\ pc[c] = "transfer"
  /\ job[c].op.from \in objects
  /\ objects' = objects \cup {job[c].op.to}
  /\ Goto(c, "arrive")
  /\ UNCHANGED <<rows, log, job>>

(* The row at the destination, into the catalog read at the very start. *)
Arrive(c) ==
  /\ pc[c] = "arrive"
  /\ rows' = [rows EXCEPT ![job[c].op.to] = job[c].cat \cup {job[c].op.path}]
  /\ Goto(c, "inDone")
  /\ UNCHANGED <<objects, log, job>>

Closed(m, n) == [log EXCEPT ![m][n].state = "done"]

InDone(c) ==
  /\ pc[c] = "inDone"
  /\ log' = Closed(job[c].op.to, Index(job[c].op.to, job[c].op))
  /\ Goto(c, "reread")
  /\ UNCHANGED <<rows, objects, job>>

(* The catalog of the source is read again, *)
Reread(c) ==
  /\ pc[c] = "reread" /\ Readable(job[c].op.from)
  /\ job' = [job EXCEPT ![c].cat = rows[job[c].op.from]]
  /\ Goto(c, "depart")
  /\ UNCHANGED nodes

(* Mutant: the row stays. *)
DepartNot(c) ==
  /\ pc[c] = "depart"
  /\ Goto(c, "outDone")
  /\ UNCHANGED <<nodes, job>>

(* Mutant: the bytes go with the row. *)
DepartWithBytes(c) ==
  /\ pc[c] = "depart"
  /\ rows' = [rows EXCEPT ![job[c].op.from] = job[c].cat \ {job[c].op.src}]
  /\ objects' = objects \ {job[c].op.from}
  /\ Goto(c, "outDone")
  /\ UNCHANGED <<log, job>>

(* and the row taken out of it. *)
Depart(c) ==
  /\ pc[c] = "depart"
  /\ rows' = [rows EXCEPT ![job[c].op.from] = job[c].cat \ {job[c].op.src}]
  /\ Goto(c, "outDone")
  /\ UNCHANGED <<objects, log, job>>

OutDone(c) ==
  /\ pc[c] = "outDone"
  /\ log' = Closed(job[c].op.from, Index(job[c].op.from, job[c].op))
  /\ Leave(c)
  /\ UNCHANGED <<rows, objects>>

-----------------------------------------------------------------------------
(* vault rm where the file is found; not while an operation holds it. *)
Rm(c, m) ==
  /\ pc[c] = "idle" /\ Readable(m)
  /\ ~Busy(m) /\ (Room(m) \/ ~Removed)
  /\ \E p \in rows[m] :
       /\ rows' = [rows EXCEPT ![m] = @ \ {p}]
       /\ objects' = IF rows[m] = {p} THEN objects \ {m} ELSE objects
  /\ log' = [log EXCEPT ![m] = Append(@, [op |-> NoMove, role |-> "rm", state |-> "done"])]
  /\ UNCHANGED <<pc, job>>

-----------------------------------------------------------------------------
(* ops retry of a move that was cut short, on one member: the catalog is    *)
(* read, the record applied as if it were a rename within the member, and   *)
(* the record marked done.                                                  *)
Retry(c, m, n) ==
  /\ Retries
  /\ pc[c] = "idle" /\ Readable(m)
  /\ log[m][n].state = "intent"
  /\ Goto(c, "rewrite")
  /\ job' = [job EXCEPT ![c] = [NoJob EXCEPT !.cat = rows[m], !.at = m, !.n = n]]
  /\ UNCHANGED nodes

(* Mutant: at the destination, where no path is given, there is none to take. *)
RenamedToNone(k, role) == IF k = {} THEN {} ELSE {IF role = "out" THEN Misnamed ELSE NoMove}

(* The row found by its id gets the path in args["to"]: at the source that  *)
(* is the name of a member, at the destination there is none.               *)
Renamed(k, role) == IF k = {} THEN {} ELSE {IF role = "out" THEN Misnamed ELSE Blank}

RetryWrite(c) ==
  /\ pc[c] = "rewrite"
  /\ rows' = [rows EXCEPT ![job[c].at] = Renamed(job[c].cat, log[job[c].at][job[c].n].role)]
  /\ Goto(c, "mark")
  /\ UNCHANGED <<objects, log, job>>

RetryDone(c) ==
  /\ pc[c] = "mark"
  /\ log' = Closed(job[c].at, job[c].n)
  /\ Leave(c)
  /\ UNCHANGED <<rows, objects>>

-----------------------------------------------------------------------------
(* A process dies or gives up: refused by a log, a member that does not     *)
(* answer, bytes that are not there.                                        *)
Crash(c) ==
  /\ pc[c] # "idle"
  /\ Leave(c)
  /\ UNCHANGED nodes

Command(c) ==
  \/ \E o \in Move : Mv(c, o)
  \/ \E m \in Member : Rm(c, m)
  \/ \E m \in Member : \E n \in DOMAIN log[m] : Retry(c, m, n)

Progress(c) ==
  \/ OutIntent(c) \/ InIntent(c) \/ Transfer(c) \/ Arrive(c) \/ InDone(c)
  \/ Reread(c) \/ Depart(c) \/ OutDone(c)
  \/ RetryWrite(c) \/ RetryDone(c)

MoveNext == \E c \in Client : Command(c) \/ Progress(c) \/ Crash(c)

MoveSpec == MoveInit /\ [][MoveNext]_moveVars

-----------------------------------------------------------------------------
(* Catalogs list paths, or what a retried record of a move makes of one.    *)
MoveTypeOK ==
  /\ rows \in [Member -> SUBSET Place]
  /\ objects \in SUBSET Member
  /\ log \in [Member -> Seq(Entry)]
  /\ pc \in [Client -> Phase]
  /\ job \in [Client -> Job]

Holds(m) == rows[m] # {}

(* A member that lists the file still, with a move out of it under way that *)
(* has put the row at the destination: the file has left.                   *)
Left(m) ==
  \E n \in DOMAIN log[m] :
    LET e == log[m][n] IN
    /\ e.role = "out" /\ e.state = "intent"
    /\ Recorded(e.op.to, e.op)
    /\ Finished(e.op.to, e.op) \/ Holds(e.op.to)

Live == {m \in Member : Holds(m) /\ ~Left(m)}

(* Never two live homes, and never none: a second row is that of a move     *)
(* between its two catalog writes, or cut short there, and says so on the   *)
(* log; the file is gone only when it was removed.                          *)
OneHome ==
  /\ \A m, k \in Live : m = k
  /\ Live = {} => Removed

(* Whatever is retried, asked for again or cut short: whoever lists the     *)
(* file can serve it, and somebody does until it is removed.                *)
NeverLost ==
  /\ \A m \in Member : Holds(m) => m \in objects
  /\ Removed \/ \E m \in Member : Holds(m)

Home == IF Live = {} THEN Gone ELSE CHOOSE m \in Live : TRUE

H == INSTANCE FileHome WITH home <- Home

(* To anybody who counts live homes, a move is one step. *)
HomeSpec == H!HSpec
=============================================================================
