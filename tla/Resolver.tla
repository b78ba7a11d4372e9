------------------------------- MODULE Resolver -------------------------------
(***************************************************************************)
(* Where does the file live now, and what may be concluded from who        *)
(* answered?  One resolution (Resolve, fanout, follow, and the Query of    *)
(* every member) beside the moves of CrossMove: a member's catalog and its *)
(* log are read one after the other, members are read in any order, and    *)
(* moves go on between the reads.                                          *)
(*                                                                         *)
(* A reader changes nothing, so one resolution, begun at any time, stands  *)
(* for all.                                                                *)
(***************************************************************************)
EXTENDS CrossMove, FiniteSets

CONSTANTS MaxHops,       \* maxMoveHops
          MaxMoves,      \* bound: moves begun while the reader is at work
          Share          \* the members that are mounted shares (Taildrive)

ASSUME ResolverAssumption ==
  /\ MaxHops \in Nat \ {0} /\ MaxMoves \in Nat
  /\ Share \subseteq Member

VARIABLES dark,     \* the shares that are not mounted where the reader runs
          stage,    \* where the reader is
          toAsk,    \* members that answered the probe, with their catalog unread
          toTell,   \* members whose catalog does not list the file, log unread
          held,     \* the members whose catalog lists the file
          pointer,  \* the forwarding pointers to follow: <<member, destination>>
          moving,   \* has one of these members reported a pending move?
          chain,    \* the members visited on the chain of one pointer
          dest,     \* the member it leads to
          whole,    \* have all members answered?
          verdict,
          where,    \* the member it was found at
          begun     \* the moves at work since the reader began

readVars == <<stage, toAsk, toTell, held, pointer, moving, chain, dest, whole, verdict, where>>
vars == <<moveVars, readVars, dark, begun>>

Init ==
  /\ MoveInit
  /\ dark \in SUBSET Share
  /\ stage = "new"
  /\ toAsk = {} /\ toTell = {} /\ held = {}
  /\ pointer = {} /\ moving = FALSE /\ chain = {} /\ dest = NoMove
  /\ whole = TRUE /\ verdict = "none" /\ where = NoMove
  /\ begun = 0

Conclude(v, m) ==
  /\ stage' = "over" /\ verdict' = v /\ where' = m
  /\ toAsk' = {} /\ toTell' = {} /\ held' = {} /\ pointer' = {}
  /\ chain' = {} /\ dest' = NoMove
  /\ UNCHANGED <<moving, whole>>

(* What the reader finds: under the path of a share that is not mounted     *)
(* there is no catalog and no log, which is read as a member without files. *)
Lists(m)   == Holds(m) /\ m \notin dark
Parses(m)  == Readable(m) \/ m \in dark
LogOf(m)   == IF m \in dark THEN << >> ELSE log[m]

-----------------------------------------------------------------------------
(* The file's recorded home is asked first: if it lists the file, done.     *)
Ask(hint) ==
  /\ stage = "new"
  /\ begun' = Cardinality({c \in Client : pc[c] # "idle"})
  /\ IF hint \in Member /\ Parses(hint) /\ Lists(hint)
       THEN Conclude("found", hint)
       ELSE /\ stage' = "probe"
            /\ UNCHANGED <<toAsk, toTell, held, pointer, moving, chain, dest, whole, verdict, where>>

(* Fan-out: any of the members may not answer the probe, but of a share     *)
(* that is not mounted the probe does not notice.                           *)
Probe(answered) ==
  /\ stage = "probe"
  /\ dark \subseteq answered
  /\ stage' = "query"
  /\ toAsk' = answered
  /\ whole' = (answered = Member)
  /\ UNCHANGED <<toTell, held, pointer, moving, chain, dest, verdict, where, begun>>

(* Query: the catalog of a member, which wins, *)
QueryCatalog(m) ==
  /\ stage = "query" /\ m \in toAsk
  /\ Parses(m)
  /\ toAsk' = toAsk \ {m}
  /\ IF Lists(m) THEN held' = held \cup {m} /\ UNCHANGED toTell
                 ELSE toTell' = toTell \cup {m} /\ UNCHANGED held
  /\ UNCHANGED <<stage, pointer, moving, chain, dest, whole, verdict, where, begun>>

(* Mutant: a pending move is not looked at. *)
PendingNever(m) == FALSE

(* and else its log: is a move of the file pending there, and where did the *)
(* last completed one take it?                                              *)
PendingMove(m) ==
  \E n \in DOMAIN LogOf(m) : log[m][n].role # "rm" /\ log[m][n].state = "intent"

Departures(m) ==
  {n \in DOMAIN LogOf(m) : log[m][n].role = "out" /\ log[m][n].state = "done"}

(* Mutant: where the file went is not looked at. *)
MovedNowhere(m) == NoMove

(* Mutant: the path is taken for the member. *)
MovedToPath(m) ==
  LET last == CHOOSE n \in Departures(m) : \A k \in Departures(m) : k <= n
  IN  IF Departures(m) = {} THEN NoMove ELSE log[m][last].op.path

MovedTo(m) ==
  LET last == CHOOSE n \in Departures(m) : \A k \in Departures(m) : k <= n
  IN  IF Departures(m) = {} THEN NoMove ELSE log[m][last].op.to

QueryLog(m) ==
  /\ stage = "query" /\ m \in toTell
  /\ toTell' = toTell \ {m}
  /\ moving' = (moving \/ PendingMove(m))
  /\ pointer' = IF MovedTo(m) # NoMove THEN pointer \cup {<<m, MovedTo(m)>>} ELSE pointer
  /\ UNCHANGED <<stage, toAsk, held, chain, dest, whole, verdict, where, begun>>

-----------------------------------------------------------------------------
(* Every answer is in: found (at the first member by name that lists it,    *)
(* here any), or else the pointers are followed in turn.                    *)
Found ==
  /\ stage = "query" /\ toAsk = {} /\ toTell = {}
  /\ \E m \in held : Conclude("found", m)
  /\ UNCHANGED begun

(* One pointer of those that are left. *)
Follow(p) ==
  /\ stage = "query" /\ toAsk = {} /\ toTell = {} /\ held = {}
  /\ p \in pointer
  /\ pointer' = pointer \ {p}
  /\ stage' = "hop" /\ chain' = {p[1]} /\ dest' = p[2]
  /\ UNCHANGED <<toAsk, toTell, held, moving, whole, verdict, where, begun>>

(* Mutant: a chain is followed wherever it leads. *)
LostNever == FALSE

(* Back where the chain has been, or too long a chain: an error. *)
Lost == dest \in chain \/ Cardinality(chain) > MaxHops

Astray ==
  /\ stage = "hop"
  /\ Lost
  /\ Conclude("failed", NoMove) /\ UNCHANGED begun

HopReady == stage = "hop" /\ ~Lost

(* The destination does not answer: the pointer proves that the file moved. *)
HopOffline ==
  /\ HopReady /\ dest \notin dark
  /\ Conclude("partial", NoMove) /\ UNCHANGED begun

HopFound ==
  /\ HopReady /\ Parses(dest) /\ Lists(dest)
  /\ Conclude("found", dest) /\ UNCHANGED begun

HopMiss ==
  /\ HopReady /\ Parses(dest) /\ ~Lists(dest)
  /\ chain' = chain \cup {dest}
  /\ stage' = "hopLog"
  /\ UNCHANGED <<toAsk, toTell, held, pointer, moving, dest, whole, verdict, where, begun>>

(* On to where the file was moved from there, or a dead end; whether a move *)
(* is pending there is read and not used.                                   *)
HopLog ==
  /\ stage = "hopLog"
  /\ IF MovedTo(dest) # NoMove
       THEN stage' = "hop" /\ dest' = MovedTo(dest) /\ UNCHANGED chain
       ELSE stage' = "query" /\ dest' = NoMove /\ chain' = {}
  /\ UNCHANGED <<toAsk, toTell, held, pointer, moving, whole, verdict, where, begun>>

(* Mutant: the answers are enough, whatever is on the way. *)
ProofOfAnswers == whole

(* Not found. It is missing when every member answered and none has a move  *)
(* pending.                                                                 *)
Proof == whole /\ ~moving

NotFound ==
  /\ stage = "query" /\ toAsk = {} /\ toTell = {}
  /\ held = {} /\ pointer = {}
  /\ Conclude(IF Proof THEN "missing" ELSE "partial", NoMove) /\ UNCHANGED begun

(* A member that answered the probe fails a read. *)
QueryFails ==
  /\ \/ stage = "query" /\ toAsk \cup toTell # {}
     \/ stage = "hopLog" \/ HopReady
  /\ Conclude("failed", NoMove) /\ UNCHANGED begun

-----------------------------------------------------------------------------
Read ==
  \/ \E answered \in SUBSET Member : Probe(answered)
  \/ \E m \in Member : QueryCatalog(m) \/ QueryLog(m)
  \/ Found \/ NotFound \/ QueryFails
  \/ \E p \in pointer : Follow(p)
  \/ Astray \/ HopOffline \/ HopFound \/ HopMiss \/ HopLog

AtWork == stage \notin {"new", "over"}

(* The moves, of which only so many begin while the reader is at work. *)
Step ==
  \/ /\ \E c \in Client : \E o \in Move : Mv(c, o)
     /\ AtWork => begun < MaxMoves
     /\ begun' = IF AtWork THEN begun + 1 ELSE begun
  \/ /\ \E c \in Client : \/ \E m \in Member : Rm(c, m)
                          \/ \E m \in Member : \E n \in DOMAIN log[m] : Retry(c, m, n)
                          \/ Progress(c) \/ Crash(c)
     /\ UNCHANGED begun

Next ==
  \/ \E hint \in Member \cup {NoMove} : Ask(hint) /\ UNCHANGED <<moveVars, dark>>
  \/ Read /\ UNCHANGED <<moveVars, dark>>
  \/ Step /\ UNCHANGED <<readVars, dark>>

Spec == Init /\ [][Next]_vars

-----------------------------------------------------------------------------
(* The reader holds members, pointers between them and a verdict: what the  *)
(* log calls a destination is a member.                                     *)
TypeOK ==
  /\ MoveTypeOK
  /\ dark \in SUBSET Share
  /\ stage \in {"new", "probe", "query", "hop", "hopLog", "over"}
  /\ toAsk \in SUBSET Member /\ toTell \in SUBSET Member
  /\ held \in SUBSET Member /\ where \in Member \cup {NoMove} /\ moving \in BOOLEAN /\ whole \in BOOLEAN
  /\ pointer \in SUBSET (Member \X Member)
  /\ chain \in SUBSET Member /\ dest \in Member \cup {NoMove}
  /\ verdict \in {"none", "found", "partial", "missing", "failed"}
  /\ begun \in Nat

(* "Missing" is only said of a file that was removed, whatever moves go on  *)
(* between the reads of a resolution and whichever were cut short before    *)
(* it: absence is not concluded from members that did not answer, nor from  *)
(* catalogs that were read before the file came and after it left.          *)
MissingIsGone == verdict = "missing" => Removed
=============================================================================
