------------------------------ MODULE VaultNode ------------------------------
(***************************************************************************)
(* One node of a vault: the blobs under objects/, the catalog              *)
(* meta/catalog.toml and the write-ahead log, and the commands that change *)
(* them from outside, each a process of its own: vault put, rm, mv (within *)
(* the node), sync-mode, gc, ops retry and vault rebuild-catalog.          *)
(*                                                                         *)
(* The log is the journal OpJournal promises and Wal implements: appending *)
(* an intent, marking it and reading the log are one step each.  Every     *)
(* other backend call (a blob's Put or Delete, the Get and the overwrite   *)
(* of the catalog) is a step too, and a process may die between any two.   *)
(*                                                                         *)
(* A file is named by the path it was first put at; Content gives the      *)
(* bytes put there.  Two files may hold the same bytes and then share one  *)
(* blob.  The blob of a manual file may be edited in place on the node,    *)
(* under the name it has; Drift gives what an edit makes of it.            *)
(***************************************************************************)
EXTENDS Naturals, Sequences

CONSTANTS Client,     \* processes that run tailvault commands
          Path,       \* paths of the location; also the files first put there
          Sha,        \* contents
          Content,    \* the bytes of each file
          Drift,      \* what an edit in place makes of them
          MaxOps,     \* bound: operations ever journaled
          Commands,   \* the commands in use: a Kind, "retry" or "rebuild"
          MayBeGit,   \* the files sync-mode makes git-mode
          Reuse,      \* may a command repeat an operation that is done?
          PathClash,  \* may it use a path that another file's unfinished
                      \* operation names?
          Calm,       \* are blobs edited between commands only, and not while
                      \* an unfinished operation names a file of theirs?
          Retryable,  \* <<kind, state>> of the operations ops retry is used on
          None

ASSUME VaultAssumption ==
  /\ Content \in [Path -> Sha] /\ Drift \in [Sha -> Sha]
  /\ MaxOps \in Nat
  /\ Commands \subseteq {"ingest", "delete", "move", "sync", "gc", "retry", "rebuild"}
  /\ MayBeGit \subseteq Path
  /\ Reuse \in BOOLEAN /\ PathClash \in BOOLEAN /\ Calm \in BOOLEAN
  /\ None \notin Path /\ None \notin Sha

Kind  == {"ingest", "delete", "move", "sync", "gc"}
Mode  == {"git", "manual"}
State == {"intent", "done", "failed"}

(* A catalog row, and a catalog. *)
File    == [id: Path, mode: Mode, sha: Sha]
Catalog == [Path -> File \cup {None}]

ASSUME NoneAssumption == None \notin File

(* What a log entry says of its operation: ids is blob_refs, sha the hash   *)
(* its row is to have.                                                      *)
Op == [kind: Kind, ids: SUBSET Path, from: Path \cup {None},
       to: Path \cup {None}, mode: Mode \cup {None}, sha: Sha \cup {None}]

Phase == {"idle", "read", "gcRead", "gcPlan", "gcSweep", "intent", "blob",
          "reread", "rmBlob", "rehome", "delete", "write", "mark",
          "retry", "redelete", "rewrite", "rebuild"}

(* A gc candidate: a stored sha and the file the catalog gives it. *)
Doom == [sha: Sha, id: Path]

VARIABLES objects,  \* the shas blobs are stored under
          edited,   \* those of them whose bytes were edited in place
          catalog,  \* meta/catalog.toml
          journal,  \* the log: its operations in order, with their state
          pc, job,  \* where each client is, and what it is doing:
                    \*   op, n    the operation and its place in the log
                    \*   file     the catalog row it was resolved to
                    \*   todo     what a gc has still to decide or delete
          cat       \* the catalog as the client has it in memory

vars == <<objects, edited, catalog, journal, pc, job, cat>>

Empty == [p \in Path |-> None]
NoOp  == [kind |-> "gc", ids |-> {}, from |-> None, to |-> None,
          mode |-> None, sha |-> None]
NoJob == [op |-> NoOp, n |-> 0, file |-> None, todo |-> {}]

Init ==
  /\ objects = {} /\ edited = {} /\ catalog = Empty /\ journal = << >>
  /\ pc = [c \in Client |-> "idle"]
  /\ job = [c \in Client |-> NoJob]
  /\ cat = [c \in Client |-> Empty]

-----------------------------------------------------------------------------
(* The catalog. *)

Has(k, p)     == k[p] # None
With(k, p, f) == [k EXCEPT ![p] = f]
Without(k, p) == [k EXCEPT ![p] = None]

(* The paths of a file; at most one, see IdsUnique. *)
PathsOf(k, id)  == {p \in Path : Has(k, p) /\ k[p].id = id}
Referents(k, s) == {p \in Path : Has(k, p) /\ k[p].sha = s}

WithoutFiles(k, ids) == [p \in Path |-> IF Has(k, p) /\ k[p].id \in ids THEN None ELSE k[p]]
WithoutShas(k, shas) ==
  [p \in Path |-> IF Has(k, p) /\ k[p].sha \in shas THEN None ELSE k[p]]

(* The row a put makes. *)
PutRow(o) == [id |-> o.to, mode |-> "manual", sha |-> o.sha]

(* The row sync-mode makes of one: the mode, and the hash it found. *)
SyncRow(f, o) == [f EXCEPT !.mode = o.mode, !.sha = o.sha]

(* Replay of one operation from its log entry alone (projectOp, applyOp). *)
ReplayMove(k, o) ==
  LET found == UNION {PathsOf(k, i) : i \in o.ids}
      at    == IF found # {} THEN CHOOSE p \in found : TRUE ELSE o.from
  IN  IF Has(k, at) /\ at # o.to THEN With(Without(k, at), o.to, k[at]) ELSE k

(* Mutant: gc has no effect on the file list. *)
ReplayGcSkipped(k, o) == k

ReplayGc(k, o) == WithoutFiles(k, o.ids)

Replay(k, o) ==
  CASE o.kind = "ingest" -> With(k, o.to, PutRow(o))
    [] o.kind = "delete" -> Without(k, o.from)
    [] o.kind = "move"   -> ReplayMove(k, o)
    [] o.kind = "gc"     -> ReplayGc(k, o)
    [] o.kind = "sync"   -> IF Has(k, o.from)
                            THEN With(k, o.from, SyncRow(k[o.from], o))
                            ELSE k

(* ProjectCatalog: every done operation, in log order. *)
Projection(j) ==
  LET P[n \in 0 .. Len(j)] ==
        IF n = 0 THEN Empty
        ELSE IF j[n].state = "done" THEN Replay(P[n - 1], j[n].op) ELSE P[n - 1]
  IN  P[Len(j)]

-----------------------------------------------------------------------------
(* The log. *)

(* Deterministic op ids: that of a move is made of the file and its         *)
(* destination, that of sync-mode of the file and the mode, those of put    *)
(* and rm of the file; only gc draws a new one each time.                   *)
SameOp(o, q) ==
  /\ o.kind = q.kind /\ o.kind # "gc"
  /\ o.ids = q.ids /\ o.to = q.to /\ o.mode = q.mode

Unfinished(id) == \E n \in DOMAIN journal : journal[n].state # "done" /\ id \in journal[n].op.ids
Locked(id)     == \E n \in DOMAIN journal : journal[n].state = "intent" /\ id \in journal[n].op.ids

(* Bound: on a full log no operation that would be new is asked for. *)
Room == Len(journal) < MaxOps

(* Environment: which operations the users ask for. *)
Names(o) == {o.from, o.to} \ {None}
MayAsk(o) ==
  /\ Room \/ \E n \in DOMAIN journal : SameOp(journal[n].op, o)
  /\ \A n \in DOMAIN journal :
       LET q == journal[n] IN
       /\ Reuse \/ (SameOp(q.op, o) => q.state # "done")
       /\ PathClash \/ (q.state # "done" /\ q.op.ids \cap o.ids = {}
                          => Names(q.op) \cap Names(o) = {})

-----------------------------------------------------------------------------
(* Steps every command is made of. *)

Goto(c, p) == pc' = [pc EXCEPT ![c] = p]

(* The command ends, or its process dies. *)
Leave(c) ==
  /\ Goto(c, "idle")
  /\ job' = [job EXCEPT ![c] = NoJob]
  /\ cat' = [cat EXCEPT ![c] = Empty]

Ask(c, o, f, next) ==
  /\ pc[c] = "idle"
  /\ o.kind \in Commands /\ MayAsk(o)
  /\ Goto(c, next)
  /\ job' = [job EXCEPT ![c] = [NoJob EXCEPT !.op = o, !.file = f]]
  /\ UNCHANGED <<objects, edited, catalog, journal>>

ReadCatalog(c) == cat' = [cat EXCEPT ![c] = catalog]

(* sync-mode found other bytes than the row says. *)
Drifted(c) == job[c].op.sha # cat[c][job[c].op.from].sha

(* Where a command goes on once its intent is on the log. *)
AfterIntent(c) ==
  CASE job[c].op.kind = "ingest"             -> "blob"
    [] job[c].op.kind \in {"delete", "move"} -> "reread"
    [] job[c].op.kind = "sync"               -> IF Drifted(c) THEN "rehome" ELSE "write"
    [] job[c].op.kind = "gc"                 -> "delete"

GoOn(c, n) ==
  /\ Goto(c, AfterIntent(c))
  /\ job' = [job EXCEPT ![c].n = n]

AppendIntent(c) ==
  /\ pc[c] = "intent"
  /\ \A n \in DOMAIN journal : ~SameOp(journal[n].op, job[c].op)
  /\ \A id \in job[c].op.ids : ~Locked(id)
  /\ Room
  /\ journal' = Append(journal, [op |-> job[c].op, state |-> "intent"])
  /\ GoOn(c, Len(journal) + 1)
  /\ UNCHANGED <<objects, edited, catalog, cat>>

(* ErrDuplicateOp: the command goes on as if the intent were its own. *)
Resume(c) ==
  /\ pc[c] = "intent"
  /\ \E n \in DOMAIN journal : SameOp(journal[n].op, job[c].op) /\ GoOn(c, n)
  /\ UNCHANGED <<objects, edited, catalog, journal, cat>>

(* ErrOpInFlight. *)
Refused(c) ==
  /\ pc[c] = "intent"
  /\ \A n \in DOMAIN journal : ~SameOp(journal[n].op, job[c].op)
  /\ \E id \in job[c].op.ids : Locked(id)
  /\ Leave(c)
  /\ UNCHANGED <<objects, edited, catalog, journal>>

Marked(n, st) == [journal EXCEPT ![n].state = IF @ = "done" THEN @ ELSE st]

MarkDone(c) ==
  /\ pc[c] = "mark"
  /\ journal' = Marked(job[c].n, "done")
  /\ Leave(c)
  /\ UNCHANGED <<objects, edited, catalog>>

(* PutOverwrite of the catalog: whatever is there is replaced. *)
Overwrite(c, k) ==
  /\ catalog' = k
  /\ Goto(c, "mark")
  /\ UNCHANGED <<objects, edited, journal, job, cat>>

(* Put of a blob: nothing, if one of that name is there. *)
Store(s) == objects' = objects \cup {s} /\ UNCHANGED edited

Delete(s) == objects' = objects \ {s} /\ edited' = edited \ {s}

-----------------------------------------------------------------------------
(* vault put: read the catalog, intent, blob, catalog as read, done.        *)

PutOp(p) == [NoOp EXCEPT !.kind = "ingest", !.ids = {p}, !.to = p, !.mode = "manual",
                              !.sha = Content[p]]

(* Mutant: the blob goes before the intent. *)
PutBlobFirst(c, p) ==
  /\ pc[c] = "idle" /\ "ingest" \in Commands /\ MayAsk(PutOp(p))
  /\ ~Has(catalog, p)
  /\ Store(Content[p])
  /\ job' = [job EXCEPT ![c] = [NoJob EXCEPT !.op = PutOp(p)]]
  /\ ReadCatalog(c)
  /\ Goto(c, "intent")
  /\ UNCHANGED <<catalog, journal>>

(* A destination that exists is refused, or the file goes to another path. *)
Put(c, p) ==
  /\ ~Has(catalog, p)
  /\ Ask(c, PutOp(p), None, "intent")
  /\ ReadCatalog(c)

PutBlob(c) ==
  /\ pc[c] = "blob"
  /\ Store(job[c].op.sha)
  /\ Goto(c, "write")
  /\ UNCHANGED <<catalog, journal, job, cat>>

PutWrite(c) ==
  /\ pc[c] = "write" /\ job[c].op.kind = "ingest"
  /\ Overwrite(c, With(cat[c], job[c].op.to, PutRow(job[c].op)))

-----------------------------------------------------------------------------
(* vault rm: resolve, intent, read the catalog, the blob if no other row    *)
(* needs it, the catalog, done.                                             *)

RmOp(p) == [NoOp EXCEPT !.kind = "delete", !.ids = {catalog[p].id}, !.from = p]

Rm(c, p) ==
  /\ Has(catalog, p)
  /\ Ask(c, RmOp(p), catalog[p], "intent")
  /\ UNCHANGED cat

(* The row rm counts is its own, so one referent or none means: the last. *)
LastReferent(c) ==
  \A p, q \in Referents(catalog, job[c].file.sha) : p = q

(* Mutant: the bytes always go. *)
RmReadNoCount(c) ==
  /\ pc[c] = "reread" /\ job[c].op.kind = "delete"
  /\ ReadCatalog(c)
  /\ Goto(c, "rmBlob")
  /\ UNCHANGED <<objects, edited, catalog, journal, job>>

RmRead(c) ==
  /\ pc[c] = "reread" /\ job[c].op.kind = "delete"
  /\ ReadCatalog(c)
  /\ Goto(c, IF LastReferent(c) THEN "rmBlob" ELSE "write")
  /\ UNCHANGED <<objects, edited, catalog, journal, job>>

RmBlob(c) ==
  /\ pc[c] = "rmBlob"
  /\ Delete(job[c].file.sha)
  /\ Goto(c, "write")
  /\ UNCHANGED <<catalog, journal, job, cat>>

RmWrite(c) ==
  /\ pc[c] = "write" /\ job[c].op.kind = "delete"
  /\ Overwrite(c, Without(cat[c], job[c].op.from))

-----------------------------------------------------------------------------
(* vault mv within the node: resolve, look at the destination, intent, read *)
(* the catalog again, write the row as first resolved, done.                *)

MoveOp(p, q) == [NoOp EXCEPT !.kind = "move", !.ids = {catalog[p].id}, !.from = p, !.to = q]

Mv(c, p, q) ==
  /\ Has(catalog, p) /\ p # q
  /\ Ask(c, MoveOp(p, q), catalog[p], "read")
  /\ UNCHANGED cat

MvLook(c) ==
  /\ pc[c] = "read" /\ job[c].op.kind = "move"
  /\ IF Has(catalog, job[c].op.to) THEN Leave(c)
     ELSE Goto(c, "intent") /\ UNCHANGED <<job, cat>>
  /\ UNCHANGED <<objects, edited, catalog, journal>>

MvRead(c) ==
  /\ pc[c] = "reread" /\ job[c].op.kind = "move"
  /\ ReadCatalog(c)
  /\ Goto(c, "write")
  /\ UNCHANGED <<objects, edited, catalog, journal, job>>

(* Mutant: the old row stays. *)
MvWriteCopy(c) ==
  /\ pc[c] = "write" /\ job[c].op.kind = "move"
  /\ Overwrite(c, With(cat[c], job[c].op.to, job[c].file))

MvWrite(c) ==
  /\ pc[c] = "write" /\ job[c].op.kind = "move"
  /\ Overwrite(c, With(Without(cat[c], job[c].op.from), job[c].op.to, job[c].file))

-----------------------------------------------------------------------------
(* vault sync-mode: resolve, read the catalog, on the way to git hash the   *)
(* blob (so it must be there), intent, a copy of a blob that was edited in  *)
(* place under its new name, the catalog as read, done.                     *)

(* Its hash is the one SyncRead settles on. *)
SyncOp(p, m) == [NoOp EXCEPT !.kind = "sync", !.ids = {catalog[p].id}, !.from = p, !.mode = m,
                             !.sha = catalog[p].sha]

Sync(c, p, m) ==
  /\ Has(catalog, p) /\ catalog[p].mode # m
  /\ m = "git" => catalog[p].id \in MayBeGit
  /\ Ask(c, SyncOp(p, m), catalog[p], "read")
  /\ UNCHANGED cat

(* HashObject. *)
HashOf(s) == IF s \in edited THEN Drift[s] ELSE s

(* Mutant: the hash on record is taken. *)
SyncReadUnhashed(c) ==
  LET o == job[c].op IN
  /\ pc[c] = "read" /\ o.kind = "sync"
  /\ Has(catalog, o.from)
  /\ o.mode = "git" => catalog[o.from].sha \in objects
  /\ job' = [job EXCEPT ![c].op.sha = catalog[o.from].sha]
  /\ ReadCatalog(c)
  /\ Goto(c, "intent")
  /\ UNCHANGED <<objects, edited, catalog, journal>>

SyncRead(c) ==
  LET o == job[c].op
      s == catalog[o.from].sha
  IN
  /\ pc[c] = "read" /\ o.kind = "sync"
  /\ Has(catalog, o.from)
  /\ o.mode = "git" => s \in objects
  /\ job' = [job EXCEPT ![c].op.sha = IF o.mode = "git" THEN HashOf(s) ELSE s]
  /\ ReadCatalog(c)
  /\ Goto(c, "intent")
  /\ UNCHANGED <<objects, edited, catalog, journal>>

(* rehomeDriftedObject: the blob of the old name stays. *)
Rehome(c) ==
  /\ pc[c] = "rehome"
  /\ cat[c][job[c].op.from].sha \in objects
  /\ Store(job[c].op.sha)
  /\ Goto(c, "write")
  /\ UNCHANGED <<catalog, journal, job, cat>>

SyncWrite(c) ==
  LET o == job[c].op IN
  /\ pc[c] = "write" /\ o.kind = "sync"
  /\ Overwrite(c, With(cat[c], o.from, SyncRow(cat[c][o.from], o)))

-----------------------------------------------------------------------------
(* gc on a federated node: the stored blobs no branch keeps, the catalog,   *)
(* a look at the log to plan and one before the sweep, intent, the blobs    *)
(* one by one, the catalog as read, done.                                   *)

GcList(c) ==
  /\ pc[c] = "idle" /\ "gc" \in Commands /\ Room
  /\ \E keep \in SUBSET Sha :
       job' = [job EXCEPT ![c] = [NoJob EXCEPT !.todo = objects \ keep]]
  /\ Goto(c, "gcRead")
  /\ UNCHANGED <<objects, edited, catalog, journal, cat>>

(* Mutant: a blob is a candidate when no row names it. *)
GcOrphans ==
  {[sha |-> s, id |-> None] : s \in {x \in Sha : Referents(catalog, x) = {}}}

(* Only git-mode rows make a stored blob a candidate. *)
GcCandidates ==
  {k \in Doom : \E p \in Path :
     catalog[p] = [id |-> k.id, mode |-> "git", sha |-> k.sha]}

(* shaToID holds one file for a sha: the last one listed. *)
GcRead(c) ==
  /\ pc[c] = "gcRead"
  /\ \E pick \in SUBSET {k \in GcCandidates : k.sha \in job[c].todo} :
       /\ \A k, l \in pick : k.sha = l.sha => k = l
       /\ \A k \in GcCandidates : k.sha \in job[c].todo => \E l \in pick : l.sha = k.sha
       /\ job' = [job EXCEPT ![c].todo = pick]
  /\ ReadCatalog(c)
  /\ Goto(c, "gcPlan")
  /\ UNCHANGED <<objects, edited, catalog, journal>>

(* What a pending operation locks is skipped. *)
Doomed(c) == {k \in job[c].todo : ~Locked(k.id)}

GcPlan(c) ==
  /\ pc[c] = "gcPlan"
  /\ job' = [job EXCEPT ![c].todo = Doomed(c)]
  /\ Goto(c, "gcSweep")
  /\ UNCHANGED <<objects, edited, catalog, journal, cat>>

GcSweep(c) ==
  /\ pc[c] = "gcSweep"
  /\ IF Doomed(c) = {} THEN Leave(c)
     ELSE /\ job' = [job EXCEPT ![c].todo = Doomed(c),
                                ![c].op.ids = {k.id : k \in Doomed(c)}]
          /\ Goto(c, "intent")
          /\ UNCHANGED cat
  /\ UNCHANGED <<objects, edited, catalog, journal>>

GcDelete(c) ==
  /\ pc[c] = "delete"
  /\ \E k \in job[c].todo :
       /\ Delete(k.sha)
       /\ job' = [job EXCEPT ![c].todo = @ \ {k}]
       /\ Goto(c, IF job[c].todo = {k} THEN "write" ELSE "delete")
  /\ UNCHANGED <<catalog, journal, cat>>

(* removeFilesBySHA: by the names of the blobs, not by file. *)
GcKept(c) ==
  WithoutShas(cat[c], {cat[c][p].sha : p \in UNION {PathsOf(cat[c], i) : i \in job[c].op.ids}})

GcWrite(c) ==
  /\ pc[c] = "write" /\ job[c].op.kind = "gc"
  /\ Overwrite(c, GcKept(c))

(* A deletion or the overwrite fails, or so it seems: the sweep is marked   *)
(* failed and given up.                                                     *)
GcFail(c) ==
  /\ job[c].op.kind = "gc"
  /\ \/ /\ pc[c] = "delete"
        /\ UNCHANGED <<objects, edited>> \/ \E k \in job[c].todo : Delete(k.sha)
        /\ UNCHANGED catalog
     \/ /\ pc[c] = "write"
        /\ catalog' \in {catalog, GcKept(c)}
        /\ UNCHANGED <<objects, edited>>
  /\ journal' = Marked(job[c].n, "failed")
  /\ Leave(c)

-----------------------------------------------------------------------------
(* ops retry: read the logs, pick an operation that waits on none before    *)
(* it, read the catalog, complete it from its log entry, done.  No executor *)
(* is there for sync-mode; what the entry replays to is Replay.             *)

Retry(c, n) ==
  LET e == journal[n] IN
  /\ pc[c] = "idle" /\ "retry" \in Commands
  /\ e.state # "done" /\ e.op.kind # "sync"
  /\ <<e.op.kind, e.state>> \in Retryable
  /\ \A m \in 1 .. n - 1 : journal[m].state # "done" => journal[m].op.ids \cap e.op.ids = {}
  /\ Goto(c, "retry")
  /\ job' = [job EXCEPT ![c] = [NoJob EXCEPT !.op = e.op, !.n = n]]
  /\ UNCHANGED <<objects, edited, catalog, journal, cat>>

(* The catalog as it is now; of a gc, the doomed files still in it. *)
RetryRead(c) ==
  /\ pc[c] = "retry"
  /\ ReadCatalog(c)
  /\ IF job[c].op.kind = "gc"
     THEN /\ job' = [job EXCEPT ![c].todo =
                       {k \in Doom : k.id \in job[c].op.ids
                                       /\ \E p \in PathsOf(catalog, k.id) : catalog[p].sha = k.sha}]
          /\ Goto(c, "redelete")
     ELSE Goto(c, "rewrite") /\ UNCHANGED job
  /\ UNCHANGED <<objects, edited, catalog, journal>>

RetryDelete(c) ==
  /\ pc[c] = "redelete"
  /\ \E k \in job[c].todo :
       /\ Delete(k.sha)
       /\ job' = [job EXCEPT ![c].todo = @ \ {k}]
  /\ UNCHANGED <<catalog, journal, pc, cat>>

RetryWrite(c) ==
  /\ \/ pc[c] = "rewrite"
     \/ pc[c] = "redelete" /\ job[c].todo = {}
  /\ Overwrite(c, Replay(cat[c], job[c].op))

(* A sweep whose retry fails is marked failed. *)
RetryFail(c) ==
  /\ pc[c] = "redelete"
  /\ \/ /\ job[c].todo # {}
        /\ UNCHANGED <<objects, edited>> \/ \E k \in job[c].todo : Delete(k.sha)
        /\ UNCHANGED catalog
     \/ /\ job[c].todo = {}
        /\ catalog' \in {catalog, Replay(cat[c], job[c].op)}
        /\ UNCHANGED <<objects, edited>>
  /\ journal' = Marked(job[c].n, "failed")
  /\ Leave(c)

-----------------------------------------------------------------------------
(* vault rebuild-catalog: read the log, overwrite the catalog with its      *)
(* projection; nothing is journaled.                                        *)

RebuildRead(c) ==
  /\ pc[c] = "idle" /\ "rebuild" \in Commands
  /\ cat' = [cat EXCEPT ![c] = Projection(journal)]
  /\ Goto(c, "rebuild")
  /\ UNCHANGED <<objects, edited, catalog, journal, job>>

RebuildWrite(c) ==
  /\ pc[c] = "rebuild"
  /\ catalog' = cat[c]
  /\ Leave(c)
  /\ UNCHANGED <<objects, edited, journal>>

-----------------------------------------------------------------------------
(* A process dies, or a backend call fails and its command gives up. *)
Crash(c) ==
  /\ pc[c] # "idle"
  /\ Leave(c)
  /\ UNCHANGED <<objects, edited, catalog, journal>>

(* Environment: a manual file is edited in place on the node. *)
Edit(s) ==
  /\ s \in objects \ edited /\ Drift[s] # s
  /\ \E p \in Referents(catalog, s) : catalog[p].mode = "manual"
  /\ Calm => /\ \A c \in Client : pc[c] = "idle"
             /\ \A p \in Referents(catalog, s) : ~Unfinished(catalog[p].id)
  /\ edited' = edited \cup {s}
  /\ UNCHANGED <<objects, catalog, journal, pc, job, cat>>

Command(c) ==
  \/ \E p \in Path : Put(c, p) \/ Rm(c, p)
  \/ \E p, q \in Path : Mv(c, p, q)
  \/ \E p \in Path, m \in Mode : Sync(c, p, m)
  \/ GcList(c)
  \/ \E n \in DOMAIN journal : Retry(c, n)
  \/ RebuildRead(c)

Step(c) ==
  \/ AppendIntent(c) \/ Resume(c) \/ Refused(c) \/ MarkDone(c)
  \/ PutBlob(c) \/ PutWrite(c)
  \/ RmRead(c) \/ RmBlob(c) \/ RmWrite(c)
  \/ MvLook(c) \/ MvRead(c) \/ MvWrite(c)
  \/ SyncRead(c) \/ Rehome(c) \/ SyncWrite(c)
  \/ GcRead(c) \/ GcPlan(c) \/ GcSweep(c) \/ GcDelete(c) \/ GcWrite(c) \/ GcFail(c)
  \/ RetryRead(c) \/ RetryDelete(c) \/ RetryWrite(c) \/ RetryFail(c)
  \/ RebuildWrite(c)

Next ==
  \/ \E c \in Client : Command(c) \/ Step(c) \/ Crash(c)
  \/ \E s \in Sha : Edit(s)

Spec == Init /\ [][Next]_vars

-----------------------------------------------------------------------------
TypeOK ==
  /\ objects \in SUBSET Sha /\ edited \subseteq objects
  /\ catalog \in Catalog
  /\ journal \in Seq([op: Op, state: State])
  /\ pc \in [Client -> Phase]
  /\ \A c \in Client :
       /\ job[c].op \in Op /\ job[c].n \in 0 .. MaxOps
       /\ job[c].file \in File \cup {None}
       /\ job[c].todo \in (SUBSET Sha) \cup (SUBSET Doom)
       /\ cat[c] \in Catalog

(* Between commands, with every operation done, the catalog is what         *)
(* rebuild-catalog makes of the log: no completed command is lost, none is  *)
(* half done, and a lost catalog can be rebuilt.                            *)
Quiet ==
  /\ \A c \in Client : pc[c] = "idle"
  /\ \A n \in DOMAIN journal : journal[n].state = "done"
ProjectionFaithful == Quiet => Projection(journal) = catalog

(* What is listed is stored, of every file no unfinished operation names:   *)
(* a sweep, a removal or their retry never takes bytes another file has.    *)
Accounted ==
  \A p \in Path : Has(catalog, p) =>
    catalog[p].sha \in objects \/ Unfinished(catalog[p].id)

(* A git-mode file is stored under the hash of its bytes, however often it  *)
(* was edited before it became one, by a command resumed or not; again of   *)
(* files no unfinished operation names.                                     *)
GitIsHashed ==
  \A p \in Path :
    Has(catalog, p) /\ catalog[p].mode = "git" /\ ~Unfinished(catalog[p].id) =>
      catalog[p].sha \notin edited

(* A file has one path. *)
IdsUnique == \A id \in Path : \A p, q \in PathsOf(catalog, id) : p = q

(* An unfinished operation has the hash, or names a file listed with it. *)
Announces(s) ==
  \E n \in DOMAIN journal :
    /\ journal[n].state # "done"
    /\ \/ journal[n].op.sha = s
       \/ \E p \in Referents(catalog, s) : catalog[p].id \in journal[n].op.ids

(* Every change of a file's row or bytes is announced: an unfinished        *)
(* operation that names the file, or the hash, is on the log before, and    *)
(* still when it happens.                                                   *)
IntentFirst ==
  [][/\ \A id \in Path :
          {<<p, catalog[p]>> : p \in PathsOf(catalog, id)} #
          {<<p, catalog'[p]>> : p \in PathsOf(catalog', id)} => Unfinished(id)
     /\ \A s \in Sha : (s \in objects) # (s \in objects') => Announces(s)]_<<objects, catalog>>
=============================================================================
