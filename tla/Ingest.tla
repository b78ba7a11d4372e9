-------------------------------- MODULE Ingest --------------------------------
(***************************************************************************)
(* How the files on a vault's disk come into its catalog: vault init       *)
(* (Bootstrap), track, vault scan, restore-identity, and ops retry of what *)
(* these journal, while users write, remove and rename files and a process *)
(* may die between any two steps.                                          *)
(*                                                                         *)
(* One such command runs at a time (VaultNode has those that overlap), on  *)
(* a root that is mounted locally.  All rows are manual: these commands    *)
(* pass over the rows of git mode.  A file's bytes are its sha; the clock  *)
(* ticks when a file is written.                                           *)
(***************************************************************************)
EXTENDS Integers, Sequences

CONSTANTS Path, Sha, None,
          Size,     \* the size of each content
          Ignored,  \* the paths .tailvaultignore names
          Receipts, \* the ids of a lost log whose genesis record someone holds
          BatchN,   \* vault init flushes the catalog when it owes so many marks
          MaxOps,   \* bound: log entries
          MaxTime,  \* bound: files written
          Calm,     \* do files change only between commands, with no change of
                    \* theirs half recorded, and is a file that takes the place
                    \* of a tracked one newer than it?
          Tidy,     \* is what was cut short completed before anything else runs?
          Once      \* is a path ingested by name once, but for what completes it?

Id == [path: Path, sha: Sha, op: (0 .. MaxOps) \cup {None}]

ASSUME IngestAssumption ==
  /\ Size \in [Sha -> Nat] /\ Ignored \subseteq Path /\ Receipts \subseteq Id
  /\ BatchN \in Nat \ {0} /\ MaxOps \in Nat /\ MaxTime \in Nat
  /\ {Calm, Tidy, Once} \subseteq BOOLEAN
  /\ \A i \in Receipts : i.op \in {0, None}
  /\ None \notin Path \cup Sha \cup Nat

(* A genesis record is its id: the path and content first ingested and the *)
(* operation, which is 0 when derived from the path, also in a lost log,   *)
(* and otherwise drawn: its place in the log, None in a lost one.          *)

Sizes == {Size[s] : s \in Sha}
Time  == 0 .. MaxTime

DiskFile == [sha: Sha, mtime: Time]
Row      == [id: Id, sha: Sha, size: Sizes, scanned: Time]
Catalog  == [Path -> Row \cup {None}]

ASSUME NoneAssumption == None \notin Row \cup DiskFile

Kind  == {"ingest", "scan", "move", "delete", "restore"}

(* What a log entry says; id is blob_refs. *)
Entry == [kind: Kind, id: Id, path: Path, to: Path, sha: Sha, size: Sizes,
          at: Time, state: {"intent", "done"}]

Finding == {"added", "edited", "suspect", "moved", "deleted", "verified"}
Change  == [kind: Finding, path: Path, old: Path, sha: Sha, size: Sizes]

Phase   == {"idle", "ingest", "intent", "apply", "flush", "mark"}
Command == {"init", "track", "scan", "restore", "retry", None}

(* The files to ingest with the size they were listed with, the hash of    *)
(* the current one, the changes to apply, and the operations to be marked  *)
(* done after the next flush.                                              *)
Job == [cmd: Command, plan: [Path -> Sizes \cup {None}], sum: Sha \cup {None},
        changes: SUBSET Change, owed: SUBSET (1 .. MaxOps)]

VARIABLES disk,     \* the vault's files
          rotten,   \* those whose bytes changed with no one writing them
          made,     \* is there a catalog file?
          catalog,  \* its rows
          log,      \* the write-ahead log
          now,      \* the clock
          pc, job,  \* the command that runs
          cat       \* the catalog it has in memory

files == <<disk, rotten>>
vault == <<made, catalog, log>>
vars  == <<files, vault, now, pc, job, cat>>

Empty == [p \in Path |-> None]
NoJob == [cmd |-> None, plan |-> Empty, sum |-> None, changes |-> {}, owed |-> {}]

Init ==
  /\ disk \in [Path -> [sha: Sha, mtime: {0}] \cup {None}]
  /\ rotten = {} /\ made = FALSE /\ catalog = Empty /\ log = << >>
  /\ now = 0 /\ pc = "idle" /\ job = NoJob /\ cat = Empty

-----------------------------------------------------------------------------
(* Files and rows. *)

Has(k, p)     == k[p] # None
With(k, p, r) == [k EXCEPT ![p] = r]

Without(k, p) == [k EXCEPT ![p] = None]

(* Mutant: the row of the old path stays. *)
RenamedCopy(k, p, q, r) == With(k, q, r)

Renamed(k, p, q, r) == With(Without(k, p), q, r)

Tracked(k)    == {p \in Path : Has(k, p)}
HasId(k, i)   == \E p \in Tracked(k) : k[p].id = i
OnDisk        == Tracked(disk)

(* Mutant: a file is as it was as long as its size is. *)
FreshBySize(r, f) == Size[f.sha] = r.size

(* Neither size nor date moved since the row was last scanned. *)
Fresh(r, f) == Size[f.sha] = r.size /\ f.mtime <= r.scanned

RowOf(e) == [id |-> e.id, sha |-> e.sha, size |-> e.size, scanned |-> e.at]

(* Mutant: the stamp is a day late. *)
WithShaLate(r, s, t) == [id |-> r.id, sha |-> s, size |-> r.size, scanned |-> t + 1]

WithSha(r, s, t) == [id |-> r.id, sha |-> s, size |-> r.size, scanned |-> t]
Resized(r, s, z, t) == [id |-> r.id, sha |-> s, size |-> z, scanned |-> t]
Identified(r, i) == [id |-> i, sha |-> r.sha, size |-> r.size, scanned |-> r.scanned]

(* An operation's effect from its entry alone (applyOp; projectOp also     *)
(* knows restore).                                                         *)
Moved(k, e, t) ==
  LET found == {p \in Tracked(k) : k[p].id = e.id}
      at    == IF found # {} THEN CHOOSE p \in found : TRUE ELSE e.path
  IN  IF Has(k, at) /\ at # e.to
        THEN Renamed(k, at, e.to, WithSha(k[at], k[at].sha, t)) ELSE k

Replayed(k, e, t) ==
  CASE e.kind = "ingest" -> With(k, e.path, RowOf(e))
    [] e.kind = "move"   -> Moved(k, e, t)
    [] e.kind = "delete" -> Without(k, e.path)
    [] e.kind \in {"scan", "restore"} /\ ~Has(k, e.path) -> k
    [] e.kind = "scan" /\ Has(k, e.path) ->
         With(k, e.path, WithSha(k[e.path], e.sha, t))
    [] e.kind = "restore" /\ Has(k, e.path) ->
         With(k, e.path, Identified(k[e.path], e.id))

(* ProjectCatalog. *)
Projection ==
  LET P[n \in 0 .. Len(log)] ==
        IF n = 0 THEN Empty
        ELSE IF log[n].state = "done" THEN Replayed(P[n - 1], log[n], log[n].at)
        ELSE P[n - 1]
  IN  P[Len(log)]

-----------------------------------------------------------------------------
(* The log. *)

Pending(n) == log[n].state = "intent"
Locked(i)  == \E n \in DOMAIN log : Pending(n) /\ log[n].id = i
Next1      == Len(log) + 1
Room       == Len(log) < MaxOps

(* Mutant: an operation is done as soon as it is journaled. *)
IntentDone(kind, i, p, q, s, z) ==
  [kind |-> kind, id |-> i, path |-> p, to |-> q, sha |-> s, size |-> z,
   at |-> now, state |-> "done"]

Intent(kind, i, p, q, s, z) ==
  [kind |-> kind, id |-> i, path |-> p, to |-> q, sha |-> s, size |-> z,
   at |-> now, state |-> "intent"]

(* A pending operation names the path, or the row there. *)
InDoubt(p) ==
  \E n \in DOMAIN log :
    /\ Pending(n)
    /\ p \in {log[n].path, log[n].to} \/ (Has(catalog, p) /\ catalog[p].id = log[n].id)

(* The ingest of a path whose operation is derived from the path. *)
ByName(n)    == log[n].kind = "ingest" /\ log[n].id.op = 0
RecordOf(p)  == {n \in DOMAIN log : ByName(n) /\ log[n].path = p}

SameFile(r, s) == r = s \/ (r # None /\ s # None /\ r.id = s.id /\ r.sha = s.sha)

-----------------------------------------------------------------------------
(* Commands start. *)

Idle == pc = "idle"

Goto(ph, j) == pc' = ph /\ job' = j
Leave       == Goto("idle", NoJob) /\ cat' = Empty

(* ops retry completes an operation; init and track complete the ingests   *)
(* by name, nothing completes a restore.                                   *)
MayStart(cmd) ==
  /\ Idle
  /\ Tidy => \A n \in DOMAIN log :
               Pending(n) => \/ log[n].kind = "restore" \/ cmd = "retry"
                             \/ cmd \in {"init", "track"} /\ ByName(n)

MayIngest(p) ==
  Once => /\ RecordOf(p) = {} => ~Has(catalog, p)
          /\ \A n \in RecordOf(p) : Pending(n) \/ catalog[p] = RowOf(log[n])

Planned(S) == [p \in Path |-> IF p \in S THEN Size[disk[p].sha] ELSE None]

Ingesting(cmd, S) == [NoJob EXCEPT !.cmd = cmd, !.plan = Planned(S)]

(* vault init: any of the files, as --select leaves some out. *)
StartInit(S) ==
  /\ MayStart("init") /\ S \subseteq OnDisk \ Ignored
  /\ \A p \in S : MayIngest(p)
  /\ Goto(IF S = {} THEN "flush" ELSE "ingest", Ingesting("init", S))
  /\ cat' = catalog
  /\ UNCHANGED <<files, vault, now>>

(* track: a path that has a row is left as it is; a glob is one track after *)
(* the other.                                                              *)
StartTrack(p) ==
  /\ MayStart("track") /\ p \in OnDisk /\ ~Has(catalog, p)
  /\ MayIngest(p)
  /\ Goto("ingest", Ingesting("track", {p})) /\ cat' = catalog
  /\ UNCHANGED <<files, vault, now>>

-----------------------------------------------------------------------------
(* Ingest, file by file. *)

Left     == Tracked(job.plan)
NextFile == CHOOSE p \in Left : TRUE

(* Is it time to flush?  At the end, or with a batch of marks owed. *)
Cardinal(S) == LET F[n \in 0 .. MaxOps] ==
                     IF n = 0 THEN 0 ELSE F[n - 1] + (IF n \in S THEN 1 ELSE 0)
               IN  F[MaxOps]
Due(plan, owed) == Tracked(plan) = {} \/ Cardinal(owed) >= BatchN

Taken(p, n) ==
  LET plan == Without(job.plan, p)
      owed == job.owed \cup {n}
  IN  Goto(IF Due(plan, owed) THEN "flush" ELSE "ingest",
           [job EXCEPT !.plan = plan, !.sum = None, !.owed = owed])

(* A recorded operation puts the row it recorded, whatever the file holds. *)
TakeRecorded ==
  /\ pc = "ingest" /\ Left # {}
  /\ \E n \in RecordOf(NextFile) :
       /\ cat' = With(cat, NextFile, RowOf(log[n]))
       /\ Taken(NextFile, n)
  /\ UNCHANGED <<files, vault, now>>

Hash ==
  /\ pc = "ingest" /\ Left # {} /\ RecordOf(NextFile) = {}
  /\ NextFile \in OnDisk
  /\ Goto("intent", [job EXCEPT !.sum = disk[NextFile].sha])
  /\ UNCHANGED <<files, vault, now, cat>>

AppendIntent ==
  LET p == NextFile
      i == [path |-> p, sha |-> job.sum, op |-> 0]
      e == Intent("ingest", i, p, p, job.sum, job.plan[p])
  IN  /\ pc = "intent" /\ ~Locked(i) /\ Room
      /\ log' = Append(log, e)
      /\ cat' = With(cat, p, RowOf(e))
      /\ Taken(p, Next1)
      /\ UNCHANGED <<files, made, catalog, now>>

-----------------------------------------------------------------------------
(* Every command ends with the catalog, and then the marks. *)

Flush ==
  /\ pc = "flush"
  /\ catalog' = cat /\ made' = TRUE
  /\ Goto("mark", job)
  /\ UNCHANGED <<files, log, now, cat>>

FirstOwed == CHOOSE n \in job.owed : \A m \in job.owed : n <= m

MarkDone ==
  /\ pc = "mark" /\ job.owed # {}
  /\ log' = [log EXCEPT ![FirstOwed].state = "done"]
  /\ Goto("mark", [job EXCEPT !.owed = @ \ {FirstOwed}])
  /\ UNCHANGED <<files, made, catalog, now, cat>>

(* With files left, vault init goes on with them. *)
Marked ==
  /\ pc = "mark" /\ job.owed = {}
  /\ \/ Left # {} /\ Goto("ingest", job) /\ UNCHANGED cat
     \/ Left = {} /\ Leave
  /\ UNCHANGED <<files, vault, now>>

(* Killed, or an error of a call. *)
Die ==
  /\ ~Idle /\ Leave
  /\ UNCHANGED <<files, vault, now>>

-----------------------------------------------------------------------------
(* vault scan: Diff. *)

Seen == OnDisk \ Ignored

(* Mutant: the files that have a row are new, too. *)
NewAll(k) == Seen

New(k) == Seen \ Tracked(k)
Gone(k) == Tracked(k) \ Seen

(* Mutant: all drift is an edit. *)
DriftIsEdit(r, f) == "edited"

(* ClassifyDrift. *)
Drift(r, f) == IF Fresh(r, f) THEN "suspect" ELSE "edited"

Rehashed(k, paranoid) == {p \in Tracked(k) \cap Seen : paranoid \/ ~Fresh(k[p], disk[p])}

Found(kind, p, q) ==
  [kind |-> kind, path |-> p, old |-> q, sha |-> disk[p].sha, size |-> Size[disk[p].sha]]

OldFiles(k, paranoid) ==
  {Found(IF disk[p].sha = k[p].sha THEN "verified" ELSE Drift(k[p], disk[p]), p, p) :
     p \in Rehashed(k, paranoid)}

(* A row that lost its file and a new file with its bytes are one move, if *)
(* neither has another to pair with.                                       *)
Pairs(k) ==
  {d \in Gone(k) \X New(k) :
     /\ disk[d[2]].sha = k[d[1]].sha
     /\ \A p \in Gone(k) : k[p].sha = k[d[1]].sha => p = d[1]
     /\ \A p \in New(k) : disk[p].sha = disk[d[2]].sha => p = d[2]}

Moves(k) == {Found("moved", d[2], d[1]) : d \in Pairs(k)}
Adds(k)  == {Found("added", p, p) : p \in New(k) \ {d[2] : d \in Pairs(k)}}

Deletes(k) ==
  {[kind |-> "deleted", path |-> p, old |-> p, sha |-> k[p].sha, size |-> k[p].size] :
     p \in Gone(k) \ {d[1] : d \in Pairs(k)}}

Applying(j) == Goto(IF j.changes = {} THEN "flush" ELSE "apply", j)

(* The user confirms any of the deletions. *)
StartScan(paranoid) ==
  /\ MayStart("scan") /\ made
  /\ \E confirmed \in SUBSET Deletes(catalog) :
       Applying(
            [NoJob EXCEPT !.cmd = "scan",
                          !.changes = OldFiles(catalog, paranoid) \cup Moves(catalog)
                                        \cup Adds(catalog) \cup confirmed])
  /\ cat' = catalog
  /\ UNCHANGED <<files, vault, now>>

-----------------------------------------------------------------------------
(* vault scan: Apply.  All changes are of different paths. *)

NextChange == CHOOSE ch \in job.changes : TRUE

Applied(owed) ==
  Applying([job EXCEPT !.changes = @ \ {NextChange}, !.owed = @ \cup owed])

(* What is journaled of a change, and what becomes of the rows. *)
OpKind == [added |-> "ingest", edited |-> "scan", moved |-> "move", deleted |-> "delete"]

IdOf(ch) == IF ch.kind = "added" THEN [path |-> ch.path, sha |-> ch.sha, op |-> Next1]
            ELSE cat[ch.old].id

ScanEntry(ch) ==
  Intent(OpKind[ch.kind], IdOf(ch), ch.old, ch.path, ch.sha, ch.size)

Mutated(ch) ==
  CASE ch.kind = "added"   -> With(cat, ch.path, RowOf(ScanEntry(ch)))
    [] ch.kind = "edited"  -> With(cat, ch.path, Resized(cat[ch.path], ch.sha, ch.size, now))
    [] ch.kind = "moved"   -> Renamed(cat, ch.old, ch.path,
                                      WithSha(cat[ch.old], cat[ch.old].sha, now))
    [] ch.kind = "deleted" -> Without(cat, ch.path)

(* A suspect is reported only; so is a file another operation locks. *)
SkipChange ==
  /\ pc = "apply"
  /\ \/ NextChange.kind = "suspect"
     \/ NextChange.kind # "verified" /\ Locked(IdOf(NextChange))
  /\ Applied({})
  /\ UNCHANGED <<files, vault, now, cat>>

StampVerified ==
  /\ pc = "apply" /\ NextChange.kind = "verified"
  /\ cat' = With(cat, NextChange.path,
                 WithSha(cat[NextChange.path], cat[NextChange.path].sha, now))
  /\ Applied({})
  /\ UNCHANGED <<files, vault, now>>

ApplyChange ==
  LET ch == NextChange
  IN  /\ pc = "apply" /\ ch.kind \in DOMAIN OpKind
      /\ ~Locked(IdOf(ch)) /\ Room
      /\ log' = Append(log, ScanEntry(ch))
      /\ cat' = Mutated(ch)
      /\ Applied({Next1})
      /\ UNCHANGED <<files, made, catalog, now>>

-----------------------------------------------------------------------------
(* restore-identity and ops retry. *)

Owing(cmd, n) == [NoJob EXCEPT !.cmd = cmd, !.owed = {n}]

Restore(p, i) ==
  /\ MayStart("restore") /\ Has(catalog, p) /\ i \in Receipts
  /\ ~HasId(catalog, i)
  /\ ~Locked(i) /\ Room
  /\ log' = Append(log, Intent("restore", i, p, p, catalog[p].sha, catalog[p].size))
  /\ cat' = With(catalog, p, Identified(catalog[p], i))
  /\ Goto("flush", Owing("restore", Next1))
  /\ UNCHANGED <<files, made, catalog, now>>

(* The effect is made again from the entry, with the date of today. *)
Retry(n) ==
  /\ MayStart("retry") /\ Pending(n) /\ log[n].kind # "restore"
  /\ log[n].kind = "scan" => Has(catalog, log[n].path)
  /\ cat' = Replayed(catalog, log[n], now)
  /\ Goto("flush", Owing("retry", n))
  /\ UNCHANGED <<files, vault, now>>

-----------------------------------------------------------------------------
(* The disk.  Renaming keeps a file's date. *)

MayTouch ==
  Calm => Idle /\ \A n \in DOMAIN log : Pending(n) => log[n].kind \in {"ingest", "restore"}

NewFile(p, f) ==
  /\ disk' = [disk EXCEPT ![p] = f]
  /\ rotten' = rotten \ {p}
  /\ UNCHANGED <<vault, pc, job, cat>>

Write(p, s) ==
  /\ MayTouch /\ now < MaxTime /\ now' = now + 1
  /\ NewFile(p, [sha |-> s, mtime |-> now + 1])

Remove(p) == MayTouch /\ p \in OnDisk /\ NewFile(p, None) /\ UNCHANGED now

Rename(p, q) ==
  /\ MayTouch /\ p \in OnDisk /\ p # q
  /\ Calm => ~Has(catalog, q) /\ ~InDoubt(q)
  /\ disk' = [disk EXCEPT ![q] = disk[p], ![p] = None]
  /\ rotten' = rotten \ {p, q}
  /\ UNCHANGED <<vault, now, pc, job, cat>>

(* Bytes change under the date; what rots before it was scanned cannot be  *)
(* told from the edit it was.                                              *)
Rot(p, s) ==
  /\ MayTouch /\ p \in OnDisk \cap Tracked(catalog)
  /\ disk[p].sha = catalog[p].sha /\ Fresh(catalog[p], disk[p])
  /\ s # disk[p].sha /\ Size[s] = Size[disk[p].sha]
  /\ disk' = [disk EXCEPT ![p].sha = s]
  /\ rotten' = rotten \cup {p}
  /\ UNCHANGED <<vault, now, pc, job, cat>>

-----------------------------------------------------------------------------
Next ==
  \/ \E S \in SUBSET Path : StartInit(S)
  \/ \E p \in Path : StartTrack(p)
  \/ TakeRecorded \/ Hash \/ AppendIntent
  \/ Flush \/ MarkDone \/ Marked \/ Die
  \/ \E paranoid \in BOOLEAN : StartScan(paranoid)
  \/ SkipChange \/ StampVerified \/ ApplyChange
  \/ \E p \in Path, i \in Receipts : Restore(p, i)
  \/ \E n \in DOMAIN log : Retry(n)
  \/ \E p \in Path, s \in Sha : Write(p, s) \/ Rot(p, s)
  \/ \E p \in Path : Remove(p)
  \/ \E p, q \in Path : Rename(p, q)

Spec == Init /\ [][Next]_vars
-----------------------------------------------------------------------------
(* Properties. *)

(* Types. *)
TypeOK ==
  /\ disk \in [Path -> DiskFile \cup {None}] /\ rotten \subseteq Path
  /\ made \in BOOLEAN /\ catalog \in Catalog /\ cat \in Catalog
  /\ log \in Seq(Entry) /\ Len(log) <= MaxOps
  /\ now \in Time /\ pc \in Phase /\ job \in Job

(* The catalog is what the log says, at every moment: whatever command     *)
(* died where, a row no pending operation names is the one that replaying  *)
(* the operations that are done gives.                                     *)
LogTellsAll == \A p \in Path : InDoubt(p) \/ SameFile(catalog[p], Projection[p])

(* A file that was written since its row was made is looked at by the next *)
(* scan, even if its size is the same and operations were cut short,       *)
(* resumed and retried meanwhile.  This is of files written between        *)
(* commands (Calm): an edit that falls between the hash a scan takes of a  *)
(* file and the stamp it gives it is older than the stamp, and missed.     *)
EditsAreSeen ==
  \A p \in (OnDisk \cap Tracked(catalog)) \ rotten :
    disk[p].sha # catalog[p].sha => ~Fresh(catalog[p], disk[p])

(* No two rows claim one identity. *)
IdsUnique ==
  \A p, q \in Tracked(catalog) : catalog[p].id = catalog[q].id => p = q

(* A row keeps its identity as long as its file is there, through crashes, *)
(* resumed runs and retries; only restore-identity gives it another.       *)
IdentityKept ==
  [][\A p \in Tracked(catalog) :
       \/ ~Has(catalog', p) /\ p \notin OnDisk
       \/ Has(catalog', p) /\ (catalog'[p].id = catalog[p].id \/ job.cmd = "restore")]_vars

(* Bytes that rotted never pass for an edit: no command takes their hash   *)
(* into the row, or their date out of suspicion.                           *)
RotStaysSuspect ==
  [][\A p \in rotten \cap Tracked(catalog) : Has(catalog', p) =>
       catalog'[p].sha = catalog[p].sha /\ Fresh(catalog'[p], disk[p])]_vars
=============================================================================
