# Tailvault in TLA+

Tailvault keeps large files out of git: a repository holds pointers and a lock
file, a *vault* (a directory on a node of a tailnet, reached over ssh or
Taildrive) holds the bytes. A vault that takes part in a *federation* has three
pieces of state under its base path:

| state | file | written by |
|---|---|---|
| blobs | `objects/<sha256>` | `Put` (never overwritten), `Delete` |
| catalog | `meta/catalog.toml` | overwritten as a whole, by every command |
| write-ahead log | `meta/wal/<seq>.toml`, `.done`, `.failed`, `pruned/<seq>` | `wal.Log` |

A repository adds three more: `tailvault.lock` in the working tree and on each
branch, the pointers that git commits, and `refs/<path>`, the version lists.

There is no server. Every command is a process on some client that reads and
writes these files call by call; all coordination is the log, whose pending
intents are the only locks. The hard part of the system is therefore what
interleavings and crashes of such processes do to these files.

## Inventory

| component | state | operations | hard behaviour | what makes it correct |
|---|---|---|---|---|
| log (`internal/wal`) | entries, markers, anchors | AppendIntent, MarkDone, MarkFailed, Read/Pending, Prune | clients race for a slot; list then get; crash inside Prune | the chain verifies; one pending operation per blob; a duplicate op id is refused; an append ends |
| backend (`internal/backend`) | files | Put, PutOverwrite, Get, Stat, List, Delete | Put is Stat then rename, over two remote commands | two Puts of one key leave the first |
| catalog (`internal/catalog`) | rows: id, sha, path, mode | Find, Upsert, Remove | overwritten from a copy read earlier | one path per file, rows of completed operations are not lost |
| vault put, rm, mv, sync-mode (`internal/cli`) | – | intent, blob, catalog, done, in an order of each command's own | crash between any two steps, another command between the read and the write of the catalog | what is listed is stored, git-mode files under their hash; every change is announced; the catalog is what the log says |
| federated gc (`internal/gc`, `cli/gc.go`) | – | plan, sweep | two looks at the log, one at the catalog; a deletion fails | only git-mode content no branch keeps and no operation holds is a candidate; no listed file loses its bytes |
| ops retry (`internal/ops`, `cli/ops.go`, `ingest/replay.go`) | – | complete an unfinished operation from its entry | the world moved on since | the operation ends as if it had not been cut short |
| rebuild-catalog (`ingest/replay.go`) | – | project the log to a catalog | log order against catalog order | the projection is the catalog |
| mv between nodes (`cli/vault_mv.go`), resolve (`internal/fed`) | two logs, two catalogs | eight steps; chase of `moved_to` | crash between nodes, members offline | never two live homes, never none; absence is claimed only when proved |
| vault get, pull and heal of a federated entry, restore-identity (`cli/vault_get.go`, `cli/pull.go`, `cli/heal.go`) | the member a lock entry names | look an id up, resolve, fetch, repoint | what was resolved is acted on later | what is found can be fetched; an id is given back once |
| vault init, scan, track, restore-identity (`internal/ingest`) | the disk, rows with hash, size and date of the last scan | ingest what is in the tree, catch up with edits, moves, removals | batches of done markers, resumption, files that change meanwhile, rot | a re-run ends in the same catalog; ids stay; rot is not an edit |
| verify (`internal/verify`) | – | compare catalog, log and files | three reads that are not atomic | an operation in flight is not corruption |
| lock file (`internal/lock`) | `tailvault.lock` of each branch | three-way merge, the shas that are referenced | any order of merges | no version is lost, both sides come to the same |
| push, pull, revert, plain gc (`internal/push`, `pull`, `history`, `gc`) | lock, blobs, version lists | upload, verify, record; keep-set over branches | crash between upload and lock; shas shared by paths and branches | what a lock names is stored and stays so |
| roster (`fed/roster.go`, `cli/fed.go`) | `[federation]` of each catalog | init, join, leave, evict, fanned out; merge | members offline during a fan-out, equal timestamps, one refusal of several | departures stay; federations do not mix; a change brings up to date whom it reaches |
| auth (`internal/auth`) | password hash | gate before each mutation | – | checked before anything is written |
| locations, config, rules, filters, pointers, hooks, git glue, setup, update, tailscale | files of one process | parse, format, install | none that concerns the above | – |

## Modules

| module | models | state ↔ code |
|---|---|---|
| `OpJournal` | what the log promises: a journal of operations, in which an operation begins only if it is not on record and no pending one shares a blob, is closed (done wins over failed), and is forgotten only once done and from the front | `journal` is `Log.Read` |
| `Wal` | `wal/log.go`, call by call, and the Put of `backend/ssh.go` | `slot`, `done`, `failed`, `anchors` are the files; `pc`, `job`, `view`, `cand`, `sweep` are the locals of a running call: which call, what `loadRaw` has fetched, the slot tried, what Prune still deletes |
| `VaultNode` | one node: blobs, catalog, log, and the commands put, rm, mv, sync-mode, gc, ops retry, rebuild-catalog | `objects`, `catalog`, `journal` are the node, `edited` the blobs whose bytes were edited in place; `pc`, `job`, `cat` the locals of a command, `cat` the catalog it read |
| `FileHome` | what a federation promises about a file: it lives at one member, moves in one step, or has been removed | `home` is the member that would serve it |
| `CrossMove` | `mvCross` of `cli/vault_mv.go` for one file, over the logs and catalogs of several members; what `vault rm` and `ops retry` do to such a file | `rows` are its rows in each `catalog.toml`, `objects` the members that store its bytes, `log` the logs; `pc`, `job` the locals of a command, `job.cat` a catalog it read |
| `Resolver` | `Resolve`, `fanout`, `follow` of `fed/resolve.go`, `Probe`, `Query`, beside the moves of `CrossMove` | `stage`, `toAsk`, `toTell`, `pointer`, `chain`, `dest` are where one resolution is, `held`, `moving`, `whole` what it has gathered, `verdict` and `where` what it says |
| `Consumer` | the commands a resolution is for: vault get, pull and heal of a federated entry, the federation check of restore-identity | `command`, `unread`, `seen`, `blind` are where the command is, `answer` what it comes to, `place` the member the lock names |
| `LockFile` | entries, the merge driver (`lock/merge.go`), the shas a lock refers to | – (operators) |
| `RepoSync` | several clones of a repository and the node they push to: push, pull, revert, gc, smudge, and git between them | `objects`, `refs` are the node, `tree`, `lock`, `head` a clone's files, its working lock, its branch; `pc`, `job` the locals of a push or a gc |
| `Roster` | fed init, join, leave, evict of `cli/fed.go`, the merge of `fed/roster.go` | `section` is the `[federation]` of each catalog, `up` who answers; `pc`, `job` the locals of a command |
| `Ingest` | vault init, track, scan, restore-identity and ops retry of a vault with a disk (`internal/ingest`) | `disk`, `rotten` are the files, `catalog`, `log` the vault, `pc`, `job`, `cat` the locals of the command |
| `Verify` | the three-way comparison of `verify/threeway.go`, beside `Ingest` | `row` is the row of the catalog it read, `seen` the size and date Stat found, `at` where it is |
| `MC...` | small instances | – |
| `WalProofs`, `VaultProofs`, `VaultSerialProofs`, `CrossMoveProofs`, `ConsumerProofs`, `RepoSyncProofs`, `RosterProofs`, `IngestProofs` | theorems about `Wal`, `VaultNode`, `CrossMove`, `Resolver` and `Consumer`, `LockFile` and `RepoSync`, `Roster`, `Ingest` and `Verify` | – |

`CrossMove` is the base of `Resolver`, which is the base of `Consumer`: one state
holds the moves, a resolution beside them and the command that asked for it.
`LockFile` is the base of `RepoSync`, `Ingest` that of `Verify`. `Wal` refines
`OpJournal`; `VaultNode`, `CrossMove` and `Ingest` use the log at the level of
`OpJournal`: append, mark and read are one step each. `CrossMove` refines
`FileHome`.

**Wal.** Each backend call is an action; what a client computes between two
calls belongs to one of them. `AppendIntent` is
`StartAppend, List, GetEntry*, GetAnchor*, PutStat, PutRename, ReadBackWon` with
the exits `AppendRefused` (duplicate, in flight), `ChainError`, and the loop
`ReadBackLost -> List`. `MarkDone`/`MarkFailed` are `StartMark`, the same gets,
`MarkPut`; `Prune` is `StartPrune`, gets, `PutAnchor`, `DeleteEntry*`,
`DeleteMark*`, `DropAnchor`. A client may `Crash` before any call; a backend
error that makes the call return has the same effect as a crash there. A digest
is the triple (slot, operation, client), an injective stand-in for the sha256 of
an entry.

**VaultNode.** Everything that touches the backend is a step of its own. The log
lock is per file id, not per path and not for the catalog, and nothing re-reads
the catalog before it is overwritten: the model keeps both. Files are named by
the path they were first put at (`ingest` derives the id from it); `Content`
gives their bytes and two files may share them. Op ids are modelled by `SameOp`:
which operations get the same deterministic id. The blob of a manual file may be
edited on the node (`Edit`): its bytes are then `Drift` of what its name says.
sync-mode to git hashes the blob (`SyncRead`), and if that is not the hash of the
row, the bytes are stored again under the true one (`Rehome`) and row and log entry
take it; the blob of the old name stays, and no row names it.

**CrossMove.** The eight steps that the comment of `mvCross` counts are `OutIntent,
InIntent, Transfer, Arrive, InDone, Reread, Depart, OutDone`, after `Mv`, which is what
`runVaultMv` looks at before (the source is resolved, the catalog of the destination
read, an existing destination refused). The catalog written by `Arrive` is the one read
by `Mv`; the one written by `Depart` is read again by `Reread`. An intent that is on the
log is taken up again in whatever state it is (`appendMoveIntent`), and `Crash` leaves
everything as it is. `Rm` is one step here: its crashes are explored in `VaultNode`,
where no move between members is. `Retry, RetryWrite, RetryDone` are ops retry on the
record of such a move: `ReplayOp` renames the row to `args["to"]`, which is a member's
name at the source (`Misnamed`) and absent at the destination (`Blank`, with which the
catalog can no longer be parsed). The bytes do not change, so the verification at the
destination succeeds.

**Resolver.** A reader changes nothing, so one resolution, begun at any time,
stands for all. `Ask` is the hint; `Probe` lets any subset of the members answer;
`QueryCatalog` and `QueryLog` are the two reads of one `Query`, of all members in
any order with moves going on in between; the pointers are followed one after the
other (`Follow`, `HopFound`, `HopMiss`, `HopLog`, `HopOffline`, `Astray`);
`NotFound` draws the conclusion, and `QueryFails` is any error. `held` are the
members seen to list the file; more than one is the ambiguity the code reports,
one is where it was found (`where`). `dark` are the shares that are not mounted
where the reader runs: of such a member the probe, the catalog and the log all
succeed, and show nothing.

**Consumer.** One command runs, chosen at any time. `vault get` with an id first
reads every catalog for it (`LookInto`, `LookBlind`, `NoMatch`), with a path looks
into the catalog of the member it names; pull and heal take the member from the
lock. All then resolve, with that member as the hint, and act: `Fetch` asks the
member that was named for the blob, `Heal` repoints the lock, `Restore` gives a
lost id back. Moves go on before, between and after.

**LockFile, RepoSync.** Paths, shas and times are numbers because the code orders
them. A push is `PushStart` (the tree is scanned), then path by path `KeepEntry`
(unchanged), `CarryEntry` (moved) or `StatBlob, PutBlob, VerifyPut`, the version
list `ReadRef, DeleteRef, PutRef`, and `FinishPush`, which adds the tombstones and
writes the lock; gc is `GcStart` (keep-set and plan) and `GcDelete` blob by blob.
Either may end at any step (`Abandon`). Git is what the user makes of it: edits,
`CommitAll`, `GitMerge` with the driver's merge of the locks and any choice of
files, `Checkout`. A file is bytes or a pointer to them; a checkout leaves pointers
and `Smudge` or `Pull` turn them into bytes. `refs` is written by pushes only, and
`objects[s]` is the content stored under the name `s`, which need not be `s`.

**Roster.** A command loads roster after roster of the members it knows and merges
them (`ReadRoster`), decides (`GiveUp`, `Plan`), asks each target for the password
(`Pass`, `Refuse`), and writes target after target (`Write`), the joiner last and
after its own password. Members go down and come up. Everything the merge looks at
is kept: when a member joined and its status. Time is a counter that each change
advances.

**Ingest.** Files have content and a date, rows hash, size and the date of the last
scan. vault init and track are `StartInit`/`StartTrack`, per file `TakeRecorded` or
`Hash, AppendIntent`, then `Flush` and `MarkDone` per batch; scan is `StartScan`
(the whole Diff, for which files are hashed), per change `SkipChange`,
`StampVerified` or `ApplyChange`, then the same flush and marks; `Restore` and
`Retry` join there too. Files are written, removed, renamed, and rot: their bytes
change and their date does not. An id stands for its genesis record: path and
content at first, and the operation, derived from the path by vault init and track
and drawn by scan.

**Verify.** The catalog is read (`ReadCatalog`), then the log (`ReadLog`), then of one
file size and date (`StatRow`), then its bytes (`JudgeRow`), with commands and edits
between any two; `Verdict` is what is said of it.

## Runs

| run | question | result |
|---|---|---|
| `wal_exclusive` | with two clients, two operations on one blob and one on another, two slots, crashes everywhere, no overlapping Puts of one slot and Prune on its own: does the log keep its promises? | holds; 1.26 million states |
| `wal_pruned` | one operation presented again and again, with Prune overlapping everything else: is what is on record still a journal? | yes: an append or a read may fail or go unseen, but nothing pending is forgotten and nothing is on record twice; 1.8 million states |
| `vault_serial` | one command at a time, four files of which two share content and two may be edited in place and made git-mode, five operations, crashes everywhere, sweeps that fail, ops retry of sweeps, moves and removals: is the catalog the projection of the log, is what is listed stored, and what is git-mode under its hash, is every change announced? | holds; 2.1 million states |
| `vault_overlap` | ... and with two puts of different files at a time? | a row is lost |
| `cross_lost` | one command at a time moves a file between three members, removes it, asks for old moves again, retries their records, dies anywhere: is the file ever lost? | no; 0.5 million states |
| `cross_resolve` | ... without asking again for what is done and without ops retry, while vault get, pull, heal or restore-identity reads catalog by catalog and log by log and acts on it: has the file one live home, is missing or unknown said only of a removed file, is what is found there to be fetched, is an id restored once, does every command end? | yes; 0.48 million states |
| `cross_false_miss` | ... and when a second move begins during the resolution? | a file that is there is called missing |
| `repo` | two clones edit, push call by call, commit, merge, check out, pull, revert and sweep, and die anywhere: is what a lock names stored, do merges agree, can what is pushed be pulled, is preserved content kept? | yes; 0.54 million states |
| `repo_pull` | ... and does pull spare what was edited and not pushed? | no |
| `roster` | two clients that know different members create federations, join, leave and evict, member by member, while members come and go: do departures stay, do federations keep apart, does a change reach everybody it should, does a refused one reach nobody? | yes; 2.2 million states |
| `ingest` | vault init, track, scan, restore-identity, ops retry on files that are written, renamed, removed and rot, dying anywhere, with verify beside them: is the catalog what the log tells, is an edit made between commands seen, do ids stay, is rot told from edits? | yes; 3.5 million states |
| `ingest_ignored` | ... and when a tracked file matches an ignore pattern? | scan drops its row and its id |

### What the passing runs check

`Wal`: `TypeOK`; `ChainIntact` (the files verify in every reachable state, so
also after a crash anywhere in Prune); `LockTable` and `MutualExclusion` (the
log as a lock per blob, as the store says and as the clients believe);
`RetriesAdvance` (the loop of AppendIntent goes to a higher slot each round: with a
finite number of other entries it ends); `JournalSpec` (the files implement
`OpJournal`; run with Prune overlapping, proved without). What a reader makes of keys
that vanish between its List and its Get is not among them: it may report a broken
chain, or see none, when a Prune overlaps, see the disagreements below.

`VaultNode`: `TypeOK`; `ProjectionFaithful` (when all is quiet, rebuild-catalog
would change nothing); `Accounted` (a row without bytes belongs to an unfinished
operation: removals, sweeps and their retries, of files that share bytes, take none
from another file); `GitIsHashed` (a git-mode file is stored under the hash of its
bytes, though it was edited in place before it became one, and whatever died and was
run again); `IdsUnique` (a file has one path); `IntentFirst` (a file's row changes only
while an unfinished operation names it, a blob is stored or deleted only while one
names its hash or a file listed with it). The converse of `Accounted` does not hold:
bytes that nothing lists are left by a sync-mode that found drift, and by ops retry of
a removal. Nor is it checked that gc spares manual files, which it does not do in the
cases listed with the disagreements.

`CrossMove`: `MoveTypeOK`; `NeverLost` (whoever lists the file has its bytes, and
somebody lists it until it is removed); `OneHome` (never two live homes and never
none: a second row is that of a move between its two catalog writes, or cut short
there, and the log of that member says so); `HomeSpec` (to whoever counts live
homes, the eight steps are one step of `FileHome`).

`Resolver` and `Consumer`: `UseTypeOK`; `MissingIsGone` (absence is concluded
neither from members that did not answer nor from catalogs read before the file
came and after it left); `ServesOrGone` (the member a resolution named, and the one
the lock names, still has the bytes when the fetch comes, though the file may have
moved on); `UnknownIsGone` (an id in no catalog is that of a removed file, when no
move was at work during the lookup; moves cut short before do not matter);
`RestoredOnce` (restore-identity never gives an id to a second row); `Answered`
(a command ends, wherever old pointers lead and whatever moves).

`RepoSync`: `TypeOK`; `NamedIsStored` (what any lock names, committed or not, live
or a tombstone, is stored under its sha: push dies between upload and lock, other
branches and paths share shas, gc sweeps); `MergesAgree` (two heads merge to the
same content and versions on either side; `at`, `history` and `preserve` of an entry are
not compared); `GreenPush` (after a push that succeeds every file of the
tree can be pulled); `ForgetsNoPreserved` (a push drops no preserved content but for
other content, whatever pushes and merges came before).

`Roster`: `TypeOK`; `RowsGrow` (no write of a roster takes a row of a catalog back,
so a departure stays until a later join); `OneFederation`; `ChangeConverges` (a
change that succeeds leaves every active member within reach with all that any
catalog within reach knows, those included that had missed earlier changes);
`RefusedTouchesNothing` (when one of the reached members refuses the password, no
member has the change; the joiner is asked when the others are written, and its
refusal is outside the property).

`Ingest` and `Verify`: `TypeOK`; `LogTellsAll` (a row no pending operation names is
the one the log projects to, wherever init, scan or retry died); `EditsAreSeen` (a
file written between commands differs in size or date from its row, so the next scan
looks at it); `LogTellsAll` compares rows but for their size, which a replayed scan
does not restore (`SameFile`);
`IdsUnique`, `IdentityKept` (a row keeps its id as long as its file is there;
copies, swaps and moves mint or keep one each); `RotStaysSuspect` (no command takes
in the bytes of rot); `CorruptMeansRot` (verify calls the file of a row that still
stands corrupt if and only if it rotted, whatever ran between its reads, except when
the file itself was written between its Stat and its hash, `StatHolds`).

### Assumptions of the passing runs

Most are constants, so that dropping one takes a change in a .cfg only. Where it
says what happens without one, TLC showed it.

* `RacingPuts = FALSE`: no two clients are between the Stat and the rename of
  one slot's Put. Nothing in the ssh or the Taildrive backend prevents it; both
  stat the key, upload to a temporary file and rename. With `TRUE`,
  `MutualExclusion` does not hold.
* `RacingPrune = FALSE` (not in `wal_pruned`): Prune runs on its own. No command
  calls Prune at this commit, so nothing says when it would run.
* `Client = {c1}` in `vault_serial`: commands of one node do not overlap, which
  nothing enforces (`vault_overlap`). Two commands at a time with operations on
  one file are excluded by the log; on different files they are not.
* `Reuse = FALSE`: a command is not repeated with the op id of a done one. With
  `TRUE`, neither `IntentFirst` nor `IdsUnique` holds: a file that is put, moved, and
  put again where it was has two rows.
* `PathClash = FALSE`: no command uses a path that another file's unfinished
  operation names. With `TRUE`, a move that was cut short and is retried later
  overwrites a file put at its destination in between.
* `MayBeGit`: a file that becomes git-mode shares its bytes with none. If it does,
  a sweep of it takes the bytes of the other, and `Accounted` does not hold.
* `Retryable`: ops retry is used on sweeps that were cut short or failed, and on moves
  and removals that were cut short. Not on puts: retry does not look at the bytes,
  which `ReplayOp` documents as its caller's part, so a put that died before its blob
  becomes a row with no bytes, and `Accounted` does not hold.
* `Calm` in `vault_serial`: blobs are edited between commands, and not while an
  unfinished operation names a file of theirs. Without it neither `GitIsHashed` nor
  `IntentFirst` holds: an edit between the hash of a sync-mode and its catalog write
  makes the hash stale, and a sync-mode that is resumed after an edit records a hash
  that its log entry, which is the one of the first attempt, does not have.
* `Client = {cli}` in `CrossMove`: with two, a mover that resolved its source
  before the other's intent starts from a home the file has left.
* `Late = FALSE`, `Retries = FALSE` in `cross_resolve`, not in `cross_lost`: a move
  is begun, or taken up where it was cut short, but not asked for again once it is
  done, or once the destination has gone on to something else (`Timely`), and ops
  retry is not used on it. With `Late = TRUE` a resumed move puts the row back at a
  destination that the file has left, and there are two live homes; with
  `Retries = TRUE` rows get the paths described above.
* `MaxMoves = 1` in `cross_resolve`: one move is at work while a command reads.
  With two, `cross_false_miss`.
* `Share = {}` in `cross_resolve`: all members are reached by ssh, or mounted.
  With a share that is not mounted, `MissingIsGone` does not hold.
* `still` in `UnknownIsGone`: no move was at work during the lookup. Without it,
  the property does not hold: a move takes the file from a member not yet read to
  one already read.
* `GcAlone` in `repo`: gc runs when no push is under way and every lock is
  committed, in a clone that has all branches. It is the premise of the keep-set,
  which is read from local branches; without it, `NamedIsStored` does not hold.
* `Still` in `repo`: files are left alone while a push runs. A file is read to be
  hashed and again to be uploaded; if it is edited in between, neither
  `NamedIsStored` nor `GreenPush` holds.
* `Alone`, `Steady`, `Sponsors = {}` in `roster`: commands run one at a time,
  members come and go between them, and `join --via` is not used. With two commands
  at a time, or a sponsor that missed an eviction, `RowsGrow` does not hold.
* `Calm` in `ingest`: files change between commands, none while the operation of a
  scan on it is unfinished, and none takes the place of a newer tracked one. A scan
  stamps what it hashed with the time at which it applies the change, so an edit in
  between is older than the stamp, and `EditsAreSeen` does not hold. Nothing in the
  code ensures that; the property is about what is edited between commands, with
  operations cut short, resumed and replayed in between. verify is no command here:
  files change while it runs.
* `StatHolds` in `CorruptMeansRot`: verify takes size and date of a file before it
  reads its bytes. A file that is written in between is called corrupt, since its date
  is the old one and its bytes are new; without this clause the property is false.
* `Tidy`, `Once` in `ingest`: what was cut short is completed before other commands
  run, vault init and track by themselves and the rest by ops retry; a path is
  ingested by name once. With either `FALSE`, `IdentityKept` does not hold: an
  operation completed late, or an init run again, puts back the row it recorded,
  over an id that was restored meanwhile (`ingest/bootstrap.go:145`), or, with `Once`
  `FALSE`, over an edit that a scan took in, which breaks `LogTellsAll` too.
* `Ignored = {}` in `ingest`; otherwise `ingest_ignored`. `Receipts` there has the
  record of one drawn operation; with two, `LogTellsAll` does not hold; with that of a
  derived one (`MCByName`), `IdsUnique` does not.

### Bounds

`MaxSeq = 1` gives two slots: a race for one, a successor that links to it, and
a Prune of one entry that leaves an anchor and a live tail. `MaxOps = 5` in
`vault_serial` is one more than the longest story the commands tell about a file
(put, move, sync-mode, gc, and one more to meet what they left); on a full log no
new operation is asked for. Four paths let two pairs differ in whether they share
content; moves use the same paths as destinations. `SYMMETRY` permutes the clients
and the two operations on one blob in `MCWal`, in `MCVaultNode` a with b, and g with
h together with their contents, and the clones in `MCRepoSync`; all properties there
are invariants and action properties and none tells the permuted values apart.

Three members are the fewest among which a file moves on from where it came, and
around. `MaxOps = 2` records on each log, and one removal, allow a member to be
left and come back to. `MaxHops = 2` stands for `maxMoveHops = 4`: with three
members a chain of two hops goes everywhere, and the next one closes a cycle. A
chain that is too long without being a cycle takes more members than hops and does
not occur; it ends in the same error. `cross_lost` has one path, to have room for
retries and late moves, and permutes the members (the theorem holds for any number
of paths); `cross_resolve` checks liveness, so it has no symmetry, and fixes the
first home and its path instead.

`repo` has two clones, the fewest with branches that diverge, two paths, of which
one keeps history and the other is preserved, two contents, two changes of files and
three pushes: a push, one that dies and one that meets what it left. `Clock` gives
two of the pushes one time, so that ties are broken by sha, and in no order. The
theorems of `RepoSyncProofs` have no such bounds. `roster` has three members, of
which each client knows two or three, two federations and four changes: three join,
one departs. `ingest` has two paths and two contents of one size (a size that differs
only makes drift easier to see), three log entries, one write of a file besides
renames, removals and rot, and one file at the beginning; a batch is one file, so
that an init of two flushes twice.

### Fairness and deadlock

Fairness is assumed of the reader in `cross_resolve` only: a command that can take a
step takes one, which is what a running process does, since every call returns, with
an answer or an error. Nobody else needs to go on: movers may stop for good anywhere.
In `Wal`, progress of AppendIntent is stated as the measure `RetriesAdvance`, which
needs no fairness. The specifications of `Wal` and `VaultNode` never stop, and their
checks for deadlock are on; the others stop when their bounds on logs, pushes,
changes or writes are reached and nothing is in hand, so they are off.

## Proofs

`WalProofs` proves, for every number of clients, operations, blobs and slots,
each theorem of the form `Exclusive => (Spec => ...)`, where `Exclusive` is
`RacingPuts = FALSE /\ RacingPrune = FALSE`: `TypeCorrect`, `ChainHolds`,
`LockTableHolds`, `RoundsAdvance` and `Refinement`. `MutualExclusion` follows too
(the lemma `Exclusion`), but there the hypothesis does the work: whether two clients
can own one slot is decided by the Put of the backend, which does not prevent it.

All rest on `Inductive`, the invariant

    IInv == TypeOK /\ CallInv /\ PruneAlone /\ RenameAlone /\ StoreInv
            /\ \A c \in Client : LocalOK(c)

`StoreInv` is about the files: the chain verifies, pending operations have
disjoint blobs, markers belong to entries or lie below an anchor. None of it is
inductive alone, because a step writes what its client computed from a view
collected earlier. `LocalOK(c)` says what of that memory still holds: what was
fetched is still there and leaves no hole below it (`ViewOK`), an entry about
to be written is still admissible in its slot (`RenameOK`), a slot that was
tried is taken (`TriedOK`), an owner that nobody released is on record and
pending (`OwnOK`), what Prune deletes lies below an anchor that stays
(`SweepOK`). `RenameAlone` holds because all clients past their Stat are in
one slot, the next one, and Puts of one slot do not overlap. One lemma per kind
of step preserves `IInv`; `Refinement` then maps each step to `Begin`, `Close`,
`Forget` of `OpJournal` or to a stutter. The only assumption about the constants
is `WalAssumption`.

`VaultProofs` and `VaultSerialProofs` are about one node, for any paths, contents
and number of operations. `VaultTypes` (`Spec => []TypeOK`) holds however commands
overlap, and `ReplayCommutes` of any two operations that share no file and no path.
Under `OneAtATime`, which is what the constants of `vault_serial` satisfy (one
process; `Reuse`, `PathClash`, `Calm` and `MayBeGit` as explained under the
assumptions of the runs, a blob edited twice being as one edited once), except that
the run also retries sweeps that failed, `VaultSerialProofs` proves

* `CatalogProjected`: `Spec => []ProjectionFaithful`;
* `AllAccounted`: `Spec => []Accounted`, and `OnePathEach`: `Spec => []IdsUnique`;
* `GitHashed`: `Spec => []GitIsHashed`;
* `Announced`: `Spec => IntentFirst`.

They rest on `SerialAlways`, the invariant

    NodeInv   == TypeInv /\ Log(journal) /\ Chain(journal) /\ Fits(journal, K)
                 /\ Sound(journal, K, catalog, objects) /\ \A c \in Client : Ready(...)
    SerialInv == NodeInv /\ Hashed(journal, K, edited) /\ \A c \in Client : AsRead(...)

where `K` is the projection of the log. The projection replays operations in the order
of their intents, but they are done in another order: what was cut short is resumed or
retried after later ones. So `Chain` says that a pending operation is still apt for each
of the catalogs the log went through since its entry, and marking it done replays it at
its place in the log with the same outcome as at the end, because it commutes with all
that came after. `Sound` relates the real catalog to `K`: each of its rows is the one of
`K` or what a pending operation makes of it (`Explained`), each row of `K` that no
unfinished operation names is there (`Complete`), a row that is in the way of a pending
operation is one gc has swept (`Shadowed`), a file that is moved or changes its mode
keeps its bytes meanwhile (`Stored`), and rows have blobs up to unfinished operations
(`Balanced`). `Ready` says what of a command's memory still holds at each of its steps.
`Hashed` says of the blobs that were edited that no git-mode row of `K` has the name of
one, and that a pending sync-mode, which may be resumed, still finds what its log entry
says it found; `AsRead` the same of the one that runs. All that is said of a sweep
is said while it is pending; one that failed has lost its lock, and its retry meets
files that were moved or made manual since: that stays with TLC, in the run. Each
handler has a lemma that preserves the invariant and says what it does to the node
(`Change`: nothing, the rows of its own pending operation, one of its blobs, or a
rebuild), from which `IntentFirst` follows. TLC checked `SerialInv` with four
operations.

`Projection` is recursive. The induction theorems of the library cannot be used, but
least-element induction on a set can (`Induction`, from `WFMin`), and it is enough to
show that the catalogs a log goes through are the only function that obeys the
equations (`HistoryUnique`), which is all the proofs use.

`CrossMoveProofs` proves, for every number of members, paths and records,

* `MoveTypeCorrect`: `MoveSpec => []MoveTypeOK`, for any number of clients;
* `FileNeverLost`: `OneAtATime => (MoveSpec => []NeverLost)`, whatever is asked for
  again or retried;
* `OneHomeHolds` and `HomeRefinement`: `OneAtATime /\ Prompt => (MoveSpec =>
  []OneHome)`, and `=> HomeSpec`.

`OneAtATime` says that there is one client, `Prompt` is `~Late /\ ~Retries`; the
assumption about the constants is `CrossMoveAssumption`. `NeverLost` becomes
inductive with `HandOK`: once the bytes and the row are at the destination they
stay until the source has let go. `OneHome` needs to know why a member that lists
the file may be passed over, and that no old record makes it seem so later:

    HomeInv == TypeInv /\ NodeInv /\ \A c \in Client : OnTheWay(c)
    NodeInv == LogInv /\ Arrived /\ OnePath /\ OneHome

`LogInv`: a pending record is the last of its log (it locks the file there), each
move has one record on a log, and what is announced at the destination is announced
at the source. `Arrived`: if the last record of a member is an arrival that is done,
or of which there is a row, that row is there; this is what refuses to resume a
move that has arrived. `OnTheWay` says, for each of the eight steps, which records
are open and what the two catalogs hold. One lemma per step preserves `HomeInv` and
shows what it does to the set of live homes: nothing, except that `Arrive` replaces
the source by the destination and `Rm` empties it (`LiveStep`); the refinement
follows from that. TLC checked `HomeInv` before it was proved.

`ConsumerProofs` proves, for every number of members, paths, records and hops,

* `UseTypeCorrect`: `CSpec => []UseTypeOK`, and `ReadTypeCorrect`: `Spec =>
  []TypeOK`, whoever moves the file and whatever is out of reach: what the log
  names as a destination is a member (`OutOps`, `MovedToType`);
* `ConsumerReads`: `CSpec => Spec`, a command is a resolution to whoever looks at
  the reads, so that what holds of `Resolver` holds of `Consumer`;
* `ServedUntilRemoved`: `OneAtATime => (CSpec => []ServesOrGone)`, also when moves
  are retried or asked for again, and with shares that are not mounted;
* `UnknownOnlyIfGone`: `OneAtATime /\ Share = {} => (CSpec => []UnknownIsGone)`;
* `MissingOnlyIfGone`: `OneMover => (Spec => []MissingIsGone)`, and
  `NeverGivenTwice`: `OneMover => (CSpec => RestoredOnce)`.

`OneMover` is `OneAtATime /\ Prompt /\ MaxMoves <= 1 /\ Share = {}`, the conditions of
the run `cross_resolve`; with two moves in one resolution, or a share that is not
mounted, TLC refutes `MissingIsGone`. Absence is concluded from reads of
different times, so the invariant says what has been read, and where the file went
since:

    ReaderInv == ReadTypeInv /\ HomeInv /\ dark = {} /\ Counted /\ SearchInv /\ Missing

`SearchInv`: while every member has answered, none of those read lists the file or
has a move of it pending, and the reader has not concluded, whoever lists the file
has yet to be read or is its home; and if the home has been read, the file came there
since by a move that is the last record of the log it left (`Moved`), and that log
has yet to be read, or its pointer to be followed, or the reader is on its way there
(`ToldOf`). When nothing is left to read or follow, there is then no home. `Counted`
ties the moves at work to the bound: one that arrived leaves no room for a second.
`ServesOrGone` rests on `LostInv` and on bytes staying where they are (`ObjectsStay`),
`UnknownIsGone` on `LookInv`: nobody at work, and all who list the file still ahead.
TLC checked `ReadInv` on the instance of `cross_resolve` before it was proved.

`RepoSyncProofs` proves, for any two locks, `MergeIsSymmetric` and
`MergeLosesNothing` (the union of the versions survives whichever content wins),
and for any clones, paths, contents, clocks and rules `RepoTypeCorrect` and
`MergesAgreeHolds`; under `GcAlone` and `Still` also `NamedIsStoredHolds` and
`GreenPushHolds`. These two rest on

    RepoInv == TypeOK /\ ScanCovers /\ Safe
    Safe    == Whole /\ NamedIsStored /\ InHand /\ Sweeping

`Whole`: what is stored is stored under its own sha. `InHand`: what a push has
recorded so far is stored and covers the files it has visited, and what it found or
uploaded is still there; that is what lets the lock be written last. `Sweeping`:
nobody pushes while a gc deletes, and no lock names what it deletes, for which the
keep-set of all branches is needed. A merge, checkout or revert names nothing that
was not named by a lock or its versions.

`ForgetsNoPreservedHolds` needs `Still` alone, gc may run at any time:

    CarryInv == TypeOK /\ ScanCovers /\ \A c \in Clone : Carries(c)

`Carries`: while a push runs the tree is as it was scanned, and the content of each
path it took for the source of a move is on record under a path it has visited. So
a path that is gone at the end is named by its own entry, or by that of the path it
moved to.

`RosterProofs` proves of any rosters that the merge commutes, associates and repeats
(`MergeCommutes`, `MergeAssociates`, `MergeRepeats`: it is the maximum in the total
order of `LeOrder`, row by row), `RosterTypeCorrect`, and
`RowsGrowHolds`, `OneFederationHolds`, `ChangeConvergesHolds` and `RefusalHolds` for
any members, clients and registrations, under `OneByOne` (`Alone`, `Steady`, no
sponsors). The invariants are

    FanInv == TypeOK /\ Named /\ Lone /\ Store(section, now) /\ \A c \in Client : Ready(c)
    DueInv == FanInv /\ \A c \in Client : OnTime(c)

`Ready`: the roster a command holds is later, row by row and in the same federation,
than each catalog it has read (while it reads) and may write (from then on); this
needs that rows are no later than the clock (`Store`), so that the new row is later
than all. `OnTime`: what the command has still to write and what it has written make
up all active members it reaches. No part of it holds with two commands at work: the
second would write what it read before the first.

`IngestProofs` proves of any files, contents, receipts, batch size, log and clock
`IngestTypes` (`Spec => []TypeOK`, whoever changes files when), and under `Orderly`

* `IdsApart`: `Spec => []IdsUnique`;
* `IdentitiesKept`: `Spec => IdentityKept`, and `RotSuspected`: `Spec => RotStaysSuspect`;
* `CorruptIsRot`: `VSpec => CorruptMeansRot`, of verify beside all of them.

`EditsAreSeen` follows as well (the lemma `EditsSeen`); that no stamp covers bytes
written after the hash is `Calm`, a hypothesis.

`Orderly` is `Calm /\ Tidy /\ Once`, no path is ignored, and no receipt names an
operation that a path derives; without the last two TLC refutes `IdentityKept`
(`ingest_ignored`) and `IdsUnique` (of `MCByName`). The invariant is

    IInv == TypeInv /\ EntryInv /\ OpenInv /\ DiskInv /\ Rows(catalog)
            /\ (~Idle => Rows(cat) /\ Keeps /\ ToName /\ ToApply)

What a command writes at its `Flush` was computed before, from a catalog it read, a
disk it hashed and a log it replayed, and what it journaled may be done by another
command after it died. So `Rows(k)` is said of the catalog and of the one in memory
alike: ids differ and are on record (`Born`), no stamp covers bytes that were not
hashed (`Unseen`), and each operation under way finds its rows as they were before it
or as it leaves them (`Fit`); `InPlace` says the same of its files, and `OpenInv` that
operations under way are of different files. `Keeps` relates the catalog in memory to
the one it replaces, `ToName` and `ToApply` say that what is left to do is still as it
was found: each change that is applied, marked or retried is of a path no other
touches. Writing a row keeps all of it (`PutRow`, `DropRow`, `MoveRow`,
`FitElsewhere`), and there is a lemma for each handler. TLC checked `IInv` on the
instance of the run `ingest` before it was proved.

That the catalog is what the log says is proved twice, under `Orderly`:

* `GivenTells`: `Spec /\ [][GivenOnce]_vars => []LogTellsAll`, whatever records are
  held, as long as no record is given back that some row still has in the replay;
* `LogTells`: `Spec => []LogTellsAll`, if all records are one (`OneReceipt`), because
  then no step breaks `GivenOnce` (`OneIsGivenOnce`). The run `ingest` has one record.

restore-identity does not see to `GivenOnce`: it looks for the id in the catalog, not
in the log. Without it the property is false, with two records of two files. What
makes it hard is that operations are done in another order than they were journaled
in, by the commands that complete what others began, and are replayed in the order of
the log: marking an operation changes every catalog the replay goes through from
there on. The invariant is `IInv` with

    TellInv == Story /\ Grounded(Projection) /\ Tells(catalog)
               /\ (~Idle => Tells(cat) /\ Owes)

`Story`: an operation under way finds, in each catalog the replay goes through since its
entry (`Past`), what it found when it was journaled (`Before`), and whatever was
journaled later is of other paths and ids (`Away`). Two operations that are `Away` from
each other commute (`ReplayedCommute`), so what is marked late has the effect at the end
of the replay that it would have had in its place (`MarkedPast`, `DonePast`).
`Tells(k)`, of the catalog and of the one in memory: a row at which nothing is under way
is the one of the replay, except that it may have an id already whose restore is
pending, and for ever will be (`Renewed`). `Grounded`: no id is at two rows of the
replay, and each is on record. `Owes`: what a command will mark is made in its catalog
(`Effected`), and written by the time it marks. `TellStep` has one lemma per handler;
handlers that journal rest on `AppendTold`, those that leave the log alone on
`SameLogTold`. That the replay of a log one entry longer, or with one entry marked, is
as said follows from its defining equations, which have one solution (`PastAs`). TLC
checked `TellInv` with three and four log entries before it was proved.

All safety properties of the passing runs are proved, two of them as lemmas, each under
the assumptions said. Model-checked only: `JournalSpec` with Prune overlapping
(`wal_pruned`), `vault_serial` with retries of failed sweeps, and liveness (`Answered`),
which is out of the prover's reach, as is ENABLED.

## Where code and comments disagree

Four are runs that TLC refutes; `PROJECT.json` quotes the lines.

* `wal/entry.go:9-10` operations on different blobs are independent: not while
  each overwrites the whole catalog (`vault_overlap`).
* `fed/resolve.go:43` missing is said with all members reachable and no move
  pending: the chase does not look at the pending moves of the members it comes to
  (`cross_false_miss`).
* `tasks/task-15-pull.md:7` pull materialises what is a pointer or missing: it
  replaces every file that differs from the lock (`repo_pull`).
* `ingest/ignore.go:3-6` an explicit track always beats an ignore: not in a scan
  (`ingest_ignored`).

Others show when a constant of a passing run is changed, or a clause of a property is
dropped:

* `wal/log.go:74-77` "the slot file IS the lock claim": not with a Put that is a
  Stat and a rename (`RacingPuts`). An append that overlaps with a Prune may see an
  empty log and start a second chain (`wal/log.go:91-93`), and an append that lost
  its slot to the same op id believes it won (`wal/log.go:243-244`).
* `wal/entry.go:3-4` every mutating op appends an intent before touching
  anything: not when its op id is that of a done one (`Reuse`).
* `gc/fed.go:71-72` manual files are categorically un-collectable: not when a
  git-mode file has the same bytes (`MayBeGit`); nor when a sweep failed, its file was
  made manual, which a failed operation does not lock, and the sweep is retried
  (`cli/ops.go:321-332` deletes by the ids of the entry).
* `cli/vault_syncmode.go:142` hashed on the node "so gc/verify never see a stale sha":
  not if the blob is edited between that hash and the catalog write; and a sync-mode
  that is resumed after another edit records a hash that its log entry does not have
  (`Calm`).
* `verify/threeway.go:232` content that differs with size and date unchanged is rot: also
  an edit that falls between the Stat (273) and the hash (286) of the file (`StatHolds`).
* `cli/vault_common.go:170-172` a share is reachable iff its base path holds a
  catalog: the probe only looks whether Stat fails (`Share`).
* `cli/vault_common.go:233-237` an id no active member lists is missing, "so the
  id-prefix lookup can never report a silent miss": catalogs are read one after the
  other and without the logs, and a file may move past the reader (`still`).
* `push/push.go:1-4` a green push guarantees that the bytes landed: of a file that
  is edited between its hash and its upload, other bytes land (`Still`).
* `cli/fed.go:337` "if it ever returns, the roster (evicted) wins": not over a
  `join --via` a sponsor that missed the eviction (`Sponsors`).
* `tasks/task-48-restore-identity.md:145` an id is never restored into two live
  entries: after a vault was rebuilt, a copy may be given the id of a file that is
  then ingested by name, and so gets the same id again (`Receipts <- MCByName`). It
  showed while `IdsUnique` was being proved: nothing keeps a derived id from being
  taken (`ingest/bootstrap.go:227`, `track.go:119`).
* `docs/how-it-works.md:42` the catalog is rebuildable from the log: not after a file
  was given id 1 and then id 2, by a restore-identity that died between its catalog
  write and its done marker (`ingest/restore.go:96`, `:99`), and id 1 went to another
  file. The replay has id 1 at both, and a later move of it is replayed of whichever
  row comes first (`ingest/replay.go:313`), so the rebuilt catalog keeps a row at the
  old path. It showed while `LogTellsAll` was being proved; TLC finds it with
  `Receipts` of two records, three paths of which two have files of one content,
  `MaxTime = 0` and `MaxOps = 6`, in 27 steps.

And others are seen in the code as it was modelled:

* `EDGE-CASES.md:641-643` a crashed move that is run again resumes to completion:
  not once its row is at the destination, which then exists (`cli/vault_mv.go:514`).
* `tasks/task-20` calls the list in `refs/` append-only: it is deleted and put again
  (`history/history.go:99`), and a push that dies in between loses it; the next one
  records only its own version there. The versions in the lock stay.
* `cli/fed.go:463` members that were offline "converge on a later contact /
  `ops retry`": a repeated command finds nothing to do, and ops retry has no executor
  for roster operations; only another change, of any member, brings them up to date.
  The joiner's own password is asked when all others are written.
* restore-identity that dies after its intent keeps the lost id locked: nothing
  completes or fails that operation.
* `cli/vault_mv.go:452-453` the blob that drift leaves behind is "left for GC to reclaim":
  the gc of a federation only considers blobs that a git-mode row names
  (`gc/fed.go:88-94`), so it never goes.
* ops retry of a removal that was cut short before its blob was deleted takes the row
  away and marks it done (`ingest/replay.go:87-88`): the bytes stay, and nothing lists
  or collects them.
* `ingest/bootstrap.go:143-144` vault init is "idempotent and resumable to a
  byte-identical catalog": one that is run again after a scan absorbed an edit puts back
  the hash of its own entry (`205-212`, `Once`).
* `lock/merge.go:20-21` a merge is "byte-identical regardless of input ordering": when
  both sides have the same sha, our `pushed_at`, `history` and `preserve` stay (35-38).
* verify reads the catalog before the log: a vault whose first catalog is written in
  between is reported to have none.

## Plan

Done: the log (`Wal`, `OpJournal`), one node and its commands (`VaultNode`), moves,
resolutions and what they are for (`CrossMove`, `FileHome`, `Resolver`, `Consumer`),
repositories (`LockFile`, `RepoSync`), rosters (`Roster`), ingest and verify
(`Ingest`, `Verify`), and the proofs above. What is left, the most valuable first:

1. `VaultNode` and `Ingest` over one vault: scan beside put, rm and gc, and of both that
   the catalog is the projection of one log.
2. Federated entries in `RepoSync`, whose pull is in `Consumer`.

### Not modelled

`update`, `setup`, `tailscale` (installers and discovery), `config`, `rules`,
`locations`, `pointer`, `tserr` (formats and wrappers of one process), printing of
commands, vault ls, search and stat, the advisory resolution cache, hashing of
passwords. A manual file that drifted and gets its true hash when it is moved between
nodes (`rehomeDriftedObject`). `vault init --select` is a choice of files. Below the
level of `Wal`: temporary file names that two uploads of one key share, and uploads
cut short by a lost connection. Roster operations on the logs of members, which lock
nothing. Of verify, the comparison with the lock and the single reads of `verify.Run`.
