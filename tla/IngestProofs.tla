----------------------------- MODULE IngestProofs -----------------------------
(***************************************************************************)
(* Proofs about Ingest.tla, for any files, contents, log and clock.        *)
(***************************************************************************)
EXTENDS Verify, WellFoundedInduction, TLAPS

-----------------------------------------------------------------------------
(* Types *)

(* What a scan plans to do of the rows of k: to the row of ch.old, if there *)
(* is one; no two changes are of the same path.                            *)
Sound(ch, k) ==
  /\ ch.kind # "moved" => ch.old = ch.path
  /\ ch.kind # "added" => Has(k, ch.old)

Apart(ch, dh) == {ch.old, ch.path} \cap {dh.old, dh.path} = {}

PlanOf(S, k) ==
  /\ \A ch \in S : Sound(ch, k)
  /\ \A ch, dh \in S : ch # dh => Apart(ch, dh)

JobInv ==
  /\ pc = "intent" => Left # {} /\ job.sum \in Sha
  /\ pc = "apply"  => job.changes # {} /\ PlanOf(job.changes, cat)

TypeInv == TypeOK /\ JobInv

LEMMA SizeFacts ==
  /\ Sizes \subseteq Nat /\ None \notin Sizes /\ None \notin Sha /\ None \notin Path
  /\ \A s \in Sha : Size[s] \in Sizes
  /\ MaxOps \in Nat /\ MaxTime \in Nat /\ BatchN \in Nat \ {0}
  /\ None \notin Row /\ None \notin DiskFile
BY IngestAssumption, NoneAssumption DEF Sizes

LEMMA HasRow ==
  ASSUME NEW k \in Catalog, NEW p \in Path
  PROVE  /\ Has(k, p) <=> k[p] \in Row
         /\ ~Has(k, p) <=> k[p] = None
         /\ Has(k, p) => /\ k[p].id \in Id /\ k[p].sha \in Sha /\ k[p].size \in Sizes
                         /\ k[p].scanned \in Time
BY SizeFacts DEF Has, Catalog, Row

LEMMA HasFile ==
  ASSUME disk \in [Path -> DiskFile \cup {None}], NEW p \in Path
  PROVE  /\ p \in OnDisk <=> disk[p] \in DiskFile
         /\ p \notin OnDisk <=> disk[p] = None
         /\ p \in OnDisk => disk[p].sha \in Sha /\ disk[p].mtime \in Time
BY SizeFacts DEF OnDisk, Tracked, Has, DiskFile

LEMMA WithTyped ==
  ASSUME NEW k \in Catalog, NEW p \in Path, NEW r \in Row
  PROVE  /\ With(k, p, r) \in Catalog
         /\ \A q \in Path : With(k, p, r)[q] = IF q = p THEN r ELSE k[q]
BY DEF With, Catalog

LEMMA WithoutTyped ==
  ASSUME NEW k \in Catalog, NEW p \in Path
  PROVE  /\ Without(k, p) \in Catalog
         /\ \A q \in Path : Without(k, p)[q] = IF q = p THEN None ELSE k[q]
BY DEF Without, Catalog

LEMMA RenamedTyped ==
  ASSUME NEW k \in Catalog, NEW p \in Path, NEW q \in Path, NEW r \in Row
  PROVE  /\ Renamed(k, p, q, r) \in Catalog
         /\ \A x \in Path : Renamed(k, p, q, r)[x] =
              IF x = q THEN r ELSE IF x = p THEN None ELSE k[x]
<1> DEFINE w == Without(k, p)
<1>1. w \in Catalog /\ \A x \in Path : w[x] = IF x = p THEN None ELSE k[x]
  BY WithoutTyped
<1>2. Renamed(k, p, q, r) = With(w, q, r)
  BY DEF Renamed
<1> HIDE DEF w
<1> QED
  BY <1>1, <1>2, WithTyped

LEMMA RowOfTyped ==
  ASSUME NEW e \in Entry
  PROVE  /\ RowOf(e) \in Row
         /\ RowOf(e).id = e.id /\ RowOf(e).sha = e.sha /\ RowOf(e).size = e.size
         /\ RowOf(e).scanned = e.at
BY DEF RowOf, Row, Entry

LEMMA EditedTyped ==
  ASSUME NEW r \in Row, NEW s \in Sha, NEW t \in Time, NEW z \in Sizes, NEW i \in Id
  PROVE  /\ WithSha(r, s, t) \in Row /\ Resized(r, s, z, t) \in Row /\ Identified(r, i) \in Row
         /\ WithSha(r, s, t).id = r.id /\ WithSha(r, s, t).sha = s
         /\ WithSha(r, s, t).size = r.size /\ WithSha(r, s, t).scanned = t
         /\ Resized(r, s, z, t).id = r.id /\ Resized(r, s, z, t).sha = s
         /\ Resized(r, s, z, t).size = z /\ Resized(r, s, z, t).scanned = t
         /\ Identified(r, i).id = i /\ Identified(r, i).sha = r.sha
         /\ Identified(r, i).size = r.size /\ Identified(r, i).scanned = r.scanned
BY DEF WithSha, Resized, Identified, Row

LEMMA IntentTyped ==
  ASSUME now \in Time, NEW kind \in Kind, NEW i \in Id, NEW p \in Path, NEW q \in Path,
         NEW s \in Sha, NEW z \in Sizes
  PROVE  /\ Intent(kind, i, p, q, s, z) \in Entry
         /\ Intent(kind, i, p, q, s, z).kind = kind /\ Intent(kind, i, p, q, s, z).id = i
         /\ Intent(kind, i, p, q, s, z).path = p /\ Intent(kind, i, p, q, s, z).to = q
         /\ Intent(kind, i, p, q, s, z).sha = s /\ Intent(kind, i, p, q, s, z).size = z
         /\ Intent(kind, i, p, q, s, z).at = now
         /\ Intent(kind, i, p, q, s, z).state = "intent"
BY DEF Intent, Entry

LEMMA EntryFields ==
  ASSUME NEW e \in Entry
  PROVE  /\ e.kind \in Kind /\ e.id \in Id /\ e.path \in Path /\ e.to \in Path /\ e.sha \in Sha
         /\ e.size \in Sizes /\ e.at \in Time /\ e.state \in {"intent", "done"}
BY DEF Entry

(* A replay is of the row at one path. *)
LEMMA MovedTyped ==
  ASSUME NEW k \in Catalog, NEW e \in Entry, NEW t \in Time
  PROVE  Moved(k, e, t) \in Catalog
<1> DEFINE found == {p \in Tracked(k) : k[p].id = e.id}
           spot == IF found # {} THEN CHOOSE p \in found : TRUE ELSE e.path
<1>1. spot \in Path
  BY EntryFields DEF Tracked
<1>2. e.to \in Path
  BY EntryFields
<1> HIDE DEF spot, found
<1>3. CASE Has(k, spot) /\ spot # e.to
  <2>1. k[spot] \in Row /\ k[spot].sha \in Sha
    BY <1>1, <1>3, HasRow
  <2>2. WithSha(k[spot], k[spot].sha, t) \in Row
    BY <2>1, EditedTyped, SizeFacts DEF Row
  <2>3. Moved(k, e, t) = Renamed(k, spot, e.to, WithSha(k[spot], k[spot].sha, t))
    BY <1>3 DEF Moved, spot, found
  <2> QED
    BY <1>1, <1>2, <2>2, <2>3, RenamedTyped
<1>4. CASE ~(Has(k, spot) /\ spot # e.to)
  BY <1>4 DEF Moved, spot, found
<1> QED
  BY <1>3, <1>4

LEMMA ReplayedTyped ==
  ASSUME NEW k \in Catalog, NEW e \in Entry, NEW t \in Time
  PROVE  Replayed(k, e, t) \in Catalog
<1>0. /\ e.kind \in Kind /\ e.id \in Id /\ e.path \in Path /\ e.sha \in Sha
  BY EntryFields
<1>1. CASE e.kind = "ingest"
  BY <1>0, <1>1, RowOfTyped, WithTyped DEF Replayed
<1>2. CASE e.kind = "move"
  BY <1>2, MovedTyped DEF Replayed
<1>3. CASE e.kind = "delete"
  BY <1>0, <1>3, WithoutTyped DEF Replayed
<1>4. CASE e.kind \in {"scan", "restore"} /\ ~Has(k, e.path)
  BY <1>4 DEF Replayed
<1>5. CASE e.kind \in {"scan", "restore"} /\ Has(k, e.path)
  <2>1. k[e.path] \in Row /\ k[e.path].size \in Sizes
    BY <1>0, <1>5, HasRow
  <2>2. WithSha(k[e.path], e.sha, t) \in Row /\ Identified(k[e.path], e.id) \in Row
    BY <1>0, <2>1, EditedTyped
  <2> QED
    BY <1>0, <1>5, <2>2, WithTyped DEF Replayed
<1> QED
  BY <1>0, <1>1, <1>2, <1>3, <1>4, <1>5 DEF Kind

LEMMA LogFacts ==
  ASSUME TypeOK
  PROVE  /\ Len(log) \in Nat /\ Len(log) <= MaxOps /\ DOMAIN log = 1 .. Len(log)
         /\ \A n \in DOMAIN log : log[n] \in Entry
BY DEF TypeOK

LEMMA JobFields ==
  ASSUME TypeOK
  PROVE  /\ job.cmd \in Command /\ job.plan \in [Path -> Sizes \cup {None}]
         /\ job.sum \in Sha \cup {None} /\ job.changes \in SUBSET Change
         /\ job.owed \in SUBSET (1 .. MaxOps)
         /\ Left \subseteq Path /\ \A p \in Left : job.plan[p] \in Sizes
         /\ Left # {} => NextFile \in Left
BY DEF TypeOK, Job, Left, NextFile, Tracked, Has

LEMMA NoJobTyped ==
  /\ NoJob \in Job /\ Empty \in Catalog
  /\ NoJob.cmd = None /\ NoJob.plan = Empty /\ NoJob.sum = None /\ NoJob.changes = {}
  /\ NoJob.owed = {}
BY DEF NoJob, Job, Empty, Catalog, Command

LEMMA TakenTyped ==
  ASSUME TypeInv, pc # "apply", NEW n \in 1 .. MaxOps, Left # {}, Taken(NextFile, n)
  PROVE  /\ pc' \in {"flush", "ingest"} /\ job' \in Job
<1>1. NextFile \in Path
  BY JobFields DEF TypeInv
<1>2. Without(job.plan, NextFile) \in [Path -> Sizes \cup {None}]
  BY <1>1, JobFields DEF TypeInv, Without
<1>3. job.owed \cup {n} \in SUBSET (1 .. MaxOps)
  BY JobFields DEF TypeInv
<1> DEFINE w == Without(job.plan, NextFile)
           o == job.owed \cup {n}
<1>4. /\ pc' \in {"flush", "ingest"}
      /\ job' = [job EXCEPT !.plan = w, !.sum = None, !.owed = o]
  BY DEF Taken, Goto
<1> HIDE DEF w, o
<1> QED
  BY <1>2, <1>3, <1>4 DEF TypeInv, TypeOK, Job, w, o

LEMMA AppendTyped ==
  ASSUME TypeOK, Room, NEW e \in Entry, log' = Append(log, e)
  PROVE  /\ log' \in Seq(Entry) /\ Len(log') = Len(log) + 1 /\ Len(log') <= MaxOps
         /\ Next1 \in 1 .. MaxOps /\ Next1 = Len(log')
         /\ DOMAIN log' = DOMAIN log \cup {Next1} /\ Next1 \notin DOMAIN log
         /\ \A n \in DOMAIN log : log'[n] = log[n]
         /\ log'[Next1] = e
BY LogFacts, IngestAssumption DEF TypeOK, Room, Next1

LEMMA IsASeq ==
  ASSUME NEW S, NEW l \in Nat, NEW f \in [1 .. l -> S]
  PROVE  f \in Seq(S) /\ Len(f) = l
OBVIOUS

LEMMA OutsideApply ==
  ASSUME TypeOK', pc' \notin {"intent", "apply"}
  PROVE  TypeInv'
BY DEF TypeInv, JobInv

LEMMA NameStepTyped ==
  ASSUME TypeInv, TakeRecorded \/ Hash \/ AppendIntent
  PROVE  TypeInv'
<1>0. TypeOK
  BY DEF TypeInv
<1>1. CASE TakeRecorded
  <2>1. PICK n \in RecordOf(NextFile) :
          cat' = With(cat, NextFile, RowOf(log[n])) /\ Taken(NextFile, n)
    BY <1>1 DEF TakeRecorded
  <2>2. n \in DOMAIN log /\ n \in 1 .. MaxOps /\ log[n] \in Entry
    BY <1>0, LogFacts, SizeFacts DEF RecordOf
  <2>3. pc # "apply" /\ Left # {} /\ UNCHANGED <<files, vault, now>>
    BY <1>1 DEF TakeRecorded
  <2>4. NextFile \in Path
    BY <1>0, <2>3, JobFields
  <2>5. RowOf(log[n]) \in Row
    BY <2>2, RowOfTyped
  <2> DEFINE p == NextFile
             r == RowOf(log[n])
  <2>6. cat' = With(cat, p, r) /\ p \in Path /\ r \in Row
    BY <2>1, <2>4, <2>5
  <2> HIDE DEF p, r
  <2>7. cat' \in Catalog
    BY <1>0, <2>6, WithTyped DEF TypeOK
  <2>8. pc' \in {"flush", "ingest"} /\ job' \in Job
    BY <2>1, <2>2, <2>3, TakenTyped
  <2>9. TypeOK'
    BY <1>0, <2>3, <2>7, <2>8 DEF TypeOK, files, vault, Phase
  <2> QED
    BY <2>8, <2>9, OutsideApply
<1>2. CASE Hash
  <2>1. /\ pc' = "intent" /\ Left # {} /\ job' = [job EXCEPT !.sum = disk[NextFile].sha]
        /\ UNCHANGED <<files, vault, now, cat>>
    BY <1>2 DEF Hash, Goto
  <2>2. NextFile \in Path /\ NextFile \in OnDisk
    BY <1>0, <1>2, JobFields DEF Hash
  <2>3. disk[NextFile].sha \in Sha
    BY <1>0, <2>2, HasFile DEF TypeOK
  <2> DEFINE x == disk[NextFile].sha
  <2>4. x \in Sha /\ job' = [job EXCEPT !.sum = x]
    BY <2>1, <2>3
  <2> HIDE DEF x
  <2>5. job' \in Job /\ job'.plan = job.plan /\ job'.sum \in Sha
    BY <1>0, <2>4 DEF TypeOK, Job
  <2>6. Left' # {}
    BY <2>1, <2>5 DEF Left
  <2>7. TypeOK'
    BY <1>0, <2>1, <2>5 DEF TypeOK, files, vault, Phase
  <2> QED
    BY <2>1, <2>5, <2>6, <2>7 DEF TypeInv, JobInv
<1>3. CASE AppendIntent
  <2> DEFINE p == NextFile
             i == [path |-> NextFile, sha |-> job.sum, op |-> 0]
             e == Intent("ingest", i, p, p, job.sum, job.plan[p])
  <2>1. /\ pc = "intent" /\ Room /\ log' = Append(log, e) /\ cat' = With(cat, p, RowOf(e))
        /\ Taken(p, Next1) /\ UNCHANGED <<files, made, catalog, now>>
    BY <1>3 DEF AppendIntent
  <2>2. Left # {} /\ job.sum \in Sha
    BY <2>1 DEF TypeInv, JobInv
  <2>3. p \in Path /\ job.plan[p] \in Sizes
    BY <1>0, <2>2, JobFields
  <2>4. i \in Id
    BY <2>2, <2>3, SizeFacts DEF Id
  <2>5. now \in Time /\ "ingest" \in Kind
    BY <1>0 DEF TypeOK, Kind
  <2> HIDE DEF i
  <2>6. e \in Entry
    BY <2>2, <2>3, <2>4, <2>5, IntentTyped
  <2> HIDE DEF e
  <2>7. log' \in Seq(Entry) /\ Len(log') <= MaxOps /\ Next1 \in 1 .. MaxOps
    BY <1>0, <2>1, <2>6, AppendTyped
  <2>8. pc' \in {"flush", "ingest"} /\ job' \in Job
    BY <2>1, <2>2, <2>7, TakenTyped
  <2> HIDE DEF p
  <2>9. RowOf(e) \in Row
    BY <2>6, RowOfTyped
  <2>10. cat' \in Catalog
    BY <1>0, <2>1, <2>3, <2>9, WithTyped DEF TypeOK
  <2>11. TypeOK'
    BY <1>0, <2>1, <2>7, <2>8, <2>10 DEF TypeOK, files, Phase
  <2> QED
    BY <2>8, <2>11, OutsideApply
<1> QED
  BY <1>1, <1>2, <1>3

LEMMA StartTyped ==
  ASSUME TypeInv, (\E S \in SUBSET Path : StartInit(S)) \/ (\E p \in Path : StartTrack(p))
  PROVE  TypeInv'
<1>0. TypeOK
  BY DEF TypeInv
<1>1. ASSUME NEW S \in SUBSET Path, NEW c \in {"init", "track"}, S \subseteq OnDisk
      PROVE  Ingesting(c, S) \in Job
  <2>1. \A p \in S : Size[disk[p].sha] \in Sizes
    BY <1>0, <1>1, HasFile, SizeFacts DEF TypeOK
  <2>2. Planned(S) \in [Path -> Sizes \cup {None}]
    BY <2>1 DEF Planned
  <2> QED
    BY <2>2, NoJobTyped DEF Ingesting, Job, Command
<1>2. ASSUME NEW S \in SUBSET Path, StartInit(S) PROVE TypeInv'
  <2>1. /\ pc' \in {"flush", "ingest"} /\ job' = Ingesting("init", S) /\ cat' = catalog
        /\ UNCHANGED <<files, vault, now>> /\ S \subseteq OnDisk
    BY <1>2 DEF StartInit, Goto
  <2>2. TypeOK'
    BY <1>0, <1>1, <2>1 DEF TypeOK, files, vault, Phase
  <2> QED
    BY <2>1, <2>2, OutsideApply
<1>3. ASSUME NEW p \in Path, StartTrack(p) PROVE TypeInv'
  <2>1. /\ pc' = "ingest" /\ job' = Ingesting("track", {p}) /\ cat' = catalog
        /\ UNCHANGED <<files, vault, now>> /\ {p} \subseteq OnDisk
    BY <1>3 DEF StartTrack, Goto
  <2>2. TypeOK'
    BY <1>0, <1>1, <2>1 DEF TypeOK, files, vault, Phase
  <2> QED
    BY <2>1, <2>2, OutsideApply
<1> QED
  BY <1>2, <1>3

LEMMA CatalogStepTyped ==
  ASSUME TypeInv, Flush \/ MarkDone \/ Marked \/ Die
  PROVE  TypeInv'
<1>0. TypeOK
  BY DEF TypeInv
<1>1. CASE Flush
  <2>1. TypeOK' /\ pc' = "mark"
    BY <1>0, <1>1 DEF Flush, Goto, TypeOK, files, Phase
  <2> QED
    BY <2>1, OutsideApply
<1>2. CASE MarkDone
  <2> DEFINE n == FirstOwed
             o == job.owed \ {n}
  <2>1. /\ log' = [log EXCEPT ![n].state = "done"] /\ pc' = "mark"
        /\ job' = [job EXCEPT !.owed = o] /\ UNCHANGED <<files, made, catalog, now, cat>>
    BY <1>2 DEF MarkDone, Goto
  <2>2. o \in SUBSET (1 .. MaxOps)
    BY <1>0, JobFields
  <2> HIDE DEF n, o
  <2>3. job' \in Job
    BY <1>0, <2>1, <2>2 DEF TypeOK, Job
  <2>4. log' \in Seq(Entry) /\ Len(log') = Len(log)
    <3>1. ASSUME n \in DOMAIN log PROVE [log[n] EXCEPT !.state = "done"] \in Entry
      BY <1>0, <3>1, LogFacts DEF Entry
    <3>2. log \in [1 .. Len(log) -> Entry] /\ Len(log) \in Nat
      BY <1>0 DEF TypeOK
    <3>3. log' \in [1 .. Len(log) -> Entry]
      BY <2>1, <3>1, <3>2
    <3> QED
      BY <3>2, <3>3, IsASeq
  <2>5. TypeOK'
    BY <1>0, <2>1, <2>3, <2>4 DEF TypeOK, files, Phase
  <2> QED
    BY <2>1, <2>5, OutsideApply
<1>3. CASE Marked
  <2>1. /\ pc' \in {"ingest", "idle"} /\ job' \in {job, NoJob} /\ cat' \in {cat, Empty}
        /\ UNCHANGED <<files, vault, now>>
    BY <1>3 DEF Marked, Goto, Leave
  <2>2. TypeOK'
    BY <1>0, <2>1, NoJobTyped DEF TypeOK, files, vault, Phase
  <2> QED
    BY <2>1, <2>2, OutsideApply
<1>4. CASE Die
  <2>1. TypeOK' /\ pc' = "idle"
    BY <1>0, <1>4, NoJobTyped DEF Die, Leave, Goto, TypeOK, files, vault, Phase
  <2> QED
    BY <2>1, OutsideApply
<1> QED
  BY <1>1, <1>2, <1>3, <1>4

-----------------------------------------------------------------------------
(* Diff *)

LEMMA FoundTyped ==
  ASSUME TypeOK, NEW kind \in Finding, NEW p \in OnDisk, NEW q \in Path
  PROVE  /\ Found(kind, p, q) \in Change
         /\ Found(kind, p, q).kind = kind /\ Found(kind, p, q).path = p
         /\ Found(kind, p, q).old = q /\ Found(kind, p, q).sha = disk[p].sha
         /\ Found(kind, p, q).size = Size[disk[p].sha]
<1>1. p \in Path
  BY DEF OnDisk, Tracked
<1>2. disk[p].sha \in Sha /\ Size[disk[p].sha] \in Sizes
  BY <1>1, HasFile, SizeFacts DEF TypeOK
<1> QED
  BY <1>1, <1>2 DEF Found, Change

(* What Diff can say of the files and the rows of k. *)
Diffs(k) ==
  {ch \in Change :
     \/ /\ ch.kind \in {"verified", "suspect", "edited"} /\ ch.old = ch.path
        /\ ch.path \in Tracked(k) /\ ch.path \in Seen
        /\ ch.sha = disk[ch.path].sha /\ ch.size = Size[ch.sha]
        /\ ch.kind = "verified" <=> ch.sha = k[ch.path].sha
        /\ ch.kind = "edited" => ~Fresh(k[ch.path], disk[ch.path])
        /\ ch.kind = "suspect" => Fresh(k[ch.path], disk[ch.path])
     \/ /\ ch.kind = "moved" /\ ch.old \in Gone(k) /\ ch.path \in New(k)
        /\ ch.sha = disk[ch.path].sha /\ ch.size = Size[ch.sha] /\ ch.sha = k[ch.old].sha
     \/ /\ ch.kind = "added" /\ ch.old = ch.path /\ ch.path \in New(k)
        /\ ch.sha = disk[ch.path].sha /\ ch.size = Size[ch.sha]
     \/ /\ ch.kind = "deleted" /\ ch.old = ch.path /\ ch.path \in Gone(k)
        /\ ch.sha = k[ch.path].sha /\ ch.size = k[ch.path].size}

AllFound(k, paranoid, confirmed) == OldFiles(k, paranoid) \cup Moves(k) \cup Adds(k) \cup confirmed

LEMMA OldFilesFound ==
  ASSUME TypeOK, NEW paranoid \in BOOLEAN
  PROVE  /\ OldFiles(catalog, paranoid) \subseteq Diffs(catalog)
         /\ \A ch \in OldFiles(catalog, paranoid) :
              ch.kind \in {"verified", "suspect", "edited"} /\ ch.path \in Tracked(catalog) \cap Seen
         /\ \A ch, dh \in OldFiles(catalog, paranoid) : ch # dh => ch.path # dh.path
<1> DEFINE K(p) == IF disk[p].sha = catalog[p].sha THEN "verified" ELSE Drift(catalog[p], disk[p])
<1>1. ASSUME NEW p \in Rehashed(catalog, paranoid)
      PROVE  /\ p \in Tracked(catalog) /\ p \in Seen /\ p \in OnDisk /\ p \in Path
             /\ K(p) \in {"verified", "suspect", "edited"}
             /\ K(p) = "verified" <=> disk[p].sha = catalog[p].sha
             /\ K(p) = "edited" => ~Fresh(catalog[p], disk[p])
             /\ K(p) = "suspect" => Fresh(catalog[p], disk[p])
  BY DEF Rehashed, Seen, Drift, Tracked
<1> HIDE DEF K
<1>2. OldFiles(catalog, paranoid) = {Found(K(p), p, p) : p \in Rehashed(catalog, paranoid)}
  BY DEF OldFiles, K
<1>3. ASSUME NEW p \in Rehashed(catalog, paranoid)
      PROVE  /\ Found(K(p), p, p) \in Diffs(catalog)
             /\ Found(K(p), p, p).kind \in {"verified", "suspect", "edited"}
             /\ Found(K(p), p, p).path = p
  <2>1. K(p) \in Finding
    BY <1>1 DEF Finding
  <2> DEFINE f == Found(K(p), p, p)
  <2>2. /\ f \in Change /\ f.kind = K(p) /\ f.path = p /\ f.old = p /\ f.sha = disk[p].sha
        /\ f.size = Size[f.sha]
    BY <1>1, <2>1, FoundTyped
  <2> HIDE DEF f
  <2>3. f \in Diffs(catalog)
    BY <1>1, <2>2 DEF Diffs
  <2> QED
    BY <1>1, <2>2, <2>3 DEF f
<1> QED
  BY <1>1, <1>2, <1>3

LEMMA MovesFound ==
  ASSUME TypeOK
  PROVE  /\ Moves(catalog) \subseteq Diffs(catalog)
         /\ \A ch \in Moves(catalog) : /\ ch.kind = "moved" /\ <<ch.old, ch.path>> \in Pairs(catalog)
                                       /\ ch.old \in Gone(catalog) /\ ch.path \in New(catalog)
         /\ \A ch, dh \in Moves(catalog) : ch # dh => ch.path # dh.path /\ ch.old # dh.old
<1>1. ASSUME NEW d \in Pairs(catalog)
      PROVE  /\ d = <<d[1], d[2]>> /\ d[1] \in Gone(catalog) /\ d[2] \in New(catalog)
             /\ d[1] \in Path /\ d[2] \in OnDisk /\ disk[d[2]].sha = catalog[d[1]].sha
  BY DEF Pairs, Gone, New, Seen, Tracked
<1>2. ASSUME NEW d \in Pairs(catalog)
      PROVE  /\ Found("moved", d[2], d[1]) \in Diffs(catalog)
             /\ Found("moved", d[2], d[1]).kind = "moved"
             /\ Found("moved", d[2], d[1]).old = d[1] /\ Found("moved", d[2], d[1]).path = d[2]
  <2> DEFINE f == Found("moved", d[2], d[1])
  <2>1. /\ f \in Change /\ f.kind = "moved" /\ f.path = d[2] /\ f.old = d[1]
        /\ f.sha = disk[d[2]].sha /\ f.size = Size[f.sha]
    BY <1>1, FoundTyped DEF Finding
  <2> HIDE DEF f
  <2>2. f \in Diffs(catalog)
    BY <1>1, <2>1 DEF Diffs
  <2> QED
    BY <2>1, <2>2 DEF f
<1>3. ASSUME NEW d \in Pairs(catalog), NEW g \in Pairs(catalog), d[1] = g[1] \/ d[2] = g[2]
      PROVE  d = g
  <2>1. d[1] = g[1] /\ d[2] = g[2]
    BY <1>1, <1>3 DEF Pairs
  <2> QED
    BY <1>1, <2>1
<1>4. ASSUME NEW ch \in Moves(catalog)
      PROVE  \E d \in Pairs(catalog) : ch = Found("moved", d[2], d[1])
  BY DEF Moves
<1>5. ASSUME NEW ch \in Moves(catalog)
      PROVE  /\ ch \in Diffs(catalog) /\ ch.kind = "moved" /\ <<ch.old, ch.path>> \in Pairs(catalog)
             /\ ch.old \in Gone(catalog) /\ ch.path \in New(catalog)
  BY <1>1, <1>2, <1>4
<1>6. ASSUME NEW ch \in Moves(catalog), NEW dh \in Moves(catalog),
             ch.old = dh.old \/ ch.path = dh.path
      PROVE  ch = dh
  BY <1>2, <1>3, <1>4, <1>6
<1> QED
  BY <1>5, <1>6

LEMMA AddsFound ==
  ASSUME TypeOK
  PROVE  /\ Adds(catalog) \subseteq Diffs(catalog)
         /\ \A ch \in Adds(catalog) : /\ ch.kind = "added" /\ ch.path \in New(catalog)
                                      /\ ch.path \notin {d[2] : d \in Pairs(catalog)}
         /\ \A ch, dh \in Adds(catalog) : ch # dh => ch.path # dh.path
<1>1. ASSUME NEW p \in New(catalog)
      PROVE  /\ p \in OnDisk /\ p \in Path
             /\ Found("added", p, p) \in Diffs(catalog)
             /\ Found("added", p, p).kind = "added" /\ Found("added", p, p).path = p
  <2>1. p \in OnDisk /\ p \in Path
    BY DEF New, Seen, OnDisk, Tracked
  <2> DEFINE f == Found("added", p, p)
  <2>2. /\ f \in Change /\ f.kind = "added" /\ f.path = p /\ f.old = p
        /\ f.sha = disk[p].sha /\ f.size = Size[f.sha]
    BY <2>1, FoundTyped DEF Finding
  <2> HIDE DEF f
  <2>3. f \in Diffs(catalog)
    BY <2>2 DEF Diffs
  <2> QED
    BY <2>1, <2>2, <2>3 DEF f
<1> QED
  BY <1>1 DEF Adds

LEMMA DeletesFound ==
  ASSUME TypeOK
  PROVE  /\ Deletes(catalog) \subseteq Diffs(catalog)
         /\ \A ch \in Deletes(catalog) : /\ ch.kind = "deleted" /\ ch.path \in Gone(catalog)
                                         /\ ch.path \notin {d[1] : d \in Pairs(catalog)}
         /\ \A ch, dh \in Deletes(catalog) : ch # dh => ch.path # dh.path
<1> DEFINE D(p) == [kind |-> "deleted", path |-> p, old |-> p, sha |-> catalog[p].sha,
                    size |-> catalog[p].size]
<1>1. ASSUME NEW p \in Gone(catalog)
      PROVE  D(p) \in Diffs(catalog)
  <2>1. p \in Path /\ Has(catalog, p)
    BY DEF Gone, Tracked
  <2>2. catalog[p].sha \in Sha /\ catalog[p].size \in Sizes
    BY <2>1, HasRow DEF TypeOK
  <2> DEFINE f == D(p)
  <2>3. /\ f \in Change /\ f.kind = "deleted" /\ f.path = p /\ f.old = p
        /\ f.sha = catalog[p].sha /\ f.size = catalog[p].size
    BY <2>1, <2>2 DEF Change, Finding
  <2> HIDE DEF f, D
  <2>4. f \in Diffs(catalog)
    BY <2>3 DEF Diffs
  <2> QED
    BY <2>4 DEF f
<1> QED
  BY <1>1 DEF Deletes

(* The changes found are what Diff can say, and each is of other paths. *)
LEMMA ScanPlan ==
  ASSUME TypeOK, NEW paranoid \in BOOLEAN, NEW confirmed \in SUBSET Deletes(catalog)
  PROVE  /\ AllFound(catalog, paranoid, confirmed) \subseteq Diffs(catalog)
         /\ \A ch, dh \in AllFound(catalog, paranoid, confirmed) : ch # dh => Apart(ch, dh)
<1> DEFINE O == OldFiles(catalog, paranoid)
           M == Moves(catalog)
           A == Adds(catalog)
           D == confirmed
           T == Tracked(catalog)
<1>0. AllFound(catalog, paranoid, confirmed) = O \cup M \cup A \cup D
  BY DEF AllFound
<1>1. /\ O \subseteq Diffs(catalog)
      /\ \A ch \in O : ch.kind \in {"verified", "suspect", "edited"} /\ ch.path \in T \cap Seen
      /\ \A ch, dh \in O : ch # dh => ch.path # dh.path
  BY OldFilesFound
<1>2. /\ M \subseteq Diffs(catalog)
      /\ \A ch \in M : /\ ch.kind = "moved" /\ <<ch.old, ch.path>> \in Pairs(catalog)
                       /\ ch.old \in Gone(catalog) /\ ch.path \in New(catalog)
      /\ \A ch, dh \in M : ch # dh => ch.path # dh.path /\ ch.old # dh.old
  BY MovesFound
<1>3. /\ A \subseteq Diffs(catalog)
      /\ \A ch \in A : /\ ch.kind = "added" /\ ch.path \in New(catalog)
                       /\ ch.path \notin {d[2] : d \in Pairs(catalog)}
      /\ \A ch, dh \in A : ch # dh => ch.path # dh.path
  BY AddsFound
<1>4. /\ D \subseteq Diffs(catalog)
      /\ \A ch \in D : /\ ch.kind = "deleted" /\ ch.path \in Gone(catalog)
                       /\ ch.path \notin {d[1] : d \in Pairs(catalog)}
      /\ \A ch, dh \in D : ch # dh => ch.path # dh.path
  BY DeletesFound
<1>5. /\ T \cap Gone(catalog) = Gone(catalog) /\ Gone(catalog) \cap Seen = {}
      /\ New(catalog) \cap T = {} /\ New(catalog) \subseteq Seen
  BY DEF Gone, New
<1>6. /\ \A ch \in O \cup A \cup D : ch.old = ch.path
  BY <1>1, <1>2, <1>3, <1>4 DEF Diffs
<1>7. /\ \A ch \in M : ch.path \in {d[2] : d \in Pairs(catalog)}
      /\ \A ch \in M : ch.old \in {d[1] : d \in Pairs(catalog)}
  <2>1. ASSUME NEW ch \in M
        PROVE  \E d \in Pairs(catalog) : ch.old = d[1] /\ ch.path = d[2]
    <3>1. <<ch.old, ch.path>> \in Pairs(catalog)
      BY <1>2
    <3> QED
      BY <3>1
  <2> QED
    BY <2>1
<1> HIDE DEF O, M, A, D, T
<1>8. ASSUME NEW ch \in O \cup M \cup A \cup D, NEW dh \in O \cup M \cup A \cup D, ch # dh
      PROVE  ch.old # dh.old /\ ch.path # dh.path /\ ch.old # dh.path /\ ch.path # dh.old
  <2>1. CASE ch \in O
    <3>1. ch.path \in T \cap Seen /\ ch.old = ch.path
      BY <2>1, <1>1, <1>6
    <3>2. CASE dh \in O
      BY <2>1, <3>1, <3>2, <1>1, <1>6, <1>8
    <3>3. CASE dh \in M
      BY <3>1, <3>3, <1>2, <1>5
    <3>4. CASE dh \in A
      BY <3>1, <3>4, <1>3, <1>5, <1>6
    <3>5. CASE dh \in D
      BY <3>1, <3>5, <1>4, <1>5, <1>6
    <3> QED
      BY <1>8, <3>2, <3>3, <3>4, <3>5
  <2>2. CASE ch \in A
    <3>1. ch.path \in New(catalog) /\ ch.old = ch.path
      BY <2>2, <1>3, <1>6
    <3>2. CASE dh \in O
      BY <3>1, <3>2, <1>1, <1>5, <1>6
    <3>3. CASE dh \in M
      BY <2>2, <3>1, <3>3, <1>2, <1>3, <1>5, <1>7
    <3>4. CASE dh \in A
      BY <2>2, <3>1, <3>4, <1>3, <1>6, <1>8
    <3>5. CASE dh \in D
      BY <3>1, <3>5, <1>4, <1>5, <1>6
    <3> QED
      BY <1>8, <3>2, <3>3, <3>4, <3>5
  <2>3. CASE ch \in D
    <3>1. ch.path \in Gone(catalog) /\ ch.old = ch.path
      BY <2>3, <1>4, <1>6
    <3>2. CASE dh \in O
      BY <3>1, <3>2, <1>1, <1>5, <1>6
    <3>3. CASE dh \in M
      BY <2>3, <3>1, <3>3, <1>2, <1>4, <1>5, <1>7
    <3>4. CASE dh \in A
      BY <3>1, <3>4, <1>3, <1>5, <1>6
    <3>5. CASE dh \in D
      BY <2>3, <3>1, <3>5, <1>4, <1>6, <1>8
    <3> QED
      BY <1>8, <3>2, <3>3, <3>4, <3>5
  <2>4. CASE ch \in M
    <3>1. /\ ch.old \in Gone(catalog) /\ ch.path \in New(catalog)
      BY <2>4, <1>2
    <3>2. CASE dh \in O
      BY <3>1, <3>2, <1>1, <1>5, <1>6
    <3>3. CASE dh \in M
      <4>1. dh.old \in Gone(catalog) /\ dh.path \in New(catalog)
        BY <3>3, <1>2
      <4> QED
        BY <2>4, <3>1, <3>3, <4>1, <1>2, <1>5, <1>8
    <3>4. CASE dh \in A
      BY <2>4, <3>1, <3>4, <1>3, <1>5, <1>6, <1>7
    <3>5. CASE dh \in D
      BY <2>4, <3>1, <3>5, <1>4, <1>5, <1>6, <1>7
    <3> QED
      BY <1>8, <3>2, <3>3, <3>4, <3>5
  <2> QED
    BY <1>8, <2>1, <2>2, <2>3, <2>4
<1>9. O \cup M \cup A \cup D \subseteq Diffs(catalog)
  BY <1>1, <1>2, <1>3, <1>4
<1> QED
  BY <1>0, <1>8, <1>9 DEF Apart

-----------------------------------------------------------------------------
(* Types of scan, restore-identity, ops retry and the disk. *)

(* A change that is done leaves the rows of the others alone. *)
LEMMA AppliedTyped ==
  ASSUME TypeOK, pc = "apply", job.changes # {}, PlanOf(job.changes, cat),
         NEW o \in SUBSET (1 .. MaxOps), Applied(o), cat' \in Catalog,
         \A p \in Path : p \notin {NextChange.old, NextChange.path} => cat'[p] = cat[p]
  PROVE  /\ job' \in Job /\ pc' \in {"flush", "apply"} /\ JobInv'
<1> DEFINE S == job.changes \ {NextChange}
           w == job.owed \cup o
<1>1. /\ pc' = (IF S = {} THEN "flush" ELSE "apply")
      /\ job' = [job EXCEPT !.changes = S, !.owed = w]
  <2>1. [job EXCEPT !.changes = @ \ {NextChange}, !.owed = @ \cup o].changes = S
    BY DEF TypeOK, Job
  <2> QED
    BY <2>1 DEF Applied, Applying, Goto
<1>2. S \in SUBSET Change /\ w \in SUBSET (1 .. MaxOps)
  BY JobFields
<1>3. NextChange \in job.changes
  BY DEF NextChange
<1>4. ASSUME NEW ch \in S PROVE Sound(ch, cat')
  <2>1. ch \in job.changes /\ ch # NextChange /\ ch \in Change
    BY <1>2
  <2>2. Sound(ch, cat) /\ Apart(ch, NextChange)
    BY <1>3, <2>1 DEF PlanOf
  <2>3. ch.old \in Path /\ ch.old \notin {NextChange.old, NextChange.path}
    BY <2>1, <2>2 DEF Apart, Change
  <2> QED
    BY <2>2, <2>3 DEF Sound, Has
<1>5. PlanOf(S, cat')
  BY <1>4 DEF PlanOf
<1> HIDE DEF S, w
<1>6. job' \in Job /\ job'.changes = S
  BY <1>1, <1>2 DEF TypeOK, Job
<1> QED
  BY <1>1, <1>5, <1>6 DEF JobInv

LEMMA ChangeFacts ==
  ASSUME TypeInv, pc = "apply"
  PROVE  /\ NextChange \in job.changes /\ NextChange \in Change /\ Sound(NextChange, cat)
         /\ NextChange.kind \in Finding /\ NextChange.path \in Path /\ NextChange.old \in Path
         /\ NextChange.sha \in Sha /\ NextChange.size \in Sizes
         /\ job.changes # {} /\ PlanOf(job.changes, cat) /\ TypeOK
<1>1. job.changes # {} /\ PlanOf(job.changes, cat) /\ TypeOK
  BY DEF TypeInv, JobInv
<1>2. NextChange \in job.changes
  BY <1>1 DEF NextChange
<1>3. NextChange \in Change
  BY <1>1, <1>2, JobFields
<1> QED
  BY <1>1, <1>2, <1>3 DEF PlanOf, Change

(* What is journaled of a change, and the rows it leaves. *)
LEMMA ScanEntryTyped ==
  ASSUME TypeInv, pc = "apply", NextChange.kind \in DOMAIN OpKind, Room
  PROVE  /\ IdOf(NextChange) \in Id
         /\ ScanEntry(NextChange) \in Entry
         /\ ScanEntry(NextChange).kind = OpKind[NextChange.kind]
         /\ ScanEntry(NextChange).id = IdOf(NextChange)
         /\ ScanEntry(NextChange).path = NextChange.old
         /\ ScanEntry(NextChange).to = NextChange.path
         /\ ScanEntry(NextChange).sha = NextChange.sha
         /\ ScanEntry(NextChange).size = NextChange.size
         /\ ScanEntry(NextChange).at = now
         /\ ScanEntry(NextChange).state = "intent"
<1> DEFINE ch == NextChange
<1>1. /\ ch.kind \in Finding /\ ch.path \in Path /\ ch.old \in Path /\ ch.sha \in Sha
      /\ ch.size \in Sizes /\ Sound(ch, cat) /\ TypeOK
  BY ChangeFacts
<1>2. now \in Time /\ OpKind[ch.kind] \in Kind
  BY <1>1 DEF TypeOK, OpKind, Kind
<1>3. Next1 \in 0 .. MaxOps
  BY <1>1, LogFacts, SizeFacts DEF Room, Next1
<1>4. IdOf(ch) \in Id
  <2>1. CASE ch.kind = "added"
    BY <1>1, <1>3, <2>1 DEF IdOf, Id
  <2>2. CASE ch.kind # "added"
    <3>1. Has(cat, ch.old)
      BY <1>1, <2>2 DEF Sound
    <3> QED
      BY <1>1, <2>2, <3>1, HasRow DEF IdOf, TypeOK
  <2> QED
    BY <2>1, <2>2
<1> DEFINE i == IdOf(ch)
           d == OpKind[ch.kind]
<1>5. ScanEntry(ch) = Intent(d, i, ch.old, ch.path, ch.sha, ch.size)
  BY DEF ScanEntry
<1> HIDE DEF i, d, ch
<1>6. i \in Id /\ d \in Kind
  BY <1>2, <1>4 DEF i, d
<1>7. /\ ScanEntry(ch) \in Entry
      /\ ScanEntry(ch).kind = d /\ ScanEntry(ch).id = i
      /\ ScanEntry(ch).path = ch.old /\ ScanEntry(ch).to = ch.path
      /\ ScanEntry(ch).sha = ch.sha /\ ScanEntry(ch).size = ch.size
      /\ ScanEntry(ch).at = now /\ ScanEntry(ch).state = "intent"
  BY <1>1, <1>2, <1>5, <1>6, IntentTyped
<1> QED
  BY <1>4, <1>7 DEF i, d, ch

LEMMA MutatedTyped ==
  ASSUME TypeInv, pc = "apply", NextChange.kind \in DOMAIN OpKind, Room
  PROVE  /\ Mutated(NextChange) \in Catalog
         /\ \A p \in Path : p \notin {NextChange.old, NextChange.path} =>
              Mutated(NextChange)[p] = cat[p]
<1> DEFINE ch == NextChange
<1>1. /\ ch.kind \in Finding /\ ch.path \in Path /\ ch.old \in Path /\ ch.sha \in Sha
      /\ ch.size \in Sizes /\ Sound(ch, cat) /\ cat \in Catalog /\ now \in Time
      /\ ScanEntry(ch) \in Entry
  BY ChangeFacts, ScanEntryTyped DEF TypeOK
<1>2. ch.kind \in {"added", "edited", "moved", "deleted"}
  BY DEF OpKind
<1> DEFINE k == Mutated(ch)
           x == ScanEntry(ch)
<1>3. /\ ch.kind = "added" => k = With(cat, ch.path, RowOf(x))
      /\ ch.kind = "edited" => k = With(cat, ch.path, Resized(cat[ch.path], ch.sha, ch.size, now))
      /\ ch.kind = "moved" => k = Renamed(cat, ch.old, ch.path, WithSha(cat[ch.old], cat[ch.old].sha, now))
      /\ ch.kind = "deleted" => k = Without(cat, ch.path)
  BY DEF Mutated
<1> HIDE DEF ch, k
<1> SUFFICES k \in Catalog /\ \A p \in Path : p \notin {ch.old, ch.path} => k[p] = cat[p]
  BY DEF ch, k
<1>4. CASE ch.kind = "added"
  <2>1. RowOf(x) \in Row
    BY <1>1, RowOfTyped
  <2> HIDE DEF x
  <2> QED
    BY <1>1, <1>3, <1>4, <2>1, WithTyped
<1>5. CASE ch.kind # "added"
  <2>1. cat[ch.old] \in Row /\ cat[ch.old].sha \in Sha
    BY <1>1, <1>5, HasRow DEF Sound
  <2> DEFINE r == cat[ch.old]
             u == WithSha(r, r.sha, now)
             v == Resized(r, ch.sha, ch.size, now)
  <2>2. u \in Row
    <3> HIDE DEF r
    <3>1. r \in Row /\ r.sha \in Sha /\ now \in Time
      BY <1>1, <2>1 DEF r
    <3> QED
      BY <3>1 DEF WithSha, Row
  <2>3. v \in Row
    <3> HIDE DEF r
    <3>1. r \in Row /\ ch.sha \in Sha /\ ch.size \in Sizes /\ now \in Time
      BY <1>1, <2>1 DEF r
    <3> QED
      BY <3>1 DEF Resized, Row
  <2>4. /\ ch.kind = "edited" => k = With(cat, ch.path, v)
        /\ ch.kind = "moved" => k = Renamed(cat, ch.old, ch.path, u)
    BY <1>1, <1>3 DEF Sound
  <2> HIDE DEF u, v
  <2>5. CASE ch.kind = "edited"
    BY <1>1, <2>3, <2>4, <2>5, WithTyped
  <2>6. CASE ch.kind = "moved"
    BY <1>1, <2>2, <2>4, <2>6, RenamedTyped
  <2>7. CASE ch.kind = "deleted"
    BY <1>1, <1>3, <2>7, WithoutTyped
  <2> QED
    BY <1>2, <1>5, <2>5, <2>6, <2>7
<1> QED
  BY <1>4, <1>5

LEMMA ScanStepTyped ==
  ASSUME TypeInv, (\E paranoid \in BOOLEAN : StartScan(paranoid)) \/ SkipChange \/ StampVerified
                  \/ ApplyChange
  PROVE  TypeInv'
<1>0. TypeOK
  BY DEF TypeInv
<1>1. ASSUME NEW paranoid \in BOOLEAN, StartScan(paranoid) PROVE TypeInv'
  <2>1. PICK confirmed \in SUBSET Deletes(catalog) :
          Applying([NoJob EXCEPT !.cmd = "scan",
                                 !.changes = AllFound(catalog, paranoid, confirmed)])
    BY <1>1 DEF StartScan, AllFound
  <2> DEFINE S == AllFound(catalog, paranoid, confirmed)
             j == [NoJob EXCEPT !.cmd = "scan", !.changes = S]
  <2>2. S \subseteq Diffs(catalog) /\ \A ch, dh \in S : ch # dh => Apart(ch, dh)
    BY <1>0, ScanPlan
  <2>3. Applying(j)
    BY <2>1
  <2> HIDE DEF S
  <2>4. S \in SUBSET Change
    BY <2>2 DEF Diffs
  <2>5. j \in Job /\ j.changes = S
    BY <2>4, NoJobTyped DEF Job, Command
  <2> HIDE DEF j
  <2>6. job' = j /\ pc' = (IF S = {} THEN "flush" ELSE "apply")
    BY <2>3, <2>5 DEF Applying, Goto
  <2>7. cat' = catalog /\ UNCHANGED <<files, vault, now>>
    BY <1>1 DEF StartScan
  <2>8. PlanOf(S, catalog)
    <3>1. ASSUME NEW ch \in S PROVE Sound(ch, catalog)
      BY <2>2, <3>1 DEF Sound, Diffs, Tracked, Gone
    <3> QED
      BY <2>2, <3>1 DEF PlanOf
  <2>9. TypeOK'
    BY <1>0, <2>5, <2>6, <2>7 DEF TypeOK, files, vault, Phase
  <2>10. JobInv'
    BY <2>5, <2>6, <2>7, <2>8 DEF JobInv
  <2> QED
    BY <2>9, <2>10 DEF TypeInv
<1>2. CASE SkipChange
  <2>1. Applied({}) /\ UNCHANGED <<files, vault, now, cat>> /\ pc = "apply"
    BY <1>2 DEF SkipChange
  <2>2. cat' \in Catalog /\ \A p \in Path : cat'[p] = cat[p]
    BY <1>0, <2>1 DEF TypeOK
  <2>3. job' \in Job /\ pc' \in {"flush", "apply"} /\ JobInv'
    BY <2>1, <2>2, ChangeFacts, AppliedTyped
  <2>4. TypeOK'
    BY <1>0, <2>1, <2>3 DEF TypeOK, files, vault, Phase
  <2> QED
    BY <2>3, <2>4 DEF TypeInv
<1>3. CASE StampVerified
  <2> DEFINE p == NextChange.path
             r == cat[NextChange.path]
             u == WithSha(r, r.sha, now)
  <2>1. /\ Applied({}) /\ UNCHANGED <<files, vault, now>> /\ pc = "apply"
        /\ cat' = With(cat, p, u) /\ NextChange.kind = "verified"
    BY <1>3 DEF StampVerified
  <2>2. p \in Path /\ Has(cat, p)
    BY <2>1, ChangeFacts DEF Sound
  <2>3. r \in Row /\ r.sha \in Sha /\ now \in Time
    BY <1>0, <2>2, HasRow DEF TypeOK
  <2>4. u \in Row
    <3> HIDE DEF r
    <3> QED
      BY <2>3 DEF WithSha, Row
  <2> HIDE DEF u
  <2>5. cat' \in Catalog /\ \A q \in Path : q # p => cat'[q] = cat[q]
    BY <1>0, <2>1, <2>2, <2>4, WithTyped DEF TypeOK
  <2>6. job' \in Job /\ pc' \in {"flush", "apply"} /\ JobInv'
    BY <2>1, <2>5, ChangeFacts, AppliedTyped
  <2>7. TypeOK'
    BY <1>0, <2>1, <2>5, <2>6 DEF TypeOK, files, vault, Phase
  <2> QED
    BY <2>6, <2>7 DEF TypeInv
<1>4. CASE ApplyChange
  <2>1. /\ Applied({Next1}) /\ UNCHANGED <<files, made, catalog, now>> /\ pc = "apply" /\ Room
        /\ cat' = Mutated(NextChange) /\ NextChange.kind \in DOMAIN OpKind
        /\ log' = Append(log, ScanEntry(NextChange))
    BY <1>4 DEF ApplyChange
  <2>2. ScanEntry(NextChange) \in Entry
    BY <2>1, ScanEntryTyped
  <2>3. log' \in Seq(Entry) /\ Len(log') <= MaxOps /\ Next1 \in 1 .. MaxOps
    BY <1>0, <2>1, <2>2, AppendTyped
  <2>4. /\ cat' \in Catalog
        /\ \A p \in Path : p \notin {NextChange.old, NextChange.path} => cat'[p] = cat[p]
    BY <2>1, MutatedTyped
  <2>5. {Next1} \in SUBSET (1 .. MaxOps)
    BY <2>3
  <2>6. job' \in Job /\ pc' \in {"flush", "apply"} /\ JobInv'
    BY <2>1, <2>4, <2>5, ChangeFacts, AppliedTyped
  <2>7. TypeOK'
    BY <1>0, <2>1, <2>3, <2>4, <2>6 DEF TypeOK, files, Phase
  <2> QED
    BY <2>6, <2>7 DEF TypeInv
<1> QED
  BY <1>1, <1>2, <1>3, <1>4

LEMMA OwingTyped ==
  ASSUME NEW c \in Command, NEW n \in 1 .. MaxOps
  PROVE  /\ Owing(c, n) \in Job /\ Owing(c, n).cmd = c /\ Owing(c, n).owed = {n}
         /\ Owing(c, n).plan = Empty /\ Owing(c, n).changes = {}
BY NoJobTyped DEF Owing, Job

LEMMA RedoTyped ==
  ASSUME TypeInv, (\E p \in Path, i \in Receipts : Restore(p, i)) \/ (\E n \in DOMAIN log : Retry(n))
  PROVE  TypeInv'
<1>0. TypeOK
  BY DEF TypeInv
<1>1. ASSUME NEW p \in Path, NEW i \in Receipts, Restore(p, i) PROVE TypeInv'
  <2> DEFINE e == Intent("restore", i, p, p, catalog[p].sha, catalog[p].size)
             r == Identified(catalog[p], i)
  <2>1. /\ Has(catalog, p) /\ Room /\ log' = Append(log, e) /\ cat' = With(catalog, p, r)
        /\ pc' = "flush" /\ job' = Owing("restore", Next1)
        /\ UNCHANGED <<files, made, catalog, now>>
    BY <1>1 DEF Restore, Goto
  <2>2. i \in Id /\ catalog[p] \in Row /\ catalog[p].sha \in Sha /\ catalog[p].size \in Sizes
    BY <1>0, <2>1, HasRow, IngestAssumption DEF TypeOK
  <2>3. e \in Entry
    BY <1>0, <2>2, IntentTyped DEF TypeOK, Kind
  <2>4. r \in Row
    BY <2>2 DEF Identified, Row
  <2> HIDE DEF e, r
  <2>5. log' \in Seq(Entry) /\ Len(log') <= MaxOps /\ Next1 \in 1 .. MaxOps
    BY <1>0, <2>1, <2>3, AppendTyped
  <2>6. cat' \in Catalog
    BY <1>0, <2>1, <2>4, WithTyped DEF TypeOK
  <2>7. job' \in Job
    BY <2>1, <2>5, OwingTyped DEF Command
  <2>8. TypeOK'
    BY <1>0, <2>1, <2>5, <2>6, <2>7 DEF TypeOK, files, Phase
  <2> QED
    BY <2>1, <2>8, OutsideApply
<1>2. ASSUME NEW n \in DOMAIN log, Retry(n) PROVE TypeInv'
  <2>1. /\ cat' = Replayed(catalog, log[n], now) /\ pc' = "flush" /\ job' = Owing("retry", n)
        /\ UNCHANGED <<files, vault, now>>
    BY <1>2 DEF Retry, Goto
  <2>2. log[n] \in Entry /\ n \in 1 .. MaxOps
    BY <1>0, LogFacts, SizeFacts
  <2>3. cat' \in Catalog
    BY <1>0, <2>1, <2>2, ReplayedTyped DEF TypeOK
  <2>4. job' \in Job
    BY <2>1, <2>2, OwingTyped DEF Command
  <2>5. TypeOK'
    BY <1>0, <2>1, <2>3, <2>4 DEF TypeOK, files, vault, Phase
  <2> QED
    BY <2>1, <2>5, OutsideApply
<1> QED
  BY <1>1, <1>2

LEMMA FilesTyped ==
  ASSUME TypeInv, disk' \in [Path -> DiskFile \cup {None}], rotten' \subseteq Path, now' \in Time,
         UNCHANGED <<vault, pc, job, cat>>
  PROVE  TypeInv'
<1>1. TypeOK'
  BY DEF TypeInv, TypeOK, vault
<1>2. JobInv'
  BY DEF TypeInv, JobInv, Left, PlanOf
<1> QED
  BY <1>1, <1>2 DEF TypeInv

LEMMA DiskStepTyped ==
  ASSUME TypeInv, \/ \E p \in Path, s \in Sha : Write(p, s) \/ Rot(p, s)
                  \/ \E p \in Path : Remove(p)
                  \/ \E p, q \in Path : Rename(p, q)
  PROVE  TypeInv'
<1>0. TypeOK /\ disk \in [Path -> DiskFile \cup {None}] /\ rotten \subseteq Path /\ now \in Time
  BY DEF TypeInv, TypeOK
<1>1. ASSUME NEW p \in Path, NEW s \in Sha, Write(p, s) PROVE TypeInv'
  <2>1. now' = now + 1 /\ now' \in Time
    BY <1>0, <1>1, SizeFacts DEF Write, Time
  <2>2. [sha |-> s, mtime |-> now + 1] \in DiskFile
    BY <2>1 DEF DiskFile
  <2>3. /\ disk' = [disk EXCEPT ![p] = [sha |-> s, mtime |-> now + 1]]
        /\ rotten' = rotten \ {p} /\ UNCHANGED <<vault, pc, job, cat>>
    BY <1>1 DEF Write, NewFile
  <2> QED
    BY <1>0, <2>1, <2>2, <2>3, FilesTyped
<1>2. ASSUME NEW p \in Path, NEW s \in Sha, Rot(p, s) PROVE TypeInv'
  <2>1. p \in OnDisk
    BY <1>2 DEF Rot
  <2>2. [disk[p] EXCEPT !.sha = s] \in DiskFile
    BY <1>0, <2>1, HasFile DEF DiskFile
  <2>3. /\ disk' = [disk EXCEPT ![p] = [disk[p] EXCEPT !.sha = s]]
        /\ rotten' = rotten \cup {p} /\ UNCHANGED <<vault, now, pc, job, cat>>
    BY <1>2 DEF Rot
  <2> QED
    BY <1>0, <2>2, <2>3, FilesTyped
<1>3. ASSUME NEW p \in Path, Remove(p) PROVE TypeInv'
  BY <1>0, <1>3, FilesTyped DEF Remove, NewFile
<1>4. ASSUME NEW p \in Path, NEW q \in Path, Rename(p, q) PROVE TypeInv'
  <2>1. /\ disk' = [disk EXCEPT ![q] = disk[p], ![p] = None]
        /\ rotten' = rotten \ {p, q} /\ UNCHANGED <<vault, now, pc, job, cat>>
    BY <1>4 DEF Rename
  <2> QED
    BY <1>0, <2>1, FilesTyped
<1> QED
  BY <1>1, <1>2, <1>3, <1>4

LEMMA TypeStep == TypeInv /\ [Next]_vars => TypeInv'
<1> SUFFICES ASSUME TypeInv, [Next]_vars PROVE TypeInv'
  OBVIOUS
<1>1. CASE UNCHANGED vars
  BY <1>1, FilesTyped DEF vars, files, TypeInv, TypeOK
<1>2. CASE Next
  BY <1>2, StartTyped, NameStepTyped, CatalogStepTyped, ScanStepTyped, RedoTyped, DiskStepTyped
     DEF Next
<1> QED
  BY <1>1, <1>2

LEMMA TypeInit == Init => TypeInv
<1> SUFFICES ASSUME Init PROVE TypeInv
  OBVIOUS
<1>1. disk \in [Path -> DiskFile \cup {None}] /\ now \in Time
  <2>1. 0 \in Time /\ [sha: Sha, mtime: {0}] \subseteq DiskFile
    BY SizeFacts DEF Time, DiskFile
  <2> QED
    BY <2>1 DEF Init
<1>2. log \in Seq(Entry) /\ Len(log) = 0 /\ 0 <= MaxOps
  BY SizeFacts DEF Init
<1>3. TypeOK
  BY <1>1, <1>2, NoJobTyped DEF Init, TypeOK, Phase
<1> QED
  BY <1>3 DEF Init, TypeInv, JobInv

LEMMA TypeAlways == Spec => []TypeInv
BY TypeInit, TypeStep, PTL DEF Spec

(* Whatever files change while the commands of ingest run, and wherever one *)
(* dies, what they hold in memory, write to the catalog and journal has its *)
(* type: scan never takes the identity of a row that is not there.          *)
THEOREM IngestTypes == Spec => []TypeOK
BY TypeAlways, PTL DEF TypeInv

-----------------------------------------------------------------------------
(* Order *)

(* What the runs assume: files change between commands, what was cut short  *)
(* is completed first, nothing is ignored, and who holds the record of a    *)
(* lost identity holds one that no path derives.                            *)
Orderly == /\ Calm /\ Tidy /\ Once /\ Ignored = {}
           /\ \A i \in Receipts : i.op = None

(* The operations that somebody will complete. *)
Open(n)  == n \in DOMAIN log /\ Pending(n) /\ log[n].kind # "restore"
Touch(e) == {e.path, e.to}

Born(i) == i.op = None \/ \E n \in DOMAIN log : log[n].kind = "ingest" /\ log[n].id = i

(* What the log can hold. *)
EntryInv ==
  /\ \A n \in DOMAIN log :
       /\ log[n].at <= now
       /\ log[n].kind = "ingest" => /\ log[n].id.path = log[n].path /\ log[n].id.sha = log[n].sha
                                    /\ log[n].id.op \in {0, n}
       /\ log[n].kind = "move" <=> log[n].path # log[n].to
  /\ \A p \in Path : \A m, n \in RecordOf(p) : m = n

(* Operations under way are of different files. *)
OpenInv ==
  \A m, n \in DOMAIN log : m # n /\ Pending(m) /\ Pending(n) =>
    /\ log[m].id # log[n].id
    /\ Open(m) /\ Open(n) => Touch(log[m]) \cap Touch(log[n]) = {}

(* An operation under way finds the rows as they were, or as it leaves them. *)
Fit(e, k) ==
  /\ e.kind = "ingest" => /\ Has(k, e.path) => k[e.path] = RowOf(e)
                          /\ \A p \in Tracked(k) : k[p].id = e.id => p = e.path
  /\ e.kind = "scan"   => Has(k, e.path) /\ k[e.path].id = e.id
  /\ e.kind = "delete" /\ Has(k, e.path) => k[e.path].id = e.id
  /\ e.kind = "move"   => \E p, q \in Touch(e) : /\ Has(k, p) /\ ~Has(k, q)
                                                 /\ k[p].id = e.id /\ k[p].sha = e.sha

(* And the files as it found them, or, what is ingested, written since. *)
InPlace(e) ==
  /\ e.kind = "ingest" => \/ e.path \notin OnDisk \ rotten \/ disk[e.path].sha = e.sha
                          \/ ~Fresh(RowOf(e), disk[e.path])
  /\ e.kind = "scan"   => e.path \in OnDisk \ rotten /\ disk[e.path].sha = e.sha
  /\ e.kind = "delete" => e.path \notin OnDisk
  /\ e.kind = "move"   => /\ e.path \notin OnDisk
                          /\ e.to \in OnDisk \ rotten /\ disk[e.to].sha = e.sha

Unseen(k) == \E p \in (OnDisk \cap Tracked(k)) \ rotten :
               disk[p].sha # k[p].sha /\ Fresh(k[p], disk[p])

(* A catalog that may be written. *)
Rows(k) ==
  /\ \A p, q \in Tracked(k) : k[p].id = k[q].id => p = q
  /\ \A p \in Tracked(k) : Born(k[p].id) /\ k[p].scanned <= now
  /\ ~Unseen(k)
  /\ \A n \in DOMAIN log : Open(n) => Fit(log[n], k)

DiskInv ==
  /\ \A p \in OnDisk : disk[p].mtime <= now
  /\ \A n \in DOMAIN log : Open(n) => InPlace(log[n])
  /\ \A p \in rotten : /\ p \in OnDisk /\ Has(catalog, p)
                       /\ disk[p].sha # catalog[p].sha /\ Fresh(catalog[p], disk[p])

(* What a command has in memory keeps identities and spares rot. *)
Keeps ==
  /\ \A p \in Tracked(catalog) : IF Has(cat, p) THEN cat[p].id = catalog[p].id \/ job.cmd = "restore"
                                 ELSE p \notin OnDisk
  /\ \A p \in rotten : cat[p].sha = catalog[p].sha /\ Fresh(cat[p], disk[p])

(* What is left to ingest by name. *)
ToName ==
  /\ \A p \in Left :
       /\ p \in OnDisk /\ cat[p] = catalog[p]
       /\ RecordOf(p) = {} => ~Has(catalog, p)
       /\ \A n \in RecordOf(p) : n \notin job.owed /\ (Pending(n) \/ catalog[p] = RowOf(log[n]))
  /\ Left # {} => \A n \in DOMAIN log : Open(n) => ByName(n)
  /\ pc = "intent" => RecordOf(NextFile) = {} /\ job.sum = disk[NextFile].sha

(* What is left to apply. *)
ToApply ==
  pc = "apply" =>
    /\ Left = {} /\ job.changes \subseteq Diffs(catalog)
    /\ \A ch \in job.changes :
         /\ cat[ch.old] = catalog[ch.old] /\ cat[ch.path] = catalog[ch.path]
         /\ \A n \in DOMAIN log : Open(n) => Touch(log[n]) \cap {ch.old, ch.path} = {}

IInv ==
  /\ TypeInv /\ EntryInv /\ OpenInv /\ DiskInv /\ Rows(catalog)
  /\ ~Idle => Rows(cat) /\ Keeps /\ ToName /\ ToApply

-----------------------------------------------------------------------------
(* What keeps a catalog fit to be written. *)

LEMMA FrameRows ==
  ASSUME NEW k \in Catalog, Rows(k), UNCHANGED <<disk, rotten, log, now>>
  PROVE  Rows(k)'
BY DEF Rows, Unseen, Born, Open, Pending, OnDisk

LEMMA AppendOpen ==
  ASSUME TypeOK, Room, NEW e \in Entry, log' = Append(log, e), e.state = "intent"
  PROVE  /\ \A n \in DOMAIN log : /\ n # Next1 /\ log'[n] = log[n] /\ n \in DOMAIN log'
                                  /\ Open(n)' <=> Open(n)
                                  /\ Pending(n)' <=> Pending(n)
                                  /\ ByName(n)' <=> ByName(n)
         /\ \A n \in DOMAIN log' : n \in DOMAIN log \/ n = Next1
         /\ \A n : n = Next1 => /\ n \in DOMAIN log' /\ n \in 1 .. MaxOps /\ log'[n] = e
                                /\ Pending(n)' /\ (Open(n)' <=> e.kind # "restore")
                                /\ ByName(n)' <=> e.kind = "ingest" /\ e.id.op = 0
<1>1. /\ DOMAIN log' = DOMAIN log \cup {Next1} /\ Next1 \notin DOMAIN log /\ Next1 \in 1 .. MaxOps
      /\ \A n \in DOMAIN log : log'[n] = log[n]
      /\ log'[Next1] = e
  BY AppendTyped
<1>2. \A n \in DOMAIN log : /\ n # Next1 /\ log'[n] = log[n] /\ n \in DOMAIN log'
                            /\ Open(n)' <=> Open(n)
                            /\ Pending(n)' <=> Pending(n)
                            /\ ByName(n)' <=> ByName(n)
  BY <1>1 DEF Open, Pending, ByName
<1>3. ASSUME NEW n, n = Next1
      PROVE  /\ n \in DOMAIN log' /\ n \in 1 .. MaxOps /\ log'[n] = e
             /\ Pending(n)' /\ (Open(n)' <=> e.kind # "restore")
             /\ ByName(n)' <=> e.kind = "ingest" /\ e.id.op = 0
  BY <1>1, <1>3 DEF Open, Pending, ByName
<1> QED
  BY <1>1, <1>2, <1>3

LEMMA AppendBorn ==
  ASSUME TypeOK, Room, NEW e \in Entry, log' = Append(log, e), e.state = "intent",
         NEW i, Born(i)
  PROVE  Born(i)'
BY AppendOpen DEF Born

LEMMA AppendRows ==
  ASSUME TypeOK, Room, NEW e \in Entry, log' = Append(log, e), e.state = "intent",
         NEW k \in Catalog, Rows(k), e.kind # "restore" => Fit(e, k),
         UNCHANGED <<disk, rotten, now>>
  PROVE  Rows(k)'
<1>1. \A n \in DOMAIN log' : Open(n)' => Fit(log'[n], k)
  BY AppendOpen DEF Rows
<1>2. \A p \in Tracked(k) : Born(k[p].id)'
  BY AppendBorn DEF Rows
<1> QED
  BY <1>1, <1>2 DEF Rows, Unseen, OnDisk

LEMMA MarkFacts ==
  ASSUME TypeOK, NEW n \in DOMAIN log, log' = [log EXCEPT ![n].state = "done"]
  PROVE  /\ DOMAIN log' = DOMAIN log
         /\ \A m \in DOMAIN log :
              /\ log'[m].kind = log[m].kind /\ log'[m].id = log[m].id /\ log'[m].path = log[m].path
              /\ log'[m].to = log[m].to /\ log'[m].sha = log[m].sha /\ log'[m].size = log[m].size
              /\ log'[m].at = log[m].at
              /\ m # n => log'[m] = log[m]
              /\ Pending(m)' <=> Pending(m) /\ m # n
              /\ Open(m)' <=> Open(m) /\ m # n
              /\ ByName(m)' <=> ByName(m)
              /\ RowOf(log[m])' = RowOf(log[m])
<1>1. /\ DOMAIN log' = DOMAIN log
      /\ \A m \in DOMAIN log : m # n => log'[m] = log[m]
      /\ log'[n] = [log[n] EXCEPT !.state = "done"]
  OBVIOUS
<1>2. log[n] \in Entry
  BY LogFacts
<1>3. /\ log'[n].kind = log[n].kind /\ log'[n].id = log[n].id /\ log'[n].path = log[n].path
      /\ log'[n].to = log[n].to /\ log'[n].sha = log[n].sha /\ log'[n].size = log[n].size
      /\ log'[n].at = log[n].at /\ log'[n].state = "done"
  BY <1>1, <1>2 DEF Entry
<1> QED
  BY <1>1, <1>3 DEF Pending, Open, ByName, RowOf

LEMMA MarkRows ==
  ASSUME TypeOK, NEW n \in DOMAIN log, log' = [log EXCEPT ![n].state = "done"],
         NEW k \in Catalog, Rows(k), UNCHANGED <<disk, rotten, now>>
  PROVE  Rows(k)'
<1>1. \A m \in DOMAIN log' : Open(m)' => Fit(log'[m], k)
  BY MarkFacts DEF Rows
<1>2. \A i : Born(i) => Born(i)'
  BY MarkFacts DEF Born
<1> QED
  BY <1>1, <1>2 DEF Rows, Unseen, OnDisk

-----------------------------------------------------------------------------
(* One row changes. *)

(* What can be said of a row at p. *)
Seemly(r, p) ==
  /\ r \in Row /\ r.scanned <= now
  /\ p \in OnDisk \ rotten /\ disk[p].sha # r.sha => ~Fresh(r, disk[p])

AllFit(k) == \A n \in DOMAIN log : Open(n) => Fit(log[n], k)

(* A catalog that may be written once this identity is in the log. *)
Nearly(k, i) ==
  /\ \A p, q \in Tracked(k) : k[p].id = k[q].id => p = q
  /\ \A p \in Tracked(k) : (Born(k[p].id) \/ k[p].id = i) /\ k[p].scanned <= now
  /\ ~Unseen(k) /\ AllFit(k)

LEMMA NearlyBorn ==
  ASSUME NEW k \in Catalog, NEW i, Nearly(k, i), Born(i)
  PROVE  Rows(k)
BY DEF Nearly, Rows, AllFit

LEMMA AppendNearly ==
  ASSUME TypeOK, Room, NEW e \in Entry, log' = Append(log, e), e.state = "intent",
         e.kind = "ingest", NEW k \in Catalog, Nearly(k, e.id), Fit(e, k),
         UNCHANGED <<disk, rotten, now>>
  PROVE  Rows(k)'
<1>1. \A n \in DOMAIN log' : Open(n)' => Fit(log'[n], k)
  BY AppendOpen DEF Nearly, AllFit
<1>2. \A n : n = Next1 => n \in DOMAIN log' /\ log'[n] = e
  BY AppendOpen
<1>3. \E n \in DOMAIN log' : log'[n] = e
  BY <1>2
<1>4. \A p \in Tracked(k) : Born(k[p].id)'
  BY <1>3, AppendBorn DEF Nearly, Born
<1> QED
  BY <1>1, <1>4 DEF Nearly, Rows, Unseen, OnDisk

LEMMA PutRow ==
  ASSUME NEW k \in Catalog, Rows(k), NEW p \in Path, NEW r, Seemly(r, p), NEW l \in Catalog,
         \A q \in Path : l[q] = IF q = p THEN r ELSE k[q],
         \A q \in Tracked(k) : k[q].id = r.id => q = p,
         AllFit(l)
  PROVE  Nearly(l, r.id)
<1>1. \A q \in Tracked(l) : q = p \/ (q \in Tracked(k) /\ l[q] = k[q])
  BY DEF Tracked, Has
<1>2. l[p] = r
  OBVIOUS
<1>3. \A x, y \in Tracked(l) : l[x].id = l[y].id => x = y
  BY <1>1, <1>2 DEF Rows
<1>4. \A q \in Tracked(l) : (Born(l[q].id) \/ l[q].id = r.id) /\ l[q].scanned <= now
  BY <1>1, <1>2 DEF Rows, Seemly
<1>5. ~Unseen(l)
  BY <1>1, <1>2 DEF Rows, Seemly, Unseen
<1> QED
  BY <1>3, <1>4, <1>5 DEF Nearly

LEMMA DropRow ==
  ASSUME NEW k \in Catalog, Rows(k), NEW p \in Path, NEW l \in Catalog,
         \A q \in Path : l[q] = IF q = p THEN None ELSE k[q],
         AllFit(l)
  PROVE  Rows(l)
<1>1. \A q \in Tracked(l) : q \in Tracked(k) /\ l[q] = k[q]
  BY DEF Tracked, Has
<1> QED
  BY <1>1 DEF Rows, AllFit, Unseen

LEMMA MoveRow ==
  ASSUME NEW k \in Catalog, Rows(k), NEW p \in Path, NEW q \in Path, p # q,
         Has(k, p), NEW r, Seemly(r, q), r.id = k[p].id, NEW l \in Catalog,
         \A x \in Path : l[x] = IF x = q THEN r ELSE IF x = p THEN None ELSE k[x],
         AllFit(l)
  PROVE  Rows(l)
<1>1. \A x \in Tracked(l) : x = q \/ (x # p /\ x \in Tracked(k) /\ l[x] = k[x])
  BY DEF Tracked, Has
<1>2. l[q] = r /\ p \in Tracked(k)
  BY DEF Tracked
<1>3. \A x, y \in Tracked(l) : l[x].id = l[y].id => x = y
  BY <1>1, <1>2 DEF Rows
<1>4. \A x \in Tracked(l) : Born(l[x].id) /\ l[x].scanned <= now
  BY <1>1, <1>2 DEF Rows, Seemly
<1>5. ~Unseen(l)
  BY <1>1, <1>2 DEF Rows, Seemly, Unseen
<1> QED
  BY <1>3, <1>4, <1>5 DEF Rows, AllFit

(* A change elsewhere that brings no id to where it was not leaves an       *)
(* operation fit.                                                           *)
LEMMA FitElsewhere ==
  ASSUME NEW e \in Entry, NEW k \in Catalog, Fit(e, k), NEW l \in Catalog, NEW S,
         S \cap Touch(e) = {}, \A q \in Path : q \notin S => l[q] = k[q],
         \A q \in S : q \in Tracked(l) =>
           l[q].id # e.id \/ \E x \in S : x \in Tracked(k) /\ l[q].id = k[x].id
  PROVE  Fit(e, l)
<1>1. e.path \in Path /\ e.to \in Path
  BY EntryFields
<1>2. l[e.path] = k[e.path] /\ l[e.to] = k[e.to]
  BY <1>1 DEF Touch
<1>3. ASSUME e.kind = "ingest", NEW q \in Tracked(l), l[q].id = e.id PROVE q = e.path
  <2>1. \A x \in Tracked(k) : k[x].id = e.id => x = e.path
    BY <1>3 DEF Fit
  <2>2. \A x \in S : x # e.path
    BY DEF Touch
  <2>3. q \notin S
    BY <1>3, <2>1, <2>2
  <2>4. q \in Tracked(k) /\ l[q] = k[q]
    BY <1>3, <2>3 DEF Tracked, Has
  <2> QED
    BY <1>3, <2>1, <2>4
<1>4. e.kind = "ingest" => Fit(e, l)
  BY <1>1, <1>2, <1>3 DEF Fit, Has
<1>5. e.kind # "ingest" => Fit(e, l)
  BY <1>1, <1>2 DEF Fit, Touch, Has
<1> QED
  BY <1>4, <1>5

-----------------------------------------------------------------------------
(* The log grows, and its operations are marked. *)

(* What is journaled: a new identity is of a new record, and what is under  *)
(* way is left alone.                                                       *)
NewEntry(e) ==
  /\ e \in Entry /\ e.state = "intent" /\ e.at = now /\ ~Locked(e.id)
  /\ e.kind = "ingest" => /\ e.id.path = e.path /\ e.id.sha = e.sha /\ e.id.op \in {0, Next1}
                          /\ e.id.op = 0 => RecordOf(e.path) = {}
  /\ e.kind = "move" <=> e.path # e.to
  /\ e.kind # "restore" => \A n \in DOMAIN log : Open(n) => Touch(log[n]) \cap Touch(e) = {}

LEMMA AppendRecords ==
  ASSUME TypeOK, Room, NEW e, NewEntry(e), log' = Append(log, e), NEW p \in Path
  PROVE  /\ RecordOf(p)' = IF e.kind = "ingest" /\ e.id.op = 0 /\ e.path = p
                             THEN RecordOf(p) \cup {Next1} ELSE RecordOf(p)
         /\ \A n \in RecordOf(p) : log'[n] = log[n] /\ (Pending(n)' <=> Pending(n))
<1>1. e \in Entry /\ e.state = "intent"
  BY DEF NewEntry
<1>2. ASSUME NEW n \in DOMAIN log
      PROVE  n \in RecordOf(p)' <=> n \in RecordOf(p)
  BY <1>1, AppendOpen DEF RecordOf
<1>3. ASSUME NEW n, n = Next1
      PROVE  n \in RecordOf(p)' <=> e.kind = "ingest" /\ e.id.op = 0 /\ e.path = p
  BY <1>1, <1>3, AppendOpen DEF RecordOf
<1>4. RecordOf(p)' \subseteq DOMAIN log' /\ RecordOf(p) \subseteq DOMAIN log
  BY DEF RecordOf
<1>5. \A n \in DOMAIN log' : n \in DOMAIN log \/ n = Next1
  BY <1>1, AppendOpen
<1>6. \A n \in DOMAIN log : n # Next1
  BY <1>1, AppendOpen
<1>7. \A n \in RecordOf(p) : log'[n] = log[n] /\ (Pending(n)' <=> Pending(n))
  BY <1>1, <1>4, AppendOpen
<1> QED
  BY <1>2, <1>3, <1>4, <1>5, <1>6, <1>7

LEMMA AppendLog ==
  ASSUME TypeOK, Room, EntryInv, OpenInv, NEW e, NewEntry(e), log' = Append(log, e), now' = now
  PROVE  EntryInv' /\ OpenInv'
<1>1. e \in Entry /\ e.state = "intent" /\ now \in Nat
  BY SizeFacts DEF NewEntry, TypeOK, Time
<1>2. ASSUME NEW n \in DOMAIN log'
      PROVE  /\ log'[n].at <= now'
             /\ log'[n].kind = "ingest" =>
                  /\ log'[n].id.path = log'[n].path /\ log'[n].id.sha = log'[n].sha
                  /\ log'[n].id.op \in {0, n}
             /\ log'[n].kind = "move" <=> log'[n].path # log'[n].to
  <2>1. CASE n \in DOMAIN log
    BY <1>1, <2>1, AppendOpen DEF EntryInv
  <2>2. CASE n = Next1
    BY <1>1, <2>2, AppendOpen DEF NewEntry
  <2> QED
    BY <1>1, <2>1, <2>2, AppendOpen
<1>3. ASSUME NEW p \in Path, NEW m \in RecordOf(p)', NEW n \in RecordOf(p)'
      PROVE  m = n
  BY AppendRecords DEF EntryInv, NewEntry
<1>4. ASSUME NEW m \in DOMAIN log', NEW n \in DOMAIN log', m # n, Pending(m)', Pending(n)'
      PROVE  /\ log'[m].id # log'[n].id
             /\ Open(m)' /\ Open(n)' => Touch(log'[m]) \cap Touch(log'[n]) = {}
  <2>1. CASE m \in DOMAIN log /\ n \in DOMAIN log
    BY <1>1, <1>4, <2>1, AppendOpen DEF OpenInv
  <2>2. CASE m \in DOMAIN log /\ n = Next1
    BY <1>1, <1>4, <2>2, AppendOpen DEF NewEntry, Locked
  <2>3. CASE m = Next1 /\ n \in DOMAIN log
    BY <1>1, <1>4, <2>3, AppendOpen DEF NewEntry, Locked
  <2> QED
    BY <1>1, <1>4, <2>1, <2>2, <2>3, AppendOpen
<1>5. EntryInv'
  BY <1>2, <1>3 DEF EntryInv
<1> QED
  BY <1>4, <1>5 DEF OpenInv

LEMMA AppendDisk ==
  ASSUME TypeOK, Room, DiskInv, NEW e \in Entry, log' = Append(log, e), e.state = "intent",
         e.kind # "restore" => InPlace(e), UNCHANGED <<disk, rotten, now, catalog>>
  PROVE  DiskInv'
<1>1. ASSUME NEW n \in DOMAIN log', Open(n)' PROVE InPlace(log[n])'
  <2>1. InPlace(log'[n])
    BY <1>1, AppendOpen DEF DiskInv
  <2> QED
    BY <2>1 DEF InPlace, OnDisk
<1> QED
  BY <1>1 DEF DiskInv, OnDisk

LEMMA MarkLog ==
  ASSUME TypeOK, EntryInv, OpenInv, DiskInv, NEW n \in DOMAIN log,
         log' = [log EXCEPT ![n].state = "done"], UNCHANGED <<disk, rotten, now, catalog>>
  PROVE  /\ EntryInv' /\ OpenInv' /\ DiskInv'
         /\ \A p \in Path : RecordOf(p)' = RecordOf(p)
<1>1. \A p \in Path : RecordOf(p)' = RecordOf(p)
  BY MarkFacts DEF RecordOf
<1>2. EntryInv'
  BY <1>1, MarkFacts DEF EntryInv
<1>3. OpenInv'
  <2>1. ASSUME NEW l \in DOMAIN log', NEW m \in DOMAIN log', l # m, Pending(l)', Pending(m)'
        PROVE  /\ log'[l].id # log'[m].id
               /\ Open(l)' /\ Open(m)' => Touch(log'[l]) \cap Touch(log'[m]) = {}
    <3>1. /\ l \in DOMAIN log /\ m \in DOMAIN log /\ l # n /\ m # n
          /\ log'[l] = log[l] /\ log'[m] = log[m] /\ Pending(l) /\ Pending(m)
          /\ Open(l)' => Open(l)
          /\ Open(m)' => Open(m)
      BY <2>1, MarkFacts
    <3> QED
      BY <2>1, <3>1 DEF OpenInv
  <2> QED
    BY <2>1 DEF OpenInv
<1>4. ASSUME NEW m \in DOMAIN log', Open(m)' PROVE InPlace(log[m])'
  <2>1. Open(m) /\ m # n /\ log'[m] = log[m]
    BY <1>4, MarkFacts
  <2>2. InPlace(log[m])
    BY <2>1 DEF DiskInv, Open
  <2> QED
    BY <2>1, <2>2 DEF InPlace, OnDisk
<1>5. DiskInv'
  BY <1>4 DEF DiskInv, OnDisk
<1> QED
  BY <1>1, <1>2, <1>3, <1>5

LEMMA FrameLog ==
  ASSUME EntryInv, OpenInv, UNCHANGED <<log, now>>
  PROVE  EntryInv' /\ OpenInv' /\ \A p \in Path : RecordOf(p)' = RecordOf(p)
BY DEF EntryInv, OpenInv, RecordOf, ByName, Open, Pending

LEMMA FrameDisk ==
  ASSUME DiskInv, UNCHANGED <<disk, rotten, now, log, catalog>>
  PROVE  DiskInv'
BY DEF DiskInv, Open, Pending, InPlace, OnDisk

-----------------------------------------------------------------------------
(* Commands begin. *)

LEMMA Orders ==
  ASSUME Orderly
  PROVE  /\ Calm = TRUE /\ Tidy = TRUE /\ Once = TRUE
         /\ Seen = OnDisk
         /\ \A c : MayStart(c) => \A n \in DOMAIN log : Open(n) => c = "retry" \/ (c \in {"init", "track"} /\ ByName(n))
         /\ \A p : MayIngest(p) => /\ RecordOf(p) = {} => ~Has(catalog, p)
                                   /\ \A n \in RecordOf(p) : Pending(n) \/ catalog[p] = RowOf(log[n])
BY IngestAssumption DEF Orderly, Seen, MayStart, MayIngest, Open

LEMMA TypesOf ==
  ASSUME TypeInv
  PROVE  TypeOK /\ catalog \in Catalog /\ cat \in Catalog /\ disk \in [Path -> DiskFile \cup {None}]
         /\ rotten \subseteq Path /\ now \in Nat /\ JobInv
BY SizeFacts DEF TypeInv, TypeOK, Time

LEMMA ReadCatalogKeeps ==
  ASSUME IInv, TypeInv', cat' = catalog, UNCHANGED <<files, vault, now>>
  PROVE  /\ EntryInv' /\ OpenInv' /\ DiskInv' /\ Rows(catalog)' /\ Rows(cat)' /\ Keeps'
         /\ \A p \in Path : RecordOf(p)' = RecordOf(p)
<1>1. /\ UNCHANGED <<disk, rotten, log, now, catalog>> /\ catalog \in Catalog /\ Rows(catalog)
      /\ EntryInv /\ OpenInv /\ DiskInv
  BY TypesOf DEF IInv, files, vault
<1>2. EntryInv' /\ OpenInv' /\ DiskInv' /\ \A p \in Path : RecordOf(p)' = RecordOf(p)
  BY <1>1, FrameLog, FrameDisk
<1>3. Rows(catalog)' /\ Rows(cat)'
  BY <1>1, FrameRows
<1>4. Keeps'
  BY <1>1 DEF Keeps, DiskInv, OnDisk, Tracked
<1> QED
  BY <1>2, <1>3, <1>4

LEMMA StartKeeps ==
  ASSUME IInv, Orderly, TypeInv',
         (\E S \in SUBSET Path : StartInit(S)) \/ (\E p \in Path : StartTrack(p))
  PROVE  IInv'
<1>1. PICK S \in SUBSET Path, c \in {"init", "track"} :
        /\ MayStart(c) /\ S \subseteq OnDisk /\ \A p \in S : MayIngest(p)
        /\ pc' \in {"flush", "ingest"} /\ job' = Ingesting(c, S) /\ cat' = catalog
        /\ UNCHANGED <<files, vault, now>>
  <2>1. CASE \E S \in SUBSET Path : StartInit(S)
    BY <2>1 DEF StartInit, Goto
  <2>2. CASE \E p \in Path : StartTrack(p)
    <3>1. PICK p \in Path : StartTrack(p)
      BY <2>2
    <3>2. /\ MayStart("track") /\ {p} \subseteq OnDisk /\ \A q \in {p} : MayIngest(q)
          /\ pc' \in {"flush", "ingest"} /\ job' = Ingesting("track", {p}) /\ cat' = catalog
          /\ UNCHANGED <<files, vault, now>>
      BY <3>1 DEF StartTrack, Goto
    <3> QED
      BY <3>2
  <2> QED
    BY <2>1, <2>2
<1>2. /\ EntryInv' /\ OpenInv' /\ DiskInv' /\ Rows(catalog)' /\ Rows(cat)' /\ Keeps'
      /\ \A p \in Path : RecordOf(p)' = RecordOf(p)
  BY <1>1, ReadCatalogKeeps
<1>3. Ingesting(c, S).owed = {} /\ Ingesting(c, S).plan = Planned(S)
  BY NoJobTyped DEF Ingesting, Job
<1>4. Left' = S
  <2>1. \A p \in S : Size[disk[p].sha] # None
    <3>1. TypeOK
      BY TypesOf DEF IInv
    <3> QED
      BY <1>1, <3>1, HasFile, SizeFacts DEF TypeOK
  <2> QED
    BY <1>1, <1>3, <2>1 DEF Left, Tracked, Has, Planned
<1>5. ToName'
  <2>0. UNCHANGED <<disk, log, catalog>>
    BY <1>1 DEF files, vault
  <2>1. ASSUME NEW p \in S
        PROVE  /\ p \in OnDisk' /\ cat'[p] = catalog'[p]
               /\ RecordOf(p)' = {} => ~Has(catalog', p)
               /\ \A n \in RecordOf(p)' : n \notin job'.owed /\ (Pending(n)' \/ catalog'[p] = RowOf(log'[n]))
    <3>1. MayIngest(p) /\ p \in OnDisk /\ RecordOf(p)' = RecordOf(p) /\ job'.owed = {}
      BY <1>1, <1>2, <1>3
    <3> QED
      BY <1>1, <2>0, <3>1, Orders DEF OnDisk, Pending
  <2>2. \A n \in DOMAIN log' : Open(n)' => ByName(n)'
    BY <1>1, <2>0, Orders DEF Open, Pending, ByName
  <2>3. pc' # "intent"
    BY <1>1
  <2> QED
    BY <1>4, <2>1, <2>2, <2>3 DEF ToName
<1> QED
  BY <1>1, <1>2, <1>5 DEF IInv, ToApply, Idle

-----------------------------------------------------------------------------
(* Ingest by name. *)

(* Steps that only change what the command has in memory. *)
LEMMA HandKeeps ==
  ASSUME IInv, TypeInv', UNCHANGED <<disk, rotten, log, now, catalog>>, Rows(cat')
  PROVE  /\ EntryInv' /\ OpenInv' /\ DiskInv' /\ Rows(catalog)' /\ Rows(cat)'
         /\ \A p \in Path : RecordOf(p)' = RecordOf(p)
<1>1. EntryInv' /\ OpenInv' /\ DiskInv' /\ \A p \in Path : RecordOf(p)' = RecordOf(p)
  BY FrameLog, FrameDisk DEF IInv
<1>2. catalog \in Catalog /\ Rows(catalog) /\ cat' \in Catalog
  BY TypesOf DEF IInv, TypeInv, TypeOK
<1> QED
  BY <1>1, <1>2, FrameRows

LEMMA TakenFacts ==
  ASSUME TypeInv, Left # {}, NEW n, Taken(NextFile, n)
  PROVE  /\ Left' = Left \ {NextFile} /\ job'.owed = job.owed \cup {n} /\ job'.cmd = job.cmd
         /\ job'.changes = job.changes /\ pc' \in {"flush", "ingest"} /\ NextFile \in Left
<1> DEFINE w == Without(job.plan, NextFile)
           o == job.owed \cup {n}
<1>1. NextFile \in Left /\ NextFile \in Path /\ job \in Job
  BY JobFields DEF TypeInv, TypeOK
<1>2. /\ pc' \in {"flush", "ingest"}
      /\ job' = [job EXCEPT !.plan = w, !.sum = None, !.owed = o]
  BY DEF Taken, Goto
<1> HIDE DEF w, o
<1>3. job'.plan = w /\ job'.owed = o /\ job'.cmd = job.cmd /\ job'.changes = job.changes
  BY <1>1, <1>2 DEF Job
<1>4. Left' = Left \ {NextFile}
  <2>1. \A p \in Path : w[p] = IF p = NextFile THEN None ELSE job.plan[p]
    BY <1>1 DEF w, Without, Job
  <2> QED
    BY <1>1, <1>3, <2>1 DEF Left, Tracked, Has
<1> QED
  BY <1>1, <1>2, <1>3, <1>4 DEF o

(* The row of an operation under way may be put where it belongs. *)
LEMMA OwnRow ==
  ASSUME IInv, NEW k \in Catalog, Rows(k), NEW n \in DOMAIN log, Open(n), log[n].kind = "ingest",
         NEW l \in Catalog, l = With(k, log[n].path, RowOf(log[n]))
  PROVE  /\ Rows(l)
         /\ Has(k, log[n].path) => l = k
<1> DEFINE e == log[n]
           p == e.path
           r == RowOf(e)
<1>1. e \in Entry /\ p \in Path /\ r \in Row /\ r.id = e.id /\ r.scanned = e.at /\ r.sha = e.sha
  BY LogFacts, EntryFields, RowOfTyped DEF IInv, TypeInv
<1>2. Fit(e, k) /\ InPlace(e)
  BY DEF Rows, IInv, DiskInv
<1>3. /\ Has(k, p) => k[p] = r
      /\ \A q \in Tracked(k) : k[q].id = e.id => q = p
  BY <1>2 DEF Fit
<1>4. \A q \in Path : l[q] = IF q = p THEN r ELSE k[q]
  BY <1>1, WithTyped
<1>5. Has(k, p) => l = k
  BY <1>1, <1>3, <1>4 DEF Catalog
<1>6. Seemly(r, p) /\ Born(r.id)
  <2>1. Born(e.id)
    BY DEF Born
  <2>2. e.at <= now
    BY DEF IInv, EntryInv
  <2>3. p \in OnDisk \ rotten /\ disk[p].sha # r.sha => ~Fresh(r, disk[p])
    BY <1>1, <1>2 DEF InPlace
  <2> QED
    BY <1>1, <2>1, <2>2, <2>3 DEF Seemly
<1>7. AllFit(l)
  <2>1. ASSUME NEW m \in DOMAIN log, Open(m), m # n PROVE Fit(log[m], l)
    <3>1. /\ log[m].id # e.id /\ Touch(log[m]) \cap Touch(e) = {}
      BY <2>1 DEF IInv, OpenInv, Open
    <3>2. /\ log[m] \in Entry /\ Fit(log[m], k)
      BY <2>1, LogFacts DEF IInv, TypeInv, Rows
    <3>3. {p} \cap Touch(log[m]) = {}
      BY <3>1 DEF Touch
    <3>4. \A q \in {p} : q \in Tracked(l) => l[q].id # log[m].id
      BY <1>1, <1>4, <3>1
    <3> DEFINE S == {p}
               f == log[m]
    <3>5. /\ f \in Entry /\ Fit(f, k) /\ S \cap Touch(f) = {}
          /\ \A q \in Path : q \notin S => l[q] = k[q]
          /\ \A q \in S : q \in Tracked(l) => l[q].id # f.id
      BY <1>4, <3>2, <3>3, <3>4
    <3> HIDE DEF S, f, p
    <3>6. Fit(f, l)
      BY <3>5, FitElsewhere
    <3> QED
      BY <3>6 DEF f
  <2>2. Fit(e, l)
    BY <1>1, <1>3, <1>4 DEF Fit, Tracked, Has
  <2> QED
    BY <2>1, <2>2 DEF AllFit
<1> HIDE DEF p, r
<1>8. Rows(l)
  <2>1. Nearly(l, r.id)
    BY <1>1, <1>3, <1>4, <1>6, <1>7, PutRow
  <2> QED
    BY <1>6, <2>1, NearlyBorn
<1> QED
  BY <1>5, <1>8 DEF p

LEMMA TakeRecordedKeeps ==
  ASSUME IInv, Orderly, TypeInv', TakeRecorded
  PROVE  IInv'
<1> DEFINE p == NextFile
<1>1. PICK n \in RecordOf(p) : cat' = With(cat, p, RowOf(log[n])) /\ Taken(p, n)
  BY DEF TakeRecorded
<1>2. /\ pc = "ingest" /\ Left # {} /\ UNCHANGED <<disk, rotten, log, now, catalog>> /\ TypeInv
  BY DEF TakeRecorded, files, vault, IInv
<1>3. /\ Left' = Left \ {p} /\ job'.owed = job.owed \cup {n} /\ job'.cmd = job.cmd
      /\ pc' \in {"flush", "ingest"} /\ p \in Left
  BY <1>1, <1>2, TakenFacts
<1>4. Rows(cat) /\ Keeps /\ ToName /\ cat \in Catalog /\ cat' \in Catalog
  BY <1>2, TypesOf DEF IInv, Idle, TypeInv, TypeOK
<1>5. /\ n \in DOMAIN log /\ log[n].kind = "ingest" /\ log[n].path = p /\ p \in Path
  BY <1>2, <1>3, JobFields DEF RecordOf, ByName, TypeInv
<1>6. /\ p \in OnDisk /\ cat[p] = catalog[p]
      /\ Pending(n) \/ catalog[p] = RowOf(log[n])
  BY <1>3, <1>4 DEF ToName
<1>7. Rows(cat') /\ (Has(cat, p) => cat' = cat)
  <2>1. CASE catalog[p] = RowOf(log[n])
    <3>1. cat' = cat
      <4>1. RowOf(log[n]) \in Row
        BY <1>2, <1>5, LogFacts, RowOfTyped DEF TypeInv
      <4> DEFINE r == RowOf(log[n])
      <4>2. cat[p] = r /\ cat' = With(cat, p, r) /\ r \in Row
        BY <1>1, <1>6, <2>1, <4>1
      <4> HIDE DEF r
      <4> QED
        BY <1>4, <1>5, <4>2 DEF With, Catalog
    <3> QED
      BY <1>4, <3>1
  <2>2. CASE catalog[p] # RowOf(log[n])
    <3>1. Open(n)
      BY <1>5, <1>6, <2>2 DEF Open
    <3> QED
      BY <1>1, <1>4, <1>5, <3>1, OwnRow
  <2> QED
    BY <2>1, <2>2
<1>8. \A q \in Path : q # p => cat'[q] = cat[q]
  BY <1>1, <1>4, <1>5 DEF With, Catalog
<1>9. /\ EntryInv' /\ OpenInv' /\ DiskInv' /\ Rows(catalog)' /\ Rows(cat)'
      /\ \A q \in Path : RecordOf(q)' = RecordOf(q)
  BY <1>2, <1>7, HandKeeps
<1>10. Keeps'
  <2>1. ASSUME NEW q \in Tracked(catalog)
        PROVE  IF Has(cat', q) THEN cat'[q].id = catalog[q].id \/ job.cmd = "restore" ELSE q \notin OnDisk
    <3>1. CASE q = p
      BY <1>4, <1>6, <1>7, <2>1, <3>1 DEF Keeps, Tracked, Has
    <3>2. CASE q # p
      BY <1>4, <1>8, <2>1, <3>2 DEF Keeps, Tracked, Has
    <3> QED
      BY <3>1, <3>2
  <2>2. ASSUME NEW q \in rotten
        PROVE  cat'[q].sha = catalog[q].sha /\ Fresh(cat'[q], disk[q])
    <3>1. Has(catalog, q) /\ q \in Path
      BY <2>2 DEF IInv, DiskInv, OnDisk, Tracked
    <3>2. cat'[q] = cat[q]
      BY <1>6, <1>7, <1>8, <3>1 DEF Has
    <3> QED
      BY <1>4, <2>2, <3>2 DEF Keeps
  <2> QED
    BY <1>2, <1>3, <2>1, <2>2 DEF Keeps, OnDisk
<1>11. ToName'
  <2>1. ASSUME NEW q \in Left \ {p}
        PROVE  /\ q \in OnDisk' /\ cat'[q] = catalog'[q]
               /\ RecordOf(q)' = {} => ~Has(catalog', q)
               /\ \A m \in RecordOf(q)' : m \notin job'.owed /\ (Pending(m)' \/ catalog'[q] = RowOf(log'[m]))
    <3>1. q \in Path /\ q # p /\ q \in Left
      BY <1>2, <2>1, JobFields DEF TypeInv
    <3>2. n \notin RecordOf(q)
      BY <1>5, <3>1 DEF RecordOf
    <3> QED
      BY <1>2, <1>3, <1>4, <1>8, <1>9, <3>1, <3>2 DEF ToName, OnDisk, Pending
  <2>2. \A m \in DOMAIN log' : Open(m)' => ByName(m)'
    BY <1>2, <1>4 DEF ToName, Open, Pending, ByName
  <2> QED
    BY <1>3, <2>1, <2>2 DEF ToName
<1> QED
  BY <1>3, <1>9, <1>10, <1>11 DEF IInv, ToApply, Idle

LEMMA HashKeeps ==
  ASSUME IInv, Orderly, TypeInv', Hash
  PROVE  IInv'
<1>1. /\ pc = "ingest" /\ Left # {} /\ RecordOf(NextFile) = {} /\ pc' = "intent"
      /\ job' = [job EXCEPT !.sum = disk[NextFile].sha]
      /\ UNCHANGED <<disk, rotten, log, now, catalog, cat>> /\ TypeInv
  BY DEF Hash, Goto, files, vault, IInv
<1>2. Rows(cat) /\ Keeps /\ ToName
  BY <1>1 DEF IInv, Idle
<1>3. /\ job'.sum = disk[NextFile].sha /\ job'.plan = job.plan /\ job'.owed = job.owed
      /\ job'.cmd = job.cmd
  BY <1>1 DEF TypeInv, TypeOK, Job
<1>4. /\ EntryInv' /\ OpenInv' /\ DiskInv' /\ Rows(catalog)' /\ Rows(cat)'
      /\ \A q \in Path : RecordOf(q)' = RecordOf(q)
  BY <1>1, <1>2, HandKeeps
<1>5. Left' = Left /\ NextFile' = NextFile /\ NextFile \in Left /\ Left \subseteq Path
  <2>1. Left' = Left
    BY <1>3 DEF Left
  <2> QED
    BY <1>1, <2>1, JobFields DEF NextFile, TypeInv
<1>6. Keeps'
  BY <1>1, <1>2, <1>3 DEF Keeps, OnDisk
<1>7. ToName'
  BY <1>1, <1>2, <1>3, <1>4, <1>5 DEF ToName, OnDisk, Open, Pending, ByName
<1> QED
  BY <1>1, <1>4, <1>6, <1>7 DEF IInv, ToApply, Idle

LEMMA AppendIntentKeeps ==
  ASSUME IInv, Orderly, TypeInv', AppendIntent
  PROVE  IInv'
<1> DEFINE p == NextFile
           i == [path |-> NextFile, sha |-> job.sum, op |-> 0]
           e == Intent("ingest", i, p, p, job.sum, job.plan[p])
           r == RowOf(e)
<1>1. /\ pc = "intent" /\ ~Locked(i) /\ Room /\ log' = Append(log, e) /\ cat' = With(cat, p, r)
      /\ Taken(p, Next1) /\ UNCHANGED <<disk, rotten, catalog, now>> /\ TypeInv
  BY DEF AppendIntent, files, IInv
<1>2. /\ Left # {} /\ job.sum \in Sha /\ TypeOK /\ cat \in Catalog /\ catalog \in Catalog
  BY <1>1, TypesOf DEF JobInv
<1>3. /\ Left' = Left \ {p} /\ job'.owed = job.owed \cup {Next1} /\ job'.cmd = job.cmd
      /\ pc' \in {"flush", "ingest"} /\ p \in Left
  BY <1>1, <1>2, TakenFacts
<1>4. p \in Path /\ job.plan[p] \in Sizes /\ Left \subseteq Path
  BY <1>2, <1>3, JobFields
<1>5. /\ Rows(cat) /\ Keeps /\ ToName /\ EntryInv /\ OpenInv /\ DiskInv /\ Rows(catalog)
  BY <1>1 DEF IInv, Idle
<1>6. /\ p \in OnDisk /\ cat[p] = catalog[p] /\ RecordOf(p) = {} /\ ~Has(catalog, p)
      /\ job.sum = disk[p].sha
  BY <1>1, <1>3, <1>5 DEF ToName
<1>7. i \in Id /\ i.path = p /\ i.sha = job.sum /\ i.op = 0
  BY <1>2, <1>4, SizeFacts DEF Id
<1>8. now \in Time /\ "ingest" \in Kind
  BY <1>2 DEF TypeOK, Kind
<1> HIDE DEF i
<1>9. /\ e \in Entry /\ e.kind = "ingest" /\ e.id = i /\ e.path = p /\ e.to = p
      /\ e.sha = job.sum /\ e.at = now /\ e.state = "intent"
  BY <1>2, <1>4, <1>7, <1>8, IntentTyped
<1> HIDE DEF e
<1>10. r \in Row /\ r.id = i /\ r.sha = job.sum /\ r.scanned = now
  BY <1>9, RowOfTyped
<1>11. cat' \in Catalog /\ \A q \in Path : cat'[q] = IF q = p THEN r ELSE cat[q]
  BY <1>1, <1>2, <1>4, <1>10, WithTyped
(* No row has the new identity, as its path was never ingested by name. *)
<1>12. ASSUME NEW k \in Catalog, Rows(k), NEW q \in Tracked(k) PROVE k[q].id # i
  <2>1. Born(k[q].id)
    BY <1>12 DEF Rows
  <2>2. ASSUME k[q].id = i PROVE FALSE
    <3>1. i.op # None
      BY <1>7, IngestAssumption
    <3>2. PICK n \in DOMAIN log : log[n].kind = "ingest" /\ log[n].id = i
      BY <2>1, <2>2, <3>1 DEF Born
    <3>3. n \in RecordOf(p)
      BY <1>5, <1>7, <3>2 DEF EntryInv, RecordOf, ByName
    <3> QED
      BY <1>6, <3>3
  <2> QED
    BY <2>2
<1>13. p \notin rotten
  BY <1>5, <1>6 DEF DiskInv
<1>14. \A n \in DOMAIN log : Open(n) => log[n].path # p /\ log[n].to # p /\ log[n].id # i
  <2>1. ASSUME NEW n \in DOMAIN log, Open(n) PROVE log[n].path # p /\ log[n].to # p
    <3>1. ByName(n)
      BY <1>3, <1>5, <2>1 DEF ToName
    <3>2. log[n].path = log[n].to
      BY <1>5, <3>1 DEF EntryInv, ByName
    <3> QED
      BY <1>6, <3>1, <3>2 DEF RecordOf
  <2> QED
    BY <1>1, <2>1 DEF Open, Locked
<1>15. NewEntry(e)
  <2>1. \A n \in DOMAIN log : Open(n) => Touch(log[n]) \cap Touch(e) = {}
    BY <1>9, <1>14 DEF Touch
  <2> QED
    BY <1>1, <1>6, <1>7, <1>9, <2>1 DEF NewEntry
<1>16. EntryInv' /\ OpenInv'
  BY <1>1, <1>2, <1>5, <1>15, AppendLog
<1>17. DiskInv'
  <2>1. InPlace(e)
    BY <1>6, <1>9 DEF InPlace
  <2> QED
    BY <1>1, <1>2, <1>5, <1>9, <2>1, AppendDisk
<1>18. Rows(catalog)'
  <2>1. Fit(e, catalog)
    BY <1>2, <1>5, <1>6, <1>9, <1>12 DEF Fit
  <2> QED
    BY <1>1, <1>2, <1>5, <1>9, <2>1, AppendRows
<1>19. Rows(cat)'
  <2>1. Seemly(r, p)
    BY <1>2, <1>6, <1>8, <1>10, SizeFacts DEF Seemly, Time
  <2>2. AllFit(cat')
    <3>1. ASSUME NEW n \in DOMAIN log, Open(n) PROVE Fit(log[n], cat')
      <4> DEFINE f == log[n]
                 S == {p}
      <4>1. /\ f \in Entry /\ Fit(f, cat)
            /\ S \cap Touch(f) = {} /\ f.id # i
        BY <1>2, <1>5, <1>14, <3>1, LogFacts DEF Rows, Touch
      <4>2. /\ \A q \in Path : q \notin S => cat'[q] = cat[q]
            /\ \A q \in S : q \in Tracked(cat') => cat'[q].id # f.id
        BY <1>4, <1>10, <1>11, <4>1
      <4> HIDE DEF S, f
      <4>3. Fit(f, cat')
        BY <1>2, <1>11, <4>1, <4>2, FitElsewhere
      <4> QED
        BY <4>3 DEF f
    <3> QED
      BY <3>1 DEF AllFit
  <2>3. \A q \in Tracked(cat) : cat[q].id = r.id => q = p
    BY <1>2, <1>5, <1>10, <1>12
  <2> HIDE DEF p, r
  <2>4. Nearly(cat', r.id)
    BY <1>2, <1>4, <1>5, <1>11, <2>1, <2>2, <2>3, PutRow
  <2>5. Fit(e, cat')
    <3>1. cat'[p] = r /\ \A q \in Tracked(cat') : cat'[q].id = e.id => q = p
      <4>1. ASSUME NEW q \in Tracked(cat'), q # p PROVE cat'[q].id # e.id
        <5>1. q \in Tracked(cat) /\ cat'[q] = cat[q]
          BY <1>11, <4>1 DEF Tracked, Has
        <5> QED
          BY <1>2, <1>5, <1>9, <1>12, <5>1
      <4> QED
        BY <1>4, <1>11, <4>1
    <3> QED
      BY <1>9, <3>1 DEF Fit, r
  <2> QED
    BY <1>1, <1>2, <1>9, <1>10, <1>11, <2>4, <2>5, AppendNearly
<1>20. Keeps'
  <2>1. \A q \in Path : q # p => cat'[q] = cat[q]
    BY <1>11
  <2>2. rotten \subseteq Path
    BY <1>1, TypesOf
  <2>3. ASSUME NEW q \in Tracked(catalog)
        PROVE  IF Has(cat', q) THEN cat'[q].id = catalog[q].id \/ job.cmd = "restore" ELSE q \notin OnDisk
    <3>1. q \in Path /\ q # p
      BY <1>6, <2>3 DEF Tracked
    <3> QED
      BY <1>5, <2>1, <2>3, <3>1 DEF Keeps, Has
  <2>4. \A q \in rotten : cat'[q].sha = catalog[q].sha /\ Fresh(cat'[q], disk[q])
    BY <1>5, <1>13, <2>1, <2>2 DEF Keeps
  <2> QED
    BY <1>1, <1>3, <2>3, <2>4 DEF Keeps, OnDisk
<1>21. ToName'
  <2>1. ASSUME NEW q \in Left \ {p}
        PROVE  /\ q \in OnDisk' /\ cat'[q] = catalog'[q]
               /\ RecordOf(q)' = {} => ~Has(catalog', q)
               /\ \A m \in RecordOf(q)' : m \notin job'.owed /\ (Pending(m)' \/ catalog'[q] = RowOf(log'[m]))
    <3>1. q \in Path /\ q # p /\ q \in Left
      BY <1>4, <2>1
    <3>2. /\ RecordOf(q)' = RecordOf(q)
          /\ \A m \in RecordOf(q) : log'[m] = log[m] /\ (Pending(m)' <=> Pending(m))
      BY <1>1, <1>2, <1>9, <1>15, <3>1, AppendRecords
    <3>3. \A m \in RecordOf(q) : m # Next1
      BY <1>1, <1>2, <1>9, AppendOpen DEF RecordOf
    <3> QED
      BY <1>1, <1>3, <1>5, <1>11, <3>1, <3>2, <3>3 DEF ToName, OnDisk
  <2>2. \A m \in DOMAIN log' : Open(m)' => ByName(m)'
    BY <1>1, <1>2, <1>3, <1>5, <1>7, <1>9, AppendOpen DEF ToName
  <2> QED
    BY <1>3, <2>1, <2>2 DEF ToName
<1> QED
  BY <1>3, <1>16, <1>17, <1>18, <1>19, <1>20, <1>21 DEF IInv, ToApply, Idle

-----------------------------------------------------------------------------
(* The catalog is written, and operations are marked. *)

LEMMA FlushKeeps ==
  ASSUME IInv, Orderly, TypeInv', Flush
  PROVE  IInv'
<1>1. /\ pc = "flush" /\ pc' = "mark" /\ catalog' = cat /\ job' = job
      /\ UNCHANGED <<disk, rotten, log, now, cat>> /\ TypeInv
  BY DEF Flush, Goto, files, IInv
<1>2. /\ Rows(cat) /\ Keeps /\ ToName /\ EntryInv /\ OpenInv /\ DiskInv
      /\ cat \in Catalog /\ catalog \in Catalog
  BY <1>1, TypesOf DEF IInv, Idle
<1>3. EntryInv' /\ OpenInv' /\ \A p \in Path : RecordOf(p)' = RecordOf(p)
  BY <1>1, <1>2, FrameLog
<1>4. Rows(cat)'
  BY <1>1, <1>2, FrameRows
<1>5. Rows(catalog)'
  BY <1>1, <1>4
<1>6. DiskInv'
  <2>1. ASSUME NEW p \in rotten
        PROVE  p \in OnDisk /\ Has(cat, p) /\ disk[p].sha # cat[p].sha /\ Fresh(cat[p], disk[p])
    <3>1. p \in OnDisk /\ Has(catalog, p) /\ disk[p].sha # catalog[p].sha
      BY <1>2, <2>1 DEF DiskInv
    <3>2. p \in Tracked(catalog)
      BY <3>1 DEF OnDisk, Tracked
    <3>3. Has(cat, p)
      BY <1>2, <3>1, <3>2 DEF Keeps
    <3> QED
      BY <1>2, <2>1, <3>1, <3>3 DEF Keeps
  <2>2. \A n \in DOMAIN log' : Open(n)' => InPlace(log[n])'
    BY <1>1, <1>2 DEF DiskInv, Open, Pending, InPlace, OnDisk
  <2> QED
    BY <1>1, <1>2, <2>1, <2>2 DEF DiskInv, OnDisk, Has
<1>7. Keeps'
  <2>1. \A p \in rotten : Fresh(cat[p], disk[p])
    BY <1>2 DEF Keeps
  <2> QED
    BY <1>1, <2>1 DEF Keeps, Tracked, Has
<1>8. ToName'
  <2>1. Left' = Left /\ Left \subseteq Path
    BY <1>1, JobFields DEF Left, TypeInv
  <2> QED
    BY <1>1, <1>2, <1>3, <2>1 DEF ToName, OnDisk, Has, Open, Pending, ByName
<1> QED
  BY <1>1, <1>3, <1>4, <1>5, <1>6, <1>7, <1>8 DEF IInv, ToApply, Idle

LEMMA Least ==
  ASSUME NEW T, T \subseteq Nat, T # {}
  PROVE  \E x \in T : \A y \in T : x <= y
<1>1. IsWellFoundedOn({r \in Nat \X Nat : r[1] < r[2]}, Nat)
  BY NatLessThanWellFounded DEF OpToRel
<1>2. PICK x \in T : \A y \in T : ~ (<<y, x>> \in {r \in Nat \X Nat : r[1] < r[2]})
  BY <1>1, WFMin, Zenon
<1>3. ASSUME NEW y \in T PROVE x <= y
  <2>1. x \in Nat /\ y \in Nat
    OBVIOUS
  <2>2. y < x => <<y, x>> \in {r \in Nat \X Nat : r[1] < r[2]}
    BY <2>1
  <2> QED
    BY <1>2, <2>1, <2>2
<1> QED
  BY <1>3

LEMMA FirstIsOwed ==
  ASSUME TypeOK, job.owed # {}
  PROVE  FirstOwed \in job.owed
<1>1. job.owed \subseteq Nat
  BY JobFields, SizeFacts
<1>2. \E n \in job.owed : \A m \in job.owed : n <= m
  BY <1>1, Least
<1> QED
  BY <1>2 DEF FirstOwed

LEMMA MarkDoneKeeps ==
  ASSUME IInv, Orderly, TypeInv', MarkDone
  PROVE  IInv'
<1> DEFINE n == FirstOwed
           o == job.owed \ {n}
<1>1. /\ pc = "mark" /\ pc' = "mark" /\ job.owed # {}
      /\ log' = [log EXCEPT ![n].state = "done"] /\ job' = [job EXCEPT !.owed = o]
      /\ UNCHANGED <<disk, rotten, now, catalog, cat>> /\ TypeInv
  BY DEF MarkDone, Goto, files, IInv
<1>2. /\ Rows(cat) /\ Keeps /\ ToName /\ EntryInv /\ OpenInv /\ DiskInv /\ Rows(catalog)
      /\ cat \in Catalog /\ catalog \in Catalog /\ TypeOK
  BY <1>1, TypesOf DEF IInv, Idle
<1>3. n \in job.owed
  BY <1>1, <1>2, FirstIsOwed
<1> HIDE DEF n
<1>4. job'.owed = o /\ job'.plan = job.plan /\ job'.cmd = job.cmd /\ job'.sum = job.sum
  BY <1>1, <1>2 DEF TypeOK, Job
<1>5. /\ EntryInv' /\ OpenInv' /\ DiskInv' /\ Rows(catalog)' /\ Rows(cat)'
      /\ \A p \in Path : RecordOf(p)' = RecordOf(p)
      /\ \A m \in DOMAIN log : m # n => log'[m] = log[m]
      /\ DOMAIN log' = DOMAIN log
      /\ \A m \in DOMAIN log : (Open(m)' => Open(m)) /\ (ByName(m) => ByName(m)')
  <2>1. CASE n \in DOMAIN log
    <3>1. \A m \in DOMAIN log : /\ m # n => log'[m] = log[m]
                                /\ Open(m)' => Open(m)
                                /\ ByName(m)' <=> ByName(m)
      BY <1>1, <1>2, <2>1, MarkFacts
    <3>2. DOMAIN log' = DOMAIN log
      BY <1>1, <1>2, <2>1, MarkFacts
    <3>3. EntryInv' /\ OpenInv' /\ DiskInv' /\ \A p \in Path : RecordOf(p)' = RecordOf(p)
      BY <1>1, <1>2, <2>1, MarkLog
    <3>4. Rows(catalog)' /\ Rows(cat)'
      BY <1>1, <1>2, <2>1, MarkRows
    <3> QED
      BY <3>1, <3>2, <3>3, <3>4
  <2>2. CASE n \notin DOMAIN log
    <3>1. log' = log
      BY <1>1, <1>2, <2>2 DEF TypeOK
    <3>2. EntryInv' /\ OpenInv' /\ DiskInv' /\ \A p \in Path : RecordOf(p)' = RecordOf(p)
      BY <1>1, <1>2, <3>1, FrameLog, FrameDisk
    <3>3. Rows(catalog)' /\ Rows(cat)'
      BY <1>1, <1>2, <3>1, FrameRows
    <3> QED
      BY <3>1, <3>2, <3>3 DEF Open, Pending, ByName
  <2> QED
    BY <2>1, <2>2
<1>6. Keeps'
  BY <1>1, <1>2, <1>4 DEF Keeps, OnDisk
<1>7. ToName'
  <2>1. Left' = Left /\ Left \subseteq Path
    BY <1>2, <1>4, JobFields DEF Left
  <2>2. ASSUME NEW p \in Left, NEW m \in RecordOf(p)'
        PROVE  m \notin job'.owed /\ (Pending(m)' \/ catalog'[p] = RowOf(log'[m]))
    <3>1. /\ p \in Path /\ m \in RecordOf(p) /\ m \in DOMAIN log
          /\ m \notin job.owed /\ (Pending(m) \/ catalog[p] = RowOf(log[m]))
      BY <1>2, <1>5, <2>1, <2>2 DEF ToName, RecordOf
    <3>2. log'[m] = log[m]
      BY <1>3, <1>5, <3>1
    <3> QED
      BY <1>1, <1>4, <3>1, <3>2 DEF Pending
  <2>3. ASSUME NEW p \in Left
        PROVE  p \in OnDisk' /\ cat'[p] = catalog'[p] /\ (RecordOf(p)' = {} => ~Has(catalog', p))
    BY <1>1, <1>2, <1>5, <2>1 DEF ToName, OnDisk
  <2>4. Left # {} => \A m \in DOMAIN log' : Open(m)' => ByName(m)'
    BY <1>2, <1>5 DEF ToName
  <2> QED
    BY <1>1, <2>1, <2>2, <2>3, <2>4 DEF ToName
<1> QED
  BY <1>1, <1>5, <1>6, <1>7 DEF IInv, ToApply, Idle

LEMMA EndKeeps ==
  ASSUME IInv, Orderly, TypeInv', Marked \/ Die
  PROVE  IInv'
<1>1. /\ UNCHANGED <<disk, rotten, log, now, catalog>> /\ TypeInv /\ ~Idle
      /\ Idle' \/ (pc' = "ingest" /\ pc = "mark" /\ job' = job /\ cat' = cat)
  BY DEF Marked, Die, Leave, Goto, files, vault, IInv, Idle
<1>2. EntryInv' /\ OpenInv' /\ DiskInv' /\ \A p \in Path : RecordOf(p)' = RecordOf(p)
  BY <1>1, FrameLog, FrameDisk DEF IInv
<1>3. catalog \in Catalog /\ cat \in Catalog /\ Rows(catalog) /\ Rows(cat) /\ Keeps /\ ToName
  BY <1>1, TypesOf DEF IInv
<1>4. Rows(catalog)'
  BY <1>1, <1>3, FrameRows
<1>5. CASE Idle'
  BY <1>2, <1>4, <1>5 DEF IInv
<1>6. CASE pc' = "ingest" /\ pc = "mark" /\ job' = job /\ cat' = cat
  <2>1. Rows(cat)'
    BY <1>1, <1>3, <1>6, FrameRows
  <2>2. Keeps'
    BY <1>1, <1>3, <1>6 DEF Keeps, OnDisk
  <2>3. Left' = Left /\ Left \subseteq Path
    BY <1>1, <1>6, JobFields DEF Left, TypeInv
  <2>4. ToName'
    BY <1>1, <1>2, <1>3, <1>6, <2>3 DEF ToName, OnDisk, Open, Pending, ByName
  <2> QED
    BY <1>2, <1>4, <1>6, <2>1, <2>2, <2>4 DEF IInv, ToApply
<1> QED
  BY <1>1, <1>5, <1>6

-----------------------------------------------------------------------------
(* Scan. *)

LEMMA StartScanKeeps ==
  ASSUME IInv, Orderly, TypeInv', \E paranoid \in BOOLEAN : StartScan(paranoid)
  PROVE  IInv'
<1>1. PICK paranoid \in BOOLEAN : StartScan(paranoid)
  OBVIOUS
<1>2. PICK confirmed \in SUBSET Deletes(catalog) :
        Applying([NoJob EXCEPT !.cmd = "scan",
                               !.changes = AllFound(catalog, paranoid, confirmed)])
  BY <1>1 DEF StartScan, AllFound
<1> DEFINE S == AllFound(catalog, paranoid, confirmed)
           j == [NoJob EXCEPT !.cmd = "scan", !.changes = S]
<1>3. TypeOK
  BY TypesOf DEF IInv
<1>4. S \subseteq Diffs(catalog)
  BY <1>3, ScanPlan
<1>5. Applying(j)
  BY <1>2
<1> HIDE DEF S
<1>6. j.changes = S /\ j.plan = Empty
  BY NoJobTyped DEF Job
<1> HIDE DEF j
<1>7. job' = j /\ pc' \in {"flush", "apply"}
  BY <1>5 DEF Applying, Goto
<1>8. MayStart("scan") /\ cat' = catalog /\ UNCHANGED <<files, vault, now>>
  BY <1>1 DEF StartScan
<1>9. EntryInv' /\ OpenInv' /\ DiskInv' /\ Rows(catalog)' /\ Rows(cat)' /\ Keeps'
  BY <1>8, ReadCatalogKeeps
<1>10. Left' = {}
  BY <1>6, <1>7 DEF Left, Tracked, Has, Empty
<1>11. UNCHANGED <<disk, rotten, log, catalog>>
  BY <1>8 DEF files, vault
<1>12. \A n \in DOMAIN log' : ~Open(n)'
  BY <1>8, <1>11, Orders DEF Open, Pending
<1>13. ToName'
  BY <1>7, <1>10 DEF ToName
<1>14. Diffs(catalog)' = Diffs(catalog)
  BY <1>11 DEF Diffs, Seen, OnDisk, Gone, New
<1>15. ToApply'
  BY <1>4, <1>6, <1>7, <1>8, <1>10, <1>11, <1>12, <1>14 DEF ToApply
<1> QED
  BY <1>9, <1>13, <1>15 DEF IInv

LEMMA AppliedFacts ==
  ASSUME TypeInv, pc = "apply", NEW o \in SUBSET (1 .. MaxOps), Applied(o)
  PROVE  /\ job'.changes = job.changes \ {NextChange} /\ job'.plan = job.plan
         /\ job'.cmd = job.cmd /\ pc' \in {"flush", "apply"} /\ Left' = Left
<1> DEFINE S == job.changes \ {NextChange}
           w == job.owed \cup o
<1>1. /\ pc' = (IF S = {} THEN "flush" ELSE "apply")
      /\ job' = [job EXCEPT !.changes = S, !.owed = w]
  <2>1. [job EXCEPT !.changes = @ \ {NextChange}, !.owed = @ \cup o].changes = S
    BY DEF TypeInv, TypeOK, Job
  <2> QED
    BY <2>1 DEF Applied, Applying, Goto
<1> HIDE DEF S, w
<1>2. job'.changes = S /\ job'.plan = job.plan /\ job'.cmd = job.cmd
  BY <1>1 DEF TypeInv, TypeOK, Job
<1> QED
  BY <1>1, <1>2 DEF S, Left

(* What is known of the change at hand. *)
LEMMA ChangeIs ==
  ASSUME IInv, Orderly, pc = "apply", NEW ch, ch = NextChange
  PROVE  /\ cat[ch.old] = catalog[ch.old] /\ cat[ch.path] = catalog[ch.path]
         /\ \A n \in DOMAIN log : Open(n) => Touch(log[n]) \cap {ch.old, ch.path} = {}
         /\ ch.kind \in Finding /\ ch.path \in Path /\ ch.old \in Path /\ ch.sha \in Sha
         /\ ch.size \in Sizes
         /\ ch.kind # "moved" => ch.old = ch.path
         /\ ch.kind \in {"verified", "edited"} =>
              Has(catalog, ch.path) /\ ch.path \in OnDisk \ rotten /\ ch.sha = disk[ch.path].sha
         /\ ch.kind = "verified" => ch.sha = catalog[ch.path].sha
         /\ ch.kind = "added" =>
              ~Has(catalog, ch.path) /\ ch.path \in OnDisk \ rotten /\ ch.sha = disk[ch.path].sha
         /\ ch.kind = "deleted" => Has(catalog, ch.path) /\ ch.path \notin OnDisk
         /\ ch.kind = "moved" =>
              /\ ch.old # ch.path /\ Has(catalog, ch.old) /\ ch.old \notin OnDisk
              /\ ~Has(catalog, ch.path) /\ ch.path \in OnDisk \ rotten
              /\ ch.sha = disk[ch.path].sha /\ ch.sha = catalog[ch.old].sha
<1>1. ToApply /\ DiskInv /\ TypeInv
  BY DEF IInv, Idle
<1>2. /\ ch \in job.changes /\ ch.kind \in Finding /\ ch.path \in Path /\ ch.old \in Path
      /\ ch.sha \in Sha /\ ch.size \in Sizes
  BY <1>1, ChangeFacts
<1>3. /\ ch \in Diffs(catalog)
      /\ cat[ch.old] = catalog[ch.old] /\ cat[ch.path] = catalog[ch.path]
      /\ \A n \in DOMAIN log : Open(n) => Touch(log[n]) \cap {ch.old, ch.path} = {}
  BY <1>1, <1>2 DEF ToApply
<1>4. \A p \in rotten : /\ p \in OnDisk /\ Has(catalog, p)
                        /\ disk[p].sha # catalog[p].sha /\ Fresh(catalog[p], disk[p])
  BY <1>1 DEF DiskInv
<1>5. Seen = OnDisk
  BY Orders
<1>6. /\ Gone(catalog) = Tracked(catalog) \ OnDisk /\ New(catalog) = OnDisk \ Tracked(catalog)
      /\ \A p \in Path : p \in Tracked(catalog) <=> Has(catalog, p)
  BY <1>5 DEF Gone, New, Tracked
<1>7. CASE ch.kind \in {"verified", "suspect", "edited"}
  BY <1>2, <1>3, <1>4, <1>5, <1>6, <1>7 DEF Diffs
<1>8. CASE ch.kind = "moved"
  BY <1>2, <1>3, <1>4, <1>6, <1>8 DEF Diffs
<1>9. CASE ch.kind \in {"added", "deleted"}
  BY <1>2, <1>3, <1>4, <1>6, <1>9 DEF Diffs
<1> QED
  BY <1>2, <1>3, <1>7, <1>8, <1>9 DEF Finding

(* A change of a row leaves what is still to apply as it was found. *)
LEMMA AppliedKeeps ==
  ASSUME IInv, Orderly, TypeInv', pc = "apply", NEW o \in SUBSET (1 .. MaxOps), Applied(o),
         UNCHANGED <<disk, rotten, now, catalog>>,
         EntryInv', OpenInv', DiskInv', Rows(catalog)', Rows(cat)',
         NEW ch, ch = NextChange,
         \A p \in Path : p \notin {ch.old, ch.path} => cat'[p] = cat[p],
         \A n \in DOMAIN log' : Open(n)' => \/ n \in DOMAIN log /\ Open(n) /\ log'[n] = log[n]
                                            \/ Touch(log'[n]) = {ch.old, ch.path},
         \/ cat' = cat
         \/ \A p \in {ch.old, ch.path} :
              /\ p \notin rotten
              /\ p \in Tracked(catalog) => IF Has(cat', p) THEN cat'[p].id = catalog[p].id
                                           ELSE p \notin OnDisk
  PROVE  IInv'
<1>1. /\ Keeps /\ ToName /\ ToApply /\ TypeInv /\ rotten \subseteq Path
  BY TypesOf DEF IInv, Idle
<1>2. /\ job'.changes = job.changes \ {ch} /\ job'.plan = job.plan
      /\ job'.cmd = job.cmd /\ pc' \in {"flush", "apply"} /\ Left' = Left
  BY <1>1, AppliedFacts
<1>3. /\ Left = {} /\ job.changes \subseteq Diffs(catalog)
      /\ \A dh \in job.changes :
           /\ cat[dh.old] = catalog[dh.old] /\ cat[dh.path] = catalog[dh.path]
           /\ \A n \in DOMAIN log : Open(n) => Touch(log[n]) \cap {dh.old, dh.path} = {}
  BY <1>1 DEF ToApply
<1>4. Keeps'
  <2>1. CASE cat' = cat
    BY <1>1, <1>2, <2>1 DEF Keeps, OnDisk
  <2>2. CASE \A p \in {ch.old, ch.path} :
              /\ p \notin rotten
              /\ p \in Tracked(catalog) => IF Has(cat', p) THEN cat'[p].id = catalog[p].id
                                           ELSE p \notin OnDisk
    <3>1. ASSUME NEW q \in Tracked(catalog)
          PROVE  IF Has(cat', q) THEN cat'[q].id = catalog[q].id \/ job.cmd = "restore" ELSE q \notin OnDisk
      <4>1. CASE q \in {ch.old, ch.path}
        BY <2>2, <3>1, <4>1
      <4>2. CASE q \notin {ch.old, ch.path}
        <5>1. cat'[q] = cat[q]
          BY <3>1, <4>2 DEF Tracked
        <5> QED
          BY <1>1, <3>1, <5>1 DEF Keeps, Has
      <4> QED
        BY <4>1, <4>2
    <3>2. ASSUME NEW q \in rotten
          PROVE  cat'[q].sha = catalog[q].sha /\ Fresh(cat'[q], disk[q])
      <4>1. cat'[q] = cat[q]
        BY <1>1, <2>2, <3>2
      <4> QED
        BY <1>1, <3>2, <4>1 DEF Keeps
    <3> QED
      BY <1>2, <3>1, <3>2 DEF Keeps, OnDisk
  <2> QED
    BY <2>1, <2>2
<1>5. ToName'
  BY <1>2, <1>3 DEF ToName
<1>6. ToApply'
  <2>1. Diffs(catalog)' = Diffs(catalog)
    BY DEF Diffs, Seen, OnDisk, Gone, New
  <2>2. ASSUME NEW dh \in job.changes \ {ch}
        PROVE  /\ cat'[dh.old] = catalog[dh.old] /\ cat'[dh.path] = catalog[dh.path]
               /\ \A n \in DOMAIN log' : Open(n)' => Touch(log'[n]) \cap {dh.old, dh.path} = {}
    <3>1. dh.old \in Path /\ dh.path \in Path
      BY <1>1, <2>2, JobFields DEF TypeInv, Change
    <3>2. {dh.old, dh.path} \cap {ch.old, ch.path} = {}
      BY <1>1, <2>2, ChangeFacts DEF PlanOf, Apart
    <3>3. cat'[dh.old] = cat[dh.old] /\ cat'[dh.path] = cat[dh.path]
      BY <3>1, <3>2
    <3> QED
      BY <1>3, <2>2, <3>2, <3>3
  <2> QED
    BY <1>2, <1>3, <2>1, <2>2 DEF ToApply
<1> QED
  BY <1>2, <1>4, <1>5, <1>6 DEF IInv, Idle

LEMMA SkipChangeKeeps ==
  ASSUME IInv, Orderly, TypeInv', SkipChange
  PROVE  IInv'
<1>1. /\ pc = "apply" /\ Applied({}) /\ UNCHANGED <<disk, rotten, log, now, catalog, cat>>
  BY DEF SkipChange, files, vault
<1>2. Rows(cat')
  BY <1>1 DEF IInv, Idle
<1>3. EntryInv' /\ OpenInv' /\ DiskInv' /\ Rows(catalog)' /\ Rows(cat)'
  BY <1>1, <1>2, HandKeeps
<1>4. \A n \in DOMAIN log' : Open(n)' => n \in DOMAIN log /\ Open(n) /\ log'[n] = log[n]
  BY <1>1 DEF Open, Pending
<1> QED
  BY <1>1, <1>3, <1>4, AppliedKeeps

LEMMA StampVerifiedKeeps ==
  ASSUME IInv, Orderly, TypeInv', StampVerified
  PROVE  IInv'
<1> DEFINE ch == NextChange
           p == ch.path
           c == cat[p]
           r == WithSha(c, c.sha, now)
<1>1. /\ pc = "apply" /\ Applied({}) /\ UNCHANGED <<disk, rotten, log, now, catalog>>
      /\ ch.kind = "verified" /\ cat' = With(cat, p, r)
  BY DEF StampVerified, files, vault
<1>2. /\ c = catalog[p] /\ p \in Path /\ ch.old = p /\ Has(catalog, p) /\ p \in OnDisk \ rotten
      /\ disk[p].sha = catalog[p].sha
      /\ \A n \in DOMAIN log : Open(n) => Touch(log[n]) \cap {p} = {}
  BY <1>1, ChangeIs
<1>3. cat \in Catalog /\ catalog \in Catalog /\ Rows(cat) /\ now \in Time /\ now \in Nat /\ TypeOK
  BY <1>1, TypesOf DEF IInv, Idle, TypeInv, TypeOK
<1>4. c \in Row /\ c.sha \in Sha
  BY <1>2, <1>3, HasRow
<1> HIDE DEF c
<1>5. r \in Row /\ r.id = c.id /\ r.sha = c.sha /\ r.scanned = now
  BY <1>3, <1>4 DEF WithSha, Row
<1> HIDE DEF r
<1>6. cat' \in Catalog /\ \A q \in Path : cat'[q] = IF q = p THEN r ELSE cat[q]
  BY <1>1, <1>2, <1>3, <1>5, WithTyped
<1>7. p \in Tracked(cat) /\ cat[p] = c
  BY <1>2, <1>4, SizeFacts DEF Tracked, Has, c
<1>8. AllFit(cat')
  <2>1. ASSUME NEW n \in DOMAIN log, Open(n) PROVE Fit(log[n], cat')
    <3> DEFINE f == log[n]
               S == {p}
    <3>1. f \in Entry /\ Fit(f, cat) /\ S \cap Touch(f) = {}
      BY <1>2, <1>3, <2>1, LogFacts DEF Rows
    <3>2. /\ \A q \in Path : q \notin S => cat'[q] = cat[q]
          /\ \A q \in S : q \in Tracked(cat') =>
               cat'[q].id # f.id \/ \E x \in S : x \in Tracked(cat) /\ cat'[q].id = cat[x].id
      BY <1>2, <1>5, <1>6, <1>7
    <3> HIDE DEF S, f
    <3>3. Fit(f, cat')
      BY <1>3, <1>6, <3>1, <3>2, FitElsewhere
    <3> QED
      BY <3>3 DEF f
  <2> QED
    BY <2>1 DEF AllFit
<1>9. Rows(cat')
  <2>1. Seemly(r, p)
    BY <1>2, <1>3, <1>5 DEF Seemly, c
  <2>2. \A q \in Tracked(cat) : cat[q].id = r.id => q = p
    BY <1>3, <1>5, <1>7 DEF Rows
  <2>3. Born(r.id)
    BY <1>3, <1>5, <1>7 DEF Rows
  <2> HIDE DEF p
  <2>4. Nearly(cat', r.id)
    BY <1>2, <1>3, <1>6, <1>8, <2>1, <2>2, PutRow
  <2> QED
    BY <1>6, <2>3, <2>4, NearlyBorn
<1>10. EntryInv' /\ OpenInv' /\ DiskInv' /\ Rows(catalog)' /\ Rows(cat)'
  BY <1>1, <1>9, HandKeeps
<1>11. \A n \in DOMAIN log' : Open(n)' => n \in DOMAIN log /\ Open(n) /\ log'[n] = log[n]
  BY <1>1 DEF Open, Pending
<1>12. /\ \A q \in Path : q \notin {ch.old, ch.path} => cat'[q] = cat[q]
       /\ \A q \in {ch.old, ch.path} :
            /\ q \notin rotten
            /\ q \in Tracked(catalog) => IF Has(cat', q) THEN cat'[q].id = catalog[q].id
                                         ELSE q \notin OnDisk
  <2>1. {ch.old, ch.path} = {p} /\ p \notin rotten /\ c.id = catalog[p].id
    BY <1>2
  <2>2. cat'[p].id = c.id /\ Has(cat', p)
    BY <1>2, <1>5, <1>6, SizeFacts DEF Has
  <2>3. \A q \in Path : q \notin {p} => cat'[q] = cat[q]
    BY <1>6
  <2> HIDE DEF p, ch
  <2> QED
    BY <2>1, <2>2, <2>3
<1> HIDE DEF ch
<1>13. ch = NextChange
  BY DEF ch
<1>14. {} \in SUBSET (1 .. MaxOps)
  OBVIOUS
<1> QED
  BY <1>1, <1>10, <1>11, <1>12, <1>13, <1>14, AppliedKeeps

(* A change that is journaled. *)
LEMMA ApplyFacts ==
  ASSUME IInv, Orderly, TypeInv', ApplyChange, NEW ch, ch = NextChange, NEW e, e = ScanEntry(ch)
  PROVE  /\ pc = "apply" /\ Room /\ log' = Append(log, e) /\ cat' = Mutated(ch)
         /\ Applied({Next1}) /\ UNCHANGED <<disk, rotten, catalog, now>>
         /\ e \in Entry /\ e.kind = OpKind[ch.kind] /\ e.id = IdOf(ch) /\ e.path = ch.old
         /\ e.to = ch.path /\ e.sha = ch.sha /\ e.size = ch.size /\ e.at = now
         /\ e.state = "intent"
         /\ ~Locked(e.id) /\ ch.kind \in {"added", "edited", "moved", "deleted"}
         /\ cat \in Catalog /\ catalog \in Catalog /\ cat' \in Catalog /\ now \in Time /\ now \in Nat
         /\ TypeOK /\ TypeInv
         /\ \A p \in Path : p \notin {ch.old, ch.path} => cat'[p] = cat[p]
         /\ EntryInv /\ OpenInv /\ DiskInv /\ Rows(catalog) /\ Rows(cat)
         /\ Next1 \in 1 .. MaxOps
<1>1. /\ pc = "apply" /\ Room /\ log' = Append(log, e) /\ cat' = Mutated(ch)
      /\ Applied({Next1}) /\ UNCHANGED <<disk, rotten, catalog, now>>
      /\ ~Locked(IdOf(ch)) /\ ch.kind \in DOMAIN OpKind /\ TypeInv
  BY DEF ApplyChange, files, IInv
<1>2. /\ e \in Entry /\ e.kind = OpKind[ch.kind] /\ e.id = IdOf(ch) /\ e.path = ch.old
      /\ e.to = ch.path /\ e.sha = ch.sha /\ e.size = ch.size /\ e.at = now
      /\ e.state = "intent"
  BY <1>1, ScanEntryTyped
<1>3. ch.kind \in {"added", "edited", "moved", "deleted"}
  BY <1>1 DEF OpKind
<1>4. /\ cat \in Catalog /\ catalog \in Catalog /\ cat' \in Catalog /\ now \in Time /\ now \in Nat
      /\ TypeOK
  BY <1>1, TypesOf DEF TypeInv, TypeOK
<1>5. \A p \in Path : p \notin {ch.old, ch.path} => cat'[p] = cat[p]
  BY <1>1, MutatedTyped
<1>6. EntryInv /\ OpenInv /\ DiskInv /\ Rows(catalog) /\ Rows(cat)
  BY <1>1 DEF IInv, Idle
<1>7. Next1 \in 1 .. MaxOps
  BY <1>1, <1>2, <1>4, AppendTyped
<1> QED
  BY <1>1, <1>2, <1>3, <1>4, <1>5, <1>6, <1>7

LEMMA OpKinds ==
  /\ OpKind["added"] = "ingest" /\ OpKind["edited"] = "scan" /\ OpKind["moved"] = "move"
  /\ OpKind["deleted"] = "delete"
BY DEF OpKind

LEMMA OthersFit ==
  ASSUME IInv, Orderly, TypeInv', ApplyChange, NEW ch, ch = NextChange, NEW e, e = ScanEntry(ch),
         \A q \in {ch.old, ch.path} : q \in Tracked(cat') => cat'[q].id = e.id
  PROVE  AllFit(cat')
<1>1. ASSUME NEW n \in DOMAIN log, Open(n) PROVE Fit(log[n], cat')
  <2> DEFINE f == log[n]
             S == {ch.old, ch.path}
  <2>1. /\ pc = "apply" /\ TypeOK /\ cat \in Catalog /\ cat' \in Catalog /\ Rows(cat) /\ ~Locked(e.id)
        /\ \A p \in Path : p \notin S => cat'[p] = cat[p]
    BY ApplyFacts
  <2>2. S \cap Touch(f) = {}
    BY <1>1, <2>1, ChangeIs
  <2>3. f \in Entry /\ Fit(f, cat) /\ f.id # e.id
    BY <1>1, <2>1, LogFacts DEF Rows, Locked, Open
  <2>4. \A q \in S : q \in Tracked(cat') =>
          cat'[q].id # f.id \/ \E x \in S : x \in Tracked(cat) /\ cat'[q].id = cat[x].id
    BY <2>3
  <2> HIDE DEF S, f
  <2>5. Fit(f, cat')
    BY <2>1, <2>2, <2>3, <2>4, FitElsewhere
  <2> QED
    BY <2>5 DEF f
<1> QED
  BY <1>1 DEF AllFit

LEMMA ApplyAdded ==
  ASSUME IInv, Orderly, TypeInv', ApplyChange, NEW ch, ch = NextChange, NEW e, e = ScanEntry(ch),
         ch.kind = "added"
  PROVE  /\ NewEntry(e) /\ Fit(e, catalog) /\ InPlace(e) /\ Rows(cat)'
         /\ \A p \in {ch.old, ch.path} : p \notin rotten /\ p \notin Tracked(catalog)
<1> DEFINE p == ch.path
           r == RowOf(e)
<1>1. /\ pc = "apply" /\ Room /\ log' = Append(log, e) /\ cat' = Mutated(ch)
      /\ UNCHANGED <<disk, rotten, catalog, now>>
      /\ e \in Entry /\ e.kind = "ingest" /\ e.id = IdOf(ch) /\ e.path = ch.old
      /\ e.to = ch.path /\ e.sha = ch.sha /\ e.at = now /\ e.state = "intent" /\ ~Locked(e.id)
      /\ cat \in Catalog /\ catalog \in Catalog /\ cat' \in Catalog /\ now \in Nat
      /\ TypeOK /\ EntryInv /\ Rows(catalog) /\ Rows(cat) /\ Next1 \in 1 .. MaxOps
  BY ApplyFacts, OpKinds
<1>2. /\ p \in Path /\ ch.old = p /\ cat[p] = catalog[p] /\ ~Has(catalog, p) /\ p \in OnDisk \ rotten
      /\ disk[p].sha = ch.sha
      /\ \A n \in DOMAIN log : Open(n) => Touch(log[n]) \cap {p} = {}
  BY <1>1, ChangeIs
<1>3. e.id.path = p /\ e.id.sha = e.sha /\ e.id.op = Next1 /\ Next1 # 0 /\ Next1 # None
  <2>1. Next1 # 0 /\ Next1 # None
    BY <1>1, IngestAssumption
  <2>2. IdOf(ch) = [path |-> p, sha |-> ch.sha, op |-> Next1]
    BY DEF IdOf
  <2> QED
    BY <1>1, <2>1, <2>2
<1>4. r \in Row /\ r.id = e.id /\ r.sha = e.sha /\ r.scanned = now
  BY <1>1, RowOfTyped
<1>5. \A q \in Path : cat'[q] = IF q = p THEN r ELSE cat[q]
  <2>1. cat' = With(cat, p, r)
    BY <1>1 DEF Mutated
  <2> HIDE DEF r, p
  <2> QED
    BY <1>1, <1>2, <1>4, <2>1, WithTyped
<1> HIDE DEF p, r
(* No row has the new identity, as no record does. *)
<1>6. ASSUME NEW k \in Catalog, Rows(k), NEW q \in Tracked(k) PROVE k[q].id # e.id
  <2>1. Born(k[q].id)
    BY <1>6 DEF Rows
  <2>2. ASSUME k[q].id = e.id PROVE FALSE
    <3>1. PICK n \in DOMAIN log : log[n].kind = "ingest" /\ log[n].id = e.id
      BY <1>3, <2>1, <2>2 DEF Born
    <3>2. e.id.op \in {0, n}
      BY <1>1, <3>1 DEF EntryInv
    <3>3. Next1 \notin DOMAIN log
      BY <1>1, AppendTyped
    <3> QED
      BY <1>3, <3>1, <3>2, <3>3
  <2> QED
    BY <2>2
<1>7. NewEntry(e)
  BY <1>1, <1>2, <1>3 DEF NewEntry, Touch, p
<1>8. Fit(e, catalog) /\ InPlace(e)
  BY <1>1, <1>2, <1>6 DEF Fit, InPlace
<1>9. AllFit(cat')
  <2>1. \A q \in {ch.old, ch.path} : q \in Tracked(cat') => cat'[q].id = e.id
    BY <1>2, <1>4, <1>5 DEF p
  <2> QED
    BY <2>1, OthersFit
<1>10. Nearly(cat', e.id)
  <2>1. Seemly(r, p)
    BY <1>1, <1>2, <1>4 DEF Seemly
  <2>2. \A q \in Tracked(cat) : cat[q].id = r.id => q = p
    BY <1>1, <1>4, <1>6
  <2>3. Nearly(cat', r.id)
    BY <1>1, <1>2, <1>5, <1>9, <2>1, <2>2, PutRow
  <2> QED
    BY <1>4, <2>3
<1>11. Fit(e, cat')
  <2>1. ASSUME NEW q \in Tracked(cat'), q # p PROVE cat'[q].id # e.id
    <3>1. q \in Tracked(cat) /\ cat'[q] = cat[q]
      BY <1>5, <2>1 DEF Tracked, Has
    <3> QED
      BY <1>1, <1>6, <3>1
  <2>2. cat'[p] = r
    BY <1>2, <1>5
  <2> QED
    BY <1>1, <1>2, <2>1, <2>2 DEF Fit, r
<1>12. Rows(cat)'
  BY <1>1, <1>10, <1>11, AppendNearly
<1> QED
  BY <1>2, <1>7, <1>8, <1>12 DEF Tracked, p

(* What the identity of a row that is changed is, and what a new entry of   *)
(* it needs.                                                                *)
LEMMA OldRow ==
  ASSUME IInv, Orderly, TypeInv', ApplyChange, NEW ch, ch = NextChange, NEW e, e = ScanEntry(ch),
         ch.kind # "added"
  PROVE  /\ NewEntry(e)
         /\ Has(catalog, ch.old) /\ cat[ch.old] = catalog[ch.old] /\ e.id = catalog[ch.old].id
         /\ ch.old \in Tracked(cat) /\ Born(e.id)
         /\ cat[ch.old] \in Row /\ cat[ch.old].sha \in Sha
<1>1. /\ pc = "apply" /\ e \in Entry /\ e.kind = OpKind[ch.kind] /\ e.id = IdOf(ch) /\ e.path = ch.old
      /\ e.to = ch.path /\ e.at = now /\ e.state = "intent" /\ ~Locked(e.id)
      /\ ch.kind \in {"added", "edited", "moved", "deleted"}
      /\ cat \in Catalog /\ catalog \in Catalog /\ Rows(cat)
  BY ApplyFacts
<1>2. /\ ch.old \in Path /\ cat[ch.old] = catalog[ch.old] /\ Has(catalog, ch.old)
      /\ ch.kind = "moved" <=> ch.old # ch.path
      /\ \A n \in DOMAIN log : Open(n) => Touch(log[n]) \cap {ch.old, ch.path} = {}
  BY <1>1, ChangeIs
<1>3. e.id = catalog[ch.old].id
  BY <1>1, <1>2 DEF IdOf
<1>4. ch.old \in Tracked(cat)
  BY <1>2 DEF Tracked, Has
<1>5. Born(e.id)
  BY <1>1, <1>2, <1>3, <1>4 DEF Rows
<1>6. NewEntry(e)
  BY <1>1, <1>2, OpKinds DEF NewEntry, Touch
<1>7. cat[ch.old] \in Row /\ cat[ch.old].sha \in Sha
  BY <1>1, <1>2, HasRow
<1> QED
  BY <1>2, <1>3, <1>4, <1>5, <1>6, <1>7

LEMMA ApplyEdited ==
  ASSUME IInv, Orderly, TypeInv', ApplyChange, NEW ch, ch = NextChange, NEW e, e = ScanEntry(ch),
         ch.kind = "edited"
  PROVE  /\ NewEntry(e) /\ Fit(e, catalog) /\ InPlace(e) /\ Rows(cat)'
         /\ \A p \in {ch.old, ch.path} :
              /\ p \notin rotten
              /\ p \in Tracked(catalog) => IF Has(cat', p) THEN cat'[p].id = catalog[p].id
                                           ELSE p \notin OnDisk
<1> DEFINE p == ch.path
           c == cat[p]
           r == Resized(c, ch.sha, ch.size, now)
<1>1. /\ pc = "apply" /\ Room /\ log' = Append(log, e) /\ cat' = Mutated(ch)
      /\ UNCHANGED <<disk, rotten, catalog, now>>
      /\ e \in Entry /\ e.kind = "scan" /\ e.path = ch.old
      /\ e.to = ch.path /\ e.sha = ch.sha /\ e.state = "intent"
      /\ cat \in Catalog /\ catalog \in Catalog /\ cat' \in Catalog /\ now \in Nat /\ now \in Time
      /\ TypeOK /\ Rows(catalog) /\ Rows(cat)
  BY ApplyFacts, OpKinds
<1>2. /\ p \in Path /\ ch.old = p /\ p \in OnDisk \ rotten /\ disk[p].sha = ch.sha
      /\ ch.sha \in Sha /\ ch.size \in Sizes
  BY <1>1, ChangeIs
<1>3. /\ NewEntry(e) /\ Has(catalog, p) /\ c = catalog[p] /\ e.id = c.id
      /\ p \in Tracked(cat) /\ Born(e.id) /\ c \in Row
  BY <1>2, OldRow
<1>4. cat' = With(cat, p, r)
  BY <1>1 DEF Mutated
<1> HIDE DEF c
<1>5. r \in Row /\ r.id = e.id /\ r.sha = ch.sha /\ r.scanned = now
  BY <1>1, <1>2, <1>3 DEF Resized, Row
<1> HIDE DEF p, r
<1>6. \A q \in Path : cat'[q] = IF q = p THEN r ELSE cat[q]
  BY <1>1, <1>2, <1>4, <1>5, WithTyped
<1>7. cat'[p] = r /\ Has(cat', p)
  BY <1>2, <1>5, <1>6, SizeFacts DEF Has
<1>8. Fit(e, catalog) /\ InPlace(e) /\ Fit(e, cat')
  BY <1>1, <1>2, <1>3, <1>5, <1>7 DEF Fit, InPlace
<1>9. AllFit(cat')
  <2>1. \A q \in {ch.old, ch.path} : q \in Tracked(cat') => cat'[q].id = e.id
    BY <1>2, <1>5, <1>7 DEF p
  <2> QED
    BY <2>1, OthersFit
<1>10. Rows(cat')
  <2>1. Seemly(r, p)
    BY <1>1, <1>2, <1>5 DEF Seemly
  <2>2. \A q \in Tracked(cat) : cat[q].id = r.id => q = p
    BY <1>1, <1>3, <1>5 DEF Rows, c
  <2>3. Nearly(cat', r.id)
    BY <1>1, <1>2, <1>6, <1>9, <2>1, <2>2, PutRow
  <2> QED
    BY <1>1, <1>3, <1>5, <2>3, NearlyBorn
<1>11. Rows(cat)'
  BY <1>1, <1>8, <1>10, AppendRows
<1> QED
  BY <1>2, <1>3, <1>5, <1>7, <1>8, <1>11 DEF p

LEMMA ApplyDeleted ==
  ASSUME IInv, Orderly, TypeInv', ApplyChange, NEW ch, ch = NextChange, NEW e, e = ScanEntry(ch),
         ch.kind = "deleted"
  PROVE  /\ NewEntry(e) /\ Fit(e, catalog) /\ InPlace(e) /\ Rows(cat)'
         /\ \A p \in {ch.old, ch.path} : p \notin rotten /\ p \notin OnDisk /\ ~Has(cat', p)
<1> DEFINE p == ch.path
<1>1. /\ pc = "apply" /\ Room /\ log' = Append(log, e) /\ cat' = Mutated(ch)
      /\ UNCHANGED <<disk, rotten, catalog, now>>
      /\ e \in Entry /\ e.kind = "delete" /\ e.path = ch.old
      /\ e.to = ch.path /\ e.state = "intent"
      /\ cat \in Catalog /\ catalog \in Catalog /\ cat' \in Catalog
      /\ TypeOK /\ Rows(catalog) /\ Rows(cat) /\ DiskInv
  BY ApplyFacts, OpKinds
<1>2. /\ p \in Path /\ ch.old = p /\ p \notin OnDisk
  BY <1>1, ChangeIs
<1>3. NewEntry(e) /\ e.id = catalog[p].id
  BY <1>2, OldRow
<1> HIDE DEF p
<1>4. \A q \in Path : cat'[q] = IF q = p THEN None ELSE cat[q]
  <2>1. cat' = Without(cat, p)
    BY <1>1 DEF Mutated, p
  <2> QED
    BY <1>1, <1>2, <2>1, WithoutTyped
<1>5. ~Has(cat', p) /\ p \notin rotten
  BY <1>1, <1>2, <1>4 DEF Has, DiskInv
<1>6. Fit(e, catalog) /\ InPlace(e) /\ Fit(e, cat')
  BY <1>1, <1>2, <1>3, <1>5 DEF Fit, InPlace
<1>7. AllFit(cat')
  <2>1. \A q \in {ch.old, ch.path} : q \notin Tracked(cat')
    BY <1>2, <1>5 DEF Tracked, p
  <2> QED
    BY <2>1, OthersFit
<1>8. Rows(cat')
  BY <1>1, <1>2, <1>4, <1>7, DropRow
<1>9. Rows(cat)'
  BY <1>1, <1>6, <1>8, AppendRows
<1> QED
  BY <1>2, <1>3, <1>5, <1>6, <1>9 DEF p

LEMMA ApplyMoved ==
  ASSUME IInv, Orderly, TypeInv', ApplyChange, NEW ch, ch = NextChange, NEW e, e = ScanEntry(ch),
         ch.kind = "moved"
  PROVE  /\ NewEntry(e) /\ Fit(e, catalog) /\ InPlace(e) /\ Rows(cat)'
         /\ \A p \in {ch.old, ch.path} :
              /\ p \notin rotten
              /\ p \in Tracked(catalog) => IF Has(cat', p) THEN cat'[p].id = catalog[p].id
                                           ELSE p \notin OnDisk
<1> DEFINE p == ch.old
           q == ch.path
           c == cat[p]
           r == WithSha(c, c.sha, now)
<1>1. /\ pc = "apply" /\ Room /\ log' = Append(log, e) /\ cat' = Mutated(ch)
      /\ UNCHANGED <<disk, rotten, catalog, now>>
      /\ e \in Entry /\ e.kind = "move" /\ e.path = ch.old
      /\ e.to = ch.path /\ e.sha = ch.sha /\ e.state = "intent"
      /\ cat \in Catalog /\ catalog \in Catalog /\ cat' \in Catalog /\ now \in Nat /\ now \in Time
      /\ TypeOK /\ Rows(catalog) /\ Rows(cat) /\ DiskInv
  BY ApplyFacts, OpKinds
<1>2. /\ p \in Path /\ q \in Path /\ p # q /\ Has(catalog, p) /\ p \notin OnDisk
      /\ ~Has(catalog, q) /\ q \in OnDisk \ rotten
      /\ ch.sha = disk[q].sha /\ ch.sha = catalog[p].sha
  BY <1>1, ChangeIs
<1>3. /\ NewEntry(e) /\ c = catalog[p] /\ e.id = c.id /\ p \in Tracked(cat) /\ Born(e.id)
      /\ c \in Row /\ c.sha \in Sha
  BY OldRow
<1>4. cat' = Renamed(cat, p, q, r)
  BY <1>1 DEF Mutated
<1> HIDE DEF c
<1>5. r \in Row /\ r.id = e.id /\ r.sha = ch.sha /\ r.scanned = now
  BY <1>1, <1>2, <1>3 DEF WithSha, Row
<1> HIDE DEF p, q, r
<1>6. \A x \in Path : cat'[x] = IF x = q THEN r ELSE IF x = p THEN None ELSE cat[x]
  BY <1>1, <1>2, <1>4, <1>5, RenamedTyped
<1>7. cat'[q] = r /\ Has(cat', q) /\ ~Has(cat', p) /\ p \notin rotten
  BY <1>1, <1>2, <1>5, <1>6, SizeFacts DEF Has, DiskInv
<1>8. Fit(e, catalog) /\ InPlace(e) /\ Fit(e, cat')
  <2>1. Touch(e) = {p, q} /\ e.kind = "move" /\ e.sha = catalog[p].sha /\ e.id = catalog[p].id
    BY <1>1, <1>2, <1>3 DEF Touch, p, q
  <2>2. Fit(e, catalog)
    BY <1>2, <2>1 DEF Fit
  <2>3. Fit(e, cat')
    BY <1>1, <1>5, <1>7, <2>1 DEF Fit
  <2> QED
    BY <1>1, <1>2, <2>2, <2>3 DEF InPlace, p, q
<1>9. AllFit(cat')
  <2>1. \A x \in {ch.old, ch.path} : x \in Tracked(cat') => cat'[x].id = e.id
    BY <1>5, <1>7 DEF p, q, Tracked
  <2> QED
    BY <2>1, OthersFit
<1>10. Rows(cat')
  <2>1. Seemly(r, q)
    BY <1>1, <1>2, <1>5 DEF Seemly
  <2>2. Has(cat, p) /\ r.id = cat[p].id
    BY <1>3, <1>5 DEF Tracked, c
  <2> QED
    BY <1>1, <1>2, <1>6, <1>9, <2>1, <2>2, MoveRow
<1>11. Rows(cat)'
  BY <1>1, <1>8, <1>10, AppendRows
<1> QED
  BY <1>2, <1>3, <1>7, <1>8, <1>11 DEF p, q, Tracked

LEMMA ApplyChangeKeeps ==
  ASSUME IInv, Orderly, TypeInv', ApplyChange
  PROVE  IInv'
<1> DEFINE ch == NextChange
           e == ScanEntry(ch)
<1>1. /\ pc = "apply" /\ Room /\ log' = Append(log, e) /\ Applied({Next1})
      /\ UNCHANGED <<disk, rotten, catalog, now>>
      /\ e \in Entry /\ e.path = ch.old /\ e.to = ch.path /\ e.state = "intent"
      /\ ch.kind \in {"added", "edited", "moved", "deleted"} /\ catalog \in Catalog
      /\ TypeOK /\ EntryInv /\ OpenInv /\ DiskInv /\ Rows(catalog) /\ Next1 \in 1 .. MaxOps
      /\ \A p \in Path : p \notin {ch.old, ch.path} => cat'[p] = cat[p]
  BY ApplyFacts
<1> HIDE DEF ch, e
<1>2. ch = NextChange /\ e = ScanEntry(ch)
  BY DEF ch, e
<1>3. /\ NewEntry(e) /\ Fit(e, catalog) /\ InPlace(e) /\ Rows(cat)'
      /\ \A p \in {ch.old, ch.path} :
           /\ p \notin rotten
           /\ p \in Tracked(catalog) => IF Has(cat', p) THEN cat'[p].id = catalog[p].id
                                        ELSE p \notin OnDisk
  <2>1. CASE ch.kind = "added"
    BY <1>2, <2>1, ApplyAdded
  <2>2. CASE ch.kind = "edited"
    BY <1>2, <2>2, ApplyEdited
  <2>3. CASE ch.kind = "moved"
    BY <1>2, <2>3, ApplyMoved
  <2>4. CASE ch.kind = "deleted"
    BY <1>2, <2>4, ApplyDeleted
  <2> QED
    BY <1>1, <2>1, <2>2, <2>3, <2>4
<1>4. EntryInv' /\ OpenInv'
  BY <1>1, <1>3, AppendLog
<1>5. DiskInv'
  BY <1>1, <1>3, AppendDisk
<1>6. Rows(catalog)'
  BY <1>1, <1>3, AppendRows
<1>7. \A n \in DOMAIN log' : Open(n)' => \/ n \in DOMAIN log /\ Open(n) /\ log'[n] = log[n]
                                         \/ Touch(log'[n]) = {ch.old, ch.path}
  <2>1. \A n \in DOMAIN log' : n \in DOMAIN log \/ n = Next1
    BY <1>1, AppendOpen
  <2>2. \A n : n = Next1 => log'[n] = e
    BY <1>1, AppendOpen
  <2>3. \A n \in DOMAIN log : log'[n] = log[n] /\ (Open(n)' <=> Open(n))
    BY <1>1, AppendOpen
  <2> QED
    BY <1>1, <2>1, <2>2, <2>3 DEF Touch
<1>8. {Next1} \in SUBSET (1 .. MaxOps)
  BY <1>1
<1> QED
  BY <1>1, <1>2, <1>3, <1>4, <1>5, <1>6, <1>7, <1>8, AppliedKeeps

-----------------------------------------------------------------------------
(* What is completed or given back. *)

LEMMA RestoreKeeps ==
  ASSUME IInv, Orderly, TypeInv', NEW p \in Path, NEW i \in Receipts, Restore(p, i)
  PROVE  IInv'
<1> DEFINE c == catalog[p]
           e == Intent("restore", i, p, p, c.sha, c.size)
           r == Identified(c, i)
<1>1. /\ MayStart("restore") /\ Has(catalog, p) /\ ~HasId(catalog, i) /\ ~Locked(i) /\ Room
      /\ log' = Append(log, e) /\ cat' = With(catalog, p, r) /\ pc' = "flush"
      /\ job' = Owing("restore", Next1) /\ UNCHANGED <<disk, rotten, catalog, now>>
  BY DEF Restore, Goto, files
<1>2. /\ TypeOK /\ catalog \in Catalog /\ now \in Time /\ EntryInv /\ OpenInv /\ DiskInv
      /\ Rows(catalog) /\ rotten \subseteq Path
  BY TypesOf DEF IInv, TypeInv, TypeOK
<1>3. c \in Row /\ c.sha \in Sha /\ c.size \in Sizes /\ i \in Id /\ i.op = None
  BY <1>1, <1>2, HasRow, IngestAssumption DEF Orderly
<1> HIDE DEF c
<1>4. /\ e \in Entry /\ e.kind = "restore" /\ e.id = i /\ e.path = p /\ e.to = p
      /\ e.at = now /\ e.state = "intent"
  <2>1. "restore" \in Kind
    BY DEF Kind
  <2> QED
    BY <1>2, <1>3, <2>1, IntentTyped
<1> HIDE DEF e
<1>5. r \in Row /\ r.id = i /\ r.sha = c.sha /\ r.size = c.size /\ r.scanned = c.scanned
  BY <1>3 DEF Identified, Row
<1> HIDE DEF r
<1>6. cat' \in Catalog /\ \A q \in Path : cat'[q] = IF q = p THEN r ELSE catalog[q]
  BY <1>1, <1>2, <1>5, WithTyped
<1>7. \A n \in DOMAIN log : ~Open(n)
  BY <1>1, Orders
<1>8. p \in Tracked(catalog) /\ \A q \in Tracked(catalog) : catalog[q].id # i
  BY <1>1 DEF Tracked, HasId
<1>9. Rows(cat')
  <2>1. Seemly(r, p)
    <3>1. c.scanned <= now /\ (p \in OnDisk \ rotten /\ disk[p].sha # c.sha => ~Fresh(c, disk[p]))
      BY <1>2, <1>8 DEF Rows, Unseen, c
    <3> QED
      BY <1>5, <3>1 DEF Seemly, Fresh
  <2>2. AllFit(cat')
    BY <1>7 DEF AllFit
  <2>3. \A q \in Tracked(catalog) : catalog[q].id = r.id => q = p
    BY <1>5, <1>8
  <2>4. Nearly(cat', r.id)
    BY <1>2, <1>6, <2>1, <2>2, <2>3, PutRow
  <2>5. Born(r.id)
    BY <1>3, <1>5 DEF Born
  <2> QED
    BY <1>6, <2>4, <2>5, NearlyBorn
<1>10. EntryInv' /\ OpenInv'
  <2>1. NewEntry(e)
    BY <1>1, <1>4 DEF NewEntry
  <2> QED
    BY <1>1, <1>2, <2>1, AppendLog
<1>11. DiskInv'
  BY <1>1, <1>2, <1>4, AppendDisk
<1>12. Rows(catalog)' /\ Rows(cat)'
  BY <1>1, <1>2, <1>4, <1>6, <1>9, AppendRows
<1>13. Next1 \in 1 .. MaxOps /\ "restore" \in Command
  BY <1>1, <1>2, <1>4, AppendTyped DEF Command
<1>14. job'.cmd = "restore" /\ job'.plan = Empty
  BY <1>1, <1>13, OwingTyped
<1>15. Keeps'
  <2>1. \A q \in Tracked(catalog) : Has(cat', q)
    BY <1>5, <1>6, SizeFacts DEF Tracked, Has
  <2>2. \A q \in rotten : cat'[q].sha = catalog[q].sha /\ Fresh(cat'[q], disk[q])
    BY <1>2, <1>5, <1>6 DEF DiskInv, Fresh, c
  <2> QED
    BY <1>1, <1>14, <2>1, <2>2 DEF Keeps
<1>16. Left' = {}
  BY <1>14 DEF Left, Tracked, Has, Empty
<1>17. ToName'
  BY <1>1, <1>16 DEF ToName
<1> QED
  BY <1>1, <1>10, <1>11, <1>12, <1>15, <1>17 DEF IInv, ToApply

(* An effect made again is of the rows of its operation. *)
LEMMA RetryFit ==
  ASSUME IInv, NEW n \in DOMAIN log, Open(n), NEW l \in Catalog, NEW e, e = log[n],
         \A q \in Path : q \notin Touch(e) => l[q] = catalog[q],
         \A q \in Touch(e) : q \in Tracked(l) => l[q].id = e.id,
         Fit(e, l)
  PROVE  AllFit(l)
<1>1. ASSUME NEW m \in DOMAIN log, Open(m), m # n PROVE Fit(log[m], l)
  <2> DEFINE f == log[m]
             S == Touch(e)
  <2>1. f.id # e.id /\ S \cap Touch(f) = {}
    BY <1>1 DEF IInv, OpenInv, Open
  <2>2. f \in Entry /\ Fit(f, catalog) /\ catalog \in Catalog
    BY <1>1, LogFacts, TypesOf DEF IInv, TypeInv, Rows
  <2>3. \A q \in S : q \in Tracked(l) =>
          l[q].id # f.id \/ \E x \in S : x \in Tracked(catalog) /\ l[q].id = catalog[x].id
    BY <2>1
  <2>4. \A q \in Path : q \notin S => l[q] = catalog[q]
    OBVIOUS
  <2> HIDE DEF S, f
  <2>5. Fit(f, l)
    BY <2>1, <2>2, <2>3, <2>4, FitElsewhere
  <2> QED
    BY <2>5 DEF f
<1> QED
  BY <1>1 DEF AllFit

(* A catalog a retry may leave behind. *)
Redone(l) ==
  /\ l \in Catalog /\ Rows(l)
  /\ \A q \in Tracked(catalog) : IF Has(l, q) THEN l[q].id = catalog[q].id ELSE q \notin OnDisk
  /\ \A q \in rotten : l[q] = catalog[q]

LEMMA RedoneRow ==
  ASSUME IInv, NEW S, NEW l \in Catalog, Rows(l),
         \A q \in Path : q \notin S => l[q] = catalog[q],
         \A q \in S : /\ q \notin rotten
                      /\ q \in Tracked(catalog) =>
                           IF Has(l, q) THEN l[q].id = catalog[q].id ELSE q \notin OnDisk
  PROVE  Redone(l)
<1>1. rotten \subseteq Path
  BY TypesOf DEF IInv
<1>2. ASSUME NEW q \in Tracked(catalog)
      PROVE  IF Has(l, q) THEN l[q].id = catalog[q].id ELSE q \notin OnDisk
  BY DEF Tracked, Has
<1>3. \A q \in rotten : l[q] = catalog[q]
  BY <1>1
<1> QED
  BY <1>2, <1>3 DEF Redone

LEMMA RetryIngest ==
  ASSUME IInv, Orderly, NEW n \in DOMAIN log, Open(n), NEW e, e = log[n], e.kind = "ingest"
  PROVE  Redone(Replayed(catalog, e, now))
<1> DEFINE p == e.path
           r == RowOf(e)
           l == With(catalog, p, r)
<1>1. l = Replayed(catalog, e, now)
  BY DEF Replayed
<1>2. catalog \in Catalog /\ e \in Entry /\ Rows(catalog) /\ DiskInv /\ p \in Path
  BY TypesOf, LogFacts, EntryFields DEF IInv, TypeInv
<1>3. r \in Row
  BY <1>2, RowOfTyped
<1>4. l \in Catalog /\ \A q \in Path : q \notin {p} => l[q] = catalog[q]
  BY <1>2, <1>3, WithTyped
<1>5. Rows(l) /\ (Has(catalog, p) => l = catalog)
  BY <1>2, <1>4, OwnRow
<1> HIDE DEF p, l
<1>6. CASE Has(catalog, p)
  <2>1. Redone(catalog)
    BY <1>2 DEF Redone, Tracked
  <2> QED
    BY <1>1, <1>5, <1>6, <2>1
<1>7. CASE ~Has(catalog, p)
  <2>1. \A q \in {p} : q \notin rotten /\ q \notin Tracked(catalog)
    BY <1>2, <1>7 DEF DiskInv, Tracked
  <2> DEFINE S == {p}
  <2>2. /\ \A q \in Path : q \notin S => l[q] = catalog[q]
        /\ \A q \in S : q \notin rotten /\ q \notin Tracked(catalog)
    BY <1>4, <2>1
  <2> HIDE DEF S
  <2>3. Redone(l)
    BY <1>4, <1>5, <2>2, RedoneRow
  <2> QED
    BY <1>1, <2>3
<1> QED
  BY <1>6, <1>7

LEMMA RetryScan ==
  ASSUME IInv, Orderly, NEW n \in DOMAIN log, Open(n), NEW e, e = log[n], e.kind = "scan"
  PROVE  Redone(Replayed(catalog, e, now))
<1> DEFINE p == e.path
           c == catalog[p]
           r == WithSha(c, e.sha, now)
           l == With(catalog, p, r)
<1>1. /\ catalog \in Catalog /\ e \in Entry /\ Rows(catalog) /\ DiskInv /\ p \in Path /\ e.sha \in Sha
      /\ now \in Time /\ now \in Nat /\ EntryInv /\ e.to \in Path
  BY TypesOf, LogFacts, EntryFields DEF IInv, TypeInv, TypeOK
<1>2. Fit(e, catalog) /\ InPlace(e) /\ e.to = p
  BY <1>1 DEF Rows, DiskInv, EntryInv
<1>3. Has(catalog, p) /\ c.id = e.id /\ p \in OnDisk \ rotten /\ disk[p].sha = e.sha
  BY <1>2 DEF Fit, InPlace
<1>4. l = Replayed(catalog, e, now)
  BY <1>3 DEF Replayed
<1>5. c \in Row
  BY <1>1, <1>3, HasRow
<1> HIDE DEF c
<1>6. r \in Row /\ r.id = e.id /\ r.sha = e.sha /\ r.scanned = now
  BY <1>1, <1>3, <1>5 DEF WithSha, Row
<1> HIDE DEF p, r
<1>7. l \in Catalog /\ \A q \in Path : l[q] = IF q = p THEN r ELSE catalog[q]
  BY <1>1, <1>6, WithTyped
<1> HIDE DEF l
<1>8. l[p] = r /\ Has(l, p) /\ p \in Tracked(catalog)
  BY <1>1, <1>3, <1>6, <1>7, SizeFacts DEF Has, Tracked
<1>9. Touch(e) = {p}
  BY <1>2 DEF Touch, p
<1>10. Fit(e, l)
  BY <1>6, <1>8 DEF Fit, p
<1>11. AllFit(l)
  <2>1. \A q \in Path : q \notin Touch(e) => l[q] = catalog[q]
    BY <1>7, <1>9
  <2>2. \A q \in Touch(e) : q \in Tracked(l) => l[q].id = e.id
    BY <1>6, <1>8, <1>9
  <2> QED
    BY <1>7, <1>10, <2>1, <2>2, RetryFit
<1>12. Rows(l)
  <2>1. Seemly(r, p)
    BY <1>1, <1>3, <1>6 DEF Seemly
  <2>2. \A q \in Tracked(catalog) : catalog[q].id = r.id => q = p
    BY <1>1, <1>3, <1>6, <1>8 DEF Rows, c
  <2>3. Nearly(l, r.id)
    BY <1>1, <1>7, <1>11, <2>1, <2>2, PutRow
  <2>4. Born(r.id)
    BY <1>1, <1>3, <1>6, <1>8 DEF Rows, c
  <2> QED
    BY <1>7, <2>3, <2>4, NearlyBorn
<1>13. Redone(l)
  <2> DEFINE S == {p}
  <2>1. /\ \A q \in Path : q \notin S => l[q] = catalog[q]
        /\ \A q \in S : /\ q \notin rotten
                        /\ q \in Tracked(catalog) =>
                             IF Has(l, q) THEN l[q].id = catalog[q].id ELSE q \notin OnDisk
    BY <1>3, <1>6, <1>7, <1>8 DEF c
  <2> HIDE DEF S
  <2> QED
    BY <1>7, <1>12, <2>1, RedoneRow
<1> QED
  BY <1>4, <1>13

LEMMA RetryDelete ==
  ASSUME IInv, Orderly, NEW n \in DOMAIN log, Open(n), NEW e, e = log[n], e.kind = "delete"
  PROVE  Redone(Replayed(catalog, e, now))
<1> DEFINE p == e.path
           l == Without(catalog, p)
<1>1. /\ catalog \in Catalog /\ e \in Entry /\ Rows(catalog) /\ DiskInv /\ p \in Path /\ EntryInv
      /\ e.to \in Path
  BY TypesOf, LogFacts, EntryFields DEF IInv, TypeInv
<1>2. InPlace(e) /\ e.to = p
  BY <1>1 DEF DiskInv, EntryInv
<1>3. p \notin OnDisk /\ p \notin rotten
  BY <1>1, <1>2 DEF InPlace, DiskInv
<1>4. l = Replayed(catalog, e, now)
  BY DEF Replayed
<1>5. Touch(e) = {p}
  BY <1>2 DEF Touch
<1> HIDE DEF p
<1>6. l \in Catalog /\ \A q \in Path : l[q] = IF q = p THEN None ELSE catalog[q]
  BY <1>1, WithoutTyped
<1> HIDE DEF l
<1>7. ~Has(l, p)
  BY <1>1, <1>6 DEF Has
<1>8. Fit(e, l)
  BY <1>7 DEF Fit, p
<1>9. AllFit(l)
  <2>1. \A q \in Path : q \notin Touch(e) => l[q] = catalog[q]
    BY <1>5, <1>6
  <2>2. \A q \in Touch(e) : q \notin Tracked(l)
    BY <1>5, <1>7 DEF Tracked
  <2> QED
    BY <1>6, <1>8, <2>1, <2>2, RetryFit
<1>10. Rows(l)
  BY <1>1, <1>6, <1>9, DropRow
<1>11. Redone(l)
  <2> DEFINE S == {p}
  <2>1. /\ \A q \in Path : q \notin S => l[q] = catalog[q]
        /\ \A q \in S : q \notin rotten /\ ~Has(l, q) /\ q \notin OnDisk
    BY <1>3, <1>6, <1>7
  <2> HIDE DEF S
  <2> QED
    BY <1>6, <1>10, <2>1, RedoneRow
<1> QED
  BY <1>4, <1>11

LEMMA RetryMove ==
  ASSUME IInv, Orderly, NEW n \in DOMAIN log, Open(n), NEW e, e = log[n], e.kind = "move"
  PROVE  Redone(Replayed(catalog, e, now))
<1> DEFINE p == e.path
           q == e.to
           found == {x \in Tracked(catalog) : catalog[x].id = e.id}
           spot == IF found # {} THEN CHOOSE x \in found : TRUE ELSE e.path
           c == catalog[p]
           r == WithSha(c, c.sha, now)
           l == Renamed(catalog, p, q, r)
<1>1. /\ catalog \in Catalog /\ e \in Entry /\ Rows(catalog) /\ DiskInv /\ p \in Path /\ q \in Path
      /\ now \in Time /\ now \in Nat /\ EntryInv
  BY TypesOf, LogFacts, EntryFields DEF IInv, TypeInv, TypeOK
<1>2. Fit(e, catalog) /\ InPlace(e) /\ p # q
  BY <1>1 DEF Rows, DiskInv, EntryInv
<1>3. PICK a \in {p, q}, b \in {p, q} : /\ Has(catalog, a) /\ ~Has(catalog, b)
                                        /\ catalog[a].id = e.id /\ catalog[a].sha = e.sha
  BY <1>2 DEF Fit, Touch
<1>4. spot = a
  <2>1. a \in found
    BY <1>1, <1>3 DEF Tracked
  <2>2. \A x \in found : x = a
    BY <1>1, <2>1 DEF Rows
  <2> QED
    BY <2>1, <2>2
<1>5. Replayed(catalog, e, now) =
        IF Has(catalog, spot) /\ spot # q
          THEN Renamed(catalog, spot, q, WithSha(catalog[spot], catalog[spot].sha, now)) ELSE catalog
  BY DEF Replayed, Moved
<1> HIDE DEF spot, found
<1>6. CASE a = q
  <2>1. Redone(catalog)
    BY <1>1 DEF Redone, Tracked
  <2> QED
    BY <1>4, <1>5, <1>6, <2>1
<1>7. CASE a = p
  <2>1. Replayed(catalog, e, now) = l
    BY <1>2, <1>3, <1>4, <1>5, <1>7
  <2>2. /\ Has(catalog, p) /\ ~Has(catalog, q) /\ c.id = e.id /\ c.sha = e.sha
        /\ p \notin OnDisk /\ q \in OnDisk \ rotten /\ disk[q].sha = e.sha /\ p \notin rotten
    BY <1>1, <1>2, <1>3, <1>7 DEF InPlace, DiskInv
  <2>3. c \in Row /\ c.sha \in Sha
    BY <1>1, <2>2, HasRow
  <2> HIDE DEF c
  <2>4. r \in Row /\ r.id = e.id /\ r.sha = e.sha /\ r.scanned = now
    BY <1>1, <2>2, <2>3 DEF WithSha, Row
  <2> HIDE DEF p, q, r
  <2>5. /\ l \in Catalog
        /\ \A x \in Path : l[x] = IF x = q THEN r ELSE IF x = p THEN None ELSE catalog[x]
    BY <1>1, <2>4, RenamedTyped
  <2> HIDE DEF l
  <2>6. l[q] = r /\ Has(l, q) /\ ~Has(l, p)
    BY <1>1, <1>2, <2>4, <2>5, SizeFacts DEF Has
  <2>7. Touch(e) = {p, q}
    BY DEF Touch, p, q
  <2>8. Fit(e, l)
    BY <2>4, <2>6, <2>7 DEF Fit
  <2>9. AllFit(l)
    <3>1. \A x \in Path : x \notin Touch(e) => l[x] = catalog[x]
      BY <2>5, <2>7
    <3>2. \A x \in Touch(e) : x \in Tracked(l) => l[x].id = e.id
      BY <2>4, <2>6, <2>7 DEF Tracked
    <3> QED
      BY <2>5, <2>8, <3>1, <3>2, RetryFit
  <2>10. Rows(l)
    <3>1. Seemly(r, q)
      BY <1>1, <2>2, <2>4 DEF Seemly
    <3>2. r.id = catalog[p].id
      BY <2>2, <2>4 DEF c
    <3> QED
      BY <1>1, <1>2, <2>2, <2>5, <2>9, <3>1, <3>2, MoveRow
  <2>11. Redone(l)
    <3> DEFINE S == {p, q}
    <3>1. /\ \A x \in Path : x \notin S => l[x] = catalog[x]
          /\ \A x \in S : /\ x \notin rotten
                          /\ x \in Tracked(catalog) =>
                               IF Has(l, x) THEN l[x].id = catalog[x].id ELSE x \notin OnDisk
      BY <2>2, <2>5, <2>6 DEF Tracked
    <3> HIDE DEF S
    <3> QED
      BY <2>5, <2>10, <3>1, RedoneRow
  <2> QED
    BY <2>1, <2>11
<1> QED
  BY <1>3, <1>6, <1>7

LEMMA RetryKeeps ==
  ASSUME IInv, Orderly, TypeInv', NEW n \in DOMAIN log, Retry(n)
  PROVE  IInv'
<1> DEFINE e == log[n]
           l == Replayed(catalog, e, now)
<1>1. /\ Open(n) /\ cat' = l /\ pc' = "flush" /\ job' = Owing("retry", n)
      /\ UNCHANGED <<disk, rotten, log, now, catalog>>
  BY DEF Retry, Goto, Open, files, vault
<1>2. e.kind \in {"ingest", "scan", "move", "delete"}
  BY <1>1, LogFacts, EntryFields DEF IInv, TypeInv, Open, Kind
<1> HIDE DEF e
<1>3. e = log[n]
  BY DEF e
<1>4. Redone(l)
  BY <1>1, <1>2, <1>3, RetryIngest, RetryScan, RetryMove, RetryDelete
<1> HIDE DEF l
<1>5. EntryInv' /\ OpenInv' /\ DiskInv' /\ Rows(catalog)' /\ Rows(cat)'
  BY <1>1, <1>4, HandKeeps DEF Redone
<1>6. Keeps'
  <2>1. \A q \in Tracked(catalog) : IF Has(l, q) THEN l[q].id = catalog[q].id ELSE q \notin OnDisk
    BY <1>4 DEF Redone
  <2>2. \A q \in rotten : l[q].sha = catalog[q].sha /\ Fresh(l[q], disk[q])
    BY <1>4 DEF Redone, IInv, DiskInv
  <2> QED
    BY <1>1, <2>1, <2>2 DEF Keeps, OnDisk
<1>7. n \in 1 .. MaxOps /\ "retry" \in Command
  BY LogFacts, SizeFacts DEF IInv, TypeInv, Command
<1>8. job'.plan = Empty
  BY <1>1, <1>7, OwingTyped
<1>9. Left' = {}
  BY <1>8 DEF Left, Tracked, Has, Empty
<1>10. ToName'
  BY <1>1, <1>9 DEF ToName
<1> QED
  BY <1>1, <1>5, <1>6, <1>10 DEF IInv, ToApply

-----------------------------------------------------------------------------
(* Files change. *)

(* Bytes that come to a path are newer than all that is recorded, or come   *)
(* to a path of which nothing is.                                           *)
LEMMA TouchKeeps ==
  ASSUME IInv, Orderly, TypeInv', MayTouch, UNCHANGED <<vault, pc>>, now' \in Nat, now <= now',
         NEW T,
         \A q \in Path : q \notin T => disk'[q] = disk[q] /\ (q \in rotten' <=> q \in rotten),
         \A q \in T : q \in OnDisk' =>
           /\ disk'[q].mtime <= now'
           /\ q \notin rotten' => \/ disk'[q].mtime > now
                                  \/ ~Has(catalog, q) /\ \A n \in DOMAIN log : Open(n) => log[n].path # q,
         \A q \in T : q \in rotten' =>
           /\ q \in OnDisk' /\ Has(catalog, q)
           /\ disk'[q].sha # catalog[q].sha /\ Fresh(catalog[q], disk'[q])
  PROVE  IInv'
<1>1. /\ Idle' /\ UNCHANGED <<log, catalog>> /\ now \in Nat /\ TypeOK /\ catalog \in Catalog
      /\ EntryInv /\ OpenInv /\ DiskInv /\ Rows(catalog) /\ rotten' \subseteq Path
      /\ disk' \in [Path -> DiskFile \cup {None}]
      /\ \A n \in DOMAIN log : Open(n) => log[n].kind = "ingest"
  <2>1. Idle /\ \A n \in DOMAIN log : Pending(n) => log[n].kind \in {"ingest", "restore"}
    BY Orders DEF MayTouch
  <2> QED
    BY <2>1, TypesOf DEF IInv, vault, Idle, Open, TypeInv, TypeOK
<1>2. \A q \in Path : q \in OnDisk' <=> Has(disk', q)
  BY DEF OnDisk, Tracked, Has
<1>3. \A q \in Path : q \notin T => (q \in OnDisk' <=> q \in OnDisk)
  BY <1>2 DEF OnDisk, Tracked, Has
<1>4. OnDisk' \subseteq Path
  BY DEF OnDisk, Tracked
<1>5. \A q \in OnDisk' : disk'[q].mtime \in Nat
  <2>1. ASSUME NEW q \in OnDisk' PROVE disk'[q] \in DiskFile
    BY <1>1, <1>4, <2>1 DEF OnDisk, Tracked, Has
  <2> QED
    BY <2>1, SizeFacts DEF DiskFile, Time
<1>6. \A n \in DOMAIN log : log[n] \in Entry /\ log[n].at \in Nat /\ log[n].path \in Path
  BY <1>1, LogFacts, EntryFields, SizeFacts DEF Time
<1>7. EntryInv'
  <2>1. \A n \in DOMAIN log : log[n].at <= now'
    BY <1>1, <1>6 DEF EntryInv
  <2> QED
    BY <1>1, <2>1 DEF EntryInv, RecordOf, ByName
<1>8. OpenInv'
  BY <1>1 DEF OpenInv, Open, Pending
<1>9. DiskInv'
  <2>1. \A q \in OnDisk' : disk'[q].mtime <= now'
    <3>1. ASSUME NEW q \in OnDisk', q \notin T PROVE disk'[q].mtime <= now'
      <4>1. q \in OnDisk /\ disk'[q] = disk[q]
        BY <1>3, <1>4, <3>1
      <4>2. disk[q].mtime <= now /\ disk[q].mtime \in Nat
        BY <1>1, <1>5, <4>1 DEF DiskInv
      <4> QED
        BY <1>1, <4>1, <4>2
    <3> QED
      BY <3>1
  <2>2. ASSUME NEW n \in DOMAIN log, Open(n) PROVE InPlace(log[n])'
    <3> DEFINE e == log[n]
    <3>1. e.kind = "ingest" /\ e.path \in Path /\ InPlace(e) /\ e.at <= now /\ e.at \in Nat /\ e \in Entry
      BY <1>1, <1>6, <2>2 DEF DiskInv, EntryInv
    <3>2. RowOf(e).scanned = e.at
      BY <3>1, RowOfTyped
    <3>3. UNCHANGED log
      BY <1>1
    <3> HIDE DEF e
    <3>4. SUFFICES ASSUME e.path \in OnDisk' \ rotten'
                   PROVE  disk'[e.path].sha = e.sha \/ ~Fresh(RowOf(e), disk'[e.path])
      BY <3>1, <3>3 DEF InPlace, e
    <3>5. CASE e.path \notin T
      BY <1>3, <3>1, <3>4, <3>5 DEF InPlace
    <3>6. CASE e.path \in T
      <4>1. disk'[e.path].mtime > now
        BY <2>2, <3>4, <3>6 DEF e
      <4> QED
        BY <1>1, <1>5, <3>1, <3>2, <3>4, <4>1 DEF Fresh
    <3> QED
      BY <3>5, <3>6
  <2>3. ASSUME NEW q \in rotten'
        PROVE  /\ q \in OnDisk' /\ Has(catalog, q)
               /\ disk'[q].sha # catalog[q].sha /\ Fresh(catalog[q], disk'[q])
    <3>1. CASE q \in T
      BY <2>3, <3>1
    <3>2. CASE q \notin T
      BY <1>1, <1>3, <2>3, <3>2 DEF DiskInv
    <3> QED
      BY <3>1, <3>2
  <2>4. UNCHANGED <<log, catalog>>
    BY <1>1
  <2> QED
    BY <2>1, <2>2, <2>3, <2>4 DEF DiskInv, Open, Pending
<1>10. Rows(catalog)'
  <2>1. \A q \in Tracked(catalog) : q \in Path /\ Has(catalog, q) /\ catalog[q].scanned <= now /\ catalog[q].scanned \in Nat
    BY <1>1, HasRow, SizeFacts DEF Rows, Tracked, Time
  <2>2. \A q \in Tracked(catalog) : catalog[q].scanned <= now'
    BY <1>1, <2>1
  <2>3. ASSUME NEW q \in (OnDisk' \cap Tracked(catalog)) \ rotten', disk'[q].sha # catalog[q].sha
        PROVE  ~Fresh(catalog[q], disk'[q])
    <3>1. CASE q \in T
      BY <1>1, <1>5, <2>1, <2>3, <3>1 DEF Fresh
    <3>2. CASE q \notin T
      BY <1>1, <1>3, <2>1, <2>3, <3>2 DEF Rows, Unseen
    <3> QED
      BY <3>1, <3>2
  <2>4. UNCHANGED <<log, catalog>>
    BY <1>1
  <2>5. ~Unseen(catalog)'
    BY <2>3, <2>4 DEF Unseen
  <2>6. \A n \in DOMAIN log' : Open(n)' => Fit(log'[n], catalog')
    BY <1>1, <2>4 DEF Rows, Open, Pending
  <2> QED
    BY <1>1, <2>2, <2>4, <2>5, <2>6 DEF Rows, Born
<1> QED
  BY <1>1, <1>7, <1>8, <1>9, <1>10 DEF IInv

LEMMA FilesKeep ==
  ASSUME IInv, Orderly, TypeInv', \/ \E p \in Path, s \in Sha : Write(p, s) \/ Rot(p, s)
                                  \/ \E p \in Path : Remove(p)
                                  \/ \E p, q \in Path : Rename(p, q)
  PROVE  IInv'
<1>1. /\ disk \in [Path -> DiskFile \cup {None}] /\ rotten \subseteq Path /\ now \in Nat /\ DiskInv
      /\ disk' \in [Path -> DiskFile \cup {None}] /\ catalog \in Catalog
  BY TypesOf DEF IInv, TypeInv, TypeOK
<1>2. \A q \in Path : /\ q \in OnDisk' <=> disk'[q] # None
                      /\ q \in OnDisk <=> disk[q] # None
  BY DEF OnDisk, Tracked, Has
<1>3. ASSUME NEW p \in Path, NEW s \in Sha, Write(p, s) PROVE IInv'
  <2> DEFINE f == [sha |-> s, mtime |-> now + 1]
             T == {p}
  <2>1. /\ MayTouch /\ now' = now + 1 /\ disk' = [disk EXCEPT ![p] = f] /\ rotten' = rotten \ {p}
        /\ UNCHANGED <<vault, pc, job, cat>>
    BY <1>3 DEF Write, NewFile
  <2>2. f.mtime = now + 1
    OBVIOUS
  <2> HIDE DEF f
  <2>3. disk'[p] = f
    BY <1>1, <2>1
  <2>4. /\ \A q \in Path : q \notin T => disk'[q] = disk[q] /\ (q \in rotten' <=> q \in rotten)
        /\ \A q \in T : q \notin rotten' /\ disk'[q].mtime <= now' /\ disk'[q].mtime > now
        /\ now' \in Nat /\ now <= now'
    BY <1>1, <2>1, <2>2, <2>3
  <2> HIDE DEF T
  <2> QED
    BY <2>1, <2>4, TouchKeeps
<1>4. ASSUME NEW p \in Path, Remove(p) PROVE IInv'
  <2> DEFINE T == {p}
  <2>1. /\ MayTouch /\ now' = now /\ disk' = [disk EXCEPT ![p] = None] /\ rotten' = rotten \ {p}
        /\ UNCHANGED <<vault, pc, job, cat>>
    BY <1>4 DEF Remove, NewFile
  <2>2. /\ \A q \in Path : q \notin T => disk'[q] = disk[q] /\ (q \in rotten' <=> q \in rotten)
        /\ \A q \in T : q \notin rotten' /\ q \notin OnDisk'
        /\ now' \in Nat /\ now <= now'
    BY <1>1, <1>2, <2>1
  <2> HIDE DEF T
  <2> QED
    BY <2>1, <2>2, TouchKeeps
<1>5. ASSUME NEW p \in Path, NEW q \in Path, Rename(p, q) PROVE IInv'
  <2> DEFINE T == {p, q}
  <2>1. /\ MayTouch /\ now' = now /\ p \in OnDisk /\ p # q /\ ~Has(catalog, q) /\ ~InDoubt(q)
        /\ disk' = [disk EXCEPT ![q] = disk[p], ![p] = None] /\ rotten' = rotten \ {p, q}
        /\ UNCHANGED <<vault, pc, job, cat>>
    BY <1>5, Orders DEF Rename
  <2>2. disk'[q] = disk[p] /\ disk'[p] = None /\ \A x \in Path : x \notin T => disk'[x] = disk[x]
    BY <1>1, <2>1
  <2>3. \A n \in DOMAIN log : Open(n) => log[n].path # q
    BY <2>1 DEF InDoubt, Open
  <2>4. p \notin OnDisk' /\ disk'[q].mtime <= now'
    BY <1>1, <1>2, <2>1, <2>2 DEF DiskInv
  <2>5. /\ \A x \in Path : x \notin T => disk'[x] = disk[x] /\ (x \in rotten' <=> x \in rotten)
        /\ \A x \in T : x \notin rotten'
        /\ \A x \in T : x \in OnDisk' => x = q
        /\ now' \in Nat /\ now <= now'
    BY <1>1, <2>1, <2>2, <2>4
  <2>6. \A x \in T : x \in OnDisk' =>
          /\ disk'[x].mtime <= now'
          /\ ~Has(catalog, x) /\ \A n \in DOMAIN log : Open(n) => log[n].path # x
    BY <2>1, <2>3, <2>4, <2>5
  <2> HIDE DEF T
  <2> QED
    BY <2>1, <2>5, <2>6, TouchKeeps
<1>6. ASSUME NEW p \in Path, NEW s \in Sha, Rot(p, s) PROVE IInv'
  <2> DEFINE f == [disk[p] EXCEPT !.sha = s]
             T == {p}
  <2>1. /\ MayTouch /\ now' = now /\ p \in OnDisk /\ Has(catalog, p)
        /\ disk[p].sha = catalog[p].sha /\ Fresh(catalog[p], disk[p])
        /\ s # disk[p].sha /\ Size[s] = Size[disk[p].sha]
        /\ disk' = [disk EXCEPT ![p] = f] /\ rotten' = rotten \cup {p}
        /\ UNCHANGED <<vault, pc, job, cat>>
    BY <1>6 DEF Rot, Tracked
  <2>2. disk[p] \in DiskFile
    BY <1>1, <1>2, <2>1
  <2>3. f.sha = s /\ f.mtime = disk[p].mtime /\ f \in DiskFile
    BY <2>2 DEF DiskFile
  <2> HIDE DEF f
  <2>4. disk'[p] = f /\ f # None
    BY <1>1, <2>1, <2>3, SizeFacts
  <2>5. /\ p \in OnDisk' /\ disk'[p].mtime <= now' /\ disk'[p].sha # catalog[p].sha
        /\ Fresh(catalog[p], disk'[p])
    BY <1>1, <1>2, <2>1, <2>3, <2>4 DEF DiskInv, Fresh
  <2>6. /\ \A q \in Path : q \notin T => disk'[q] = disk[q] /\ (q \in rotten' <=> q \in rotten)
        /\ \A q \in T : q = p
        /\ p \in rotten' /\ now' \in Nat /\ now <= now'
    BY <1>1, <2>1
  <2> HIDE DEF T
  <2> QED
    BY <2>1, <2>5, <2>6, TouchKeeps
<1> QED
  BY <1>3, <1>4, <1>5, <1>6

-----------------------------------------------------------------------------
(* The invariant. *)

LEMMA IngestInit == Init => IInv
<1> SUFFICES ASSUME Init PROVE IInv
  OBVIOUS
<1>1. TypeInv /\ Idle /\ log = << >> /\ catalog = Empty /\ rotten = {} /\ now = 0
  BY TypeInit DEF Init, Idle
<1>2. Tracked(catalog) = {} /\ DOMAIN log = {}
  BY <1>1 DEF Tracked, Has, Empty
<1>3. \A p \in OnDisk : disk[p].mtime <= now
  <2>1. ASSUME NEW p \in OnDisk PROVE disk[p] \in [sha: Sha, mtime: {0}]
    BY <2>1 DEF Init, OnDisk, Tracked, Has
  <2> QED
    BY <1>1, <2>1
<1>4. EntryInv /\ OpenInv
  BY <1>2 DEF EntryInv, OpenInv, RecordOf
<1>5. DiskInv /\ Rows(catalog)
  BY <1>1, <1>2, <1>3 DEF DiskInv, Rows, Unseen
<1> QED
  BY <1>1, <1>4, <1>5 DEF IInv

LEMMA IngestFrame ==
  ASSUME IInv, UNCHANGED vars
  PROVE  IInv'
<1>1. /\ UNCHANGED <<disk, rotten, log, now, catalog, made, pc, job, cat>> /\ TypeInv
  BY DEF vars, files, vault, IInv
<1>2. TypeInv'
  BY <1>1, TypeStep DEF vars, files, vault
<1>3. catalog \in Catalog /\ cat \in Catalog
  BY <1>1, TypesOf
<1>4. EntryInv' /\ OpenInv' /\ DiskInv' /\ \A p \in Path : RecordOf(p)' = RecordOf(p)
  BY <1>1, FrameLog, FrameDisk DEF IInv
<1>5. Rows(catalog)'
  BY <1>1, <1>3, FrameRows DEF IInv
<1>6. ASSUME ~Idle PROVE Rows(cat)' /\ Keeps' /\ ToName' /\ ToApply'
  <2>1. Rows(cat)'
    BY <1>1, <1>3, <1>6, FrameRows DEF IInv
  <2>2. Left' = Left /\ NextFile' = NextFile /\ Left \subseteq Path
    BY <1>1, JobFields DEF Left, NextFile, TypeInv
  <2>3. Keeps /\ ToName /\ ToApply
    BY <1>6 DEF IInv
  <2>4. Keeps'
    BY <1>1, <2>3 DEF Keeps, OnDisk
  <2>5. ToName'
    <3>1. /\ UNCHANGED <<catalog, cat, log, disk, job, pc>>
          /\ \A p \in Left : RecordOf(p)' = RecordOf(p)
      BY <1>1, <1>4, <2>2
    <3>2. Left' = Left /\ NextFile' = NextFile /\ (Left # {} => NextFile \in Left)
      BY <1>1, <2>2, JobFields DEF TypeInv
    <3>3. pc' = "intent" => RecordOf(NextFile)' = {} /\ job'.sum = disk'[NextFile'].sha
      BY <1>1, <2>3, <3>1, <3>2 DEF ToName, TypeInv, JobInv
    <3> QED
      BY <2>3, <3>1, <3>2, <3>3 DEF ToName, OnDisk, Open, Pending, ByName
  <2>6. Diffs(catalog)' = Diffs(catalog)
    BY <1>1 DEF Diffs, Seen, OnDisk, Gone, New
  <2>7. ToApply'
    BY <1>1, <2>2, <2>3, <2>6 DEF ToApply, Open, Pending
  <2> QED
    BY <2>1, <2>4, <2>5, <2>7
<1> QED
  BY <1>1, <1>2, <1>4, <1>5, <1>6 DEF IInv, Idle

LEMMA IngestStep == Orderly /\ IInv /\ [Next]_vars => IInv'
<1> SUFFICES ASSUME Orderly, IInv, [Next]_vars PROVE IInv'
  OBVIOUS
<1>1. TypeInv'
  BY TypeStep DEF IInv
<1>2. CASE UNCHANGED vars
  BY <1>2, IngestFrame
<1>3. CASE (\E S \in SUBSET Path : StartInit(S)) \/ (\E p \in Path : StartTrack(p))
  BY <1>1, <1>3, StartKeeps
<1>4. CASE TakeRecorded \/ Hash \/ AppendIntent
  BY <1>1, <1>4, TakeRecordedKeeps, HashKeeps, AppendIntentKeeps
<1>5. CASE Flush \/ MarkDone \/ Marked \/ Die
  BY <1>1, <1>5, FlushKeeps, MarkDoneKeeps, EndKeeps
<1>6. CASE (\E paranoid \in BOOLEAN : StartScan(paranoid)) \/ SkipChange \/ StampVerified \/ ApplyChange
  BY <1>1, <1>6, StartScanKeeps, SkipChangeKeeps, StampVerifiedKeeps, ApplyChangeKeeps
<1>7. CASE (\E p \in Path, i \in Receipts : Restore(p, i)) \/ (\E n \in DOMAIN log : Retry(n))
  BY <1>1, <1>7, RestoreKeeps, RetryKeeps
<1>8. CASE \/ \E p \in Path, s \in Sha : Write(p, s) \/ Rot(p, s)
           \/ \E p \in Path : Remove(p)
           \/ \E p, q \in Path : Rename(p, q)
  BY <1>1, <1>8, FilesKeep
<1> QED
  BY <1>2, <1>3, <1>4, <1>5, <1>6, <1>7, <1>8 DEF Next

LEMMA IngestAlways ==
  ASSUME Orderly
  PROVE  Spec => []IInv
<1>1. IInv /\ [Next]_vars => IInv'
  BY IngestStep
<1> QED
  BY <1>1, IngestInit, PTL DEF Spec

(* What was written between commands is seen by the next scan, also when    *)
(* the size stayed and whichever command wrote the catalog, died, was       *)
(* resumed or replayed an old entry meanwhile.  That nothing is written     *)
(* between a hash and its stamp is a hypothesis (Calm).                     *)
LEMMA EditsSeen ==
  ASSUME Orderly
  PROVE  Spec => []EditsAreSeen
<1>1. IInv => EditsAreSeen
  BY DEF IInv, Rows, Unseen, EditsAreSeen
<1> QED
  BY <1>1, IngestAlways, PTL

(* The ids that are derived from a path, drawn by a scan, given back from a *)
(* record and put again by a retry never meet in two rows.                  *)
THEOREM IdsApart ==
  ASSUME Orderly
  PROVE  Spec => []IdsUnique
<1>1. IInv => IdsUnique
  BY DEF IInv, Rows, IdsUnique
<1> QED
  BY <1>1, IngestAlways, PTL

(* The catalog changes only when a command writes what it has in memory. *)
LEMMA OnlyFlush ==
  ASSUME [Next]_vars
  PROVE  catalog' = catalog \/ (catalog' = cat /\ ~Idle)
<1>1. CASE UNCHANGED vars
  BY <1>1 DEF vars, vault
<1>2. CASE Flush
  BY <1>2 DEF Flush, Idle
<1>3. CASE (\E S \in SUBSET Path : StartInit(S)) \/ (\E p \in Path : StartTrack(p))
           \/ TakeRecorded \/ Hash \/ AppendIntent
  BY <1>3 DEF StartInit, StartTrack, TakeRecorded, Hash, AppendIntent, vault
<1>4. CASE MarkDone \/ Marked \/ Die
  BY <1>4 DEF MarkDone, Marked, Die, vault
<1>5. CASE (\E paranoid \in BOOLEAN : StartScan(paranoid)) \/ SkipChange \/ StampVerified \/ ApplyChange
  BY <1>5 DEF StartScan, SkipChange, StampVerified, ApplyChange, vault
<1>6. CASE (\E p \in Path, i \in Receipts : Restore(p, i)) \/ (\E n \in DOMAIN log : Retry(n))
  BY <1>6 DEF Restore, Retry, vault
<1>7. CASE \/ \E p \in Path, s \in Sha : Write(p, s) \/ Rot(p, s)
           \/ \E p \in Path : Remove(p)
           \/ \E p, q \in Path : Rename(p, q)
  BY <1>7 DEF Write, Rot, Remove, Rename, NewFile, vault
<1> QED
  BY <1>1, <1>2, <1>3, <1>4, <1>5, <1>6, <1>7 DEF Next

(* A row keeps its identity as long as its file is there: no resumed run of *)
(* init or track, no scan and no retry gives it another.                    *)
THEOREM IdentitiesKept ==
  ASSUME Orderly
  PROVE  Spec => IdentityKept
<1> DEFINE A == \A p \in Tracked(catalog) :
                  \/ ~Has(catalog', p) /\ p \notin OnDisk
                  \/ Has(catalog', p) /\ (catalog'[p].id = catalog[p].id \/ job.cmd = "restore")
<1>1. IInv /\ [Next]_vars => A
  <2> SUFFICES ASSUME IInv, [Next]_vars PROVE A
    OBVIOUS
  <2>1. CASE catalog' = catalog
    BY <2>1 DEF Tracked
  <2>2. CASE catalog' = cat /\ ~Idle
    <3>1. \A p \in Tracked(catalog) :
            IF Has(cat, p) THEN cat[p].id = catalog[p].id \/ job.cmd = "restore" ELSE p \notin OnDisk
      BY <2>2 DEF IInv, Keeps
    <3> QED
      BY <2>2, <3>1
  <2> QED
    BY <2>1, <2>2, OnlyFlush
<1> HIDE DEF A
<1>2. IInv /\ [Next]_vars => [A]_vars
  BY <1>1
<1> QED
  BY <1>2, IngestAlways, PTL DEF Spec, IdentityKept, A

(* Rot is never taken for an edit, nor stamped as seen: its file stays a    *)
(* suspect until it is written, restored or removed.                        *)
THEOREM RotSuspected ==
  ASSUME Orderly
  PROVE  Spec => RotStaysSuspect
<1> DEFINE A == \A p \in rotten \cap Tracked(catalog) : Has(catalog', p) =>
                  catalog'[p].sha = catalog[p].sha /\ Fresh(catalog'[p], disk[p])
<1>1. IInv /\ [Next]_vars => A
  <2> SUFFICES ASSUME IInv, [Next]_vars PROVE A
    OBVIOUS
  <2>1. CASE catalog' = catalog
    BY <2>1 DEF IInv, DiskInv
  <2>2. CASE catalog' = cat /\ ~Idle
    BY <2>2 DEF IInv, Keeps
  <2> QED
    BY <2>1, <2>2, OnlyFlush
<1> HIDE DEF A
<1>2. IInv /\ [Next]_vars => [A]_vars
  BY <1>1
<1> QED
  BY <1>2, IngestAlways, PTL DEF Spec, RotStaysSuspect, A

-----------------------------------------------------------------------------
(* Verify *)

(* The row it follows was one of the catalog's. *)
VInv ==
  /\ row # None => path \in Path
  /\ at = "idle" => row = None
  /\ at \in {"stat", "hash"} => row # None

LEMMA VerifyAlways == VSpec => Spec /\ []VInv
<1>1. VInit => Init /\ VInv
  BY DEF VInit, VInv
<1>2. [VNext]_<<vars, check>> => [Next]_vars
  BY DEF VNext, ReadCatalog, ReadLog, StatRow, JudgeRow
<1>3. VInv /\ [VNext]_<<vars, check>> => VInv'
  <2> SUFFICES ASSUME VInv, [VNext]_<<vars, check>> PROVE VInv'
    OBVIOUS
  <2>1. CASE UNCHANGED check
    BY <2>1 DEF VInv, check
  <2>2. CASE ReadCatalog
    BY <2>2 DEF ReadCatalog, VInv, Tracked
  <2>3. CASE ReadLog
    BY <2>3 DEF ReadLog, Judged, Over, VInv
  <2>4. CASE StatRow
    BY <2>4 DEF StatRow, Over, VInv
  <2>5. CASE JudgeRow
    BY <2>5 DEF JudgeRow, Over, VInv
  <2> QED
    BY <2>1, <2>2, <2>3, <2>4, <2>5 DEF VNext, check
<1> QED
  BY <1>1, <1>2, <1>3, PTL DEF VSpec, Spec

(* Verify calls a file corrupt if its bytes rotted, and not because they    *)
(* were edited, with any commands and edits after it read the row and the   *)
(* log, as long as the file it hashes is the one whose size and date it has *)
(* (StatHolds): one written in between is called corrupt as well.           *)
THEOREM CorruptIsRot ==
  ASSUME Orderly
  PROVE  VSpec => CorruptMeansRot
<1> DEFINE A == JudgeRow /\ StatHolds /\ row = catalog[path] =>
                  (Verdict(row, path) = "corrupt" <=> path \in rotten)
<1>1. IInv /\ VInv => A
  <2> SUFFICES ASSUME IInv, VInv, JudgeRow, StatHolds, row = catalog[path]
               PROVE  Verdict(row, path) = "corrupt" <=> path \in rotten
    OBVIOUS
  <2>1. path \in Path /\ Has(catalog, path) /\ path \in Tracked(catalog) /\ path \in OnDisk
    BY DEF JudgeRow, StatHolds, VInv, Has, Tracked
  <2>2. Verdict(row, path) = "corrupt" <=> disk[path].sha # row.sha /\ Fresh(row, disk[path])
    BY DEF Verdict, StatHolds, Stat, Fresh
  <2>3. ~Unseen(catalog) /\ DiskInv
    BY DEF IInv, Rows
  <2>4. path \in rotten => path \in OnDisk /\ disk[path].sha # row.sha /\ Fresh(row, disk[path])
    BY <2>3 DEF DiskInv
  <2>5. path \notin rotten /\ path \in OnDisk /\ disk[path].sha # row.sha => ~Fresh(row, disk[path])
    BY <2>1, <2>3 DEF Unseen
  <2> QED
    BY <2>1, <2>2, <2>4, <2>5
<1> HIDE DEF A
<1>2. IInv /\ VInv /\ [VNext]_<<vars, check>> => [A]_<<vars, check>>
  BY <1>1
<1> QED
  BY <1>2, VerifyAlways, IngestAlways, PTL DEF VSpec, CorruptMeansRot, A

-----------------------------------------------------------------------------
(* The log tells all                                                       *)
(*                                                                         *)
(* Operations are replayed in the order of their entries and done in       *)
(* another.  So the invariant keeps of each one under way that every       *)
(* catalog the replay goes through since its entry is still as it found    *)
(* it (Story): what is done meanwhile is of other files, and the two       *)
(* commute (DonePast).  A restore-identity that was cut short is never     *)
(* done; its row may have the id already, and is locked by it for ever.    *)

(* No id is given back that a row still has in the replay.  The catalog is *)
(* all that restore-identity looks at: of two lost records, one can be     *)
(* given to another file while the replay has it at the row which got the  *)
(* other from a restore that was cut short, and a move of that id is then  *)
(* replayed of either row.                                                 *)
GivenOnce ==
  \A n \in DOMAIN log' :
    n \notin DOMAIN log /\ log'[n].kind = "restore" => ~HasId(Projection, log'[n].id)

(* So it is where one record is held. *)
OneReceipt == \A i, j \in Receipts : i = j

(* The catalogs the replay of l goes through. *)
Past(l) ==
  LET P[n \in 0 .. Len(l)] ==
        IF n = 0 THEN Empty
        ELSE IF l[n].state = "done" THEN Replayed(P[n - 1], l[n], l[n].at)
        ELSE P[n - 1]
  IN  P

(* An operation finds the rows it was journaled for. *)
Before(e, k) ==
  /\ Has(k, e.path) <=> e.kind # "ingest"
  /\ \A p \in Tracked(k) : k[p].id = e.id <=> p = e.path
  /\ e.kind = "move" => k[e.path].sha = e.sha /\ ~Has(k, e.to)

Away(d, e) == d.id # e.id /\ Touch(d) \cap Touch(e) = {}

Story ==
  /\ \A n \in DOMAIN log : Open(n) =>
       /\ \A m \in DOMAIN log : m > n => Away(log[m], log[n])
       /\ \A m \in n .. Len(log) : Before(log[n], Past(log)[m])
  /\ \A n \in DOMAIN log : log[n].kind = "restore" => log[n].id \in Receipts

(* The replay gives no identity twice, and none of its own. *)
Grounded(k) ==
  /\ \A p, q \in Tracked(k) : k[p].id = k[q].id => p = q
  /\ \A p \in Tracked(k) : Born(k[p].id)

(* The row has its new id already, the replay does not give it yet. *)
Renewed(r, o) ==
  /\ r # None /\ o # None /\ r.sha = o.sha
  /\ \E n \in DOMAIN log : Pending(n) /\ log[n].kind = "restore" /\ log[n].id = r.id

UnderWay(p) == \E n \in DOMAIN log : Open(n) /\ p \in Touch(log[n])

(* The rows of k that nothing is under way at are the ones of the replay. *)
Tells(k) == \A p \in Path : UnderWay(p) \/ SameFile(k[p], Projection[p]) \/ Renewed(k[p], Projection[p])

(* The operation is made in k. *)
Effected(e, k) ==
  /\ e.kind = "ingest"  => k[e.path] = RowOf(e)
  /\ e.kind = "scan"    => k[e.path].sha = e.sha
  /\ e.kind = "delete"  => ~Has(k, e.path)
  /\ e.kind = "move"    => Has(k, e.to)
  /\ e.kind = "restore" => Has(k, e.path) /\ k[e.path].id = e.id

(* What a command has in memory, and what it will mark. *)
Owes ==
  /\ job.owed \subseteq DOMAIN log
  /\ \A n \in job.owed : Pending(n) => Effected(log[n], cat)
  /\ \A n \in job.owed : log[n].kind = "restore" =>
       /\ pc \in {"flush", "mark"} /\ n = Len(log) /\ \A m \in DOMAIN log : ~Open(m)
       /\ Pending(n) => ~HasId(Projection, log[n].id)
  /\ pc = "mark" => catalog = cat

TellInv ==
  /\ Story /\ Grounded(Projection) /\ Tells(catalog)
  /\ ~Idle => Tells(cat) /\ Owes

-----------------------------------------------------------------------------
(* The replay of a log. *)

LEMMA Upwards ==
  ASSUME NEW T, 0 \in T, \A n \in Nat : n \in T => n + 1 \in T
  PROVE  Nat \subseteq T
<1> SUFFICES ASSUME Nat \ T # {} PROVE FALSE
  OBVIOUS
<1>1. PICK x \in Nat \ T : \A y \in Nat \ T : x <= y
  BY Least
<1>2. x # 0 /\ x - 1 \in Nat /\ x - 1 + 1 = x
  BY <1>1
<1>3. x - 1 \in T
  BY <1>1, <1>2
<1> QED
  BY <1>1, <1>2, <1>3

Advanced(k, e) == IF e.state = "done" THEN Replayed(k, e, e.at) ELSE k

IsPast(f, l) ==
  /\ f \in [0 .. Len(l) -> Catalog]
  /\ f[0] = Empty
  /\ \A n \in 1 .. Len(l) : f[n] = Advanced(f[n - 1], l[n])

LEMMA AdvancedTyped ==
  ASSUME NEW k \in Catalog, NEW e \in Entry
  PROVE  Advanced(k, e) \in Catalog
BY ReplayedTyped, EntryFields DEF Advanced

LEMMA PastUnique ==
  ASSUME NEW l \in Seq(Entry), NEW f, NEW g, IsPast(f, l), IsPast(g, l)
  PROVE  f = g
<1> DEFINE T == {n \in Nat : n <= Len(l) => f[n] = g[n]}
<1>1. 0 \in T
  BY DEF IsPast
<1>2. ASSUME NEW n \in Nat, n \in T PROVE n + 1 \in T
  <2>1. SUFFICES ASSUME n + 1 <= Len(l) PROVE f[n + 1] = g[n + 1]
    OBVIOUS
  <2>2. n + 1 \in 1 .. Len(l) /\ n + 1 - 1 = n /\ f[n] = g[n]
    BY <1>2, <2>1
  <2> QED
    BY <2>2 DEF IsPast
<1>3. Nat \subseteq T
  <2> HIDE DEF T
  <2> QED
    BY <1>1, <1>2, Upwards
<1>4. \A n \in 0 .. Len(l) : f[n] = g[n]
  BY <1>3
<1> QED
  BY <1>4 DEF IsPast

LEMMA PastExists ==
  ASSUME NEW l \in Seq(Entry)
  PROVE  \E f : IsPast(f, l)
<1> DEFINE Part(f, n) == /\ f \in [0 .. n -> Catalog] /\ f[0] = Empty
                         /\ \A m \in 1 .. n : f[m] = Advanced(f[m - 1], l[m])
           T == {n \in Nat : n <= Len(l) => \E f : Part(f, n)}
<1>1. 0 \in T
  <2>1. Part([m \in 0 .. 0 |-> Empty], 0)
    BY NoJobTyped
  <2> QED
    BY <2>1
<1>2. ASSUME NEW n \in Nat, n \in T PROVE n + 1 \in T
  <2>1. SUFFICES ASSUME n + 1 <= Len(l) PROVE \E f : Part(f, n + 1)
    OBVIOUS
  <2>2. PICK f : Part(f, n)
    BY <1>2, <2>1
  <2>3. n + 1 \in 1 .. Len(l) /\ l[n + 1] \in Entry
    BY <2>1
  <2>4. Advanced(f[n], l[n + 1]) \in Catalog
    BY <2>2, <2>3, AdvancedTyped
  <2> DEFINE g == [m \in 0 .. n + 1 |-> IF m = n + 1 THEN Advanced(f[n], l[n + 1]) ELSE f[m]]
  <2>5. g \in [0 .. n + 1 -> Catalog] /\ g[0] = Empty
    BY <2>2, <2>4
  <2>6. ASSUME NEW m \in 1 .. n + 1 PROVE g[m] = Advanced(g[m - 1], l[m])
    <3>1. CASE m = n + 1
      <4>1. m - 1 = n /\ g[n] = f[n]
        BY <3>1
      <4> QED
        BY <3>1, <4>1
    <3>2. CASE m \in 1 .. n
      <4>1. g[m] = f[m] /\ g[m - 1] = f[m - 1]
        BY <3>2
      <4> QED
        BY <2>2, <3>2, <4>1
    <3> QED
      BY <3>1, <3>2
  <2>7. Part(g, n + 1)
    <3> HIDE DEF g
    <3> QED
      BY <2>5, <2>6
  <2> QED
    BY <2>7
<1>3. Nat \subseteq T
  <2> HIDE DEF T
  <2> QED
    BY <1>1, <1>2, Upwards
<1>4. Len(l) \in T
  BY <1>3
<1> QED
  BY <1>4 DEF IsPast

(* The recursive function is the only one that obeys its equations. *)
LEMMA PastIs ==
  ASSUME NEW l \in Seq(Entry)
  PROVE  IsPast(Past(l), l)
<1>1. PICK f : IsPast(f, l)
  BY PastExists
<1>2. f = [n \in 0 .. Len(l) |->
             IF n = 0 THEN Empty
             ELSE IF l[n].state = "done" THEN Replayed(f[n - 1], l[n], l[n].at) ELSE f[n - 1]]
  BY <1>1 DEF IsPast, Advanced
<1>3. \E h : h = [n \in 0 .. Len(l) |->
             IF n = 0 THEN Empty
             ELSE IF l[n].state = "done" THEN Replayed(h[n - 1], l[n], l[n].at) ELSE h[n - 1]]
  BY <1>2
<1>4. Past(l) = [n \in 0 .. Len(l) |->
             IF n = 0 THEN Empty
             ELSE IF l[n].state = "done" THEN Replayed(Past(l)[n - 1], l[n], l[n].at)
             ELSE Past(l)[n - 1]]
  BY <1>3 DEF Past
<1> DEFINE h == Past(l)
<1>5. /\ h[0] = Empty
      /\ \A n \in 1 .. Len(l) : h[n] = Advanced(h[n - 1], l[n])
  BY <1>4 DEF Advanced
<1> DEFINE T == {n \in Nat : n <= Len(l) => h[n] = f[n]}
<1>6. 0 \in T
  BY <1>1, <1>5 DEF IsPast
<1>7. ASSUME NEW n \in Nat, n \in T PROVE n + 1 \in T
  <2>1. SUFFICES ASSUME n + 1 <= Len(l) PROVE h[n + 1] = f[n + 1]
    OBVIOUS
  <2>2. n + 1 \in 1 .. Len(l) /\ n + 1 - 1 = n /\ h[n] = f[n]
    BY <1>7, <2>1
  <2> QED
    BY <1>1, <1>5, <2>2 DEF IsPast
<1>8. Nat \subseteq T
  <2> HIDE DEF T
  <2> QED
    BY <1>6, <1>7, Upwards
<1>9. \A n \in 0 .. Len(l) : h[n] = f[n]
  BY <1>8
<1>10. h = [n \in 0 .. Len(l) |-> h[n]]
  BY <1>4
<1> QED
  BY <1>1, <1>9, <1>10 DEF IsPast

LEMMA ProjectionLast == Projection = Past(log)[Len(log)]
BY DEF Projection, Past

(* f is the replay of l, however it was made. *)
LEMMA PastAs ==
  ASSUME NEW l \in Seq(Entry), NEW f, IsPast(f, l)
  PROVE  Past(l) = f
BY PastIs, PastUnique

LEMMA PastFacts ==
  ASSUME TypeOK
  PROVE  /\ Past(log) \in [0 .. Len(log) -> Catalog]
         /\ Past(log)[0] = Empty
         /\ \A n \in 1 .. Len(log) : Past(log)[n] = Advanced(Past(log)[n - 1], log[n])
         /\ Projection = Past(log)[Len(log)] /\ Projection \in Catalog
<1>1. log \in Seq(Entry) /\ Len(log) \in Nat
  BY DEF TypeOK
<1>2. IsPast(Past(log), log)
  BY <1>1, PastIs
<1>3. Len(log) \in 0 .. Len(log)
  BY <1>1
<1> QED
  BY <1>2, <1>3, ProjectionLast DEF IsPast

LEMMA AppendPast ==
  ASSUME TypeOK, Room, NEW e \in Entry, e.state = "intent", log' = Append(log, e)
  PROVE  /\ \A m \in 0 .. Len(log) : Past(log')[m] = Past(log)[m]
         /\ Past(log')[Next1] = Projection
         /\ Projection' = Projection
<1> DEFINE h == Past(log)
           f == [n \in 0 .. Len(log) + 1 |-> IF n <= Len(log) THEN h[n] ELSE h[Len(log)]]
<1>1. /\ log \in Seq(Entry) /\ log' \in Seq(Entry) /\ Len(log) \in Nat /\ Len(log') = Len(log) + 1
      /\ \A n \in 1 .. Len(log) : log'[n] = log[n]
      /\ log'[Len(log) + 1] = e
  BY DEF TypeOK
<1>2. IsPast(h, log)
  BY <1>1, PastIs
<1> HIDE DEF h
<1>3. f \in [0 .. Len(log') -> Catalog] /\ f[0] = Empty
  BY <1>1, <1>2 DEF IsPast
<1>4. ASSUME NEW n \in 1 .. Len(log') PROVE f[n] = Advanced(f[n - 1], log'[n])
  <2>1. CASE n = Len(log) + 1
    <3>1. f[n] = h[Len(log)] /\ f[n - 1] = h[Len(log)] /\ log'[n] = e
      BY <1>1, <2>1
    <3> QED
      BY <3>1 DEF Advanced
  <2>2. CASE n \in 1 .. Len(log)
    <3>1. f[n] = h[n] /\ f[n - 1] = h[n - 1] /\ log'[n] = log[n]
      BY <1>1, <2>2
    <3> QED
      BY <1>2, <2>2, <3>1 DEF IsPast
  <2> QED
    BY <1>1, <2>1, <2>2
<1>5. Past(log') = f
  <2> HIDE DEF f
  <2>1. IsPast(f, log')
    BY <1>3, <1>4 DEF IsPast
  <2> QED
    BY <1>1, <2>1, PastAs
<1>6. Projection = h[Len(log)] /\ Projection' = Past(log')[Len(log')]
  BY DEF Projection, Past, h
<1>7. /\ \A m \in 0 .. Len(log) : f[m] = h[m]
      /\ f[Len(log) + 1] = h[Len(log)]
  BY <1>1
<1> QED
  BY <1>1, <1>5, <1>6, <1>7 DEF Next1, h

(* Only the fields of an entry that a mark leaves are replayed. *)
LEMMA ReplayedSame ==
  ASSUME NEW k, NEW t, NEW d, NEW e, d.kind = e.kind, d.id = e.id, d.path = e.path, d.to = e.to,
         d.sha = e.sha, RowOf(d) = RowOf(e)
  PROVE  Replayed(k, d, t) = Replayed(k, e, t)
<1>1. Moved(k, d, t) = Moved(k, e, t)
  BY DEF Moved
<1> QED
  BY <1>1 DEF Replayed

(* What is done since commutes with the operation. *)
Commutes(n, e) ==
  \A m \in DOMAIN log : m > n /\ log[m].state = "done" =>
    Replayed(Replayed(Past(log)[m - 1], log[m], log[m].at), e, e.at)
      = Replayed(Replayed(Past(log)[m - 1], e, e.at), log[m], log[m].at)

(* Marking an operation puts its effect after every catalog since its entry. *)
LEMMA MarkedPast ==
  ASSUME TypeOK, NEW n \in DOMAIN log, Pending(n), log' = [log EXCEPT ![n].state = "done"],
         NEW e, e = log[n], Commutes(n, e)
  PROVE  /\ \A m \in 0 .. Len(log) :
              Past(log')[m] = IF m < n THEN Past(log)[m] ELSE Replayed(Past(log)[m], e, e.at)
         /\ Projection' = Replayed(Projection, e, e.at)
         /\ Len(log') = Len(log)
<1> DEFINE h == Past(log)
           f == [m \in 0 .. Len(log) |-> IF m < n THEN h[m] ELSE Replayed(h[m], e, e.at)]
<1>1. /\ log \in Seq(Entry) /\ Len(log) \in Nat /\ DOMAIN log = 1 .. Len(log)
      /\ e \in Entry /\ n \in Nat
  BY LogFacts DEF TypeOK
<1>2. IsPast(h, log)
  BY <1>1, PastIs
<1> HIDE DEF h
<1>3. /\ log' \in Seq(Entry) /\ Len(log') = Len(log)
      /\ \A m \in DOMAIN log : m # n => log'[m] = log[m]
  <2>1. [log[n] EXCEPT !.state = "done"] \in Entry
    BY <1>1 DEF Entry
  <2>2. log' \in [1 .. Len(log) -> Entry]
    BY <1>1, <2>1
  <2>3. log' \in Seq(Entry) /\ Len(log') = Len(log)
    BY <1>1, <2>2, IsASeq
  <2> QED
    BY <2>3
<1>4. /\ log'[n].kind = e.kind /\ log'[n].id = e.id /\ log'[n].path = e.path /\ log'[n].to = e.to
      /\ log'[n].sha = e.sha /\ log'[n].at = e.at /\ RowOf(log'[n]) = RowOf(e)
      /\ log'[n].state = "done"
  BY <1>1 DEF Entry, RowOf
<1>5. \A k : Advanced(k, log'[n]) = Replayed(k, e, e.at)
  BY <1>4, ReplayedSame DEF Advanced
<1>6. h[n] = h[n - 1] /\ n \in 1 .. Len(log)
  BY <1>1, <1>2 DEF IsPast, Advanced, Pending
<1>7. f \in [0 .. Len(log') -> Catalog] /\ f[0] = Empty
  <2>1. \A m \in 0 .. Len(log) : h[m] \in Catalog
    BY <1>2 DEF IsPast
  <2>2. \A m \in 0 .. Len(log) : Replayed(h[m], e, e.at) \in Catalog
    BY <1>1, <2>1, ReplayedTyped, EntryFields
  <2> QED
    BY <1>1, <1>2, <1>3, <1>6, <2>1, <2>2 DEF IsPast
<1>8. ASSUME NEW m \in 1 .. Len(log') PROVE f[m] = Advanced(f[m - 1], log'[m])
  <2>1. CASE m < n
    <3>1. f[m] = h[m] /\ f[m - 1] = h[m - 1] /\ log'[m] = log[m] /\ m \in 1 .. Len(log)
      BY <1>1, <1>3, <2>1
    <3> QED
      BY <1>2, <3>1 DEF IsPast
  <2>2. CASE m = n
    <3>1. f[m] = Replayed(h[n], e, e.at) /\ f[m - 1] = h[n - 1]
      BY <1>1, <1>3, <2>2
    <3> QED
      BY <1>5, <1>6, <2>2, <3>1
  <2>3. CASE m > n
    <3>1. /\ f[m] = Replayed(h[m], e, e.at) /\ f[m - 1] = Replayed(h[m - 1], e, e.at)
          /\ log'[m] = log[m] /\ m \in DOMAIN log /\ m \in 1 .. Len(log)
      BY <1>1, <1>3, <2>3
    <3>2. h[m] = Advanced(h[m - 1], log[m])
      BY <1>2, <3>1 DEF IsPast
    <3> HIDE DEF f
    <3> QED
      BY <2>3, <3>1, <3>2 DEF Advanced, Commutes, h
  <2> QED
    BY <1>1, <1>3, <2>1, <2>2, <2>3
<1>9. Past(log') = f
  <2> HIDE DEF f
  <2>1. IsPast(f, log')
    BY <1>7, <1>8 DEF IsPast
  <2> QED
    BY <1>3, <2>1, PastAs
<1>10. Projection = h[Len(log)] /\ Projection' = Past(log')[Len(log')]
  BY DEF Projection, Past, h
<1>11. \A m \in 0 .. Len(log) : f[m] = IF m < n THEN h[m] ELSE Replayed(h[m], e, e.at)
  OBVIOUS
<1> QED
  BY <1>1, <1>3, <1>6, <1>9, <1>10, <1>11 DEF h

-----------------------------------------------------------------------------
LEMMA StampTyped ==
  ASSUME NEW r \in Row, NEW x \in Sha, NEW t \in Time
  PROVE  /\ WithSha(r, x, t) \in Row /\ WithSha(r, x, t).id = r.id /\ WithSha(r, x, t).sha = x
BY DEF WithSha, Row

LEMMA NamedTyped ==
  ASSUME NEW r \in Row, NEW i \in Id
  PROVE  Identified(r, i) \in Row /\ Identified(r, i).id = i /\ Identified(r, i).sha = r.sha
BY DEF Identified, Row

(* What an operation does at each path of a catalog it finds as it was. *)
Effect(e, k, t, p) ==
  IF p \notin Touch(e) THEN k[p]
  ELSE IF e.kind = "ingest" THEN RowOf(e)
  ELSE IF e.kind = "scan" THEN WithSha(k[e.path], e.sha, t)
  ELSE IF e.kind = "move" /\ p = e.to THEN WithSha(k[e.path], k[e.path].sha, t)
  ELSE None

LEMMA EffectAt ==
  ASSUME NEW k \in Catalog, NEW e \in Entry, NEW t \in Time, Before(e, k),
         e.kind # "restore", e.kind = "move" <=> e.path # e.to
  PROVE  \A p \in Path : Replayed(k, e, t)[p] = Effect(e, k, t, p)
<1>1. /\ e.kind \in Kind /\ e.path \in Path /\ e.to \in Path /\ e.sha \in Sha
  BY EntryFields
<1>2. CASE e.kind = "ingest"
  BY <1>1, <1>2, RowOfTyped, WithTyped DEF Replayed, Effect, Touch
<1>3. CASE e.kind = "delete"
  BY <1>1, <1>3, WithoutTyped DEF Replayed, Effect, Touch
<1>4. CASE e.kind = "scan"
  <2>1. Has(k, e.path)
    BY <1>4 DEF Before
  <2>2. WithSha(k[e.path], e.sha, t) \in Row
    BY <1>1, <2>1, HasRow, StampTyped
  <2> QED
    BY <1>1, <1>4, <2>1, <2>2, WithTyped DEF Replayed, Effect, Touch
<1>5. CASE e.kind = "move"
  <2> DEFINE found == {p \in Tracked(k) : k[p].id = e.id}
             spot == IF found # {} THEN CHOOSE p \in found : TRUE ELSE e.path
             r == WithSha(k[e.path], k[e.path].sha, t)
  <2>1. Has(k, e.path) /\ e.path # e.to
    BY <1>5 DEF Before
  <2>2. found = {e.path}
    BY <1>1, <2>1 DEF Before, Tracked
  <2>3. spot = e.path
    BY <2>2
  <2>4. Moved(k, e, t) = Renamed(k, spot, e.to, WithSha(k[spot], k[spot].sha, t))
    BY <2>1, <2>3 DEF Moved
  <2> HIDE DEF spot, found
  <2>5. Replayed(k, e, t) = Renamed(k, e.path, e.to, r)
    BY <1>5, <2>3, <2>4 DEF Replayed
  <2>6. r \in Row
    BY <1>1, <2>1, HasRow, StampTyped
  <2>7. \A p \in Path : Renamed(k, e.path, e.to, r)[p] =
          IF p = e.to THEN r ELSE IF p = e.path THEN None ELSE k[p]
    BY <1>1, <2>6, RenamedTyped
  <2> QED
    BY <1>5, <2>5, <2>7 DEF Effect, Touch
<1> QED
  BY <1>1, <1>2, <1>3, <1>4, <1>5 DEF Kind

(* The rows that it leaves. *)
LEMMA EffectRows ==
  ASSUME NEW k \in Catalog, NEW e \in Entry, NEW t \in Time, Before(e, k),
         e.kind # "restore", e.kind = "move" <=> e.path # e.to,
         NEW l, l = Replayed(k, e, t)
  PROVE  /\ l \in Catalog
         /\ \A p \in Path : p \notin Touch(e) => l[p] = k[p]
         /\ \A p \in Touch(e) : p \in Tracked(l) =>
              l[p].id = e.id /\ e.kind \in {"ingest", "scan", "move"} /\ p = e.to
         /\ e.kind = "ingest" => l[e.path] = RowOf(e)
         /\ e.kind = "delete" => ~Has(l, e.path)
         /\ e.kind = "scan" => Has(l, e.path) /\ l[e.path].id = e.id /\ l[e.path].sha = e.sha
         /\ e.kind = "move" => /\ ~Has(l, e.path)
                               /\ Has(l, e.to) /\ l[e.to].id = e.id /\ l[e.to].sha = e.sha
<1>1. /\ e.kind \in Kind /\ e.path \in Path /\ e.to \in Path /\ e.sha \in Sha
  BY EntryFields
<1>2. l \in Catalog /\ \A p \in Path : l[p] = Effect(e, k, t, p)
  BY EffectAt, ReplayedTyped
<1>3. \A p \in Path : p \notin Touch(e) => l[p] = k[p]
  BY <1>2 DEF Effect
<1>4. CASE e.kind = "ingest"
  <2>1. Touch(e) = {e.path} /\ e.to = e.path /\ l[e.path] = RowOf(e) /\ RowOf(e).id = e.id
    BY <1>1, <1>2, <1>4, RowOfTyped DEF Effect, Touch
  <2> QED
    BY <1>2, <1>3, <1>4, <2>1
<1>5. CASE e.kind = "delete"
  <2>1. Touch(e) = {e.path} /\ l[e.path] = None
    BY <1>1, <1>2, <1>5 DEF Effect, Touch
  <2> QED
    BY <1>2, <1>3, <1>5, <2>1 DEF Tracked, Has
<1>6. CASE e.kind = "scan"
  <2>1. Has(k, e.path) /\ k[e.path].id = e.id /\ k[e.path] \in Row
    BY <1>1, <1>6, HasRow DEF Before, Tracked
  <2>2. Touch(e) = {e.path} /\ e.to = e.path /\ l[e.path] = WithSha(k[e.path], e.sha, t)
    BY <1>1, <1>2, <1>6 DEF Effect, Touch
  <2>3. l[e.path] \in Row /\ l[e.path].id = e.id /\ l[e.path].sha = e.sha
    BY <1>1, <2>1, <2>2, StampTyped
  <2> QED
    BY <1>1, <1>2, <1>3, <1>6, <2>2, <2>3, HasRow
<1>7. CASE e.kind = "move"
  <2>1. /\ Has(k, e.path) /\ k[e.path].id = e.id /\ k[e.path].sha = e.sha /\ k[e.path] \in Row
        /\ e.path # e.to
    BY <1>1, <1>7, HasRow DEF Before, Tracked
  <2>2. l[e.path] = None /\ l[e.to] = WithSha(k[e.path], e.sha, t)
    BY <1>1, <1>2, <1>7, <2>1 DEF Effect, Touch
  <2>3. l[e.to] \in Row /\ l[e.to].id = e.id /\ l[e.to].sha = e.sha
    BY <1>1, <2>1, <2>2, StampTyped
  <2>4. Has(l, e.to) /\ ~Has(l, e.path)
    BY <1>1, <1>2, <2>2, <2>3, HasRow
  <2> QED
    BY <1>2, <1>3, <1>7, <2>3, <2>4 DEF Touch, Tracked
<1> QED
  BY <1>1, <1>4, <1>5, <1>6, <1>7 DEF Kind

LEMMA RenamedElsewhere ==
  ASSUME NEW k \in Catalog, NEW l \in Catalog, NEW p \in Path, NEW q \in Path, NEW r \in Row,
         NEW T, p \notin T, q \notin T, \A x \in Path : x \notin T => k[x] = l[x]
  PROVE  /\ \A x \in Path : x \in T => Renamed(k, p, q, r)[x] = k[x] /\ Renamed(l, p, q, r)[x] = l[x]
         /\ \A x \in Path : x \notin T => Renamed(k, p, q, r)[x] = Renamed(l, p, q, r)[x]
BY DEF Renamed, With, Without, Catalog

(* The catalogs differ at T only, at which e has no business. *)
Elsewhere(k, l, T, e) ==
  /\ T \cap Touch(e) = {}
  /\ \A p \in Path : p \notin T => k[p] = l[p]
  /\ \A p \in T : p \in Tracked(k) => k[p].id # e.id
  /\ \A p \in T : p \in Tracked(l) => l[p].id # e.id

(* A replay elsewhere neither sees nor changes what differs. *)
LEMMA ReplayedElsewhere ==
  ASSUME NEW k \in Catalog, NEW l \in Catalog, NEW e \in Entry, NEW t \in Time,
         NEW T, Elsewhere(k, l, T, e)
  PROVE  /\ \A p \in Path : p \in T => /\ Replayed(k, e, t)[p] = k[p]
                                       /\ Replayed(l, e, t)[p] = l[p]
         /\ \A p \in Path : p \notin T => Replayed(k, e, t)[p] = Replayed(l, e, t)[p]
<1>0. /\ T \cap Touch(e) = {}
      /\ \A p \in Path : p \notin T => k[p] = l[p]
      /\ \A p \in T : p \in Tracked(k) => k[p].id # e.id
      /\ \A p \in T : p \in Tracked(l) => l[p].id # e.id
  BY DEF Elsewhere
<1>1. /\ e.kind \in Kind /\ e.path \in Path /\ e.to \in Path /\ e.sha \in Sha /\ e.id \in Id
      /\ e.path \notin T /\ e.to \notin T /\ k[e.path] = l[e.path] /\ (Has(k, e.path) <=> Has(l, e.path))
  BY <1>0, EntryFields DEF Touch, Has
<1>2. CASE e.kind = "ingest"
  BY <1>0, <1>1, <1>2, RowOfTyped, WithTyped DEF Replayed
<1>3. CASE e.kind = "delete"
  BY <1>0, <1>1, <1>3, WithoutTyped DEF Replayed
<1>4. CASE e.kind \in {"scan", "restore"} /\ ~Has(k, e.path)
  BY <1>0, <1>1, <1>4 DEF Replayed
<1>5. CASE e.kind \in {"scan", "restore"} /\ Has(k, e.path)
  <2> DEFINE r == IF e.kind = "scan" THEN WithSha(k[e.path], e.sha, t) ELSE Identified(k[e.path], e.id)
  <2>1. Replayed(k, e, t) = With(k, e.path, r) /\ Replayed(l, e, t) = With(l, e.path, r)
    BY <1>1, <1>5 DEF Replayed
  <2>2. r \in Row
    <3>1. k[e.path] \in Row /\ k[e.path].size \in Sizes
      BY <1>1, <1>5, HasRow
    <3> QED
      BY <1>1, <3>1, StampTyped, NamedTyped
  <2> HIDE DEF r
  <2> QED
    BY <1>0, <1>1, <2>1, <2>2, WithTyped
<1>6. CASE e.kind = "move"
  <2> DEFINE found == {p \in Tracked(k) : k[p].id = e.id}
             spot == IF found # {} THEN CHOOSE p \in found : TRUE ELSE e.path
             r == WithSha(k[spot], k[spot].sha, t)
  <2>1. found = {p \in Tracked(l) : l[p].id = e.id}
    <3>1. \A p \in Path : p \in found <=> p \in Tracked(l) /\ l[p].id = e.id
      BY <1>0 DEF Tracked, Has
    <3> QED
      BY <3>1 DEF Tracked
  <2>2. spot \in Path /\ spot \notin T
    BY <1>0, <1>1 DEF Tracked
  <2>3. Replayed(k, e, t) = IF Has(k, spot) /\ spot # e.to THEN Renamed(k, spot, e.to, r) ELSE k
    BY <1>6 DEF Replayed, Moved
  <2>4. Replayed(l, e, t) =
          IF Has(l, spot) /\ spot # e.to
            THEN Renamed(l, spot, e.to, WithSha(l[spot], l[spot].sha, t)) ELSE l
    BY <1>6, <2>1 DEF Replayed, Moved
  <2> HIDE DEF spot, found
  <2>5. k[spot] = l[spot] /\ (Has(k, spot) <=> Has(l, spot))
    BY <1>0, <2>2 DEF Has
  <2>6. CASE ~(Has(k, spot) /\ spot # e.to)
    BY <1>0, <2>3, <2>4, <2>5, <2>6
  <2>7. CASE Has(k, spot) /\ spot # e.to
    <3>1. Replayed(k, e, t) = Renamed(k, spot, e.to, r) /\ Replayed(l, e, t) = Renamed(l, spot, e.to, r)
      BY <2>3, <2>4, <2>5, <2>7
    <3>2. r \in Row
      BY <2>2, <2>7, HasRow, StampTyped
    <3> HIDE DEF r
    <3> QED
      BY <1>0, <1>1, <2>2, <3>1, <3>2, RenamedElsewhere
  <2> QED
    BY <2>6, <2>7
<1> QED
  BY <1>1, <1>2, <1>3, <1>4, <1>5, <1>6 DEF Kind

(* An operation commutes with one of another file that finds what it found. *)
LEMMA ReplayedCommute ==
  ASSUME NEW k \in Catalog, NEW d \in Entry, NEW e \in Entry, Away(d, e),
         e.kind # "restore", e.kind = "move" <=> e.path # e.to,
         Before(e, k), Before(e, Replayed(k, d, d.at))
  PROVE  Replayed(Replayed(k, d, d.at), e, e.at) = Replayed(Replayed(k, e, e.at), d, d.at)
<1> DEFINE T == Touch(e)
           l == Replayed(k, e, e.at)
           m == Replayed(k, d, d.at)
           x == Replayed(m, e, e.at)
           y == Replayed(l, d, d.at)
<1>1. e.at \in Time /\ d.at \in Time /\ e.path \in Path /\ e.to \in Path
  BY EntryFields
<1>2. l \in Catalog /\ m \in Catalog /\ x \in Catalog /\ y \in Catalog
  BY <1>1, ReplayedTyped
<1>3. /\ \A p \in Path : l[p] = Effect(e, k, e.at, p)
      /\ \A p \in Path : x[p] = Effect(e, m, e.at, p)
  BY <1>1, <1>2, EffectAt
<1>4. /\ \A p \in Path : p \notin T => l[p] = k[p]
      /\ \A p \in T : p \in Tracked(l) => l[p].id = e.id
  BY <1>1, EffectRows
<1>5. \A p \in T : p \in Tracked(k) => k[p].id = e.id
  <2>1. ASSUME NEW p \in T, p \in Tracked(k) PROVE p = e.path
    BY <2>1 DEF Before, Touch, Tracked
  <2> QED
    BY <2>1 DEF Before
<1>6. d.id # e.id /\ T \cap Touch(d) = {}
  BY DEF Away
<1> HIDE DEF T, l, m
<1>7. /\ \A p \in Path : p \in T => m[p] = k[p] /\ y[p] = l[p]
      /\ \A p \in Path : p \notin T => m[p] = y[p]
  <2>1. \A p \in T : p \in Tracked(k) => k[p].id # d.id
    BY <1>5, <1>6
  <2>2. \A p \in T : p \in Tracked(l) => l[p].id # d.id
    BY <1>4, <1>6
  <2>3. m = Replayed(k, d, d.at) /\ y = Replayed(l, d, d.at)
    BY DEF m
  <2>4. \A p \in Path : p \notin T => k[p] = l[p]
    BY <1>4
  <2>5. /\ \A p \in Path : p \in T => Replayed(k, d, d.at)[p] = k[p]
        /\ \A p \in Path : p \in T => Replayed(l, d, d.at)[p] = l[p]
        /\ \A p \in Path : p \notin T => Replayed(k, d, d.at)[p] = Replayed(l, d, d.at)[p]
    <3>1. Elsewhere(k, l, T, d)
      BY <1>6, <2>1, <2>2, <2>4 DEF Elsewhere
    <3> QED
      BY <1>1, <1>2, <3>1, ReplayedElsewhere
  <2> QED
    BY <2>3, <2>5
<1>8. \A p \in Path : x[p] = y[p]
  <2>1. ASSUME NEW p \in Path, p \notin T PROVE x[p] = y[p]
    BY <1>3, <1>7, <2>1 DEF Effect, T
  <2>2. ASSUME NEW p \in Path, p \in T PROVE x[p] = y[p]
    <3>1. m[e.path] = k[e.path] /\ m[p] = k[p]
      BY <1>1, <1>7, <2>2 DEF T, Touch
    <3>2. x[p] = Effect(e, m, e.at, p) /\ y[p] = Effect(e, k, e.at, p)
      BY <1>3, <1>7, <2>2
    <3> QED
      BY <3>1, <3>2 DEF Effect
  <2> QED
    BY <2>1, <2>2
<1> HIDE DEF x, y
<1>9. x = y
  BY <1>2, <1>8 DEF Catalog
<1> QED
  BY <1>9 DEF x, y, l, m

-----------------------------------------------------------------------------
(* The log grows. *)

LEMMA SameLogTells ==
  ASSUME log' = log, NEW k, Tells(k)
  PROVE  Tells(k)'
<1>1. Projection' = Projection
  BY DEF Projection
<1>2. \A p : UnderWay(p) => UnderWay(p)'
  BY DEF UnderWay, Open, Pending
<1>3. \A r, o : Renewed(r, o) => Renewed(r, o)'
  BY DEF Renewed, Pending
<1> QED
  BY <1>1, <1>2, <1>3 DEF Tells

LEMMA SameLogStory ==
  ASSUME log' = log, Story, Grounded(Projection)
  PROVE  Story' /\ Grounded(Projection)'
<1>1. Projection' = Projection
  BY DEF Projection
<1>2. \A i : Born(i) => Born(i)'
  BY DEF Born
<1>3. Grounded(Projection)'
  BY <1>1, <1>2 DEF Grounded
<1>4. Story'
  BY DEF Story, Open, Pending
<1> QED
  BY <1>3, <1>4

LEMMA AppendTells ==
  ASSUME TypeOK, Room, NEW e \in Entry, e.state = "intent", log' = Append(log, e),
         NEW k, Tells(k), NEW l,
         \A p \in Path : l[p] = k[p] \/ (e.kind # "restore" /\ p \in Touch(e))
  PROVE  Tells(l)'
<1>1. Projection' = Projection
  BY AppendPast
<1>2. \A n \in DOMAIN log : /\ n \in DOMAIN log' /\ log'[n] = log[n] /\ (Open(n)' <=> Open(n))
                            /\ Pending(n)' <=> Pending(n)
  BY AppendOpen
<1>3. \A p : UnderWay(p) => UnderWay(p)'
  BY <1>2 DEF UnderWay
<1>4. \A r, o : Renewed(r, o) => Renewed(r, o)'
  BY <1>2 DEF Renewed
<1>5. e.kind # "restore" => \A p \in Touch(e) : UnderWay(p)'
  <2>1. \A n : n = Next1 => n \in DOMAIN log' /\ log'[n] = e /\ (Open(n)' <=> e.kind # "restore")
    BY AppendOpen
  <2> QED
    BY <2>1 DEF UnderWay
<1> QED
  BY <1>1, <1>3, <1>4, <1>5 DEF Tells

LEMMA AppendStory ==
  ASSUME TypeOK, Room, Story, Grounded(Projection), NEW e, NewEntry(e), log' = Append(log, e),
         e.kind = "restore" => e.id \in Receipts /\ \A n \in DOMAIN log : ~Open(n),
         e.kind # "restore" => Before(e, Projection)
  PROVE  Story' /\ Grounded(Projection)'
<1>1. e \in Entry /\ e.state = "intent" /\ ~Locked(e.id)
  BY DEF NewEntry
<1>2. /\ \A m \in 0 .. Len(log) : Past(log')[m] = Past(log)[m]
      /\ Past(log')[Next1] = Projection
      /\ Projection' = Projection
  BY <1>1, AppendPast
<1>3. /\ \A n \in DOMAIN log : /\ n # Next1 /\ log'[n] = log[n] /\ n \in DOMAIN log'
                               /\ Open(n)' <=> Open(n)
      /\ \A n \in DOMAIN log' : n \in DOMAIN log \/ n = Next1
      /\ \A n : n = Next1 => n \in DOMAIN log' /\ log'[n] = e /\ (Open(n)' <=> e.kind # "restore")
  BY <1>1, AppendOpen
<1>4. /\ DOMAIN log = 1 .. Len(log) /\ Len(log) \in Nat /\ Next1 = Len(log) + 1 /\ Len(log') = Next1
      /\ Projection = Past(log)[Len(log)]
  BY <1>1, LogFacts, AppendTyped, PastFacts DEF Next1
<1>5. Grounded(Projection)'
  <2>1. \A i : Born(i) => Born(i)'
    BY <1>1, AppendBorn
  <2> QED
    BY <1>2, <2>1 DEF Grounded
<1>6. ASSUME NEW n \in DOMAIN log, Open(n)
      PROVE  /\ \A m \in DOMAIN log' : m > n => Away(log'[m], log[n])
             /\ \A m \in n .. Len(log') : Before(log[n], Past(log')[m])
  <2>1. Away(e, log[n])
    <3>1. e.id # log[n].id
      BY <1>1, <1>6 DEF Locked, Open
    <3>2. Touch(e) \cap Touch(log[n]) = {}
      BY <1>6 DEF NewEntry
    <3> QED
      BY <3>1, <3>2 DEF Away
  <2>2. /\ \A m \in DOMAIN log : m > n => Away(log[m], log[n])
        /\ \A m \in n .. Len(log) : Before(log[n], Past(log)[m])
    BY <1>6 DEF Story
  <2>3. \A m \in DOMAIN log' : m > n => Away(log'[m], log[n])
    BY <1>3, <2>1, <2>2
  <2>4. ASSUME NEW m \in n .. Len(log') PROVE Before(log[n], Past(log')[m])
    <3>1. CASE m \in n .. Len(log)
      <4>1. m \in 0 .. Len(log)
        BY <1>4, <3>1
      <4> QED
        BY <1>2, <2>2, <3>1, <4>1
    <3>2. CASE m = Next1
      <4>1. Len(log) \in n .. Len(log)
        BY <1>4
      <4> QED
        BY <1>2, <1>4, <2>2, <3>2, <4>1
    <3> QED
      BY <1>4, <3>1, <3>2
  <2> QED
    BY <2>3, <2>4
<1>7. ASSUME NEW n, n = Next1, e.kind # "restore"
      PROVE  /\ \A m \in DOMAIN log' : m > n => Away(log'[m], log'[n])
             /\ \A m \in n .. Len(log') : Before(log'[n], Past(log')[m])
  <2>1. \A m \in DOMAIN log' : ~(m > n)
    BY <1>3, <1>4, <1>7
  <2>2. \A m \in n .. Len(log') : m = Next1
    BY <1>4, <1>7
  <2> QED
    BY <1>2, <1>3, <1>7, <2>1, <2>2
<1>8. \A n \in DOMAIN log' : log'[n].kind = "restore" => log'[n].id \in Receipts
  BY <1>3 DEF Story
<1> QED
  BY <1>3, <1>5, <1>6, <1>7, <1>8 DEF Story

-----------------------------------------------------------------------------
(* An operation is marked. *)

LEMMA BeforeStays ==
  ASSUME NEW k \in Catalog, NEW d \in Entry, NEW e \in Entry, NEW t \in Time, Before(d, k), Before(e, k),
         e.kind # "restore", e.kind = "move" <=> e.path # e.to, Away(e, d),
         NEW l, l = Replayed(k, e, t)
  PROVE  Before(d, l)
<1>1. d.path \in Path /\ d.to \in Path /\ e.id # d.id /\ d.path \notin Touch(e) /\ d.to \notin Touch(e)
  BY EntryFields DEF Away, Touch
<1>2. /\ l \in Catalog
      /\ \A p \in Path : p \notin Touch(e) => l[p] = k[p]
      /\ \A p \in Touch(e) : p \in Tracked(l) => l[p].id = e.id
  BY EffectRows
<1>3. l[d.path] = k[d.path] /\ l[d.to] = k[d.to]
  BY <1>1, <1>2
<1>4. ASSUME NEW p \in Tracked(l) PROVE l[p].id = d.id <=> p = d.path
  <2>1. CASE p \in Touch(e)
    BY <1>1, <1>2, <2>1
  <2>2. CASE p \notin Touch(e)
    <3>1. p \in Tracked(k) /\ l[p] = k[p]
      BY <1>2, <2>2 DEF Tracked, Has
    <3> QED
      BY <3>1 DEF Before
  <2> QED
    BY <2>1, <2>2
<1> QED
  BY <1>3, <1>4 DEF Before, Has

(* What is made in a catalog and what the replay gives are the same files. *)
LEMMA SameEffect ==
  ASSUME NEW k \in Catalog, NEW e \in Entry, Fit(e, k), Effected(e, k), NEW q \in Catalog, NEW t \in Time,
         Before(e, q), e.kind # "restore", e.kind = "move" <=> e.path # e.to,
         NEW l, l = Replayed(q, e, t), NEW p \in Touch(e)
  PROVE  SameFile(k[p], l[p])
<1>1. /\ e.kind \in Kind /\ e.path \in Path /\ e.to \in Path
  BY EntryFields
<1>2. /\ e.kind = "ingest" => l[e.path] = RowOf(e)
      /\ e.kind = "delete" => ~Has(l, e.path)
      /\ e.kind = "scan" => Has(l, e.path) /\ l[e.path].id = e.id /\ l[e.path].sha = e.sha
      /\ e.kind = "move" => /\ ~Has(l, e.path)
                            /\ Has(l, e.to) /\ l[e.to].id = e.id /\ l[e.to].sha = e.sha
  BY EffectRows
<1>3. CASE e.kind = "move"
  <2>1. PICK x \in Touch(e), y \in Touch(e) : /\ Has(k, x) /\ ~Has(k, y)
                                              /\ k[x].id = e.id /\ k[x].sha = e.sha
    BY <1>3 DEF Fit
  <2>2. Has(k, e.to)
    BY <1>3 DEF Effected
  <2>3. x = e.to /\ y = e.path
    BY <2>1, <2>2 DEF Touch
  <2> QED
    BY <1>2, <1>3, <2>1, <2>3 DEF Touch, SameFile, Has
<1>4. CASE e.kind # "move"
  <2>1. p = e.path
    BY <1>4 DEF Touch
  <2> QED
    BY <1>1, <1>2, <1>4, <2>1 DEF Fit, Effected, SameFile, Has, Kind
<1> QED
  BY <1>3, <1>4

LEMMA DonePast ==
  ASSUME TypeOK, Story, EntryInv, NEW n \in DOMAIN log, Open(n),
         log' = [log EXCEPT ![n].state = "done"], NEW e, e = log[n]
  PROVE  /\ \A m \in 0 .. Len(log) :
              Past(log')[m] = IF m < n THEN Past(log)[m] ELSE Replayed(Past(log)[m], e, e.at)
         /\ Projection' = Replayed(Projection, e, e.at)
         /\ Len(log') = Len(log)
<1> DEFINE h == Past(log)
<1>1. /\ DOMAIN log = 1 .. Len(log) /\ Len(log) \in Nat /\ \A m \in DOMAIN log : log[m] \in Entry
      /\ Pending(n) /\ e.kind # "restore" /\ (e.kind = "move" <=> e.path # e.to) /\ e \in Entry
  BY LogFacts DEF Open, EntryInv
<1>2. /\ h \in [0 .. Len(log) -> Catalog]
      /\ \A m \in 1 .. Len(log) : h[m] = Advanced(h[m - 1], log[m])
  BY PastFacts
<1> HIDE DEF h
<1>3. ASSUME NEW m \in DOMAIN log, m > n, log[m].state = "done"
      PROVE  Replayed(Replayed(h[m - 1], log[m], log[m].at), e, e.at)
               = Replayed(Replayed(h[m - 1], e, e.at), log[m], log[m].at)
  <2>1. m - 1 \in n .. Len(log) /\ m \in n .. Len(log) /\ m - 1 \in 0 .. Len(log) /\ m \in 1 .. Len(log)
    BY <1>1, <1>3
  <2>2. Before(e, h[m - 1]) /\ Before(e, h[m]) /\ Away(log[m], e)
    BY <1>3, <2>1 DEF Story, h
  <2>3. h[m] = Replayed(h[m - 1], log[m], log[m].at) /\ h[m - 1] \in Catalog
    BY <1>2, <1>3, <2>1 DEF Advanced
  <2>4. Before(e, Replayed(h[m - 1], log[m], log[m].at)) /\ log[m] \in Entry
    BY <1>1, <2>2, <2>3
  <2> QED
    BY <1>1, <2>2, <2>3, <2>4, ReplayedCommute
<1>4. Commutes(n, e)
  BY <1>3 DEF Commutes, h
<1> QED
  BY <1>1, <1>4, MarkedPast

LEMMA DoneStory ==
  ASSUME TypeOK, Story, EntryInv, OpenInv, Grounded(Projection), NEW n \in DOMAIN log, Open(n),
         log' = [log EXCEPT ![n].state = "done"]
  PROVE  Story' /\ Grounded(Projection)'
<1> DEFINE h == Past(log)
           q == Projection
<1>0. PICK e \in Entry : e = log[n]
  BY LogFacts
<1>1. /\ DOMAIN log = 1 .. Len(log) /\ Len(log) \in Nat /\ \A m \in DOMAIN log : log[m] \in Entry
      /\ e.kind # "restore" /\ (e.kind = "move" <=> e.path # e.to) /\ e.at \in Time
      /\ e.path \in Path /\ n \in Nat
  BY <1>0, LogFacts, EntryFields DEF Open, EntryInv
<1>2. h \in [0 .. Len(log) -> Catalog] /\ q = h[Len(log)] /\ q \in Catalog
  BY PastFacts
<1>3. /\ \A m \in 0 .. Len(log) : Past(log')[m] = IF m < n THEN h[m] ELSE Replayed(h[m], e, e.at)
      /\ Projection' = Replayed(q, e, e.at)
      /\ Len(log') = Len(log)
  BY <1>0, DonePast
<1>4. /\ DOMAIN log' = DOMAIN log
      /\ \A m \in DOMAIN log :
           /\ log'[m].kind = log[m].kind /\ log'[m].id = log[m].id /\ log'[m].path = log[m].path
           /\ log'[m].to = log[m].to
           /\ m # n => log'[m] = log[m]
           /\ Open(m)' <=> Open(m) /\ m # n
  BY MarkFacts
<1>5. \A m \in n .. Len(log) : Before(e, h[m])
  BY <1>0 DEF Story
<1> HIDE DEF h
<1>6. ASSUME NEW l \in DOMAIN log, Open(l), l # n
      PROVE  /\ \A m \in DOMAIN log : m > l => Away(log'[m], log'[l])
             /\ \A m \in l .. Len(log) : Before(log'[l], Past(log')[m])
  <2>1. log'[l] = log[l] /\ log[l] \in Entry
    BY <1>1, <1>4, <1>6
  <2>2. /\ \A m \in DOMAIN log : m > l => Away(log[m], log[l])
        /\ \A m \in l .. Len(log) : Before(log[l], h[m])
    BY <1>6 DEF Story, h
  <2>3. \A m \in DOMAIN log : m > l => Away(log'[m], log'[l])
    BY <1>4, <2>1, <2>2 DEF Away, Touch
  <2>4. Away(e, log[l])
    BY <1>0, <1>6 DEF OpenInv, Away, Open
  <2>5. ASSUME NEW m \in l .. Len(log) PROVE Before(log[l], Past(log')[m])
    <3>1. m \in 0 .. Len(log) /\ h[m] \in Catalog /\ Before(log[l], h[m])
      BY <1>1, <1>2, <2>2
    <3>2. CASE m < n
      BY <1>3, <3>1, <3>2
    <3>3. CASE ~(m < n)
      <4>1. m \in n .. Len(log)
        BY <1>1, <3>3
      <4>2. Before(e, h[m])
        BY <1>5, <4>1
      <4>3. Past(log')[m] = Replayed(h[m], e, e.at)
        BY <1>3, <3>1, <3>3
      <4> QED
        BY <1>1, <2>1, <2>4, <3>1, <4>2, <4>3, BeforeStays
    <3> QED
      BY <3>2, <3>3
  <2> QED
    BY <2>1, <2>3, <2>5
<1>7. Story'
  BY <1>3, <1>4, <1>6 DEF Story
<1>8. Before(e, q)
  <2>1. Len(log) \in n .. Len(log)
    BY <1>1
  <2> QED
    BY <1>2, <1>5, <2>1
<1> HIDE DEF q
<1>9. PICK l \in Catalog : l = Replayed(q, e, e.at)
  BY <1>1, <1>2, ReplayedTyped
<1>10. /\ \A p \in Path : p \notin Touch(e) => l[p] = q[p]
       /\ \A p \in Touch(e) : p \in Tracked(l) =>
            l[p].id = e.id /\ e.kind \in {"ingest", "scan", "move"} /\ p = e.to
  BY <1>1, <1>2, <1>8, <1>9, EffectRows
<1>11. /\ \A x, y \in Tracked(q) : q[x].id = q[y].id => x = y
       /\ \A x \in Tracked(q) : Born(q[x].id)
       /\ \A x \in Tracked(q) : q[x].id = e.id => x = e.path
  BY <1>8 DEF Grounded, Before, q
<1>12. \A x \in Tracked(l) : \/ x \in Touch(e) /\ l[x].id = e.id /\ x = e.to
                             \/ /\ x \notin Touch(e) /\ x \in Tracked(q) /\ l[x] = q[x]
                                /\ q[x].id # e.id
  BY <1>10, <1>11 DEF Tracked, Has, Touch
<1>13. \A i : Born(i) => Born(i)'
  BY <1>4 DEF Born
<1>14. Born(e.id)
  <2>1. CASE e.kind = "ingest"
    BY <1>0, <2>1 DEF Born
  <2>2. CASE e.kind # "ingest"
    BY <1>1, <1>8, <1>11, <2>2 DEF Before, Tracked
  <2> QED
    BY <2>1, <2>2
<1>15. Grounded(Projection)'
  <2>1. \A x, y \in Tracked(l) : l[x].id = l[y].id => x = y
    BY <1>11, <1>12
  <2>2. \A x \in Tracked(l) : Born(l[x].id)'
    BY <1>11, <1>12, <1>13, <1>14
  <2> QED
    BY <1>3, <1>9, <2>1, <2>2 DEF Grounded
<1> QED
  BY <1>7, <1>15

LEMMA DoneTells ==
  ASSUME TypeOK, Story, EntryInv, NEW n \in DOMAIN log, Open(n),
         log' = [log EXCEPT ![n].state = "done"],
         NEW k \in Catalog, Tells(k), Fit(log[n], k), Effected(log[n], k)
  PROVE  Tells(k)'
<1> DEFINE q == Projection
<1>0. PICK e \in Entry : e = log[n]
  BY LogFacts
<1>1. /\ DOMAIN log = 1 .. Len(log) /\ Len(log) \in Nat /\ n \in Nat
      /\ e.kind # "restore" /\ (e.kind = "move" <=> e.path # e.to) /\ e.at \in Time
      /\ q \in Catalog /\ q = Past(log)[Len(log)]
  BY <1>0, LogFacts, EntryFields, PastFacts DEF Open, EntryInv
<1>2. Before(e, q)
  <2>1. Len(log) \in n .. Len(log)
    BY <1>1
  <2> QED
    BY <1>0, <1>1, <2>1 DEF Story
<1>3. Projection' = Replayed(q, e, e.at)
  BY <1>0, DonePast
<1>4. /\ DOMAIN log' = DOMAIN log
      /\ \A m \in DOMAIN log :
           /\ log'[m].kind = log[m].kind /\ log'[m].id = log[m].id
           /\ m # n => log'[m] = log[m]
           /\ Pending(m)' <=> Pending(m) /\ m # n
           /\ Open(m)' <=> Open(m) /\ m # n
  BY MarkFacts
<1> HIDE DEF q
<1>5. PICK l \in Catalog : l = Replayed(q, e, e.at)
  BY <1>1, ReplayedTyped
<1>6. \A p \in Path : p \notin Touch(e) => l[p] = q[p]
  BY <1>1, <1>2, <1>5, EffectRows
<1>7. \A r, o : Renewed(r, o) => Renewed(r, o)'
  BY <1>0, <1>1, <1>4 DEF Renewed
<1>8. ASSUME NEW p \in Path
      PROVE  UnderWay(p)' \/ SameFile(k[p], l[p]) \/ Renewed(k[p], l[p])'
  <2>1. CASE p \in Touch(e)
    <3>1. Fit(e, k) /\ Effected(e, k)
      BY <1>0
    <3> QED
      BY <1>1, <1>2, <1>5, <2>1, <3>1, SameEffect
  <2>2. CASE p \notin Touch(e)
    <3>1. UnderWay(p) => UnderWay(p)'
      BY <1>0, <1>4, <2>2 DEF UnderWay
    <3>2. UnderWay(p) \/ SameFile(k[p], q[p]) \/ Renewed(k[p], q[p])
      BY DEF Tells, q
    <3> QED
      BY <1>6, <1>7, <2>2, <3>1, <3>2
  <2> QED
    BY <2>1, <2>2
<1> QED
  BY <1>3, <1>5, <1>8 DEF Tells

(* The one restore-identity that is done is marked before anything else is  *)
(* journaled.                                                              *)
LEMMA RestoreMarked ==
  ASSUME Orderly, TypeOK, Story, Grounded(Projection),
         NEW n \in DOMAIN log, n = Len(log), Pending(n), log[n].kind = "restore",
         \A m \in DOMAIN log : ~Open(m),
         log' = [log EXCEPT ![n].state = "done"],
         ~HasId(Projection, log[n].id),
         NEW k \in Catalog, Tells(k), Effected(log[n], k),
         \A p, q \in Tracked(k) : k[p].id = k[q].id => p = q
  PROVE  Story' /\ Grounded(Projection)' /\ Tells(k)'
<1> DEFINE q == Projection
<1>0. PICK e \in Entry : e = log[n]
  BY LogFacts
<1>1. /\ DOMAIN log = 1 .. Len(log) /\ e.kind = "restore" /\ e.at \in Time /\ e.path \in Path
      /\ e.id \in Id /\ q \in Catalog /\ e.id \in Receipts /\ e.id.op = None
  BY <1>0, LogFacts, EntryFields, PastFacts DEF Story, Orderly
<1>2. Projection' = Replayed(q, e, e.at)
  <2>1. Commutes(n, e)
    BY <1>1 DEF Commutes
  <2> QED
    BY <1>0, <2>1, MarkedPast
<1>3. /\ DOMAIN log' = DOMAIN log
      /\ \A m \in DOMAIN log : /\ log'[m].kind = log[m].kind /\ log'[m].id = log[m].id
                               /\ ~Open(m)' /\ (Pending(m)' <=> Pending(m) /\ m # n)
  BY MarkFacts
<1>4. Story'
  BY <1>3 DEF Story
<1>5. /\ e.path \in Tracked(k) /\ k[e.path].id = e.id /\ k[e.path] # None
  BY <1>0, <1>1 DEF Effected, Tracked, Has
<1>6. \A r, o : Renewed(r, o) => r # None /\ o # None /\ r.sha = o.sha
  BY DEF Renewed
<1>7. \A p \in Path : SameFile(k[p], q[p]) \/ Renewed(k[p], q[p])
  BY DEF Tells, UnderWay, q
<1>8. \A r, o : Renewed(r, o) /\ r.id # e.id => Renewed(r, o)'
  BY <1>0, <1>3 DEF Renewed, Pending
<1>9. \A p \in Path : p # e.path => SameFile(k[p], q[p]) \/ (Renewed(k[p], q[p]) /\ k[p].id # e.id)
  <2>1. \A p \in Tracked(k) : p # e.path => k[p].id # e.id
    BY <1>5
  <2> QED
    BY <1>6, <1>7, <2>1 DEF Tracked, Has
<1>10. Has(q, e.path) /\ q[e.path].sha = k[e.path].sha
  BY <1>1, <1>5, <1>6, <1>7 DEF SameFile, Has
<1> HIDE DEF q
<1>11. PICK r \in Row : r = Identified(q[e.path], e.id) /\ r.id = e.id /\ r.sha = k[e.path].sha
  BY <1>1, <1>10, HasRow, NamedTyped
<1>12. PICK l \in Catalog : l = With(q, e.path, r)
  BY <1>1, WithTyped
<1>13. Projection' = l /\ \A p \in Path : l[p] = IF p = e.path THEN r ELSE q[p]
  <2>1. Replayed(q, e, e.at) = With(q, e.path, r)
    BY <1>1, <1>10, <1>11 DEF Replayed
  <2> QED
    BY <1>1, <1>2, <1>12, <2>1, WithTyped
<1>14. \A i : Born(i) => Born(i)'
  BY <1>3 DEF Born
<1>15. \A p \in Tracked(l) : \/ p = e.path /\ l[p].id = e.id
                             \/ p \in Tracked(q) /\ l[p] = q[p] /\ q[p].id # e.id
  <2>1. \A p \in Tracked(q) : q[p].id # e.id
    BY <1>0 DEF HasId, q
  <2> QED
    BY <1>11, <1>13, <2>1 DEF Tracked, Has
<1>16. Grounded(Projection)'
  <2>1. /\ \A x, y \in Tracked(q) : q[x].id = q[y].id => x = y
        /\ \A x \in Tracked(q) : Born(q[x].id)
    BY DEF Grounded, q
  <2>2. \A x, y \in Tracked(l) : l[x].id = l[y].id => x = y
    BY <1>15, <2>1
  <2>3. Born(e.id)
    BY <1>1 DEF Born
  <2>4. \A x \in Tracked(l) : Born(l[x].id)'
    BY <1>14, <1>15, <2>1, <2>3
  <2> QED
    BY <1>13, <2>2, <2>4 DEF Grounded
<1>17. \A p \in Path : SameFile(k[p], l[p]) \/ Renewed(k[p], l[p])'
  <2>1. r # None
    BY <1>11, SizeFacts
  <2>2. SameFile(k[e.path], l[e.path])
    BY <1>1, <1>5, <1>11, <1>13, <2>1 DEF SameFile
  <2>3. ASSUME NEW p \in Path, p # e.path PROVE SameFile(k[p], l[p]) \/ Renewed(k[p], l[p])'
    <3>1. l[p] = q[p]
      BY <1>13, <2>3
    <3>2. SameFile(k[p], l[p]) \/ (Renewed(k[p], l[p]) /\ k[p].id # e.id)
      BY <1>9, <2>3, <3>1
    <3> QED
      BY <1>8, <3>2
  <2> QED
    BY <2>2, <2>3
<1>18. Tells(k)'
  BY <1>13, <1>17 DEF Tells
<1> QED
  BY <1>4, <1>16, <1>18

-----------------------------------------------------------------------------
(* Steps that leave the log. *)

LEMMA TellsAlike ==
  ASSUME NEW k, Tells(k), NEW l,
         \A p \in Path : \/ l[p] = k[p] \/ UnderWay(p)
                         \/ k[p] # None /\ l[p] # None /\ l[p].id = k[p].id /\ l[p].sha = k[p].sha
  PROVE  Tells(l)
<1>1. ASSUME NEW p \in Path
      PROVE  UnderWay(p) \/ SameFile(l[p], Projection[p]) \/ Renewed(l[p], Projection[p])
  <2>1. UnderWay(p) \/ SameFile(k[p], Projection[p]) \/ Renewed(k[p], Projection[p])
    BY DEF Tells
  <2>2. CASE l[p] = k[p] \/ UnderWay(p)
    BY <2>1, <2>2
  <2>3. CASE k[p] # None /\ l[p] # None /\ l[p].id = k[p].id /\ l[p].sha = k[p].sha
    <3>1. SameFile(k[p], Projection[p]) => SameFile(l[p], Projection[p])
      BY <2>3 DEF SameFile
    <3>2. Renewed(k[p], Projection[p]) => Renewed(l[p], Projection[p])
      BY <2>3 DEF Renewed
    <3> QED
      BY <2>1, <3>1, <3>2
  <2> QED
    BY <2>2, <2>3
<1> QED
  BY <1>1 DEF Tells

LEMMA SameLogTold ==
  ASSUME TellInv, log' = log, NEW c, c = catalog', Tells(c),
         NEW k, k = cat', Idle' \/ (Tells(k) /\ Owes')
  PROVE  TellInv'
<1>1. Story' /\ Grounded(Projection)'
  BY SameLogStory DEF TellInv
<1>2. Tells(c)'
  BY SameLogTells
<1>3. Tells(catalog)'
  BY <1>2 DEF Tells
<1>4. ASSUME ~Idle' PROVE Tells(cat)' /\ Owes'
  <2>1. Tells(k)' /\ Owes'
    BY <1>4, SameLogTells
  <2> QED
    BY <2>1 DEF Tells
<1> QED
  BY <1>1, <1>3, <1>4 DEF TellInv

LEMMA EffectedElsewhere ==
  ASSUME NEW e, NEW k, NEW l, Effected(e, k), \A p \in Touch(e) : l[p] = k[p]
  PROVE  Effected(e, l)
BY DEF Effected, Touch, Has

(* What is owed stays done while the other rows change. *)
LEMMA OwedStays ==
  ASSUME Owes, ~Idle, pc \notin {"flush", "mark"}, pc' # "mark",
         \A n \in DOMAIN log : n \in DOMAIN log' /\ log'[n] = log[n],
         NEW o, job'.owed = job.owed \cup o, o \subseteq DOMAIN log',
         \A n \in o : log'[n].kind # "restore" /\ (Pending(n)' => Effected(log'[n], cat')),
         \A n \in job.owed : Open(n) => \A p \in Touch(log[n]) : cat'[p] = cat[p]
  PROVE  Owes'
<1>1. ASSUME NEW n \in job.owed
      PROVE  /\ n \in DOMAIN log' /\ log'[n].kind # "restore"
             /\ Pending(n)' => Effected(log'[n], cat')
  <2>1. n \in DOMAIN log /\ log'[n] = log[n] /\ log[n].kind # "restore"
    BY DEF Owes
  <2>2. Pending(n)' => Open(n)
    BY <2>1 DEF Pending, Open
  <2>3. ASSUME Open(n) PROVE Effected(log[n], cat')
    <3>1. Effected(log[n], cat)
      BY <2>3 DEF Owes, Open
    <3>2. \A p \in Touch(log[n]) : cat'[p] = cat[p]
      BY <2>3
    <3> QED
      BY <3>1, <3>2, EffectedElsewhere
  <2> QED
    BY <2>1, <2>2, <2>3
<1>2. \A n \in job'.owed : /\ n \in DOMAIN log' /\ log'[n].kind # "restore"
                           /\ Pending(n)' => Effected(log'[n], cat')
  BY <1>1
<1>3. \A n \in job'.owed : Pending(n)' => Effected(log[n], cat)'
  BY <1>2 DEF Effected, Has, RowOf
<1> QED
  BY <1>2, <1>3 DEF Owes

(* And while nothing is journaled or marked. *)
LEMMA SameOwed ==
  ASSUME Owes, log' = log, cat' = cat, job'.owed = job.owed,
         pc' = "mark" => catalog' = cat,
         pc' \in {"flush", "mark"} \/ pc \notin {"flush", "mark"}
  PROVE  Owes'
<1>1. Projection' = Projection
  BY DEF Projection
<1>2. \A n \in job.owed : log[n].kind = "restore" /\ Pending(n) => ~HasId(Projection, log[n].id)'
  BY <1>1 DEF Owes, HasId
<1>3. \A e : Effected(e, cat) => Effected(e, cat)'
  BY DEF Effected, Has, RowOf
<1> QED
  BY <1>2, <1>3 DEF Owes, Pending, Open

LEMMA NothingOwed ==
  ASSUME job'.owed = {}, pc' # "mark"
  PROVE  Owes'
BY DEF Owes

(* A command reads the catalog. *)
LEMMA ReadTells ==
  ASSUME TellInv, cat' = catalog, UNCHANGED <<files, vault, now>>, job'.owed = {}, pc' # "mark"
  PROVE  TellInv'
<1>1. log' = log /\ catalog' = catalog /\ Tells(catalog) /\ Owes'
  BY NothingOwed DEF vault, TellInv
<1> QED
  BY <1>1, SameLogTold

LEMMA StartTells ==
  ASSUME TellInv, \/ \E S \in SUBSET Path : StartInit(S)
                  \/ \E p \in Path : StartTrack(p)
                  \/ \E paranoid \in BOOLEAN : StartScan(paranoid)
  PROVE  TellInv'
<1>1. \A c, S : Ingesting(c, S).owed = {}
  BY NoJobTyped DEF Ingesting, Job
<1>2. CASE \E S \in SUBSET Path : StartInit(S)
  <2>1. PICK S \in SUBSET Path : StartInit(S)
    BY <1>2
  <2> QED
    BY <1>1, <2>1, ReadTells DEF StartInit, Goto
<1>3. CASE \E p \in Path : StartTrack(p)
  <2>1. PICK p \in Path : StartTrack(p)
    BY <1>3
  <2> QED
    BY <1>1, <2>1, ReadTells DEF StartTrack, Goto
<1>4. CASE \E paranoid \in BOOLEAN : StartScan(paranoid)
  <2>1. PICK paranoid \in BOOLEAN : StartScan(paranoid)
    BY <1>4
  <2>2. PICK confirmed \in SUBSET Deletes(catalog) :
          Applying([NoJob EXCEPT !.cmd = "scan",
                                 !.changes = AllFound(catalog, paranoid, confirmed)])
    BY <2>1 DEF StartScan, AllFound
  <2> DEFINE T == AllFound(catalog, paranoid, confirmed)
             j == [NoJob EXCEPT !.cmd = "scan", !.changes = T]
  <2>3. Applying(j)
    BY <2>2
  <2> HIDE DEF T
  <2>4. j.owed = {}
    BY NoJobTyped DEF Job
  <2> HIDE DEF j
  <2>5. job' = j /\ pc' # "mark"
    BY <2>3 DEF Applying, Goto
  <2>6. cat' = catalog /\ UNCHANGED <<files, vault, now>>
    BY <2>1 DEF StartScan
  <2> QED
    BY <2>4, <2>5, <2>6, ReadTells
<1> QED
  BY <1>2, <1>3, <1>4

LEMMA EndTells ==
  ASSUME TellInv, Marked \/ Die
  PROVE  TellInv'
<1>1. /\ log' = log /\ catalog' = catalog /\ ~Idle
      /\ Idle' \/ (pc' = "ingest" /\ job' = job /\ cat' = cat /\ job.owed = {})
  BY DEF Marked, Die, Leave, Goto, vault, Idle
<1>2. Tells(catalog) /\ Tells(cat)
  BY <1>1 DEF TellInv
<1>3. CASE Idle'
  BY <1>1, <1>2, <1>3, SameLogTold
<1>4. CASE pc' = "ingest" /\ job' = job /\ cat' = cat /\ job.owed = {}
  <2>1. Owes'
    BY <1>4, NothingOwed
  <2> QED
    BY <1>1, <1>2, <1>4, <2>1, SameLogTold
<1> QED
  BY <1>1, <1>3, <1>4

LEMMA FlushTells ==
  ASSUME TellInv, Flush
  PROVE  TellInv'
<1>1. log' = log /\ catalog' = cat /\ cat' = cat /\ job' = job /\ pc' = "mark" /\ ~Idle /\ pc = "flush"
  BY DEF Flush, Goto, Idle
<1>2. Tells(cat) /\ Owes
  BY <1>1 DEF TellInv
<1>3. Owes'
  BY <1>1, <1>2, SameOwed
<1> QED
  BY <1>1, <1>2, <1>3, SameLogTold

LEMMA DiskTells ==
  ASSUME TellInv, UNCHANGED <<log, catalog, cat, pc, job>>
  PROVE  TellInv'
<1>1. Tells(catalog)
  BY DEF TellInv
<1>2. CASE Idle
  BY <1>1, <1>2, SameLogTold DEF Idle
<1>3. CASE ~Idle
  <2>1. Tells(cat) /\ Owes
    BY <1>3 DEF TellInv
  <2>2. Owes'
    BY <2>1, SameOwed DEF Owes
  <2> QED
    BY <1>1, <2>1, <2>2, SameLogTold
<1> QED
  BY <1>2, <1>3

LEMMA FilesTell ==
  ASSUME TellInv, \/ \E p \in Path, s \in Sha : Write(p, s) \/ Rot(p, s)
                  \/ \E p \in Path : Remove(p)
                  \/ \E p, q \in Path : Rename(p, q)
  PROVE  TellInv'
<1>1. UNCHANGED <<log, catalog, cat, pc, job>>
  BY DEF Write, Rot, Remove, Rename, NewFile, vault
<1> QED
  BY <1>1, DiskTells

(* What is owed while files are ingested by name is of other files. *)
LEMMA OwedByName ==
  ASSUME IInv, Owes, pc \in {"ingest", "intent"}, Left # {}, NEW n \in job.owed, Open(n)
  PROVE  NextFile \in Path /\ NextFile \notin Touch(log[n])
<1>1. ToName /\ EntryInv /\ TypeInv
  BY DEF IInv, Idle
<1>2. NextFile \in Left /\ NextFile \in Path
  BY <1>1, JobFields DEF TypeInv
<1>3. ByName(n) /\ n \in DOMAIN log
  BY <1>1 DEF ToName, Open
<1>4. n \notin RecordOf(NextFile)
  BY <1>1, <1>2 DEF ToName
<1>5. log[n].to = log[n].path
  BY <1>1, <1>3 DEF EntryInv, ByName
<1> QED
  BY <1>2, <1>3, <1>4, <1>5 DEF RecordOf, Touch

LEMMA TakeRecordedTells ==
  ASSUME IInv, TellInv, TakeRecorded
  PROVE  TellInv'
<1> DEFINE p == NextFile
<1>1. PICK n \in RecordOf(p) : cat' = With(cat, p, RowOf(log[n])) /\ Taken(p, n)
  BY DEF TakeRecorded
<1>2. /\ pc = "ingest" /\ ~Idle /\ Left # {} /\ log' = log /\ catalog' = catalog /\ TypeInv
  BY DEF TakeRecorded, vault, IInv, Idle
<1>3. /\ job'.owed = job.owed \cup {n} /\ pc' \in {"flush", "ingest"} /\ p \in Left
  BY <1>1, <1>2, TakenFacts
<1>4. ToName /\ cat \in Catalog /\ Tells(cat) /\ Owes /\ Tells(catalog) /\ TypeOK
  BY <1>2, TypesOf DEF IInv, TellInv
<1>5. /\ n \in DOMAIN log /\ log[n].kind = "ingest" /\ log[n].path = p /\ p \in Path
      /\ log[n] \in Entry
  BY <1>2, <1>3, <1>4, JobFields, LogFacts DEF RecordOf, ByName
<1> DEFINE r == RowOf(log[n])
<1>6. cat[p] = catalog[p] /\ (Pending(n) \/ catalog[p] = r)
  BY <1>3, <1>4 DEF ToName
<1>7. r \in Row
  BY <1>5, RowOfTyped
<1>8. \A q \in Path : cat'[q] = IF q = p THEN r ELSE cat[q]
  <2> HIDE DEF p, r
  <2> QED
    BY <1>1, <1>4, <1>5, <1>7, WithTyped DEF r
<1>9. PICK k : k = cat'
  OBVIOUS
<1>10. Tells(k)
  <2>1. Pending(n) => UnderWay(p)
    BY <1>5 DEF UnderWay, Open, Touch
  <2>2. \A q \in Path : k[q] = cat[q] \/ UnderWay(q)
    BY <1>6, <1>8, <1>9, <2>1
  <2> QED
    BY <1>4, <2>2, TellsAlike
<1>11. Owes'
  <2> DEFINE o == {n}
  <2>1. Effected(log[n], cat')
    BY <1>5, <1>8 DEF Effected
  <2>2. job'.owed = job.owed \cup o /\ o \subseteq DOMAIN log'
        /\ \A m \in o : log'[m].kind # "restore" /\ Effected(log'[m], cat')
    BY <1>2, <1>3, <1>5, <2>1
  <2>3. ASSUME NEW m \in job.owed, Open(m), NEW q \in Touch(log[m]) PROVE cat'[q] = cat[q]
    <3>1. p \notin Touch(log[m])
      BY <1>2, <1>4, <2>3, OwedByName
    <3>2. q \in Path
      BY <1>4, <2>3, LogFacts, EntryFields DEF Open, Touch
    <3> QED
      BY <1>8, <2>3, <3>1, <3>2
  <2> HIDE DEF o, p
  <2> QED
    BY <1>2, <1>3, <1>4, <2>2, <2>3, OwedStays
<1> QED
  BY <1>2, <1>4, <1>9, <1>10, <1>11, SameLogTold

LEMMA HashTells ==
  ASSUME IInv, TellInv, Hash
  PROVE  TellInv'
<1>1. /\ pc = "ingest" /\ ~Idle /\ pc' = "intent" /\ log' = log /\ catalog' = catalog /\ cat' = cat
      /\ job' = [job EXCEPT !.sum = disk[NextFile].sha]
  BY DEF Hash, Goto, vault, Idle
<1>2. job'.owed = job.owed /\ Tells(cat) /\ Owes /\ Tells(catalog)
  BY <1>1 DEF IInv, TypeInv, TypeOK, Job, TellInv
<1>3. Owes'
  BY <1>1, <1>2, SameOwed
<1> QED
  BY <1>1, <1>2, <1>3, SameLogTold

-----------------------------------------------------------------------------
(* Steps that journal. *)

LEMMA AppendTold ==
  ASSUME TypeOK, Room, TellInv, NEW e, NewEntry(e), log' = Append(log, e), catalog' = catalog,
         e.kind # "restore" => Before(e, Projection),
         e.kind = "restore" => e.id \in Receipts /\ \A n \in DOMAIN log : ~Open(n),
         \A k : k = cat' => Tells(k)',
         Owes'
  PROVE  TellInv'
<1>1. e \in Entry /\ e.state = "intent" /\ Story /\ Grounded(Projection) /\ Tells(catalog)
  BY DEF NewEntry, TellInv
<1>2. Story' /\ Grounded(Projection)'
  BY <1>1, AppendStory
<1>3. PICK c : c = catalog
  OBVIOUS
<1>4. Tells(c)'
  <2>1. Tells(c)
    BY <1>1, <1>3
  <2> QED
    BY <1>1, <2>1, AppendTells
<1>5. Tells(catalog)'
  BY <1>3, <1>4 DEF Tells
<1>6. Tells(cat)'
  BY DEF Tells
<1> QED
  BY <1>2, <1>5, <1>6 DEF TellInv

LEMMA AppendIntentTells ==
  ASSUME IInv, TellInv, Orderly, AppendIntent
  PROVE  TellInv'
<1> DEFINE p == NextFile
           i == [path |-> NextFile, sha |-> job.sum, op |-> 0]
           e == Intent("ingest", i, p, p, job.sum, job.plan[p])
           r == RowOf(e)
<1>1. /\ pc = "intent" /\ ~Idle /\ ~Locked(i) /\ Room /\ log' = Append(log, e)
      /\ cat' = With(cat, p, r) /\ Taken(p, Next1) /\ catalog' = catalog /\ TypeInv
  BY DEF AppendIntent, IInv, Idle
<1>2. /\ Left # {} /\ job.sum \in Sha /\ TypeOK /\ cat \in Catalog /\ catalog \in Catalog
  BY <1>1, TypesOf DEF JobInv
<1>3. job'.owed = job.owed \cup {Next1} /\ pc' \in {"flush", "ingest"} /\ p \in Left
  BY <1>1, <1>2, TakenFacts
<1>4. p \in Path /\ job.plan[p] \in Sizes
  BY <1>2, <1>3, JobFields
<1>5. /\ ToName /\ EntryInv /\ Story /\ Grounded(Projection) /\ Tells(catalog) /\ Tells(cat) /\ Owes
  BY <1>1 DEF IInv, TellInv
<1>6. cat[p] = catalog[p] /\ RecordOf(p) = {} /\ ~Has(catalog, p)
  BY <1>1, <1>3, <1>5 DEF ToName
<1>7. i \in Id /\ i.path = p /\ i.sha = job.sum /\ i.op = 0
  BY <1>2, <1>4, SizeFacts DEF Id
<1>8. now \in Time /\ "ingest" \in Kind
  BY <1>2 DEF TypeOK, Kind
<1> HIDE DEF i
<1>9. /\ e \in Entry /\ e.kind = "ingest" /\ e.id = i /\ e.path = p /\ e.to = p
      /\ e.sha = job.sum /\ e.at = now /\ e.state = "intent"
  BY <1>2, <1>4, <1>7, <1>8, IntentTyped
<1> HIDE DEF e
<1>10. r \in Row
  BY <1>9, RowOfTyped
<1>11. \A q \in Path : cat'[q] = IF q = p THEN r ELSE cat[q]
  <2> HIDE DEF p, r
  <2> QED
    BY <1>1, <1>2, <1>4, <1>10, WithTyped
<1>12. \A n \in DOMAIN log : Open(n) => p \notin Touch(log[n])
  <2>1. ASSUME NEW n \in DOMAIN log, Open(n) PROVE p \notin Touch(log[n])
    <3>1. ByName(n)
      BY <1>3, <1>5, <2>1 DEF ToName
    <3>2. log[n].path = log[n].to
      BY <1>5, <3>1 DEF EntryInv, ByName
    <3> QED
      BY <1>6, <3>1, <3>2 DEF RecordOf, Touch
  <2> QED
    BY <2>1
<1>13. NewEntry(e)
  <2>1. \A n \in DOMAIN log : Open(n) => Touch(log[n]) \cap Touch(e) = {}
    BY <1>9, <1>12 DEF Touch
  <2> QED
    BY <1>1, <1>6, <1>7, <1>9, <2>1 DEF NewEntry
(* The replay has no row at the path, as the catalog has none. *)
<1>14. Before(e, Projection)
  <2>1. ~UnderWay(p)
    BY <1>12 DEF UnderWay, Open
  <2>2. ~Has(Projection, p)
    BY <1>4, <1>5, <1>6, <2>1 DEF Tells, SameFile, Renewed, Has
  <2>3. ASSUME NEW q \in Tracked(Projection) PROVE Projection[q].id # i
    <3>1. Born(Projection[q].id)
      BY <1>5 DEF Grounded
    <3>2. i.op # None
      BY <1>7, IngestAssumption
    <3>3. ASSUME NEW n \in DOMAIN log, log[n].kind = "ingest", log[n].id = i PROVE FALSE
      <4>1. n \in RecordOf(p)
        BY <1>5, <1>7, <3>3 DEF EntryInv, RecordOf, ByName
      <4> QED
        BY <1>6, <4>1
    <3> QED
      BY <3>1, <3>2, <3>3 DEF Born
  <2> QED
    BY <1>9, <2>2, <2>3 DEF Before, Tracked
<1>15. \A k : k = cat' => Tells(k)'
  <2>1. \A q \in Path : cat'[q] = cat[q] \/ q \in Touch(e)
    BY <1>9, <1>11 DEF Touch
  <2>2. ASSUME NEW k, k = cat' PROVE Tells(k)'
    <3>1. PICK c : c = cat
      OBVIOUS
    <3>2. Tells(c) /\ \A q \in Path : k[q] = c[q] \/ (e.kind # "restore" /\ q \in Touch(e))
      BY <1>5, <1>9, <2>1, <2>2, <3>1
    <3> QED
      BY <1>1, <1>2, <1>9, <3>2, AppendTells
  <2> QED
    BY <2>2
<1>16. Owes'
  <2> DEFINE o == {Next1}
  <2>1. /\ \A n \in DOMAIN log : n \in DOMAIN log' /\ log'[n] = log[n]
        /\ Next1 \in DOMAIN log' /\ log'[Next1] = e
    BY <1>1, <1>2, <1>9, AppendTyped
  <2>2. Effected(e, cat')
    BY <1>4, <1>9, <1>11 DEF Effected
  <2>3. job'.owed = job.owed \cup o /\ o \subseteq DOMAIN log'
        /\ \A m \in o : log'[m].kind # "restore" /\ Effected(log'[m], cat')
    BY <1>3, <1>9, <2>1, <2>2
  <2>4. ASSUME NEW m \in job.owed, Open(m), NEW q \in Touch(log[m]) PROVE cat'[q] = cat[q]
    <3>1. p \notin Touch(log[m])
      BY <1>12, <2>4 DEF Open
    <3>2. q \in Path
      BY <1>2, <2>4, LogFacts, EntryFields DEF Open, Touch
    <3> QED
      BY <1>11, <2>4, <3>1, <3>2
  <2> HIDE DEF o, p, r
  <2> QED
    BY <1>1, <1>3, <1>5, <2>1, <2>3, <2>4, OwedStays
<1> QED
  BY <1>1, <1>2, <1>9, <1>13, <1>14, <1>15, <1>16, AppendTold

-----------------------------------------------------------------------------
(* Marks, and what is completed or given back. *)

LEMMA MarkDoneTells ==
  ASSUME IInv, TellInv, Orderly, MarkDone
  PROVE  TellInv'
<1> DEFINE n == FirstOwed
           o == job.owed \ {n}
<1>1. /\ pc = "mark" /\ pc' = "mark" /\ ~Idle /\ ~Idle' /\ job.owed # {}
      /\ log' = [log EXCEPT ![n].state = "done"] /\ job' = [job EXCEPT !.owed = o]
      /\ catalog' = catalog /\ cat' = cat /\ TypeOK
  BY TypesOf DEF MarkDone, Goto, IInv, Idle
<1>2. /\ Rows(catalog) /\ EntryInv /\ OpenInv /\ Story /\ Grounded(Projection)
      /\ Tells(catalog) /\ Tells(cat) /\ Owes /\ catalog = cat /\ catalog \in Catalog
  BY <1>1, TypesOf DEF IInv, TellInv, Owes
<1>3. n \in job.owed /\ n \in DOMAIN log /\ log[n] \in Entry
  BY <1>1, <1>2, FirstIsOwed, LogFacts DEF Owes
<1> HIDE DEF n
<1>4. job'.owed = o
  BY <1>1 DEF TypeOK, Job
<1>5. PICK k : k = catalog
  OBVIOUS
<1>6. Story' /\ Grounded(Projection)' /\ Tells(k)'
  <2>1. CASE ~Pending(n)
    <3>1. log[n].state = "done"
      BY <1>3, <2>1, EntryFields DEF Pending
    <3>2. log' = log
      BY <1>1, <1>3, <3>1 DEF TypeOK, Entry
    <3> QED
      BY <1>2, <1>5, <3>2, SameLogStory, SameLogTells
  <2>2. CASE Open(n)
    <3>1. Fit(log[n], k) /\ Effected(log[n], k)
      BY <1>2, <1>3, <1>5, <2>2 DEF Rows, Owes, Open
    <3>2. Story' /\ Grounded(Projection)'
      BY <1>1, <1>2, <1>3, <2>2, DoneStory
    <3>3. Tells(k)'
      BY <1>1, <1>2, <1>3, <1>5, <2>2, <3>1, DoneTells
    <3> QED
      BY <3>2, <3>3
  <2>3. CASE Pending(n) /\ log[n].kind = "restore"
    <3>1. /\ Effected(log[n], k) /\ n = Len(log) /\ \A m \in DOMAIN log : ~Open(m)
          /\ ~HasId(Projection, log[n].id)
      BY <1>2, <1>3, <1>5, <2>3 DEF Owes
    <3>2. \A p, q \in Tracked(k) : k[p].id = k[q].id => p = q
      BY <1>2, <1>5 DEF Rows
    <3> QED
      BY <1>1, <1>2, <1>3, <1>5, <2>3, <3>1, <3>2, RestoreMarked
  <2> QED
    BY <1>3, <2>1, <2>2, <2>3 DEF Open
<1>7. Tells(catalog)' /\ Tells(cat)'
  BY <1>1, <1>2, <1>5, <1>6 DEF Tells
<1>8. Owes'
  <2>1. /\ DOMAIN log' = DOMAIN log /\ Len(log') = Len(log)
        /\ \A m \in DOMAIN log : /\ m # n => log'[m] = log[m]
                                 /\ Pending(m)' <=> Pending(m) /\ m # n
                                 /\ Open(m)' <=> Open(m) /\ m # n
    <3>1. Len(log') = Len(log)
      BY <1>1
    <3> QED
      BY <1>1, <1>3, <3>1, MarkFacts
  <2>2. ASSUME NEW m \in o
        PROVE  /\ m \in DOMAIN log /\ log'[m] = log[m]
               /\ Pending(m)' => Effected(log[m], cat)
               /\ log[m].kind = "restore" => m = Len(log) /\ \A l \in DOMAIN log : ~Open(l)
    BY <1>2, <2>1, <2>2 DEF Owes
  (* Of a restore that is still owed, what is marked was marked before. *)
  <2>4. ASSUME NEW m \in o, log[m].kind = "restore", Pending(m)
        PROVE  ~HasId(Projection, log[m].id)'
    <3>1. m \in job.owed /\ m # n /\ m = Len(log) /\ ~Open(n) /\ ~HasId(Projection, log[m].id)
      BY <1>2, <1>3, <2>4 DEF Owes
    <3>2. ~Pending(n)
      BY <1>2, <1>3, <3>1 DEF Owes, Open
    <3>3. log' = log
      BY <1>1, <1>3, <3>2, EntryFields DEF TypeOK, Entry, Pending
    <3>4. Projection' = Projection
      BY <3>3 DEF Projection
    <3> QED
      BY <3>1, <3>3, <3>4 DEF HasId
  <2>3. \A m \in o : Pending(m)' => Effected(log[m], cat)'
    BY <1>1, <2>2 DEF Effected, Has, RowOf
  <2> QED
    BY <1>1, <1>2, <1>4, <2>1, <2>2, <2>3, <2>4 DEF Owes
<1> QED
  BY <1>6, <1>7, <1>8 DEF TellInv

LEMMA RestoreTells ==
  ASSUME IInv, TellInv, Orderly, GivenOnce, NEW p \in Path, NEW i \in Receipts, Restore(p, i)
  PROVE  TellInv'
<1> DEFINE c == catalog[p]
           e == Intent("restore", i, p, p, c.sha, c.size)
           r == Identified(c, i)
<1>1. /\ MayStart("restore") /\ Has(catalog, p) /\ ~HasId(catalog, i) /\ ~Locked(i) /\ Room
      /\ log' = Append(log, e) /\ cat' = With(catalog, p, r) /\ pc' = "flush"
      /\ job' = Owing("restore", Next1) /\ catalog' = catalog
  BY DEF Restore, Goto
<1>2. TypeOK /\ catalog \in Catalog /\ now \in Time /\ Story /\ Tells(catalog)
  BY TypesOf DEF IInv, TypeInv, TypeOK, TellInv
<1>3. c \in Row /\ c.sha \in Sha /\ c.size \in Sizes /\ i \in Id
  BY <1>1, <1>2, HasRow, IngestAssumption
<1> HIDE DEF c
<1>4. /\ e \in Entry /\ e.kind = "restore" /\ e.id = i /\ e.path = p /\ e.to = p
      /\ e.at = now /\ e.state = "intent"
  <2>1. "restore" \in Kind
    BY DEF Kind
  <2> QED
    BY <1>2, <1>3, <2>1, IntentTyped
<1> HIDE DEF e
<1>5. r \in Row /\ r.id = i /\ r.sha = c.sha /\ r # None
  BY <1>3, NamedTyped, SizeFacts
<1> HIDE DEF r
<1>6. \A q \in Path : cat'[q] = IF q = p THEN r ELSE catalog[q]
  BY <1>1, <1>2, <1>5, WithTyped
<1>7. \A n \in DOMAIN log : ~Open(n)
  BY <1>1, Orders
<1>8. NewEntry(e)
  BY <1>1, <1>4, <1>7 DEF NewEntry
<1>9. /\ \A n \in DOMAIN log : /\ n \in DOMAIN log' /\ log'[n] = log[n]
                               /\ Pending(n)' <=> Pending(n)
                               /\ Open(n)' <=> Open(n)
      /\ \A n \in DOMAIN log' : n \in DOMAIN log \/ n = Next1
      /\ \A n : n = Next1 => n \in DOMAIN log' /\ log'[n] = e /\ Pending(n)' /\ ~Open(n)'
  BY <1>1, <1>2, <1>4, AppendOpen
<1>10. Projection' = Projection
  BY <1>1, <1>2, <1>4, AppendPast
<1>11. \A q \in Path : SameFile(catalog[q], Projection[q]) \/ Renewed(catalog[q], Projection[q])
  BY <1>2, <1>7 DEF Tells, UnderWay
<1>12. ASSUME NEW k, k = cat' PROVE Tells(k)'
  <2>1. ASSUME NEW q \in Path
        PROVE  SameFile(k[q], Projection[q]) \/ Renewed(k[q], Projection[q])'
    <3>1. CASE q # p
      <4>1. Renewed(k[q], Projection[q]) => Renewed(k[q], Projection[q])'
        BY <1>9, <1>10 DEF Renewed
      <4> QED
        BY <1>6, <1>11, <1>12, <3>1, <4>1
    <3>2. CASE q = p
      <4>1. Projection[p] # None /\ Projection[p].sha = c.sha
        BY <1>1, <1>11 DEF SameFile, Renewed, Has, c
      <4>2. PICK x : x = k[q]
        OBVIOUS
      <4>3. x # None /\ x.sha = c.sha /\ x.id = i
        BY <1>5, <1>6, <1>12, <3>2, <4>2
      <4>4. \E n \in DOMAIN log' : Pending(n)' /\ log'[n].kind = "restore" /\ log'[n].id = i
        BY <1>4, <1>9
      <4>5. x.sha = Projection'[q].sha /\ Projection'[q] # None
        BY <1>10, <3>2, <4>1, <4>3
      <4>6. Renewed(x, Projection[q])'
        BY <4>3, <4>4, <4>5 DEF Renewed
      <4> QED
        BY <4>2, <4>6
    <3> QED
      BY <3>1, <3>2
  <2> QED
    BY <1>10, <2>1 DEF Tells
<1>13. Owes'
  <2>1. /\ Next1 \in 1 .. MaxOps /\ "restore" \in Command /\ Next1 = Len(log')
        /\ Next1 \in DOMAIN log' /\ log'[Next1] = e
    BY <1>1, <1>2, <1>4, AppendTyped DEF Command
  <2>2. job'.owed = {Next1}
    BY <1>1, <2>1, OwingTyped
  <2>3. Effected(e, cat')
    BY <1>4, <1>5, <1>6 DEF Effected, Has
  <2>4. \A m \in DOMAIN log' : ~Open(m)'
    BY <1>7, <1>9
  <2>5. \A m \in job'.owed : m = Len(log') /\ m \in DOMAIN log' /\ Effected(log'[m], cat')
    BY <2>1, <2>2, <2>3
  <2>6. \A m \in job'.owed : Effected(log[m], cat)'
    BY <2>5 DEF Effected, Has, RowOf
  <2>7. \A m \in job'.owed : ~HasId(Projection, log[m].id)'
    <3>1. ~HasId(Projection, i)
      BY <1>1, <1>2, <1>4, <2>1, AppendTyped DEF GivenOnce
    <3> QED
      BY <1>4, <1>10, <2>1, <2>2, <3>1 DEF HasId
  <2> QED
    BY <1>1, <2>4, <2>5, <2>6, <2>7 DEF Owes
<1>14. e.id \in Receipts
  BY <1>4
<1> QED
  BY <1>1, <1>2, <1>4, <1>7, <1>8, <1>12, <1>13, <1>14, AppendTold

(* What is made again is made of its own rows. *)
LEMMA MadeAgain ==
  ASSUME NEW k \in Catalog, NEW e \in Entry, Fit(e, k), NEW t \in Time, e.kind # "restore",
         e.kind = "move" <=> e.path # e.to, e.kind = "scan" => Has(k, e.path),
         \A p, q \in Tracked(k) : k[p].id = k[q].id => p = q,
         NEW l, l = Replayed(k, e, t)
  PROVE  /\ \A p \in Path : p \notin Touch(e) => l[p] = k[p]
         /\ Effected(e, l)
<1>1. /\ e.kind \in Kind /\ e.path \in Path /\ e.to \in Path /\ e.sha \in Sha
  BY EntryFields
<1>2. CASE e.kind = "ingest"
  BY <1>1, <1>2, RowOfTyped, WithTyped DEF Replayed, Effected, Touch
<1>3. CASE e.kind = "delete"
  BY <1>1, <1>3, WithoutTyped DEF Replayed, Effected, Touch, Has
<1>4. CASE e.kind = "scan"
  <2> DEFINE r == WithSha(k[e.path], e.sha, t)
  <2>1. Has(k, e.path)
    BY <1>4
  <2>2. r \in Row /\ r.sha = e.sha
    BY <1>1, <2>1, HasRow, StampTyped
  <2>3. l = With(k, e.path, r)
    BY <1>4, <2>1 DEF Replayed
  <2> HIDE DEF r
  <2> QED
    BY <1>1, <1>4, <2>2, <2>3, WithTyped DEF Effected, Touch
<1>5. CASE e.kind = "move"
  <2> DEFINE found == {p \in Tracked(k) : k[p].id = e.id}
             spot == IF found # {} THEN CHOOSE p \in found : TRUE ELSE e.path
             r == WithSha(k[spot], k[spot].sha, t)
  <2>1. PICK x \in {e.path, e.to} : Has(k, x) /\ k[x].id = e.id
    BY <1>5 DEF Fit, Touch
  <2>2. x \in found /\ x \in Path
    BY <1>1, <2>1 DEF Tracked
  <2>3. \A y \in found : y = x
    BY <2>2
  <2>4. spot = x
    BY <2>2, <2>3
  <2>5. l = IF Has(k, spot) /\ spot # e.to THEN Renamed(k, spot, e.to, r) ELSE k
    BY <1>5 DEF Replayed, Moved
  <2> HIDE DEF spot, found
  <2>6. CASE x = e.to
    BY <1>5, <2>1, <2>4, <2>5, <2>6 DEF Effected
  <2>7. CASE x = e.path /\ x # e.to
    <3>1. l = Renamed(k, e.path, e.to, r)
      BY <2>1, <2>4, <2>5, <2>7
    <3>2. r \in Row /\ r # None
      BY <1>1, <2>1, <2>2, <2>4, HasRow, StampTyped, SizeFacts
    <3> HIDE DEF r
    <3>3. \A p \in Path : l[p] = IF p = e.to THEN r ELSE IF p = e.path THEN None ELSE k[p]
      BY <1>1, <3>1, <3>2, RenamedTyped
    <3> QED
      BY <1>1, <1>5, <3>2, <3>3 DEF Effected, Touch, Has
  <2> QED
    BY <2>1, <2>6, <2>7
<1> QED
  BY <1>1, <1>2, <1>3, <1>4, <1>5 DEF Kind

LEMMA RetryTells ==
  ASSUME IInv, TellInv, NEW n \in DOMAIN log, Retry(n)
  PROVE  TellInv'
<1>0. PICK e \in Entry : e = log[n]
  BY TypesOf, LogFacts DEF IInv
<1>1. /\ Open(n) /\ cat' = Replayed(catalog, e, now) /\ pc' = "flush" /\ job' = Owing("retry", n)
      /\ log' = log /\ catalog' = catalog /\ e.kind # "restore"
      /\ e.kind = "scan" => Has(catalog, e.path)
  BY <1>0 DEF Retry, Goto, Open, vault
<1>2. /\ TypeOK /\ catalog \in Catalog /\ now \in Time /\ Rows(catalog) /\ EntryInv /\ Tells(catalog)
      /\ n \in 1 .. MaxOps /\ "retry" \in Command
  BY TypesOf, LogFacts, SizeFacts DEF IInv, TypeInv, TypeOK, TellInv, Command
<1>3. PICK k : k = cat'
  OBVIOUS
<1>4. (\A p \in Path : p \notin Touch(e) => k[p] = catalog[p]) /\ Effected(e, k)
  <2>1. /\ Fit(e, catalog) /\ (e.kind = "move" <=> e.path # e.to)
        /\ \A p, q \in Tracked(catalog) : catalog[p].id = catalog[q].id => p = q
    BY <1>0, <1>1, <1>2 DEF Rows, EntryInv
  <2>2. k = Replayed(catalog, e, now)
    BY <1>1, <1>3
  <2> QED
    BY <1>1, <1>2, <2>1, <2>2, MadeAgain
<1>5. Tells(k)
  <2>1. \A p \in Touch(e) : UnderWay(p)
    BY <1>0, <1>1 DEF UnderWay
  <2>2. \A p \in Path : k[p] = catalog[p] \/ UnderWay(p)
    BY <1>4, <2>1
  <2> QED
    BY <1>2, <2>2, TellsAlike
<1>6. Owes'
  <2>1. job'.owed = {n}
    BY <1>1, <1>2, OwingTyped
  <2>2. Effected(log[n], cat)'
    BY <1>0, <1>1, <1>3, <1>4 DEF Effected, Has, RowOf
  <2> QED
    BY <1>0, <1>1, <2>1, <2>2 DEF Owes
<1> QED
  BY <1>1, <1>2, <1>3, <1>5, <1>6, SameLogTold

-----------------------------------------------------------------------------
(* What a scan applies. *)

LEMMA AppliedOwed ==
  ASSUME TypeInv, NEW o, Applied(o)
  PROVE  job'.owed = job.owed \cup o /\ pc' \in {"flush", "apply"}
<1> DEFINE T == job.changes \ {NextChange}
           w == job.owed \cup o
           j == [job EXCEPT !.changes = T, !.owed = w]
<1>1. Applying(j)
  BY DEF Applied
<1> HIDE DEF T, w
<1>2. j.owed = w
  BY DEF TypeInv, TypeOK, Job
<1> HIDE DEF j
<1> QED
  BY <1>1, <1>2 DEF Applying, Goto, w

(* What is owed is of other files than the change at hand. *)
LEMMA OwedApart ==
  ASSUME IInv, Orderly, pc = "apply", NEW ch, ch = NextChange, NEW n, Open(n),
         \A p \in Path : p \notin {ch.old, ch.path} => cat'[p] = cat[p]
  PROVE  \A p \in Touch(log[n]) : cat'[p] = cat[p]
<1>1. n \in DOMAIN log /\ Touch(log[n]) \cap {ch.old, ch.path} = {}
  BY ChangeIs DEF Open
<1>2. Touch(log[n]) \subseteq Path
  BY <1>1, TypesOf, LogFacts, EntryFields DEF IInv, Touch
<1> QED
  BY <1>1, <1>2

LEMMA SkipChangeTells ==
  ASSUME IInv, TellInv, SkipChange
  PROVE  TellInv'
<1>1. /\ pc = "apply" /\ ~Idle /\ Applied({}) /\ log' = log /\ catalog' = catalog /\ cat' = cat
      /\ TypeInv
  BY DEF SkipChange, vault, Idle, IInv
<1>2. Tells(catalog) /\ Tells(cat) /\ Owes
  BY <1>1 DEF TellInv
<1>3. job'.owed = job.owed /\ pc' # "mark"
  BY <1>1, AppliedOwed
<1>4. Owes'
  BY <1>1, <1>2, <1>3, SameOwed
<1> QED
  BY <1>1, <1>2, <1>4, SameLogTold

LEMMA StampVerifiedTells ==
  ASSUME IInv, TellInv, Orderly, StampVerified
  PROVE  TellInv'
<1>0. PICK ch : ch = NextChange
  OBVIOUS
<1> DEFINE p == ch.path
           c == cat[p]
           r == WithSha(c, c.sha, now)
<1>1. /\ pc = "apply" /\ ~Idle /\ Applied({}) /\ log' = log /\ catalog' = catalog
      /\ ch.kind = "verified" /\ cat' = With(cat, p, r) /\ TypeInv
  BY <1>0 DEF StampVerified, vault, Idle, IInv
<1>2. /\ Tells(catalog) /\ Tells(cat) /\ Owes /\ cat \in Catalog /\ now \in Time
  BY <1>1, TypesOf DEF TellInv, TypeInv, TypeOK
<1>3. p \in Path /\ ch.old = p /\ c = catalog[p] /\ Has(catalog, p)
  BY <1>0, <1>1, ChangeIs
<1>4. c \in Row /\ c.sha \in Sha
  BY <1>2, <1>3, HasRow DEF Has
<1> HIDE DEF c
<1>5. r \in Row /\ r.id = c.id /\ r.sha = c.sha
  BY <1>2, <1>4, StampTyped
<1> HIDE DEF r, p
<1>6. \A q \in Path : cat'[q] = IF q = p THEN r ELSE cat[q]
  BY <1>1, <1>2, <1>3, <1>5, WithTyped
<1>7. PICK k : k = cat'
  OBVIOUS
<1>8. Tells(k)
  <2>1. \A q \in Path : \/ k[q] = cat[q] \/ UnderWay(q)
                        \/ cat[q] # None /\ k[q] # None /\ k[q].id = cat[q].id /\ k[q].sha = cat[q].sha
    BY <1>4, <1>5, <1>6, <1>7, SizeFacts DEF c
  <2> QED
    BY <1>2, <2>1, TellsAlike
<1>9. Owes'
  <2>1. job'.owed = job.owed \cup {} /\ pc' # "mark"
    BY <1>1, AppliedOwed
  <2>2. \A q \in Path : q \notin {ch.old, ch.path} => cat'[q] = cat[q]
    BY <1>3, <1>6 DEF p
  <2>3. \A n \in job.owed : Open(n) => \A q \in Touch(log[n]) : cat'[q] = cat[q]
    BY <1>0, <1>1, <2>2, OwedApart
  <2> DEFINE o == {}
  <2>4. /\ job'.owed = job.owed \cup o /\ o \subseteq DOMAIN log'
        /\ \A m \in o : log'[m].kind # "restore" /\ Effected(log'[m], cat')
    BY <2>1
  <2> HIDE DEF o
  <2> QED
    BY <1>1, <1>2, <2>1, <2>3, <2>4, OwedStays
<1> QED
  BY <1>1, <1>2, <1>7, <1>8, <1>9, SameLogTold

(* The replay has the row that is changed, as the catalog has. *)
LEMMA ChangeBefore ==
  ASSUME IInv, TellInv, Orderly, TypeInv', ApplyChange,
         NEW ch, ch = NextChange, NEW e, e = ScanEntry(ch)
  PROVE  NewEntry(e) /\ Before(e, Projection)
<1>1. /\ pc = "apply" /\ Room /\ TypeOK /\ e \in Entry /\ e.kind = OpKind[ch.kind]
      /\ e.path = ch.old /\ e.to = ch.path /\ e.id = IdOf(ch) /\ e.sha = ch.sha /\ ~Locked(e.id)
      /\ ch.kind \in {"added", "edited", "moved", "deleted"} /\ EntryInv
      /\ Next1 \in 1 .. MaxOps
  BY ApplyFacts
<1>2. Grounded(Projection) /\ Tells(catalog)
  BY DEF TellInv
<1>3. /\ \A n \in DOMAIN log : Open(n) => Touch(log[n]) \cap {ch.old, ch.path} = {}
      /\ ch.old \in Path /\ ch.path \in Path
      /\ ch.kind \in {"added", "moved"} => ~Has(catalog, ch.path)
      /\ ch.kind = "added" => ch.old = ch.path
      /\ ch.kind = "moved" => ch.sha = catalog[ch.old].sha
  BY <1>1, ChangeIs
<1>4. \A p \in {ch.old, ch.path} : SameFile(catalog[p], Projection[p]) \/ Renewed(catalog[p], Projection[p])
  <2>1. \A p \in {ch.old, ch.path} : ~UnderWay(p)
    BY <1>3 DEF UnderWay, Open
  <2> QED
    BY <1>2, <1>3, <2>1 DEF Tells
<1>5. ch.kind \in {"added", "moved"} => ~Has(Projection, ch.path)
  BY <1>3, <1>4 DEF SameFile, Renewed, Has
<1>6. CASE ch.kind = "added"
  <2>1. e.kind = "ingest" /\ NewEntry(e)
    BY <1>1, <1>6, ApplyAdded, OpKinds
  <2>2. e.id.op = Next1 /\ Next1 # 0 /\ Next1 # None
    BY <1>1, <1>6, IngestAssumption DEF IdOf
  <2>3. ~Born(e.id)
    <3>1. ASSUME NEW n \in DOMAIN log, log[n].kind = "ingest", log[n].id = e.id PROVE FALSE
      <4>1. e.id.op \in {0, n} /\ Next1 \notin DOMAIN log
        BY <1>1, <3>1, AppendTyped, LogFacts DEF EntryInv, Next1
      <4> QED
        BY <2>2, <3>1, <4>1
    <3> QED
      BY <2>2, <3>1 DEF Born
  <2>4. \A p \in Tracked(Projection) : Projection[p].id # e.id
    BY <1>2, <2>3 DEF Grounded
  <2> QED
    BY <1>1, <1>3, <1>5, <1>6, <2>1, <2>4 DEF Before, Tracked
<1>7. CASE ch.kind # "added"
  <2>1. NewEntry(e) /\ Has(catalog, ch.old) /\ e.id = catalog[ch.old].id
    BY <1>7, OldRow
  <2>2. ~Renewed(catalog[ch.old], Projection[ch.old])
    BY <1>1, <2>1 DEF Renewed, Locked
  <2>3. SameFile(catalog[ch.old], Projection[ch.old])
    BY <1>4, <2>2
  <2>4. /\ Has(Projection, ch.old) /\ Projection[ch.old].id = e.id
        /\ Projection[ch.old].sha = catalog[ch.old].sha
    BY <2>1, <2>3 DEF SameFile, Has
  <2>5. \A p \in Tracked(Projection) : Projection[p].id = e.id <=> p = ch.old
    BY <1>2, <1>3, <2>4 DEF Grounded, Tracked
  <2>6. e.kind # "ingest" /\ (e.kind = "move" => ch.kind = "moved")
    BY <1>1, <1>7, OpKinds
  <2> QED
    BY <1>1, <1>3, <1>5, <2>1, <2>4, <2>5, <2>6 DEF Before
<1> QED
  BY <1>6, <1>7

LEMMA ChangeEffected ==
  ASSUME IInv, Orderly, TypeInv', ApplyChange, NEW ch, ch = NextChange, NEW e, e = ScanEntry(ch)
  PROVE  Effected(e, cat')
<1>1. /\ pc = "apply" /\ cat' = Mutated(ch) /\ e \in Entry /\ e.kind = OpKind[ch.kind]
      /\ e.path = ch.old /\ e.to = ch.path /\ e.sha = ch.sha
      /\ ch.kind \in {"added", "edited", "moved", "deleted"}
      /\ cat \in Catalog /\ now \in Time
  BY ApplyFacts
<1>2. /\ ch.old \in Path /\ ch.path \in Path /\ ch.sha \in Sha /\ ch.size \in Sizes
      /\ ch.kind # "moved" => ch.old = ch.path
  BY <1>1, ChangeIs
<1>3. CASE ch.kind = "added"
  <2> DEFINE r == RowOf(e)
  <2>1. cat' = With(cat, ch.path, r)
    BY <1>1, <1>3 DEF Mutated
  <2>2. r \in Row
    BY <1>1, RowOfTyped
  <2> HIDE DEF r
  <2>3. cat'[ch.path] = r
    BY <1>1, <1>2, <2>1, <2>2, WithTyped
  <2> QED
    BY <1>1, <1>2, <1>3, <2>3, OpKinds DEF Effected, r
<1>4. CASE ch.kind = "edited"
  <2> DEFINE r == Resized(cat[ch.path], ch.sha, ch.size, now)
  <2>1. cat' = With(cat, ch.path, r)
    BY <1>1, <1>4 DEF Mutated
  <2>2. cat[ch.path] \in Row
    BY <1>2, <1>4, OldRow
  <2>3. r \in Row /\ r.sha = ch.sha
    BY <1>1, <1>2, <2>2 DEF Resized, Row
  <2> HIDE DEF r
  <2>4. cat'[ch.path] = r
    BY <1>1, <1>2, <2>1, <2>3, WithTyped
  <2> QED
    BY <1>1, <1>2, <1>4, <2>3, <2>4, OpKinds DEF Effected
<1>5. CASE ch.kind = "moved"
  <2> DEFINE r == WithSha(cat[ch.old], cat[ch.old].sha, now)
  <2>1. cat' = Renamed(cat, ch.old, ch.path, r)
    BY <1>1, <1>5 DEF Mutated
  <2>2. cat[ch.old] \in Row /\ cat[ch.old].sha \in Sha
    BY <1>5, OldRow
  <2>3. r \in Row /\ r # None
    BY <1>1, <2>2, StampTyped, SizeFacts
  <2> HIDE DEF r
  <2>4. cat'[ch.path] = r
    BY <1>1, <1>2, <2>1, <2>3, RenamedTyped
  <2> QED
    BY <1>1, <1>5, <2>3, <2>4, OpKinds DEF Effected, Has
<1>6. CASE ch.kind = "deleted"
  <2>1. cat' = Without(cat, ch.path)
    BY <1>1, <1>6 DEF Mutated
  <2>2. cat'[ch.path] = None
    BY <1>1, <1>2, <2>1, WithoutTyped
  <2> QED
    BY <1>1, <1>2, <1>6, <2>2, OpKinds DEF Effected, Has
<1> QED
  BY <1>1, <1>3, <1>4, <1>5, <1>6

LEMMA ApplyChangeTells ==
  ASSUME IInv, TellInv, Orderly, TypeInv', ApplyChange
  PROVE  TellInv'
<1>0. PICK ch : ch = NextChange
  OBVIOUS
<1>1. PICK e : e = ScanEntry(ch)
  OBVIOUS
<1>2. /\ pc = "apply" /\ ~Idle /\ Room /\ log' = Append(log, e) /\ Applied({Next1})
      /\ catalog' = catalog /\ e \in Entry /\ e.path = ch.old /\ e.to = ch.path
      /\ e.state = "intent" /\ e.kind = OpKind[ch.kind]
      /\ ch.kind \in {"added", "edited", "moved", "deleted"}
      /\ TypeOK /\ TypeInv
      /\ \A p \in Path : p \notin {ch.old, ch.path} => cat'[p] = cat[p]
  BY <1>0, <1>1, ApplyFacts DEF Idle
<1>3. NewEntry(e) /\ Before(e, Projection) /\ Effected(e, cat')
  BY <1>0, <1>1, ChangeBefore, ChangeEffected
<1>4. e.kind # "restore"
  BY <1>2, OpKinds
<1>5. Tells(cat) /\ Owes
  BY <1>2 DEF TellInv
<1>6. ASSUME NEW k, k = cat' PROVE Tells(k)'
  <2>1. PICK c : c = cat
    OBVIOUS
  <2>2. Tells(c) /\ \A p \in Path : k[p] = c[p] \/ (e.kind # "restore" /\ p \in Touch(e))
    BY <1>2, <1>4, <1>5, <1>6, <2>1 DEF Touch
  <2> QED
    BY <1>2, <2>2, AppendTells
<1>7. Owes'
  <2> DEFINE o == {Next1}
  <2>1. /\ \A n \in DOMAIN log : n \in DOMAIN log' /\ log'[n] = log[n]
        /\ Next1 \in DOMAIN log' /\ log'[Next1] = e
    BY <1>2, AppendTyped
  <2>2. job'.owed = job.owed \cup o /\ pc' # "mark"
    BY <1>2, AppliedOwed
  <2>3. o \subseteq DOMAIN log' /\ \A m \in o : log'[m].kind # "restore" /\ Effected(log'[m], cat')
    BY <1>3, <1>4, <2>1
  <2>4. \A n \in job.owed : Open(n) => \A q \in Touch(log[n]) : cat'[q] = cat[q]
    BY <1>0, <1>2, OwedApart
  <2> HIDE DEF o
  <2> QED
    BY <1>2, <1>5, <2>1, <2>2, <2>3, <2>4, OwedStays
<1> QED
  BY <1>2, <1>3, <1>4, <1>6, <1>7, AppendTold

LEMMA TellInit == Init => TellInv
<1> SUFFICES ASSUME Init PROVE TellInv
  OBVIOUS
<1>1. TypeOK /\ Idle /\ log = << >> /\ catalog = Empty
  BY TypeInit DEF Init, Idle, TypeInv
<1>2. Projection = Empty /\ DOMAIN log = {} /\ Len(log) = 0
  BY <1>1, PastFacts
<1>3. Story /\ Grounded(Projection)
  BY <1>2 DEF Story, Grounded, Tracked, Has, Empty
<1>4. Tells(catalog)
  BY <1>1, <1>2 DEF Tells, SameFile
<1> QED
  BY <1>1, <1>3, <1>4 DEF TellInv

LEMMA TellStep ==
  ASSUME Orderly
  PROVE  IInv /\ TellInv /\ [Next]_vars /\ [GivenOnce]_vars => TellInv'
<1> SUFFICES ASSUME IInv, TellInv, [Next]_vars, [GivenOnce]_vars PROVE TellInv'
  OBVIOUS
<1>1. TypeInv'
  BY TypeStep DEF IInv
<1>2. CASE UNCHANGED vars
  BY <1>2, DiskTells DEF vars, vault
<1>3. CASE \/ \E S \in SUBSET Path : StartInit(S)
           \/ \E p \in Path : StartTrack(p)
           \/ \E paranoid \in BOOLEAN : StartScan(paranoid)
  BY <1>3, StartTells
<1>4. CASE TakeRecorded \/ Hash \/ AppendIntent
  BY <1>4, TakeRecordedTells, HashTells, AppendIntentTells
<1>5. CASE Flush \/ MarkDone \/ Marked \/ Die
  BY <1>5, FlushTells, MarkDoneTells, EndTells
<1>6. CASE SkipChange \/ StampVerified \/ ApplyChange
  BY <1>1, <1>6, SkipChangeTells, StampVerifiedTells, ApplyChangeTells
<1>7. CASE (\E p \in Path, i \in Receipts : Restore(p, i)) \/ (\E n \in DOMAIN log : Retry(n))
  <2>1. CASE \E n \in DOMAIN log : Retry(n)
    BY <2>1, RetryTells
  <2>2. CASE \E p \in Path, i \in Receipts : Restore(p, i)
    <3>1. PICK p \in Path, i \in Receipts : Restore(p, i)
      BY <2>2
    <3>2. pc = "idle" /\ pc' = "flush"
      BY <3>1 DEF Restore, MayStart, Idle, Goto
    <3>3. GivenOnce
      BY <3>2 DEF vars
    <3> QED
      BY <3>1, <3>3, RestoreTells
  <2> QED
    BY <1>7, <2>1, <2>2
<1>8. CASE \/ \E p \in Path, s \in Sha : Write(p, s) \/ Rot(p, s)
           \/ \E p \in Path : Remove(p)
           \/ \E p, q \in Path : Rename(p, q)
  BY <1>8, FilesTell
<1> QED
  BY <1>2, <1>3, <1>4, <1>5, <1>6, <1>7, <1>8 DEF Next

LEMMA TellsLog == TellInv => LogTellsAll
<1>1. ASSUME NEW p \in Path, UnderWay(p) PROVE InDoubt(p)
  BY <1>1 DEF UnderWay, Open, Touch, InDoubt
<1>2. ASSUME NEW p \in Path, Renewed(catalog[p], Projection[p]) PROVE InDoubt(p)
  BY <1>2 DEF Renewed, InDoubt, Has
<1> QED
  BY <1>1, <1>2 DEF TellInv, Tells, LogTellsAll

(* The catalog is what the log says, at every moment: whatever command died *)
(* where, and in whatever order what was cut short was completed, a row     *)
(* that no pending operation names is the one that replaying the operations *)
(* that are done gives, in the order in which they were journaled.  That is *)
(* as long as restore-identity gives no id back that the replay still has.  *)
THEOREM GivenTells ==
  ASSUME Orderly
  PROVE  Spec /\ [][GivenOnce]_vars => []LogTellsAll
<1>1. IInv /\ TellInv /\ [Next]_vars /\ [GivenOnce]_vars => TellInv'
  BY TellStep
<1> QED
  BY <1>1, TellsLog, TellInit, IngestAlways, PTL DEF Spec

(* A row that shows an id which is not its own in the replay shows one of  *)
(* the records that are held, so the one of them is not given twice.       *)
LEMMA OneIsGivenOnce ==
  ASSUME Orderly, OneReceipt
  PROVE  IInv /\ TellInv /\ [Next]_vars => [GivenOnce]_vars
<1> SUFFICES ASSUME IInv, TellInv, [Next]_vars,
                    NEW n \in DOMAIN log', n \notin DOMAIN log, log'[n].kind = "restore"
             PROVE  ~HasId(Projection, log'[n].id)
  BY DEF GivenOnce
<1>1. CASE \E p \in Path, i \in Receipts : Restore(p, i)
  <2>1. PICK p \in Path, i \in Receipts : Restore(p, i)
    BY <1>1
  <2> DEFINE e == Intent("restore", i, p, p, catalog[p].sha, catalog[p].size)
  <2>2. ~HasId(catalog, i) /\ log' = Append(log, e) /\ \A m \in DOMAIN log : ~Open(m)
    BY <2>1, Orders DEF Restore
  <2>3. log \in Seq(Entry) /\ e.id = i
    BY TypesOf DEF IInv, TypeInv, TypeOK, Intent
  <2>4. log'[n].id = i
    BY <2>2, <2>3
  <2>5. Story /\ \A q \in Path : \/ SameFile(catalog[q], Projection[q])
                                  \/ Renewed(catalog[q], Projection[q])
    BY <2>2 DEF TellInv, Tells, UnderWay
  <2>6. ASSUME NEW q \in Tracked(Projection), Projection[q].id = i PROVE HasId(catalog, i)
    <3>1. CASE SameFile(catalog[q], Projection[q])
      BY <2>6, <3>1 DEF SameFile, HasId, Tracked, Has
    <3>2. CASE Renewed(catalog[q], Projection[q])
      <4>1. catalog[q] # None /\ catalog[q].id = i
        BY <2>5, <3>2 DEF Renewed, Story, OneReceipt
      <4> QED
        BY <2>6, <4>1 DEF HasId, Tracked, Has
    <3> QED
      BY <2>5, <2>6, <3>1, <3>2 DEF Tracked
  <2> QED
    BY <2>2, <2>4, <2>6 DEF HasId
<1>2. CASE AppendIntent
  <2> DEFINE e == Intent("ingest", [path |-> NextFile, sha |-> job.sum, op |-> 0],
                         NextFile, NextFile, job.sum, job.plan[NextFile])
  <2>1. log' = Append(log, e) /\ e.kind = "ingest" /\ log \in Seq(Entry)
    BY <1>2, TypesOf DEF AppendIntent, Intent, IInv, TypeInv, TypeOK
  <2> HIDE DEF e
  <2> QED
    BY <2>1
<1>3. CASE ApplyChange
  <2> DEFINE e == ScanEntry(NextChange)
  <2>1. NextChange.kind \in {"added", "edited", "moved", "deleted"}
    BY <1>3 DEF ApplyChange, OpKind
  <2>2. e.kind = OpKind[NextChange.kind]
    BY DEF ScanEntry, Intent
  <2>3. log' = Append(log, e) /\ e.kind # "restore"
    BY <1>3, <2>1, <2>2, OpKinds DEF ApplyChange
  <2>4. log \in Seq(Entry)
    BY TypesOf DEF IInv, TypeInv, TypeOK
  <2> HIDE DEF e
  <2> QED
    BY <2>3, <2>4
<1>4. CASE MarkDone
  BY <1>4 DEF MarkDone
<1>5. CASE log' = log
  BY <1>5
<1>6. CASE \/ \E S \in SUBSET Path : StartInit(S)
           \/ \E p \in Path : StartTrack(p)
           \/ \E paranoid \in BOOLEAN : StartScan(paranoid)
           \/ TakeRecorded \/ Hash \/ Flush \/ Marked \/ Die \/ SkipChange \/ StampVerified
           \/ \E m \in DOMAIN log : Retry(m)
           \/ \E p \in Path, s \in Sha : Write(p, s) \/ Rot(p, s)
           \/ \E p \in Path : Remove(p)
           \/ \E p, q \in Path : Rename(p, q)
  <2>1. log' = log
    BY <1>6 DEF StartInit, StartTrack, StartScan, TakeRecorded, Hash, Flush, Marked, Die, SkipChange,
                StampVerified, Retry, Write, Rot, Remove, Rename, NewFile, vault
  <2> QED
    BY <1>5, <2>1
<1> QED
  BY <1>1, <1>2, <1>3, <1>4, <1>5, <1>6 DEF Next, vars, vault

(* With one lost record held that is so of every run. *)
THEOREM LogTells ==
  ASSUME Orderly, OneReceipt
  PROVE  Spec => []LogTellsAll
<1>1. IInv /\ TellInv /\ [Next]_vars => [GivenOnce]_vars
  BY OneIsGivenOnce
<1>2. IInv /\ TellInv /\ [Next]_vars /\ [GivenOnce]_vars => TellInv'
  BY TellStep
<1> QED
  BY <1>1, <1>2, TellsLog, TellInit, IngestAlways, PTL DEF Spec
=============================================================================
