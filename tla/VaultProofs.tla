----------------------------- MODULE VaultProofs -----------------------------
(***************************************************************************)
(* Proofs about one node of a vault (VaultNode.tla), for any number of     *)
(* clients, paths, contents and operations: what the replay of log entries *)
(* makes of a catalog, and the types, however commands overlap.  How the   *)
(* catalog, the blobs and the log agree is in VaultSerialProofs.           *)
(*                                                                         *)
(* Projection is a recursive function on the length of the log; what is    *)
(* proved of it goes by History, the catalogs it goes through, which is    *)
(* the one function that obeys its equations (HistoryUnique).              *)
(***************************************************************************)
EXTENDS VaultNode, SequenceTheorems, WellFoundedInduction, TLAPS

-----------------------------------------------------------------------------
(* Induction on the natural numbers, for a set instead of a predicate. *)

LEMMA Least ==
  ASSUME NEW T, T \subseteq Nat, T # {}
  PROVE  \E x \in T : \A y \in T : x <= y
<1>1. IsWellFoundedOn({r \in Nat \X Nat : r[1] < r[2]}, Nat)
  BY NatLessThanWellFounded DEF OpToRel
<1>2. PICK x \in T : \A y \in T : ~ (<<y, x>> \in {r \in Nat \X Nat : r[1] < r[2]})
  BY <1>1, WFMin, Zenon
<1>3. ASSUME NEW y \in T PROVE x <= y
  <2>1. x \in Nat /\ y \in Nat
    OBVIOUS
  <2>2. y < x => <<y, x>> \in {r \in Nat \X Nat : r[1] < r[2]}
    BY <2>1
  <2> QED
    BY <1>2, <2>1, <2>2
<1> QED
  BY <1>3

LEMMA Induction ==
  ASSUME NEW T, 0 \in T, \A n \in Nat : n \in T => n + 1 \in T
  PROVE  Nat \subseteq T
<1> SUFFICES ASSUME Nat \ T # {} PROVE FALSE
  OBVIOUS
<1>1. PICK x \in Nat \ T : \A y \in Nat \ T : x <= y
  BY Least
<1>2. x # 0 /\ x - 1 \in Nat /\ x - 1 < x
  BY <1>1
<1>3. x - 1 \in T
  BY <1>1, <1>2
<1> QED
  BY <1>1, <1>2, <1>3

-----------------------------------------------------------------------------
(* What an operation says, and what it does to a catalog. *)

(* The operations commands make: which fields each kind fills in. *)
Shaped(o) ==
  /\ o \in Op
  /\ o.kind # "gc" => \E i \in Path : o.ids = {i}
  /\ o.kind = "ingest" => o.to \in Path /\ o.ids = {o.to} /\ o.from = None /\ o.mode = "manual"
                          /\ o.sha = Content[o.to]
  /\ o.kind \in {"delete", "move", "sync"} => o.from \in Path
  /\ o.kind = "move" => o.to \in Path /\ o.to # o.from
  /\ o.kind \notin {"ingest", "move"} => o.to = None
  /\ o.kind = "sync" => o.mode \in Mode /\ o.sha \in Sha
  /\ o.kind \notin {"ingest", "sync"} => o.mode = None /\ o.sha = None
  /\ o.kind = "gc" => o.from = None

Entry == [op: {o \in Op : Shaped(o)}, state: State]

Unique(k)     == \A p, q \in Path : Has(k, p) /\ Has(k, q) /\ k[p].id = k[q].id => p = q
HasFile(k, i) == \E p \in Path : Has(k, p) /\ k[p].id = i

(* The operation finds in the catalog what it was journaled for. *)
Apt(k, o) ==
  /\ o.kind = "ingest" => ~HasFile(k, o.to)
  /\ o.kind \in {"delete", "move", "sync"} => Has(k, o.from) /\ k[o.from].id \in o.ids

LEMMA RowFacts ==
  ASSUME NEW k \in Catalog, NEW p \in Path, Has(k, p)
  PROVE  k[p] \in File /\ k[p].id \in Path /\ k[p].mode \in Mode /\ k[p].sha \in Sha
BY DEF Catalog, File, Has

LEMMA FileFacts ==
  ASSUME NEW i \in Path, NEW m \in Mode, NEW x \in Sha
  PROVE  LET f == [id |-> i, mode |-> m, sha |-> x] IN f \in File /\ f # None
BY NoneAssumption DEF File

LEMMA PutRowFacts ==
  ASSUME NEW o, Shaped(o), o.kind = "ingest"
  PROVE  /\ PutRow(o) \in File /\ PutRow(o) # None /\ PutRow(o).id = o.to
         /\ PutRow(o).mode = "manual" /\ PutRow(o).sha = Content[o.to]
<1>1. o.to \in Path /\ o.sha \in Sha /\ o.sha = Content[o.to] /\ "manual" \in Mode
  BY VaultAssumption DEF Shaped, Mode
<1> QED
  BY <1>1, FileFacts DEF PutRow

LEMMA SyncRowFacts ==
  ASSUME NEW o, Shaped(o), o.kind = "sync", NEW f \in File
  PROVE  /\ SyncRow(f, o) \in File /\ SyncRow(f, o) # None /\ SyncRow(f, o).id = f.id
         /\ SyncRow(f, o).mode = o.mode /\ SyncRow(f, o).sha = o.sha
<1>1. o.mode \in Mode /\ o.sha \in Sha
  BY DEF Shaped
<1>2. SyncRow(f, o) \in File
  BY <1>1 DEF SyncRow, File
<1> QED
  BY <1>1, <1>2, NoneAssumption DEF SyncRow, File

LEMMA ReplayMoveTyped ==
  ASSUME NEW k \in Catalog, NEW o, Shaped(o), o.kind = "move"
  PROVE  ReplayMove(k, o) \in Catalog
<1> DEFINE found == UNION {PathsOf(k, i) : i \in o.ids}
           at    == IF found # {} THEN CHOOSE p \in found : TRUE ELSE o.from
<1>1. found \subseteq Path
  BY DEF PathsOf
<1>2. at \in Path
  BY <1>1 DEF Shaped
<1>3. o.to \in Path
  BY DEF Shaped
<1>4. ReplayMove(k, o) = IF Has(k, at) /\ at # o.to THEN With(Without(k, at), o.to, k[at]) ELSE k
  BY DEF ReplayMove
<1> HIDE DEF at
<1> QED
  BY <1>2, <1>3, <1>4, RowFacts DEF With, Without, Catalog

LEMMA ReplayTyped ==
  ASSUME NEW k \in Catalog, NEW o, Shaped(o)
  PROVE  Replay(k, o) \in Catalog
<1>1. o.kind \in Kind
  BY DEF Shaped, Op
<1>2. CASE o.kind = "ingest"
  <2>1. o.to \in Path /\ PutRow(o) \in File
    BY <1>2, PutRowFacts DEF Shaped
  <2> QED
    BY <1>2, <2>1 DEF Replay, With, Catalog
<1>3. CASE o.kind = "delete"
  BY <1>3 DEF Replay, Without, Catalog, Shaped
<1>4. CASE o.kind = "move"
  BY <1>4, ReplayMoveTyped DEF Replay
<1>5. CASE o.kind = "sync"
  <2>1. o.from \in Path /\ o.mode \in Mode
    BY <1>5 DEF Shaped
  <2>2. Has(k, o.from) => SyncRow(k[o.from], o) \in File
    BY <1>5, <2>1, RowFacts, SyncRowFacts
  <2> QED
    BY <1>5, <2>1, <2>2 DEF Replay, With, Catalog
<1>6. CASE o.kind = "gc"
  <2>1. Replay(k, o) = [p \in Path |-> IF Has(k, p) /\ k[p].id \in o.ids THEN None ELSE k[p]]
    BY <1>6 DEF Replay, ReplayGc, WithoutFiles
  <2> QED
    BY <2>1 DEF Catalog
<1> QED
  BY <1>1, <1>2, <1>3, <1>4, <1>5, <1>6 DEF Kind

-----------------------------------------------------------------------------
(* The projection of a log: the recursive function it is defined with has  *)
(* a value at every entry, and is the only one that obeys its equations.   *)

(* The catalog after each of the first entries. *)
History(j) ==
  LET P[n \in 0 .. Len(j)] ==
        IF n = 0 THEN Empty
        ELSE IF j[n].state = "done" THEN Replay(P[n - 1], j[n].op) ELSE P[n - 1]
  IN  P

After(k, e) == IF e.state = "done" THEN Replay(k, e.op) ELSE k

IsHistory(f, j) ==
  /\ f \in [0 .. Len(j) -> Catalog]
  /\ f[0] = Empty
  /\ \A n \in 1 .. Len(j) : f[n] = After(f[n - 1], j[n])

LEMMA AfterTyped == ASSUME NEW k \in Catalog, NEW e \in Entry PROVE After(k, e) \in Catalog
BY ReplayTyped DEF After, Entry

LEMMA EmptyTyped == Empty \in Catalog
BY DEF Empty, Catalog

(* Two functions that obey the equations are one. *)
LEMMA HistoryUnique ==
  ASSUME NEW j \in Seq(Entry), NEW f, NEW g, IsHistory(f, j), IsHistory(g, j)
  PROVE  f = g
<1> DEFINE T == {n \in Nat : n <= Len(j) => f[n] = g[n]}
<1>1. 0 \in T
  BY DEF IsHistory
<1>2. ASSUME NEW n \in Nat, n \in T PROVE n + 1 \in T
  <2>1. SUFFICES ASSUME n + 1 <= Len(j) PROVE f[n + 1] = g[n + 1]
    OBVIOUS
  <2>2. n + 1 \in 1 .. Len(j) /\ n + 1 - 1 = n /\ f[n] = g[n]
    BY <1>2, <2>1
  <2> QED
    BY <2>2 DEF IsHistory
<1>3. Nat \subseteq T
  <2> HIDE DEF T
  <2> QED
    BY <1>1, <1>2, Induction
<1>4. \A n \in 0 .. Len(j) : f[n] = g[n]
  BY <1>3
<1> QED
  BY <1>4 DEF IsHistory

(* There is one. *)
LEMMA HistoryExists ==
  ASSUME NEW j \in Seq(Entry)
  PROVE  \E f : IsHistory(f, j)
<1> DEFINE Part(f, n) == /\ f \in [0 .. n -> Catalog] /\ f[0] = Empty
                         /\ \A m \in 1 .. n : f[m] = After(f[m - 1], j[m])
           T == {n \in Nat : n <= Len(j) => \E f : Part(f, n)}
<1>1. 0 \in T
  <2>1. Part([m \in 0 .. 0 |-> Empty], 0)
    BY EmptyTyped
  <2> QED
    BY <2>1
<1>2. ASSUME NEW n \in Nat, n \in T PROVE n + 1 \in T
  <2>1. SUFFICES ASSUME n + 1 <= Len(j) PROVE \E f : Part(f, n + 1)
    OBVIOUS
  <2>2. PICK f : Part(f, n)
    BY <1>2, <2>1
  <2>3. n + 1 \in 1 .. Len(j) /\ j[n + 1] \in Entry
    BY <2>1
  <2>4. After(f[n], j[n + 1]) \in Catalog
    BY <2>2, <2>3, AfterTyped
  <2> DEFINE g == [m \in 0 .. n + 1 |-> IF m = n + 1 THEN After(f[n], j[n + 1]) ELSE f[m]]
  <2>5. g \in [0 .. n + 1 -> Catalog] /\ g[0] = Empty
    BY <2>2, <2>4
  <2>6. ASSUME NEW m \in 1 .. n + 1 PROVE g[m] = After(g[m - 1], j[m])
    <3>1. CASE m = n + 1
      <4>1. m - 1 = n /\ g[n] = f[n]
        BY <3>1
      <4> QED
        BY <3>1, <4>1
    <3>2. CASE m \in 1 .. n
      <4>1. g[m] = f[m] /\ g[m - 1] = f[m - 1]
        BY <3>2
      <4> QED
        BY <2>2, <3>2, <4>1
    <3> QED
      BY <3>1, <3>2
  <2>7. Part(g, n + 1)
    <3> HIDE DEF g
    <3> QED
      BY <2>5, <2>6
  <2> QED
    BY <2>7
<1>3. Nat \subseteq T
  <2> HIDE DEF T
  <2> QED
    BY <1>1, <1>2, Induction
<1>4. Len(j) \in T
  BY <1>3
<1> QED
  BY <1>4 DEF IsHistory

LEMMA HistoryIs ==
  ASSUME NEW j \in Seq(Entry)
  PROVE  IsHistory(History(j), j)
<1>1. PICK f : IsHistory(f, j)
  BY HistoryExists
<1>2. f = [n \in 0 .. Len(j) |->
             IF n = 0 THEN Empty
             ELSE IF j[n].state = "done" THEN Replay(f[n - 1], j[n].op) ELSE f[n - 1]]
  BY <1>1 DEF IsHistory, After
<1>3. \E h : h = [n \in 0 .. Len(j) |->
             IF n = 0 THEN Empty
             ELSE IF j[n].state = "done" THEN Replay(h[n - 1], j[n].op) ELSE h[n - 1]]
  BY <1>2
<1>4. History(j) = [n \in 0 .. Len(j) |->
             IF n = 0 THEN Empty
             ELSE IF j[n].state = "done" THEN Replay(History(j)[n - 1], j[n].op)
             ELSE History(j)[n - 1]]
  BY <1>3 DEF History
<1> DEFINE h == History(j)
<1>5. /\ h[0] = Empty
      /\ \A n \in 1 .. Len(j) : h[n] = After(h[n - 1], j[n])
  BY <1>4 DEF After
<1> DEFINE T == {n \in Nat : n <= Len(j) => h[n] = f[n]}
<1>6. 0 \in T
  BY <1>1, <1>5 DEF IsHistory
<1>7. ASSUME NEW n \in Nat, n \in T PROVE n + 1 \in T
  <2>1. SUFFICES ASSUME n + 1 <= Len(j) PROVE h[n + 1] = f[n + 1]
    OBVIOUS
  <2>2. n + 1 \in 1 .. Len(j) /\ n + 1 - 1 = n /\ h[n] = f[n]
    BY <1>7, <2>1
  <2> QED
    BY <1>1, <1>5, <2>2 DEF IsHistory
<1>8. Nat \subseteq T
  <2> HIDE DEF T
  <2> QED
    BY <1>6, <1>7, Induction
<1>9. \A n \in 0 .. Len(j) : h[n] = f[n]
  BY <1>8
<1>10. h = [n \in 0 .. Len(j) |-> h[n]]
  BY <1>4
<1> QED
  BY <1>1, <1>9, <1>10 DEF IsHistory

LEMMA ProjectionLast ==
  ASSUME NEW j
  PROVE  Projection(j) = History(j)[Len(j)]
BY DEF Projection, History

LEMMA ProjectionTyped ==
  ASSUME NEW j \in Seq(Entry)
  PROVE  Projection(j) \in Catalog
<1>1. Len(j) \in 0 .. Len(j)
  OBVIOUS
<1> QED
  BY <1>1, HistoryIs, ProjectionLast DEF IsHistory

-----------------------------------------------------------------------------
(* What an operation does at each path of a catalog that is apt for it. *)
Effect(o, k, x) ==
  IF o.kind = "gc" THEN IF Has(k, x) /\ k[x].id \in o.ids THEN None ELSE k[x]
  ELSE IF x \notin Names(o) THEN k[x]
  ELSE IF o.kind = "ingest" THEN PutRow(o)
  ELSE IF o.kind = "sync" THEN SyncRow(k[o.from], o)
  ELSE IF x = o.to THEN k[o.from]
  ELSE None

LEMMA NamesOf ==
  ASSUME NEW o, Shaped(o)
  PROVE  /\ Names(o) \subseteq Path
         /\ o.kind = "ingest" => Names(o) = {o.to} /\ o.to \in Path
         /\ o.kind \in {"delete", "sync"} => Names(o) = {o.from} /\ o.from \in Path /\ o.to = None
         /\ o.kind = "move" => Names(o) = {o.from, o.to} /\ o.from \in Path /\ o.to \in Path
         /\ o.kind = "gc" => Names(o) = {}
BY VaultAssumption DEF Names, Shaped, Op, Kind

LEMMA FoundAt ==
  ASSUME NEW k \in Catalog, NEW o, Shaped(o), Unique(k), Apt(k, o), o.kind = "move"
  PROVE  UNION {PathsOf(k, i) : i \in o.ids} = {o.from}
<1>1. PICK i \in Path : o.ids = {i}
  BY DEF Shaped
<1>2. UNION {PathsOf(k, l) : l \in o.ids} = PathsOf(k, i)
  BY <1>1
<1>3. o.from \in Path /\ Has(k, o.from) /\ k[o.from].id = i
  BY <1>1 DEF Apt, Shaped
<1>4. PathsOf(k, i) = {o.from}
  BY <1>3 DEF PathsOf, Unique
<1> QED
  BY <1>2, <1>4

LEMMA ReplayAt ==
  ASSUME NEW k \in Catalog, NEW o, Shaped(o), Unique(k), Apt(k, o)
  PROVE  Replay(k, o) = [x \in Path |-> Effect(o, k, x)]
<1>1. o.kind \in Kind
  BY DEF Shaped, Op
<1>2. CASE o.kind = "ingest"
  BY <1>2, NamesOf DEF Replay, With, Catalog, Effect
<1>3. CASE o.kind = "delete"
  <2>1. Names(o) = {o.from} /\ o.from \in Path /\ o.to = None
    BY <1>3, NamesOf
  <2> QED
    BY <1>3, <2>1, VaultAssumption DEF Replay, Without, Catalog, Effect
<1>4. CASE o.kind = "move"
  <2>1. Names(o) = {o.from, o.to} /\ o.from \in Path /\ o.to \in Path /\ o.from # o.to
    BY <1>4, NamesOf DEF Shaped
  <2>2. Has(k, o.from)
    BY <1>4 DEF Apt
  <2>3. ReplayMove(k, o) = With(Without(k, o.from), o.to, k[o.from])
    BY <1>4, <2>1, <2>2, FoundAt DEF ReplayMove
  <2>4. Replay(k, o) = With(Without(k, o.from), o.to, k[o.from])
    BY <1>4, <2>3 DEF Replay
  <2> QED
    BY <1>4, <2>1, <2>4 DEF Without, With, Catalog, Effect
<1>5. CASE o.kind = "sync"
  <2>1. Names(o) = {o.from} /\ o.from \in Path /\ Has(k, o.from)
    BY <1>5, NamesOf DEF Apt
  <2>2. Replay(k, o) = With(k, o.from, SyncRow(k[o.from], o))
    BY <1>5, <2>1 DEF Replay
  <2> DEFINE f == SyncRow(k[o.from], o)
  <2>3. \A x \in Path : Effect(o, k, x) = IF x = o.from THEN f ELSE k[x]
    BY <1>5, <2>1 DEF Effect
  <2> HIDE DEF f
  <2>4. With(k, o.from, f) = [x \in Path |-> IF x = o.from THEN f ELSE k[x]]
    BY <2>1 DEF With, Catalog
  <2>5. Replay(k, o) = With(k, o.from, f)
    BY <2>2 DEF f
  <2> QED
    BY <2>3, <2>4, <2>5
<1>6. CASE o.kind = "gc"
  <2>1. Replay(k, o) = [p \in Path |-> IF Has(k, p) /\ k[p].id \in o.ids THEN None ELSE k[p]]
    BY <1>6 DEF Replay, ReplayGc, WithoutFiles
  <2> QED
    BY <1>6, <2>1 DEF Effect
<1> QED
  BY <1>1, <1>2, <1>3, <1>4, <1>5, <1>6 DEF Kind

(* It touches only its paths and its files. *)
LEMMA ReplayTouches ==
  ASSUME NEW k \in Catalog, NEW o, Shaped(o), Unique(k), Apt(k, o), NEW x \in Path
  PROVE  LET r == Replay(k, o) IN
         /\ x \notin Names(o) /\ ~(o.kind = "gc" /\ Has(k, x) /\ k[x].id \in o.ids) => r[x] = k[x]
         /\ x \in Names(o) /\ Has(r, x) => r[x].id \in o.ids
         /\ Has(r, x) /\ r[x].id \notin o.ids => r[x] = k[x] /\ x \notin Names(o)
<1>1. Replay(k, o)[x] = Effect(o, k, x)
  BY ReplayAt
<1>2. o.kind \in Kind
  BY DEF Shaped, Op
<1>3. x \notin Names(o) /\ ~(o.kind = "gc" /\ Has(k, x) /\ k[x].id \in o.ids) => Effect(o, k, x) = k[x]
  BY DEF Effect
<1>4. x \in Names(o) /\ Effect(o, k, x) # None => Effect(o, k, x).id \in o.ids
  <2>1. CASE o.kind = "ingest"
    BY <2>1, NamesOf, PutRowFacts DEF Effect, Shaped
  <2>2. CASE o.kind = "delete"
    BY <2>2, NamesOf, VaultAssumption DEF Effect
  <2>3. CASE o.kind = "move"
    BY <2>3, NamesOf DEF Effect, Apt
  <2>4. CASE o.kind = "sync"
    <3>1. Has(k, o.from) /\ k[o.from].id \in o.ids /\ o.from \in Path
      BY <2>4 DEF Apt, Shaped
    <3>2. SyncRow(k[o.from], o).id = k[o.from].id
      BY <2>4, <3>1, RowFacts, SyncRowFacts
    <3> QED
      BY <2>4, <3>1, <3>2 DEF Effect
  <2>5. CASE o.kind = "gc"
    BY <2>5, NamesOf
  <2> QED
    BY <1>2, <2>1, <2>2, <2>3, <2>4, <2>5 DEF Kind
<1>5. Effect(o, k, x) # None /\ Effect(o, k, x).id \notin o.ids => Effect(o, k, x) = k[x] /\ x \notin Names(o)
  BY <1>4 DEF Effect
<1> QED
  BY <1>1, <1>3, <1>4, <1>5 DEF Has

LEMMA UniqueKept ==
  ASSUME NEW k \in Catalog, NEW o, Shaped(o), Unique(k), Apt(k, o)
  PROVE  Unique(Replay(k, o))
<1> DEFINE r == Replay(k, o)
<1>1. SUFFICES ASSUME NEW p \in Path, NEW q \in Path, Has(r, p), Has(r, q), r[p].id = r[q].id
               PROVE  p = q
  BY DEF Unique
<1>2. CASE r[p].id \notin o.ids
  BY <1>1, <1>2, ReplayTouches DEF Unique, Has
<1>3. CASE r[p].id \in o.ids
  <2>1. o.kind # "gc"
    BY <1>1, <1>3, ReplayAt DEF Effect, Has
  <2>2. PICK i \in Path : o.ids = {i}
    BY <2>1 DEF Shaped
  <2>3. \A x \in Path : Has(r, x) /\ r[x].id = i /\ x \notin Names(o) => Has(k, x) /\ k[x].id = i
    BY <2>1, ReplayAt DEF Effect, Has
  <2>4. r = [x \in Path |-> Effect(o, k, x)]
    BY ReplayAt
  <2> HIDE DEF r
  <2>5. CASE o.kind = "ingest"
    BY <1>1, <1>3, <2>2, <2>3, <2>5, NamesOf DEF Apt, HasFile, Shaped
  <2>6. CASE o.kind \in {"delete", "move", "sync"}
    <3>1. Has(k, o.from) /\ k[o.from].id = i /\ o.from \in Path
      BY <2>2, <2>6 DEF Apt, Shaped
    <3>2. \A x \in Path : Has(r, x) /\ r[x].id = i => x \in Names(o)
      BY <2>3, <2>6, <3>1, NamesOf DEF Unique
    <3>3. CASE o.kind \in {"delete", "sync"}
      BY <1>1, <1>3, <2>2, <3>2, <3>3, NamesOf
    <3>4. CASE o.kind = "move"
      <4>1. o.from # o.to /\ r[o.from] = None
        BY <2>4, <3>1, <3>4, NamesOf DEF Effect, Shaped
      <4> QED
        BY <1>1, <1>3, <2>2, <3>2, <3>4, <4>1, NamesOf DEF Has
    <3> QED
      BY <2>6, <3>3, <3>4
  <2> QED
    BY <2>1, <2>5, <2>6 DEF Shaped, Op, Kind
<1> QED
  BY <1>2, <1>3

(* Operations of different files that name different paths. *)
Distinct(o, q) == o.ids \cap q.ids = {} /\ Names(o) \cap Names(q) = {}

LEMMA AptKept ==
  ASSUME NEW k \in Catalog, NEW o, NEW q, Shaped(o), Shaped(q), Distinct(o, q),
         Unique(k), Apt(k, o), Apt(k, q)
  PROVE  Apt(Replay(k, o), q)
<1> DEFINE r == Replay(k, o)
<1>1. ASSUME q.kind = "ingest", HasFile(r, q.to) PROVE FALSE
  <2>1. PICK x \in Path : Has(r, x) /\ r[x].id = q.to
    BY <1>1 DEF HasFile
  <2>2. q.to \notin o.ids
    BY <1>1 DEF Shaped, Distinct
  <2>3. r[x] = k[x]
    BY <2>1, <2>2, ReplayTouches
  <2> QED
    BY <1>1, <2>1, <2>3 DEF Apt, HasFile, Has
<1>2. ASSUME q.kind \in {"delete", "move", "sync"} PROVE Has(r, q.from) /\ r[q.from].id \in q.ids
  <2>1. Has(k, q.from) /\ k[q.from].id \in q.ids /\ q.from \in Path /\ q.from \in Names(q)
    BY <1>2, NamesOf DEF Apt
  <2>2. q.from \notin Names(o) /\ k[q.from].id \notin o.ids
    BY <2>1 DEF Distinct
  <2>3. r[q.from] = k[q.from]
    BY <2>1, <2>2, ReplayTouches
  <2> QED
    BY <2>1, <2>3 DEF Has
<1> QED
  BY <1>1, <1>2 DEF Apt

(* ... may be replayed in any order. *)
LEMMA ReplayCommutes ==
  ASSUME NEW k \in Catalog, NEW o, NEW q, Shaped(o), Shaped(q), Distinct(o, q),
         Unique(k), Apt(k, o), Apt(k, q)
  PROVE  Replay(Replay(k, o), q) = Replay(Replay(k, q), o)
<1> DEFINE ko == Replay(k, o)
           kq == Replay(k, q)
<1>1. /\ ko \in Catalog /\ Unique(ko) /\ Apt(ko, q)
      /\ kq \in Catalog /\ Unique(kq) /\ Apt(kq, o)
  <2>1. Distinct(q, o)
    BY DEF Distinct
  <2> QED
    BY <2>1, ReplayTyped, UniqueKept, AptKept
<1>2. /\ Replay(ko, q) = [x \in Path |-> Effect(q, ko, x)]
      /\ Replay(kq, o) = [x \in Path |-> Effect(o, kq, x)]
  <2> HIDE DEF ko, kq
  <2> QED
    BY <1>1, ReplayAt
<1>3. ASSUME NEW x \in Path PROVE Effect(q, ko, x) = Effect(o, kq, x)
  <2>1. ko[x] = Effect(o, k, x) /\ kq[x] = Effect(q, k, x)
    BY ReplayAt
  <2>2. o.kind \notin {"gc", "ingest"} => ko[q.from] = ko[q.from] /\ kq[o.from] = k[o.from]
    <3>1. SUFFICES ASSUME o.kind \in {"delete", "move", "sync"} PROVE kq[o.from] = k[o.from]
      BY DEF Shaped, Op, Kind
    <3>2. Has(k, o.from) /\ k[o.from].id \in o.ids /\ o.from \in Path /\ o.from \in Names(o)
      BY <3>1, NamesOf DEF Apt
    <3>3. o.from \notin Names(q) /\ k[o.from].id \notin q.ids
      BY <3>2 DEF Distinct
    <3> QED
      BY <3>2, <3>3, ReplayTouches
  <2>3. q.kind \notin {"gc", "ingest"} => ko[q.from] = k[q.from]
    <3>1. SUFFICES ASSUME q.kind \in {"delete", "move", "sync"} PROVE ko[q.from] = k[q.from]
      BY DEF Shaped, Op, Kind
    <3>2. Has(k, q.from) /\ k[q.from].id \in q.ids /\ q.from \in Path /\ q.from \in Names(q)
      BY <3>1, NamesOf DEF Apt
    <3>3. q.from \notin Names(o) /\ k[q.from].id \notin o.ids
      BY <3>2 DEF Distinct
    <3> QED
      BY <3>2, <3>3, ReplayTouches
  <2>4. x \in Names(o) /\ Has(ko, x) => ko[x].id \notin q.ids
    BY ReplayTouches DEF Distinct
  <2>5. x \in Names(q) /\ Has(kq, x) => kq[x].id \notin o.ids
    BY ReplayTouches DEF Distinct
  <2> HIDE DEF ko, kq
  <2>6. ~(x \in Names(o) /\ x \in Names(q))
    BY DEF Distinct
  <2>7. CASE x \in Names(o)
    <3>1. o.kind # "gc" /\ x \notin Names(q)
      BY <2>6, <2>7, NamesOf
    <3>2. Effect(o, kq, x) = Effect(o, k, x)
      BY <2>2, <2>7, <3>1, NamesOf DEF Effect
    <3>3. Effect(q, ko, x) = ko[x]
      BY <2>4, <2>7, <3>1 DEF Effect, Has
    <3> QED
      BY <2>1, <3>2, <3>3
  <2>8. CASE x \in Names(q)
    <3>1. q.kind # "gc" /\ x \notin Names(o)
      BY <2>6, <2>8, NamesOf
    <3>2. Effect(q, ko, x) = Effect(q, k, x)
      BY <2>3, <2>8, <3>1, NamesOf DEF Effect
    <3>3. Effect(o, kq, x) = kq[x]
      BY <2>5, <2>8, <3>1 DEF Effect, Has
    <3> QED
      BY <2>1, <3>2, <3>3
  <2>9. CASE x \notin Names(o) /\ x \notin Names(q)
    BY <2>1, <2>9 DEF Effect, Has, Distinct
  <2> QED
    BY <2>7, <2>8, <2>9
<1> QED
  BY <1>2, <1>3

-----------------------------------------------------------------------------
(* Types.  What the fields of a job hold depends on how far its command is. *)

Job == [op: Op, n: 0 .. MaxOps, file: File \cup {None}, todo: (SUBSET Sha) \cup (SUBSET Doom)]

(* Its operation is on the log. *)
Begun == {"blob", "reread", "rmBlob", "rehome", "delete", "write", "mark", "retry", "redelete", "rewrite"}

(* A command at place ph, with j and the catalog k in memory, where the log *)
(* has top entries.                                                         *)
Typed(ph, j, k, top) ==
  /\ Shaped(j.op)
  /\ ph \in Begun => j.n \in 1 .. top
  /\ ph \in {"gcRead", "gcPlan", "gcSweep"} => j.op = NoOp
  /\ ph \in {"gcPlan", "gcSweep", "delete", "redelete"} => j.todo \subseteq Doom
  /\ ph = "intent" /\ j.op.kind = "gc" => j.todo \subseteq Doom
  /\ ph \in {"read", "intent", "reread", "rmBlob", "rehome", "write"} /\ j.op.kind \in {"delete", "move", "sync"}
       => j.file \in File
  /\ ph = "read" => j.op.kind \in {"move", "sync"}
  /\ ph = "blob" => j.op.kind = "ingest"
  /\ ph = "reread" => j.op.kind \in {"delete", "move"}
  /\ ph = "rmBlob" => j.op.kind = "delete"
  /\ ph = "rehome" => j.op.kind = "sync"
  /\ ph \in {"delete", "redelete"} => j.op.kind = "gc"
  /\ ph \in {"intent", "rehome", "write"} /\ j.op.kind = "sync" => Has(k, j.op.from)

Blobs == objects \in SUBSET Sha /\ edited \subseteq objects

TypeInv ==
  /\ Blobs
  /\ catalog \in Catalog
  /\ journal \in Seq(Entry) /\ Len(journal) <= MaxOps
  /\ pc \in [Client -> Phase] /\ job \in [Client -> Job] /\ cat \in [Client -> Catalog]
  /\ \A c \in Client : Typed(pc[c], job[c], cat[c], Len(journal))

LEMMA NoOpFacts ==
  /\ NoOp \in Op /\ Shaped(NoOp)
  /\ NoJob \in Job /\ NoJob.op = NoOp
BY VaultAssumption DEF NoOp, NoJob, Op, Kind, Shaped, Job

LEMMA JobFacts ==
  ASSUME NEW j \in Job
  PROVE  /\ j.op \in Op /\ j.n \in 0 .. MaxOps /\ j.file \in File \cup {None}
         /\ \A o \in Op : [j EXCEPT !.op = o] \in Job /\ [j EXCEPT !.op = o].op = o
         /\ \A n \in 0 .. MaxOps : /\ [j EXCEPT !.n = n] \in Job /\ [j EXCEPT !.n = n].n = n
                                   /\ [j EXCEPT !.n = n].op = j.op
                                   /\ [j EXCEPT !.n = n].file = j.file
                                   /\ [j EXCEPT !.n = n].todo = j.todo
         /\ \A d \in SUBSET Doom : /\ [j EXCEPT !.todo = d] \in Job /\ [j EXCEPT !.todo = d].todo = d
                                   /\ [j EXCEPT !.todo = d].op = j.op
                                   /\ [j EXCEPT !.todo = d].n = j.n
                                   /\ [j EXCEPT !.todo = d].file = j.file
BY DEF Job

(* The jobs a command starts with. *)
LEMMA AskedJob ==
  ASSUME NEW o \in Op, NEW f \in File \cup {None}
  PROVE  LET j == [NoJob EXCEPT !.op = o, !.file = f] IN
         j \in Job /\ j.op = o /\ j.file = f /\ j.todo = {}
BY VaultAssumption, NoOpFacts DEF NoJob, Job

LEMMA RetriedJob ==
  ASSUME NEW o \in Op, NEW n \in 0 .. MaxOps
  PROVE  LET j == [NoJob EXCEPT !.op = o, !.n = n] IN
         j \in Job /\ j.op = o /\ j.n = n /\ j.file = None /\ j.todo = {}
BY VaultAssumption, NoOpFacts DEF NoJob, Job

LEMMA SweepJob ==
  ASSUME NEW s \in SUBSET Sha
  PROVE  LET j == [NoJob EXCEPT !.todo = s] IN
         j \in Job /\ j.op = NoOp /\ j.todo = s
BY VaultAssumption, NoOpFacts DEF NoJob, Job

LEMMA PutOpFacts ==
  ASSUME NEW p \in Path
  PROVE  /\ Shaped(PutOp(p)) /\ PutOp(p) \in Op /\ PutOp(p).kind = "ingest" /\ PutOp(p).ids = {p}
         /\ PutOp(p).to = p /\ PutOp(p).from = None /\ PutOp(p).sha = Content[p]
BY VaultAssumption DEF PutOp, NoOp, Shaped, Op, Kind, Mode

LEMMA RowOpFacts ==
  ASSUME TypeInv, NEW p \in Path, Has(catalog, p)
  PROVE  /\ catalog[p] \in File
         /\ Shaped(RmOp(p)) /\ RmOp(p) \in Op /\ RmOp(p).kind = "delete"
         /\ RmOp(p).from = p /\ RmOp(p).to = None /\ RmOp(p).ids = {catalog[p].id}
         /\ \A q \in Path : p # q =>
              /\ Shaped(MoveOp(p, q)) /\ MoveOp(p, q) \in Op /\ MoveOp(p, q).kind = "move"
              /\ MoveOp(p, q).from = p /\ MoveOp(p, q).to = q /\ MoveOp(p, q).ids = {catalog[p].id}
         /\ \A m \in Mode :
              /\ Shaped(SyncOp(p, m)) /\ SyncOp(p, m) \in Op /\ SyncOp(p, m).kind = "sync"
              /\ SyncOp(p, m).from = p /\ SyncOp(p, m).to = None /\ SyncOp(p, m).mode = m
              /\ SyncOp(p, m).ids = {catalog[p].id} /\ SyncOp(p, m).sha = catalog[p].sha
<1>1. catalog[p] \in File /\ catalog[p].id \in Path /\ catalog[p].sha \in Sha
  BY RowFacts DEF TypeInv
<1>2. /\ RmOp(p) \in Op /\ RmOp(p).kind = "delete" /\ RmOp(p).mode = None /\ RmOp(p).sha = None
      /\ RmOp(p).from = p /\ RmOp(p).to = None /\ RmOp(p).ids = {catalog[p].id}
  BY <1>1 DEF RmOp, NoOp, Op, Kind
<1>3. ASSUME NEW q \in Path
      PROVE  /\ MoveOp(p, q) \in Op /\ MoveOp(p, q).kind = "move" /\ MoveOp(p, q).mode = None
             /\ MoveOp(p, q).sha = None
             /\ MoveOp(p, q).from = p /\ MoveOp(p, q).to = q /\ MoveOp(p, q).ids = {catalog[p].id}
  BY <1>1 DEF MoveOp, NoOp, Op, Kind
<1>4. ASSUME NEW m \in Mode
      PROVE  /\ SyncOp(p, m) \in Op /\ SyncOp(p, m).kind = "sync" /\ SyncOp(p, m).mode = m
             /\ SyncOp(p, m).from = p /\ SyncOp(p, m).to = None /\ SyncOp(p, m).ids = {catalog[p].id}
             /\ SyncOp(p, m).sha = catalog[p].sha
  BY <1>1 DEF SyncOp, NoOp, Op, Kind
<1>5. Shaped(RmOp(p))
  BY <1>1, <1>2 DEF Shaped
<1>6. \A q \in Path : p # q => Shaped(MoveOp(p, q))
  BY <1>1, <1>3 DEF Shaped
<1>7. \A m \in Mode : Shaped(SyncOp(p, m))
  BY <1>1, <1>4 DEF Shaped
<1> QED
  BY <1>1, <1>2, <1>3, <1>4, <1>5, <1>6, <1>7

(* One client goes on; what it reads of the log only grows. *)
LEMMA Enter ==
  ASSUME TypeInv, NEW c \in Client, NEW ph \in Phase, NEW j \in Job, NEW k \in Catalog,
         Blobs', catalog' \in Catalog, journal' \in Seq(Entry),
         Len(journal) <= Len(journal'), Len(journal') <= MaxOps,
         pc' = [pc EXCEPT ![c] = ph], job' = [job EXCEPT ![c] = j], cat' = [cat EXCEPT ![c] = k],
         Typed(ph, j, k, Len(journal'))
  PROVE  TypeInv'
<1>1. /\ pc' \in [Client -> Phase] /\ job' \in [Client -> Job] /\ cat' \in [Client -> Catalog]
  BY DEF TypeInv
<1>2. ASSUME NEW d \in Client PROVE Typed(pc'[d], job'[d], cat'[d], Len(journal'))
  <2>1. CASE d = c
    BY <2>1 DEF TypeInv
  <2>2. CASE d # c
    <3>1. pc'[d] = pc[d] /\ job'[d] = job[d] /\ cat'[d] = cat[d]
      BY <2>2 DEF TypeInv
    <3>2. Typed(pc[d], job[d], cat[d], Len(journal))
      BY DEF TypeInv
    <3>3. Len(journal) \in Nat /\ Len(journal') \in Nat
      BY DEF TypeInv
    <3> QED
      BY <3>1, <3>2, <3>3 DEF Typed
  <2> QED
    BY <2>1, <2>2
<1> QED
  BY <1>1, <1>2 DEF TypeInv

LEMMA ClientFacts ==
  ASSUME TypeInv, NEW c \in Client
  PROVE  /\ pc[c] \in Phase /\ job[c] \in Job /\ cat[c] \in Catalog
         /\ Typed(pc[c], job[c], cat[c], Len(journal)) /\ Shaped(job[c].op)
         /\ pc = [pc EXCEPT ![c] = pc[c]] /\ job = [job EXCEPT ![c] = job[c]]
         /\ cat = [cat EXCEPT ![c] = cat[c]]
         /\ Len(journal) \in Nat /\ Len(journal) <= MaxOps /\ MaxOps \in Nat
         /\ journal \in Seq(Entry) /\ DOMAIN journal = 1 .. Len(journal)
BY VaultAssumption DEF TypeInv, Typed

LEMMA LeaveTyped ==
  ASSUME TypeInv, NEW c \in Client, Leave(c), Blobs', catalog' \in Catalog,
         journal' \in Seq(Entry), Len(journal) <= Len(journal'), Len(journal') <= MaxOps
  PROVE  TypeInv'
<1>1. Typed("idle", NoJob, Empty, Len(journal'))
  BY NoOpFacts DEF Typed, Begun
<1>2. "idle" \in Phase
  BY DEF Phase
<1> QED
  BY <1>1, <1>2, NoOpFacts, EmptyTyped, Enter DEF Leave, Goto

LEMMA StoreFacts ==
  ASSUME TypeInv
  PROVE  /\ objects \in SUBSET Sha /\ edited \subseteq objects
         /\ objects' = objects /\ edited' = edited => Blobs'
         /\ catalog \in Catalog /\ journal \in Seq(Entry)
         /\ Len(journal) \in Nat /\ Len(journal) <= Len(journal) /\ Len(journal) <= MaxOps
         /\ DOMAIN journal = 1 .. Len(journal)
         /\ \A n \in DOMAIN journal :
              /\ journal[n] \in Entry /\ journal[n].op \in Op /\ Shaped(journal[n].op)
              /\ journal[n].state \in State /\ n \in 0 .. MaxOps
<1>1. /\ objects \in SUBSET Sha /\ edited \subseteq objects
      /\ objects' = objects /\ edited' = edited => Blobs'
      /\ catalog \in Catalog /\ journal \in Seq(Entry)
      /\ Len(journal) \in Nat /\ Len(journal) <= MaxOps /\ MaxOps \in Nat
      /\ DOMAIN journal = 1 .. Len(journal)
  BY VaultAssumption DEF TypeInv, Blobs
<1>2. ASSUME NEW n \in DOMAIN journal PROVE journal[n] \in Entry /\ n \in 0 .. MaxOps
  BY <1>1
<1>3. ASSUME NEW e \in Entry PROVE e.op \in Op /\ Shaped(e.op) /\ e.state \in State
  BY DEF Entry
<1> QED
  BY <1>1, <1>2, <1>3

LEMMA BlobFacts ==
  ASSUME TypeInv
  PROVE  /\ \A x \in Sha : Store(x) => Blobs'
         /\ \A x : Delete(x) => Blobs'
BY DEF TypeInv, Blobs, Store, Delete

LEMMA AskTyped ==
  ASSUME TypeInv, NEW c \in Client, NEW o \in Op, Shaped(o), NEW f \in File \cup {None},
         NEW ph \in {"read", "intent"}, Ask(c, o, f, ph), NEW k \in Catalog,
         cat' = [cat EXCEPT ![c] = k],
         o.kind # "gc", o.kind \in {"delete", "move", "sync"} => f \in File,
         ph = "read" => o.kind \in {"move", "sync"}, ph = "intent" => o.kind # "sync"
  PROVE  TypeInv'
<1> DEFINE j == [NoJob EXCEPT !.op = o, !.file = f]
<1>1. j \in Job /\ j.op = o /\ j.file = f
  BY AskedJob
<1>2. /\ pc' = [pc EXCEPT ![c] = ph] /\ job' = [job EXCEPT ![c] = j]
      /\ objects' = objects /\ edited' = edited /\ catalog' = catalog /\ journal' = journal
  BY DEF Ask, Goto
<1> HIDE DEF j
<1>3. Typed(ph, j, k, Len(journal)) /\ ph \in Phase
  BY <1>1 DEF Typed, Begun, Phase
<1> QED
  BY <1>1, <1>2, <1>3, StoreFacts, Enter

LEMMA CommandTyped ==
  ASSUME TypeInv, NEW c \in Client, Command(c)
  PROVE  TypeInv'
<1>0. /\ pc[c] \in Phase /\ job[c] \in Job /\ cat[c] \in Catalog
      /\ cat = [cat EXCEPT ![c] = cat[c]] /\ job = [job EXCEPT ![c] = job[c]]
  BY ClientFacts
<1>1. ASSUME NEW p \in Path, Put(c, p) PROVE TypeInv'
  BY <1>1, PutOpFacts, StoreFacts, AskTyped DEF Put, ReadCatalog
<1>2. ASSUME NEW p \in Path, Rm(c, p) PROVE TypeInv'
  BY <1>0, <1>2, RowOpFacts, AskTyped DEF Rm
<1>3. ASSUME NEW p \in Path, NEW q \in Path, Mv(c, p, q) PROVE TypeInv'
  BY <1>0, <1>3, RowOpFacts, AskTyped DEF Mv
<1>4. ASSUME NEW p \in Path, NEW m \in Mode, Sync(c, p, m) PROVE TypeInv'
  BY <1>0, <1>4, RowOpFacts, AskTyped DEF Sync
<1>5. ASSUME GcList(c) PROVE TypeInv'
  <2>1. PICK keep \in SUBSET Sha : job' = [job EXCEPT ![c] = [NoJob EXCEPT !.todo = objects \ keep]]
    BY <1>5 DEF GcList
  <2>2. objects \ keep \in SUBSET Sha
    BY StoreFacts
  <2> DEFINE j == [NoJob EXCEPT !.todo = objects \ keep]
  <2>3. j \in Job /\ j.op = NoOp
    BY <2>2, SweepJob
  <2> HIDE DEF j
  <2>4. Typed("gcRead", j, cat[c], Len(journal)) /\ "gcRead" \in Phase
    BY <2>3, NoOpFacts DEF Typed, Begun, Phase
  <2> QED
    BY <1>0, <1>5, <2>1, <2>3, <2>4, StoreFacts, Enter DEF GcList, Goto, j
<1>6. ASSUME NEW n \in DOMAIN journal, Retry(c, n) PROVE TypeInv'
  <2> DEFINE j == [NoJob EXCEPT !.op = journal[n].op, !.n = n]
  <2>1. j \in Job /\ j.op = journal[n].op /\ j.n = n
    BY RetriedJob, StoreFacts
  <2>2. job' = [job EXCEPT ![c] = j] /\ pc' = [pc EXCEPT ![c] = "retry"]
    BY <1>6 DEF Retry, Goto
  <2> HIDE DEF j
  <2>3. Typed("retry", j, cat[c], Len(journal)) /\ "retry" \in Phase
    BY <2>1, StoreFacts DEF Typed, Begun, Phase
  <2>4. /\ objects' = objects /\ edited' = edited /\ catalog' = catalog /\ journal' = journal
        /\ cat' = [cat EXCEPT ![c] = cat[c]]
    BY <1>0, <1>6 DEF Retry
  <2>5. /\ Blobs' /\ catalog' \in Catalog /\ journal' \in Seq(Entry)
        /\ Len(journal) <= Len(journal') /\ Len(journal') <= MaxOps
    BY <2>4, StoreFacts, VaultAssumption
  <2>6. Typed("retry", j, cat[c], Len(journal')) /\ cat[c] \in Catalog
    BY <1>0, <2>3, <2>4
  <2> QED
    BY <2>1, <2>2, <2>3, <2>4, <2>5, <2>6, Enter
<1>7. ASSUME RebuildRead(c) PROVE TypeInv'
  <2>1. Projection(journal) \in Catalog
    BY StoreFacts, ProjectionTyped
  <2>2. Typed("rebuild", job[c], Projection(journal), Len(journal)) /\ "rebuild" \in Phase
    BY ClientFacts DEF Typed, Begun, Phase
  <2> QED
    BY <1>0, <1>7, <2>1, <2>2, StoreFacts, Enter DEF RebuildRead, Goto
<1> QED
  BY <1>1, <1>2, <1>3, <1>4, <1>5, <1>6, <1>7 DEF Command

(* A command moves on to ph with the job and the catalog it has. *)
LEMMA MoveOnTyped ==
  ASSUME TypeInv, NEW c \in Client, NEW ph \in Phase, Goto(c, ph),
         job' = job, cat' = cat, Blobs', catalog' \in Catalog, journal' = journal,
         Typed(ph, job[c], cat[c], Len(journal))
  PROVE  TypeInv'
BY ClientFacts, StoreFacts, Enter DEF Goto

LEMMA OverwriteTyped ==
  ASSUME TypeInv, NEW c \in Client, NEW k \in Catalog, Overwrite(c, k), pc[c] \in Begun
  PROVE  TypeInv'
<1>1. Typed("mark", job[c], cat[c], Len(journal)) /\ "mark" \in Phase
  BY ClientFacts DEF Typed, Begun, Phase
<1> QED
  BY <1>1, StoreFacts, MoveOnTyped DEF Overwrite

LEMMA MarkedFacts ==
  ASSUME TypeInv, NEW n \in DOMAIN journal, NEW st \in State
  PROVE  /\ Marked(n, st) \in Seq(Entry) /\ Len(Marked(n, st)) = Len(journal)
         /\ DOMAIN Marked(n, st) = DOMAIN journal
         /\ \A m \in DOMAIN journal : Marked(n, st)[m].op = journal[m].op
         /\ \A m \in DOMAIN journal : m # n => Marked(n, st)[m] = journal[m]
         /\ Marked(n, st)[n].state = IF journal[n].state = "done" THEN "done" ELSE st
<1> DEFINE e == [journal[n] EXCEPT !.state = IF @ = "done" THEN @ ELSE st]
<1>1. e \in Entry /\ e.op = journal[n].op /\ e.state = IF journal[n].state = "done" THEN "done" ELSE st
  BY StoreFacts DEF Entry
<1>2. Marked(n, st) = [journal EXCEPT ![n] = e]
  BY DEF Marked
<1> HIDE DEF e
<1> QED
  BY <1>1, <1>2, StoreFacts

LEMMA GoOnTyped ==
  ASSUME TypeInv, NEW c \in Client, pc[c] = "intent", NEW n \in 0 .. MaxOps, GoOn(c, n),
         cat' = cat, Blobs', catalog' = catalog, journal' \in Seq(Entry),
         Len(journal) <= Len(journal'), Len(journal') <= MaxOps, n \in 1 .. Len(journal')
  PROVE  TypeInv'
<1> DEFINE o  == job[c].op
           j  == [job[c] EXCEPT !.n = n]
           ph == AfterIntent(c)
<1>1. /\ j \in Job /\ j.n = n /\ j.op = o /\ j.file = job[c].file /\ j.todo = job[c].todo
      /\ Typed("intent", job[c], cat[c], Len(journal)) /\ Shaped(o)
  BY ClientFacts, JobFacts
<1>2. o.kind \in Kind
  BY <1>1 DEF Shaped, Op
<1>3. /\ ph \in Phase
      /\ o.kind = "ingest" => ph = "blob"
      /\ o.kind \in {"delete", "move"} => ph = "reread"
      /\ o.kind = "sync" => ph \in {"rehome", "write"}
      /\ o.kind = "gc" => ph = "delete"
  BY <1>2 DEF AfterIntent, Kind, Phase
<1>4. pc' = [pc EXCEPT ![c] = ph] /\ job' = [job EXCEPT ![c] = j]
  BY DEF GoOn, Goto
<1>5. ph \in {"blob", "reread", "rehome", "write", "delete"}
  BY <1>2, <1>3 DEF Kind
<1>6. Typed(ph, j, cat[c], Len(journal'))
  <2> HIDE DEF ph, j
  <2>1. CASE o.kind = "ingest"
    BY <1>1, <1>3, <2>1 DEF Typed
  <2>2. CASE o.kind \in {"delete", "move"}
    BY <1>1, <1>3, <2>2 DEF Typed
  <2>3. CASE o.kind = "sync"
    BY <1>1, <1>3, <2>3 DEF Typed
  <2>4. CASE o.kind = "gc"
    BY <1>1, <1>3, <2>4 DEF Typed
  <2> QED
    BY <1>2, <2>1, <2>2, <2>3, <2>4 DEF Kind
<1> HIDE DEF ph, j
<1> QED
  BY <1>1, <1>3, <1>4, <1>6, ClientFacts, StoreFacts, Enter

LEMMA LogStepTyped ==
  ASSUME TypeInv, NEW c \in Client,
         AppendIntent(c) \/ Resume(c) \/ Refused(c) \/ MarkDone(c)
  PROVE  TypeInv'
<1>1. CASE AppendIntent(c)
  <2> DEFINE e == [op |-> job[c].op, state |-> "intent"]
  <2>1. e \in Entry
    BY ClientFacts, JobFacts DEF Entry, State
  <2>2. journal' = Append(journal, e) /\ Len(journal) < MaxOps
    BY <1>1 DEF AppendIntent, Room
  <2> HIDE DEF e
  <2>3. journal' \in Seq(Entry) /\ Len(journal') = Len(journal) + 1
    BY <2>1, <2>2, StoreFacts
  <2>4. Len(journal) + 1 \in 0 .. MaxOps /\ MaxOps \in Nat
    BY <2>2, StoreFacts, VaultAssumption
  <2> QED
    BY <1>1, <2>2, <2>3, <2>4, StoreFacts, GoOnTyped DEF AppendIntent
<1>2. CASE Resume(c)
  <2>1. PICK n \in DOMAIN journal : GoOn(c, n)
    BY <1>2 DEF Resume
  <2> QED
    BY <1>2, <2>1, StoreFacts, GoOnTyped DEF Resume
<1>3. CASE Refused(c)
  BY <1>3, StoreFacts, LeaveTyped DEF Refused
<1>4. CASE MarkDone(c)
  <2>1. job[c].n \in DOMAIN journal
    BY <1>4, ClientFacts DEF Typed, Begun, MarkDone
  <2>2. "done" \in State
    BY DEF State
  <2> QED
    BY <1>4, <2>1, <2>2, MarkedFacts, StoreFacts, LeaveTyped DEF MarkDone
<1> QED
  BY <1>1, <1>2, <1>3, <1>4

LEMMA PutStepTyped ==
  ASSUME TypeInv, NEW c \in Client, PutBlob(c) \/ PutWrite(c)
  PROVE  TypeInv'
<1>1. CASE PutBlob(c)
  <2>1. Typed("blob", job[c], cat[c], Len(journal)) /\ job[c].op.to \in Path
    BY <1>1, ClientFacts DEF PutBlob, Typed, Shaped
  <2>2. Typed("write", job[c], cat[c], Len(journal)) /\ "write" \in Phase
    BY <2>1 DEF Typed, Begun, Phase
  <2>3. job[c].op.sha \in Sha
    BY <2>1, VaultAssumption DEF Typed, Shaped
  <2>4. Blobs'
    BY <1>1, <2>3, BlobFacts DEF PutBlob
  <2> QED
    BY <1>1, <2>2, <2>4, StoreFacts, MoveOnTyped DEF PutBlob
<1>2. CASE PutWrite(c)
  <2>1. job[c].op.to \in Path /\ cat[c] \in Catalog /\ "write" \in Begun
    BY <1>2, ClientFacts DEF PutWrite, Shaped, Begun
  <2>2. With(cat[c], job[c].op.to, PutRow(job[c].op)) \in Catalog
    BY <1>2, <2>1, ClientFacts, PutRowFacts DEF PutWrite, With, Catalog
  <2> QED
    BY <1>2, <2>1, <2>2, OverwriteTyped DEF PutWrite
<1> QED
  BY <1>1, <1>2

LEMMA RmStepTyped ==
  ASSUME TypeInv, NEW c \in Client, RmRead(c) \/ RmBlob(c) \/ RmWrite(c)
  PROVE  TypeInv'
<1>1. CASE RmRead(c)
  <2>1. Typed("reread", job[c], cat[c], Len(journal)) /\ job[c].op.kind = "delete"
    BY <1>1, ClientFacts DEF RmRead
  <2> DEFINE ph == IF LastReferent(c) THEN "rmBlob" ELSE "write"
  <2>2. ph \in {"rmBlob", "write"} /\ ph \in Phase
    BY DEF Phase
  <2>3. pc' = [pc EXCEPT ![c] = ph]
    BY <1>1 DEF RmRead, Goto
  <2> HIDE DEF ph
  <2>4. Typed(ph, job[c], catalog, Len(journal))
    BY <2>1, <2>2 DEF Typed, Begun
  <2> QED
    BY <1>1, <2>2, <2>3, <2>4, StoreFacts, ClientFacts, Enter DEF RmRead, ReadCatalog
<1>2. CASE RmBlob(c)
  <2>1. Typed("rmBlob", job[c], cat[c], Len(journal))
    BY <1>2, ClientFacts DEF RmBlob
  <2>2. Typed("write", job[c], cat[c], Len(journal)) /\ "write" \in Phase
    BY <2>1 DEF Typed, Begun, Phase
  <2>3. Blobs'
    BY <1>2, BlobFacts DEF RmBlob
  <2> QED
    BY <1>2, <2>2, <2>3, StoreFacts, MoveOnTyped DEF RmBlob
<1>3. CASE RmWrite(c)
  <2>1. job[c].op.from \in Path /\ cat[c] \in Catalog /\ "write" \in Begun
    BY <1>3, ClientFacts DEF RmWrite, Shaped, Begun
  <2>2. Without(cat[c], job[c].op.from) \in Catalog
    BY <2>1 DEF Without, Catalog
  <2> QED
    BY <1>3, <2>1, <2>2, OverwriteTyped DEF RmWrite
<1> QED
  BY <1>1, <1>2, <1>3

LEMMA MvStepTyped ==
  ASSUME TypeInv, NEW c \in Client, MvLook(c) \/ MvRead(c) \/ MvWrite(c)
  PROVE  TypeInv'
<1>1. CASE MvLook(c)
  <2>1. CASE Has(catalog, job[c].op.to)
    BY <1>1, <2>1, StoreFacts, LeaveTyped DEF MvLook
  <2>2. CASE ~Has(catalog, job[c].op.to)
    <3>1. Typed("read", job[c], cat[c], Len(journal)) /\ job[c].op.kind = "move"
      BY <1>1, ClientFacts DEF MvLook
    <3>2. Typed("intent", job[c], cat[c], Len(journal)) /\ "intent" \in Phase
      BY <3>1 DEF Typed, Begun, Phase
    <3> QED
      BY <1>1, <2>2, <3>2, StoreFacts, MoveOnTyped DEF MvLook
  <2> QED
    BY <2>1, <2>2
<1>2. CASE MvRead(c)
  <2>1. Typed("reread", job[c], cat[c], Len(journal)) /\ job[c].op.kind = "move"
    BY <1>2, ClientFacts DEF MvRead
  <2>2. Typed("write", job[c], catalog, Len(journal)) /\ "write" \in Phase
    BY <2>1 DEF Typed, Begun, Phase
  <2> QED
    BY <1>2, <2>2, StoreFacts, ClientFacts, Enter DEF MvRead, ReadCatalog, Goto
<1>3. CASE MvWrite(c)
  <2>1. /\ job[c].op.from \in Path /\ job[c].op.to \in Path /\ cat[c] \in Catalog
        /\ job[c].file \in File /\ "write" \in Begun
    BY <1>3, ClientFacts DEF MvWrite, Shaped, Begun, Typed
  <2>2. With(Without(cat[c], job[c].op.from), job[c].op.to, job[c].file) \in Catalog
    BY <2>1 DEF With, Without, Catalog
  <2> QED
    BY <1>3, <2>1, <2>2, OverwriteTyped DEF MvWrite
<1> QED
  BY <1>1, <1>2, <1>3

LEMMA ShaJob ==
  ASSUME NEW j \in Job, NEW x \in Sha, Shaped(j.op), j.op.kind = "sync"
  PROVE  LET i == [j EXCEPT !.op.sha = x] IN
         /\ i \in Job /\ i.n = j.n /\ i.file = j.file /\ i.todo = j.todo
         /\ i.op = [j.op EXCEPT !.sha = x] /\ Shaped(i.op) /\ i.op.kind = "sync"
         /\ i.op.from = j.op.from /\ i.op.mode = j.op.mode /\ i.op.ids = j.op.ids
         /\ i.op.to = j.op.to /\ i.op.sha = x
<1> DEFINE o == [j.op EXCEPT !.sha = x]
<1>1. /\ o \in Op /\ o.kind = j.op.kind /\ o.from = j.op.from /\ o.mode = j.op.mode
      /\ o.ids = j.op.ids /\ o.to = j.op.to /\ o.sha = x
  BY DEF Job, Op
<1>2. Shaped(o)
  BY <1>1 DEF Shaped
<1>3. [j EXCEPT !.op.sha = x] = [j EXCEPT !.op = o]
  BY DEF Job
<1> HIDE DEF o
<1>4. LET i == [j EXCEPT !.op = o] IN
      i \in Job /\ i.n = j.n /\ i.file = j.file /\ i.todo = j.todo /\ i.op = o
  BY <1>1 DEF Job
<1> QED
  BY <1>1, <1>2, <1>3, <1>4 DEF o

LEMMA SyncStepTyped ==
  ASSUME TypeInv, NEW c \in Client, SyncRead(c) \/ Rehome(c) \/ SyncWrite(c)
  PROVE  TypeInv'
<1>1. CASE SyncRead(c)
  <2>1. Typed("read", job[c], cat[c], Len(journal)) /\ job[c].op.kind = "sync"
    BY <1>1, ClientFacts DEF SyncRead
  <2>2. Has(catalog, job[c].op.from) /\ job[c].op.from \in Path
    BY <1>1, <2>1 DEF SyncRead, Typed, Shaped
  <2> DEFINE x == catalog[job[c].op.from].sha
             y == IF job[c].op.mode = "git" THEN HashOf(x) ELSE x
             j == [job[c] EXCEPT !.op.sha = y]
  <2>3. x \in Sha
    BY <2>2, StoreFacts, RowFacts
  <2>4. y \in Sha
    BY <2>3, VaultAssumption DEF HashOf
  <2>5. job' = [job EXCEPT ![c].op.sha = y]
    BY <1>1 DEF SyncRead
  <2> HIDE DEF y
  <2>6. /\ j \in Job /\ j.file = job[c].file /\ Shaped(j.op) /\ j.op.kind = "sync"
        /\ j.op.from = job[c].op.from
    <3>1. job[c] \in Job /\ Shaped(job[c].op) /\ job[c].op.kind = "sync"
      BY <2>1, ClientFacts
    <3> QED
      BY <2>4, <3>1, ShaJob, Zenon
  <2>7. job' = [job EXCEPT ![c] = j]
    BY <2>5, ClientFacts
  <2> HIDE DEF j
  <2>8. Typed("intent", j, catalog, Len(journal)) /\ "intent" \in Phase
    BY <2>1, <2>2, <2>6 DEF Typed, Begun, Phase
  <2> QED
    BY <1>1, <2>6, <2>7, <2>8, StoreFacts, Enter DEF SyncRead, ReadCatalog, Goto
<1>2. CASE Rehome(c)
  <2>1. Typed("rehome", job[c], cat[c], Len(journal)) /\ job[c].op.kind = "sync"
    BY <1>2, ClientFacts DEF Rehome, Typed
  <2>2. Typed("write", job[c], cat[c], Len(journal)) /\ "write" \in Phase
    BY <2>1 DEF Typed, Begun, Phase
  <2>3. job[c].op.sha \in Sha
    BY <2>1 DEF Typed, Shaped
  <2>4. Blobs'
    BY <1>2, <2>3, BlobFacts DEF Rehome
  <2> QED
    BY <1>2, <2>2, <2>4, StoreFacts, MoveOnTyped DEF Rehome
<1>3. CASE SyncWrite(c)
  <2> DEFINE o == job[c].op
             f == SyncRow(cat[c][o.from], o)
  <2>1. /\ o.from \in Path /\ cat[c] \in Catalog /\ o.kind = "sync" /\ Shaped(o)
        /\ Has(cat[c], o.from) /\ "write" \in Begun
    BY <1>3, ClientFacts DEF SyncWrite, Shaped, Begun, Typed
  <2>2. f \in File
    BY <2>1, RowFacts, SyncRowFacts
  <2>3. Overwrite(c, With(cat[c], o.from, f)) /\ pc[c] = "write"
    BY <1>3 DEF SyncWrite
  <2> HIDE DEF f
  <2>4. With(cat[c], o.from, f) \in Catalog
    BY <2>1, <2>2 DEF With, Catalog
  <2> QED
    BY <2>1, <2>3, <2>4, OverwriteTyped
<1> QED
  BY <1>1, <1>2, <1>3

LEMMA DoomedTyped ==
  ASSUME TypeInv, NEW c \in Client, job[c].todo \subseteq Doom
  PROVE  Doomed(c) \in SUBSET Doom /\ Doomed(c) \subseteq job[c].todo
BY DEF Doomed

LEMMA GcPlanStepTyped ==
  ASSUME TypeInv, NEW c \in Client, GcRead(c) \/ GcPlan(c) \/ GcSweep(c)
  PROVE  TypeInv'
<1>0. cat = [cat EXCEPT ![c] = cat[c]] /\ cat[c] \in Catalog /\ job[c] \in Job
  BY ClientFacts
<1>1. CASE GcRead(c)
  <2>1. PICK d \in SUBSET Doom : job' = [job EXCEPT ![c].todo = d]
    BY <1>1 DEF GcRead, GcCandidates
  <2> DEFINE j == [job[c] EXCEPT !.todo = d]
  <2>2. /\ j \in Job /\ j.todo = d /\ j.op = job[c].op
        /\ job' = [job EXCEPT ![c] = j]
    BY <1>0, <2>1, JobFacts
  <2>3. Typed("gcRead", job[c], cat[c], Len(journal))
    BY <1>1, ClientFacts DEF GcRead
  <2> HIDE DEF j
  <2>4. Typed("gcPlan", j, catalog, Len(journal)) /\ "gcPlan" \in Phase
    BY <2>2, <2>3, NoOpFacts DEF Typed, Begun, Phase
  <2> QED
    BY <1>1, <2>2, <2>4, StoreFacts, Enter DEF GcRead, ReadCatalog, Goto
<1>2. CASE GcPlan(c)
  <2>1. Typed("gcPlan", job[c], cat[c], Len(journal))
    BY <1>2, ClientFacts DEF GcPlan
  <2> DEFINE j == [job[c] EXCEPT !.todo = Doomed(c)]
  <2>2. Doomed(c) \in SUBSET Doom
    BY <2>1, DoomedTyped DEF Typed
  <2>3. /\ j \in Job /\ j.todo = Doomed(c) /\ j.op = job[c].op
        /\ job' = [job EXCEPT ![c] = j]
    BY <1>0, <1>2, <2>2, JobFacts DEF GcPlan
  <2> HIDE DEF j
  <2>4. Typed("gcSweep", j, cat[c], Len(journal)) /\ "gcSweep" \in Phase
    BY <2>1, <2>2, <2>3, NoOpFacts DEF Typed, Begun, Phase
  <2> QED
    BY <1>0, <1>2, <2>3, <2>4, StoreFacts, Enter DEF GcPlan, Goto
<1>3. CASE GcSweep(c)
  <2>1. CASE Doomed(c) = {}
    BY <1>3, <2>1, StoreFacts, LeaveTyped DEF GcSweep
  <2>2. CASE Doomed(c) # {}
    <3>1. Typed("gcSweep", job[c], cat[c], Len(journal))
      BY <1>3, ClientFacts DEF GcSweep
    <3>2. Doomed(c) \in SUBSET Doom
      BY <3>1, DoomedTyped DEF Typed
    <3> DEFINE o == [NoOp EXCEPT !.ids = {k.id : k \in Doomed(c)}]
               j == [[job[c] EXCEPT !.todo = Doomed(c)] EXCEPT !.op = o]
    <3>3. o \in Op /\ Shaped(o) /\ o.kind = "gc"
      <4>1. {k.id : k \in Doomed(c)} \in SUBSET Path
        BY <3>2 DEF Doom
      <4> QED
        BY <4>1, NoOpFacts DEF NoOp, Op, Shaped
    <3>4. [job[c] EXCEPT !.todo = Doomed(c)] \in Job
      BY <3>2, ClientFacts, JobFacts
    <3>5. j \in Job /\ j.op = o
      BY <3>3, <3>4, JobFacts
    <3>6. j.todo = Doomed(c)
      BY <3>2, ClientFacts DEF Job
    <3>7. job' = [job EXCEPT ![c] = j]
      <4>1. job[c] \in Job /\ job[c].op = NoOp
        BY <3>1, ClientFacts DEF Typed
      <4>2. job' = [job EXCEPT ![c].todo = Doomed(c), ![c].op.ids = {k.id : k \in Doomed(c)}]
        BY <1>3, <2>2 DEF GcSweep
      <4> QED
        BY <4>1, <4>2 DEF Job
    <3> HIDE DEF o, j
    <3>8. Typed("intent", j, cat[c], Len(journal)) /\ "intent" \in Phase
      BY <3>2, <3>3, <3>5, <3>6 DEF Typed, Begun, Phase
    <3> QED
      BY <1>0, <1>3, <2>2, <3>5, <3>7, <3>8, StoreFacts, Enter DEF GcSweep, Goto
  <2> QED
    BY <2>1, <2>2
<1> QED
  BY <1>1, <1>2, <1>3

LEMMA KeptTyped ==
  ASSUME TypeInv, NEW c \in Client
  PROVE  GcKept(c) \in Catalog
<1>1. cat[c] \in Catalog
  BY ClientFacts
<1> QED
  BY <1>1 DEF GcKept, WithoutShas, Catalog

LEMMA MarkedTyped ==
  ASSUME TypeInv, NEW c \in Client, pc[c] \in Begun, journal' = Marked(job[c].n, "failed"),
         Leave(c), Blobs', catalog' \in Catalog
  PROVE  TypeInv'
<1>1. job[c].n \in DOMAIN journal /\ "failed" \in State
  BY ClientFacts DEF Typed, State
<1> QED
  BY <1>1, MarkedFacts, StoreFacts, LeaveTyped

LEMMA GcStepTyped ==
  ASSUME TypeInv, NEW c \in Client, GcDelete(c) \/ GcWrite(c) \/ GcFail(c)
  PROVE  TypeInv'
<1>0. cat = [cat EXCEPT ![c] = cat[c]] /\ cat[c] \in Catalog /\ job[c] \in Job
  BY ClientFacts
<1>1. CASE GcDelete(c)
  <2>1. PICK k \in job[c].todo :
          /\ Delete(k.sha)
          /\ job' = [job EXCEPT ![c].todo = @ \ {k}]
          /\ Goto(c, IF job[c].todo = {k} THEN "write" ELSE "delete")
    BY <1>1 DEF GcDelete
  <2>2. Typed("delete", job[c], cat[c], Len(journal)) /\ job[c].todo \ {k} \in SUBSET Doom
    BY <1>1, ClientFacts DEF GcDelete, Typed
  <2> DEFINE j  == [job[c] EXCEPT !.todo = job[c].todo \ {k}]
             ph == IF job[c].todo = {k} THEN "write" ELSE "delete"
  <2>3. /\ j \in Job /\ j.todo = job[c].todo \ {k} /\ j.op = job[c].op /\ j.n = job[c].n
        /\ job' = [job EXCEPT ![c] = j]
    BY <1>0, <2>1, <2>2, JobFacts
  <2>4. ph \in {"write", "delete"} /\ ph \in Phase /\ pc' = [pc EXCEPT ![c] = ph]
    BY <2>1 DEF Phase, Goto
  <2> HIDE DEF j, ph
  <2>5. Typed(ph, j, cat[c], Len(journal))
    BY <2>2, <2>3, <2>4 DEF Typed, Begun
  <2>6. Blobs'
    BY <2>1, BlobFacts
  <2> QED
    BY <1>0, <1>1, <2>3, <2>4, <2>5, <2>6, StoreFacts, Enter DEF GcDelete
<1>2. CASE GcWrite(c)
  BY <1>2, KeptTyped, OverwriteTyped DEF GcWrite, Begun
<1>3. CASE GcFail(c)
  <2>1. pc[c] \in Begun
    BY <1>3 DEF GcFail, Begun
  <2>2. Blobs' /\ catalog' \in Catalog
    BY <1>3, StoreFacts, BlobFacts, KeptTyped DEF GcFail
  <2> QED
    BY <1>3, <2>1, <2>2, MarkedTyped DEF GcFail
<1> QED
  BY <1>1, <1>2, <1>3

LEMMA RetryStepTyped ==
  ASSUME TypeInv, NEW c \in Client,
         RetryRead(c) \/ RetryDelete(c) \/ RetryWrite(c) \/ RetryFail(c)
  PROVE  TypeInv'
<1>0. /\ cat = [cat EXCEPT ![c] = cat[c]] /\ cat[c] \in Catalog /\ job[c] \in Job
      /\ pc = [pc EXCEPT ![c] = pc[c]] /\ job = [job EXCEPT ![c] = job[c]]
      /\ Shaped(job[c].op)
  BY ClientFacts
<1>1. CASE RetryRead(c)
  <2>0. Typed("retry", job[c], cat[c], Len(journal))
    BY <1>1, ClientFacts DEF RetryRead
  <2>1. CASE job[c].op.kind = "gc"
    <3> DEFINE d == {k \in Doom : k.id \in job[c].op.ids
                             /\ \E p \in PathsOf(catalog, k.id) : catalog[p].sha = k.sha}
               j == [job[c] EXCEPT !.todo = d]
    <3>1. d \in SUBSET Doom
      OBVIOUS
    <3>2. pc' = [pc EXCEPT ![c] = "redelete"] /\ job' = [job EXCEPT ![c].todo = d]
      BY <1>1, <2>1 DEF RetryRead, Goto
    <3> HIDE DEF d
    <3>3. /\ j \in Job /\ j.todo = d /\ j.op = job[c].op /\ j.n = job[c].n
          /\ job' = [job EXCEPT ![c] = j]
      BY <1>0, <3>1, <3>2, JobFacts
    <3> HIDE DEF j
    <3>4. Typed("redelete", j, catalog, Len(journal)) /\ "redelete" \in Phase
      BY <2>0, <2>1, <3>1, <3>3 DEF Typed, Begun, Phase
    <3> QED
      BY <1>1, <3>2, <3>3, <3>4, StoreFacts, Enter DEF RetryRead, ReadCatalog
  <2>2. CASE job[c].op.kind # "gc"
    <3>1. Typed("rewrite", job[c], catalog, Len(journal)) /\ "rewrite" \in Phase
      BY <2>0 DEF Typed, Begun, Phase
    <3>2. pc' = [pc EXCEPT ![c] = "rewrite"] /\ job' = job
      BY <1>1, <2>2 DEF RetryRead, Goto
    <3> QED
      BY <1>0, <1>1, <3>1, <3>2, StoreFacts, Enter DEF RetryRead, ReadCatalog
  <2> QED
    BY <2>1, <2>2
<1>2. CASE RetryDelete(c)
  <2>1. PICK k \in job[c].todo :
          /\ Delete(k.sha)
          /\ job' = [job EXCEPT ![c].todo = @ \ {k}]
    BY <1>2 DEF RetryDelete
  <2>2. Typed("redelete", job[c], cat[c], Len(journal)) /\ job[c].todo \ {k} \in SUBSET Doom
    BY <1>2, ClientFacts DEF RetryDelete, Typed
  <2> DEFINE j == [job[c] EXCEPT !.todo = job[c].todo \ {k}]
  <2>3. /\ j \in Job /\ j.todo = job[c].todo \ {k} /\ j.op = job[c].op /\ j.n = job[c].n
        /\ job' = [job EXCEPT ![c] = j]
    <3>1. job' = [job EXCEPT ![c].todo = job[c].todo \ {k}]
      BY <2>1
    <3> QED
      BY <1>0, <2>2, <3>1, JobFacts
  <2> HIDE DEF j
  <2>4. Typed("redelete", j, cat[c], Len(journal)) /\ "redelete" \in Phase
    BY <2>2, <2>3 DEF Typed, Begun, Phase
  <2>5. Blobs'
    BY <2>1, BlobFacts
  <2>6. /\ catalog' = catalog /\ journal' = journal
        /\ cat' = [cat EXCEPT ![c] = cat[c]] /\ pc' = [pc EXCEPT ![c] = "redelete"]
    BY <1>0, <1>2 DEF RetryDelete
  <2>7. catalog' \in Catalog /\ journal' \in Seq(Entry)
    BY <2>6, StoreFacts
  <2>8. Len(journal) <= Len(journal') /\ Len(journal') <= MaxOps
    BY <2>6, StoreFacts, VaultAssumption
  <2>9. Typed("redelete", j, cat[c], Len(journal')) /\ cat[c] \in Catalog
    BY <1>0, <2>4, <2>6
  <2>10. /\ pc' = [pc EXCEPT ![c] = "redelete"] /\ "redelete" \in Phase
         /\ job' = [job EXCEPT ![c] = j] /\ j \in Job
         /\ cat' = [cat EXCEPT ![c] = cat[c]]
    BY <2>3, <2>4, <2>6
  <2> QED
    BY <2>5, <2>7, <2>8, <2>9, <2>10, Enter
<1>3. CASE RetryWrite(c)
  <2>1. pc[c] \in Begun
    BY <1>3 DEF RetryWrite, Begun
  <2> QED
    BY <1>0, <1>3, <2>1, ReplayTyped, OverwriteTyped DEF RetryWrite
<1>4. CASE RetryFail(c)
  <2>1. pc[c] \in Begun
    BY <1>4 DEF RetryFail, Begun
  <2>2. Blobs' /\ catalog' \in Catalog
    BY <1>0, <1>4, StoreFacts, BlobFacts, ReplayTyped DEF RetryFail
  <2> QED
    BY <1>4, <2>1, <2>2, MarkedTyped DEF RetryFail
<1> QED
  BY <1>1, <1>2, <1>3, <1>4

LEMMA TypeStep == TypeInv /\ [Next]_vars => TypeInv'
<1> SUFFICES ASSUME TypeInv, [Next]_vars PROVE TypeInv'
  OBVIOUS
<1>1. ASSUME NEW c \in Client, Step(c) PROVE TypeInv'
  <2>1. CASE RebuildWrite(c)
    BY <2>1, ClientFacts, StoreFacts, LeaveTyped DEF RebuildWrite
  <2> QED
    BY <1>1, <2>1, LogStepTyped, PutStepTyped, RmStepTyped, MvStepTyped, SyncStepTyped,
       GcPlanStepTyped, GcStepTyped, RetryStepTyped DEF Step
<1>2. ASSUME NEW c \in Client, Crash(c) PROVE TypeInv'
  BY <1>2, StoreFacts, LeaveTyped DEF Crash
<1>3. ASSUME NEW x \in Sha, Edit(x) PROVE TypeInv'
  BY <1>3 DEF Edit, TypeInv, Blobs
<1>4. CASE UNCHANGED vars
  BY <1>4 DEF vars, TypeInv, Blobs
<1> QED
  BY <1>1, <1>2, <1>3, <1>4, CommandTyped DEF Next

LEMMA TypeInit == Init => TypeInv
<1> SUFFICES ASSUME Init PROVE TypeInv
  OBVIOUS
<1>1. journal \in Seq(Entry) /\ Len(journal) = 0 /\ 0 <= MaxOps
  BY VaultAssumption DEF Init
<1>2. Typed("idle", NoJob, Empty, 0) /\ "idle" \in Phase
  BY NoOpFacts DEF Typed, Begun, Phase
<1>3. /\ pc \in [Client -> Phase] /\ job \in [Client -> Job] /\ cat \in [Client -> Catalog]
      /\ \A c \in Client : pc[c] = "idle" /\ job[c] = NoJob /\ cat[c] = Empty
  BY <1>2, NoOpFacts, EmptyTyped DEF Init
<1> QED
  BY <1>1, <1>2, <1>3, EmptyTyped DEF Init, TypeInv, Blobs

LEMMA TypeInvIsType == TypeInv => TypeOK
<1> SUFFICES ASSUME TypeInv PROVE TypeOK
  OBVIOUS
<1>1. journal \in Seq([op: Op, state: State])
  <2>1. Entry \subseteq [op: Op, state: State]
    BY DEF Entry
  <2> HIDE DEF Entry
  <2> QED
    BY <2>1, StoreFacts, SeqMonotonic
<1>2. ASSUME NEW c \in Client
      PROVE  /\ job[c].op \in Op /\ job[c].n \in 0 .. MaxOps
             /\ job[c].file \in File \cup {None}
             /\ job[c].todo \in (SUBSET Sha) \cup (SUBSET Doom)
             /\ cat[c] \in Catalog
  BY ClientFacts DEF Job
<1> QED
  BY <1>1, <1>2 DEF TypeOK, TypeInv, Blobs

LEMMA TypeAlways == Spec => []TypeInv
BY TypeInit, TypeStep, PTL DEF Spec

(* However many commands overlap, what they hold in memory and write to the *)
(* node has its type; in particular the projection of any log is a catalog. *)
THEOREM VaultTypes == Spec => []TypeOK
BY TypeAlways, TypeInvIsType, PTL

=============================================================================
