--------------------------- MODULE VaultSerialProofs ---------------------------
(***************************************************************************)
(* Proofs about one node of a vault (VaultNode.tla) while its commands do  *)
(* not overlap: one process at a time, which may die at any step and leave *)
(* an operation unfinished for the next one.  For any paths, contents and  *)
(* number of operations, the catalog, the blobs and the log agree.         *)
(*                                                                         *)
(* The log is projected in the order of its entries, but its operations    *)
(* are done in another: one that was cut short is done after later ones.   *)
(* So the invariant keeps, for every pending operation, that it is still   *)
(* apt for the catalogs the log went through since its entry (Chain), and  *)
(* operations that touch nothing in common commute (ReplayCommutes).  The  *)
(* catalog itself may be ahead of the projection by what pending           *)
(* operations did already (Explained), behind it by what a pending or      *)
(* failed one took away (Complete), never anything else.                   *)
(***************************************************************************)
EXTENDS VaultProofs

(* The hashes a file is listed with. *)
Own(i) == {Content[i]} \cup (IF i \in MayBeGit THEN {Drift[Content[i]]} ELSE {})

(* One process; no operation is asked for again once it is done, and none   *)
(* that uses a path an unfinished one names; ops retry only of sweeps,      *)
(* moves and removals that were cut short; a file is edited once, and not   *)
(* while an operation of it is unfinished; the files sync-mode makes git    *)
(* share their bytes with none.                                             *)
OneAtATime ==
  /\ \A c, d \in Client : c = d
  /\ Reuse = FALSE /\ PathClash = FALSE /\ Calm = TRUE
  /\ Retryable \subseteq {<<"gc", "intent">>, <<"move", "intent">>, <<"delete", "intent">>}
  /\ \A x \in Sha : Drift[Drift[x]] = Drift[x]
  /\ \A p \in MayBeGit, q \in Path : p # q => Own(p) \cap Own(q) = {}

-----------------------------------------------------------------------------
(* The log, and the catalogs it goes through. *)

Pending(j, n)  == n \in DOMAIN j /\ j[n].state = "intent"
Named(j, i)    == \E n \in DOMAIN j : j[n].state # "done" /\ i \in j[n].op.ids
Held(j, i)     == \E n \in DOMAIN j : j[n].state = "intent" /\ i \in j[n].op.ids
Swept(j, i)    == \E n \in DOMAIN j : j[n].state # "done" /\ j[n].op.kind = "gc" /\ i \in j[n].op.ids
Ingested(j, i) == \E n \in DOMAIN j : j[n].state = "done" /\ j[n].op.kind = "ingest" /\ i \in j[n].op.ids

(* Only files that may be git-mode are made it, and swept; sync-mode        *)
(* records a hash of the file.                                              *)
Allowed(o) ==
  /\ o.kind = "gc" \/ (o.kind = "sync" /\ o.mode = "git") => o.ids \subseteq MayBeGit
  /\ o.kind = "sync" => \A i \in o.ids : o.sha \in Own(i)

Log(j) ==
  /\ j \in Seq(Entry)
  /\ \A n \in DOMAIN j :
       /\ j[n].state = "failed" => j[n].op.kind = "gc"
       /\ Allowed(j[n].op)
       /\ j[n].op.kind = "gc" => \A i \in j[n].op.ids : Ingested(j, i)
  /\ \A m, n \in DOMAIN j : SameOp(j[m].op, j[n].op) => m = n
  /\ \A m, n \in DOMAIN j : m < n /\ Pending(j, m) => Distinct(j[m].op, j[n].op)

(* An operation stays apt from its entry on until it is done. *)
Chain(j) ==
  LET P == History(j) IN
  /\ \A n \in 0 .. Len(j) : Unique(P[n])
  /\ \A n \in DOMAIN j : j[n].state = "done" => Apt(P[n - 1], j[n].op)
  /\ \A n \in DOMAIN j : Pending(j, n) => \A m \in n .. Len(j) : Apt(P[m], j[n].op)

(* What the catalog k the log projects to has to do with the log. *)
Fits(j, k) ==
  /\ k \in Catalog /\ Unique(k)
  /\ \A n \in DOMAIN j : Pending(j, n) => Apt(k, j[n].op)
  /\ \A p \in Path : Has(k, p) =>
       /\ Ingested(j, k[p].id)
       /\ k[p].sha \in Own(k[p].id)
       /\ k[p].mode = "git" => k[p].id \in MayBeGit
       /\ k[p].mode = "manual" => ~(\E n \in DOMAIN j : Pending(j, n) /\ j[n].op.kind = "gc" /\ k[p].id \in j[n].op.ids)

-----------------------------------------------------------------------------
(* The catalog t and the blobs s against the log j and its projection k. *)

(* A row is what the log projects to, now or once an operation is done. *)
Explained(j, k, t) ==
  \A p \in Path : Has(t, p) =>
    \/ t[p] = k[p]
    \/ \E n \in DOMAIN j : Pending(j, n) /\ t[p].id \in j[n].op.ids /\ t[p] = Replay(k, j[n].op)[p]

Complete(j, k, t) == \A p \in Path : Has(k, p) /\ ~Named(j, k[p].id) => t[p] = k[p]

(* A row in the way of an unfinished operation is one gc has swept. *)
Shadowed(j, k) ==
  \A n \in DOMAIN j : Pending(j, n) /\ j[n].op.to # None /\ Has(k, j[n].op.to) =>
    Swept(j, k[j[n].op.to].id)

(* The bytes the catalog k lists for the file i. *)
Backed(k, i, s) == \A p \in Path : Has(k, p) /\ k[p].id = i => k[p].sha \in s

Stored(j, k, t, s) ==
  \A n \in DOMAIN j : Pending(j, n) /\ j[n].op.kind \in {"move", "sync"} =>
    \A i \in j[n].op.ids : HasFile(t, i) /\ (Swept(j, i) \/ (Backed(k, i, s) /\ Backed(t, i, s)))

Balanced(j, t, s) == \A p \in Path : Has(t, p) => t[p].sha \in s \/ Named(j, t[p].id)

Sound(j, k, t, s) ==
  /\ t \in Catalog /\ s \in SUBSET Sha /\ Unique(t)
  /\ Explained(j, k, t) /\ Complete(j, k, t) /\ Shadowed(j, k)
  /\ Stored(j, k, t, s) /\ Balanced(j, t, s)

(* What a sync-mode takes for the hash of a blob, when e are edited. *)
Found(o, x, e) == IF o.mode = "git" /\ x \in e THEN Drift[x] ELSE x

(* The catalog k lists the file of a sync-mode as it found it, or as it is  *)
(* to leave it.                                                             *)
Synced(o, k, e) ==
  /\ \A p \in Path : Has(k, p) /\ k[p].id \in o.ids => o.sha = Found(o, k[p].sha, e)
  /\ o.mode = "git" => o.sha \notin e

(* The edited blobs e against the log and what it projects to. *)
Hashed(j, k, e) ==
  /\ \A x \in e : Drift[x] # x
  /\ \A p \in Path : Has(k, p) /\ k[p].mode = "git" => k[p].sha \notin e
  /\ \A n \in DOMAIN j : Pending(j, n) /\ j[n].op.kind = "sync" => Synced(j[n].op, k, e)

-----------------------------------------------------------------------------
(* What a command knows at each place. *)

Asked(o, j) ==
  /\ Shaped(o)
  /\ Allowed(o)
  /\ \A n \in DOMAIN j :
       /\ SameOp(j[n].op, o) => j[n].state # "done"
       /\ j[n].state # "done" /\ j[n].op.ids \cap o.ids = {} => Names(j[n].op) \cap Names(o) = {}

Mine(jb, j) == Pending(j, jb.n) /\ j[jb.n].op = jb.op

(* The row it was resolved to is there. *)
RowThere(jb, t) == jb.file \in File /\ jb.op.ids = {jb.file.id} /\ t[jb.op.from] = jb.file

(* The rows of its file are the ones it is to have. *)
Agrees(o, k, t) ==
  LET r == Replay(k, o) IN
  /\ \A p \in Path : Has(t, p) /\ t[p].id \in o.ids => t[p] = r[p]
  /\ \A p \in Path : Has(r, p) /\ r[p].id \in o.ids => t[p] = r[p]

Settled(o, s) == o.kind = "ingest" => Content[o.to] \in s

(* A sweep's candidates. *)
Candidates(todo, t) ==
  /\ todo \subseteq Doom
  /\ \A d \in todo : /\ d.id \in MayBeGit
                     /\ \E p \in Path : t[p] = [id |-> d.id, mode |-> "git", sha |-> d.sha]

(* What it may still have to delete: blobs its files are listed with. *)
Remaining(o, todo, t) ==
  /\ todo \subseteq Doom
  /\ \A d \in todo : d.id \in o.ids /\ \E p \in Referents(t, d.sha) : t[p].id = d.id

Ready(ph, jb, ct, j, k, t, s) ==
  LET o == jb.op IN
  /\ ph \in {"read", "intent"} => Asked(o, j)
  /\ ph \in Begun => Mine(jb, j)
  /\ ph = "read" => RowThere(jb, t)
  /\ ph \in {"gcPlan", "gcSweep"} => ct = t /\ Candidates(jb.todo, t)
  /\ ph = "intent" =>
       /\ o.kind \in {"ingest", "sync", "gc"} => ct = t
       /\ o.kind \in {"ingest", "move"} => ~Has(t, o.to)
       /\ o.kind \in {"delete", "move", "sync"} => RowThere(jb, t)
       /\ o.kind = "gc" => Candidates(jb.todo, t) /\ o.ids = {d.id : d \in jb.todo}
  /\ ph \in {"blob", "rmBlob", "rehome", "delete", "write", "redelete", "rewrite"} => ct = t
  /\ ph \in {"blob", "reread", "write"} /\ o.kind \in {"ingest", "move"} => ~Has(t, o.to)
  /\ ph \in {"reread", "rmBlob", "rehome", "write"} /\ o.kind \in {"delete", "move", "sync"} => RowThere(jb, t)
  /\ ph = "rmBlob" => \A p, q \in Referents(t, jb.file.sha) : p = q
  /\ ph \in {"delete", "redelete"} => Remaining(o, jb.todo, t)
  /\ ph = "write" =>
       /\ o.kind = "ingest" => Content[o.to] \in s
       /\ o.kind = "sync" => o.sha \in s \/ Swept(j, jb.file.id)
  /\ ph = "mark" => Agrees(o, k, t) /\ Settled(o, s)
  /\ ph \in {"retry", "redelete", "rewrite"} => o.kind \in {"move", "delete", "gc"}
  /\ ph = "rewrite" => o.kind \in {"move", "delete"}
  /\ ph = "rebuild" => ct = k

NodeInv ==
  /\ TypeInv
  /\ Log(journal) /\ Chain(journal)
  /\ Fits(journal, Projection(journal))
  /\ Sound(journal, Projection(journal), catalog, objects)
  /\ \A c \in Client : Ready(pc[c], job[c], cat[c], journal, Projection(journal), catalog, objects)

(* Before its intent a sync-mode has the hash of the blob as it is. *)
AsRead(ph, jb, e) ==
  ph = "intent" /\ jb.op.kind = "sync" => jb.op.sha = Found(jb.op, jb.file.sha, e)

SerialInv ==
  /\ NodeInv
  /\ Hashed(journal, Projection(journal), edited)
  /\ \A c \in Client : AsRead(pc[c], job[c], edited)

-----------------------------------------------------------------------------
(* The log after an append or a mark. *)

LEMMA LogFacts ==
  ASSUME NEW j, Log(j)
  PROVE  /\ j \in Seq(Entry) /\ Len(j) \in Nat /\ DOMAIN j = 1 .. Len(j)
         /\ \A n \in DOMAIN j : /\ j[n] \in Entry /\ Shaped(j[n].op) /\ j[n].op \in Op
                                /\ j[n].state \in State /\ n \in Nat
         /\ \A m, n \in DOMAIN j : Pending(j, m) /\ Pending(j, n) /\ m # n => Distinct(j[m].op, j[n].op)
<1>1. j \in Seq(Entry) /\ Len(j) \in Nat /\ DOMAIN j = 1 .. Len(j)
  BY DEF Log
<1>2. ASSUME NEW n \in DOMAIN j
      PROVE  j[n] \in Entry /\ Shaped(j[n].op) /\ j[n].op \in Op /\ j[n].state \in State /\ n \in Nat
  <2>1. j[n] \in Entry
    BY <1>1
  <2> QED
    BY <1>1, <2>1 DEF Entry
<1>3. ASSUME NEW m \in DOMAIN j, NEW n \in DOMAIN j, Pending(j, m), Pending(j, n), m # n
      PROVE  Distinct(j[m].op, j[n].op)
  <2>1. m < n \/ n < m
    BY <1>1, <1>3
  <2>2. CASE m < n
    BY <1>3, <2>2 DEF Log
  <2>3. CASE n < m
    <3>1. Distinct(j[n].op, j[m].op)
      BY <1>3, <2>3 DEF Log
    <3> QED
      BY <3>1 DEF Distinct
  <2> QED
    BY <2>1, <2>2, <2>3
<1> QED
  BY <1>1, <1>2, <1>3

(* f is a history of j, however it was made. *)
LEMMA HistoryAs ==
  ASSUME NEW j \in Seq(Entry), NEW f, IsHistory(f, j)
  PROVE  History(j) = f /\ Projection(j) = f[Len(j)]
BY HistoryIs, HistoryUnique, ProjectionLast

LEMMA AppendHistory ==
  ASSUME NEW j \in Seq(Entry), NEW e \in Entry, e.state = "intent"
  PROVE  LET i == Append(j, e) IN
         /\ i \in Seq(Entry) /\ Len(i) = Len(j) + 1 /\ DOMAIN i = 1 .. Len(j) + 1
         /\ \A n \in DOMAIN j : i[n] = j[n]
         /\ i[Len(j) + 1] = e
         /\ \A n \in 0 .. Len(j) : History(i)[n] = History(j)[n]
         /\ History(i)[Len(j) + 1] = Projection(j)
         /\ Projection(i) = Projection(j)
<1> DEFINE i == Append(j, e)
           P == History(j)
           f == [n \in 0 .. Len(j) + 1 |-> IF n <= Len(j) THEN P[n] ELSE P[Len(j)]]
<1>1. /\ i \in Seq(Entry) /\ Len(i) = Len(j) + 1 /\ DOMAIN i = 1 .. Len(j) + 1
      /\ \A n \in 1 .. Len(j) : i[n] = j[n]
      /\ i[Len(j) + 1] = e /\ DOMAIN j = 1 .. Len(j) /\ Len(j) \in Nat
  OBVIOUS
<1>2. IsHistory(P, j)
  BY HistoryIs
<1> HIDE DEF i, P
<1>3. f \in [0 .. Len(i) -> Catalog] /\ f[0] = Empty
  BY <1>1, <1>2 DEF IsHistory
<1>4. ASSUME NEW n \in 1 .. Len(i) PROVE f[n] = After(f[n - 1], i[n])
  <2>1. CASE n = Len(j) + 1
    <3>1. f[n] = P[Len(j)] /\ f[n - 1] = P[Len(j)] /\ i[n] = e
      BY <1>1, <2>1
    <3> QED
      BY <3>1 DEF After
  <2>2. CASE n \in 1 .. Len(j)
    <3>1. f[n] = P[n] /\ f[n - 1] = P[n - 1] /\ i[n] = j[n]
      BY <1>1, <2>2
    <3> QED
      BY <1>2, <2>2, <3>1 DEF IsHistory
  <2> QED
    BY <1>1, <2>1, <2>2
<1>5. IsHistory(f, i)
  <2> HIDE DEF f
  <2> QED
    BY <1>3, <1>4 DEF IsHistory
<1>6. History(i) = f /\ Projection(i) = f[Len(i)]
  <2> HIDE DEF f
  <2> QED
    BY <1>1, <1>5, HistoryAs
<1>7. Projection(j) = P[Len(j)]
  BY ProjectionLast DEF P
<1> QED
  BY <1>1, <1>6, <1>7 DEF i, P

(* A log with the entry n in another state. *)
Restated(j, n, i, st) ==
  /\ i \in Seq(Entry) /\ Len(i) = Len(j)
  /\ \A m \in DOMAIN j : i[m].op = j[m].op
  /\ \A m \in DOMAIN j : m # n => i[m] = j[m]
  /\ i[n].state = st

LEMMA MarkedRestates ==
  ASSUME TypeInv, NEW n, Pending(journal, n), NEW st \in State
  PROVE  Restated(journal, n, Marked(n, st), st)
BY MarkedFacts DEF Restated, Pending

LEMMA FailedHistory ==
  ASSUME NEW j, Log(j), NEW n, Pending(j, n), NEW i, Restated(j, n, i, "failed")
  PROVE  History(i) = History(j) /\ Projection(i) = Projection(j)
<1> DEFINE P == History(j)
<1>1. IsHistory(P, j) /\ Len(i) = Len(j) /\ i \in Seq(Entry) /\ DOMAIN j = 1 .. Len(j)
  BY LogFacts, HistoryIs DEF Restated
<1> HIDE DEF P
<1>2. ASSUME NEW m \in 1 .. Len(j) PROVE After(P[m - 1], i[m]) = After(P[m - 1], j[m])
  BY <1>1 DEF After, Restated, Pending
<1>3. IsHistory(P, i)
  BY <1>1, <1>2 DEF IsHistory
<1> QED
  BY <1>1, <1>3, HistoryAs, ProjectionLast, LogFacts DEF P

(* The catalogs a log goes through, as far as an entry that is pending. *)
LEMMA ChainFacts ==
  ASSUME NEW j, Log(j), Chain(j)
  PROVE  LET P == History(j) IN
         /\ P \in [0 .. Len(j) -> Catalog]
         /\ P[0] = Empty
         /\ \A n \in 1 .. Len(j) : P[n] = After(P[n - 1], j[n])
         /\ \A n \in 0 .. Len(j) : Unique(P[n])
         /\ \A n \in 1 .. Len(j) : j[n].state = "done" => Apt(P[n - 1], j[n].op)
         /\ \A n \in 1 .. Len(j) : Pending(j, n) => \A m \in n .. Len(j) : Apt(P[m], j[n].op)
         /\ Projection(j) = P[Len(j)]
BY LogFacts, HistoryIs, ProjectionLast DEF Chain, IsHistory

(* Marking a pending operation done puts its effect after every entry's. *)
LEMMA DoneHistory ==
  ASSUME NEW j, Log(j), Chain(j), NEW n, Pending(j, n), NEW i, Restated(j, n, i, "done")
  PROVE  LET P == History(j)
             o == j[n].op
         IN  /\ \A m \in 0 .. Len(j) : History(i)[m] = IF m < n THEN P[m] ELSE Replay(P[m], o)
             /\ Projection(i) = Replay(Projection(j), o)
<1> DEFINE P == History(j)
           o == j[n].op
           f == [m \in 0 .. Len(j) |-> IF m < n THEN P[m] ELSE Replay(P[m], o)]
<1>1. /\ P \in [0 .. Len(j) -> Catalog] /\ P[0] = Empty
      /\ \A m \in 1 .. Len(j) : P[m] = After(P[m - 1], j[m])
      /\ \A m \in 0 .. Len(j) : Unique(P[m])
      /\ \A m \in 1 .. Len(j) : j[m].state = "done" => Apt(P[m - 1], j[m].op)
      /\ \A m \in n .. Len(j) : Apt(P[m], o)
      /\ Projection(j) = P[Len(j)]
  BY ChainFacts, LogFacts DEF Pending
<1>2. /\ n \in 1 .. Len(j) /\ Len(j) \in Nat /\ n \in Nat /\ Shaped(o)
      /\ \A m \in 1 .. Len(j) : Shaped(j[m].op)
      /\ i \in Seq(Entry) /\ Len(i) = Len(j)
      /\ \A m \in 1 .. Len(j) : i[m].op = j[m].op
      /\ \A m \in 1 .. Len(j) : m # n => i[m] = j[m]
      /\ i[n].state = "done" /\ j[n].state = "intent"
  BY LogFacts DEF Restated, Pending
<1>3. \A m \in 1 .. Len(j) : n < m => Distinct(o, j[m].op)
  BY <1>2, LogFacts DEF Log, Pending
<1> HIDE DEF P, o
<1>4. f \in [0 .. Len(j) -> Catalog] /\ f[0] = Empty
  BY <1>1, <1>2, ReplayTyped
<1>5. ASSUME NEW m \in 1 .. Len(j) PROVE f[m] = After(f[m - 1], i[m])
  <2>1. CASE m < n
    <3>1. f[m] = P[m] /\ f[m - 1] = P[m - 1] /\ i[m] = j[m]
      BY <1>2, <2>1
    <3> QED
      BY <1>1, <3>1
  <2>2. CASE m = n
    <3>1. f[m] = Replay(P[m], o) /\ f[m - 1] = P[m - 1] /\ i[m].op = o /\ i[m].state = "done"
      BY <1>2, <2>2 DEF o
    <3>2. P[m] = P[m - 1]
      BY <1>1, <1>2, <2>2 DEF After
    <3> QED
      BY <3>1, <3>2 DEF After
  <2>3. CASE n < m
    <3>1. f[m] = Replay(P[m], o) /\ f[m - 1] = Replay(P[m - 1], o) /\ i[m] = j[m]
      BY <1>2, <2>3
    <3>2. CASE j[m].state = "done"
      <4> DEFINE q == j[m].op
      <4>1. Apt(P[m - 1], q) /\ Apt(P[m - 1], o) /\ Unique(P[m - 1]) /\ P[m - 1] \in Catalog
        <5>1. m - 1 \in n .. Len(j) /\ m - 1 \in 0 .. Len(j)
          BY <1>2, <2>3
        <5> QED
          BY <1>1, <3>2, <5>1
      <4>2. Distinct(o, q) /\ Shaped(q)
        BY <1>2, <1>3, <2>3
      <4>3. P[m] = Replay(P[m - 1], q)
        BY <1>1, <3>2 DEF After
      <4>4. After(f[m - 1], i[m]) = Replay(f[m - 1], q)
        BY <3>1, <3>2 DEF After
      <4> HIDE DEF q
      <4>5. Replay(Replay(P[m - 1], q), o) = Replay(Replay(P[m - 1], o), q)
        BY <1>2, <4>1, <4>2, ReplayCommutes
      <4> QED
        BY <3>1, <4>3, <4>4, <4>5
    <3>3. CASE j[m].state # "done"
      BY <1>1, <3>1, <3>3 DEF After
    <3> QED
      BY <3>2, <3>3
  <2> QED
    BY <1>2, <2>1, <2>2, <2>3
<1>6. IsHistory(f, i)
  <2> HIDE DEF f
  <2> QED
    BY <1>2, <1>4, <1>5 DEF IsHistory
<1>7. History(i) = f /\ Projection(i) = f[Len(i)]
  <2> HIDE DEF f
  <2> QED
    BY <1>2, <1>6, HistoryAs
<1> QED
  BY <1>1, <1>2, <1>7 DEF P, o

(* So a pending operation stays apt, and its catalogs unique. *)
LEMMA DoneChain ==
  ASSUME NEW j, Log(j), Chain(j), NEW n, Pending(j, n), NEW i, Restated(j, n, i, "done")
  PROVE  Chain(i)
<1> DEFINE P == History(j)
           Q == History(i)
           o == j[n].op
<1>1. /\ P \in [0 .. Len(j) -> Catalog]
      /\ \A m \in 1 .. Len(j) : P[m] = After(P[m - 1], j[m])
      /\ \A m \in 0 .. Len(j) : Unique(P[m])
      /\ \A m \in 1 .. Len(j) : j[m].state = "done" => Apt(P[m - 1], j[m].op)
      /\ \A m \in 1 .. Len(j) : Pending(j, m) => \A l \in m .. Len(j) : Apt(P[l], j[m].op)
      /\ \A l \in n .. Len(j) : Apt(P[l], o)
  BY ChainFacts, LogFacts DEF Pending
<1>2. /\ n \in 1 .. Len(j) /\ Len(j) \in Nat /\ n \in Nat /\ Shaped(o)
      /\ \A m \in 1 .. Len(j) : Shaped(j[m].op)
      /\ i \in Seq(Entry) /\ Len(i) = Len(j)
      /\ \A m \in 1 .. Len(j) : i[m].op = j[m].op
      /\ \A m \in 1 .. Len(j) : m # n => i[m] = j[m]
      /\ i[n].state = "done" /\ j[n].state = "intent"
  BY LogFacts DEF Restated, Pending
<1>3. /\ \A m \in 1 .. Len(j) : n < m => Distinct(o, j[m].op)
      /\ \A m \in 1 .. Len(j) : m # n /\ Pending(j, m) => Distinct(o, j[m].op)
  <2>1. \A m \in 1 .. Len(j) : n < m => Distinct(o, j[m].op)
    BY <1>2, LogFacts DEF Log, Pending
  <2>2. \A m \in 1 .. Len(j) : m # n /\ Pending(j, m) => Distinct(o, j[m].op)
    BY <1>2, LogFacts
  <2> QED
    BY <2>1, <2>2
<1>4. \A m \in 0 .. Len(j) : Q[m] = IF m < n THEN P[m] ELSE Replay(P[m], o)
  BY DoneHistory
<1>0. DOMAIN i = 1 .. Len(i) /\ Len(i) = Len(j)
  BY <1>2
<1> HIDE DEF P, Q, o
<1>5. ASSUME NEW m \in 0 .. Len(j) PROVE Unique(Q[m])
  <2>1. CASE m < n
    BY <1>1, <1>4, <2>1
  <2>2. CASE m \in n .. Len(j)
    <3>1. ~(m < n)
      BY <1>2, <2>2
    <3>2. Q[m] = Replay(P[m], o)
      BY <1>4, <3>1
    <3>3. P[m] \in Catalog /\ Unique(P[m])
      BY <1>1
    <3>4. Apt(P[m], o)
      BY <1>1, <2>2
    <3>5. Shaped(o)
      BY <1>2
    <3>6. Unique(Replay(P[m], o))
      BY <3>3, <3>4, <3>5, UniqueKept
    <3> QED
      BY <3>2, <3>6
  <2> QED
    BY <1>2, <2>1, <2>2
<1>6. ASSUME NEW m \in 1 .. Len(j), NEW l \in n .. Len(j), Distinct(o, j[m].op), Apt(P[l], j[m].op)
      PROVE  Apt(Q[l], j[m].op)
  <2> DEFINE q == j[m].op
             k == P[l]
  <2>1. k \in Catalog /\ Unique(k) /\ Apt(k, o) /\ Apt(k, q) /\ Q[l] = Replay(k, o)
    <3>1. l \in 0 .. Len(j) /\ ~(l < n)
      BY <1>2
    <3>2. Q[l] = Replay(P[l], o)
      BY <1>4, <3>1
    <3>3. P[l] \in Catalog /\ Unique(P[l])
      BY <1>1, <3>1
    <3>4. Apt(P[l], o)
      BY <1>1
    <3> QED
      BY <1>6, <3>2, <3>3, <3>4
  <2>2. Shaped(o) /\ Shaped(q) /\ Distinct(o, q)
    BY <1>2, <1>6
  <2> HIDE DEF q, k
  <2>3. Apt(Replay(k, o), q)
    BY <2>1, <2>2, AptKept
  <2> QED
    BY <2>1, <2>3 DEF q
<1>7. ASSUME NEW m \in 1 .. Len(j), i[m].state = "done" PROVE Apt(Q[m - 1], i[m].op)
  <2>1. CASE m < n
    BY <1>1, <1>2, <1>4, <1>7, <2>1
  <2>2. CASE m = n
    <3>1. P[m] = P[m - 1]
      BY <1>1, <1>2, <2>2 DEF After
    <3> QED
      BY <1>1, <1>2, <1>4, <2>2, <3>1 DEF o
  <2>3. CASE n < m
    <3>1. Distinct(o, j[m].op) /\ Apt(P[m - 1], j[m].op) /\ m - 1 \in n .. Len(j) /\ i[m].op = j[m].op
      BY <1>1, <1>2, <1>3, <1>7, <2>3
    <3> QED
      BY <1>6, <3>1
  <2> QED
    BY <1>2, <2>1, <2>2, <2>3
<1>8. ASSUME NEW m \in 1 .. Len(j), Pending(i, m), NEW l \in m .. Len(j) PROVE Apt(Q[l], i[m].op)
  <2>1. m # n /\ Pending(j, m) /\ i[m].op = j[m].op
    BY <1>2, <1>8, LogFacts DEF Pending
  <2>2. Distinct(o, j[m].op) /\ Apt(P[l], j[m].op)
    BY <1>1, <1>3, <2>1
  <2>3. CASE l < n
    BY <1>2, <1>4, <2>1, <2>2, <2>3
  <2>4. CASE l \in n .. Len(j)
    BY <1>6, <2>1, <2>2, <2>4
  <2> QED
    BY <1>2, <2>3, <2>4
<1> QED
  <2>1. \A m \in 0 .. Len(i) : Unique(Q[m])
    BY <1>0, <1>5
  <2>2. \A m \in DOMAIN i : i[m].state = "done" => Apt(Q[m - 1], i[m].op)
    BY <1>0, <1>7
  <2>3. \A m \in DOMAIN i : Pending(i, m) => \A l \in m .. Len(i) : Apt(Q[l], i[m].op)
    BY <1>0, <1>8
  <2> QED
    BY <2>1, <2>2, <2>3 DEF Chain, Q
-----------------------------------------------------------------------------
(* The rows of an operation's own files, before and after it. *)

LEMMA OwnRow ==
  ASSUME NEW k \in Catalog, NEW o, Shaped(o), Unique(k), Apt(k, o), NEW x \in Path,
         Has(k, x), k[x].id \in o.ids
  PROVE  /\ o.kind # "ingest"
         /\ o.kind \in {"delete", "move", "sync"} => x = o.from
<1>1. ASSUME o.kind = "ingest" PROVE FALSE
  BY <1>1 DEF Apt, Shaped, HasFile
<1>2. ASSUME o.kind \in {"delete", "move", "sync"} PROVE x = o.from
  <2>1. Has(k, o.from) /\ k[o.from].id \in o.ids /\ o.from \in Path
    BY <1>2 DEF Apt, Shaped
  <2>2. PICK i \in Path : o.ids = {i}
    BY <1>2 DEF Shaped
  <2> QED
    BY <2>1, <2>2 DEF Unique
<1> QED
  BY <1>1, <1>2

LEMMA MadeRow ==
  ASSUME NEW k \in Catalog, NEW o, Shaped(o), Unique(k), Apt(k, o)
  PROVE  LET r == Replay(k, o) IN
         /\ \A x \in Path : Has(r, x) /\ r[x].id \in o.ids =>
              /\ o.kind \in {"ingest", "move", "sync"}
              /\ o.kind \in {"ingest", "move"} => x = o.to
              /\ o.kind = "sync" => x = o.from
         /\ o.kind = "ingest" => r[o.to] = PutRow(o)
         /\ o.kind = "move" => r[o.to] = k[o.from] /\ r[o.from] = None
         /\ o.kind = "delete" => r[o.from] = None
         /\ o.kind = "sync" => /\ Has(r, o.from) /\ r[o.from].id = k[o.from].id
                               /\ r[o.from].mode = o.mode /\ r[o.from].sha = o.sha
<1> DEFINE r == Replay(k, o)
<1>1. r = [x \in Path |-> Effect(o, k, x)]
  BY ReplayAt
<1>2. o.kind \in Kind
  BY DEF Shaped, Op
<1> HIDE DEF r
<1>3. o.kind = "ingest" => r[o.to] = PutRow(o)
  BY <1>1, NamesOf DEF Effect
<1>4. o.kind = "move" => r[o.to] = k[o.from] /\ r[o.from] = None
  BY <1>1, NamesOf DEF Effect, Shaped
<1>5. o.kind = "delete" => r[o.from] = None
  <2> SUFFICES ASSUME o.kind = "delete" PROVE r[o.from] = None
    OBVIOUS
  <2>1. Names(o) = {o.from} /\ o.from \in Path /\ o.to = None
    BY NamesOf
  <2>2. o.from # o.to
    BY <2>1, VaultAssumption
  <2> QED
    BY <1>1, <2>1, <2>2 DEF Effect
<1>6. o.kind = "sync" => /\ Has(r, o.from) /\ r[o.from].id = k[o.from].id
                         /\ r[o.from].mode = o.mode /\ r[o.from].sha = o.sha
  <2> SUFFICES ASSUME o.kind = "sync"
               PROVE  /\ Has(r, o.from) /\ r[o.from].id = k[o.from].id
                      /\ r[o.from].mode = o.mode /\ r[o.from].sha = o.sha
    OBVIOUS
  <2>1. Names(o) = {o.from} /\ o.from \in Path /\ o.mode \in Mode /\ Has(k, o.from)
    BY NamesOf DEF Apt, Shaped
  <2> DEFINE f == SyncRow(k[o.from], o)
  <2>2. f \in File /\ f.id = k[o.from].id /\ f.mode = o.mode /\ f.sha = o.sha
    BY <2>1, RowFacts, SyncRowFacts
  <2>3. r[o.from] = f
    BY <1>1, <2>1 DEF Effect
  <2> HIDE DEF f
  <2> QED
    BY <2>2, <2>3, NoneAssumption DEF Has
<1>7. ASSUME NEW x \in Path, Has(r, x), r[x].id \in o.ids
      PROVE  /\ o.kind \in {"ingest", "move", "sync"}
             /\ o.kind \in {"ingest", "move"} => x = o.to
             /\ o.kind = "sync" => x = o.from
  <2>1. x \notin Names(o) => Has(k, x) /\ k[x].id \in o.ids /\ o.kind # "gc"
    <3>1. CASE o.kind = "gc"
      BY <1>1, <1>7, <3>1 DEF Effect, Has
    <3>2. CASE o.kind # "gc"
      BY <1>1, <1>7, <3>2 DEF Effect, Has
    <3> QED
      BY <3>1, <3>2
  <2>2. x \in Names(o)
    <3>1. SUFFICES ASSUME x \notin Names(o) PROVE FALSE
      OBVIOUS
    <3> QED
      BY <1>2, <2>1, <3>1, OwnRow, NamesOf DEF Kind
  <2> QED
    BY <1>2, <1>4, <1>5, <1>7, <2>2, NamesOf DEF Kind, Has
<1> QED
  BY <1>3, <1>4, <1>5, <1>6, <1>7 DEF r

(* A row of another file is what it was. *)
LEMMA OtherRow ==
  ASSUME NEW k \in Catalog, NEW o, Shaped(o), Unique(k), Apt(k, o), NEW x \in Path
  PROVE  LET r == Replay(k, o) IN
         /\ Has(r, x) /\ r[x].id \notin o.ids => r[x] = k[x]
         /\ Has(k, x) /\ k[x].id \notin o.ids /\ x # o.to => r[x] = k[x]
<1>1. Has(Replay(k, o), x) /\ Replay(k, o)[x].id \notin o.ids => Replay(k, o)[x] = k[x]
  BY ReplayTouches
<1>2. ASSUME Has(k, x), k[x].id \notin o.ids, x # o.to PROVE Replay(k, o)[x] = k[x]
  <2>1. x \notin Names(o)
    <3>1. o.kind \in Kind
      BY DEF Shaped, Op
    <3>2. o.kind \in {"delete", "move", "sync"} => x # o.from
      BY <1>2 DEF Apt
    <3> QED
      BY <1>2, <3>1, <3>2, NamesOf DEF Kind
  <2> QED
    BY <1>2, <2>1, ReplayTouches
<1> QED
  BY <1>1, <1>2

LEMMA GitRows ==
  ASSUME NEW k \in Catalog, NEW o, Shaped(o), Unique(k), Apt(k, o),
         Allowed(o),
         \A x \in Path : Has(k, x) /\ k[x].mode = "git" => k[x].id \in MayBeGit,
         NEW x \in Path, Has(Replay(k, o), x), Replay(k, o)[x].mode = "git"
  PROVE  Replay(k, o)[x].id \in MayBeGit
<1> DEFINE r == Replay(k, o)
<1>1. CASE r[x].id \notin o.ids
  BY <1>1, OtherRow DEF Has
<1>2. CASE r[x].id \in o.ids
  <2>1. o.kind \in {"ingest", "move", "sync"}
    BY <1>2, MadeRow
  <2>2. CASE o.kind = "ingest"
    <3>1. x = o.to /\ r[o.to] = PutRow(o)
      BY <1>2, <2>2, MadeRow
    <3>2. r[x].mode = "manual"
      BY <2>2, <3>1, PutRowFacts
    <3> QED
      BY <3>2
  <2>3. CASE o.kind = "move"
    <3>1. x = o.to /\ r[o.to] = k[o.from]
      BY <1>2, <2>3, MadeRow
    <3>2. Has(k, o.from) /\ o.from \in Path
      BY <2>3 DEF Apt, Shaped
    <3> QED
      BY <3>1, <3>2
  <2>4. CASE o.kind = "sync"
    <3>1. x = o.from
      BY <1>2, <2>4, MadeRow
    <3>2. r[o.from].mode = o.mode
      BY <2>4, MadeRow
    <3> QED
      BY <1>2, <2>4, <3>1, <3>2 DEF Allowed
  <2> QED
    BY <2>1, <2>2, <2>3, <2>4
<1> QED
  BY <1>1, <1>2

(* The rows it makes have a hash of their file. *)
LEMMA OwnedRows ==
  ASSUME NEW k \in Catalog, NEW o, Shaped(o), Unique(k), Apt(k, o), Allowed(o),
         \A x \in Path : Has(k, x) => k[x].sha \in Own(k[x].id),
         NEW x \in Path, Has(Replay(k, o), x)
  PROVE  Replay(k, o)[x].sha \in Own(Replay(k, o)[x].id)
<1> DEFINE r == Replay(k, o)
<1>1. CASE r[x].id \notin o.ids
  BY <1>1, OtherRow DEF Has
<1>2. CASE r[x].id \in o.ids
  <2>1. o.kind \in {"ingest", "move", "sync"}
    BY <1>2, MadeRow
  <2>2. CASE o.kind = "ingest"
    <3>1. r[x] = PutRow(o)
      BY <1>2, <2>2, MadeRow
    <3> QED
      BY <2>2, <3>1, PutRowFacts DEF Own
  <2>3. CASE o.kind = "move"
    <3>1. r[x] = k[o.from]
      BY <1>2, <2>3, MadeRow
    <3>2. Has(k, o.from) /\ o.from \in Path
      BY <2>3 DEF Apt, Shaped
    <3> QED
      BY <3>1, <3>2
  <2>4. CASE o.kind = "sync"
    <3>1. x = o.from /\ r[o.from].sha = o.sha
      BY <1>2, <2>4, MadeRow
    <3> QED
      BY <1>2, <2>4, <3>1 DEF Allowed
  <2> QED
    BY <2>1, <2>2, <2>3, <2>4
<1> QED
  BY <1>1, <1>2

-----------------------------------------------------------------------------
(* The log and its projection after an operation is marked. *)

LEMMA RestatedFacts ==
  ASSUME NEW j, Log(j), NEW n, Pending(j, n), NEW st \in {"done", "failed"},
         NEW i, Restated(j, n, i, st)
  PROVE  /\ i \in Seq(Entry) /\ DOMAIN i = DOMAIN j
         /\ \A m \in DOMAIN j : i[m].op = j[m].op
         /\ \A m \in DOMAIN j : m # n => i[m] = j[m] /\ i[m].state = j[m].state
         /\ n \in DOMAIN j /\ j[n].state = "intent" /\ i[n].state = st
         /\ \A m : Pending(i, m) <=> Pending(j, m) /\ m # n
         /\ \A x : Ingested(j, x) => Ingested(i, x)
         /\ \A x : Swept(i, x) => Swept(j, x)
         /\ \A x : Named(i, x) => Named(j, x)
         /\ \A x : x \notin j[n].op.ids => (Swept(i, x) <=> Swept(j, x)) /\ (Named(i, x) <=> Named(j, x))
         /\ st = "failed" => \A x : (Swept(i, x) <=> Swept(j, x)) /\ (Named(i, x) <=> Named(j, x))
<1>1. /\ i \in Seq(Entry) /\ DOMAIN i = DOMAIN j
      /\ \A m \in DOMAIN j : i[m].op = j[m].op
      /\ \A m \in DOMAIN j : m # n => i[m] = j[m]
      /\ n \in DOMAIN j /\ j[n].state = "intent" /\ i[n].state = st
  BY LogFacts DEF Restated, Pending
<1>2. st # "intent"
  OBVIOUS
<1>3. \A m : Pending(i, m) <=> Pending(j, m) /\ m # n
  BY <1>1, <1>2 DEF Pending
<1>4. \A x : Ingested(j, x) => Ingested(i, x)
  BY <1>1 DEF Ingested
<1>5. \A x : Swept(i, x) => Swept(j, x)
  BY <1>1 DEF Swept
<1>6. \A x : Named(i, x) => Named(j, x)
  BY <1>1 DEF Named
<1>7. \A x : (x \notin j[n].op.ids \/ st = "failed") /\ Swept(j, x) => Swept(i, x)
  BY <1>1 DEF Swept
<1>8. \A x : (x \notin j[n].op.ids \/ st = "failed") /\ Named(j, x) => Named(i, x)
  BY <1>1 DEF Named
<1> QED
  BY <1>1, <1>3, <1>4, <1>5, <1>6, <1>7, <1>8

LEMMA LogRestated ==
  ASSUME NEW j, Log(j), NEW n, Pending(j, n), NEW st \in {"done", "failed"},
         st = "failed" => j[n].op.kind = "gc", NEW i, Restated(j, n, i, st)
  PROVE  Log(i)
<1>1. /\ i \in Seq(Entry) /\ DOMAIN i = DOMAIN j
      /\ \A m \in DOMAIN j : i[m].op = j[m].op
      /\ \A m \in DOMAIN j : m # n => i[m].state = j[m].state
      /\ n \in DOMAIN j /\ i[n].state = st
      /\ \A m : Pending(i, m) <=> Pending(j, m) /\ m # n
      /\ \A x : Ingested(j, x) => Ingested(i, x)
  BY RestatedFacts
<1>2. ASSUME NEW m \in DOMAIN j
      PROVE  /\ i[m].state = "failed" => i[m].op.kind = "gc"
             /\ Allowed(i[m].op)
             /\ i[m].op.kind = "gc" => \A x \in i[m].op.ids : Ingested(i, x)
  <2>1. i[m].state = "failed" => i[m].op.kind = "gc"
    <3>1. CASE m = n
      BY <1>1, <3>1
    <3>2. CASE m # n
      BY <1>1, <3>2 DEF Log
    <3> QED
      BY <3>1, <3>2
  <2> QED
    BY <1>1, <2>1 DEF Log
<1>3. \A m, l \in DOMAIN j : SameOp(i[m].op, i[l].op) => m = l
  BY <1>1 DEF Log
<1>4. \A m, l \in DOMAIN j : m < l /\ Pending(i, m) => Distinct(i[m].op, i[l].op)
  BY <1>1 DEF Log
<1> QED
  BY <1>1, <1>2, <1>3, <1>4 DEF Log

LEMMA FitsFailed ==
  ASSUME NEW j, NEW k, Log(j), Fits(j, k), NEW n, Pending(j, n), NEW i, Restated(j, n, i, "failed")
  PROVE  Fits(i, k)
<1>1. /\ DOMAIN i = DOMAIN j
      /\ \A m \in DOMAIN j : i[m].op = j[m].op
      /\ \A m : Pending(i, m) <=> Pending(j, m) /\ m # n
      /\ \A x : Ingested(j, x) => Ingested(i, x)
  BY RestatedFacts
<1> QED
  BY <1>1 DEF Fits

LEMMA FitsDone ==
  ASSUME NEW j, NEW k, Log(j), Fits(j, k), NEW n, Pending(j, n), NEW i, Restated(j, n, i, "done")
  PROVE  Fits(i, Replay(k, j[n].op))
<1> DEFINE o == j[n].op
           r == Replay(k, o)
<1>1. /\ DOMAIN i = DOMAIN j /\ n \in DOMAIN j /\ i[n].state = "done"
      /\ \A m \in DOMAIN j : i[m].op = j[m].op
      /\ \A m : Pending(i, m) <=> Pending(j, m) /\ m # n
      /\ \A x : Ingested(j, x) => Ingested(i, x)
  BY RestatedFacts
<1>2. /\ k \in Catalog /\ Unique(k) /\ Apt(k, o) /\ Shaped(o)
      /\ \A m \in DOMAIN j : Pending(j, m) => Apt(k, j[m].op) /\ Shaped(j[m].op)
      /\ \A m \in DOMAIN j : Pending(j, m) /\ m # n => Distinct(o, j[m].op)
      /\ Allowed(o)
  BY <1>1, LogFacts DEF Fits, Log
<1> HIDE DEF o
<1>3. r \in Catalog /\ Unique(r)
  BY <1>2, ReplayTyped, UniqueKept
<1>4. ASSUME NEW m \in DOMAIN i, Pending(i, m) PROVE Apt(r, i[m].op)
  <2> DEFINE q == j[m].op
  <2>1. Apt(k, q) /\ Shaped(q) /\ Distinct(o, q) /\ i[m].op = q
    BY <1>1, <1>2, <1>4
  <2> HIDE DEF q
  <2> QED
    BY <1>2, <2>1, AptKept
<1>5. ASSUME NEW p \in Path, Has(r, p)
      PROVE  /\ Ingested(i, r[p].id)
             /\ r[p].sha \in Own(r[p].id)
             /\ r[p].mode = "git" => r[p].id \in MayBeGit
             /\ r[p].mode = "manual" => ~(\E m \in DOMAIN i : Pending(i, m) /\ i[m].op.kind = "gc" /\ r[p].id \in i[m].op.ids)
  <2>1. (r[p].mode = "git" => r[p].id \in MayBeGit) /\ r[p].sha \in Own(r[p].id)
    BY <1>2, <1>5, GitRows, OwnedRows DEF Fits
  <2>2. CASE r[p].id \notin o.ids
    <3>1. r[p] = k[p] /\ Has(k, p)
      BY <1>2, <1>5, <2>2, OtherRow DEF Has
    <3> QED
      BY <1>1, <2>1, <3>1 DEF Fits
  <2>3. CASE r[p].id \in o.ids
    <3>1. Ingested(i, r[p].id)
      <4>1. o.kind \in {"ingest", "move", "sync"} /\ \E x \in Path : o.ids = {x}
        BY <1>2, <1>5, <2>3, MadeRow DEF Shaped
      <4>2. CASE o.kind = "ingest"
        BY <1>1, <2>3, <4>2 DEF Ingested, o
      <4>3. CASE o.kind \in {"move", "sync"}
        <5>1. Has(k, o.from) /\ k[o.from].id \in o.ids /\ o.from \in Path
          BY <1>2, <4>3 DEF Apt, Shaped
        <5>2. k[o.from].id = r[p].id
          BY <2>3, <4>1, <5>1
        <5> QED
          BY <1>1, <5>1, <5>2 DEF Fits
      <4> QED
        BY <4>1, <4>2, <4>3
    <3>2. \A m \in DOMAIN i : Pending(i, m) => r[p].id \notin i[m].op.ids
      BY <1>1, <1>2, <2>3 DEF Distinct
    <3> QED
      BY <2>1, <3>1, <3>2
  <2> QED
    BY <2>2, <2>3
<1> QED
  BY <1>3, <1>4, <1>5 DEF Fits, o
-----------------------------------------------------------------------------
(* The catalog and the blobs after an operation is marked. *)

(* What is known of a pending operation. *)
LEMMA PendingFacts ==
  ASSUME NEW j, NEW k, Log(j), Fits(j, k), NEW n, Pending(j, n)
  PROVE  LET o == j[n].op IN
         /\ n \in DOMAIN j /\ k \in Catalog /\ Unique(k) /\ Shaped(o) /\ Apt(k, o)
         /\ o.kind # "gc" => \E i \in Path : o.ids = {i}
         /\ o.ids \subseteq Path
         /\ \A m \in DOMAIN j : Pending(j, m) /\ m # n => Distinct(o, j[m].op)
         /\ \A i \in o.ids : Named(j, i) /\ (o.kind = "gc" => Swept(j, i))
<1> DEFINE o == j[n].op
<1>1. n \in DOMAIN j /\ j[n].state = "intent" /\ Shaped(o)
  BY LogFacts DEF Pending
<1>2. /\ o.ids \subseteq Path
      /\ o.kind # "gc" => \E i \in Path : o.ids = {i}
  BY <1>1 DEF Shaped, Op
<1>3. \A i \in o.ids : Named(j, i) /\ (o.kind = "gc" => Swept(j, i))
  BY <1>1 DEF Named, Swept
<1>4. \A m \in DOMAIN j : Pending(j, m) /\ m # n => Distinct(o, j[m].op)
  BY <1>1, LogFacts
<1> QED
  BY <1>1, <1>2, <1>3, <1>4 DEF Fits

LEMMA ExplainedDone ==
  ASSUME NEW j, NEW k, NEW t, Log(j), Fits(j, k), Explained(j, k, t), t \in Catalog,
         NEW n, Pending(j, n), NEW i, Restated(j, n, i, "done"), Agrees(j[n].op, k, t)
  PROVE  Explained(i, Replay(k, j[n].op), t)
<1> DEFINE o == j[n].op
           r == Replay(k, o)
<1>1. /\ DOMAIN i = DOMAIN j
      /\ \A m \in DOMAIN j : i[m].op = j[m].op
      /\ \A m : Pending(i, m) <=> Pending(j, m) /\ m # n
  BY RestatedFacts
<1>2. /\ n \in DOMAIN j /\ k \in Catalog /\ Unique(k) /\ Shaped(o) /\ Apt(k, o)
      /\ \A m \in DOMAIN j : Pending(j, m) /\ m # n => Distinct(o, j[m].op)
  BY PendingFacts
<1>3. Agrees(o, k, t)
  OBVIOUS
<1> HIDE DEF o
(* Another file's row is as the operation leaves it. *)
<1>4. ASSUME NEW p \in Path, Has(t, p), t[p].id \notin o.ids, t[p] = k[p] PROVE r[p] = k[p]
  <2>1. CASE p # o.to
    BY <1>2, <1>4, <2>1, OtherRow DEF Has
  <2>2. CASE p = o.to
    <3>1. o.kind \in {"ingest", "move"}
      <4>1. o.kind \in Kind /\ o.to # None
        BY <1>2, <2>2, VaultAssumption DEF Shaped, Op
      <4> QED
        BY <1>2, <4>1 DEF Shaped
    <3>2. Has(r, p) /\ r[p].id \in o.ids
      <4>1. CASE o.kind = "ingest"
        <5>1. r[p] = PutRow(o) /\ o.to \in Path /\ o.ids = {o.to}
          BY <1>2, <2>2, <4>1, MadeRow DEF Shaped
        <5> HIDE DEF r
        <5>2. r[p].id = o.to /\ r[p] # None
          BY <1>2, <4>1, <5>1, PutRowFacts
        <5> QED
          BY <5>1, <5>2 DEF Has
      <4>2. CASE o.kind = "move"
        <5>1. r[p] = k[o.from]
          BY <1>2, <2>2, <4>2, MadeRow
        <5> QED
          BY <1>2, <4>2, <5>1 DEF Apt, Has
      <4> QED
        BY <3>1, <4>1, <4>2
    <3>3. t[p] = r[p]
      BY <1>3, <3>2 DEF Agrees
    <3> QED
      BY <1>4, <3>2, <3>3
  <2> QED
    BY <2>1, <2>2
<1>5. ASSUME NEW p \in Path, Has(t, p)
      PROVE  \/ t[p] = r[p]
             \/ \E m \in DOMAIN i : Pending(i, m) /\ t[p].id \in i[m].op.ids /\ t[p] = Replay(r, i[m].op)[p]
  <2>1. CASE t[p].id \in o.ids
    BY <1>3, <1>5, <2>1 DEF Agrees
  <2>2. CASE t[p].id \notin o.ids /\ t[p] = k[p]
    BY <1>4, <1>5, <2>2
  <2>3. ASSUME t[p].id \notin o.ids, t[p] # k[p]
        PROVE  \E m \in DOMAIN i : Pending(i, m) /\ t[p].id \in i[m].op.ids /\ t[p] = Replay(r, i[m].op)[p]
    <3>1. PICK m \in DOMAIN j : Pending(j, m) /\ t[p].id \in j[m].op.ids /\ t[p] = Replay(k, j[m].op)[p]
      BY <1>5, <2>3 DEF Explained
    <3> DEFINE q == j[m].op
    <3>2. m # n
      BY <2>3, <3>1 DEF o
    <3>3. Shaped(q) /\ Apt(k, q) /\ Distinct(o, q)
      BY <1>2, <3>1, <3>2, PendingFacts
    <3>4. i[m].op = q /\ Pending(i, m) /\ m \in DOMAIN i /\ t[p].id \in q.ids
      BY <1>1, <3>1, <3>2
    <3> HIDE DEF q
    <3>5. t[p] = Replay(k, q)[p]
      BY <3>1 DEF q
    <3>6. p \in Names(q)
      <4>1. Has(Replay(k, q), p) /\ Replay(k, q)[p].id \in q.ids
        BY <1>5, <3>4, <3>5 DEF Has
      <4>2. /\ q.kind \in {"ingest", "move", "sync"}
            /\ q.kind \in {"ingest", "move"} => p = q.to
            /\ q.kind = "sync" => p = q.from
        BY <1>2, <3>3, <4>1, MadeRow
      <4> QED
        BY <3>3, <4>2, NamesOf
    <3>7. p # o.to
      <4>1. p \notin Names(o)
        BY <3>3, <3>6 DEF Distinct
      <4> QED
        BY <4>1, VaultAssumption DEF Names
    <3>8. Replay(r, q) = Replay(Replay(k, q), o)
      BY <1>2, <3>3, ReplayCommutes
    <3>9. Replay(k, q) \in Catalog /\ Unique(Replay(k, q)) /\ Apt(Replay(k, q), o)
      <4>1. Distinct(q, o)
        BY <3>3 DEF Distinct
      <4> QED
        BY <1>2, <3>3, <4>1, ReplayTyped, UniqueKept, AptKept
    <3> DEFINE kq == Replay(k, q)
    <3>10. kq \in Catalog /\ Unique(kq) /\ Apt(kq, o) /\ Has(kq, p) /\ kq[p].id \notin o.ids
      BY <1>5, <2>3, <3>5, <3>9 DEF Has
    <3> HIDE DEF kq
    <3>11. Replay(kq, o)[p] = kq[p]
      BY <1>2, <3>7, <3>10, OtherRow
    <3>12. t[p] = Replay(r, q)[p]
      BY <3>5, <3>8, <3>11 DEF kq
    <3> QED
      BY <3>4, <3>12
  <2> QED
    BY <2>1, <2>2, <2>3
<1> QED
  BY <1>5 DEF Explained, o

LEMMA CompleteDone ==
  ASSUME NEW j, NEW k, NEW t, Log(j), Fits(j, k), Complete(j, k, t),
         NEW n, Pending(j, n), NEW i, Restated(j, n, i, "done"), Agrees(j[n].op, k, t)
  PROVE  Complete(i, Replay(k, j[n].op), t)
<1> DEFINE o == j[n].op
           r == Replay(k, o)
<1>1. k \in Catalog /\ Unique(k) /\ Shaped(o) /\ Apt(k, o)
  BY PendingFacts
<1>2. \A x : x \notin o.ids => (Named(i, x) <=> Named(j, x))
  BY RestatedFacts
<1>3. Agrees(o, k, t)
  OBVIOUS
<1> HIDE DEF o
<1>4. ASSUME NEW p \in Path, Has(r, p), ~Named(i, r[p].id) PROVE t[p] = r[p]
  <2>1. CASE r[p].id \in o.ids
    BY <1>3, <1>4, <2>1 DEF Agrees
  <2>2. CASE r[p].id \notin o.ids
    <3>1. r[p] = k[p]
      BY <1>1, <1>4, <2>2, OtherRow
    <3> QED
      BY <1>2, <1>4, <2>2, <3>1 DEF Complete, Has
  <2> QED
    BY <2>1, <2>2
<1> QED
  BY <1>4 DEF Complete, o

LEMMA ShadowedDone ==
  ASSUME NEW j, NEW k, Log(j), Fits(j, k), Shadowed(j, k),
         NEW n, Pending(j, n), NEW i, Restated(j, n, i, "done")
  PROVE  Shadowed(i, Replay(k, j[n].op))
<1> DEFINE o == j[n].op
           r == Replay(k, o)
<1>1. k \in Catalog /\ Unique(k) /\ Shaped(o) /\ Apt(k, o)
  BY PendingFacts
<1>2. /\ DOMAIN i = DOMAIN j
      /\ \A m \in DOMAIN j : i[m].op = j[m].op
      /\ \A m : Pending(i, m) <=> Pending(j, m) /\ m # n
      /\ \A x : x \notin o.ids => (Swept(i, x) <=> Swept(j, x))
  BY RestatedFacts
<1>3. \A m \in DOMAIN j : Pending(j, m) /\ m # n => Distinct(o, j[m].op) /\ Shaped(j[m].op)
  BY PendingFacts, LogFacts
<1> HIDE DEF o
<1>4. ASSUME NEW m \in DOMAIN j, Pending(j, m), m # n, j[m].op.to # None, Has(r, j[m].op.to)
      PROVE  Swept(i, r[j[m].op.to].id)
  <2> DEFINE p == j[m].op.to
  <2>1. p \in Path /\ p \in Names(j[m].op) /\ p \notin Names(o)
    BY <1>3, <1>4 DEF Distinct, Names, Shaped, Op
  <2> HIDE DEF p
  <2>2. r[p].id \notin o.ids /\ r[p] = k[p]
    <3>1. r[p].id \in o.ids => p \in Names(o)
      <4>1. SUFFICES ASSUME r[p].id \in o.ids PROVE p \in Names(o)
        OBVIOUS
      <4>2. /\ o.kind \in {"ingest", "move", "sync"}
            /\ o.kind \in {"ingest", "move"} => p = o.to
            /\ o.kind = "sync" => p = o.from
        BY <1>1, <1>4, <2>1, <4>1, MadeRow DEF p
      <4> QED
        BY <1>1, <4>2, NamesOf
    <3>2. r[p].id \notin o.ids
      BY <2>1, <3>1
    <3> QED
      BY <1>1, <1>4, <2>1, <3>2, OtherRow DEF p
  <2>3. Has(k, p)
    BY <1>4, <2>2 DEF Has, p
  <2>4. Swept(j, k[p].id)
    BY <1>4, <2>3 DEF Shadowed, p
  <2> QED
    BY <1>2, <2>2, <2>4 DEF p
<1> QED
  BY <1>2, <1>4 DEF Shadowed, o

LEMMA StoredDone ==
  ASSUME NEW j, NEW k, NEW t, NEW s, Log(j), Fits(j, k), Stored(j, k, t, s),
         NEW n, Pending(j, n), NEW i, Restated(j, n, i, "done")
  PROVE  Stored(i, Replay(k, j[n].op), t, s)
<1> DEFINE o == j[n].op
           r == Replay(k, o)
<1>1. /\ DOMAIN i = DOMAIN j
      /\ \A m \in DOMAIN j : i[m].op = j[m].op
      /\ \A m : Pending(i, m) <=> Pending(j, m) /\ m # n
      /\ \A x : x \notin o.ids => (Swept(i, x) <=> Swept(j, x))
  BY RestatedFacts
<1>2. /\ \A m \in DOMAIN j : Pending(j, m) /\ m # n => Distinct(o, j[m].op)
      /\ k \in Catalog /\ Unique(k) /\ Shaped(o) /\ Apt(k, o)
  BY PendingFacts
<1> HIDE DEF o
<1>3. ASSUME NEW x, x \notin o.ids, Backed(k, x, s) PROVE Backed(r, x, s)
  <2>1. SUFFICES ASSUME NEW p \in Path, Has(r, p), r[p].id = x PROVE r[p].sha \in s
    BY DEF Backed
  <2>2. r[p] = k[p]
    BY <1>2, <1>3, <2>1, OtherRow
  <2> QED
    BY <1>3, <2>1, <2>2 DEF Backed, Has
<1> HIDE DEF r
<1>4. ASSUME NEW m \in DOMAIN i, Pending(i, m), i[m].op.kind \in {"move", "sync"}, NEW x \in i[m].op.ids
      PROVE  HasFile(t, x) /\ (Swept(i, x) \/ (Backed(r, x, s) /\ Backed(t, x, s)))
  <2>1. x \notin o.ids
    BY <1>1, <1>2, <1>4 DEF Distinct
  <2>2. HasFile(t, x) /\ (Swept(j, x) \/ (Backed(k, x, s) /\ Backed(t, x, s)))
    BY <1>1, <1>4 DEF Stored
  <2> QED
    BY <1>1, <1>3, <2>1, <2>2
<1> QED
  BY <1>4 DEF Stored, r, o

LEMMA BalancedDone ==
  ASSUME NEW j, NEW k, NEW t, NEW s, Log(j), Fits(j, k), t \in Catalog,
         Stored(j, k, t, s), Balanced(j, t, s),
         NEW n, Pending(j, n), NEW i, Restated(j, n, i, "done"),
         Agrees(j[n].op, k, t), Settled(j[n].op, s)
  PROVE  Balanced(i, t, s)
<1> DEFINE o == j[n].op
           r == Replay(k, o)
<1>1. /\ n \in DOMAIN j /\ k \in Catalog /\ Unique(k) /\ Shaped(o) /\ Apt(k, o)
      /\ o.kind \in Kind
  BY PendingFacts DEF Shaped, Op
<1>2. /\ \A x : x \notin o.ids => (Named(i, x) <=> Named(j, x))
      /\ DOMAIN i = DOMAIN j
      /\ \A m \in DOMAIN j : i[m].op = j[m].op
      /\ \A m \in DOMAIN j : m # n => i[m] = j[m]
  BY RestatedFacts
<1>3. Agrees(o, k, t) /\ Settled(o, s)
  OBVIOUS
<1>4. ASSUME o.kind \in {"move", "sync"}, NEW x \in o.ids
      PROVE  Backed(t, x, s) \/ Named(i, x)
  <2>1. Swept(j, x) \/ Backed(t, x, s)
    BY <1>1, <1>4 DEF Stored
  <2>2. Swept(j, x) => Named(i, x)
    BY <1>2, <1>4 DEF Swept, Named
  <2> QED
    BY <2>1, <2>2
<1> HIDE DEF o
<1>5. ASSUME NEW p \in Path, Has(t, p) PROVE t[p].sha \in s \/ Named(i, t[p].id)
  <2>1. CASE t[p].id \notin o.ids
    BY <1>2, <1>5, <2>1 DEF Balanced
  <2>2. CASE t[p].id \in o.ids
    <3>1. t[p] = r[p] /\ Has(r, p)
      BY <1>3, <1>5, <2>2 DEF Agrees, Has
    <3>2. o.kind \in {"ingest", "move", "sync"}
      BY <1>1, <2>2, <3>1, MadeRow
    <3>3. CASE o.kind = "ingest"
      <4>1. t[p] = PutRow(o)
        BY <1>1, <2>2, <3>1, <3>3, MadeRow
      <4> QED
        BY <1>1, <1>3, <3>3, <4>1, PutRowFacts DEF Settled
    <3>4. CASE o.kind \in {"move", "sync"}
      BY <1>4, <1>5, <2>2, <3>4 DEF Backed
    <3> QED
      BY <3>2, <3>3, <3>4
  <2> QED
    BY <2>1, <2>2
<1> QED
  BY <1>5 DEF Balanced

(* A pending operation whose effect is there is marked done. *)
LEMMA SoundDone ==
  ASSUME NEW j, NEW k, NEW t, NEW s, Log(j), Fits(j, k), Sound(j, k, t, s),
         NEW n, Pending(j, n), NEW i, Restated(j, n, i, "done"),
         Agrees(j[n].op, k, t), Settled(j[n].op, s)
  PROVE  Sound(i, Replay(k, j[n].op), t, s)
<1>1. /\ t \in Catalog /\ s \in SUBSET Sha /\ Unique(t)
      /\ Explained(j, k, t) /\ Complete(j, k, t) /\ Shadowed(j, k)
      /\ Stored(j, k, t, s) /\ Balanced(j, t, s)
  BY DEF Sound
<1> QED
  BY <1>1, ExplainedDone, CompleteDone, ShadowedDone, StoredDone, BalancedDone DEF Sound

(* A sweep is given up. *)
LEMMA SoundFailed ==
  ASSUME NEW j, NEW k, NEW t, NEW s, Log(j), Fits(j, k), Sound(j, k, t, s),
         NEW n, Pending(j, n), j[n].op.kind = "gc", NEW i, Restated(j, n, i, "failed")
  PROVE  Sound(i, k, t, s)
<1> DEFINE o == j[n].op
<1>1. /\ t \in Catalog /\ s \in SUBSET Sha /\ Unique(t)
      /\ Explained(j, k, t) /\ Complete(j, k, t) /\ Shadowed(j, k)
      /\ Stored(j, k, t, s) /\ Balanced(j, t, s)
  BY DEF Sound
<1>2. /\ DOMAIN i = DOMAIN j
      /\ \A m \in DOMAIN j : i[m].op = j[m].op
      /\ \A m : Pending(i, m) <=> Pending(j, m) /\ m # n
      /\ \A x : (Swept(i, x) <=> Swept(j, x)) /\ (Named(i, x) <=> Named(j, x))
  BY RestatedFacts
<1>3. ASSUME NEW p \in Path, Has(t, p)
      PROVE  \/ t[p] = k[p]
             \/ \E m \in DOMAIN i : Pending(i, m) /\ t[p].id \in i[m].op.ids /\ t[p] = Replay(k, i[m].op)[p]
  <2>1. SUFFICES ASSUME t[p] # k[p]
                 PROVE  \E m \in DOMAIN i : Pending(i, m) /\ t[p].id \in i[m].op.ids /\ t[p] = Replay(k, i[m].op)[p]
    OBVIOUS
  <2>2. PICK m \in DOMAIN j : Pending(j, m) /\ t[p].id \in j[m].op.ids /\ t[p] = Replay(k, j[m].op)[p]
    BY <1>1, <1>3, <2>1 DEF Explained
  <2>3. m # n
    <3>1. k \in Catalog /\ Unique(k) /\ Shaped(o) /\ Apt(k, o) /\ o.kind = "gc"
      BY PendingFacts
    <3> HIDE DEF o
    <3>2. Has(Replay(k, o), p) => Replay(k, o)[p].id \notin o.ids
      BY <3>1, MadeRow
    <3> QED
      BY <1>3, <2>2, <3>2 DEF Has, o
  <2> QED
    BY <1>2, <2>2, <2>3
<1>4. Explained(i, k, t)
  BY <1>3 DEF Explained
<1>5. Complete(i, k, t) /\ Shadowed(i, k) /\ Stored(i, k, t, s)
  BY <1>1, <1>2 DEF Complete, Shadowed, Stored
<1>6. Balanced(i, t, s)
  BY <1>1, <1>2 DEF Balanced
<1> QED
  BY <1>1, <1>4, <1>5, <1>6 DEF Sound
-----------------------------------------------------------------------------
(* A new intent. *)

LEMMA FreeRow ==
  ASSUME NEW j, NEW k, NEW t, Explained(j, k, t), NEW p \in Path, Has(t, p), ~Held(j, t[p].id)
  PROVE  t[p] = k[p]
BY DEF Explained, Held, Pending

(* i is j with a pending entry of o at its end, l. *)
Extends(j, o, i, l) ==
  /\ i \in Seq(Entry) /\ DOMAIN i = 1 .. l /\ DOMAIN j = 1 .. Len(j) /\ Len(j) \in Nat
  /\ l = Len(j) + 1
  /\ \A n \in DOMAIN j : i[n] = j[n] /\ n < l
  /\ i[l].op = o /\ i[l].state = "intent" /\ l \in DOMAIN i
  /\ \A n \in DOMAIN i : n \in DOMAIN j \/ n = l
  /\ \A n : Pending(i, n) <=> Pending(j, n) \/ n = l
  /\ \A n : Pending(i, n) => n \in DOMAIN i
  /\ \A n : Pending(j, n) => n \in DOMAIN j
  /\ \A x : Named(i, x) <=> Named(j, x) \/ x \in o.ids
  /\ \A x : Swept(i, x) <=> Swept(j, x) \/ (o.kind = "gc" /\ x \in o.ids)
  /\ \A x : Ingested(i, x) <=> Ingested(j, x)

LEMMA AppendFacts ==
  ASSUME NEW j, Log(j), NEW o, Shaped(o), NEW i, i = Append(j, [op |-> o, state |-> "intent"])
  PROVE  Extends(j, o, i, Len(j) + 1)
<1> DEFINE l == Len(j) + 1
           e == [op |-> o, state |-> "intent"]
<1>1. e \in Entry /\ e.op = o /\ e.state = "intent"
  BY DEF Entry, Shaped, State
<1> HIDE DEF e
<1>2. /\ i \in Seq(Entry) /\ DOMAIN i = 1 .. l /\ DOMAIN j = 1 .. Len(j) /\ Len(j) \in Nat
      /\ \A n \in 1 .. Len(j) : i[n] = j[n]
      /\ i[l] = e
  BY <1>1, LogFacts DEF e
<1>3. /\ \A n \in DOMAIN j : i[n] = j[n] /\ n < l /\ n \in DOMAIN i /\ n # l
      /\ \A n \in DOMAIN i : n \in DOMAIN j \/ n = l
      /\ l \in DOMAIN i
  BY <1>2
<1>4. \A n : Pending(i, n) <=> Pending(j, n) \/ n = l
  BY <1>1, <1>2, <1>3 DEF Pending
<1>5. \A x : Named(i, x) <=> Named(j, x) \/ x \in o.ids
  <2> HIDE DEF l
  <2> QED
    BY <1>1, <1>2, <1>3 DEF Named
<1>6. \A x : Swept(i, x) <=> Swept(j, x) \/ (o.kind = "gc" /\ x \in o.ids)
  <2> HIDE DEF l
  <2> QED
    BY <1>1, <1>2, <1>3 DEF Swept
<1>7. \A x : Ingested(i, x) <=> Ingested(j, x)
  <2> HIDE DEF l
  <2> QED
    BY <1>1, <1>2, <1>3 DEF Ingested
<1>8. /\ \A n : Pending(i, n) => n \in DOMAIN i
      /\ \A n : Pending(j, n) => n \in DOMAIN j
  BY DEF Pending
<1> QED
  BY <1>1, <1>2, <1>3, <1>4, <1>5, <1>6, <1>7, <1>8 DEF Extends

ListedAsGit(t, x) == \E p \in Path : Has(t, p) /\ t[p].id = x /\ t[p].mode = "git"

(* What the catalog says of the files and paths of a command that is about  *)
(* to journal its operation.                                                *)
Opens(o, t) ==
  /\ o.kind \in {"ingest", "move"} => ~Has(t, o.to)
  /\ o.kind \in {"delete", "move", "sync"} => Has(t, o.from) /\ t[o.from].id \in o.ids
  /\ o.kind = "gc" => \A x \in o.ids : ListedAsGit(t, x)

(* No operation is journaled that is there, or names a file that is held. *)
New(o, j) ==
  /\ \A n \in DOMAIN j : ~SameOp(j[n].op, o)
  /\ \A x \in o.ids : ~Held(j, x)

(* What gc is about to sweep is listed once, as git, and was put. *)
LEMMA SweepRow ==
  ASSUME NEW j, NEW k, NEW t, Fits(j, k), Explained(j, k, t), NEW o, Opens(o, t), New(o, j),
         o.kind = "gc", Shaped(o), NEW x \in o.ids
  PROVE  /\ Ingested(j, x) /\ HasFile(t, x)
         /\ \A p \in Path : Has(k, p) /\ k[p].id = x => k[p].mode = "git"
<1>1. PICK p \in Path : Has(t, p) /\ t[p].id = x /\ t[p].mode = "git"
  BY DEF Opens, ListedAsGit
<1>2. Has(t, p) /\ t[p].id = x /\ t[p].mode = "git" /\ x \in Path
  BY <1>1 DEF Shaped, Op
<1>3. t[p] = k[p]
  BY <1>2, FreeRow DEF New
<1>4. Ingested(j, x) /\ HasFile(t, x)
  BY <1>2, <1>3 DEF Fits, HasFile, Has
<1>5. ASSUME NEW q \in Path, Has(k, q), k[q].id = x PROVE k[q].mode = "git"
  <2>1. q = p
    BY <1>2, <1>3, <1>5 DEF Fits, Unique, Has
  <2> QED
    BY <1>2, <1>3, <2>1
<1> QED
  BY <1>4, <1>5

LEMMA AptNow ==
  ASSUME NEW j, NEW k, NEW t, Log(j), Fits(j, k), Explained(j, k, t),
         NEW o, Shaped(o), Opens(o, t), New(o, j)
  PROVE  Apt(k, o)
<1>1. ASSUME o.kind = "ingest", HasFile(k, o.to) PROVE FALSE
  <2>1. PICK p \in Path : Has(k, p) /\ k[p].id = o.to
    BY <1>1 DEF HasFile
  <2>2. Ingested(j, o.to)
    BY <2>1 DEF Fits
  <2>3. PICK m \in DOMAIN j : j[m].op.kind = "ingest" /\ o.to \in j[m].op.ids
    BY <2>2 DEF Ingested
  <2>4. Shaped(j[m].op)
    BY LogFacts
  <2>5. j[m].op.ids = o.ids /\ j[m].op.to = o.to /\ j[m].op.mode = o.mode
    BY <1>1, <2>3, <2>4 DEF Shaped
  <2> QED
    BY <1>1, <2>3, <2>5 DEF New, SameOp
<1>2. ASSUME o.kind \in {"delete", "move", "sync"} PROVE Has(k, o.from) /\ k[o.from].id \in o.ids
  <2>1. Has(t, o.from) /\ t[o.from].id \in o.ids /\ o.from \in Path
    BY <1>2 DEF Opens, Shaped
  <2>2. t[o.from] = k[o.from]
    BY <2>1, FreeRow DEF New
  <2> QED
    BY <2>1, <2>2 DEF Has
<1> QED
  BY <1>1, <1>2 DEF Apt

LEMMA NewDistinct ==
  ASSUME NEW j, Log(j), NEW o, Asked(o, j), New(o, j), NEW m \in DOMAIN j, Pending(j, m)
  PROVE  Distinct(j[m].op, o)
<1>1. j[m].op.ids \cap o.ids = {}
  BY DEF New, Held, Pending
<1> QED
  BY <1>1 DEF Asked, Distinct, Pending

LEMMA LogAppend ==
  ASSUME NEW j, NEW k, NEW t, Log(j), Fits(j, k), Explained(j, k, t), NEW o, Asked(o, j),
         Opens(o, t), New(o, j), NEW i, i = Append(j, [op |-> o, state |-> "intent"])
  PROVE  Log(i)
<1> DEFINE l == Len(j) + 1
<1>0. Extends(j, o, i, l)
  BY AppendFacts DEF Asked
<1>1. /\ i \in Seq(Entry) /\ DOMAIN j = 1 .. Len(j) /\ Len(j) \in Nat
      /\ \A n \in DOMAIN j : i[n] = j[n] /\ n < l
      /\ i[l].op = o /\ i[l].state = "intent" /\ l \in DOMAIN i
      /\ \A n : Pending(i, n) <=> Pending(j, n) \/ n = l
      /\ \A n \in DOMAIN i : n \in DOMAIN j \/ n = l
      /\ \A x : Ingested(i, x) <=> Ingested(j, x)
  BY <1>0 DEF Extends
<1>2. \A n \in DOMAIN i : n \in Nat /\ ~(l < n) /\ l \in Nat
  BY <1>0 DEF Extends
<1> HIDE DEF l
<1>3. ASSUME NEW n \in DOMAIN i
      PROVE  /\ i[n].state = "failed" => i[n].op.kind = "gc"
             /\ Allowed(i[n].op)
             /\ i[n].op.kind = "gc" => \A x \in i[n].op.ids : Ingested(i, x)
  <2>1. CASE n \in DOMAIN j
    BY <1>1, <2>1 DEF Log
  <2>2. CASE n = l
    BY <1>1, <2>2, SweepRow DEF Asked
  <2> QED
    BY <1>1, <2>1, <2>2
<1>4. ASSUME NEW m \in DOMAIN i, NEW n \in DOMAIN i, SameOp(i[m].op, i[n].op) PROVE m = n
  <2>1. CASE m \in DOMAIN j /\ n \in DOMAIN j
    BY <1>1, <1>4, <2>1 DEF Log
  <2>2. CASE m = l /\ n \in DOMAIN j
    <3>1. SameOp(j[n].op, o)
      BY <1>1, <1>4, <2>2 DEF SameOp
    <3> QED
      BY <2>2, <3>1 DEF New
  <2>3. CASE m \in DOMAIN j /\ n = l
    BY <1>1, <1>4, <2>3 DEF New
  <2> QED
    BY <1>1, <2>1, <2>2, <2>3
<1>5. ASSUME NEW m \in DOMAIN i, NEW n \in DOMAIN i, m < n, Pending(i, m)
      PROVE  Distinct(i[m].op, i[n].op)
  <2>1. m # l
    BY <1>2, <1>5
  <2>2. m \in DOMAIN j /\ Pending(j, m) /\ i[m].op = j[m].op
    BY <1>1, <1>5, <2>1
  <2>3. CASE n \in DOMAIN j
    BY <1>1, <1>5, <2>2, <2>3 DEF Log
  <2>4. CASE n = l
    BY <1>1, <2>2, <2>4, NewDistinct
  <2> QED
    BY <1>1, <2>3, <2>4
<1> QED
  BY <1>1, <1>3, <1>4, <1>5 DEF Log

LEMMA ChainAppend ==
  ASSUME NEW j, Log(j), Chain(j), NEW o, Shaped(o), Apt(Projection(j), o),
         NEW i, i = Append(j, [op |-> o, state |-> "intent"])
  PROVE  Chain(i) /\ Projection(i) = Projection(j)
<1> DEFINE P == History(j)
           Q == History(i)
           e == [op |-> o, state |-> "intent"]
           l == Len(j) + 1
<1>1. e \in Entry /\ e.op = o /\ e.state = "intent" /\ j \in Seq(Entry) /\ Len(j) \in Nat
  BY LogFacts DEF Entry, Shaped, State
<1>2. /\ Len(i) = l /\ DOMAIN i = 1 .. l
      /\ \A n \in DOMAIN j : i[n] = j[n]
      /\ i[l] = e
      /\ \A n \in 0 .. Len(j) : Q[n] = P[n]
      /\ Q[l] = Projection(j)
      /\ Projection(i) = Projection(j)
  <2> HIDE DEF e
  <2> QED
    BY <1>1, AppendHistory DEF e
<1>3. /\ \A n \in 0 .. Len(j) : Unique(P[n])
      /\ \A n \in 1 .. Len(j) : j[n].state = "done" => Apt(P[n - 1], j[n].op)
      /\ \A n \in 1 .. Len(j) : Pending(j, n) => \A m \in n .. Len(j) : Apt(P[m], j[n].op)
      /\ Projection(j) = P[Len(j)] /\ DOMAIN j = 1 .. Len(j)
  BY ChainFacts, LogFacts
<1>4. Apt(Q[l], o) /\ Q[l] = P[Len(j)] /\ Unique(Q[l])
  BY <1>1, <1>2, <1>3
<1> HIDE DEF P, Q, e
<1>5. \A n \in 0 .. l : Unique(Q[n])
  BY <1>1, <1>2, <1>3, <1>4
<1>6. ASSUME NEW n \in 1 .. l, i[n].state = "done" PROVE Apt(Q[n - 1], i[n].op)
  <2>1. n \in 1 .. Len(j)
    BY <1>1, <1>2, <1>6
  <2>2. n - 1 \in 0 .. Len(j) /\ i[n] = j[n] /\ Q[n - 1] = P[n - 1]
    BY <1>1, <1>2, <1>3, <2>1
  <2> QED
    BY <1>3, <1>6, <2>1, <2>2
<1>7. ASSUME NEW n \in 1 .. l, Pending(i, n), NEW m \in n .. l PROVE Apt(Q[m], i[n].op)
  <2>1. CASE n = l
    <3>1. m = l
      BY <1>1, <2>1
    <3> QED
      BY <1>1, <1>2, <1>4, <2>1, <3>1
  <2>2. CASE n \in 1 .. Len(j)
    <3>1. Pending(j, n) /\ i[n] = j[n] /\ n \in n .. Len(j) /\ Len(j) \in n .. Len(j)
      BY <1>1, <1>2, <1>3, <1>7, <2>2 DEF Pending
    <3>2. CASE m = l
      <4>1. Apt(P[Len(j)], j[n].op)
        BY <1>3, <2>2, <3>1
      <4> QED
        BY <1>4, <3>1, <3>2, <4>1
    <3>3. CASE m \in n .. Len(j)
      <4>1. Q[m] = P[m]
        BY <1>1, <1>2, <2>2, <3>3
      <4>2. Apt(P[m], j[n].op)
        BY <1>3, <2>2, <3>1, <3>3
      <4> QED
        BY <3>1, <4>1, <4>2
    <3> QED
      BY <1>1, <3>2, <3>3
  <2> QED
    BY <1>1, <2>1, <2>2
<1>8. Chain(i)
  <2>1. \A n \in 0 .. Len(i) : Unique(Q[n])
    BY <1>2, <1>5
  <2>2. \A n \in DOMAIN i : i[n].state = "done" => Apt(Q[n - 1], i[n].op)
    BY <1>2, <1>6
  <2>3. \A n \in DOMAIN i : Pending(i, n) => \A m \in n .. Len(i) : Apt(Q[m], i[n].op)
    BY <1>2, <1>7
  <2> QED
    BY <2>1, <2>2, <2>3 DEF Chain, Q
<1> QED
  BY <1>2, <1>8

LEMMA FitsAppend ==
  ASSUME NEW j, NEW k, NEW t, Log(j), Fits(j, k), Explained(j, k, t), NEW o, Asked(o, j),
         Opens(o, t), New(o, j), NEW i, i = Append(j, [op |-> o, state |-> "intent"])
  PROVE  Fits(i, k)
<1> DEFINE l == Len(j) + 1
<1>0. Extends(j, o, i, l)
  BY AppendFacts DEF Asked
<1>1. /\ \A n \in DOMAIN j : i[n] = j[n]
      /\ i[l].op = o
      /\ \A n : Pending(i, n) <=> Pending(j, n) \/ n = l
      /\ \A n \in DOMAIN i : n \in DOMAIN j \/ n = l
      /\ \A x : Ingested(i, x) <=> Ingested(j, x)
      /\ \A n : Pending(j, n) => n \in DOMAIN j
  BY <1>0 DEF Extends
<1> HIDE DEF l
<1>2. Apt(k, o)
  BY AptNow DEF Asked
<1>3. \A n \in DOMAIN i : Pending(i, n) => Apt(k, i[n].op)
  BY <1>1, <1>2 DEF Fits
<1>4. ASSUME NEW p \in Path, Has(k, p), k[p].mode = "manual", NEW n \in DOMAIN i, Pending(i, n),
             i[n].op.kind = "gc", k[p].id \in i[n].op.ids
      PROVE  FALSE
  <2>1. CASE n = l
    <3>1. o.kind = "gc" /\ k[p].id \in o.ids
      BY <1>1, <1>4, <2>1
    <3>2. k[p].mode = "git"
      BY <1>4, <3>1, SweepRow DEF Asked
    <3> QED
      BY <1>4, <3>2
  <2>2. CASE Pending(j, n)
    BY <1>1, <1>4, <2>2 DEF Fits
  <2> QED
    BY <1>1, <1>4, <2>1, <2>2
<1> QED
  BY <1>1, <1>3, <1>4 DEF Fits

(* A pending operation whose file's row in the projection is at a path of a *)
(* new operation is a sweep.                                                *)
LEMMA InTheWay ==
  ASSUME NEW j, NEW k, Log(j), Fits(j, k), NEW o, Asked(o, j), New(o, j),
         NEW p \in Names(o), p \in Path, Has(k, p),
         NEW m \in DOMAIN j, j[m].state # "done", k[p].id \in j[m].op.ids
  PROVE  j[m].op.kind = "gc"
<1> DEFINE q == j[m].op
<1>1. CASE j[m].state = "failed"
  BY <1>1 DEF Log
<1>2. CASE j[m].state = "intent"
  <2>1. Pending(j, m)
    BY <1>2 DEF Pending
  <2>2. k \in Catalog /\ Unique(k) /\ Shaped(q) /\ Apt(k, q)
    BY <2>1, PendingFacts
  <2>3. p \notin Names(q)
    BY <2>1, NewDistinct DEF Distinct
  <2> HIDE DEF q
  <2>4. k[p].id \in q.ids
    BY DEF q
  <2>5. q.kind # "ingest" /\ (q.kind \in {"delete", "move", "sync"} => p = q.from)
    BY <2>2, <2>4, OwnRow
  <2>6. q.kind \in Kind
    BY <2>2 DEF Shaped, Op
  <2>7. q.kind = "gc"
    BY <2>2, <2>3, <2>5, <2>6, NamesOf DEF Kind
  <2> QED
    BY <2>7 DEF q
<1> QED
  BY <1>1, <1>2, LogFacts DEF State

LEMMA ShadowedAppend ==
  ASSUME NEW j, NEW k, NEW t, NEW s, Log(j), Fits(j, k), Sound(j, k, t, s), NEW o, Asked(o, j),
         Opens(o, t), New(o, j), NEW i, i = Append(j, [op |-> o, state |-> "intent"])
  PROVE  Shadowed(i, k)
<1> DEFINE l == Len(j) + 1
<1>0. Extends(j, o, i, l)
  BY AppendFacts DEF Asked
<1>1. /\ \A n \in DOMAIN j : i[n] = j[n]
      /\ i[l].op = o
      /\ \A n : Pending(i, n) <=> Pending(j, n) \/ n = l
      /\ \A n : Pending(j, n) => n \in DOMAIN j
      /\ \A x : Swept(j, x) => Swept(i, x)
  BY <1>0 DEF Extends
<1> HIDE DEF l
<1>2. ASSUME o.to # None, Has(k, o.to)
      PROVE  Swept(j, k[o.to].id)
  <2> DEFINE p == o.to
             x == k[p].id
  <2>1. o.kind \in {"ingest", "move"} /\ p \in Path /\ p \in Names(o)
    BY <1>2 DEF Asked, Shaped, Op, Names
  <2>2. ~Has(t, p)
    BY <2>1 DEF Opens
  <2>3. \A m \in DOMAIN j : j[m].state # "done" /\ x \in j[m].op.ids => j[m].op.kind = "gc"
    BY <1>2, <2>1, InTheWay
  <2>4. Swept(j, x)
    <3>1. t[p] # k[p]
      BY <1>2, <2>2 DEF Has
    <3>2. Named(j, x)
      BY <1>2, <2>1, <3>1 DEF Sound, Complete
    <3> QED
      BY <2>3, <3>2 DEF Named, Swept
  <2> QED
    BY <2>4
<1>3. ASSUME NEW n, Pending(i, n), i[n].op.to # None, Has(k, i[n].op.to)
      PROVE  Swept(i, k[i[n].op.to].id)
  <2>1. CASE n = l
    BY <1>1, <1>2, <1>3, <2>1
  <2>2. CASE Pending(j, n)
    <3>1. i[n] = j[n] /\ n \in DOMAIN j
      BY <1>1, <2>2
    <3> QED
      BY <1>1, <1>3, <2>2, <3>1 DEF Sound, Shadowed
  <2> QED
    BY <1>1, <1>3, <2>1, <2>2
<1> QED
  BY <1>3 DEF Shadowed

LEMMA SoundAppend ==
  ASSUME NEW j, NEW k, NEW t, NEW s, Log(j), Fits(j, k), Sound(j, k, t, s), NEW o, Asked(o, j),
         Opens(o, t), New(o, j), NEW i, i = Append(j, [op |-> o, state |-> "intent"])
  PROVE  Sound(i, k, t, s)
<1> DEFINE l == Len(j) + 1
<1>0. /\ t \in Catalog /\ s \in SUBSET Sha /\ Unique(t)
      /\ Explained(j, k, t) /\ Complete(j, k, t) /\ Shadowed(j, k)
      /\ Stored(j, k, t, s) /\ Balanced(j, t, s)
  BY DEF Sound
<1>8. Extends(j, o, i, l)
  BY AppendFacts DEF Asked
<1>1. /\ \A n \in DOMAIN j : i[n] = j[n]
      /\ i[l].op = o /\ l \in DOMAIN i
      /\ \A n : Pending(i, n) <=> Pending(j, n) \/ n = l
      /\ \A n : Pending(j, n) => n \in DOMAIN j
      /\ \A n : Pending(i, n) => n \in DOMAIN i
      /\ \A x : Named(i, x) <=> Named(j, x) \/ x \in o.ids
      /\ \A x : Swept(i, x) <=> Swept(j, x) \/ (o.kind = "gc" /\ x \in o.ids)
  BY <1>8 DEF Extends
<1> HIDE DEF l
<1>2. Explained(i, k, t)
  BY <1>0, <1>1 DEF Explained
<1>3. Complete(i, k, t)
  BY <1>0, <1>1 DEF Complete
<1>4. ASSUME o.kind \in {"move", "sync"}, NEW x \in o.ids
      PROVE  HasFile(t, x) /\ (Swept(j, x) \/ (Backed(k, x, s) /\ Backed(t, x, s)))
  <2>1. Has(t, o.from) /\ o.from \in Path /\ t[o.from].id = x
    BY <1>4 DEF Opens, Asked, Shaped
  <2>2. t[o.from].sha \in s \/ Named(j, x)
    BY <1>0, <2>1 DEF Balanced
  <2>3. Named(j, x) => Swept(j, x)
    <3>1. \A n \in DOMAIN j : j[n].state \in State
      BY LogFacts
    <3>2. ~Held(j, x)
      BY DEF New
    <3> QED
      BY <3>1, <3>2 DEF Named, Swept, Held, Log, State
  <2>4. t[o.from] = k[o.from]
    BY <1>0, <2>1, FreeRow DEF New
  <2>5. \A p \in Path : Has(t, p) /\ t[p].id = x => p = o.from
    BY <1>0, <2>1 DEF Unique
  <2>6. \A p \in Path : Has(k, p) /\ k[p].id = x => p = o.from
    BY <2>1, <2>4 DEF Unique, Fits, Has
  <2>7. t[o.from].sha \in s => Backed(k, x, s) /\ Backed(t, x, s)
    BY <2>4, <2>5, <2>6 DEF Backed
  <2> QED
    BY <2>1, <2>2, <2>3, <2>7 DEF HasFile
<1>5. Stored(i, k, t, s)
  <2>1. ASSUME NEW n, Pending(i, n), i[n].op.kind \in {"move", "sync"}, NEW x \in i[n].op.ids
        PROVE  HasFile(t, x) /\ (Swept(i, x) \/ (Backed(k, x, s) /\ Backed(t, x, s)))
    <3>1. CASE n = l
      BY <1>1, <1>4, <2>1, <3>1
    <3>2. CASE Pending(j, n)
      <4>1. i[n] = j[n] /\ n \in DOMAIN j
        BY <1>1, <3>2
      <4> QED
        BY <1>0, <1>1, <2>1, <3>2, <4>1 DEF Stored
    <3> QED
      BY <1>1, <2>1, <3>1, <3>2
  <2> QED
    BY <2>1 DEF Stored
<1>7. Balanced(i, t, s)
  BY <1>0, <1>1 DEF Balanced
<1> QED
  BY <1>0, <1>2, <1>3, <1>5, <1>7, ShadowedAppend DEF Sound
-----------------------------------------------------------------------------
(* A catalog is overwritten. *)

LEMMA FileEq ==
  ASSUME NEW f \in File, NEW g \in File, f.id = g.id, f.mode = g.mode, f.sha = g.sha
  PROVE  f = g
BY DEF File

(* The rows of a pending operation's file: as before it or as after it. *)
LEMMA BeforeOrAfter ==
  ASSUME NEW j, NEW k, NEW t, Log(j), Fits(j, k), Explained(j, k, t), NEW n, Pending(j, n),
         NEW p \in Path, Has(t, p), t[p].id \in j[n].op.ids
  PROVE  /\ t[p] = k[p] \/ t[p] = Replay(k, j[n].op)[p]
         /\ t[p] = k[p] => p = j[n].op.from \/ j[n].op.kind = "gc"
         /\ t[p] # k[p] => /\ j[n].op.kind \in {"ingest", "move", "sync"}
                           /\ j[n].op.kind \in {"ingest", "move"} => p = j[n].op.to
                           /\ j[n].op.kind = "sync" => p = j[n].op.from
<1> DEFINE o == j[n].op
<1>1. t[p] = k[p] \/ t[p] = Replay(k, o)[p]
  <2>1. SUFFICES ASSUME t[p] # k[p] PROVE t[p] = Replay(k, o)[p]
    OBVIOUS
  <2>2. PICK m \in DOMAIN j : Pending(j, m) /\ t[p].id \in j[m].op.ids /\ t[p] = Replay(k, j[m].op)[p]
    BY <2>1 DEF Explained
  <2>3. m = n
    BY <2>2, PendingFacts DEF Distinct
  <2> QED
    BY <2>2, <2>3
<1>2. k \in Catalog /\ Unique(k) /\ Shaped(o) /\ Apt(k, o) /\ o.kind \in Kind
  BY PendingFacts DEF Shaped, Op
<1>3. Has(t, p) /\ t[p].id \in o.ids
  OBVIOUS
<1> HIDE DEF o
<1>4. t[p] = k[p] => p = o.from \/ o.kind = "gc"
  BY <1>2, <1>3, OwnRow DEF Has, Kind
<1>5. ASSUME t[p] # k[p]
      PROVE  /\ o.kind \in {"ingest", "move", "sync"}
             /\ o.kind \in {"ingest", "move"} => p = o.to
             /\ o.kind = "sync" => p = o.from
  <2>1. Has(Replay(k, o), p) /\ Replay(k, o)[p].id \in o.ids
    BY <1>1, <1>3, <1>5 DEF Has
  <2> QED
    BY <1>2, <2>1, MadeRow
<1> QED
  BY <1>1, <1>4, <1>5 DEF o

(* A row of another file at a path of a pending operation is what the log   *)
(* projects to.                                                             *)
LEMMA ForeignRow ==
  ASSUME NEW j, NEW k, NEW t, Log(j), Fits(j, k), Explained(j, k, t), NEW n, Pending(j, n),
         NEW p \in Path, p \in Names(j[n].op), Has(t, p), t[p].id \notin j[n].op.ids
  PROVE  t[p] = k[p]
<1>1. SUFFICES ASSUME t[p] # k[p] PROVE FALSE
  OBVIOUS
<1>2. PICK m \in DOMAIN j : Pending(j, m) /\ t[p].id \in j[m].op.ids /\ t[p] = Replay(k, j[m].op)[p]
  BY <1>1 DEF Explained
<1> DEFINE q == j[m].op
<1>3. m # n
  BY <1>2
<1>4. p \notin Names(q)
  BY <1>2, <1>3, PendingFacts DEF Distinct
<1>5. k \in Catalog /\ Unique(k) /\ Shaped(q) /\ Apt(k, q)
  BY <1>2, PendingFacts
<1> HIDE DEF q
<1>6. Has(Replay(k, q), p) /\ Replay(k, q)[p].id \in q.ids
  BY <1>2 DEF Has, q
<1>7. /\ q.kind \in {"ingest", "move", "sync"}
      /\ q.kind \in {"ingest", "move"} => p = q.to
      /\ q.kind = "sync" => p = q.from
  BY <1>5, <1>6, MadeRow
<1> QED
  BY <1>4, <1>5, <1>7, NamesOf

(* The catalog lists a file with a hash of its own, and as git only when it *)
(* may be.                                                                  *)
LEMMA Listed ==
  ASSUME NEW j, NEW k, NEW t, Log(j), Fits(j, k), Explained(j, k, t), NEW p \in Path, Has(t, p)
  PROVE  t[p].sha \in Own(t[p].id) /\ (t[p].mode = "git" => t[p].id \in MayBeGit)
<1>1. /\ k \in Catalog /\ Unique(k)
      /\ \A x \in Path : Has(k, x) => k[x].sha \in Own(k[x].id)
      /\ \A x \in Path : Has(k, x) /\ k[x].mode = "git" => k[x].id \in MayBeGit
  BY DEF Fits
<1>2. CASE t[p] = k[p]
  BY <1>1, <1>2 DEF Has
<1>3. ASSUME NEW n \in DOMAIN j, Pending(j, n), t[p] = Replay(k, j[n].op)[p]
      PROVE  t[p].sha \in Own(t[p].id) /\ (t[p].mode = "git" => t[p].id \in MayBeGit)
  <2> DEFINE o == j[n].op
             r == Replay(k, o)
  <2>1. Shaped(o) /\ Apt(k, o)
    BY <1>3, PendingFacts
  <2>2. Allowed(o)
    BY DEF Log
  <2>3. Has(r, p) /\ r[p] = t[p]
    BY <1>3 DEF Has
  <2> HIDE DEF o
  <2>4. r[p].sha \in Own(r[p].id)
    BY <1>1, <2>1, <2>2, <2>3, OwnedRows
  <2>5. r[p].mode = "git" => r[p].id \in MayBeGit
    BY <1>1, <2>1, <2>2, <2>3, GitRows
  <2> HIDE DEF r
  <2> QED
    BY <2>3, <2>4, <2>5
<1> QED
  BY <1>2, <1>3 DEF Explained

(* The catalog u has the rows o is to leave, and of other files those of t; *)
(* only a row at o's destination that the log projects to may be missing.   *)
Written(o, k, t, u) ==
  /\ u \in Catalog
  /\ Agrees(o, k, u)
  /\ \A p \in Path : Has(u, p) /\ u[p].id \notin o.ids => u[p] = t[p]
  /\ \A p \in Path : Has(t, p) /\ t[p].id \notin o.ids => u[p] = t[p] \/ (p = o.to /\ t[p] = k[p])

(* The blob the write of o waits for. *)
Fit(o, j, s) ==
  /\ o.kind = "ingest" => Content[o.to] \in s
  /\ o.kind = "sync" => o.sha \in s \/ \A i \in o.ids : Swept(j, i)

(* A row that is overwritten is one gc has swept. *)
LEMMA LostRow ==
  ASSUME NEW j, NEW k, NEW t, NEW s, Log(j), Fits(j, k), Sound(j, k, t, s), NEW n, Pending(j, n),
         NEW u, Written(j[n].op, k, t, u), NEW p \in Path, Has(t, p), t[p].id \notin j[n].op.ids
  PROVE  u[p] = t[p] \/ (p = j[n].op.to /\ t[p] = k[p] /\ Swept(j, t[p].id))
<1>1. SUFFICES ASSUME u[p] # t[p]
               PROVE  p = j[n].op.to /\ t[p] = k[p] /\ Swept(j, t[p].id)
  OBVIOUS
<1>2. p = j[n].op.to /\ t[p] = k[p]
  BY <1>1 DEF Written
<1>3. Has(k, j[n].op.to) /\ j[n].op.to # None
  BY <1>2, VaultAssumption DEF Has
<1> QED
  BY <1>2, <1>3, PendingFacts DEF Sound, Shadowed

LEMMA SoundWritten ==
  ASSUME OneAtATime, NEW j, NEW k, NEW t, NEW s, Log(j), Fits(j, k), Sound(j, k, t, s),
         NEW n, Pending(j, n), NEW u, Written(j[n].op, k, t, u), Fit(j[n].op, j, s)
  PROVE  Sound(j, k, u, s) /\ Settled(j[n].op, s)
<1> DEFINE o == j[n].op
           r == Replay(k, o)
<1>0. /\ t \in Catalog /\ s \in SUBSET Sha /\ Unique(t)
      /\ Explained(j, k, t) /\ Complete(j, k, t) /\ Shadowed(j, k)
      /\ Stored(j, k, t, s) /\ Balanced(j, t, s)
  BY DEF Sound
<1>1. /\ n \in DOMAIN j /\ k \in Catalog /\ Unique(k) /\ Shaped(o) /\ Apt(k, o) /\ o.kind \in Kind
      /\ o.kind # "gc" => \E i \in Path : o.ids = {i}
      /\ o.ids \subseteq Path
      /\ \A m \in DOMAIN j : Pending(j, m) /\ m # n => Distinct(o, j[m].op)
      /\ \A i \in o.ids : Named(j, i)
  BY PendingFacts DEF Shaped, Op
<1>2. /\ u \in Catalog /\ Agrees(o, k, u)
      /\ \A p \in Path : Has(u, p) /\ u[p].id \notin o.ids => u[p] = t[p]
  BY DEF Written
<1>3. \A p \in Path : Has(t, p) /\ t[p].id \notin o.ids =>
        u[p] = t[p] \/ (p = o.to /\ t[p] = k[p] /\ Swept(j, t[p].id))
  BY LostRow
<1>4. Fit(o, j, s)
  OBVIOUS
<1>5. Pending(j, n) /\ j[n].op = o
  OBVIOUS
<1>6. r \in Catalog /\ Unique(r)
  BY <1>1, ReplayTyped, UniqueKept
<1>7. /\ \A p \in Path : Has(r, p) /\ r[p].id \in o.ids => o.kind \in {"ingest", "move", "sync"}
      /\ o.kind = "ingest" => r[o.to] = PutRow(o)
      /\ o.kind = "move" => r[o.to] = k[o.from]
      /\ o.kind = "sync" => Has(r, o.from) /\ r[o.from].id = k[o.from].id /\ r[o.from].sha = o.sha
      /\ \A p \in Path : Has(r, p) /\ r[p].id \in o.ids =>
           (o.kind = "move" => p = o.to) /\ (o.kind = "sync" => p = o.from)
  BY <1>1, MadeRow
<1> HIDE DEF o, r
<1>8. \A p \in Path : Has(u, p) /\ u[p].id \in o.ids => u[p] = r[p]
  BY <1>2 DEF Agrees, r
(* Its file is listed once it is put, moved or switched. *)
<1>9. ASSUME o.kind \in {"ingest", "move", "sync"}, NEW x \in o.ids PROVE HasFile(u, x)
  <2>1. PICK p \in Path : Has(r, p) /\ r[p].id = x
    <3>1. CASE o.kind = "ingest"
      <4>1. o.to \in Path /\ x = o.to /\ r[x] = PutRow(o)
        BY <1>1, <1>7, <1>9, <3>1 DEF Shaped
      <4> QED
        BY <1>1, <3>1, <4>1, PutRowFacts DEF Has
    <3>2. CASE o.kind \in {"move", "sync"}
      <4>1. Has(k, o.from) /\ k[o.from].id = x
        BY <1>1, <1>9, <3>2 DEF Apt
      <4>2. CASE o.kind = "move"
        BY <1>1, <1>7, <4>1, <4>2 DEF Has, Shaped
      <4>3. CASE o.kind = "sync"
        BY <1>1, <1>7, <4>1, <4>3 DEF Shaped
      <4> QED
        BY <3>2, <4>2, <4>3
    <3> QED
      BY <1>9, <3>1, <3>2
  <2>2. u[p] = r[p]
    BY <1>2, <1>9, <2>1 DEF Agrees, r
  <2> QED
    BY <2>1, <2>2 DEF HasFile, Has
<1>10. Unique(u)
  BY <1>0, <1>2, <1>6, <1>8 DEF Unique, Has
<1>11. Explained(j, k, u)
  <2>1. ASSUME NEW p \in Path, Has(u, p), u[p].id \in o.ids
        PROVE  Pending(j, n) /\ u[p].id \in j[n].op.ids /\ u[p] = Replay(k, j[n].op)[p]
    BY <1>5, <1>8, <2>1 DEF r
  <2> QED
    BY <1>0, <1>1, <1>2, <2>1 DEF Explained, Has
<1>12. Complete(j, k, u)
  <2>1. ASSUME NEW p \in Path, Has(k, p), ~Named(j, k[p].id) PROVE u[p] = k[p]
    <3>1. t[p] = k[p] /\ Has(t, p) /\ t[p].id \notin o.ids
      BY <1>0, <1>1, <2>1 DEF Complete, Has
    <3>2. Swept(j, k[p].id) => Named(j, k[p].id)
      BY DEF Swept, Named
    <3> QED
      BY <1>3, <2>1, <3>1, <3>2
  <2> QED
    BY <2>1 DEF Complete
<1>13. Stored(j, k, u, s)
  <2>1. ASSUME NEW m \in DOMAIN j, Pending(j, m), j[m].op.kind \in {"move", "sync"},
               NEW x \in j[m].op.ids
        PROVE  HasFile(u, x) /\ (Swept(j, x) \/ (Backed(k, x, s) /\ Backed(u, x, s)))
    <3>1. HasFile(t, x) /\ (Swept(j, x) \/ (Backed(k, x, s) /\ Backed(t, x, s)))
      BY <1>0, <2>1 DEF Stored
    <3>2. CASE m = n
      <4>1. HasFile(u, x) /\ o.kind \in {"move", "sync"} /\ x \in o.ids
        BY <1>5, <1>9, <2>1, <3>2
      <4>2. SUFFICES ASSUME ~Swept(j, x), NEW p \in Path, Has(u, p), u[p].id = x PROVE u[p].sha \in s
        BY <3>1, <4>1 DEF Backed
      <4>3. u[p] = r[p] /\ Has(r, p) /\ r[p].id \in o.ids
        BY <1>8, <4>1, <4>2 DEF Has
      <4>4. CASE o.kind = "move"
        <5>1. u[p] = k[o.from] /\ Has(k, o.from) /\ k[o.from].id = x /\ o.from \in Path
          BY <1>1, <1>7, <4>2, <4>3, <4>4 DEF Apt, Shaped, Has
        <5> QED
          BY <3>1, <4>2, <5>1 DEF Backed
      <4>5. CASE o.kind = "sync"
        BY <1>4, <1>7, <4>1, <4>2, <4>3, <4>5 DEF Fit
      <4> QED
        BY <4>1, <4>4, <4>5
    <3>3. CASE m # n
      <4> DEFINE q == j[m].op
      <4>1. Distinct(o, q) /\ Apt(k, q) /\ Shaped(q) /\ q.kind \in {"move", "sync"} /\ x \in q.ids
        BY <1>1, <2>1, <3>3, PendingFacts
      <4> HIDE DEF q
      <4>2. PICK p \in Path : Has(t, p) /\ t[p].id = x
        BY <3>1 DEF HasFile
      <4>3. x \notin o.ids
        BY <4>1 DEF Distinct
      <4>4. t[p] = k[p] => p \in Names(q)
        <5>1. SUFFICES ASSUME t[p] = k[p] PROVE p \in Names(q)
          OBVIOUS
        <5>2. p = q.from
          BY <1>1, <4>1, <4>2, <5>1, OwnRow DEF Has
        <5> QED
          BY <4>1, <5>2, NamesOf
      <4>5. p # o.to \/ t[p] # k[p]
        <5>1. p = o.to => p \in Names(o)
          BY VaultAssumption DEF Names
        <5> QED
          BY <4>1, <4>4, <5>1 DEF Distinct
      <4>6. u[p] = t[p]
        BY <1>3, <4>2, <4>3, <4>5
      <4>7. Backed(t, x, s) => Backed(u, x, s)
        BY <1>2, <4>3 DEF Backed, Has
      <4> QED
        BY <3>1, <4>2, <4>6, <4>7 DEF HasFile, Has
    <3> QED
      BY <3>2, <3>3
  <2> QED
    BY <1>1, <2>1, PendingFacts DEF Stored
<1>14. Balanced(j, u, s)
  BY <1>0, <1>1, <1>2 DEF Balanced, Has
<1>15. Settled(o, s)
  BY <1>4 DEF Settled, Fit
<1> QED
  BY <1>0, <1>2, <1>10, <1>11, <1>12, <1>13, <1>14, <1>15 DEF Sound, o
-----------------------------------------------------------------------------
(* What each command writes. *)

LEMMA WrittenPut ==
  ASSUME NEW j, NEW k, NEW t, Log(j), Fits(j, k), Explained(j, k, t), t \in Catalog,
         NEW n, Pending(j, n), NEW o, o = j[n].op, o.kind = "ingest", ~Has(t, o.to)
  PROVE  Written(o, k, t, With(t, o.to, PutRow(o)))
<1> DEFINE f == PutRow(o)
           u == With(t, o.to, f)
           r == Replay(k, o)
<1>1. k \in Catalog /\ Unique(k) /\ Shaped(o) /\ Apt(k, o) /\ o.to \in Path /\ o.ids = {o.to}
  BY PendingFacts DEF Shaped
<1>2. f \in File /\ f # None /\ f.id = o.to
  BY <1>1, PutRowFacts
<1>3. r[o.to] = f
  BY <1>1, MadeRow
<1> HIDE DEF f, r
<1>4. u \in Catalog /\ u[o.to] = f /\ \A p \in Path : p # o.to => u[p] = t[p]
  BY <1>1, <1>2 DEF With, Catalog
<1>5. \A p \in Path : Has(t, p) /\ t[p].id \in o.ids => p = o.to
  <2>1. SUFFICES ASSUME NEW p \in Path, Has(t, p), t[p].id \in o.ids PROVE p = o.to
    OBVIOUS
  <2>2. t[p] # k[p]
    BY <1>1, <2>1, OwnRow DEF Has
  <2> QED
    BY <2>1, <2>2, BeforeOrAfter
<1>6. \A p \in Path : Has(r, p) /\ r[p].id \in o.ids => p = o.to
  BY <1>1, MadeRow DEF r
<1> HIDE DEF u
<1>7. Agrees(o, k, u)
  <2>1. \A p \in Path : Has(u, p) /\ u[p].id \in o.ids => u[p] = r[p]
    BY <1>3, <1>4, <1>5 DEF Has
  <2>2. \A p \in Path : Has(r, p) /\ r[p].id \in o.ids => u[p] = r[p]
    BY <1>3, <1>4, <1>6
  <2> QED
    BY <2>1, <2>2 DEF Agrees, r
<1>8. Written(o, k, t, u)
  BY <1>1, <1>2, <1>4, <1>7 DEF Written, Has
<1> QED
  BY <1>8 DEF u, f

LEMMA WrittenRm ==
  ASSUME NEW j, NEW k, NEW t, Log(j), Fits(j, k), t \in Catalog, Unique(t),
         NEW n, Pending(j, n), NEW o, o = j[n].op, o.kind = "delete",
         Has(t, o.from), t[o.from].id \in o.ids
  PROVE  Written(o, k, t, Without(t, o.from))
<1> DEFINE u == Without(t, o.from)
           r == Replay(k, o)
<1>1. k \in Catalog /\ Unique(k) /\ Shaped(o) /\ Apt(k, o) /\ o.from \in Path /\ \E i \in Path : o.ids = {i}
  BY PendingFacts DEF Shaped
<1>2. u \in Catalog /\ u[o.from] = None /\ \A p \in Path : p # o.from => u[p] = t[p]
  BY <1>1 DEF Without, Catalog
<1>3. \A p \in Path : Has(r, p) => r[p].id \notin o.ids
  BY <1>1, MadeRow
<1>4. \A p \in Path : Has(t, p) /\ t[p].id \in o.ids => p = o.from
  BY <1>1 DEF Unique
<1> HIDE DEF u, r
<1>5. Agrees(o, k, u)
  <2>1. \A p \in Path : Has(u, p) => u[p].id \notin o.ids
    BY <1>2, <1>4 DEF Has
  <2> QED
    BY <1>3, <2>1 DEF Agrees, r
<1>6. Written(o, k, t, u)
  BY <1>2, <1>5 DEF Written, Has
<1> QED
  BY <1>6 DEF u

(* A row is moved, whatever is at its new place. *)
LEMMA WrittenMove ==
  ASSUME NEW j, NEW k, NEW t, Log(j), Fits(j, k), Explained(j, k, t), t \in Catalog, Unique(t),
         NEW n, Pending(j, n), NEW o, o = j[n].op, o.kind = "move",
         Has(t, o.from), t[o.from].id \in o.ids
  PROVE  Written(o, k, t, With(Without(t, o.from), o.to, t[o.from]))
<1> DEFINE f == t[o.from]
           u == With(Without(t, o.from), o.to, f)
           r == Replay(k, o)
<1>1. /\ k \in Catalog /\ Unique(k) /\ Shaped(o) /\ Apt(k, o) /\ o.from \in Path /\ o.to \in Path
      /\ o.to # o.from /\ \E i \in Path : o.ids = {i}
  BY PendingFacts DEF Shaped
<1>2. f \in File /\ f.id \in o.ids /\ f # None
  BY <1>1, RowFacts DEF Has
<1>3. u \in Catalog /\ u[o.from] = None /\ u[o.to] = f
  BY <1>1, <1>2 DEF With, Without, Catalog
<1>4. \A p \in Path : p # o.from /\ p # o.to => u[p] = t[p]
  BY <1>1 DEF With, Without, Catalog
<1>5. f = k[o.from]
  BY <1>1, BeforeOrAfter
<1>6. r[o.to] = f /\ r[o.from] = None
  BY <1>1, <1>5, MadeRow
<1>7. \A p \in Path : Has(r, p) /\ r[p].id \in o.ids => p = o.to
  BY <1>1, MadeRow
<1>8. \A p \in Path : Has(t, p) /\ t[p].id \in o.ids => p = o.from
  BY <1>1 DEF Unique
<1>9. Has(t, o.to) /\ t[o.to].id \notin o.ids => t[o.to] = k[o.to]
  BY <1>1, ForeignRow, NamesOf
<1> HIDE DEF u, r, f
<1>10. Agrees(o, k, u)
  <2>1. \A p \in Path : Has(u, p) /\ u[p].id \in o.ids => u[p] = r[p]
    BY <1>1, <1>3, <1>4, <1>6, <1>8 DEF Has
  <2>2. \A p \in Path : Has(r, p) /\ r[p].id \in o.ids => u[p] = r[p]
    BY <1>3, <1>6, <1>7
  <2> QED
    BY <2>1, <2>2 DEF Agrees, r
<1>11. \A p \in Path : Has(u, p) /\ u[p].id \notin o.ids => u[p] = t[p]
  BY <1>2, <1>3, <1>4 DEF Has
<1>12. \A p \in Path : Has(t, p) /\ t[p].id \notin o.ids => u[p] = t[p] \/ (p = o.to /\ t[p] = k[p])
  BY <1>4, <1>9
<1>13. Written(o, k, t, u)
  BY <1>3, <1>10, <1>11, <1>12 DEF Written
<1> QED
  BY <1>13 DEF u, f

LEMMA WrittenSync ==
  ASSUME NEW j, NEW k, NEW t, Log(j), Fits(j, k), Explained(j, k, t), t \in Catalog, Unique(t),
         NEW n, Pending(j, n), NEW o, o = j[n].op, o.kind = "sync",
         Has(t, o.from), t[o.from].id \in o.ids
  PROVE  Written(o, k, t, With(t, o.from, SyncRow(t[o.from], o)))
<1> DEFINE f == SyncRow(t[o.from], o)
           u == With(t, o.from, f)
           r == Replay(k, o)
<1>1. /\ k \in Catalog /\ Unique(k) /\ Shaped(o) /\ Apt(k, o) /\ o.from \in Path /\ o.mode \in Mode
      /\ \E i \in Path : o.ids = {i}
  BY PendingFacts DEF Shaped
<1>2. /\ t[o.from] \in File /\ f \in File /\ f.id = t[o.from].id /\ f # None
      /\ f.mode = o.mode /\ f.sha = o.sha
  <2>1. t[o.from] \in File
    BY <1>1, RowFacts
  <2> QED
    BY <1>1, <2>1, SyncRowFacts
<1>3. r[o.from] = f
  <2>1. /\ r \in Catalog /\ Has(r, o.from) /\ r[o.from].id = k[o.from].id
        /\ r[o.from].mode = o.mode /\ r[o.from].sha = o.sha
    BY <1>1, MadeRow, ReplayTyped
  <2>2. r[o.from] \in File
    BY <1>1, <2>1, RowFacts
  <2>3. k[o.from].id = t[o.from].id
    BY <1>1 DEF Apt
  <2> HIDE DEF r, f
  <2> QED
    BY <1>2, <2>1, <2>2, <2>3, FileEq
<1> HIDE DEF f
<1>4. u \in Catalog /\ u[o.from] = f /\ \A p \in Path : p # o.from => u[p] = t[p]
  BY <1>1, <1>2 DEF With, Catalog
<1>5. \A p \in Path : Has(r, p) /\ r[p].id \in o.ids => p = o.from
  BY <1>1, MadeRow
<1>6. \A p \in Path : Has(t, p) /\ t[p].id \in o.ids => p = o.from
  BY <1>1 DEF Unique
<1> HIDE DEF u, r
<1>7. Agrees(o, k, u)
  <2>1. \A p \in Path : Has(u, p) /\ u[p].id \in o.ids => u[p] = r[p]
    BY <1>3, <1>4, <1>6 DEF Has
  <2>2. \A p \in Path : Has(r, p) /\ r[p].id \in o.ids => u[p] = r[p]
    BY <1>3, <1>4, <1>5
  <2> QED
    BY <2>1, <2>2 DEF Agrees, r
<1>8. Written(o, k, t, u)
  BY <1>2, <1>4, <1>7 DEF Written, Has
<1> QED
  BY <1>8 DEF u, f

(* A sweep drops the rows of its files, which share no content. *)
LEMMA WrittenGc ==
  ASSUME NEW j, NEW k, NEW t, Log(j), Fits(j, k), t \in Catalog,
         NEW n, Pending(j, n), NEW o, o = j[n].op, o.kind = "gc"
  PROVE  Written(o, k, t, WithoutFiles(t, o.ids))
<1> DEFINE u == WithoutFiles(t, o.ids)
           r == Replay(k, o)
<1>1. k \in Catalog /\ Unique(k) /\ Shaped(o) /\ Apt(k, o)
  BY PendingFacts
<1>2. u = [p \in Path |-> IF Has(t, p) /\ t[p].id \in o.ids THEN None ELSE t[p]]
  BY DEF WithoutFiles
<1>3. \A p \in Path : Has(r, p) => r[p].id \notin o.ids
  BY <1>1, MadeRow
<1> HIDE DEF u, r
<1>4. u \in Catalog
  BY <1>2 DEF Catalog
<1>5. \A p \in Path : Has(u, p) => u[p].id \notin o.ids /\ u[p] = t[p]
  BY <1>2 DEF Has
<1>6. \A p \in Path : Has(t, p) /\ t[p].id \notin o.ids => u[p] = t[p]
  BY <1>2
<1>7. Agrees(o, k, u)
  BY <1>3, <1>5 DEF Agrees, r
<1>8. Written(o, k, t, u)
  BY <1>4, <1>5, <1>6, <1>7 DEF Written
<1> QED
  BY <1>8 DEF u

(* By the names of the blobs of its files, or by file: it is the same. *)
LEMMA SameSweep ==
  ASSUME OneAtATime, NEW j, NEW k, NEW t, Log(j), Fits(j, k), Explained(j, k, t), t \in Catalog,
         NEW I, I \subseteq MayBeGit
  PROVE  WithoutShas(t, {t[p].sha : p \in UNION {PathsOf(t, i) : i \in I}}) = WithoutFiles(t, I)
<1> DEFINE X == {t[p].sha : p \in UNION {PathsOf(t, i) : i \in I}}
<1>1. ASSUME NEW p \in Path, Has(t, p) PROVE t[p].sha \in X <=> t[p].id \in I
  <2>1. t[p].id \in Path /\ t[p].sha \in Own(t[p].id)
    BY <1>1, RowFacts, Listed
  <2>2. t[p].id \in I => t[p].sha \in X
    BY <1>1 DEF PathsOf
  <2>3. ASSUME t[p].sha \in X PROVE t[p].id \in I
    <3>1. PICK q \in Path : Has(t, q) /\ t[q].id \in I /\ t[q].sha = t[p].sha
      BY <2>3 DEF PathsOf
    <3>2. t[q].sha \in Own(t[q].id)
      BY <3>1, Listed
    <3>3. t[q].id = t[p].id
      BY <2>1, <3>1, <3>2 DEF OneAtATime
    <3> QED
      BY <3>1, <3>3
  <2> QED
    BY <2>2, <2>3
<1> HIDE DEF X
<1>2. WithoutShas(t, X) = WithoutFiles(t, I)
  BY <1>1 DEF WithoutShas, WithoutFiles
<1> QED
  BY <1>2 DEF X

(* ops retry: what the entry of a move replays to on the catalog there is. *)
LEMMA WrittenRetry ==
  ASSUME NEW j, NEW k, NEW t, Log(j), Fits(j, k), Explained(j, k, t), t \in Catalog, Unique(t),
         NEW n, Pending(j, n), NEW o, o = j[n].op, o.kind = "move",
         \A i \in o.ids : HasFile(t, i)
  PROVE  Written(o, k, t, Replay(t, o))
<1> DEFINE r == Replay(k, o)
<1>1. /\ k \in Catalog /\ Unique(k) /\ Shaped(o) /\ Apt(k, o) /\ o.from \in Path /\ o.to \in Path
      /\ o.to # o.from
  BY PendingFacts DEF Shaped
<1>2. PICK i \in Path : o.ids = {i}
  BY <1>1 DEF Shaped
<1>3. PICK y \in Path : Has(t, y) /\ t[y].id = i
  BY <1>2 DEF HasFile
<1>4. \A p \in Path : Has(t, p) /\ t[p].id = i => p = y
  BY <1>3 DEF Unique
<1>5. UNION {PathsOf(t, l) : l \in o.ids} = {y}
  <2>1. UNION {PathsOf(t, l) : l \in o.ids} = PathsOf(t, i)
    BY <1>2
  <2> QED
    BY <1>3, <1>4, <2>1 DEF PathsOf
<1>6. Replay(t, o) = IF y # o.to THEN With(Without(t, y), o.to, t[y]) ELSE t
  <2>1. ReplayMove(t, o) = IF y # o.to THEN With(Without(t, y), o.to, t[y]) ELSE t
    BY <1>3, <1>5 DEF ReplayMove
  <2> QED
    BY <2>1 DEF Replay
<1>7. t[y].id \in j[n].op.ids
  BY <1>2, <1>3
<1>8. y = o.from \/ (y = o.to /\ t[y] = r[y])
  BY <1>3, <1>7, BeforeOrAfter
<1>9. CASE y = o.from
  <2>1. Replay(t, o) = With(Without(t, o.from), o.to, t[o.from])
    BY <1>1, <1>6, <1>9
  <2> QED
    BY <1>3, <1>7, <1>9, <2>1, WrittenMove
<1>10. CASE y = o.to /\ t[y] = r[y]
  <2>1. Replay(t, o) = t
    BY <1>6, <1>10
  <2>2. \A p \in Path : Has(r, p) /\ r[p].id \in o.ids => p = y
    BY <1>1, <1>10, MadeRow
  <2> HIDE DEF r
  <2>3. Agrees(o, k, t)
    BY <1>2, <1>4, <1>10, <2>2 DEF Agrees, r
  <2> QED
    BY <2>1, <2>3 DEF Written
<1> QED
  BY <1>8, <1>9, <1>10

(* ops retry of a removal: the row it is to remove, if it is there. *)
LEMMA WrittenRemoval ==
  ASSUME NEW j, NEW k, NEW t, Log(j), Fits(j, k), Explained(j, k, t), t \in Catalog, Unique(t),
         NEW n, Pending(j, n), NEW o, o = j[n].op, o.kind = "delete"
  PROVE  Written(o, k, t, Replay(t, o))
<1> DEFINE u == Without(t, o.from)
           r == Replay(k, o)
<1>1. k \in Catalog /\ Unique(k) /\ Shaped(o) /\ Apt(k, o) /\ o.from \in Path /\ \E i \in Path : o.ids = {i}
  BY PendingFacts DEF Shaped
<1>2. Replay(t, o) = u
  BY DEF Replay
<1>3. CASE Has(t, o.from) /\ t[o.from].id \in o.ids
  BY <1>2, <1>3, WrittenRm
<1>4. CASE ~Has(t, o.from)
  <2>1. u = t
    BY <1>1, <1>4 DEF Without, Has, Catalog
  <2>2. \A p \in Path : Has(r, p) => r[p].id \notin o.ids
    BY <1>1, MadeRow
  <2> HIDE DEF r
  <2>3. ASSUME NEW p \in Path, Has(t, p), t[p].id \in o.ids PROVE FALSE
    <3>1. t[p] = k[p] /\ p = o.from
      BY <2>3, BeforeOrAfter
    <3> QED
      BY <1>4, <2>3, <3>1
  <2>4. Agrees(o, k, t)
    BY <2>2, <2>3 DEF Agrees, r
  <2>5. Written(o, k, t, t)
    BY <2>4 DEF Written
  <2> QED
    BY <1>2, <2>1, <2>5
<1>5. CASE Has(t, o.from) /\ t[o.from].id \notin o.ids
  <2>1. t[o.from] = k[o.from]
    BY <1>1, <1>5, ForeignRow, NamesOf
  <2> QED
    BY <1>1, <1>5, <2>1 DEF Apt
<1> QED
  BY <1>3, <1>4, <1>5

-----------------------------------------------------------------------------
(* Blobs come and go. *)

LEMMA SoundStored ==
  ASSUME NEW j, NEW k, NEW t, NEW s, Sound(j, k, t, s), NEW x \in Sha
  PROVE  Sound(j, k, t, s \cup {x})
<1> DEFINE z == s \cup {x}
<1>0. /\ t \in Catalog /\ s \in SUBSET Sha /\ Unique(t)
      /\ Explained(j, k, t) /\ Complete(j, k, t) /\ Shadowed(j, k)
      /\ Stored(j, k, t, s) /\ Balanced(j, t, s)
  BY DEF Sound
<1>1. z \in SUBSET Sha
  BY <1>0
<1>2. \A l, i : Backed(l, i, s) => Backed(l, i, z)
  BY DEF Backed
<1> HIDE DEF z
<1>3. Stored(j, k, t, z)
  BY <1>0, <1>2 DEF Stored
<1>4. Balanced(j, t, z)
  BY <1>0 DEF Balanced, z
<1> QED
  BY <1>0, <1>1, <1>3, <1>4 DEF Sound, z

(* No row of the file i has the hash x. *)
Lacks(k, i, x) == \A p \in Path : Has(k, p) /\ k[p].id = i => k[p].sha # x

(* The bytes x go when every file listed with them waits for an unfinished  *)
(* operation, and no pending move or sync-mode needs them.                  *)
LEMMA SoundLoss ==
  ASSUME NEW j, NEW k, NEW t, NEW s, Sound(j, k, t, s), NEW x,
         \A m \in DOMAIN j : Pending(j, m) /\ j[m].op.kind \in {"move", "sync"} =>
           \A i \in j[m].op.ids : Swept(j, i) \/ (Lacks(k, i, x) /\ Lacks(t, i, x)),
         \A p \in Path : Has(t, p) /\ t[p].sha = x => Named(j, t[p].id)
  PROVE  Sound(j, k, t, s \ {x})
<1> DEFINE z == s \ {x}
<1>0. /\ t \in Catalog /\ s \in SUBSET Sha /\ Unique(t)
      /\ Explained(j, k, t) /\ Complete(j, k, t) /\ Shadowed(j, k)
      /\ Stored(j, k, t, s) /\ Balanced(j, t, s)
  BY DEF Sound
<1>1. \A l, i : Backed(l, i, s) /\ Lacks(l, i, x) => Backed(l, i, z)
  BY DEF Backed, Lacks
<1>2. Stored(j, k, t, z)
  <2> HIDE DEF z
  <2> QED
    BY <1>0, <1>1 DEF Stored, Pending
<1>3. Balanced(j, t, z)
  BY <1>0 DEF Balanced
<1> QED
  BY <1>0, <1>2, <1>3 DEF Sound

(* rm deletes the bytes of a file that is listed alone with them. *)
LEMMA SoundRmBlob ==
  ASSUME OneAtATime, NEW j, NEW k, NEW t, NEW s, Log(j), Fits(j, k), Sound(j, k, t, s),
         NEW n, Pending(j, n), j[n].op.kind = "delete", NEW f, j[n].op.ids = {f},
         NEW w \in Path, Has(t, w), t[w].id = f, NEW x, t[w].sha = x,
         \A p, q \in Referents(t, x) : p = q
  PROVE  Sound(j, k, t, s \ {x})
<1>0. /\ t \in Catalog /\ Explained(j, k, t) /\ Stored(j, k, t, s)
      /\ \A p \in Path : Has(k, p) => k[p].sha \in Own(k[p].id)
  BY DEF Sound, Fits
<1>1. ASSUME NEW p \in Path, Has(t, p), t[p].sha = x PROVE t[p].id = f
  BY <1>1 DEF Referents
<1>2. \A p \in Path : Has(t, p) /\ t[p].sha = x => Named(j, t[p].id)
  BY <1>1, PendingFacts
<1>3. ASSUME NEW m \in DOMAIN j, Pending(j, m), j[m].op.kind \in {"move", "sync"},
             NEW i \in j[m].op.ids
      PROVE  Lacks(k, i, x) /\ Lacks(t, i, x)
  <2>1. i # f /\ i \in Path
    BY <1>3, PendingFacts DEF Distinct
  <2>2. Lacks(t, i, x)
    BY <1>1, <2>1 DEF Lacks
  <2>3. PICK y \in Path : Has(t, y) /\ t[y].id = i
    BY <1>0, <1>3 DEF Stored, HasFile
  <2>4. x \in Own(f) /\ t[y].sha \in Own(i) /\ f \in Path
    BY <1>0, <2>3, Listed, RowFacts
  <2>5. ASSUME NEW p \in Path, Has(k, p), k[p].id = i, k[p].sha = x PROVE FALSE
    <3>1. x \in Own(i)
      BY <1>0, <2>5
    <3>2. i \notin MayBeGit
      BY <2>1, <2>4, <3>1 DEF OneAtATime
    <3>3. t[y].sha = x
      BY <2>4, <3>1, <3>2 DEF Own
    <3> QED
      BY <1>1, <2>1, <2>3, <3>3
  <2> QED
    BY <2>2, <2>5 DEF Lacks
<1> QED
  BY <1>2, <1>3, SoundLoss

(* A sweep deletes the bytes of one of its files. *)
LEMMA SoundGcBlob ==
  ASSUME OneAtATime, NEW j, NEW k, NEW t, NEW s, Log(j), Fits(j, k), Sound(j, k, t, s),
         NEW n, Pending(j, n), j[n].op.kind = "gc",
         NEW w \in Path, Has(t, w), t[w].id \in j[n].op.ids, NEW x, t[w].sha = x
  PROVE  Sound(j, k, t, s \ {x})
<1> DEFINE f == t[w].id
<1>0. /\ t \in Catalog /\ k \in Catalog /\ Explained(j, k, t)
      /\ \A p \in Path : Has(k, p) => k[p].sha \in Own(k[p].id)
  BY DEF Sound, Fits
<1>1. f \in MayBeGit /\ Swept(j, f) /\ Named(j, f) /\ f \in Path /\ x \in Own(f)
  BY <1>0, PendingFacts, Listed DEF Log, Allowed
<1>2. \A i \in Path : x \in Own(i) => i = f
  BY <1>1 DEF OneAtATime
<1> HIDE DEF f
<1>3. ASSUME NEW p \in Path, Has(t, p), t[p].sha = x PROVE Named(j, t[p].id)
  <2>1. t[p].id \in Path /\ t[p].sha \in Own(t[p].id)
    BY <1>0, <1>3, RowFacts, Listed
  <2> QED
    BY <1>1, <1>2, <1>3, <2>1
<1>4. ASSUME NEW m \in DOMAIN j, Pending(j, m), j[m].op.kind \in {"move", "sync"}, NEW i \in j[m].op.ids
      PROVE  Swept(j, i) \/ (Lacks(k, i, x) /\ Lacks(t, i, x))
  <2>1. i \in Path
    BY <1>4, PendingFacts
  <2>2. CASE i = f
    BY <1>1, <2>2
  <2>3. CASE i # f
    <3>1. x \notin Own(i)
      BY <1>2, <2>1, <2>3
    <3>2. \A p \in Path : Has(t, p) => t[p].sha \in Own(t[p].id)
      BY <1>0, Listed
    <3> QED
      BY <1>0, <3>1, <3>2 DEF Lacks
  <2> QED
    BY <2>2, <2>3
<1> QED
  BY <1>3, <1>4, SoundLoss

(* rebuild-catalog: the catalog becomes what the log projects to. *)
LEMMA SoundRebuilt ==
  ASSUME NEW j, NEW k, NEW t, NEW s, Log(j), Fits(j, k), Sound(j, k, t, s)
  PROVE  Sound(j, k, k, s)
<1>0. /\ t \in Catalog /\ s \in SUBSET Sha /\ Unique(t)
      /\ Explained(j, k, t) /\ Complete(j, k, t) /\ Shadowed(j, k)
      /\ Stored(j, k, t, s) /\ Balanced(j, t, s)
      /\ k \in Catalog /\ Unique(k)
  BY DEF Sound, Fits
<1>1. Explained(j, k, k) /\ Complete(j, k, k)
  BY DEF Explained, Complete
<1>2. Stored(j, k, k, s)
  <2>1. ASSUME NEW m \in DOMAIN j, Pending(j, m), j[m].op.kind \in {"move", "sync"}, NEW x \in j[m].op.ids
        PROVE  HasFile(k, x)
    <3> DEFINE q == j[m].op
    <3>1. Shaped(q) /\ Apt(k, q) /\ q.kind \in {"move", "sync"} /\ x \in q.ids
      BY <2>1, PendingFacts
    <3> HIDE DEF q
    <3>2. Has(k, q.from) /\ k[q.from].id = x /\ q.from \in Path
      BY <3>1 DEF Apt, Shaped
    <3> QED
      BY <3>2 DEF HasFile
  <2> QED
    BY <1>0, <2>1 DEF Stored
<1>3. Balanced(j, k, s)
  BY <1>0 DEF Balanced, Complete, Has
<1> QED
  BY <1>0, <1>1, <1>2, <1>3 DEF Sound
-----------------------------------------------------------------------------
(* Steps that leave the node as it is. *)

K == Projection(journal)

(* The blob of an operation's hash is stored, or one that the catalog lists *)
(* for a file of it is deleted.                                             *)
BlobChange(o) ==
  \/ o.sha \in Sha /\ objects' = objects \cup {o.sha}
  \/ \E p \in Path : /\ Has(catalog, p) /\ catalog[p].id \in o.ids
                     /\ objects' = objects \ {catalog[p].sha}

(* What a step of c does to the blobs and the catalog: nothing, what its    *)
(* pending operation stands for, or what rebuild-catalog is for.            *)
Change(c) ==
  \/ UNCHANGED <<objects, catalog>>
  \/ pc[c] = "rebuild" /\ catalog' = K /\ UNCHANGED objects
  \/ /\ Mine(job[c], journal)
     /\ \/ Written(job[c].op, K, catalog, catalog') /\ UNCHANGED objects
        \/ BlobChange(job[c].op) /\ UNCHANGED catalog

LEMMA Holds ==
  ASSUME SerialInv, NEW c \in Client
  PROVE  /\ TypeInv /\ Log(journal) /\ Chain(journal) /\ Fits(journal, K)
         /\ Sound(journal, K, catalog, objects)
         /\ catalog \in Catalog /\ Unique(catalog) /\ Explained(journal, K, catalog)
         /\ Ready(pc[c], job[c], cat[c], journal, K, catalog, objects)
         /\ job[c] \in Job /\ Shaped(job[c].op) /\ job[c].op.kind \in Kind
BY ClientFacts DEF SerialInv, NodeInv, K, Sound, Shaped, Op

LEMMA Conclude ==
  ASSUME OneAtATime, NEW c \in Client, TypeInv', Log(journal'), Chain(journal'), Fits(journal', K'),
         Sound(journal', K', catalog', objects'),
         Ready(pc'[c], job'[c], cat'[c], journal', K', catalog', objects')
  PROVE  NodeInv'
<1>1. \A d \in Client : d = c
  BY DEF OneAtATime
<1> QED
  BY <1>1 DEF NodeInv, K

LEMMA Idle ==
  ASSUME NEW jb, NEW ct, NEW j, NEW k, NEW t, NEW s
  PROVE  Ready("idle", jb, ct, j, k, t, s)
BY DEF Ready, Begun

LEMMA Local ==
  ASSUME OneAtATime, SerialInv, NEW c \in Client, TypeInv', UNCHANGED <<objects, catalog, journal>>,
         Ready(pc'[c], job'[c], cat'[c], journal, K, catalog, objects)
  PROVE  NodeInv' /\ Change(c)
<1>1. K' = K
  BY DEF K
<1> QED
  BY <1>1, Holds, Conclude DEF Change

LEMMA Ends ==
  ASSUME TypeInv, NEW c \in Client, Leave(c)
  PROVE  pc'[c] = "idle"
BY DEF Leave, Goto, TypeInv

LEMMA LeaveLocal ==
  ASSUME OneAtATime, SerialInv, NEW c \in Client, TypeInv', UNCHANGED <<objects, catalog, journal>>, Leave(c)
  PROVE  NodeInv' /\ Change(c)
BY Ends, Idle, Local, Holds

LEMMA MayBeAsked ==
  ASSUME OneAtATime, NEW o, Shaped(o), Allowed(o), MayAsk(o)
  PROVE  Asked(o, journal)
BY DEF OneAtATime, MayAsk, Asked

(* A command is begun. *)
LEMMA AskLocal ==
  ASSUME OneAtATime, SerialInv, NEW c \in Client, TypeInv',
         NEW o \in Op, Shaped(o), NEW f \in File \cup {None}, NEW ph \in {"read", "intent"},
         Ask(c, o, f, ph), NEW k \in Catalog, cat' = [cat EXCEPT ![c] = k],
         Allowed(o), o.kind \notin {"gc", "sync"} \/ ph = "read", o.kind # "gc",
         o.kind = "ingest" => ph = "intent" /\ k = catalog /\ ~Has(catalog, o.to),
         o.kind = "move" => ph = "read",
         o.kind \in {"delete", "move", "sync"} => f \in File /\ o.ids = {f.id} /\ catalog[o.from] = f
  PROVE  NodeInv'
<1> DEFINE jb == [NoJob EXCEPT !.op = o, !.file = f]
<1>1. jb \in Job /\ jb.op = o /\ jb.file = f
  BY AskedJob
<1>2. pc'[c] = ph /\ job'[c] = jb /\ cat'[c] = k
  BY Holds DEF Ask, Goto, TypeInv
<1>3. Asked(o, journal)
  BY MayBeAsked DEF Ask
<1> HIDE DEF jb
<1>4. o.kind \in Kind
  BY DEF Shaped, Op
<1>5. Ready(ph, jb, k, journal, K, catalog, objects)
  <2>1. CASE ph = "read"
    <3>1. o.kind \in {"delete", "move", "sync"}
      BY <1>4, <2>1 DEF Kind
    <3> QED
      BY <1>1, <1>3, <2>1, <3>1 DEF Ready, Begun, RowThere
  <2>2. CASE ph = "intent"
    <3>1. o.kind \in {"ingest", "delete"}
      BY <1>4, <2>2 DEF Kind
    <3> QED
      BY <1>1, <1>3, <2>2, <3>1 DEF Ready, Begun, RowThere
  <2> QED
    BY <2>1, <2>2
<1> QED
  BY <1>2, <1>5, Local DEF Ask

LEMMA CommandSerial ==
  ASSUME OneAtATime, SerialInv, NEW c \in Client, TypeInv', Command(c)
  PROVE  NodeInv'
<1>0. /\ cat[c] \in Catalog /\ cat = [cat EXCEPT ![c] = cat[c]] /\ job[c] \in Job /\ catalog \in Catalog
      /\ TypeInv
  BY ClientFacts, Holds
<1>1. ASSUME NEW p \in Path, Put(c, p) PROVE NodeInv'
  <2> DEFINE o == PutOp(p)
  <2>1. Shaped(o) /\ o \in Op /\ o.kind = "ingest" /\ o.to = p
    BY PutOpFacts
  <2>2. ~Has(catalog, p) /\ Ask(c, o, None, "intent") /\ cat' = [cat EXCEPT ![c] = catalog]
    BY <1>1 DEF Put, ReadCatalog
  <2> HIDE DEF o
  <2>3. Allowed(o) /\ o.kind # "gc" /\ o.kind # "sync" /\ o.kind \notin {"delete", "move", "sync"}
    BY <2>1 DEF Allowed
  <2> QED
    BY <1>0, <2>1, <2>2, <2>3, AskLocal
<1>2. ASSUME NEW p \in Path, Rm(c, p) PROVE NodeInv'
  BY <1>0, <1>2, RowOpFacts, AskLocal DEF Rm, Allowed
<1>3. ASSUME NEW p \in Path, NEW q \in Path, Mv(c, p, q) PROVE NodeInv'
  BY <1>0, <1>3, RowOpFacts, AskLocal DEF Mv, Allowed
<1>4. ASSUME NEW p \in Path, NEW m \in Mode, Sync(c, p, m) PROVE NodeInv'
  <2>0. Has(catalog, p) /\ catalog[p].sha \in Own(catalog[p].id)
    BY <1>4, Holds, Listed DEF Sync
  <2>1. Allowed(SyncOp(p, m))
    BY <1>4, <1>0, <2>0, RowOpFacts DEF Sync, Allowed
  <2> QED
    BY <1>0, <1>4, <2>1, RowOpFacts, AskLocal DEF Sync
<1>5. ASSUME GcList(c) PROVE NodeInv'
  <2>1. PICK keep \in SUBSET Sha : job' = [job EXCEPT ![c] = [NoJob EXCEPT !.todo = objects \ keep]]
    BY <1>5 DEF GcList
  <2>2. pc'[c] = "gcRead" /\ cat'[c] = cat[c] /\ UNCHANGED <<objects, catalog, journal>>
    BY <1>0, <1>5 DEF GcList, Goto, TypeInv
  <2>3. Ready("gcRead", job'[c], cat[c], journal, K, catalog, objects)
    BY DEF Ready, Begun
  <2> QED
    BY <2>2, <2>3, Local
<1>6. ASSUME NEW n \in DOMAIN journal, Retry(c, n) PROVE NodeInv'
  <2> DEFINE j == [NoJob EXCEPT !.op = journal[n].op, !.n = n]
  <2>1. j \in Job /\ j.op = journal[n].op /\ j.n = n
    BY <1>0, RetriedJob, StoreFacts
  <2>2. job'[c] = j /\ pc'[c] = "retry" /\ cat'[c] = cat[c] /\ UNCHANGED <<objects, catalog, journal>>
    BY <1>0, <1>6 DEF Retry, Goto, TypeInv
  <2> HIDE DEF j
  <2>3. journal[n].state = "intent" /\ journal[n].op.kind \in {"move", "delete", "gc"}
    BY <1>6 DEF Retry, OneAtATime
  <2>4. Ready("retry", j, cat[c], journal, K, catalog, objects)
    BY <2>1, <2>3 DEF Ready, Begun, Mine, Pending
  <2> QED
    BY <2>2, <2>4, Local
<1>7. ASSUME RebuildRead(c) PROVE NodeInv'
  <2>1. /\ pc'[c] = "rebuild" /\ cat'[c] = Projection(journal) /\ job'[c] = job[c]
        /\ UNCHANGED <<objects, catalog, journal>>
    BY <1>0, <1>7 DEF RebuildRead, Goto, TypeInv
  <2>2. Ready("rebuild", job[c], Projection(journal), journal, K, catalog, objects)
    BY DEF Ready, Begun, K
  <2> QED
    BY <2>1, <2>2, Local
<1> QED
  BY <1>1, <1>2, <1>3, <1>4, <1>5, <1>6, <1>7 DEF Command

-----------------------------------------------------------------------------
(* The log's steps. *)

(* Where an operation goes on, f being the row it was resolved to. *)
Follows(o, f, ph) ==
  /\ o.kind = "ingest" => ph = "blob"
  /\ o.kind \in {"delete", "move"} => ph = "reread"
  /\ o.kind = "sync" => ph = IF o.sha # f.sha THEN "rehome" ELSE "write"
  /\ o.kind = "gc" => ph = "delete"

LEMMA GoOnFacts ==
  ASSUME SerialInv, NEW c \in Client, NEW n \in 0 .. MaxOps, pc[c] = "intent", GoOn(c, n), cat' = cat
  PROVE  /\ Follows(job[c].op, job[c].file, pc'[c]) /\ cat'[c] = cat[c]
         /\ job'[c].op = job[c].op /\ job'[c].file = job[c].file /\ job'[c].todo = job[c].todo
         /\ job'[c].n = n
<1> DEFINE o == job[c].op
<1>1. job[c] \in Job /\ job \in [Client -> Job] /\ pc \in [Client -> Phase] /\ o.kind \in Kind
  BY Holds DEF TypeInv
<1>2. pc'[c] = AfterIntent(c) /\ job'[c] = [job[c] EXCEPT !.n = n]
  BY <1>1 DEF GoOn, Goto
<1>3. o.kind = "sync" => cat[c][o.from].sha = job[c].file.sha
  BY Holds DEF Ready, RowThere
<1>4. Follows(o, job[c].file, AfterIntent(c))
  <2>1. o.kind = "ingest" => AfterIntent(c) = "blob"
    BY DEF AfterIntent
  <2>2. o.kind \in {"delete", "move"} => AfterIntent(c) = "reread"
    BY DEF AfterIntent
  <2>3. o.kind = "sync" => AfterIntent(c) = IF o.sha # job[c].file.sha THEN "rehome" ELSE "write"
    BY <1>3 DEF AfterIntent, Drifted
  <2>4. o.kind = "gc" => AfterIntent(c) = "delete"
    BY DEF AfterIntent
  <2> QED
    BY <2>1, <2>2, <2>3, <2>4 DEF Follows
<1> QED
  BY <1>1, <1>2, <1>4, JobFacts

(* The intent is on the log: what the command knew is what its next step needs. *)
LEMMA Underway ==
  ASSUME NEW jb, NEW jn, jn.op = jb.op, jn.file = jb.file, jn.todo = jb.todo, Shaped(jb.op),
         NEW ct, NEW j, NEW k, NEW t, NEW s, Ready("intent", jb, ct, j, k, t, s),
         NEW i, Mine(jn, i), Stored(i, k, t, s), NEW ph, Follows(jb.op, jb.file, ph)
  PROVE  Ready(ph, jn, ct, i, k, t, s)
<1> DEFINE o == jb.op
<1>1. /\ o.kind \in {"ingest", "sync", "gc"} => ct = t
      /\ o.kind \in {"ingest", "move"} => ~Has(t, o.to)
      /\ o.kind \in {"delete", "move", "sync"} => RowThere(jn, t)
      /\ o.kind = "gc" => Candidates(jb.todo, t) /\ o.ids = {d.id : d \in jb.todo}
      /\ o.kind \in Kind /\ jn.op = o /\ jn.file = jb.file /\ Shaped(o)
      /\ Follows(o, jb.file, ph)
  BY DEF Ready, RowThere, Shaped, Op
<1> HIDE DEF o
<1>2. CASE o.kind = "ingest"
  <2>1. ph = "blob"
    BY <1>1, <1>2 DEF Follows
  <2> QED
    BY <1>1, <1>2, <2>1 DEF Ready, Begun
<1>3. CASE o.kind \in {"delete", "move"}
  <2>1. ph = "reread"
    BY <1>1, <1>3 DEF Follows
  <2> QED
    BY <1>1, <1>3, <2>1 DEF Ready, Begun
<1>4. CASE o.kind = "sync" /\ o.sha # jb.file.sha
  <2>1. ph = "rehome"
    BY <1>1, <1>4 DEF Follows
  <2> QED
    BY <1>1, <1>4, <2>1 DEF Ready, Begun
<1>5. CASE o.kind = "sync" /\ o.sha = jb.file.sha
  <2>1. ph = "write"
    BY <1>1, <1>5 DEF Follows
  <2> DEFINE f == jn.file
  <2>2. o.ids = {f.id} /\ t[o.from] = f /\ o.from \in Path /\ f # None
    BY <1>1, <1>5, NoneAssumption DEF RowThere, Shaped
  <2>3. Pending(i, jn.n) /\ i[jn.n].op = o /\ jn.n \in DOMAIN i
    BY <1>1 DEF Mine, Pending
  <2>4. Swept(i, f.id) \/ Backed(t, f.id, s)
    BY <1>5, <2>2, <2>3 DEF Stored
  <2>5. o.sha \in s \/ Swept(i, f.id)
    BY <1>1, <1>5, <2>2, <2>4 DEF Backed, Has
  <2> HIDE DEF f
  <2> QED
    BY <1>1, <1>5, <2>1, <2>5 DEF Ready, Begun, f
<1>6. CASE o.kind = "gc"
  <2>1. ph = "delete"
    BY <1>1, <1>6 DEF Follows
  <2>2. Remaining(o, jn.todo, t)
    <3>1. SUFFICES ASSUME NEW d \in jb.todo PROVE d.id \in o.ids /\ \E p \in Referents(t, d.sha) : t[p].id = d.id
      BY <1>1, <1>6 DEF Candidates, Remaining
    <3>2. d \in Doom /\ d.id \in o.ids
      BY <1>1, <1>6, <3>1 DEF Candidates
    <3>3. PICK p \in Path : t[p] = [id |-> d.id, mode |-> "git", sha |-> d.sha]
      BY <1>1, <1>6, <3>1 DEF Candidates
    <3>4. t[p].id = d.id /\ t[p].sha = d.sha /\ t[p] # None
      <4>1. d.id \in Path /\ d.sha \in Sha /\ "git" \in Mode
        BY <3>2 DEF Doom, Mode
      <4> QED
        BY <3>3, <4>1, FileFacts
    <3> QED
      BY <3>2, <3>4 DEF Referents, Has
  <2> QED
    BY <1>1, <1>6, <2>1, <2>2 DEF Ready, Begun
<1> QED
  BY <1>1, <1>2, <1>3, <1>4, <1>5, <1>6 DEF Kind

LEMMA ReadyOpens ==
  ASSUME NEW jb, NEW ct, NEW j, NEW k, NEW t, NEW s, Shaped(jb.op), Ready("intent", jb, ct, j, k, t, s)
  PROVE  Opens(jb.op, t) /\ Asked(jb.op, j)
<1>1. /\ jb.op.kind \in {"ingest", "move"} => ~Has(t, jb.op.to)
      /\ jb.op.kind \in {"delete", "move", "sync"} => RowThere(jb, t)
      /\ jb.op.kind = "gc" => Candidates(jb.todo, t) /\ jb.op.ids = {d.id : d \in jb.todo}
      /\ Asked(jb.op, j)
  BY DEF Ready
<1>2. ASSUME jb.op.kind = "gc", NEW x \in jb.op.ids PROVE ListedAsGit(t, x)
  <2>1. PICK d \in jb.todo : x = d.id
    BY <1>1, <1>2
  <2>2. d \in Doom /\ \E p \in Path : t[p] = [id |-> d.id, mode |-> "git", sha |-> d.sha]
    BY <1>1, <1>2, <2>1 DEF Candidates
  <2>3. d.id \in Path /\ d.sha \in Sha /\ "git" \in Mode
    BY <2>2 DEF Doom, Mode
  <2> QED
    BY <2>1, <2>2, <2>3, FileFacts DEF ListedAsGit, Has
<1> QED
  BY <1>1, <1>2, NoneAssumption DEF Opens, RowThere, Has

LEMMA AppendSerial ==
  ASSUME OneAtATime, SerialInv, NEW c \in Client, TypeInv', AppendIntent(c)
  PROVE  NodeInv'
<1> DEFINE o == job[c].op
           l == Len(journal) + 1
<1>0. /\ TypeInv /\ Log(journal) /\ Chain(journal) /\ Fits(journal, K)
      /\ Sound(journal, K, catalog, objects) /\ Explained(journal, K, catalog)
      /\ Ready("intent", job[c], cat[c], journal, K, catalog, objects)
      /\ Shaped(o)
  BY Holds DEF AppendIntent
<1>1. /\ journal' = Append(journal, [op |-> o, state |-> "intent"])
      /\ GoOn(c, l) /\ UNCHANGED <<objects, catalog, cat>>
      /\ l \in 0 .. MaxOps
  <2>1. Len(journal) \in Nat /\ MaxOps \in Nat /\ Len(journal) < MaxOps
    BY <1>0, ClientFacts DEF AppendIntent, Room
  <2> QED
    BY <2>1 DEF AppendIntent
<1>2. Asked(o, journal) /\ Opens(o, catalog)
  BY <1>0, ReadyOpens
<1>3. New(o, journal)
  BY DEF AppendIntent, New, Held, Locked
<1> DEFINE i == journal'
<1>4. Apt(K, o)
  BY <1>0, <1>2, <1>3, AptNow
<1>5. Log(i)
  BY <1>0, <1>1, <1>2, <1>3, LogAppend
<1>6. Chain(i) /\ Projection(i) = Projection(journal)
  BY <1>0, <1>1, <1>4, ChainAppend DEF K
<1>7. Fits(i, K) /\ Sound(i, K, catalog, objects)
  BY <1>0, <1>1, <1>2, <1>3, FitsAppend, SoundAppend
<1>8. Extends(journal, o, i, l)
  BY <1>0, <1>1, AppendFacts
<1>9. /\ Follows(o, job[c].file, pc'[c]) /\ cat'[c] = cat[c] /\ job'[c].n = l
      /\ job'[c].op = o /\ job'[c].file = job[c].file /\ job'[c].todo = job[c].todo
  BY <1>0, <1>1, GoOnFacts DEF AppendIntent
<1>10. Mine(job'[c], i)
  BY <1>8, <1>9 DEF Mine, Extends, Pending
<1>11. Ready(pc'[c], job'[c], cat[c], i, K, catalog, objects)
  <2>1. Stored(i, K, catalog, objects)
    BY <1>7 DEF Sound
  <2> DEFINE ph == pc'[c]
  <2>2. Follows(o, job[c].file, ph)
    BY <1>9
  <2> HIDE DEF ph
  <2>3. Ready(ph, job'[c], cat[c], i, K, catalog, objects)
    BY <1>0, <1>9, <1>10, <2>1, <2>2, Underway
  <2> QED
    BY <2>3 DEF ph
<1>12. K' = K
  BY <1>6 DEF K
<1> QED
  BY <1>1, <1>5, <1>6, <1>7, <1>9, <1>11, <1>12, Conclude

LEMMA ResumeSerial ==
  ASSUME OneAtATime, SerialInv, NEW c \in Client, TypeInv', Resume(c)
  PROVE  NodeInv'
<1> DEFINE o == job[c].op
<1>0. /\ TypeInv /\ Log(journal) /\ Fits(journal, K) /\ Explained(journal, K, catalog)
      /\ Ready("intent", job[c], cat[c], journal, K, catalog, objects)
      /\ Stored(journal, K, catalog, objects)
      /\ Shaped(o) /\ o \in Op
  BY Holds DEF Resume, Shaped, Sound
<1>1. PICK n \in DOMAIN journal : SameOp(journal[n].op, o) /\ GoOn(c, n)
  BY DEF Resume
<1> DEFINE q == journal[n].op
<1>2. q \in Op /\ Shaped(q) /\ journal[n].state \in State /\ n \in 0 .. MaxOps
  BY <1>0, StoreFacts
<1>3. Asked(o, journal) /\ Opens(o, catalog)
  BY <1>0, ReadyOpens
<1>4. Pending(journal, n)
  BY <1>0, <1>1, <1>2, <1>3 DEF Asked, Log, Pending, SameOp, State
<1>5. q.kind = o.kind /\ q.ids = o.ids /\ q.to = o.to /\ q.mode = o.mode /\ o.kind # "gc"
  BY <1>1 DEF SameOp
<1>6. q.from = o.from
  <2>1. CASE o.kind = "ingest"
    BY <1>0, <1>2, <1>5, <2>1 DEF Shaped
  <2>2. CASE o.kind \in {"delete", "move", "sync"}
    <3>1. Has(catalog, o.from) /\ catalog[o.from].id \in q.ids /\ o.from \in Path /\ o.kind # "ingest"
      BY <1>0, <1>3, <1>5, <2>2 DEF Opens, Shaped
    <3> DEFINE p == o.from
    <3>2. p \in Path /\ Has(catalog, p) /\ catalog[p].id \in journal[n].op.ids
      BY <3>1
    <3>3. /\ catalog[p] = K[p] => p = journal[n].op.from \/ journal[n].op.kind = "gc"
          /\ catalog[p] # K[p] => /\ journal[n].op.kind \in {"ingest", "move", "sync"}
                                  /\ journal[n].op.kind \in {"ingest", "move"} => p = journal[n].op.to
                                  /\ journal[n].op.kind = "sync" => p = journal[n].op.from
      <4> HIDE DEF p
      <4> QED
        BY <1>0, <1>4, <3>2, BeforeOrAfter
    <3>4. o.kind = "move" => o.to # o.from
      BY <1>0 DEF Shaped
    <3> QED
      BY <1>5, <3>1, <3>3, <3>4
  <2> QED
    BY <1>0, <1>5, <2>1, <2>2 DEF Op, Kind
(* sync-mode finds the hash it found before. *)
<1>12. ASSUME o.kind = "sync" PROVE q.sha = o.sha
  <2> DEFINE f == job[c].file
             p == o.from
  <2>1. /\ catalog[p] = f /\ f.id \in q.ids /\ p \in Path /\ Has(catalog, p)
        /\ o.sha = Found(o, f.sha, edited)
    BY <1>0, <1>5, <1>12, NoneAssumption DEF Ready, RowThere, Shaped, Has, SerialInv, AsRead, Resume
  <2>2. Synced(q, K, edited)
    BY <1>4, <1>5, <1>12 DEF SerialInv, Hashed, K
  <2>3. Shaped(q) /\ Apt(K, q) /\ Unique(K) /\ K \in Catalog
    BY <1>0, <1>4, PendingFacts
  <2>4. catalog[p] = K[p] \/ catalog[p] = Replay(K, q)[p]
    <3>1. Has(catalog, p) /\ catalog[p].id \in journal[n].op.ids
      BY <2>1
    <3> HIDE DEF p
    <3> QED
      BY <1>0, <1>4, <2>1, <3>1, BeforeOrAfter
  <2>5. \A x : Found(q, x, edited) = Found(o, x, edited)
    BY <1>5 DEF Found
  <2>6. CASE catalog[p] = K[p]
    BY <2>1, <2>2, <2>5, <2>6 DEF Synced, Has
  <2>7. CASE catalog[p] = Replay(K, q)[p]
    <3>1. Replay(K, q)[q.from].sha = q.sha
      BY <1>5, <1>12, <2>3, MadeRow
    <3>2. f.sha = q.sha
      BY <1>6, <2>1, <2>7, <3>1
    <3>3. Found(q, q.sha, edited) = q.sha
      BY <2>2 DEF Found, Synced
    <3> QED
      BY <2>1, <2>5, <3>2, <3>3
  <2> QED
    BY <2>4, <2>6, <2>7
<1>13. q.sha = o.sha
  <2>1. CASE o.kind = "ingest"
    BY <1>0, <1>2, <1>5, <2>1 DEF Shaped
  <2>2. CASE o.kind \notin {"ingest", "sync"}
    BY <1>0, <1>2, <1>5, <2>2 DEF Shaped
  <2> QED
    BY <1>12, <2>1, <2>2
<1>7. q = o
  BY <1>0, <1>2, <1>5, <1>6, <1>13 DEF Op
<1>8. UNCHANGED <<objects, catalog, journal, cat>>
  BY DEF Resume
<1>9. /\ Follows(o, job[c].file, pc'[c]) /\ cat'[c] = cat[c] /\ job'[c].n = n
      /\ job'[c].op = o /\ job'[c].file = job[c].file /\ job'[c].todo = job[c].todo
  BY <1>0, <1>1, <1>2, <1>8, GoOnFacts DEF Resume
<1>10. Mine(job'[c], journal)
  BY <1>4, <1>7, <1>9 DEF Mine
<1>11. Ready(pc'[c], job'[c], cat[c], journal, K, catalog, objects)
  <2> DEFINE ph == pc'[c]
  <2>1. Follows(o, job[c].file, ph)
    BY <1>9
  <2> HIDE DEF ph
  <2>2. Ready(ph, job'[c], cat[c], journal, K, catalog, objects)
    BY <1>0, <1>9, <1>10, <2>1, Underway
  <2> QED
    BY <2>2 DEF ph
<1> QED
  BY <1>8, <1>9, <1>11, Local

(* A sweep that is given up was not done and still is not. *)
LEMMA ChainFailed ==
  ASSUME NEW j, Log(j), Chain(j), NEW n, Pending(j, n), NEW i, Restated(j, n, i, "failed")
  PROVE  Chain(i) /\ Projection(i) = Projection(j)
<1>1. History(i) = History(j) /\ Projection(i) = Projection(j)
  BY FailedHistory
<1>2. /\ \A m \in DOMAIN j : i[m].op = j[m].op
      /\ \A m \in DOMAIN j : m # n => i[m].state = j[m].state
      /\ i[n].state = "failed"
      /\ \A m : Pending(i, m) <=> Pending(j, m) /\ m # n
      /\ DOMAIN i = DOMAIN j
  BY RestatedFacts
<1>3. Len(i) = Len(j)
  BY DEF Restated
<1> DEFINE P == History(j)
<1>4. /\ \A m \in 0 .. Len(j) : Unique(P[m])
      /\ \A m \in DOMAIN j : j[m].state = "done" => Apt(P[m - 1], j[m].op)
      /\ \A m \in DOMAIN j : Pending(j, m) => \A l \in m .. Len(j) : Apt(P[l], j[m].op)
  BY DEF Chain
<1> HIDE DEF P
<1>5. \A m \in DOMAIN i : i[m].state = "done" => Apt(P[m - 1], i[m].op)
  BY <1>2, <1>4
<1>6. \A m \in DOMAIN i : Pending(i, m) => \A l \in m .. Len(i) : Apt(P[l], i[m].op)
  BY <1>2, <1>3, <1>4
<1> QED
  BY <1>1, <1>3, <1>4, <1>5, <1>6 DEF Chain, P

LEMMA DoneSerial ==
  ASSUME OneAtATime, SerialInv, NEW c \in Client, TypeInv', MarkDone(c)
  PROVE  NodeInv'
<1> DEFINE n == job[c].n
           o == job[c].op
           i == journal'
<1>1. /\ TypeInv /\ Log(journal) /\ Chain(journal) /\ Fits(journal, K)
      /\ Sound(journal, K, catalog, objects)
      /\ Ready("mark", job[c], cat[c], journal, K, catalog, objects)
  BY Holds DEF MarkDone
<1>2. Pending(journal, n) /\ journal[n].op = o /\ Agrees(o, K, catalog) /\ Settled(o, objects)
  BY <1>1 DEF Ready, Begun, Mine
<1>3. Restated(journal, n, i, "done")
  BY <1>1, <1>2, MarkedRestates DEF MarkDone, State
<1>4. UNCHANGED <<objects, catalog>> /\ pc'[c] = "idle"
  BY <1>1, Ends DEF MarkDone
<1> HIDE DEF n, o, i
<1>5. Log(i) /\ Chain(i) /\ Fits(i, Replay(K, o)) /\ Projection(i) = Replay(K, o)
  <2>1. Log(i)
    BY <1>1, <1>2, <1>3, LogRestated
  <2>2. Chain(i)
    BY <1>1, <1>2, <1>3, DoneChain
  <2>3. Fits(i, Replay(K, journal[n].op))
    BY <1>1, <1>2, <1>3, FitsDone
  <2>4. Projection(i) = Replay(Projection(journal), journal[n].op)
    BY <1>1, <1>2, <1>3, DoneHistory
  <2> QED
    BY <1>2, <2>1, <2>2, <2>3, <2>4 DEF K
<1>6. Sound(i, Replay(K, journal[n].op), catalog, objects)
  BY <1>1, <1>2, <1>3, SoundDone
<1>7. K' = Replay(K, o)
  BY <1>5 DEF K, i
<1> QED
  BY <1>2, <1>4, <1>5, <1>6, <1>7, Idle, Conclude DEF i

(* A sweep is marked failed, whatever it has deleted or written so far. *)
LEMMA FailSerial ==
  ASSUME OneAtATime, SerialInv, NEW c \in Client, TypeInv', Leave(c),
         Mine(job[c], journal), job[c].op.kind = "gc",
         journal' = Marked(job[c].n, "failed"),
         Sound(journal, K, catalog', objects')
  PROVE  NodeInv'
<1> DEFINE n == job[c].n
           i == journal'
<1>1. TypeInv /\ Log(journal) /\ Chain(journal) /\ Fits(journal, K)
  BY Holds
<1>2. Pending(journal, n) /\ journal[n].op.kind = "gc"
  BY DEF Mine
<1>3. Restated(journal, n, i, "failed")
  BY <1>1, <1>2, MarkedRestates DEF State
<1>4. pc'[c] = "idle"
  BY <1>1, Ends
<1> HIDE DEF n, i
<1>5. Log(i)
  BY <1>1, <1>2, <1>3, LogRestated
<1>6. Chain(i) /\ Projection(i) = Projection(journal)
  BY <1>1, <1>2, <1>3, ChainFailed
<1>7. Fits(i, K)
  BY <1>1, <1>2, <1>3, FitsFailed
<1>8. Sound(i, K, catalog', objects')
  <2> DEFINE t == catalog'
             s == objects'
  <2> HIDE DEF t, s
  <2>1. Sound(journal, K, t, s)
    BY DEF t, s
  <2>2. Sound(i, K, t, s)
    BY <1>1, <1>2, <1>3, <2>1, SoundFailed
  <2> QED
    BY <2>2 DEF t, s
<1>9. K' = K
  BY <1>6 DEF K, i
<1> QED
  BY <1>4, <1>5, <1>6, <1>7, <1>8, <1>9, Idle, Conclude DEF i

-----------------------------------------------------------------------------
(* The steps that change the blobs or the catalog. *)

LEMMA Changes ==
  ASSUME OneAtATime, SerialInv, NEW c \in Client, TypeInv', journal' = journal,
         Sound(journal, K, catalog', objects'),
         Ready(pc'[c], job'[c], cat'[c], journal, K, catalog', objects')
  PROVE  NodeInv'
<1>1. K' = K
  BY DEF K
<1> QED
  BY <1>1, Holds, Conclude

LEMMA WriteSerial ==
  ASSUME OneAtATime, SerialInv, NEW c \in Client, TypeInv', NEW u, Overwrite(c, u),
         Mine(job[c], journal), Written(job[c].op, K, catalog, u), Fit(job[c].op, journal, objects)
  PROVE  NodeInv' /\ Change(c)
<1> DEFINE n == job[c].n
           o == job[c].op
<1>0. /\ TypeInv /\ Log(journal) /\ Fits(journal, K) /\ Sound(journal, K, catalog, objects)
  BY Holds
<1>1. Pending(journal, n) /\ journal[n].op = o
  BY DEF Mine
<1>2. Written(journal[n].op, K, catalog, u) /\ Fit(journal[n].op, journal, objects)
  BY <1>1
<1>3. Sound(journal, K, u, objects) /\ Settled(journal[n].op, objects)
  <2> HIDE DEF n, o
  <2> QED
    BY <1>0, <1>1, <1>2, SoundWritten
<1>4. /\ catalog' = u /\ UNCHANGED <<objects, journal>>
      /\ pc'[c] = "mark" /\ job'[c] = job[c] /\ cat'[c] = cat[c]
  BY <1>0 DEF Overwrite, Goto, TypeInv
<1>5. Ready("mark", job[c], cat[c], journal, K, u, objects)
  BY <1>1, <1>3 DEF Ready, Begun, Written
<1> QED
  BY <1>2, <1>3, <1>4, <1>5, Changes DEF Change

LEMMA PutSerial ==
  ASSUME OneAtATime, SerialInv, NEW c \in Client, TypeInv', PutBlob(c) \/ PutWrite(c)
  PROVE  NodeInv' /\ Change(c)
<1> DEFINE n == job[c].n
           o == job[c].op
<1>0. /\ TypeInv /\ Log(journal) /\ Fits(journal, K) /\ Sound(journal, K, catalog, objects)
      /\ Ready(pc[c], job[c], cat[c], journal, K, catalog, objects)
      /\ Typed(pc[c], job[c], cat[c], Len(journal)) /\ catalog \in Catalog /\ Explained(journal, K, catalog)
      /\ Shaped(o)
  BY Holds, ClientFacts
<1>1. CASE PutBlob(c)
  <2>1. Mine(job[c], journal) /\ o.kind = "ingest" /\ cat[c] = catalog /\ ~Has(catalog, o.to)
    BY <1>0, <1>1 DEF PutBlob, Ready, Begun, Typed
  <2>2. Pending(journal, n) /\ journal[n].op = o
    BY <2>1 DEF Mine
  <2> DEFINE z == objects \cup {o.sha}
  <2>0. o.sha = Content[o.to] /\ o.sha \in Sha
    BY <1>0, <2>1, VaultAssumption DEF Shaped
  <2>3. Sound(journal, K, catalog, z)
    BY <1>0, <2>0, SoundStored
  <2>4. /\ UNCHANGED <<catalog, journal>> /\ objects' = z
        /\ pc'[c] = "write" /\ job'[c] = job[c] /\ cat'[c] = cat[c]
    BY <1>0, <1>1 DEF PutBlob, Store, Goto, TypeInv
  <2>5. Ready("write", job[c], cat[c], journal, K, catalog, z)
    BY <2>0, <2>1 DEF Ready, Begun
  <2>6. BlobChange(o)
    BY <2>0, <2>4 DEF BlobChange
  <2> QED
    BY <2>1, <2>3, <2>4, <2>5, <2>6, Changes DEF Change
<1>2. CASE PutWrite(c)
  <2>1. /\ Mine(job[c], journal) /\ o.kind = "ingest" /\ cat[c] = catalog /\ ~Has(catalog, o.to)
        /\ Content[o.to] \in objects
    BY <1>0, <1>2 DEF PutWrite, Ready, Begun
  <2>2. Pending(journal, n) /\ journal[n].op = o
    BY <2>1 DEF Mine
  <2> DEFINE u == With(catalog, o.to, PutRow(o))
  <2>3. Written(o, K, catalog, u)
    <3> HIDE DEF n, o
    <3> QED
      BY <1>0, <2>1, <2>2, WrittenPut
  <2>4. Fit(o, journal, objects)
    BY <2>1 DEF Fit
  <2>5. Overwrite(c, u)
    BY <1>2, <2>1 DEF PutWrite
  <2> HIDE DEF u
  <2> QED
    BY <2>1, <2>3, <2>4, <2>5, WriteSerial
<1> QED
  BY <1>1, <1>2

LEMMA ReadFacts ==
  ASSUME TypeInv, NEW c \in Client, NEW ph, Goto(c, ph)
  PROVE  /\ pc'[c] = ph
         /\ ReadCatalog(c) => cat'[c] = catalog
         /\ job' = job => job'[c] = job[c]
         /\ cat' = cat => cat'[c] = cat[c]
BY DEF Goto, ReadCatalog, TypeInv

LEMMA RmSerial ==
  ASSUME OneAtATime, SerialInv, NEW c \in Client, TypeInv', RmRead(c) \/ RmBlob(c) \/ RmWrite(c)
  PROVE  NodeInv' /\ Change(c)
<1> DEFINE n == job[c].n
           o == job[c].op
           f == job[c].file
<1>0. /\ TypeInv /\ Log(journal) /\ Fits(journal, K) /\ Sound(journal, K, catalog, objects)
      /\ Ready(pc[c], job[c], cat[c], journal, K, catalog, objects)
      /\ Typed(pc[c], job[c], cat[c], Len(journal)) /\ catalog \in Catalog /\ Unique(catalog)
      /\ Explained(journal, K, catalog) /\ Shaped(o)
  BY Holds, ClientFacts
<1>1. /\ pc[c] \in {"reread", "rmBlob", "write"} /\ o.kind = "delete"
      /\ Mine(job[c], journal) /\ RowThere(job[c], catalog)
  BY <1>0 DEF RmRead, RmBlob, RmWrite, Ready, Begun, Typed
<1>2. Pending(journal, n) /\ journal[n].op = o
  BY <1>1 DEF Mine
<1>3. /\ o.ids = {f.id} /\ o.from \in Path /\ Has(catalog, o.from) /\ catalog[o.from] = f
      /\ f.id \in Path
  BY <1>0, <1>1, NoneAssumption DEF RowThere, Has, Shaped, File
<1>4. CASE RmRead(c)
  <2>1. /\ UNCHANGED <<objects, catalog, journal>> /\ job'[c] = job[c] /\ cat'[c] = catalog
        /\ pc'[c] = IF LastReferent(c) THEN "rmBlob" ELSE "write"
    BY <1>0, <1>4, ReadFacts DEF RmRead
  <2>2. CASE LastReferent(c)
    <3>1. Ready("rmBlob", job[c], catalog, journal, K, catalog, objects)
      BY <1>1, <2>2 DEF Ready, Begun, LastReferent
    <3> QED
      BY <2>1, <2>2, <3>1, Local
  <2>3. CASE ~LastReferent(c)
    <3>2. Ready("write", job[c], catalog, journal, K, catalog, objects)
      BY <1>1 DEF Ready, Begun
    <3> QED
      BY <2>1, <2>3, <3>2, Local
  <2> QED
    BY <2>2, <2>3
<1>5. CASE RmBlob(c)
  <2> DEFINE z == objects \ {f.sha}
  <2>1. cat[c] = catalog /\ \A p, q \in Referents(catalog, f.sha) : p = q
    BY <1>0, <1>5 DEF RmBlob, Ready
  <2>2. Sound(journal, K, catalog, z)
    <3> DEFINE w == o.from
               i == f.id
               x == f.sha
    <3>1. /\ journal[n].op.ids = {i} /\ journal[n].op.kind = "delete" /\ w \in Path
          /\ Has(catalog, w) /\ catalog[w].id = i /\ catalog[w].sha = x
          /\ \A p, q \in Referents(catalog, x) : p = q
      BY <1>1, <1>2, <1>3, <2>1
    <3> HIDE DEF n, o, w, i, x
    <3>2. Sound(journal, K, catalog, objects \ {x})
      BY <1>0, <1>2, <3>1, SoundRmBlob
    <3> QED
      BY <3>2 DEF x
  <2>3. /\ UNCHANGED <<catalog, journal>> /\ objects' = z
        /\ pc'[c] = "write" /\ job'[c] = job[c] /\ cat'[c] = cat[c]
    BY <1>0, <1>5, ReadFacts DEF RmBlob, Delete
  <2>4. BlobChange(o)
    BY <1>3, <2>3 DEF BlobChange
  <2> HIDE DEF z
  <2>5. Ready("write", job[c], cat[c], journal, K, catalog, z)
    BY <1>1, <2>1 DEF Ready, Begun
  <2> QED
    BY <1>1, <2>2, <2>3, <2>4, <2>5, Changes DEF Change
<1>6. CASE RmWrite(c)
  <2>1. cat[c] = catalog
    BY <1>0, <1>1, <1>6 DEF RmWrite, Ready
  <2> DEFINE u == Without(catalog, o.from)
  <2>2. Overwrite(c, u)
    BY <1>6, <2>1 DEF RmWrite
  <2>3. Written(o, K, catalog, u)
    <3>1. catalog[o.from].id \in o.ids
      BY <1>3
    <3> HIDE DEF n, o
    <3> QED
      BY <1>0, <1>1, <1>2, <1>3, <3>1, WrittenRm
  <2>4. Fit(o, journal, objects)
    BY <1>1 DEF Fit
  <2> HIDE DEF u
  <2> QED
    BY <1>1, <2>2, <2>3, <2>4, WriteSerial
<1> QED
  BY <1>4, <1>5, <1>6

LEMMA MvSerial ==
  ASSUME OneAtATime, SerialInv, NEW c \in Client, TypeInv', MvLook(c) \/ MvRead(c) \/ MvWrite(c)
  PROVE  NodeInv' /\ Change(c)
<1> DEFINE n == job[c].n
           o == job[c].op
           f == job[c].file
<1>0. /\ TypeInv /\ Log(journal) /\ Fits(journal, K) /\ Sound(journal, K, catalog, objects)
      /\ Ready(pc[c], job[c], cat[c], journal, K, catalog, objects)
      /\ catalog \in Catalog /\ Unique(catalog) /\ Explained(journal, K, catalog) /\ Shaped(o)
  BY Holds
<1>1. pc[c] \in {"read", "reread", "write"} /\ o.kind = "move" /\ RowThere(job[c], catalog)
  BY <1>0 DEF MvLook, MvRead, MvWrite, Ready
<1>2. CASE MvLook(c)
  <2>1. UNCHANGED <<objects, catalog, journal>>
    BY <1>2 DEF MvLook
  <2>2. CASE Has(catalog, o.to)
    BY <1>2, <2>1, <2>2, LeaveLocal DEF MvLook
  <2>3. CASE ~Has(catalog, o.to)
    <3>1. pc'[c] = "intent" /\ job'[c] = job[c] /\ cat'[c] = cat[c]
      BY <1>0, <1>2, <2>3, ReadFacts DEF MvLook
    <3>2. Asked(o, journal)
      BY <1>0, <1>2 DEF Ready, MvLook
    <3>3. Ready("intent", job[c], cat[c], journal, K, catalog, objects)
      BY <1>1, <2>3, <3>2 DEF Ready, Begun
    <3> QED
      BY <2>1, <3>1, <3>3, Local
  <2> QED
    BY <2>2, <2>3
<1>3. CASE MvRead(c) \/ MvWrite(c)
  <2>1. Mine(job[c], journal) /\ ~Has(catalog, o.to)
    BY <1>0, <1>1, <1>3 DEF MvRead, MvWrite, Ready, Begun
  <2>2. CASE MvRead(c)
    <3>1. /\ UNCHANGED <<objects, catalog, journal>> /\ job'[c] = job[c] /\ cat'[c] = catalog
          /\ pc'[c] = "write"
      BY <1>0, <2>2, ReadFacts DEF MvRead
    <3>2. Ready("write", job[c], catalog, journal, K, catalog, objects)
      BY <1>1, <2>1 DEF Ready, Begun
    <3> QED
      BY <3>1, <3>2, Local
  <2>3. CASE MvWrite(c)
    <3>1. Pending(journal, n) /\ journal[n].op = o /\ cat[c] = catalog
      BY <1>0, <2>1, <2>3 DEF Mine, MvWrite, Ready
    <3>2. catalog[o.from] = f /\ Has(catalog, o.from) /\ catalog[o.from].id \in o.ids
      BY <1>1, NoneAssumption DEF RowThere, Has
    <3> DEFINE u == With(Without(catalog, o.from), o.to, catalog[o.from])
    <3>3. Overwrite(c, u)
      BY <2>3, <3>1, <3>2 DEF MvWrite
    <3>4. Written(o, K, catalog, u)
      <4> HIDE DEF n, o
      <4> QED
        BY <1>0, <1>1, <3>1, <3>2, WrittenMove
    <3>5. Fit(o, journal, objects)
      BY <1>1 DEF Fit
    <3> HIDE DEF u
    <3> QED
      BY <2>1, <3>3, <3>4, <3>5, WriteSerial
  <2> QED
    BY <1>3, <2>2, <2>3
<1> QED
  BY <1>2, <1>3

(* The hash sync-mode takes for a blob of the file i is one of its own. *)
LEMMA OwnHash ==
  ASSUME OneAtATime, NEW i, NEW x \in Own(i), i \in MayBeGit
  PROVE  HashOf(x) \in Own(i)
<1>1. Content[i] \in Sha
  BY VaultAssumption
<1>2. Drift[Drift[Content[i]]] = Drift[Content[i]]
  BY <1>1 DEF OneAtATime
<1> QED
  BY <1>2 DEF Own, HashOf

LEMMA SyncReadSerial ==
  ASSUME OneAtATime, SerialInv, NEW c \in Client, TypeInv', SyncRead(c)
  PROVE  /\ NodeInv' /\ UNCHANGED <<objects, edited, catalog, journal>>
         /\ pc'[c] = "intent" /\ job'[c].file = job[c].file /\ job'[c].op.mode = job[c].op.mode
         /\ job'[c].op.sha = Found(job[c].op, job[c].file.sha, edited)
<1> DEFINE o == job[c].op
           f == job[c].file
           x == IF o.mode = "git" THEN HashOf(f.sha) ELSE f.sha
           jn == [job[c] EXCEPT !.op.sha = x]
<1>0. /\ TypeInv /\ Log(journal) /\ Fits(journal, K) /\ Sound(journal, K, catalog, objects)
      /\ Ready("read", job[c], cat[c], journal, K, catalog, objects)
      /\ catalog \in Catalog /\ Explained(journal, K, catalog) /\ Shaped(o)
      /\ job[c] \in Job /\ job \in [Client -> Job]
  BY Holds DEF SyncRead, TypeInv
<1>1. o.kind = "sync" /\ RowThere(job[c], catalog) /\ Asked(o, journal)
  BY <1>0 DEF SyncRead, Ready
<1>2. /\ o.from \in Path /\ Has(catalog, o.from) /\ catalog[o.from] = f /\ o.ids = {f.id}
      /\ f.sha \in Own(f.id) /\ f.sha \in Sha /\ f.id \in Path
  <2>1. o.from \in Path /\ Has(catalog, o.from) /\ catalog[o.from] = f /\ o.ids = {f.id}
    BY <1>0, <1>1, NoneAssumption DEF RowThere, Has, Shaped
  <2> QED
    BY <1>0, <2>1, Listed, RowFacts
<1>3. x \in Own(f.id) /\ x \in Sha
  <2>1. o.mode = "git" => f.id \in MayBeGit
    BY <1>1, <1>2 DEF Asked, Allowed
  <2>2. f.sha \in edited => Drift[f.sha] \in Sha
    BY <1>2, VaultAssumption
  <2> QED
    BY <1>2, <2>1, <2>2, OwnHash DEF HashOf
<1>4. job'[c] = jn
  <2>1. x = IF o.mode = "git" THEN HashOf(catalog[o.from].sha) ELSE catalog[o.from].sha
    BY <1>2
  <2>2. job' = [job EXCEPT ![c].op.sha = x]
    BY <2>1 DEF SyncRead
  <2> QED
    BY <1>0, <2>2
<1> HIDE DEF x
<1>5. /\ jn \in Job /\ jn.n = job[c].n /\ jn.file = f /\ jn.todo = job[c].todo
      /\ Shaped(jn.op) /\ jn.op.kind = "sync" /\ jn.op.from = o.from /\ jn.op.mode = o.mode
      /\ jn.op.ids = o.ids /\ jn.op.to = o.to /\ jn.op.sha = x
  BY <1>0, <1>1, <1>3, ShaJob
<1> DEFINE q == jn.op
<1> HIDE DEF jn
<1>6. Asked(q, journal)
  <2>1. Allowed(q)
    BY <1>1, <1>2, <1>3, <1>5 DEF Asked, Allowed
  <2>2. \A n \in DOMAIN journal : SameOp(journal[n].op, q) => SameOp(journal[n].op, o)
    BY <1>1, <1>5 DEF SameOp
  <2>3. Names(q) = Names(o)
    BY <1>5 DEF Names
  <2> QED
    BY <1>1, <1>5, <2>1, <2>2, <2>3 DEF Asked
<1>7. UNCHANGED <<objects, edited, catalog, journal>> /\ cat'[c] = catalog /\ pc'[c] = "intent"
  BY <1>0, ReadFacts DEF SyncRead
<1>8. Ready("intent", jn, catalog, journal, K, catalog, objects)
  BY <1>1, <1>2, <1>5, <1>6 DEF Ready, Begun, RowThere
<1>9. NodeInv'
  BY <1>4, <1>7, <1>8, Local
<1>10. x = Found(o, f.sha, edited)
  BY DEF x, Found, HashOf
<1> QED
  BY <1>4, <1>5, <1>7, <1>9, <1>10

LEMMA SyncSerial ==
  ASSUME OneAtATime, SerialInv, NEW c \in Client, TypeInv', Rehome(c) \/ SyncWrite(c)
  PROVE  NodeInv' /\ Change(c)
<1> DEFINE n == job[c].n
           o == job[c].op
<1>0. /\ TypeInv /\ Log(journal) /\ Fits(journal, K) /\ Sound(journal, K, catalog, objects)
      /\ Ready(pc[c], job[c], cat[c], journal, K, catalog, objects)
      /\ Typed(pc[c], job[c], cat[c], Len(journal))
      /\ catalog \in Catalog /\ Unique(catalog) /\ Explained(journal, K, catalog) /\ Shaped(o)
  BY Holds, ClientFacts
<1>1. /\ o.kind = "sync" /\ RowThere(job[c], catalog) /\ Mine(job[c], journal) /\ cat[c] = catalog
      /\ o.sha \in Sha
  <2>1. o.kind = "sync"
    BY <1>0 DEF Rehome, SyncWrite, Typed
  <2> QED
    BY <1>0, <2>1 DEF Rehome, SyncWrite, Ready, Begun, Shaped
<1>2. CASE Rehome(c)
  <2> DEFINE z == objects \cup {o.sha}
  <2>1. /\ UNCHANGED <<catalog, journal>> /\ objects' = z
        /\ pc'[c] = "write" /\ job'[c] = job[c] /\ cat'[c] = cat[c]
    BY <1>0, <1>2, ReadFacts DEF Rehome, Store
  <2>2. Sound(journal, K, catalog, z)
    BY <1>0, <1>1, SoundStored
  <2>3. o.sha \in z
    OBVIOUS
  <2>4. BlobChange(o)
    BY <1>1, <2>1 DEF BlobChange
  <2> HIDE DEF z
  <2>5. Ready("write", job[c], cat[c], journal, K, catalog, z)
    BY <1>1, <2>3 DEF Ready, Begun
  <2> QED
    BY <1>1, <2>1, <2>2, <2>4, <2>5, Changes DEF Change
<1>3. CASE SyncWrite(c)
  <2>2. Pending(journal, n) /\ journal[n].op = o
    BY <1>1 DEF Mine
  <2>3. Has(catalog, o.from) /\ catalog[o.from].id \in o.ids /\ o.ids = {job[c].file.id}
    BY <1>1, NoneAssumption DEF RowThere, Has
  <2> DEFINE u == With(catalog, o.from, SyncRow(catalog[o.from], o))
  <2>4. Overwrite(c, u)
    BY <1>1, <1>3 DEF SyncWrite
  <2>5. Written(o, K, catalog, u)
    <3> HIDE DEF n, o
    <3> QED
      BY <1>0, <1>1, <2>2, <2>3, WrittenSync
  <2>6. Fit(o, journal, objects)
    <3>1. o.sha \in objects \/ Swept(journal, job[c].file.id)
      BY <1>0, <1>1, <1>3 DEF SyncWrite, Ready
    <3> QED
      BY <1>1, <2>3, <3>1 DEF Fit
  <2> HIDE DEF u
  <2> QED
    BY <1>1, <2>4, <2>5, <2>6, WriteSerial
<1> QED
  BY <1>2, <1>3

-----------------------------------------------------------------------------
(* gc. *)

LEMMA GcPlanSerial ==
  ASSUME OneAtATime, SerialInv, NEW c \in Client, TypeInv', GcRead(c) \/ GcPlan(c) \/ GcSweep(c)
  PROVE  NodeInv'
<1>0. /\ TypeInv /\ Log(journal) /\ Fits(journal, K) /\ Explained(journal, K, catalog)
      /\ Ready(pc[c], job[c], cat[c], journal, K, catalog, objects)
      /\ Typed(pc[c], job[c], cat[c], Len(journal)) /\ job[c] \in Job /\ job \in [Client -> Job]
  BY Holds, ClientFacts DEF TypeInv
<1>1. CASE GcRead(c)
  <2>1. PICK pick \in SUBSET {k \in GcCandidates : k.sha \in job[c].todo} :
          job' = [job EXCEPT ![c].todo = pick]
    BY <1>1 DEF GcRead
  <2>2. job'[c].todo = pick
    BY <1>0, <2>1, JobFacts DEF GcCandidates
  <2>3. Candidates(pick, catalog)
    <3>1. ASSUME NEW d \in pick
          PROVE  /\ d \in Doom /\ d.id \in MayBeGit
                 /\ \E p \in Path : catalog[p] = [id |-> d.id, mode |-> "git", sha |-> d.sha]
      <4>1. d \in Doom /\ \E p \in Path : catalog[p] = [id |-> d.id, mode |-> "git", sha |-> d.sha]
        BY DEF GcCandidates
      <4>0. PICK p \in Path : catalog[p] = [id |-> d.id, mode |-> "git", sha |-> d.sha]
        BY <4>1
      <4>2. catalog[p].mode = "git" /\ catalog[p].id = d.id /\ Has(catalog, p)
        <5>1. d.id \in Path /\ d.sha \in Sha /\ "git" \in Mode
          BY <4>1 DEF Doom, Mode
        <5> QED
          BY <4>0, <5>1, FileFacts DEF Has
      <4>3. catalog[p].id \in MayBeGit
        BY <1>0, <4>2, Listed
      <4> QED
        BY <4>1, <4>2, <4>3
    <3> QED
      BY <3>1 DEF Candidates
  <2>4. UNCHANGED <<objects, catalog, journal>> /\ pc'[c] = "gcPlan" /\ cat'[c] = catalog
    BY <1>0, <1>1, ReadFacts DEF GcRead
  <2>5. Ready("gcPlan", job'[c], catalog, journal, K, catalog, objects)
    BY <2>2, <2>3 DEF Ready, Begun
  <2> QED
    BY <2>4, <2>5, Local
<1>2. CASE GcPlan(c) \/ GcSweep(c)
  <2>1. cat[c] = catalog /\ Candidates(job[c].todo, catalog) /\ job[c].op = NoOp
    BY <1>0, <1>2 DEF GcPlan, GcSweep, Ready, Typed
  <2>2. Doomed(c) \in SUBSET Doom /\ Candidates(Doomed(c), catalog)
    BY <2>1 DEF Doomed, Candidates
  <2>3. UNCHANGED <<objects, catalog, journal>>
    BY <1>2 DEF GcPlan, GcSweep
  <2>4. CASE GcPlan(c)
    <3>1. job'[c].todo = Doomed(c) /\ cat'[c] = cat[c] /\ pc'[c] = "gcSweep"
      BY <1>0, <2>2, <2>4, ReadFacts, JobFacts DEF GcPlan
    <3>2. Ready("gcSweep", job'[c], cat[c], journal, K, catalog, objects)
      BY <2>1, <2>2, <3>1 DEF Ready, Begun
    <3> QED
      BY <2>3, <3>1, <3>2, Local
  <2>5. CASE GcSweep(c) /\ Doomed(c) = {}
    BY <2>3, <2>5, LeaveLocal DEF GcSweep
  <2>6. CASE GcSweep(c) /\ Doomed(c) # {}
    <3> DEFINE o == job'[c].op
    <3>1. cat'[c] = cat[c] /\ pc'[c] = "intent"
      BY <1>0, <2>6, ReadFacts DEF GcSweep
    <3>2. job'[c].todo = Doomed(c) /\ o = [NoOp EXCEPT !.ids = {k.id : k \in Doomed(c)}]
      <4> DEFINE D == Doomed(c)
                 I == {k.id : k \in Doomed(c)}
      <4>1. job' = [job EXCEPT ![c].todo = D, ![c].op.ids = I]
        BY <2>6 DEF GcSweep
      <4> HIDE DEF D, I
      <4>2. job'[c] = [job[c] EXCEPT !.todo = D, !.op.ids = I]
        BY <1>0, <4>1
      <4>3. job[c] = [op |-> job[c].op, n |-> job[c].n, file |-> job[c].file, todo |-> job[c].todo]
        BY <1>0 DEF Job
      <4>4. job'[c].todo = D /\ job'[c].op = [job[c].op EXCEPT !.ids = I]
        BY <4>2, <4>3
      <4> QED
        BY <2>1, <4>4 DEF D, I
    <3>3. o.kind = "gc" /\ o.from = None /\ o.to = None /\ o.ids = {k.id : k \in Doomed(c)}
      BY <3>2 DEF NoOp
    <3>4. Shaped(o)
      BY ClientFacts, Holds, <2>6, <3>1 DEF TypeInv, Typed
    <3>5. Asked(o, journal)
      <4>1. o.ids \subseteq MayBeGit
        BY <2>2, <3>3 DEF Candidates
      <4>2. Names(o) = {}
        BY <3>3 DEF Names
      <4>3. \A n \in DOMAIN journal : ~SameOp(journal[n].op, o)
        BY <3>3 DEF SameOp
      <4> QED
        BY <3>3, <3>4, <4>1, <4>2, <4>3 DEF Asked, Allowed
    <3>6. Ready("intent", job'[c], cat[c], journal, K, catalog, objects)
      BY <2>1, <2>2, <3>2, <3>3, <3>5 DEF Ready, Begun
    <3> QED
      BY <2>3, <3>1, <3>6, Local
  <2> QED
    BY <1>2, <2>4, <2>5, <2>6
<1> QED
  BY <1>1, <1>2

(* Deleting one blob of a sweep, in gc or in its retry. *)
LEMMA BlobDeleted ==
  ASSUME OneAtATime, NEW j, NEW k, NEW t, NEW s, Log(j), Fits(j, k), Sound(j, k, t, s),
         NEW n, Pending(j, n), NEW o, o = j[n].op, o.kind = "gc", NEW todo, Remaining(o, todo, t),
         NEW d \in todo
  PROVE  Sound(j, k, t, s \ {d.sha}) /\ Remaining(o, todo \ {d}, t)
<1>1. PICK w \in Path : Has(t, w) /\ t[w].id \in o.ids /\ t[w].sha = d.sha
  BY DEF Remaining, Referents
<1> DEFINE x == d.sha
<1>2. Sound(j, k, t, s \ {x})
  <2>1. j[n].op.kind = "gc" /\ t[w].id \in j[n].op.ids /\ t[w].sha = x
    BY <1>1
  <2> HIDE DEF x
  <2> QED
    BY <1>1, <2>1, SoundGcBlob
<1>3. Remaining(o, todo \ {d}, t)
  BY DEF Remaining
<1> QED
  BY <1>1, <1>2, <1>3

(* What gc writes is the catalog without the files of its intent. *)
LEMMA KeptWritten ==
  ASSUME OneAtATime, SerialInv, NEW c \in Client, Mine(job[c], journal), job[c].op.kind = "gc",
         cat[c] = catalog
  PROVE  Written(job[c].op, K, catalog, GcKept(c))
<1> DEFINE n == job[c].n
           o == job[c].op
<1>1. /\ TypeInv /\ Log(journal) /\ Fits(journal, K) /\ catalog \in Catalog /\ Shaped(o)
  BY Holds
<1>2. Pending(journal, n) /\ n \in DOMAIN journal /\ journal[n].op = o
  BY DEF Mine, Pending
<1>3. o.ids \subseteq MayBeGit
  BY <1>1, <1>2 DEF Log, Allowed
<1> DEFINE X == {catalog[p].sha : p \in UNION {PathsOf(catalog, i) : i \in o.ids}}
<1>4. GcKept(c) = WithoutShas(catalog, X)
  BY DEF GcKept
<1>5. Written(o, K, catalog, WithoutFiles(catalog, o.ids))
  <2> HIDE DEF n, o
  <2>1. o.kind = "gc"
    BY DEF o
  <2> QED
    BY <1>1, <1>2, <2>1, WrittenGc
<1>6. WithoutShas(catalog, X) = WithoutFiles(catalog, o.ids)
  <2> DEFINE I == o.ids
  <2>1. I \subseteq MayBeGit /\ Explained(journal, K, catalog)
    BY <1>3, Holds
  <2> HIDE DEF I
  <2>2. WithoutShas(catalog, {catalog[p].sha : p \in UNION {PathsOf(catalog, i) : i \in I}}) = WithoutFiles(catalog, I)
    BY <1>1, <2>1, SameSweep
  <2> QED
    BY <2>2 DEF I
<1> QED
  BY <1>4, <1>5, <1>6

LEMMA GcSerial ==
  ASSUME OneAtATime, SerialInv, NEW c \in Client, TypeInv', GcDelete(c) \/ GcWrite(c) \/ GcFail(c)
  PROVE  NodeInv' /\ Change(c)
<1> DEFINE n == job[c].n
           o == job[c].op
           todo == job[c].todo
<1>0. /\ TypeInv /\ Log(journal) /\ Fits(journal, K) /\ Sound(journal, K, catalog, objects)
      /\ Ready(pc[c], job[c], cat[c], journal, K, catalog, objects)
      /\ Typed(pc[c], job[c], cat[c], Len(journal)) /\ job[c] \in Job /\ job \in [Client -> Job]
  BY Holds, ClientFacts DEF TypeInv
<1>1. /\ pc[c] \in {"delete", "write"} /\ o.kind = "gc" /\ Mine(job[c], journal) /\ cat[c] = catalog
      /\ pc[c] = "delete" => Remaining(o, todo, catalog)
  BY <1>0 DEF GcDelete, GcWrite, GcFail, Ready, Begun, Typed
<1>2. Pending(journal, n) /\ journal[n].op = o
  BY <1>1 DEF Mine
<1>3. ASSUME pc[c] = "delete", NEW d \in todo
      PROVE  /\ Sound(journal, K, catalog, objects \ {d.sha})
             /\ Remaining(o, todo \ {d}, catalog)
             /\ objects' = objects \ {d.sha} => BlobChange(o)
  <2>1. Remaining(o, todo, catalog)
    BY <1>1, <1>3
  <2> HIDE DEF n, o, todo
  <2>2. o.kind = "gc"
    BY <1>1 DEF o
  <2>3. Sound(journal, K, catalog, objects \ {d.sha}) /\ Remaining(o, todo \ {d}, catalog)
    BY <1>0, <1>2, <1>3, <2>1, <2>2, BlobDeleted
  <2>4. PICK p \in Path : Has(catalog, p) /\ catalog[p].id \in o.ids /\ catalog[p].sha = d.sha
    BY <1>3, <2>1 DEF Remaining, Referents
  <2>5. objects' = objects \ {d.sha} => BlobChange(o)
    BY <2>4 DEF BlobChange
  <2> QED
    BY <2>3, <2>5
<1>4. Written(o, K, catalog, GcKept(c))
  BY <1>1, KeptWritten
<1>5. CASE GcDelete(c)
  <2>1. PICK d \in todo : /\ objects' = objects \ {d.sha}
                          /\ job' = [job EXCEPT ![c].todo = @ \ {d}]
                          /\ Goto(c, IF todo = {d} THEN "write" ELSE "delete")
    BY <1>5 DEF GcDelete, Delete
  <2> DEFINE z == objects \ {d.sha}
  <2>2. pc[c] = "delete" /\ UNCHANGED <<catalog, journal, cat>>
    BY <1>5 DEF GcDelete
  <2>3. todo \ {d} \in SUBSET Doom
    BY <1>1, <2>2 DEF Remaining
  <2>4. job'[c] = [job[c] EXCEPT !.todo = todo \ {d}]
    BY <1>0, <2>1
  <2>5. job'[c].todo = todo \ {d} /\ job'[c].op = o /\ job'[c].n = n
    BY <1>0, <2>3, <2>4 DEF Job
  <2>6. Mine(job'[c], journal)
    BY <1>1, <2>5 DEF Mine
  <2>7. pc'[c] = IF todo = {d} THEN "write" ELSE "delete"
    BY <1>0, <2>1, ReadFacts
  <2>8. Sound(journal, K, catalog, z)
    BY <1>3, <2>2
  <2>9. Ready(pc'[c], job'[c], cat[c], journal, K, catalog, z)
    <3>1. Remaining(o, todo \ {d}, catalog)
      BY <1>3, <2>2
    <3> HIDE DEF z
    <3>2. CASE todo = {d}
      BY <1>1, <2>5, <2>6, <2>7, <3>2 DEF Ready, Begun
    <3>3. CASE todo # {d}
      BY <1>1, <2>5, <2>6, <2>7, <3>1, <3>3 DEF Ready, Begun
    <3> QED
      BY <3>2, <3>3
  <2>10. BlobChange(o)
    BY <1>3, <2>1, <2>2
  <2> QED
    BY <1>1, <2>1, <2>2, <2>8, <2>9, <2>10, Changes DEF Change
<1>6. CASE GcWrite(c)
  <2>1. Fit(o, journal, objects)
    BY <1>1, <1>6 DEF Fit, GcWrite
  <2> QED
    BY <1>1, <1>4, <1>6, <2>1, WriteSerial DEF GcWrite
<1>7. CASE GcFail(c)
  <2>1. journal' = Marked(job[c].n, "failed") /\ Leave(c)
    BY <1>7 DEF GcFail
  <2>2. Sound(journal, K, catalog', objects')
    <3>1. CASE pc[c] = "delete" /\ UNCHANGED catalog
      <4>1. objects' = objects \/ \E d \in todo : objects' = objects \ {d.sha}
        BY <1>7, <3>1 DEF GcFail, Delete
      <4> QED
        BY <1>0, <1>3, <3>1, <4>1
    <3>2. CASE pc[c] = "write" /\ UNCHANGED objects
      <4>1. catalog' \in {catalog, GcKept(c)}
        BY <1>7, <3>2 DEF GcFail
      <4>2. Sound(journal, K, GcKept(c), objects)
        <5> DEFINE u == GcKept(c)
        <5>1. Written(journal[n].op, K, catalog, u) /\ Fit(journal[n].op, journal, objects)
          BY <1>1, <1>2, <1>4, <3>2 DEF Fit
        <5> HIDE DEF n, o, u
        <5>2. Sound(journal, K, u, objects)
          BY <1>0, <1>2, <5>1, SoundWritten
        <5> QED
          BY <5>2 DEF u
      <4> QED
        BY <1>0, <3>2, <4>1, <4>2
    <3> QED
      BY <1>7, <3>1, <3>2 DEF GcFail
  <2> QED
    <3>1. NodeInv'
      BY <1>1, <2>1, <2>2, FailSerial
    <3>2. Change(c)
      <4>1. CASE pc[c] = "delete" /\ UNCHANGED catalog
        <5>1. objects' = objects \/ \E d \in todo : objects' = objects \ {d.sha}
          BY <1>7, <4>1 DEF GcFail, Delete
        <5>2. objects' = objects \/ BlobChange(o)
          BY <1>3, <4>1, <5>1
        <5> QED
          BY <1>1, <4>1, <5>2 DEF Change
      <4>2. CASE pc[c] = "write" /\ UNCHANGED objects
        <5>1. catalog' \in {catalog, GcKept(c)}
          BY <1>7, <4>2 DEF GcFail
        <5> QED
          BY <1>1, <1>4, <4>2, <5>1 DEF Change
      <4> QED
        BY <1>7, <4>1, <4>2 DEF GcFail
    <3> QED
      BY <3>1, <3>2
<1> QED
  BY <1>5, <1>6, <1>7

-----------------------------------------------------------------------------
(* ops retry and rebuild-catalog. *)

LEMMA RetryReadSerial ==
  ASSUME OneAtATime, SerialInv, NEW c \in Client, TypeInv', RetryRead(c)
  PROVE  NodeInv'
<1> DEFINE n == job[c].n
           o == job[c].op
<1>0. /\ TypeInv /\ Log(journal) /\ Fits(journal, K) /\ Sound(journal, K, catalog, objects)
      /\ Ready("retry", job[c], cat[c], journal, K, catalog, objects)
      /\ job[c] \in Job /\ job \in [Client -> Job]
  BY Holds, ClientFacts DEF TypeInv, RetryRead
<1>1. Mine(job[c], journal) /\ o.kind \in {"move", "delete", "gc"}
  BY <1>0 DEF Ready, Begun
<1>2. Pending(journal, n) /\ journal[n].op = o
  BY <1>1 DEF Mine
<1>3. UNCHANGED <<objects, catalog, journal>> /\ ReadCatalog(c)
  BY DEF RetryRead
<1>4. CASE o.kind = "gc"
  <2> DEFINE todo == {d \in Doom : d.id \in o.ids /\ \E p \in PathsOf(catalog, d.id) : catalog[p].sha = d.sha}
  <2>1. job' = [job EXCEPT ![c].todo = todo] /\ Goto(c, "redelete")
    BY <1>4 DEF RetryRead
  <2>2. pc'[c] = "redelete" /\ cat'[c] = catalog
    BY <1>0, <1>3, <2>1, ReadFacts
  <2>3. Remaining(o, todo, catalog)
    BY DEF Remaining, Referents, PathsOf
  <2> HIDE DEF todo
  <2>4. job'[c] = [job[c] EXCEPT !.todo = todo]
    BY <1>0, <2>1
  <2>5. job'[c].todo = todo /\ job'[c].op = o /\ job'[c].n = n
    BY <1>0, <2>4 DEF Job
  <2>6. Ready("redelete", job'[c], catalog, journal, K, catalog, objects)
    BY <1>1, <2>3, <2>5 DEF Ready, Begun, Mine
  <2> QED
    BY <1>3, <2>2, <2>6, Local
<1>5. CASE o.kind \in {"move", "delete"}
  <2>1. Goto(c, "rewrite") /\ job' = job
    BY <1>5 DEF RetryRead
  <2>2. pc'[c] = "rewrite" /\ cat'[c] = catalog /\ job'[c] = job[c]
    BY <1>0, <1>3, <2>1, ReadFacts
  <2>3. Ready("rewrite", job[c], catalog, journal, K, catalog, objects)
    BY <1>1, <1>5 DEF Ready, Begun
  <2> QED
    BY <1>3, <2>2, <2>3, Local
<1> QED
  BY <1>1, <1>4, <1>5

(* What the retry of a sweep writes, once it has nothing to delete. *)
LEMMA RedoneWritten ==
  ASSUME SerialInv, NEW c \in Client, Mine(job[c], journal), job[c].op.kind = "gc"
  PROVE  Written(job[c].op, K, catalog, Replay(catalog, job[c].op))
<1> DEFINE n == job[c].n
           o == job[c].op
<1>1. Log(journal) /\ Fits(journal, K) /\ catalog \in Catalog
  BY Holds
<1>2. Pending(journal, n) /\ journal[n].op = o /\ o.kind = "gc"
  BY DEF Mine
<1>3. Replay(catalog, o) = WithoutFiles(catalog, o.ids)
  BY <1>2 DEF Replay, ReplayGc
<1> HIDE DEF n, o
<1>4. Written(o, K, catalog, Replay(catalog, o))
  BY <1>1, <1>2, <1>3, WrittenGc
<1> QED
  BY <1>4 DEF o

LEMMA RetrySerial ==
  ASSUME OneAtATime, SerialInv, NEW c \in Client, TypeInv', RetryDelete(c) \/ RetryWrite(c) \/ RetryFail(c)
  PROVE  NodeInv' /\ Change(c)
<1> DEFINE n == job[c].n
           o == job[c].op
           todo == job[c].todo
<1>0. /\ TypeInv /\ Log(journal) /\ Fits(journal, K) /\ Sound(journal, K, catalog, objects)
      /\ Ready(pc[c], job[c], cat[c], journal, K, catalog, objects)
      /\ Typed(pc[c], job[c], cat[c], Len(journal)) /\ job[c] \in Job /\ job \in [Client -> Job]
      /\ catalog \in Catalog /\ Unique(catalog) /\ Explained(journal, K, catalog)
  BY Holds, ClientFacts DEF TypeInv
<1>1. /\ pc[c] \in {"redelete", "rewrite"} /\ Mine(job[c], journal) /\ cat[c] = catalog
      /\ pc[c] = "redelete" => o.kind = "gc" /\ Remaining(o, todo, catalog)
      /\ pc[c] = "rewrite" => o.kind \in {"move", "delete"}
  BY <1>0 DEF RetryDelete, RetryWrite, RetryFail, Ready, Begun, Typed
<1>2. Pending(journal, n) /\ journal[n].op = o
  BY <1>1 DEF Mine
<1>3. ASSUME pc[c] = "redelete", NEW d \in todo
      PROVE  /\ Sound(journal, K, catalog, objects \ {d.sha})
             /\ Remaining(o, todo \ {d}, catalog)
             /\ objects' = objects \ {d.sha} => BlobChange(o)
  <2>1. Remaining(o, todo, catalog) /\ o.kind = "gc"
    BY <1>1, <1>3
  <2> HIDE DEF n, o, todo
  <2>2. Sound(journal, K, catalog, objects \ {d.sha}) /\ Remaining(o, todo \ {d}, catalog)
    BY <1>0, <1>2, <1>3, <2>1, BlobDeleted
  <2>3. PICK p \in Path : Has(catalog, p) /\ catalog[p].id \in o.ids /\ catalog[p].sha = d.sha
    BY <1>3, <2>1 DEF Remaining, Referents
  <2>4. objects' = objects \ {d.sha} => BlobChange(o)
    BY <2>3 DEF BlobChange
  <2> QED
    BY <2>2, <2>4
<1>4. ASSUME pc[c] = "redelete"
      PROVE  Written(o, K, catalog, Replay(catalog, o)) /\ Fit(o, journal, objects)
  <2>1. Written(o, K, catalog, Replay(catalog, o))
    BY <1>1, <1>4, RedoneWritten
  <2> QED
    BY <1>1, <1>4, <2>1 DEF Fit
<1>5. CASE RetryDelete(c)
  <2>1. PICK d \in todo : /\ objects' = objects \ {d.sha}
                          /\ job' = [job EXCEPT ![c].todo = @ \ {d}]
    BY <1>5 DEF RetryDelete, Delete
  <2> DEFINE z == objects \ {d.sha}
  <2>2. pc[c] = "redelete" /\ UNCHANGED <<catalog, journal, pc, cat>>
    BY <1>5 DEF RetryDelete
  <2>3. job'[c] = [job[c] EXCEPT !.todo = todo \ {d}]
    BY <1>0, <2>1
  <2>4. job'[c].todo = todo \ {d} /\ job'[c].op = o /\ job'[c].n = n
    BY <1>0, <2>3 DEF Job
  <2>5. Sound(journal, K, catalog, z) /\ Remaining(o, todo \ {d}, catalog)
    BY <1>3, <2>2
  <2> HIDE DEF z
  <2>6. Ready("redelete", job'[c], cat[c], journal, K, catalog, z)
    BY <1>1, <2>2, <2>4, <2>5 DEF Ready, Begun, Mine
  <2> QED
    <3>1. BlobChange(o)
      BY <1>3, <2>1, <2>2
    <3> QED
      BY <1>1, <2>1, <2>2, <2>5, <2>6, <3>1, Changes DEF z, Change
<1>6. CASE RetryWrite(c)
  <2>1. Overwrite(c, Replay(catalog, o))
    BY <1>1, <1>6 DEF RetryWrite
  <2>2. CASE pc[c] = "redelete"
    <3>1. Written(o, K, catalog, Replay(catalog, o)) /\ Fit(o, journal, objects)
      BY <1>4, <1>6, <2>2 DEF RetryWrite
    <3> QED
      BY <1>1, <2>1, <3>1, WriteSerial
  <2>3. CASE pc[c] = "rewrite"
    <3>1. o.kind \in {"move", "delete"}
      BY <1>1, <2>3
    <3>2. Fit(o, journal, objects)
      BY <3>1 DEF Fit
    <3>3. o.kind = "move" => \A i \in o.ids : HasFile(catalog, i)
      BY <1>0, <1>2 DEF Sound, Stored, Pending
    <3>4. Written(o, K, catalog, Replay(catalog, o))
      <4> HIDE DEF n, o
      <4> QED
        BY <1>0, <1>2, <3>1, <3>3, WrittenRetry, WrittenRemoval
    <3> QED
      BY <1>1, <2>1, <3>2, <3>4, WriteSerial
  <2> QED
    BY <1>1, <2>2, <2>3
<1>7. CASE RetryFail(c)
  <2>1. journal' = Marked(job[c].n, "failed") /\ Leave(c) /\ pc[c] = "redelete"
    BY <1>7 DEF RetryFail
  <2>2. Sound(journal, K, catalog', objects')
    <3>1. CASE UNCHANGED catalog
      <4>1. objects' = objects \/ \E d \in todo : objects' = objects \ {d.sha}
        BY <1>7 DEF RetryFail, Delete
      <4> QED
        BY <1>0, <1>3, <2>1, <3>1, <4>1
    <3>2. CASE todo = {} /\ UNCHANGED objects /\ catalog' \in {catalog, Replay(catalog, o)}
      <4>1. Sound(journal, K, Replay(catalog, o), objects)
        <5> DEFINE u == Replay(catalog, o)
        <5>1. Written(journal[n].op, K, catalog, u) /\ Fit(journal[n].op, journal, objects)
          BY <1>2, <1>4, <2>1, <3>2
        <5> HIDE DEF n, o, u
        <5>2. Sound(journal, K, u, objects)
          BY <1>0, <1>2, <5>1, SoundWritten
        <5> QED
          BY <5>2 DEF u
      <4> QED
        BY <1>0, <3>2, <4>1
    <3> QED
      BY <1>1, <1>7, <3>1, <3>2 DEF RetryFail
  <2> QED
    <3>1. NodeInv'
      BY <1>1, <2>1, <2>2, FailSerial
    <3>2. Change(c)
      <4>1. CASE UNCHANGED catalog
        <5>1. objects' = objects \/ \E d \in todo : objects' = objects \ {d.sha}
          BY <1>7 DEF RetryFail, Delete
        <5>2. objects' = objects \/ BlobChange(o)
          BY <1>3, <2>1, <5>1
        <5> QED
          BY <1>1, <4>1, <5>2 DEF Change
      <4>2. CASE todo = {} /\ UNCHANGED objects /\ catalog' \in {catalog, Replay(catalog, o)}
        BY <1>1, <1>4, <2>1, <4>2 DEF Change
      <4> QED
        BY <1>1, <1>7, <4>1, <4>2 DEF RetryFail
    <3> QED
      BY <3>1, <3>2
<1> QED
  BY <1>5, <1>6, <1>7

LEMMA RebuildSerial ==
  ASSUME OneAtATime, SerialInv, NEW c \in Client, TypeInv', RebuildWrite(c)
  PROVE  NodeInv' /\ Change(c)
<1>1. /\ TypeInv /\ Log(journal) /\ Fits(journal, K) /\ Sound(journal, K, catalog, objects)
      /\ Ready("rebuild", job[c], cat[c], journal, K, catalog, objects)
  BY Holds DEF RebuildWrite
<1>2. cat[c] = K
  BY <1>1 DEF Ready
<1>3. Sound(journal, K, K, objects)
  BY <1>1, SoundRebuilt
<1>4. catalog' = K /\ UNCHANGED <<objects, journal>> /\ pc'[c] = "idle"
  BY <1>1, <1>2, Ends DEF RebuildWrite
<1> QED
  BY <1>3, <1>4, Idle, Changes DEF Change, RebuildWrite

-----------------------------------------------------------------------------
(* The blobs that were edited. *)

(* Two files with a hash in common are one, if one of them may be git-mode. *)
LEMMA OneOwner ==
  ASSUME OneAtATime, NEW i \in MayBeGit, NEW q \in Path, NEW x, x \in Own(i), x \in Own(q)
  PROVE  i = q
BY DEF OneAtATime

LEMMA HashAppend ==
  ASSUME OneAtATime, NEW j, NEW k, NEW t, NEW e, Log(j), Fits(j, k), Explained(j, k, t), t \in Catalog,
         Hashed(j, k, e), NEW o, Shaped(o), Opens(o, t), New(o, j),
         o.kind = "sync" => o.sha = Found(o, t[o.from].sha, e),
         NEW i, i = Append(j, [op |-> o, state |-> "intent"])
  PROVE  Hashed(i, k, e)
<1> DEFINE l == Len(j) + 1
<1>1. Extends(j, o, i, l)
  BY AppendFacts
<1> HIDE DEF l
<1>2. ASSUME o.kind = "sync" PROVE Synced(o, k, e)
  <2> DEFINE f == t[o.from]
  <2>1. o.from \in Path /\ Has(t, o.from) /\ f.id \in o.ids /\ f.sha \in Sha /\ o.sha = Found(o, f.sha, e)
    BY <1>2, RowFacts DEF Shaped, Opens
  <2>2. f = k[o.from]
    BY <2>1, FreeRow DEF New
  <2>3. \E x \in Path : o.ids = {x}
    BY <1>2 DEF Shaped
  <2>4. ASSUME NEW p \in Path, Has(k, p), k[p].id \in o.ids PROVE k[p] = f
    <3>1. k[p].id = k[o.from].id /\ Has(k, o.from)
      BY <2>1, <2>2, <2>3, <2>4 DEF Has
    <3> QED
      BY <2>1, <2>2, <2>4, <3>1 DEF Fits, Unique
  <2> HIDE DEF f
  <2>5. ASSUME o.mode = "git" PROVE o.sha \notin e
    <3>1. CASE f.sha \in e
      <4>1. o.sha = Drift[f.sha]
        BY <2>1, <2>5, <3>1 DEF Found
      <4>2. Drift[Drift[f.sha]] = Drift[f.sha]
        BY <2>1 DEF OneAtATime
      <4> QED
        BY <4>1, <4>2 DEF Hashed
    <3>2. CASE f.sha \notin e
      BY <2>1, <3>2 DEF Found
    <3> QED
      BY <3>1, <3>2
  <2> QED
    BY <2>1, <2>4, <2>5 DEF Synced
<1>3. ASSUME NEW n \in DOMAIN i, Pending(i, n), i[n].op.kind = "sync" PROVE Synced(i[n].op, k, e)
  <2>1. CASE n = l
    BY <1>1, <1>2, <1>3, <2>1 DEF Extends
  <2>2. CASE n # l
    <3>1. n \in DOMAIN j /\ Pending(j, n) /\ i[n] = j[n]
      BY <1>1, <1>3, <2>2 DEF Extends
    <3> QED
      BY <1>3, <3>1 DEF Hashed
  <2> QED
    BY <2>1, <2>2
<1> QED
  BY <1>3 DEF Hashed

LEMMA HashDone ==
  ASSUME NEW j, NEW k, NEW e, Log(j), Fits(j, k), Hashed(j, k, e),
         NEW n, Pending(j, n), NEW i, Restated(j, n, i, "done")
  PROVE  Hashed(i, Replay(k, j[n].op), e)
<1> DEFINE o == j[n].op
           r == Replay(k, o)
<1>0. /\ n \in DOMAIN j /\ k \in Catalog /\ Unique(k) /\ Shaped(o) /\ Apt(k, o)
      /\ \A m \in DOMAIN j : Pending(j, m) /\ m # n => Distinct(o, j[m].op)
      /\ DOMAIN i = DOMAIN j
      /\ \A m \in DOMAIN j : i[m].op = j[m].op
      /\ \A m : Pending(i, m) <=> Pending(j, m) /\ m # n
  <2>1. /\ n \in DOMAIN j /\ k \in Catalog /\ Unique(k) /\ Shaped(o) /\ Apt(k, o)
        /\ \A m \in DOMAIN j : Pending(j, m) /\ m # n => Distinct(o, j[m].op)
    BY PendingFacts
  <2>2. /\ DOMAIN i = DOMAIN j
        /\ \A m \in DOMAIN j : i[m].op = j[m].op
        /\ \A m : Pending(i, m) <=> Pending(j, m) /\ m # n
    BY RestatedFacts
  <2> QED
    BY <2>1, <2>2
<1>1. \A p \in Path : Has(r, p) /\ r[p].id \notin o.ids => r[p] = k[p]
  BY <1>0, OtherRow
<1>2. ASSUME NEW p \in Path, Has(r, p), r[p].mode = "git" PROVE r[p].sha \notin e
  <2>1. CASE r[p].id \notin o.ids
    BY <1>1, <1>2, <2>1 DEF Hashed, Has
  <2>2. CASE r[p].id \in o.ids
    <3> HIDE DEF o
    <3>1. /\ o.kind \in {"ingest", "move", "sync"}
          /\ o.kind \in {"ingest", "move"} => p = o.to
          /\ o.kind = "sync" => p = o.from
          /\ o.kind = "ingest" => r[o.to] = PutRow(o)
          /\ o.kind = "move" => r[o.to] = k[o.from]
          /\ o.kind = "sync" => r[o.from].mode = o.mode /\ r[o.from].sha = o.sha
      BY <1>0, <1>2, <2>2, MadeRow
    <3>2. o.kind # "ingest"
      BY <1>0, <1>2, <3>1, PutRowFacts
    <3>3. CASE o.kind = "move"
      <4>1. o.from \in Path /\ Has(k, o.from) /\ r[p] = k[o.from]
        BY <1>0, <3>1, <3>3 DEF Apt, Shaped
      <4> QED
        BY <1>2, <4>1 DEF Hashed
    <3>4. CASE o.kind = "sync"
      <4>1. Synced(o, k, e)
        BY <1>0, <3>4 DEF Hashed, o
      <4> QED
        BY <1>2, <3>1, <3>4, <4>1 DEF Synced
    <3> QED
      BY <3>1, <3>2, <3>3, <3>4
  <2> QED
    BY <2>1, <2>2
<1>3. ASSUME NEW m \in DOMAIN i, Pending(i, m), i[m].op.kind = "sync" PROVE Synced(i[m].op, r, e)
  <2> DEFINE q == j[m].op
  <2>1. i[m].op = q /\ Synced(q, k, e) /\ q.ids \cap o.ids = {}
    BY <1>0, <1>3 DEF Hashed, Distinct
  <2>2. \A p \in Path : Has(r, p) /\ r[p].id \in q.ids => Has(k, p) /\ r[p] = k[p]
    BY <1>1, <2>1 DEF Has
  <2> HIDE DEF q, o, r
  <2> QED
    BY <2>1, <2>2 DEF Synced
<1> QED
  BY <1>2, <1>3 DEF Hashed

LEMMA HashFailed ==
  ASSUME NEW j, NEW k, NEW e, Log(j), Hashed(j, k, e),
         NEW n, Pending(j, n), NEW i, Restated(j, n, i, "failed")
  PROVE  Hashed(i, k, e)
<1>1. /\ DOMAIN i = DOMAIN j
      /\ \A m \in DOMAIN j : i[m].op = j[m].op
      /\ \A m : Pending(i, m) <=> Pending(j, m) /\ m # n
  BY RestatedFacts
<1> QED
  BY <1>1 DEF Hashed

(* A blob listed with a file of a pending operation is deleted: no other    *)
(* operation's file has its bytes.                                          *)
LEMMA HashDeleted ==
  ASSUME OneAtATime, NEW j, NEW k, NEW t, NEW e, Log(j), Fits(j, k), Explained(j, k, t), t \in Catalog,
         Hashed(j, k, e), NEW n, Pending(j, n), j[n].op.kind # "sync",
         NEW w \in Path, Has(t, w), t[w].id \in j[n].op.ids, NEW x, x = t[w].sha
  PROVE  Hashed(j, k, e \ {x})
<1>1. x \in Own(t[w].id) /\ t[w].id \in Path
  BY Listed, RowFacts
<1>2. ASSUME NEW m \in DOMAIN j, Pending(j, m), j[m].op.kind = "sync" PROVE Synced(j[m].op, k, e \ {x})
  <2> DEFINE q == j[m].op
  <2>1. q.ids \cap j[n].op.ids = {} /\ Synced(q, k, e) /\ (q.mode = "git" => q.ids \subseteq MayBeGit)
    <3>1. n \in DOMAIN j /\ m # n
      BY <1>2 DEF Pending
    <3>2. Distinct(j[m].op, j[n].op)
      BY <1>2, <3>1, LogFacts
    <3> QED
      BY <1>2, <3>2 DEF Distinct, Hashed, Log, Allowed
  <2> HIDE DEF q
  <2>2. ASSUME NEW p \in Path, Has(k, p), k[p].id \in q.ids, q.mode = "git" PROVE k[p].sha # x
    <3>1. k[p].id \in MayBeGit /\ k[p].id # t[w].id /\ k[p].sha \in Own(k[p].id)
      BY <2>1, <2>2 DEF Fits
    <3> QED
      BY <1>1, <3>1, OneOwner
  <2>3. \A p \in Path : Has(k, p) /\ k[p].id \in q.ids => Found(q, k[p].sha, e \ {x}) = Found(q, k[p].sha, e)
    BY <2>2 DEF Found
  <2> QED
    BY <2>1, <2>3 DEF Synced, q
<1> QED
  BY <1>2 DEF Hashed

(* A blob is edited: only a manual file has it, one no operation names. *)
LEMMA HashEdited ==
  ASSUME OneAtATime, NEW j, NEW k, NEW t, NEW e, Log(j), Fits(j, k), Explained(j, k, t), t \in Catalog,
         Hashed(j, k, e), NEW w \in Path, Has(t, w), t[w].mode = "manual", ~Named(j, t[w].id),
         NEW x, x = t[w].sha, Drift[x] # x
  PROVE  Hashed(j, k, e \cup {x})
<1> DEFINE f == t[w]
<1>1. x \in Own(f.id) /\ f.id \in Path
  BY Listed, RowFacts
<1>2. k[w] = f
  <2>1. ~Held(j, f.id)
    BY DEF Held, Named
  <2> QED
    BY <2>1, FreeRow
<1>3. Has(t, w) /\ f.mode = "manual" /\ ~Named(j, f.id) /\ Has(k, w)
  BY <1>2 DEF Has
<1> HIDE DEF f
<1>4. ASSUME NEW p \in Path, Has(k, p), k[p].id \in MayBeGit, k[p].sha = x PROVE k[p] = f
  <2>1. k[p].id = f.id
    BY <1>1, <1>4, OneOwner DEF Fits
  <2> QED
    BY <1>2, <1>3, <1>4, <2>1 DEF Fits, Unique
<1>5. ASSUME NEW p \in Path, Has(k, p), k[p].mode = "git" PROVE k[p].sha \notin e \cup {x}
  <2>1. k[p].id \in MayBeGit /\ k[p].sha \notin e
    BY <1>5 DEF Fits, Hashed
  <2>2. k[p].sha # x
    BY <1>3, <1>4, <1>5, <2>1
  <2> QED
    BY <2>1, <2>2
<1>6. ASSUME NEW m \in DOMAIN j, Pending(j, m), j[m].op.kind = "sync" PROVE Synced(j[m].op, k, e \cup {x})
  <2> DEFINE q == j[m].op
  <2>1. /\ Synced(q, k, e) /\ (q.mode = "git" => q.ids \subseteq MayBeGit)
        /\ \A i \in q.ids : q.sha \in Own(i) /\ Named(j, i)
        /\ Shaped(q) /\ q.kind = "sync"
    BY <1>6, PendingFacts DEF Hashed, Log, Allowed
  <2> HIDE DEF q
  <2>2. ASSUME NEW p \in Path, Has(k, p), k[p].id \in q.ids, q.mode = "git" PROVE k[p].sha # x
    <3>1. k[p].id \in MayBeGit /\ Named(j, k[p].id)
      BY <2>1, <2>2
    <3> QED
      BY <1>3, <1>4, <2>2, <3>1
  <2>3. \A p \in Path : Has(k, p) /\ k[p].id \in q.ids => Found(q, k[p].sha, e \cup {x}) = Found(q, k[p].sha, e)
    BY <2>2 DEF Found
  <2>4. ASSUME q.mode = "git" PROVE q.sha \notin e \cup {x}
    <3>1. PICK i \in Path : q.ids = {i}
      BY <2>1 DEF Shaped
    <3>2. i \in MayBeGit /\ q.sha \in Own(i) /\ Named(j, i) /\ q.sha \notin e
      BY <2>1, <2>4, <3>1 DEF Synced
    <3>3. q.sha # x
      BY <1>1, <1>3, <3>2, OneOwner
    <3> QED
      BY <3>2, <3>3
  <2> QED
    BY <2>1, <2>3, <2>4 DEF Synced, q
<1>7. \A y \in e \cup {x} : Drift[y] # y
  BY DEF Hashed
<1> QED
  BY <1>5, <1>6, <1>7 DEF Hashed

(* The steps that delete a blob, or try to. *)
LEMMA DeletedHash ==
  ASSUME OneAtATime, SerialInv, NEW c \in Client,
         RmBlob(c) \/ GcDelete(c) \/ GcFail(c) \/ RetryDelete(c) \/ RetryFail(c)
  PROVE  Mine(job[c], journal) /\ Hashed(journal, K, edited')
<1> DEFINE n == job[c].n
           o == job[c].op
           todo == job[c].todo
<1>0. /\ TypeInv /\ Log(journal) /\ Fits(journal, K) /\ Explained(journal, K, catalog) /\ catalog \in Catalog
      /\ Ready(pc[c], job[c], cat[c], journal, K, catalog, objects)
      /\ Typed(pc[c], job[c], cat[c], Len(journal)) /\ Shaped(o)
      /\ Hashed(journal, K, edited)
  BY Holds, ClientFacts DEF SerialInv, K
<1>1. /\ pc[c] \in {"rmBlob", "delete", "write", "redelete"} /\ Mine(job[c], journal) /\ o.kind \in {"gc", "delete"}
      /\ pc[c] = "rmBlob" => RowThere(job[c], catalog)
      /\ pc[c] \in {"delete", "redelete"} => Remaining(o, todo, catalog)
  BY <1>0 DEF RmBlob, GcDelete, GcFail, RetryDelete, RetryFail, Ready, Begun, Typed
<1>2. Pending(journal, n) /\ journal[n].op = o
  BY <1>1 DEF Mine
<1>3. ASSUME NEW w \in Path, Has(catalog, w), catalog[w].id \in o.ids
      PROVE  Hashed(journal, K, edited \ {catalog[w].sha})
  <2> DEFINE x == catalog[w].sha
  <2>1. journal[n].op.kind # "sync" /\ catalog[w].id \in journal[n].op.ids /\ x = catalog[w].sha
    BY <1>1, <1>2, <1>3
  <2> HIDE DEF n, o, x
  <2>2. Hashed(journal, K, edited \ {x})
    BY <1>0, <1>2, <1>3, <2>1, HashDeleted
  <2> QED
    BY <2>2 DEF x
<1>4. CASE RmBlob(c)
  <2>1. o.from \in Path /\ Has(catalog, o.from) /\ catalog[o.from] = job[c].file /\ catalog[o.from].id \in o.ids
    BY <1>0, <1>1, <1>4, NoneAssumption DEF RmBlob, RowThere, Has, Shaped, Typed
  <2>2. edited' = edited \ {catalog[o.from].sha}
    BY <1>4, <2>1 DEF RmBlob, Delete
  <2> QED
    BY <1>1, <1>3, <2>1, <2>2
<1>5. ASSUME pc[c] \in {"delete", "redelete"}, NEW d \in todo, Delete(d.sha) PROVE Hashed(journal, K, edited')
  <2>1. PICK w \in Path : Has(catalog, w) /\ catalog[w].id \in o.ids /\ catalog[w].sha = d.sha
    BY <1>1, <1>5 DEF Remaining, Referents
  <2>2. edited' = edited \ {catalog[w].sha}
    BY <1>5, <2>1 DEF Delete
  <2> QED
    BY <1>3, <2>1, <2>2
<1>6. CASE edited' = edited
  BY <1>0, <1>1, <1>6
<1> QED
  <2>1. CASE GcDelete(c)
    BY <1>1, <1>5, <2>1 DEF GcDelete
  <2>2. CASE RetryDelete(c)
    BY <1>1, <1>5, <2>2 DEF RetryDelete
  <2>3. CASE GcFail(c)
    BY <1>1, <1>5, <1>6, <2>3 DEF GcFail
  <2>4. CASE RetryFail(c)
    BY <1>1, <1>5, <1>6, <2>4 DEF RetryFail
  <2> QED
    BY <1>4, <2>1, <2>2, <2>3, <2>4

LEMMA HashedStep ==
  ASSUME OneAtATime, SerialInv, NEW c \in Client, Step(c)
  PROVE  Hashed(journal', K', edited')
<1> DEFINE n == job[c].n
           o == job[c].op
<1>0. /\ TypeInv /\ Log(journal) /\ Chain(journal) /\ Fits(journal, K) /\ Explained(journal, K, catalog)
      /\ catalog \in Catalog /\ Shaped(o)
      /\ Ready(pc[c], job[c], cat[c], journal, K, catalog, objects)
      /\ Hashed(journal, K, edited) /\ AsRead(pc[c], job[c], edited)
  BY Holds DEF SerialInv, K
<1>1. CASE AppendIntent(c)
  <2> DEFINE i == journal'
  <2>1. pc[c] = "intent" /\ i = Append(journal, [op |-> o, state |-> "intent"]) /\ edited' = edited
    BY <1>1 DEF AppendIntent
  <2>2. New(o, journal)
    BY <1>1 DEF AppendIntent, New, Held, Locked
  <2>3. Opens(o, catalog)
    BY <1>0, <2>1, ReadyOpens
  <2>4. o.kind = "sync" => o.sha = Found(o, catalog[o.from].sha, edited)
    BY <1>0, <2>1 DEF AsRead, Ready, RowThere
  <2>5. Apt(K, o)
    BY <1>0, <2>2, <2>3, AptNow
  <2>6. Projection(i) = Projection(journal)
    BY <1>0, <2>1, <2>5, ChainAppend DEF K
  <2> HIDE DEF i, o
  <2>7. Hashed(i, K, edited)
    BY <1>0, <2>1, <2>2, <2>3, <2>4, HashAppend
  <2> QED
    BY <2>1, <2>6, <2>7 DEF i, K
<1>2. CASE MarkDone(c)
  <2> DEFINE i == journal'
  <2>1. pc[c] = "mark" /\ i = Marked(n, "done") /\ edited' = edited
    BY <1>2 DEF MarkDone
  <2>2. Pending(journal, n)
    BY <1>0, <2>1 DEF Ready, Begun, Mine
  <2>3. Restated(journal, n, i, "done")
    BY <1>0, <2>1, <2>2, MarkedRestates DEF State
  <2> HIDE DEF i, n, o
  <2>4. Projection(i) = Replay(Projection(journal), journal[n].op)
    BY <1>0, <2>2, <2>3, DoneHistory
  <2>5. Hashed(i, Replay(K, journal[n].op), edited)
    BY <1>0, <2>2, <2>3, HashDone
  <2> QED
    BY <2>1, <2>4, <2>5 DEF i, K
<1>3. CASE GcFail(c) \/ RetryFail(c)
  <2> DEFINE i == journal'
  <2>1. i = Marked(n, "failed")
    BY <1>3 DEF GcFail, RetryFail
  <2>2. Pending(journal, n) /\ Hashed(journal, K, edited')
    BY <1>3, DeletedHash DEF Mine
  <2>3. Restated(journal, n, i, "failed")
    BY <1>0, <2>1, <2>2, MarkedRestates DEF State
  <2> HIDE DEF i, n, o
  <2>4. Projection(i) = Projection(journal)
    BY <1>0, <2>2, <2>3, FailedHistory
  <2> DEFINE e == edited'
  <2>5. Hashed(journal, K, e)
    BY <2>2
  <2> HIDE DEF e
  <2>6. Hashed(i, K, e)
    BY <1>0, <2>2, <2>3, <2>5, HashFailed
  <2> QED
    BY <2>4, <2>6 DEF i, K, e
<1>4. CASE RmBlob(c) \/ GcDelete(c) \/ RetryDelete(c)
  <2>1. journal' = journal
    BY <1>4 DEF RmBlob, GcDelete, RetryDelete
  <2> QED
    BY <1>4, <2>1, DeletedHash DEF K
<1>5. CASE UNCHANGED <<edited, journal>>
  BY <1>0, <1>5 DEF K
<1>6. Resume(c) \/ Refused(c) \/ PutBlob(c) \/ PutWrite(c) \/ RmRead(c) \/ RmWrite(c)
        => UNCHANGED <<edited, journal>>
  BY DEF Resume, Refused, PutBlob, Store, PutWrite, RmRead, RmWrite, Overwrite
<1>7. MvLook(c) \/ MvRead(c) \/ MvWrite(c) \/ SyncRead(c) \/ Rehome(c) \/ SyncWrite(c)
        => UNCHANGED <<edited, journal>>
  BY DEF MvLook, MvRead, MvWrite, SyncRead, Rehome, Store, SyncWrite, Overwrite
<1>8. GcRead(c) \/ GcPlan(c) \/ GcSweep(c) \/ GcWrite(c) \/ RetryRead(c) \/ RetryWrite(c) \/ RebuildWrite(c)
        => UNCHANGED <<edited, journal>>
  BY DEF GcRead, GcPlan, GcSweep, GcWrite, RetryRead, RetryWrite, RebuildWrite, Overwrite
<1> QED
  BY <1>1, <1>2, <1>3, <1>4, <1>5, <1>6, <1>7, <1>8 DEF Step

(* Only SyncRead brings a sync-mode to its intent. *)
LEMMA IntentOf ==
  ASSUME TypeInv, NEW c \in Client, Command(c) \/ Step(c) \/ Crash(c), ~SyncRead(c), pc'[c] = "intent"
  PROVE  job'[c].op.kind # "sync"
<1>0. /\ pc \in [Client -> Phase] /\ job \in [Client -> Job] /\ job[c] \in Job
      /\ Typed(pc[c], job[c], cat[c], Len(journal)) /\ job[c].op.kind \in Kind
  BY ClientFacts DEF TypeInv, Shaped, Op
<1>1. ~Leave(c)
  BY <1>0 DEF Leave, Goto
<1>2. \A ph : Goto(c, ph) => ph = "intent"
  BY <1>0 DEF Goto
<1>3. CASE Command(c)
  <2>1. ASSUME NEW o, NEW f, NEW ph, Ask(c, o, f, ph) PROVE ph = "intent" /\ job'[c].op = o
    <3>1. job'[c] = [NoJob EXCEPT !.op = o, !.file = f] /\ Goto(c, ph)
      BY <1>0, <2>1 DEF Ask
    <3> QED
      BY <1>2, <3>1 DEF NoJob
  <2>3. ASSUME NEW p \in Path, Put(c, p) PROVE job'[c].op.kind = "ingest"
    <3>1. job'[c].op = PutOp(p)
      BY <2>1, <2>3 DEF Put
    <3> QED
      BY <3>1 DEF PutOp, NoOp
  <2>4. ASSUME NEW p \in Path, Rm(c, p) PROVE job'[c].op.kind = "delete"
    <3>1. job'[c].op = RmOp(p)
      BY <2>1, <2>4 DEF Rm
    <3> QED
      BY <3>1 DEF RmOp, NoOp
  <2>5. ASSUME NEW p \in Path, NEW q \in Path PROVE ~Mv(c, p, q)
    <3>1. ~Ask(c, MoveOp(p, q), catalog[p], "read")
      BY <2>1
    <3> QED
      BY <3>1 DEF Mv
  <2>6. ASSUME NEW p \in Path, NEW m \in Mode PROVE ~Sync(c, p, m)
    <3>1. ~Ask(c, SyncOp(p, m), catalog[p], "read")
      BY <2>1
    <3> QED
      BY <3>1 DEF Sync
  <2>7. ~GcList(c) /\ (\A n \in DOMAIN journal : ~Retry(c, n)) /\ ~RebuildRead(c)
    BY <1>2 DEF GcList, Retry, RebuildRead
  <2> QED
    BY <1>3, <2>3, <2>4, <2>5, <2>6, <2>7 DEF Command
<1>4. CASE Step(c)
  <2>1. \A n : ~GoOn(c, n)
    <3>1. AfterIntent(c) # "intent"
      BY <1>0 DEF AfterIntent, Kind
    <3> QED
      BY <1>2, <3>1 DEF GoOn
  <2>2. \A k : ~Overwrite(c, k)
    BY <1>2 DEF Overwrite
  <2>3. ~(AppendIntent(c) \/ Resume(c) \/ Refused(c) \/ MarkDone(c))
    BY <1>1, <2>1 DEF AppendIntent, Resume, Refused, MarkDone
  <2>4. ~(PutBlob(c) \/ PutWrite(c) \/ RmRead(c) \/ RmBlob(c) \/ RmWrite(c))
    BY <1>2, <2>2 DEF PutBlob, PutWrite, RmRead, RmBlob, RmWrite
  <2>5. ~(MvRead(c) \/ MvWrite(c) \/ Rehome(c) \/ SyncWrite(c))
    BY <1>2, <2>2 DEF MvRead, MvWrite, Rehome, SyncWrite
  <2>6. MvLook(c) => job'[c].op.kind = "move"
    BY <1>1 DEF MvLook
  <2>7. ~(GcRead(c) \/ GcPlan(c) \/ GcDelete(c) \/ GcWrite(c) \/ GcFail(c))
    BY <1>1, <1>2, <2>2 DEF GcRead, GcPlan, GcDelete, GcWrite, GcFail
  <2>8. ASSUME GcSweep(c) PROVE job'[c].op.kind = "gc"
    <3> DEFINE I == {k.id : k \in Doomed(c)}
               D == Doomed(c)
    <3>1. job' = [job EXCEPT ![c].todo = D, ![c].op.ids = I] /\ job[c].op.kind = "gc"
      BY <1>0, <1>1, <2>8 DEF GcSweep, Typed, NoOp
    <3> HIDE DEF I, D
    <3>2. job'[c] = [job[c] EXCEPT !.todo = D, !.op.ids = I]
      BY <1>0, <3>1
    <3>3. job[c] = [op |-> job[c].op, n |-> job[c].n, file |-> job[c].file, todo |-> job[c].todo]
      BY <1>0 DEF Job
    <3>4. job'[c].op = [job[c].op EXCEPT !.ids = I]
      BY <3>2, <3>3
    <3>5. job[c].op \in Op
      BY <1>0 DEF Job
    <3> QED
      BY <3>1, <3>4, <3>5 DEF Op
  <2>9. ~(RetryRead(c) \/ RetryDelete(c) \/ RetryWrite(c) \/ RetryFail(c) \/ RebuildWrite(c))
    <3>1. ~RetryDelete(c)
      BY DEF RetryDelete
    <3> QED
      BY <1>1, <1>2, <2>2, <3>1 DEF RetryRead, RetryWrite, RetryFail, RebuildWrite
  <2> QED
    BY <1>4, <2>3, <2>4, <2>5, <2>6, <2>7, <2>8, <2>9 DEF Step
<1>5. CASE Crash(c)
  BY <1>1, <1>5 DEF Crash
<1> QED
  BY <1>3, <1>4, <1>5

LEMMA EditedSerial ==
  ASSUME OneAtATime, SerialInv, TypeInv', NEW x \in Sha, Edit(x)
  PROVE  SerialInv'
<1>1. UNCHANGED <<objects, catalog, journal, pc, job, cat>> /\ \A c \in Client : pc[c] = "idle"
  BY DEF Edit, OneAtATime
<1>2. /\ Log(journal) /\ Fits(journal, K) /\ Explained(journal, K, catalog) /\ catalog \in Catalog
      /\ Hashed(journal, K, edited)
  BY DEF SerialInv, NodeInv, Sound, K
<1>3. PICK w \in Path : Has(catalog, w) /\ catalog[w].sha = x /\ catalog[w].mode = "manual"
  BY DEF Edit, Referents
<1>4. ~Named(journal, catalog[w].id)
  BY <1>3 DEF Edit, OneAtATime, Referents, Unfinished, Named
<1>5. edited' = edited \cup {x} /\ Drift[x] # x
  BY DEF Edit
<1>6. Hashed(journal, K, edited \cup {x})
  BY <1>2, <1>3, <1>4, <1>5, HashEdited
<1>7. NodeInv'
  BY <1>1 DEF SerialInv, NodeInv
<1>8. \A c \in Client : AsRead(pc'[c], job'[c], edited')
  BY <1>1 DEF AsRead
<1> QED
  BY <1>1, <1>5, <1>6, <1>7, <1>8 DEF SerialInv, K

-----------------------------------------------------------------------------
(* The invariant. *)

LEMMA SerialInit ==
  ASSUME Init
  PROVE  SerialInv
<1>1. TypeInv
  BY TypeInit
<1>2. journal = << >> /\ DOMAIN journal = {} /\ Len(journal) = 0 /\ journal \in Seq(Entry)
  BY DEF Init
<1>3. History(journal)[0] = Empty /\ Projection(journal) = Empty
  BY <1>2, HistoryIs, ProjectionLast DEF IsHistory
<1>4. /\ objects = {} /\ edited = {} /\ catalog = Empty /\ Empty \in Catalog
      /\ \A p \in Path : ~Has(Empty, p)
      /\ \A c \in Client : pc[c] = "idle"
  BY EmptyTyped DEF Init, Empty, Has
<1>5. Unique(Empty)
  BY <1>4 DEF Unique
<1>6. Log(journal)
  BY <1>2 DEF Log
<1>7. Chain(journal)
  BY <1>2, <1>3, <1>5 DEF Chain
<1>8. Fits(journal, Empty)
  BY <1>2, <1>4, <1>5 DEF Fits
<1>9. Sound(journal, Empty, Empty, {})
  <2>1. Explained(journal, Empty, Empty) /\ Complete(journal, Empty, Empty)
    BY <1>4 DEF Explained, Complete
  <2>2. Shadowed(journal, Empty) /\ Stored(journal, Empty, Empty, {})
    BY <1>2 DEF Shadowed, Stored, Pending
  <2>3. Balanced(journal, Empty, {})
    BY <1>4 DEF Balanced
  <2> QED
    BY <1>4, <1>5, <2>1, <2>2, <2>3 DEF Sound
<1>10. NodeInv
  BY <1>1, <1>3, <1>4, <1>6, <1>7, <1>8, <1>9, Idle DEF NodeInv
<1>11. Hashed(journal, Empty, edited) /\ \A c \in Client : AsRead(pc[c], job[c], edited)
  BY <1>2, <1>4 DEF Hashed, AsRead
<1> QED
  BY <1>3, <1>10, <1>11 DEF SerialInv

LEMMA NodeStep ==
  ASSUME OneAtATime, SerialInv, NEW c \in Client, TypeInv', Command(c) \/ Step(c) \/ Crash(c)
  PROVE  NodeInv'
<1>1. CASE Step(c)
  <2>1. CASE Refused(c)
    BY <2>1, LeaveLocal DEF Refused
  <2> QED
    BY <1>1, <2>1, AppendSerial, ResumeSerial, DoneSerial, PutSerial, RmSerial, MvSerial, SyncReadSerial,
       SyncSerial, GcPlanSerial, GcSerial, RetryReadSerial, RetrySerial, RebuildSerial DEF Step
<1>2. CASE Crash(c)
  BY <1>2, LeaveLocal DEF Crash
<1> QED
  BY <1>1, <1>2, CommandSerial

LEMMA AsReadStep ==
  ASSUME OneAtATime, SerialInv, NEW c \in Client, TypeInv', Command(c) \/ Step(c) \/ Crash(c)
  PROVE  \A d \in Client : AsRead(pc'[d], job'[d], edited')
<1>1. \A d \in Client : d = c
  BY DEF OneAtATime
<1>2. CASE SyncRead(c)
  <2>1. /\ edited' = edited /\ job'[c].file = job[c].file /\ job'[c].op.mode = job[c].op.mode
        /\ job'[c].op.sha = Found(job[c].op, job[c].file.sha, edited)
    BY <1>2, SyncReadSerial
  <2> QED
    BY <1>1, <2>1 DEF AsRead, Found
<1>3. CASE ~SyncRead(c)
  <2>1. pc'[c] = "intent" => job'[c].op.kind # "sync"
    BY <1>3, IntentOf DEF SerialInv, NodeInv
  <2> QED
    BY <1>1, <2>1 DEF AsRead
<1> QED
  BY <1>2, <1>3

LEMMA SerialStep ==
  ASSUME OneAtATime, SerialInv, [Next]_vars
  PROVE  SerialInv'
<1>0. TypeInv'
  BY TypeStep DEF SerialInv, NodeInv
<1>1. ASSUME NEW c \in Client, Command(c) \/ Step(c) \/ Crash(c) PROVE SerialInv'
  <2>1. Command(c) \/ Crash(c) => UNCHANGED <<edited, journal>>
    BY DEF Command, Put, Rm, Mv, Sync, GcList, Retry, RebuildRead, Ask, Crash
  <2>2. Hashed(journal', K', edited')
    <3>1. CASE UNCHANGED <<edited, journal>>
      BY <3>1 DEF SerialInv, K
    <3> QED
      BY <1>1, <2>1, <3>1, HashedStep
  <2>3. NodeInv' /\ \A d \in Client : AsRead(pc'[d], job'[d], edited')
    BY <1>0, <1>1, NodeStep, AsReadStep
  <2> QED
    BY <2>2, <2>3 DEF SerialInv, K
<1>2. ASSUME NEW x \in Sha, Edit(x) PROVE SerialInv'
  BY <1>0, <1>2, EditedSerial
<1>3. CASE UNCHANGED vars
  BY <1>3 DEF vars, SerialInv, NodeInv, TypeInv, Blobs
<1> QED
  BY <1>1, <1>2, <1>3 DEF Next

LEMMA SerialAlways ==
  ASSUME OneAtATime
  PROVE  Spec => []SerialInv
<1>1. Init => SerialInv
  BY SerialInit
<1>2. SerialInv /\ [Next]_vars => SerialInv'
  BY SerialStep
<1> QED
  BY <1>1, <1>2, PTL DEF Spec

-----------------------------------------------------------------------------
(* What follows from it. *)

LEMMA StepChange ==
  ASSUME OneAtATime, SerialInv, NEW c \in Client, Step(c)
  PROVE  Change(c)
<1>1. TypeInv'
  BY TypeStep DEF SerialInv, NodeInv, Next
<1>2. CASE UNCHANGED <<objects, catalog>>
  BY <1>2 DEF Change
<1>3. AppendIntent(c) \/ Resume(c) \/ Refused(c) \/ MarkDone(c) => UNCHANGED <<objects, catalog>>
  BY DEF AppendIntent, Resume, Refused, MarkDone
<1>4. SyncRead(c) \/ GcRead(c) \/ GcPlan(c) \/ GcSweep(c) \/ RetryRead(c) => UNCHANGED <<objects, catalog>>
  BY DEF SyncRead, GcRead, GcPlan, GcSweep, RetryRead
<1> QED
  BY <1>1, <1>2, <1>3, <1>4, PutSerial, RmSerial, MvSerial, SyncSerial, GcSerial, RetrySerial, RebuildSerial
  DEF Step

LEMMA SameRows ==
  ASSUME NEW t, NEW u, NEW i,
         \A p \in Path : Has(t, p) /\ t[p].id = i => u[p] = t[p],
         \A p \in Path : Has(u, p) /\ u[p].id = i => u[p] = t[p]
  PROVE  {<<p, t[p]>> : p \in PathsOf(t, i)} = {<<p, u[p]>> : p \in PathsOf(u, i)}
<1>1. PathsOf(t, i) = PathsOf(u, i)
  BY DEF PathsOf, Has
<1>2. \A p \in PathsOf(t, i) : u[p] = t[p]
  BY DEF PathsOf
<1> QED
  BY <1>1, <1>2

(* An operation's write leaves the rows of a file no unfinished operation names. *)
LEMMA WrittenSpares ==
  ASSUME NEW j, NEW k, NEW t, NEW s, Log(j), Fits(j, k), Sound(j, k, t, s),
         NEW n, Pending(j, n), NEW u, Written(j[n].op, k, t, u), NEW i, ~Named(j, i)
  PROVE  {<<p, t[p]>> : p \in PathsOf(t, i)} = {<<p, u[p]>> : p \in PathsOf(u, i)}
<1>1. i \notin j[n].op.ids
  BY PendingFacts
<1>2. ASSUME NEW p \in Path, Has(t, p), t[p].id = i PROVE u[p] = t[p]
  <2>1. ~Swept(j, t[p].id)
    BY <1>2 DEF Swept, Named
  <2> QED
    BY <1>1, <1>2, <2>1, LostRow
<1>3. ASSUME NEW p \in Path, Has(u, p), u[p].id = i PROVE u[p] = t[p]
  BY <1>1, <1>3 DEF Written
<1> QED
  BY <1>2, <1>3, SameRows

(* Nor does rebuild-catalog touch them. *)
LEMMA RebuiltSpares ==
  ASSUME NEW j, NEW k, NEW t, Explained(j, k, t), Complete(j, k, t), NEW i, ~Named(j, i)
  PROVE  {<<p, t[p]>> : p \in PathsOf(t, i)} = {<<p, k[p]>> : p \in PathsOf(k, i)}
<1>1. ASSUME NEW p \in Path, Has(t, p), t[p].id = i PROVE k[p] = t[p]
  BY <1>1 DEF Explained, Named, Pending
<1>2. ASSUME NEW p \in Path, Has(k, p), k[p].id = i PROVE k[p] = t[p]
  BY <1>2 DEF Complete
<1> QED
  BY <1>1, <1>2, SameRows

LEMMA AnnouncedStep ==
  ASSUME OneAtATime, SerialInv, NEW c \in Client, Change(c)
  PROVE  /\ \A id \in Path :
              {<<p, catalog[p]>> : p \in PathsOf(catalog, id)} #
              {<<p, catalog'[p]>> : p \in PathsOf(catalog', id)} => Unfinished(id)
         /\ \A s \in Sha : (s \in objects) # (s \in objects') => Announces(s)
<1> DEFINE n == job[c].n
           o == job[c].op
           u == catalog'
<1>0. /\ Log(journal) /\ Fits(journal, K) /\ Sound(journal, K, catalog, objects) /\ Shaped(o)
      /\ Explained(journal, K, catalog) /\ Complete(journal, K, catalog)
  BY Holds DEF Sound
<1>1. \A id : Unfinished(id) <=> Named(journal, id)
  BY DEF Unfinished, Named
<1>2. Mine(job[c], journal) => Pending(journal, n) /\ journal[n].op = o
  BY DEF Mine
<1>3. ASSUME NEW id \in Path, ~Named(journal, id)
      PROVE  {<<p, catalog[p]>> : p \in PathsOf(catalog, id)} = {<<p, u[p]>> : p \in PathsOf(u, id)}
  <2>1. CASE catalog' = catalog
    BY <2>1
  <2>2. CASE catalog' = K
    <3>1. {<<p, catalog[p]>> : p \in PathsOf(catalog, id)} = {<<p, K[p]>> : p \in PathsOf(K, id)}
      BY <1>0, <1>3, RebuiltSpares
    <3> QED
      BY <2>2, <3>1
  <2>3. CASE Mine(job[c], journal) /\ Written(o, K, catalog, u)
    <3>1. Pending(journal, n) /\ Written(journal[n].op, K, catalog, u)
      BY <1>2, <2>3
    <3> HIDE DEF n, o, u
    <3> QED
      BY <1>0, <1>3, <3>1, WrittenSpares
  <2> QED
    BY <2>1, <2>2, <2>3 DEF Change
<1>4. ASSUME NEW s \in Sha, (s \in objects) # (s \in objects')
      PROVE  Announces(s)
  <2>1. Mine(job[c], journal) /\ BlobChange(o)
    BY <1>4 DEF Change
  <2>2. n \in DOMAIN journal /\ journal[n].state # "done" /\ journal[n].op = o
    BY <1>2, <2>1 DEF Pending
  <2>3. o.sha = s \/ \E p \in Referents(catalog, s) : catalog[p].id \in o.ids
    <3>1. CASE objects' = objects \cup {o.sha}
      BY <1>4, <3>1
    <3>2. ASSUME NEW p \in Path, Has(catalog, p), catalog[p].id \in o.ids, objects' = objects \ {catalog[p].sha}
          PROVE  \E q \in Referents(catalog, s) : catalog[q].id \in o.ids
      <4>1. catalog[p].sha = s
        BY <1>4, <3>2
      <4> QED
        BY <3>2, <4>1 DEF Referents
    <3> QED
      BY <2>1, <3>1, <3>2 DEF BlobChange
  <2> HIDE DEF n, o
  <2> QED
    BY <2>2, <2>3 DEF Announces
<1> QED
  BY <1>1, <1>3, <1>4

-----------------------------------------------------------------------------
(* Between commands, with every operation done, the catalog is the          *)
(* projection of the log: whatever crashes, retries and failed sweeps came  *)
(* before, no completed command is lost and none is half done.              *)
THEOREM CatalogProjected ==
  ASSUME OneAtATime
  PROVE  Spec => []ProjectionFaithful
<1>1. ASSUME SerialInv PROVE ProjectionFaithful
  <2> SUFFICES ASSUME Quiet PROVE Projection(journal) = catalog
    BY DEF ProjectionFaithful
  <2>0. /\ Explained(journal, K, catalog) /\ Complete(journal, K, catalog)
        /\ catalog \in Catalog /\ K \in Catalog
    BY <1>1 DEF SerialInv, NodeInv, Sound, Fits, K
  <2>1. \A n \in DOMAIN journal : journal[n].state = "done"
    BY DEF Quiet
  <2>2. \A p \in Path : Has(catalog, p) => catalog[p] = K[p]
    BY <2>0, <2>1 DEF Explained, Pending
  <2>3. \A p \in Path : Has(K, p) => catalog[p] = K[p]
    BY <2>0, <2>1 DEF Complete, Named
  <2>4. \A p \in Path : catalog[p] = K[p]
    BY <2>2, <2>3 DEF Has
  <2> QED
    BY <2>0, <2>4 DEF Catalog, K
<1>2. SerialInv => ProjectionFaithful
  BY <1>1
<1> QED
  BY <1>2, SerialAlways, PTL

(* At every moment, crashes included, the blob a row lists is stored, or an *)
(* unfinished operation of the log names the row's file: no removal, sweep  *)
(* or retry of one takes the bytes of another file, and no row is written   *)
(* before its blob.                                                         *)
THEOREM AllAccounted ==
  ASSUME OneAtATime
  PROVE  Spec => []Accounted
<1>1. \A i : Unfinished(i) <=> Named(journal, i)
  BY DEF Unfinished, Named
<1>2. SerialInv => Accounted
  BY <1>1 DEF SerialInv, NodeInv, Sound, Balanced, Accounted
<1> QED
  BY <1>2, SerialAlways, PTL

(* A git-mode file is stored under the hash of the bytes it has, although   *)
(* it was edited in place while it was manual, and whichever sync-mode that *)
(* hashed it was cut short and resumed.                                     *)
THEOREM GitHashed ==
  ASSUME OneAtATime
  PROVE  Spec => []GitIsHashed
<1>1. ASSUME SerialInv PROVE GitIsHashed
  <2> SUFFICES ASSUME NEW p \in Path, Has(catalog, p), catalog[p].mode = "git", ~Unfinished(catalog[p].id)
               PROVE  catalog[p].sha \notin edited
    BY DEF GitIsHashed
  <2>1. Explained(journal, K, catalog) /\ Hashed(journal, K, edited)
    BY <1>1 DEF SerialInv, NodeInv, Sound, K
  <2>2. ~Held(journal, catalog[p].id)
    BY DEF Held, Unfinished
  <2>3. catalog[p] = K[p]
    BY <2>1, <2>2, FreeRow
  <2> QED
    BY <2>1, <2>3 DEF Hashed, Has
<1>2. SerialInv => GitIsHashed
  BY <1>1
<1> QED
  BY <1>2, SerialAlways, PTL

(* A file is never listed at two paths: not by a move that dies between its *)
(* steps and is resumed or retried, nor by a rebuild of the catalog.        *)
THEOREM OnePathEach ==
  ASSUME OneAtATime
  PROVE  Spec => []IdsUnique
<1>1. SerialInv => IdsUnique
  BY DEF SerialInv, NodeInv, Sound, Unique, IdsUnique, PathsOf
<1> QED
  BY <1>1, SerialAlways, PTL

(* No step changes a row, stores a blob or deletes one that no unfinished   *)
(* operation of the log announces.                                          *)
THEOREM Announced ==
  ASSUME OneAtATime
  PROVE  Spec => IntentFirst
<1> DEFINE A == /\ \A id \in Path :
                     {<<p, catalog[p]>> : p \in PathsOf(catalog, id)} #
                     {<<p, catalog'[p]>> : p \in PathsOf(catalog', id)} => Unfinished(id)
                /\ \A s \in Sha : (s \in objects) # (s \in objects') => Announces(s)
<1>1. SerialInv /\ [Next]_vars => [A]_<<objects, catalog>>
  <2> SUFFICES ASSUME SerialInv, [Next]_vars PROVE A \/ UNCHANGED <<objects, catalog>>
    OBVIOUS
  <2>1. CASE UNCHANGED vars
    BY <2>1 DEF vars
  <2>2. ASSUME NEW c \in Client, Step(c) PROVE A
    BY <2>2, StepChange, AnnouncedStep
  <2>3. ASSUME NEW c \in Client, Crash(c) PROVE UNCHANGED <<objects, catalog>>
    BY <2>3 DEF Crash
  <2>4. ASSUME NEW c \in Client, Command(c) PROVE UNCHANGED <<objects, catalog>>
    BY <2>4 DEF Command, Put, Rm, Mv, Sync, GcList, Retry, RebuildRead, Ask
  <2>5. ASSUME NEW x \in Sha, Edit(x) PROVE UNCHANGED <<objects, catalog>>
    BY <2>5 DEF Edit
  <2> HIDE DEF A
  <2> QED
    BY <2>1, <2>2, <2>3, <2>4, <2>5 DEF Next
<1> QED
  BY <1>1, SerialAlways, PTL DEF Spec, IntentFirst
=============================================================================
