-------------------------------- MODULE Verify --------------------------------
(***************************************************************************)
(* The three-way part of tailvault verify, of a vault's catalog, log and   *)
(* disk, next to the commands of Ingest and the users' edits: it reads the *)
(* catalog, then the log, and then of one file after the other its size    *)
(* and date, and after that its bytes.                                     *)
(*                                                                         *)
(* It changes nothing.  Each row is judged by itself, so one of them is    *)
(* followed at a time.  The comparison of the repository's lock with the   *)
(* rows reads nothing that could change meanwhile and is left out, and a   *)
(* row's genesis certifies its id, as nothing here tampers with it.        *)
(***************************************************************************)
EXTENDS Ingest

VARIABLES at,    \* what verify does next: "idle", "log", "stat" or "hash"
          path,  \* the path it looks at
          row,   \* the row it has read of it; None without a catalog
          seen   \* the size and the date of the file, as Stat found it

check == <<at, path, row, seen>>

VInit == Init /\ at = "idle" /\ path = None /\ row = None /\ seen = None

Over == at' = "idle" /\ path' = None /\ row' = None /\ seen' = None

ReadCatalog ==
  /\ at = "idle" /\ at' = "log"
  /\ \/ ~made /\ UNCHANGED <<path, row>>
     \/ \E p \in Tracked(catalog) : path' = p /\ row' = catalog[p]
  /\ UNCHANGED <<vars, seen>>

(* Pending suppression: a file an operation is in flight on is reported as *)
(* that, and never judged.                                                 *)
Judged == row # None /\ ~Locked(row.id)

ReadLog ==
  /\ at = "log"
  /\ \/ Judged /\ at' = "stat" /\ UNCHANGED <<path, row, seen>>
     \/ ~Judged /\ Over
  /\ UNCHANGED vars

Stat(f) == [size |-> Size[f.sha], mtime |-> f.mtime]

(* localStatHash, first half: a file that is not there is missing. *)
StatRow ==
  /\ at = "stat"
  /\ \/ path \in OnDisk /\ at' = "hash" /\ seen' = Stat(disk[path]) /\ UNCHANGED <<path, row>>
     \/ path \notin OnDisk /\ Over
  /\ UNCHANGED vars

(* Mutant: drift that leaves the size as it was is corruption. *)
VerdictBySize(r, p) ==
  IF disk[p].sha = r.sha THEN "ok"
  ELSE IF seen.size = r.size THEN "corrupt" ELSE "edited"

(* The bytes as they are now; ClassifyDrift by what was seen before. *)
Verdict(r, p) ==
  IF disk[p].sha = r.sha THEN "ok"
  ELSE IF seen.size = r.size /\ seen.mtime <= r.scanned THEN "corrupt" ELSE "edited"

(* Second half: the file is opened and hashed; if it is gone, that fails. *)
JudgeRow == at = "hash" /\ Over /\ UNCHANGED vars

VNext == (Next /\ UNCHANGED check) \/ ReadCatalog \/ ReadLog \/ StatRow \/ JudgeRow

VSpec == VInit /\ [][VNext]_<<vars, check>>
-----------------------------------------------------------------------------
(* The size and the date of a file that verify has read go with the bytes. *)
StatHolds == path \in OnDisk /\ Stat(disk[path]) = seen

(* Verify tells rot from an edit: of a row that still stands, it calls the *)
(* file corrupt if and only if its bytes changed with no one writing them, *)
(* whatever commands and edits came after it read the catalog and the log. *)
(* Only a file that is written between its Stat and its hash is called     *)
(* corrupt with no rot.                                                    *)
CorruptMeansRot ==
  [][JudgeRow /\ StatHolds /\ row = catalog[path] =>
       (Verdict(row, path) = "corrupt" <=> path \in rotten)]_<<vars, check>>
=============================================================================
