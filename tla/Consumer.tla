------------------------------- MODULE Consumer -------------------------------
(***************************************************************************)
(* What a resolution is for: vault get finds the member that has a file by *)
(* the file's id and downloads it, pull fetches a file for which the lock  *)
(* of the repository names a member, heal repoints the lock, and vault     *)
(* restore-identity gives a lost id back, if no member has it.  Each of    *)
(* them reads members (Resolver) and then acts on what it was told, while  *)
(* the file is moved (CrossMove) before, between and after the reads.      *)
(***************************************************************************)
EXTENDS Resolver

VARIABLES command,  \* the command the reader runs
          unread,   \* vault get by id: active members it has not looked into
          seen,     \* the last member that listed the id
          blind,    \* was there a catalog that could not be read?
          answer,   \* what the command came to
          place,    \* the location the lock records
          still     \* has no move been at work since the command began?

useVars == <<command, unread, seen, blind, answer, place, still>>
allVars == <<vars, useVars>>

Others == <<moveVars, dark>>

CInit ==
  /\ Init
  /\ command = "none" /\ unread = {} /\ seen = NoMove /\ blind = FALSE
  /\ answer = "none" /\ still = TRUE
  /\ place \in {m \in Member : Holds(m)}

AllIdle == \A c \in Client : pc[c] = "idle"

Begin(name) ==
  /\ command = "none"
  /\ command' = name /\ still' = AllIdle
  /\ UNCHANGED <<vars, blind, answer, place>>

-----------------------------------------------------------------------------
(* pull and heal: the lock names the member to ask first. *)
Repo(name) ==
  /\ Begin(name)
  /\ seen' = place /\ UNCHANGED unread

(* vault get <member>/<path>: its catalog is looked into, and lists it. *)
GetByPath(m) ==
  /\ Parses(m) /\ Lists(m)
  /\ Begin("get")
  /\ seen' = m /\ UNCHANGED unread

(* vault get <id>: fileByIDPrefix reads every catalog, one after the other. *)
GetById ==
  /\ Begin("get")
  /\ unread' = Member /\ UNCHANGED seen

LookInto(m) ==
  /\ m \in unread
  /\ Parses(m)
  /\ unread' = unread \ {m}
  /\ seen' = IF Lists(m) THEN m ELSE seen
  /\ UNCHANGED <<vars, command, blind, answer, place, still>>

(* Mutant: a member that cannot be read is one that does not list the id. *)
PassOver(m) ==
  /\ m \in unread
  /\ unread' = unread \ {m}
  /\ UNCHANGED <<vars, command, seen, blind, answer, place, still>>

(* A member that is down, or has a catalog that cannot be parsed. *)
LookBlind(m) ==
  /\ m \in unread
  /\ unread' = unread \ {m}
  /\ blind' = TRUE
  /\ UNCHANGED <<vars, command, seen, answer, place, still>>

(* No catalog lists the id: unknown, if all of them could be read. *)
NoMatch ==
  /\ command = "get" /\ unread = {} /\ seen = NoMove /\ answer = "none"
  /\ answer' = IF blind THEN "partial" ELSE "unknown"
  /\ UNCHANGED <<vars, command, unread, seen, blind, place, still>>

(* restore-identity: the federation is asked first, from no hint. *)
RestoreIdentity ==
  /\ Begin("restore")
  /\ UNCHANGED <<unread, seen>>

(* Resolve, with the member that was seen or recorded as the hint. *)
Resolve ==
  /\ command # "none" /\ unread = {} /\ (seen # NoMove \/ command = "restore")
  /\ Ask(seen)
  /\ UNCHANGED <<Others, useVars>>

-----------------------------------------------------------------------------
Answer(a) ==
  /\ stage = "over" /\ answer = "none"
  /\ answer' = a
  /\ UNCHANGED <<vars, command, unread, seen, blind, still>>

(* Not found, or an error: get and pull fail, restore-identity is refused,  *)
(* heal reports the entry and leaves it as it is.                           *)
Report ==
  /\ verdict # "found"
  /\ command = "restore" => verdict # "missing"
  /\ Answer(verdict) /\ UNCHANGED place

(* get and pull fetch the blob from the member it was found at, if it       *)
(* answers; what arrives has the hash that was asked for.                   *)
Fetch ==
  /\ command \in {"get", "pull"} /\ verdict = "found"
  /\ Answer(IF where \in objects THEN "delivered" ELSE "absent")
  /\ UNCHANGED place

FetchFails ==
  /\ command \in {"get", "pull"} /\ verdict = "found"
  /\ Answer("failed")
  /\ UNCHANGED place

(* Found: that is where the lock points from now on. *)
Heal ==
  /\ command = "heal" /\ verdict = "found"
  /\ Answer("healed")
  /\ place' = where

(* restore-identity: an id that is found is taken, *)
Collision ==
  /\ command = "restore" /\ verdict = "found"
  /\ Answer("taken") /\ UNCHANGED place

(* Mutant: an id that was not found is free. *)
RestoreUnproven ==
  /\ command = "restore" /\ verdict \in {"missing", "partial"}
  /\ Answer("restored") /\ UNCHANGED place

(* and one that is missing is given to the row that lost it (Ingest).       *)
Restore ==
  /\ command = "restore" /\ verdict = "missing"
  /\ Answer("restored") /\ UNCHANGED place

Use ==
  \/ \E m \in Member : LookInto(m) \/ LookBlind(m)
  \/ NoMatch \/ Resolve
  \/ Read /\ UNCHANGED <<Others, useVars>>
  \/ Report \/ Fetch \/ FetchFails \/ Heal \/ Collision \/ Restore

CNext ==
  \/ \E name \in {"pull", "heal"} : Repo(name)
  \/ \E m \in Member : GetByPath(m)
  \/ GetById \/ RestoreIdentity
  \/ Use
  \/ /\ Step /\ UNCHANGED <<readVars, dark, command, unread, seen, blind, answer, place>>
     /\ still' = (still /\ \A c \in Client : pc'[c] = "idle")

CSpec == CInit /\ [][CNext]_allVars /\ WF_allVars(Use)

-----------------------------------------------------------------------------
(* A reader knows members, and the lock names one. *)
UseTypeOK ==
  /\ TypeOK
  /\ command \in {"none", "get", "pull", "heal", "restore"}
  /\ unread \in SUBSET Member /\ seen \in Member \cup {NoMove}
  /\ blind \in BOOLEAN /\ still \in BOOLEAN
  /\ answer \in {"none", "unknown", "partial", "missing", "failed",
                 "delivered", "absent", "healed", "taken", "restored"}
  /\ place \in Member

(* Whoever is told where the file is can fetch it there, even if the file   *)
(* has moved on before it does; and so can whoever goes by the lock, healed *)
(* or not: the bytes are nowhere taken away but by vault rm.                *)
ServesOrGone ==
  Removed \/ /\ answer # "absent"
             /\ place \in objects

(* vault get calls an id unknown only if the file was removed, when no move *)
(* has been at work since it began; moves cut short before do not matter.   *)
UnknownIsGone == answer = "unknown" /\ still => Removed

(* An id is never given back while some member still lists its file,        *)
(* whatever moves went on between asking the members and the restoration.   *)
RestoredOnce == [][Restore => \A m \in Member : ~Holds(m)]_allVars

(* A command that reads the federation comes to an answer, whatever moves   *)
(* go on and wherever old records point.                                    *)
Answered == (command # "none") ~> (answer # "none")
=============================================================================
