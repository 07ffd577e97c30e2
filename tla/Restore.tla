------------------------------- MODULE Restore -------------------------------
(***************************************************************************)
(* Restoring a backup over an SQLite database: ValidateBackupRestoreRequest *)
(* and ExecuteBackupRestore of service/backup_restore.go, with the          *)
(* unpacking of service/backup_package.go.  Nothing keeps requests apart,   *)
(* and those whose packages lie in one directory, as all do that were       *)
(* downloaded, unpack to one and the same file.                             *)
(*                                                                          *)
(* The content of a file is the database it holds, or "cut" between its     *)
(* truncation and the end of the writing, and after a mixture of two.  A    *)
(* package is whole and holds the database that it is named for; it can be  *)
(* fetched and decrypted, or not.  A request for another driver, or without *)
(* confirmation, ends like one that only validates.  The mysql and postgres *)
(* branches run a program of the server, and what else writes the database  *)
(* is held off by the maintenance window of docs/BACKUP_DR_RUNBOOK.md:41;   *)
(* both are left out.                                                       *)
(***************************************************************************)
EXTENDS Integers, FiniteSets

CONSTANTS Restorers,  \* requests at work at one time
          Packages    \* packages in one directory

ASSUME RestoreAssumption == {"live", "cut", "none"} \cap Packages = {}

VARIABLES
  database,  \* the file common.SQLitePath
  saved,     \* the file beside it, .pre-restore.bak
  payload,   \* the unpacked file
  restore,   \* restore[k]: where request k is, and its locals
  before,    \* the database when it was last copied to be saved
  mixed      \* two requests have copied at the same time

restoreVars == <<database, saved, payload, restore, before, mixed>>

Contents == Packages \cup {"live", "cut", "none"}
Waiting  == [at |-> "free", executes |-> FALSE, again |-> FALSE, package |-> "none",
             data |-> "none", unlinked |-> FALSE, alone |-> FALSE]
Restores == [at : {"free", "open", "fill", "verify", "save", "saving", "swap", "swapping",
                   "health", "remove"},
             executes : BOOLEAN,             \* it is to execute, and has not failed
             again : BOOLEAN,                \* it unpacks for the second time
             package : Packages \cup {"none"},
             data : Contents,                \* what copyFile has read
             unlinked : BOOLEAN,             \* the file it is unpacking to has lost its name
             alone : BOOLEAN]                \* no other request has been at work beside it

RestoreInit ==
  /\ database = "live" /\ saved = "none" /\ payload = "none"
  /\ restore = [k \in Restorers |-> Waiting]
  /\ before = "live" /\ mixed = FALSE

----------------------------------------------------------------------------
Reached(k, place) == restore[k].at = place
Reaches(k, place) == restore' = [restore EXCEPT ![k].at = place]
Quits(k)          == restore' = [restore EXCEPT ![k].at = "remove", ![k].executes = FALSE,
                                                ![k].data = "none"]
AtWork(k)         == ~Reached(k, "free")

\* What a file holds after "new" was written over it from its beginning.
Overwritten(old, new) == IF old \in {"cut", new} THEN {new} ELSE {new, "cut"}

BeginRestore(k) ==
  /\ Reached(k, "free")
  /\ \E package \in Packages, executes \in BOOLEAN :
       restore' = [j \in Restorers |->
                     IF j = k
                     THEN [Waiting EXCEPT !.at = "open", !.package = package, !.executes = executes,
                                          !.alone = \A i \in Restorers : ~AtWork(i)]
                     ELSE [restore[j] EXCEPT !.alone = FALSE]]
  /\ UNCHANGED <<database, saved, payload, before, mixed>>

\* unpackArtifactAndManifest, which returns an error without removing the file.
Open(k) ==
  /\ Reached(k, "open")
  /\ \/ Reaches(k, "fill") /\ payload' = "cut"
     \/ restore' = [restore EXCEPT ![k] = Waiting] /\ UNCHANGED payload
  /\ UNCHANGED <<database, saved, before, mixed>>

Fill(k) ==
  /\ Reached(k, "fill")
  /\ \/ /\ restore' = [restore EXCEPT ![k].at = "verify", ![k].unlinked = FALSE]
        /\ IF restore[k].unlinked THEN UNCHANGED payload
                                  ELSE payload' \in Overwritten(payload, restore[k].package)
     \/ restore' = [restore EXCEPT ![k] = Waiting] /\ UNCHANGED payload
  /\ UNCHANGED <<database, saved, before, mixed>>

\* verifyPayloadChecksum
Verify(k) ==
  /\ Reached(k, "verify")
  /\ IF payload # restore[k].package THEN Quits(k)
     ELSE Reaches(k, IF restore[k].again THEN "save" ELSE "remove")
  /\ UNCHANGED <<database, saved, payload, before, mixed>>

\* The deferred os.Remove.  ExecuteBackupRestore unpacks and checks once more.
RemovePayload(k) ==
  LET on == restore[k].executes /\ ~restore[k].again
      next == IF on THEN [restore[k] EXCEPT !.at = "open", !.again = TRUE] ELSE Waiting
  IN /\ Reached(k, "remove") /\ payload' = "none"
     /\ restore' = [j \in Restorers |->
                      IF j = k THEN next
                      ELSE [restore[j] EXCEPT !.unlinked = @ \/ Reached(j, "fill")]]
     /\ UNCHANGED <<database, saved, before, mixed>>

----------------------------------------------------------------------------
(* executeRestoreByDriver: two calls of copyFile, which reads a file whole and then *)
(* truncates and writes the other one.                                              *)

Copying(k) == restore[k].at \in {"saving", "swap", "swapping"}

SaveDatabase(k) ==
  /\ Reached(k, "save")
  /\ \/ /\ restore' = [restore EXCEPT ![k].at = "saving", ![k].data = database]
        /\ saved' = "cut" /\ before' = database
        /\ mixed' = (mixed \/ \E j \in Restorers : Copying(j))
     \/ Quits(k) /\ UNCHANGED <<saved, before, mixed>>
  /\ UNCHANGED <<database, payload>>

\* Mutant of Saving: an error of the first copy does not end the restore.
SavingRegardless(k) ==
  /\ Reached(k, "saving") /\ Reaches(k, "swap")
  /\ saved' \in Overwritten(saved, restore[k].data) \cup {saved}
  /\ UNCHANGED <<database, payload, before, mixed>>

Saving(k) ==
  /\ Reached(k, "saving")
  /\ \/ Reaches(k, "swap") /\ saved' \in Overwritten(saved, restore[k].data)
     \/ Quits(k) /\ UNCHANGED saved
  /\ UNCHANGED <<database, payload, before, mixed>>

SwapDatabase(k) ==
  /\ Reached(k, "swap")
  /\ \/ /\ payload # "none"
        /\ restore' = [restore EXCEPT ![k].at = "swapping", ![k].data = payload]
        /\ database' = "cut"
     \/ Quits(k) /\ UNCHANGED database
  /\ UNCHANGED <<saved, payload, before, mixed>>

Swapping(k) ==
  /\ Reached(k, "swapping")
  /\ \/ Reaches(k, "health") /\ database' \in Overwritten(database, restore[k].data)
     \/ Quits(k) /\ UNCHANGED database
  /\ UNCHANGED <<saved, payload, before, mixed>>

\* runBackupRestoreHealthCheck, and the answer, whatever it says.
HealthCheck(k) ==
  /\ Reached(k, "health") /\ Quits(k)
  /\ UNCHANGED <<database, saved, payload, before, mixed>>

\* The process ends at any point; what it has left is not cleaned up.
StopRestoring ==
  /\ restore' = [k \in Restorers |-> Waiting]
  /\ UNCHANGED <<database, saved, payload, before, mixed>>

RestoreNext ==
  \/ \E k \in Restorers :
       \/ BeginRestore(k) \/ Open(k) \/ Fill(k) \/ Verify(k) \/ RemovePayload(k)
       \/ SaveDatabase(k) \/ Saving(k) \/ SwapDatabase(k) \/ Swapping(k) \/ HealthCheck(k)
  \/ StopRestoring

RestoreSpec == RestoreInit /\ [][RestoreNext]_restoreVars

----------------------------------------------------------------------------
(* Properties                                                               *)

\* Every variable keeps to its range.
RestoreTypeOK ==
  /\ {database, saved, payload, before} \subseteq Contents
  /\ restore \in [Restorers -> Restores]
  /\ mixed \in BOOLEAN

\* backup_restore.go:176: the database of before a restore, such as it was, is in its
\* place or in the copy beside it, wherever the restore fails or the process ends, and
\* although others unpack to the same file or remove it, unless two requests have
\* copied at the same time.  And a restore that comes to its health check, with no
\* other request beside it, has put its package in place.
RestoreReversible ==
  /\ ~mixed => before \in {database, saved}
  /\ \A k \in Restorers : Reached(k, "health") /\ restore[k].alone =>
       database = restore[k].package /\ saved = before
=============================================================================
