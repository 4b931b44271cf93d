--------------------------- MODULE CorruptRecovery ---------------------------
(***************************************************************************)
(* Replacing an unreadable database by a signed backup                     *)
(* (recover_corrupt_storage_from_config, storage.rs).                      *)
(*                                                                         *)
(* The command moves the corrupt database and its sidecars (WAL, SHM) into *)
(* a quarantine directory, publishes a copy of the backup in their place   *)
(* and boots a kernel on it.  A journal beside the database makes a run    *)
(* that was interrupted resumable; an error rolls the moves back.  One     *)
(* action is one change of the file system, so that the process may die    *)
(* between any two of them, and every one may fail.  The operator runs the *)
(* command again until it succeeds.                                        *)
(*                                                                         *)
(* The storage lease admits one command at a time and no kernel beside it. *)
(* The checks of the backup (signature, anchor, key, installation) come    *)
(* before any change and are taken as passed.  A file is known by where it *)
(* came from.  Directory syncs are left out: a crash keeps the changes     *)
(* made so far, in their order.                                            *)
(***************************************************************************)
EXTENDS Naturals

CONSTANTS
  MaxFaults,   \* bound on failing system calls and failing qualifications
  MaxCrashes   \* bound on crashes of the process

VARIABLES
  file,     \* the content of each path
  journal,  \* the recovery journal
  pc,       \* where the command is; "idle": it is not running
  started,  \* mutation_started
  faults, crashes,
  had       \* the original files, fixed in RecoveryInit

recoveryVars == <<file, journal, pc, started, faults, crashes, had>>

Sidecars == {"wal", "shm"}
Active   == {"db"} \cup Sidecars

\* Paths of the quarantine directory: the originals, the sidecars of an
\* interrupted candidate, and what a rollback keeps of a failed one.
Quarantined == [db |-> "q_db", wal |-> "q_wal", shm |-> "q_shm"]
Interrupted == [wal |-> "i_wal", shm |-> "i_shm"]
Failed      == [db |-> "f_db", wal |-> "f_wal", shm |-> "f_shm", stage |-> "f_stage"]

Quarantine == {"q_db", "q_wal", "q_shm", "i_wal", "i_shm", "f_db", "f_wal", "f_shm", "f_stage"}
Paths      == Active \cup {"stage"} \cup Quarantine

Exists(p) == file[p] # "none"

NoJournal   == [state |-> "none", wal |-> FALSE, shm |-> FALSE]
TornJournal == [NoJournal EXCEPT !.state = "torn"]

RecoveryInit ==
  /\ had \in {{"db"} \cup s : s \in SUBSET Sidecars}
  /\ file = [p \in Paths |-> IF p \in had THEN "original" ELSE "none"]
  /\ journal = NoJournal
  /\ pc = "idle" /\ started = FALSE
  /\ faults = 0 /\ crashes = 0

-----------------------------------------------------------------------------
(* Pieces of the steps.                                                    *)

Go(next) == pc' = next

\* rename_durable.
Move(from, to) == file' = [file EXCEPT ![to] = file[from], ![from] = "none"]

\* The closure of the recovery returns an error: roll back what was begun.
Fail == Go(IF started THEN "keep_db" ELSE "idle")

\* preserve_interrupted_candidate_sidecar, preserve_failed_recovery_file: a
\* file that exists is kept under a name that must be free.
Preserve(from, to, next) ==
  \/ ~Exists(from) /\ Go(next) /\ UNCHANGED file
  \/ Exists(from) /\ ~Exists(to) /\ Move(from, to) /\ Go(next)

-----------------------------------------------------------------------------
(* Starting and resuming.                                                  *)

\* The files of a new operation have new names.
Afresh == [p \in Paths |-> IF p \in Quarantine \cup {"stage"} THEN "none" ELSE file[p]]

\* Mutant: a resumed run takes itself for one that has changed nothing.
BeginUnstarted ==
  /\ pc = "idle"
  /\ \/ journal.state = "kept" /\ Go("resume") /\ UNCHANGED file
     \/ journal.state = "none" /\ file["db"] = "original" /\ file' = Afresh /\ Go("journal")
  /\ started' = FALSE
  /\ UNCHANGED <<journal, faults, crashes, had>>

\* With a journal the command resumes; one that cannot be read is refused.
\* Without, the destination must exist and not verify; a new quarantine
\* directory is made for it.
Begin ==
  /\ pc = "idle"
  /\ \/ /\ journal.state = "kept"
        /\ started' = Exists("q_db")
        /\ Go("resume") /\ UNCHANGED file
     \/ /\ journal.state = "none" /\ file["db"] = "original"
        /\ file' = Afresh
        /\ started' = FALSE
        /\ Go("journal")
  /\ UNCHANGED <<journal, faults, crashes, had>>

\* The journal tells which sidecars the original had.
NewJournal == [state |-> "kept", wal |-> Exists("wal"), shm |-> Exists("shm")]

WriteJournal ==
  /\ pc = "journal"
  /\ journal' = NewJournal
  /\ Go("resume")
  /\ UNCHANGED <<file, started, faults, crashes, had>>

\* Mutant: a database at the active path is taken for the corrupt one.
ResumeAfresh ==
  /\ pc = "resume"
  /\ \/ Exists("db") /\ Move("db", "q_db") /\ started' = TRUE
     \/ ~Exists("db") /\ Exists("q_db") /\ UNCHANGED <<file, started>>
  /\ Go("move_wal")
  /\ UNCHANGED <<journal, faults, crashes, had>>

\* What is there tells how far an earlier run came.  (With neither database the
\* command gives up; no reachable state has neither.)
Resume ==
  /\ pc = "resume"
  /\ \/ /\ Exists("db") /\ Exists("q_db")
        /\ Go("candidate_wal") /\ UNCHANGED <<file, started>>
     \/ /\ Exists("db") /\ ~Exists("q_db")
        /\ Move("db", "q_db") /\ started' = TRUE /\ Go("move_wal")
     \/ /\ ~Exists("db") /\ Exists("q_db")
        /\ Go("move_wal") /\ UNCHANGED <<file, started>>
  /\ UNCHANGED <<journal, faults, crashes, had>>

\* A candidate was published before: its sidecars are put aside.
KeepCandidateSidecar(s, at, next) ==
  /\ pc = at
  /\ \/ Preserve(s, Interrupted[s], next)
     \/ Exists(s) /\ Exists(Interrupted[s]) /\ Fail /\ UNCHANGED file
  /\ UNCHANGED <<journal, started, faults, crashes, had>>

\* It must still be the backup, byte for byte, and the quarantine complete.
CheckCandidate ==
  /\ pc = "check"
  /\ IF file["db"] = "backup" /\ \A s \in Sidecars : Exists(Quarantined[s]) = journal[s]
       THEN Go("boot") ELSE Fail
  /\ UNCHANGED <<file, journal, started, faults, crashes, had>>

\* reconcile_quarantined_sidecar: a journaled sidecar is at exactly one of the
\* two paths, and another one at none.
Reconcile(s, at, next) ==
  LET here == Exists(s)
      there == Exists(Quarantined[s])
  IN
  /\ pc = at
  /\ \/ /\ journal[s] /\ here /\ ~there
        /\ Move(s, Quarantined[s]) /\ Go(next)
     \/ /\ ~here /\ there = journal[s]
        /\ Go(next) /\ UNCHANGED file
     \/ /\ IF journal[s] THEN here = there ELSE here \/ there
        /\ Fail /\ UNCHANGED file
  /\ UNCHANGED <<journal, started, faults, crashes, had>>

-----------------------------------------------------------------------------
(* Publishing the backup.                                                  *)

\* A staging file of an earlier run must be a complete copy.
Stage ==
  /\ pc = "stage"
  /\ \/ ~Exists("stage") /\ file' = [file EXCEPT !["stage"] = "partial"] /\ Go("copy")
     \/ file["stage"] = "backup" /\ Go("publish") /\ UNCHANGED file
     \/ file["stage"] = "partial" /\ Fail /\ UNCHANGED file
  /\ UNCHANGED <<journal, started, faults, crashes, had>>

Copy ==
  /\ pc = "copy"
  /\ file' = [file EXCEPT !["stage"] = "backup"]
  /\ Go("publish")
  /\ UNCHANGED <<journal, started, faults, crashes, had>>

PublishCandidate ==
  /\ pc = "publish"
  /\ Move("stage", "db")
  /\ Go("boot")
  /\ UNCHANGED <<journal, started, faults, crashes, had>>

\* The database that a kernel works on, with or without a checkpoint of its
\* WAL in the main file.
Opened(content) == [file EXCEPT !["db"] = content, !["wal"] = "candidate", !["shm"] = "candidate"]

\* verify_recovery_candidate, then the configured kernel is booted on it.
BootCandidate ==
  /\ pc = "boot"
  /\ \E content \in {"backup", "used"} : file' = Opened(content)
  /\ Go("qualify")
  /\ UNCHANGED <<journal, started, faults, crashes, had>>

\* Every agent is enforced again: the run has succeeded.
Qualify ==
  /\ pc = "qualify"
  /\ \E content \in {file["db"], "used"} : file' = Opened(content)
  /\ Go("finish")
  /\ UNCHANGED <<journal, started, faults, crashes, had>>

\* Or it is not; the kernel is closed, which may leave its sidecars.
QualifyFails ==
  /\ pc = "qualify" /\ faults < MaxFaults /\ faults' = faults + 1
  /\ \/ \E content \in {file["db"], "used"} : file' = Opened(content)
     \/ file' = [file EXCEPT !["db"] = "used", !["wal"] = "none", !["shm"] = "none"]
  /\ Fail
  /\ UNCHANGED <<journal, started, crashes, had>>

RemoveJournal ==
  /\ pc = "finish"
  /\ journal' = NoJournal
  /\ Go("done")
  /\ UNCHANGED <<file, started, faults, crashes, had>>

-----------------------------------------------------------------------------
(* rollback_corrupt_recovery.                                              *)

\* Mutant: the sidecars of a failed replacement are left where they are.
KeepDatabaseOnly(f, at, next) ==
  /\ pc = at
  /\ \/ Preserve(f, Failed[f], IF f = "db" THEN "keep_stage" ELSE next)
     \/ Exists(f) /\ Exists(Failed[f]) /\ Go("idle") /\ UNCHANGED file
  /\ UNCHANGED <<journal, started, faults, crashes, had>>

\* The failed replacement goes to the quarantine; a name that is taken ends
\* the rollback, and the journal stays.
KeepFailed(f, at, next) ==
  /\ pc = at
  /\ \/ Preserve(f, Failed[f], next)
     \/ Exists(f) /\ Exists(Failed[f]) /\ Go("idle") /\ UNCHANGED file
  /\ UNCHANGED <<journal, started, faults, crashes, had>>

\* The originals that the journal names come back.
Restore(f, at, next) ==
  LET named == f \in Sidecars => journal[f] IN
  /\ pc = at
  /\ \/ ~named /\ Go(next) /\ UNCHANGED file
     \/ named /\ Exists(Quarantined[f]) /\ Move(Quarantined[f], f) /\ Go(next)
     \/ named /\ ~Exists(Quarantined[f]) /\ Go("idle") /\ UNCHANGED file
  /\ UNCHANGED <<journal, started, faults, crashes, had>>

RollbackEnds ==
  /\ pc = "forget"
  /\ journal' = NoJournal
  /\ Go("idle")
  /\ UNCHANGED <<file, started, faults, crashes, had>>

-----------------------------------------------------------------------------
(* Errors and crashes.                                                     *)

Rollback == {"keep_db", "keep_wal", "keep_shm", "keep_stage",
             "restore_db", "restore_wal", "restore_shm", "forget"}

\* A system call fails.  A journal that cannot be written is removed again;
\* the last removal and the rollback have nothing to fall back on.
IoError ==
  /\ pc \notin {"idle", "done", "check", "qualify"}
  /\ faults < MaxFaults /\ faults' = faults + 1
  /\ IF pc \in Rollback \cup {"journal", "finish"} THEN Go("idle") ELSE Fail
  /\ UNCHANGED <<file, journal, started, crashes, had>>

\* The process dies; a journal that is being written may be torn, and a
\* kernel that is being qualified may have written to the database.
Dies ==
  /\ pc \notin {"idle", "done"}
  /\ crashes < MaxCrashes /\ crashes' = crashes + 1
  /\ journal' \in IF pc = "journal" THEN {NoJournal, TornJournal, NewJournal} ELSE {journal}
  /\ file' \in IF pc \in {"qualify", "finish"} THEN {file, Opened("used")} ELSE {file}
  /\ Go("idle") /\ started' = FALSE
  /\ UNCHANGED <<faults, had>>

-----------------------------------------------------------------------------

Command ==
  \/ Begin \/ WriteJournal \/ Resume
  \/ KeepCandidateSidecar("wal", "candidate_wal", "candidate_shm")
  \/ KeepCandidateSidecar("shm", "candidate_shm", "check")
  \/ CheckCandidate
  \/ Reconcile("wal", "move_wal", "move_shm") \/ Reconcile("shm", "move_shm", "stage")
  \/ Stage \/ Copy \/ PublishCandidate \/ BootCandidate \/ Qualify \/ RemoveJournal
  \/ KeepFailed("db", "keep_db", "keep_wal") \/ KeepFailed("wal", "keep_wal", "keep_shm")
  \/ KeepFailed("shm", "keep_shm", "keep_stage") \/ KeepFailed("stage", "keep_stage", "restore_db")
  \/ Restore("db", "restore_db", "restore_wal") \/ Restore("wal", "restore_wal", "restore_shm")
  \/ Restore("shm", "restore_shm", "forget")
  \/ RollbackEnds

RecoveryNext == Command \/ QualifyFails \/ IoError \/ Dies

RecoverySpec == RecoveryInit /\ [][RecoveryNext]_recoveryVars

\* The command runs to its end, and the operator runs it again.
FairRecoverySpec == RecoverySpec /\ WF_recoveryVars(Command)

-----------------------------------------------------------------------------
(* Properties.                                                             *)

\* "preserving every original SQLite file for forensic custody" (storage.rs):
\* each original file exists at exactly one path, over any crashes, errors,
\* rollbacks and reruns; the database is at its own path or in quarantine.
OriginalsKept ==
  /\ \A f \in had :
       \E p \in {f, Quarantined[f], Failed[f]} :
         file[p] = "original" /\ \A q \in {f, Quarantined[f], Failed[f]} \ {p} : file[q] # "original"
  /\ file["f_db"] # "original"

\* SQLite replays a WAL it finds beside a database: a database never stands
\* beside sidecars of another one when it is opened or left to be opened.
OwnSidecars ==
  /\ pc \in {"boot", "qualify", "finish", "done"} =>
       \A s \in Sidecars : file[s] # "original"
  /\ pc = "idle" /\ journal.state = "none" /\ file["db"] = "original" =>
       \A s \in Sidecars : file[s] = IF s \in had THEN "original" ELSE "none"

\* The process died in a rollback that had begun to put files aside.
RollbackCut ==
  pc = "idle" /\ journal.state = "kept" /\ \E f \in DOMAIN Failed : Exists(Failed[f])

\* "An interrupted command can be rerun" (docs/DURABILITY.md): however often
\* the process dies, reruns get the backup published and qualified.  The
\* exceptions are failing system calls, a crash that tears the journal as it
\* is written, and one inside a rollback: its names for the failed
\* replacement are taken when the next candidate has to be rolled back.
RerunsRecover ==
  [](faults = 0 /\ journal.state # "torn" /\ ~RollbackCut) => <>(pc = "done")
=============================================================================
