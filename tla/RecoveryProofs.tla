--------------------------- MODULE RecoveryProofs ---------------------------
(***************************************************************************)
(* What survives a failure.                                                *)
(*                                                                         *)
(* However often the process dies and system calls fail, the recovery of a *)
(* corrupt database (CorruptRecovery) keeps every original file at exactly *)
(* one known path, and no database is opened, or left to be opened, beside *)
(* the sidecars of another one.                                            *)
(*                                                                         *)
(* Whatever fails or dies in a boot, a sweep, a request or a reload, the   *)
(* service supervisor (Supervisor) tracks the agent that runs for a        *)
(* service, and makes no more attempts to restart one in a window than     *)
(* its definition allows.                                                  *)
(*                                                                         *)
(* The two specifications share no variable.                               *)
(***************************************************************************)
EXTENDS CorruptRecovery, Supervisor, SequenceTheorems, WellFoundedInduction, TLAPS

\* Where the command is before an error or the end.
Forward == {"journal", "resume", "candidate_wal", "candidate_shm", "check", "move_wal", "move_shm",
            "stage", "copy", "publish", "boot", "qualify"}
Places  == Forward \cup Rollback \cup {"idle", "finish", "done"}

\* What each path may hold: the place of an original in the quarantine holds
\* that original or nothing.
DbContents      == {"none", "original", "backup", "used"}
SidecarContents == {"none", "original", "candidate"}

Stored == file \in [Paths -> {"none", "original", "backup", "used", "candidate", "partial"}]

Fitting ==
  /\ file["db"] \in DbContents /\ file["wal"] \in SidecarContents /\ file["shm"] \in SidecarContents
  /\ file["q_db"] \in {"none", "original"}
  /\ file["q_wal"] \in {"none", "original"} /\ file["q_shm"] \in {"none", "original"}
  /\ file["f_db"] \in DbContents \ {"original"}
  /\ file["stage"] \in {"none", "partial", "backup"}

Standing ==
  /\ had \in SUBSET Active /\ "db" \in had
  /\ journal \in [state : {"none", "torn", "kept"}, wal : BOOLEAN, shm : BOOLEAN]
  /\ pc \in Places /\ started \in BOOLEAN

TypeOK == Stored /\ Fitting /\ Standing

\* An original file that was there is at one path, and the database is never
\* among what a rollback puts aside.
Once(p, q, r) ==
  \/ file[p] = "original" /\ file[q] # "original" /\ file[r] # "original"
  \/ file[p] # "original" /\ file[q] = "original" /\ file[r] # "original"
  \/ file[p] # "original" /\ file[q] # "original" /\ file[r] = "original"

Custody(s, q, f) ==
  IF s \in had THEN Once(s, q, f)
  ELSE file[s] # "original" /\ file[q] = "none" /\ file[f] # "original"

\* The sidecars of a replacement are beside it only while the original ones are
\* in the quarantine.
Apart(s, q) ==
  /\ file["db"] \in {"backup", "used"} => file[s] # "original"
  /\ file[s] = "candidate" /\ s \in had => file[q] = "original"

Kept ==
  /\ file["db"] = "original" <=> file["q_db"] # "original"
  /\ Custody("wal", "q_wal", "f_wal") /\ Apart("wal", "q_wal")
  /\ Custody("shm", "q_shm", "f_shm") /\ Apart("shm", "q_shm")

\* Nothing has been moved, or everything has been moved back.
Home(f)  == file[f] = IF f \in had THEN "original" ELSE "none"
Pristine == Home("db") /\ Home("wal") /\ Home("shm")

\* A journal names the sidecars that there were; without one, nothing is out of
\* its place.
Journaled ==
  /\ journal.state = "kept" => (journal.wal <=> "wal" \in had) /\ (journal.shm <=> "shm" \in had)
  /\ journal.state # "kept" => pc = "done" \/ (pc \in {"idle", "journal"} /\ Pristine)
  /\ pc = "journal" => journal.state = "none"

\* What the command has achieved at each place on its way, so that an error
\* rolls back exactly what was begun.
Onward ==
  /\ pc \in Forward => (started <=> file["q_db"] = "original")
  /\ pc \in Forward \ {"journal", "resume"} => file["q_db"] = "original"
  /\ pc \in {"candidate_shm", "check", "move_shm", "stage", "copy", "publish", "boot"} => file["wal"] = "none"
  /\ pc \in {"check", "stage", "copy", "publish", "boot"} => file["shm"] = "none"
  /\ pc = "publish" => file["stage"] = "backup"
  /\ pc \in {"candidate_wal", "candidate_shm", "check", "boot", "qualify", "finish", "done"} =>
       file["db"] \in {"backup", "used"}
  /\ pc \in {"move_shm", "stage", "copy", "publish", "boot", "qualify", "finish"} /\ "wal" \in had =>
       file["q_wal"] = "original"
  /\ pc \in {"stage", "copy", "publish", "boot", "qualify", "finish"} /\ "shm" \in had =>
       file["q_shm"] = "original"

\* What a rollback has put aside and put back at each place.
Backward ==
  /\ pc \in {"keep_db", "keep_wal", "keep_shm", "keep_stage", "restore_db"} => file["q_db"] = "original"
  /\ pc \in {"keep_wal", "keep_shm", "keep_stage", "restore_db"} => file["db"] = "none"
  /\ pc \in {"keep_shm", "keep_stage", "restore_db", "restore_wal"} => file["wal"] = "none"
  /\ pc \in {"keep_stage", "restore_db", "restore_wal", "restore_shm"} => file["shm"] = "none"
  /\ pc \in {"restore_wal", "restore_shm", "forget"} => file["db"] = "original"
  /\ pc \in {"restore_shm", "forget"} => Home("wal")
  /\ pc = "forget" => Home("shm")

IInv == TypeOK /\ Kept /\ Journaled /\ Onward /\ Backward

-----------------------------------------------------------------------------

\* The paths of the quarantine.
LEMMA Names ==
  /\ Quarantined["db"] = "q_db" /\ Quarantined["wal"] = "q_wal" /\ Quarantined["shm"] = "q_shm"
  /\ Interrupted["wal"] = "i_wal" /\ Interrupted["shm"] = "i_shm"
  /\ Failed["db"] = "f_db" /\ Failed["wal"] = "f_wal" /\ Failed["shm"] = "f_shm"
  /\ Failed["stage"] = "f_stage"
  BY DEF Quarantined, Interrupted, Failed

\* The paths that the invariant is about.
LEMMA PathFacts ==
  {"db", "wal", "shm", "stage", "q_db", "q_wal", "q_shm", "f_db", "f_wal", "f_shm"} \subseteq Paths
  BY DEF Paths, Active, Sidecars, Quarantine

\* Before the first run the originals are at home.
LEMMA InitIInv == RecoveryInit => IInv
<1> SUFFICES ASSUME RecoveryInit PROVE IInv
  OBVIOUS
<1> USE DEF RecoveryInit
<1>1. Stored
  BY DEF Stored
<1>2. Fitting
  BY PathFacts DEF Fitting, DbContents, SidecarContents, Sidecars
<1>3. Standing
  BY DEF Standing, Active, NoJournal, Places
<1>4. Kept
  BY DEF Kept, Custody, Apart, Once, Paths, Active, Sidecars, Quarantine
<1>5. Journaled
  BY DEF Journaled, NoJournal, Pristine, Home, Paths, Active, Sidecars, Quarantine
<1>6. Onward /\ Backward
  BY DEF Onward, Backward, Forward
<1> QED BY <1>1, <1>2, <1>3, <1>4, <1>5, <1>6 DEF IInv, TypeOK

\* A run begins afresh or resumes.
LEMMA BeginIInv == ASSUME IInv, Begin PROVE IInv'
<1> USE DEF Begin, IInv, TypeOK, Go
<1>1. Stored'
  BY DEF Stored, Afresh
<1>2. Fitting'
  BY PathFacts DEF Fitting, Afresh, DbContents, Quarantine
<1>3. Standing'
  BY DEF Standing, Exists, Places, Forward
<1>4. Kept'
  BY DEF Fitting, Standing, Kept, Custody, Apart, Once, Afresh, Journaled, Pristine, Home, Paths, Active, Sidecars, Quarantine
<1>5. Journaled'
  BY DEF Standing, Journaled, Pristine, Home, Afresh, Paths, Active, Sidecars, Quarantine
<1>6. Onward'
  BY DEF Fitting, Onward, Forward, Exists, Afresh, Paths, Active, Sidecars, Quarantine
<1>7. Backward'
  BY DEF Backward
<1> QED BY <1>1, <1>2, <1>3, <1>4, <1>5, <1>6, <1>7

\* The first run resumes like every other.
LEMMA ResumeIInv == ASSUME IInv, Resume PROVE IInv'
<1> USE DEF Resume, IInv, TypeOK, Move, Exists, Go
<1>1. Stored'
  BY PathFacts DEF Stored
<1>2. Fitting'
  BY PathFacts DEF Stored, Fitting, DbContents, Kept
<1>3. Standing'
  BY DEF Standing, Places, Forward
<1>4. Kept'
  BY PathFacts DEF Stored, Fitting, Standing, Kept, Custody, Apart, Once, Paths, Active, Sidecars, Quarantine
<1>5. Journaled'
  BY DEF Standing, Journaled
<1>6. Onward'
  BY PathFacts DEF Stored, Fitting, Kept, Onward, Forward, DbContents
<1>7. Backward'
  BY DEF Backward
<1> QED BY <1>1, <1>2, <1>3, <1>4, <1>5, <1>6, <1>7

\* An error rolls back what was begun, and an end of the run keeps the journal.
LEMMA FailIInv ==
  ASSUME IInv, pc \in Forward \ {"journal"}, Fail, UNCHANGED <<file, journal, started, had>>
  PROVE  IInv'
<1> USE DEF Fail, IInv, TypeOK, Go
<1>1. Stored' /\ Fitting' /\ Kept'
  BY DEF Stored, Fitting, Kept, Custody, Apart, Once
<1>2. Standing'
  BY DEF Standing, Places, Rollback
<1>3. Journaled'
  BY DEF Standing, Journaled, Pristine, Home, Forward
<1>4. Onward' /\ Backward'
  BY DEF Standing, Onward, Backward, Forward
<1> QED BY <1>1, <1>2, <1>3, <1>4

\* A run that ends or dies without a change leaves the invariant to the next one.
LEMMA StopIInv ==
  ASSUME IInv, pc # "done", Go("idle"), UNCHANGED <<file, journal, had>>, started' \in BOOLEAN
  PROVE  IInv'
<1> USE DEF IInv, TypeOK, Go
<1>1. Stored' /\ Fitting' /\ Kept'
  BY DEF Stored, Fitting, Kept, Custody, Apart, Once
<1>2. Standing'
  BY DEF Standing, Places
<1>3. Journaled'
  BY DEF Standing, Journaled, Pristine, Home
<1>4. Onward' /\ Backward'
  BY DEF Onward, Backward, Forward
<1> QED BY <1>1, <1>2, <1>3, <1>4

\* What is there is journaled.
LEMMA WriteJournalIInv == ASSUME IInv, WriteJournal PROVE IInv'
<1> USE DEF WriteJournal, IInv, TypeOK, Go
<1>1. Stored' /\ Fitting' /\ Kept'
  BY DEF Stored, Fitting, Kept, Custody, Apart, Once
<1>2. Standing'
  BY DEF Standing, Places, Forward, NewJournal, Exists
<1>3. Journaled'
  BY DEF Standing, Journaled, Pristine, Home, NewJournal, Exists
<1>4. Onward' /\ Backward'
  BY DEF Onward, Backward, Forward
<1> QED BY <1>1, <1>2, <1>3, <1>4

\* Putting the sidecars of an interrupted candidate aside moves no original.
LEMMA KeepCandidateWalIInv ==
  ASSUME IInv, KeepCandidateSidecar("wal", "candidate_wal", "candidate_shm") PROVE IInv'
<1> USE DEF KeepCandidateSidecar, IInv
<1>1. CASE Preserve("wal", "i_wal", "candidate_shm")
  <2> USE <1>1, PathFacts DEF TypeOK, Preserve, Move, Exists, Go
  <2>1. Stored'
    BY DEF Stored, Paths, Quarantine
  <2>2. Fitting'
    BY DEF Stored, Fitting, SidecarContents
  <2>3. Standing'
    BY DEF Standing, Places, Forward
  <2>4. Kept'
    BY DEF Stored, Fitting, Kept, Custody, Apart, Once, Onward, Forward
  <2>5. Journaled'
    BY DEF Standing, Journaled
  <2>6. Onward' /\ Backward'
    BY DEF Stored, Onward, Backward, Forward
  <2> QED BY <2>1, <2>2, <2>3, <2>4, <2>5, <2>6
<1>2. CASE Fail /\ UNCHANGED file
  BY <1>2, FailIInv DEF Forward
<1> QED BY <1>1, <1>2, Names


\* Likewise for the shared-memory file.
LEMMA KeepCandidateShmIInv ==
  ASSUME IInv, KeepCandidateSidecar("shm", "candidate_shm", "check") PROVE IInv'
<1> USE DEF KeepCandidateSidecar, IInv
<1>1. CASE Preserve("shm", "i_shm", "check")
  <2> USE <1>1, PathFacts DEF TypeOK, Preserve, Move, Exists, Go
  <2>1. Stored'
    BY DEF Stored, Paths, Quarantine
  <2>2. Fitting'
    BY DEF Stored, Fitting, SidecarContents
  <2>3. Standing'
    BY DEF Standing, Places, Forward
  <2>4. Kept'
    BY DEF Stored, Fitting, Kept, Custody, Apart, Once, Onward, Forward
  <2>5. Journaled'
    BY DEF Standing, Journaled
  <2>6. Onward' /\ Backward'
    BY DEF Stored, Onward, Backward, Forward
  <2> QED BY <2>1, <2>2, <2>3, <2>4, <2>5, <2>6
<1>2. CASE Fail /\ UNCHANGED file
  BY <1>2, FailIInv DEF Forward
<1> QED BY <1>1, <1>2, Names

\* The candidate is opened only over a complete quarantine.
LEMMA CheckCandidateIInv == ASSUME IInv, CheckCandidate PROVE IInv'
<1> USE DEF CheckCandidate, IInv
<1>1. CASE Fail
  BY <1>1, FailIInv DEF Forward
<1>2. CASE /\ file["db"] = "backup" /\ \A s \in Sidecars : Exists(Quarantined[s]) = journal[s]
           /\ Go("boot")
  <2> USE <1>2 DEF TypeOK, Go
  <2>1. (Exists("q_wal") <=> journal["wal"]) /\ (Exists("q_shm") <=> journal["shm"])
    BY <1>2, Names DEF Sidecars
  <2>2. Stored' /\ Fitting' /\ Kept'
    BY DEF Stored, Fitting, Kept, Custody, Apart, Once
  <2>3. Standing'
    BY DEF Standing, Places, Forward
  <2>4. Journaled'
    BY DEF Standing, Journaled
  <2>5. Onward' /\ Backward'
    BY <2>1 DEF Fitting, Standing, Exists, Journaled, Onward, Backward, Forward
  <2> QED BY <2>2, <2>3, <2>4, <2>5
<1> QED BY <1>1, <1>2

\* An original sidecar follows its database.
LEMMA ReconcileWalIInv == ASSUME IInv, Reconcile("wal", "move_wal", "move_shm") PROVE IInv'
<1> USE DEF Reconcile, IInv
<1>1. CASE /\ journal["wal"] /\ Exists("wal") /\ ~Exists("q_wal")
           /\ Move("wal", "q_wal") /\ Go("move_shm")
  <2> USE <1>1, PathFacts DEF TypeOK, Move, Exists, Go
  <2>0. file["wal"] = "original"
    BY DEF Fitting, SidecarContents, Standing, Journaled, Kept, Apart
  <2>1. Stored'
    BY DEF Stored
  <2>2. Fitting'
    BY <2>0 DEF Stored, Fitting, SidecarContents
  <2>3. Standing'
    BY DEF Standing, Places, Forward
  <2>4. Kept'
    BY <2>0 DEF Stored, Fitting, Kept, Custody, Apart, Once, Onward, Forward
  <2>5. Journaled'
    BY DEF Standing, Journaled
  <2>6. Onward' /\ Backward'
    BY <2>0 DEF Stored, Onward, Backward, Forward
  <2> QED BY <2>1, <2>2, <2>3, <2>4, <2>5, <2>6
<1>2. CASE ~Exists("wal") /\ Exists("q_wal") = journal["wal"] /\ Go("move_shm") /\ UNCHANGED file
  <2> USE <1>2 DEF TypeOK, Exists, Go
  <2>1. Stored' /\ Fitting' /\ Kept'
    BY DEF Stored, Fitting, Kept, Custody, Apart, Once
  <2>2. Standing'
    BY DEF Standing, Places, Forward
  <2>3. Journaled'
    BY DEF Standing, Journaled
  <2>4. Onward' /\ Backward'
    BY DEF Fitting, Standing, Journaled, Onward, Backward, Forward
  <2> QED BY <2>1, <2>2, <2>3, <2>4
<1>3. CASE Fail /\ UNCHANGED file
  BY <1>3, FailIInv DEF Forward
<1> QED BY <1>1, <1>2, <1>3, Names


\* Likewise for the shared-memory file, after the log.
LEMMA ReconcileShmIInv == ASSUME IInv, Reconcile("shm", "move_shm", "stage") PROVE IInv'
<1> USE DEF Reconcile, IInv
<1>1. CASE /\ journal["shm"] /\ Exists("shm") /\ ~Exists("q_shm")
           /\ Move("shm", "q_shm") /\ Go("stage")
  <2> USE <1>1, PathFacts DEF TypeOK, Move, Exists, Go
  <2>0. file["shm"] = "original"
    BY DEF Fitting, SidecarContents, Standing, Journaled, Kept, Apart
  <2>1. Stored'
    BY DEF Stored
  <2>2. Fitting'
    BY <2>0 DEF Stored, Fitting, SidecarContents
  <2>3. Standing'
    BY DEF Standing, Places, Forward
  <2>4. Kept'
    BY <2>0 DEF Stored, Fitting, Kept, Custody, Apart, Once, Onward, Forward
  <2>5. Journaled'
    BY DEF Standing, Journaled
  <2>6. Onward' /\ Backward'
    BY <2>0 DEF Stored, Onward, Backward, Forward
  <2> QED BY <2>1, <2>2, <2>3, <2>4, <2>5, <2>6
<1>2. CASE ~Exists("shm") /\ Exists("q_shm") = journal["shm"] /\ Go("stage") /\ UNCHANGED file
  <2> USE <1>2 DEF TypeOK, Exists, Go
  <2>1. Stored' /\ Fitting' /\ Kept'
    BY DEF Stored, Fitting, Kept, Custody, Apart, Once
  <2>2. Standing'
    BY DEF Standing, Places, Forward
  <2>3. Journaled'
    BY DEF Standing, Journaled
  <2>4. Onward' /\ Backward'
    BY DEF Fitting, Standing, Journaled, Onward, Backward, Forward
  <2> QED BY <2>1, <2>2, <2>3, <2>4
<1>3. CASE Fail /\ UNCHANGED file
  BY <1>3, FailIInv DEF Forward
<1> QED BY <1>1, <1>2, <1>3, Names

\* The copy of the backup is staged and published where the original was.
LEMMA StageIInv == ASSUME IInv, Stage PROVE IInv'
<1> USE DEF Stage, IInv
<1>1. CASE /\ \/ ~Exists("stage") /\ file' = [file EXCEPT !["stage"] = "partial"] /\ Go("copy")
              \/ file["stage"] = "backup" /\ Go("publish") /\ UNCHANGED file
  <2> USE <1>1, PathFacts DEF TypeOK, Exists, Go
  <2>1. Stored'
    BY DEF Stored
  <2>2. Fitting'
    BY DEF Stored, Fitting
  <2>3. Standing'
    BY DEF Standing, Places, Forward
  <2>4. Kept'
    BY DEF Stored, Kept, Custody, Apart, Once
  <2>5. Journaled'
    BY DEF Standing, Journaled
  <2>6. Onward' /\ Backward'
    BY DEF Stored, Onward, Backward, Forward
  <2> QED BY <2>1, <2>2, <2>3, <2>4, <2>5, <2>6
<1>2. CASE Fail /\ UNCHANGED file
  BY <1>2, FailIInv DEF Forward
<1> QED BY <1>1, <1>2

\* The staged file is completed.
LEMMA CopyIInv == ASSUME IInv, Copy PROVE IInv'
<1> USE PathFacts DEF Copy, IInv, TypeOK, Go
<1>1. Stored'
  BY DEF Stored
<1>2. Fitting'
  BY DEF Stored, Fitting
<1>3. Standing'
  BY DEF Standing, Places, Forward
<1>4. Kept'
  BY DEF Stored, Kept, Custody, Apart, Once
<1>5. Journaled'
  BY DEF Standing, Journaled
<1>6. Onward' /\ Backward'
  BY DEF Stored, Onward, Backward, Forward
<1> QED BY <1>1, <1>2, <1>3, <1>4, <1>5, <1>6

\* The copy takes the place of the database, whose original is in the quarantine.
LEMMA PublishIInv == ASSUME IInv, PublishCandidate PROVE IInv'
<1> USE PathFacts DEF PublishCandidate, IInv, TypeOK, Go, Move
<1>1. Stored'
  BY DEF Stored
<1>2. Fitting'
  BY DEF Stored, Fitting, DbContents, Onward
<1>3. Standing'
  BY DEF Standing, Places, Forward
<1>4. Kept'
  BY DEF Stored, Fitting, Kept, Custody, Apart, Once, Onward, Forward
<1>5. Journaled'
  BY DEF Standing, Journaled
<1>6. Onward' /\ Backward'
  BY DEF Stored, Onward, Backward, Forward
<1> QED BY <1>1, <1>2, <1>3, <1>4, <1>5, <1>6


\* What a kernel on the candidate leaves behind, when it is open or closed.
Candidate(content) ==
  \/ file' = Opened(content)
  \/ file' = [file EXCEPT !["db"] = content, !["wal"] = "none", !["shm"] = "none"]

\* No write of that kernel reaches an original.
LEMMA CandidateFacts ==
  ASSUME IInv, pc \in {"boot", "qualify", "finish"}, NEW content \in {"backup", "used"},
         Candidate(content), had' = had
  PROVE  /\ Stored' /\ Fitting' /\ Kept'
         /\ file'["db"] \in {"backup", "used"} /\ file'["q_db"] = "original"
         /\ "wal" \in had => file'["q_wal"] = "original"
         /\ "shm" \in had => file'["q_shm"] = "original"
<1> USE PathFacts DEF IInv, TypeOK, Opened, Candidate
<1>0. /\ file["q_db"] = "original"
      /\ "wal" \in had => file["q_wal"] = "original"
      /\ "shm" \in had => file["q_shm"] = "original"
  BY DEF Onward, Forward, Kept
<1>1. Stored'
  BY DEF Stored
<1>2. Fitting'
  BY DEF Stored, Fitting, DbContents, SidecarContents
<1>3. Kept'
  BY <1>0 DEF Stored, Fitting, Kept, Custody, Apart, Once
<1>4. /\ file'["db"] \in {"backup", "used"} /\ file'["q_db"] = "original"
      /\ file'["q_wal"] = file["q_wal"] /\ file'["q_shm"] = file["q_shm"]
  BY <1>0 DEF Stored
<1> QED BY <1>0, <1>1, <1>2, <1>3, <1>4

\* Opening and qualifying the candidate, and a run that ends or dies there.
LEMMA CandidateIInv ==
  ASSUME IInv, pc \in {"boot", "qualify", "finish"}, NEW content \in {"backup", "used"},
         Candidate(content), UNCHANGED <<journal, had>>, started' \in BOOLEAN,
         \/ pc' = "qualify" /\ started' /\ pc # "finish"
         \/ pc' = "finish" \/ pc' = "idle"
         \/ pc' = "keep_db"
  PROVE  IInv'
<1> USE DEF IInv, TypeOK
<1>0. had' = had
  OBVIOUS
<1>1. Stored' /\ Fitting' /\ Kept'
  BY <1>0, CandidateFacts
<1>2. Standing'
  BY DEF Standing, Places, Forward, Rollback
<1>3. Journaled'
  BY DEF Standing, Journaled
<1>4. Onward' /\ Backward'
  BY <1>0, CandidateFacts DEF Onward, Backward, Forward
<1> QED BY <1>1, <1>2, <1>3, <1>4

\* The kernel opens the candidate.
LEMMA BootIInv == ASSUME IInv, BootCandidate PROVE IInv'
<1>1. started /\ started \in BOOLEAN
  BY DEF IInv, TypeOK, Standing, BootCandidate, Onward, Forward
<1>2. PICK content \in {"backup", "used"} : Candidate(content)
  BY DEF BootCandidate, Candidate
<1> QED BY <1>1, <1>2, CandidateIInv DEF BootCandidate, Go

\* The candidate is qualified.
LEMMA QualifyIInv == ASSUME IInv, Qualify PROVE IInv'
<1>1. started \in BOOLEAN /\ file["db"] \in {"backup", "used"}
  BY DEF IInv, TypeOK, Standing, Qualify, Onward
<1>2. PICK content \in {"backup", "used"} : Candidate(content)
  BY <1>1 DEF Qualify, Candidate
<1> QED BY <1>1, <1>2, CandidateIInv DEF Qualify, Go

\* Or it is not, and is rolled back.
LEMMA QualifyFailsIInv == ASSUME IInv, QualifyFails PROVE IInv'
<1>1. started /\ started \in BOOLEAN /\ file["db"] \in {"backup", "used"}
  BY DEF IInv, TypeOK, Standing, QualifyFails, Onward, Forward
<1>2. PICK content \in {"backup", "used"} : Candidate(content)
  BY <1>1 DEF QualifyFails, Candidate
<1> QED BY <1>1, <1>2, CandidateIInv DEF QualifyFails, Fail, Go

\* The journal is removed last, after a success or a complete rollback.
LEMMA RemoveJournalIInv == ASSUME IInv, RemoveJournal PROVE IInv'
<1> USE DEF RemoveJournal, IInv, TypeOK, Go
<1>1. Stored' /\ Fitting' /\ Kept'
  BY DEF Stored, Fitting, Kept, Custody, Apart, Once
<1>2. Standing'
  BY DEF Standing, Places, NoJournal
<1>3. Journaled'
  BY DEF Journaled, NoJournal
<1>4. Onward' /\ Backward'
  BY DEF Onward, Backward, Forward
<1> QED BY <1>1, <1>2, <1>3, <1>4

\* After a rollback everything is at home.
LEMMA RollbackEndsIInv == ASSUME IInv, RollbackEnds PROVE IInv'
<1> USE DEF RollbackEnds, IInv, TypeOK, Go
<1>1. Stored' /\ Fitting' /\ Kept'
  BY DEF Stored, Fitting, Kept, Custody, Apart, Once
<1>2. Standing'
  BY DEF Standing, Places, NoJournal
<1>3. Journaled'
  BY DEF Journaled, NoJournal, Pristine, Home, Backward, Standing
<1>4. Onward' /\ Backward'
  BY DEF Onward, Backward, Forward
<1> QED BY <1>1, <1>2, <1>3, <1>4


\* A rollback puts the failed replacement aside, and at most the sidecars that
\* were still in their place.
LEMMA KeepFailedDatabaseIInv == ASSUME IInv, KeepFailed("db", "keep_db", "keep_wal") PROVE IInv'
<1> USE DEF KeepFailed, IInv
<1>1. CASE Preserve("db", "f_db", "keep_wal")
  <2> USE <1>1, PathFacts DEF TypeOK, Preserve, Move, Exists, Go
  <2>1. Stored'
    BY DEF Stored, Paths, Quarantine
  <2>2. Fitting'
    BY DEF Stored, Fitting, DbContents, SidecarContents, Backward, Kept
  <2>3. Standing'
    BY DEF Standing, Places, Rollback
  <2>4. Kept'
    BY DEF Stored, Fitting, Kept, Custody, Apart, Once, Backward, DbContents
  <2>5. Journaled'
    BY DEF Standing, Journaled
  <2>6. Onward' /\ Backward'
    BY DEF Stored, Onward, Backward, Forward
  <2> QED BY <2>1, <2>2, <2>3, <2>4, <2>5, <2>6
<1>2. CASE Go("idle") /\ UNCHANGED file
  <2>1. started' \in BOOLEAN
    BY DEF TypeOK, Standing
  <2> QED BY <1>2, <2>1, StopIInv
<1> QED BY <1>1, <1>2, Names

\* The log of the candidate, or an original one that was not moved yet.
LEMMA KeepFailedWalIInv == ASSUME IInv, KeepFailed("wal", "keep_wal", "keep_shm") PROVE IInv'
<1> USE DEF KeepFailed, IInv
<1>1. CASE Preserve("wal", "f_wal", "keep_shm")
  <2> USE <1>1, PathFacts DEF TypeOK, Preserve, Move, Exists, Go
  <2>1. Stored'
    BY DEF Stored, Paths, Quarantine
  <2>2. Fitting'
    BY DEF Stored, Fitting, DbContents, SidecarContents, Backward, Kept
  <2>3. Standing'
    BY DEF Standing, Places, Rollback
  <2>4. Kept'
    BY DEF Stored, Fitting, Kept, Custody, Apart, Once, Backward, DbContents
  <2>5. Journaled'
    BY DEF Standing, Journaled
  <2>6. Onward' /\ Backward'
    BY DEF Stored, Onward, Backward, Forward
  <2> QED BY <2>1, <2>2, <2>3, <2>4, <2>5, <2>6
<1>2. CASE Go("idle") /\ UNCHANGED file
  <2>1. started' \in BOOLEAN
    BY DEF TypeOK, Standing
  <2> QED BY <1>2, <2>1, StopIInv
<1> QED BY <1>1, <1>2, Names

\* The shared-memory file likewise.
LEMMA KeepFailedShmIInv == ASSUME IInv, KeepFailed("shm", "keep_shm", "keep_stage") PROVE IInv'
<1> USE DEF KeepFailed, IInv
<1>1. CASE Preserve("shm", "f_shm", "keep_stage")
  <2> USE <1>1, PathFacts DEF TypeOK, Preserve, Move, Exists, Go
  <2>1. Stored'
    BY DEF Stored, Paths, Quarantine
  <2>2. Fitting'
    BY DEF Stored, Fitting, DbContents, SidecarContents, Backward, Kept
  <2>3. Standing'
    BY DEF Standing, Places, Rollback
  <2>4. Kept'
    BY DEF Stored, Fitting, Kept, Custody, Apart, Once, Backward, DbContents
  <2>5. Journaled'
    BY DEF Standing, Journaled
  <2>6. Onward' /\ Backward'
    BY DEF Stored, Onward, Backward, Forward
  <2> QED BY <2>1, <2>2, <2>3, <2>4, <2>5, <2>6
<1>2. CASE Go("idle") /\ UNCHANGED file
  <2>1. started' \in BOOLEAN
    BY DEF TypeOK, Standing
  <2> QED BY <1>2, <2>1, StopIInv
<1> QED BY <1>1, <1>2, Names

\* And the staged copy.
LEMMA KeepFailedStageIInv == ASSUME IInv, KeepFailed("stage", "keep_stage", "restore_db") PROVE IInv'
<1> USE DEF KeepFailed, IInv
<1>1. CASE Preserve("stage", "f_stage", "restore_db")
  <2> USE <1>1, PathFacts DEF TypeOK, Preserve, Move, Exists, Go
  <2>1. Stored'
    BY DEF Stored, Paths, Quarantine
  <2>2. Fitting'
    BY DEF Stored, Fitting, DbContents, SidecarContents, Backward, Kept
  <2>3. Standing'
    BY DEF Standing, Places, Rollback
  <2>4. Kept'
    BY DEF Stored, Fitting, Kept, Custody, Apart, Once, Backward, DbContents
  <2>5. Journaled'
    BY DEF Standing, Journaled
  <2>6. Onward' /\ Backward'
    BY DEF Stored, Onward, Backward, Forward
  <2> QED BY <2>1, <2>2, <2>3, <2>4, <2>5, <2>6
<1>2. CASE Go("idle") /\ UNCHANGED file
  <2>1. started' \in BOOLEAN
    BY DEF TypeOK, Standing
  <2> QED BY <1>2, <2>1, StopIInv
<1> QED BY <1>1, <1>2, Names

\* And puts the originals back.
LEMMA RestoreDatabaseIInv == ASSUME IInv, Restore("db", "restore_db", "restore_wal") PROVE IInv'
<1> USE DEF Restore, IInv
<1>1. CASE Exists("q_db") /\ Move("q_db", "db") /\ Go("restore_wal")
  <2> USE <1>1, PathFacts DEF TypeOK, Move, Exists, Go
  <2>0. "db" \in had
    BY DEF Standing, Fitting, Kept, Custody
  <2>1. Stored'
    BY DEF Stored
  <2>2. Fitting'
    BY DEF Stored, Fitting, DbContents, SidecarContents
  <2>3. Standing'
    BY DEF Standing, Places, Rollback
  <2>4. Kept'
    BY <2>0 DEF Stored, Fitting, Kept, Custody, Apart, Once, Backward
  <2>5. Journaled'
    BY DEF Standing, Journaled
  <2>6. Onward' /\ Backward'
    BY <2>0 DEF Stored, Fitting, Onward, Backward, Forward, Home
  <2> QED BY <2>1, <2>2, <2>3, <2>4, <2>5, <2>6
<1>2. CASE Go("idle") /\ UNCHANGED file
  <2>1. started' \in BOOLEAN
    BY DEF TypeOK, Standing
  <2> QED BY <1>2, <2>1, StopIInv
<1> QED BY <1>1, <1>2, Names DEF Sidecars

\* The log, if the journal names it.
LEMMA RestoreWalIInv == ASSUME IInv, Restore("wal", "restore_wal", "restore_shm") PROVE IInv'
<1> USE DEF Restore, IInv
<1>1. CASE Exists("q_wal") /\ Move("q_wal", "wal") /\ Go("restore_shm")
  <2> USE <1>1, PathFacts DEF TypeOK, Move, Exists, Go
  <2>0. "wal" \in had
    BY DEF Standing, Fitting, Kept, Custody
  <2>1. Stored'
    BY DEF Stored
  <2>2. Fitting'
    BY DEF Stored, Fitting, DbContents, SidecarContents
  <2>3. Standing'
    BY DEF Standing, Places, Rollback
  <2>4. Kept'
    BY <2>0 DEF Stored, Fitting, Kept, Custody, Apart, Once, Backward
  <2>5. Journaled'
    BY DEF Standing, Journaled
  <2>6. Onward' /\ Backward'
    BY <2>0 DEF Stored, Fitting, Onward, Backward, Forward, Home
  <2> QED BY <2>1, <2>2, <2>3, <2>4, <2>5, <2>6
<1>2. CASE Go("idle") /\ UNCHANGED file
  <2>1. started' \in BOOLEAN
    BY DEF TypeOK, Standing
  <2> QED BY <1>2, <2>1, StopIInv
<1>3. CASE ~journal["wal"] /\ Go("restore_shm") /\ UNCHANGED file
  <2> USE <1>3 DEF TypeOK, Go
  <2>1. Stored' /\ Fitting' /\ Kept'
    BY DEF Stored, Fitting, Kept, Custody, Apart, Once
  <2>2. Standing'
    BY DEF Standing, Places, Rollback
  <2>3. Journaled'
    BY DEF Standing, Journaled
  <2>4. Onward' /\ Backward'
    BY DEF Standing, Journaled, Onward, Backward, Forward, Home
  <2> QED BY <2>1, <2>2, <2>3, <2>4
<1> QED BY <1>1, <1>2, <1>3, Names DEF Sidecars

\* And the shared-memory file.
LEMMA RestoreShmIInv == ASSUME IInv, Restore("shm", "restore_shm", "forget") PROVE IInv'
<1> USE DEF Restore, IInv
<1>1. CASE Exists("q_shm") /\ Move("q_shm", "shm") /\ Go("forget")
  <2> USE <1>1, PathFacts DEF TypeOK, Move, Exists, Go
  <2>0. "shm" \in had
    BY DEF Standing, Fitting, Kept, Custody
  <2>1. Stored'
    BY DEF Stored
  <2>2. Fitting'
    BY DEF Stored, Fitting, DbContents, SidecarContents
  <2>3. Standing'
    BY DEF Standing, Places, Rollback
  <2>4. Kept'
    BY <2>0 DEF Stored, Fitting, Kept, Custody, Apart, Once, Backward
  <2>5. Journaled'
    BY DEF Standing, Journaled
  <2>6. Onward' /\ Backward'
    BY <2>0 DEF Stored, Fitting, Onward, Backward, Forward, Home
  <2> QED BY <2>1, <2>2, <2>3, <2>4, <2>5, <2>6
<1>2. CASE Go("idle") /\ UNCHANGED file
  <2>1. started' \in BOOLEAN
    BY DEF TypeOK, Standing
  <2> QED BY <1>2, <2>1, StopIInv
<1>3. CASE ~journal["shm"] /\ Go("forget") /\ UNCHANGED file
  <2> USE <1>3 DEF TypeOK, Go
  <2>1. Stored' /\ Fitting' /\ Kept'
    BY DEF Stored, Fitting, Kept, Custody, Apart, Once
  <2>2. Standing'
    BY DEF Standing, Places, Rollback
  <2>3. Journaled'
    BY DEF Standing, Journaled
  <2>4. Onward' /\ Backward'
    BY DEF Standing, Journaled, Onward, Backward, Forward, Home
  <2> QED BY <2>1, <2>2, <2>3, <2>4
<1> QED BY <1>1, <1>2, <1>3, Names DEF Sidecars

\* A system call fails anywhere.
LEMMA IoErrorIInv == ASSUME IInv, IoError PROVE IInv'
<1> USE DEF IoError
<1>0. started' \in BOOLEAN /\ pc \in Places
  BY DEF IInv, TypeOK, Standing
<1>1. CASE pc \in Rollback \cup {"journal", "finish"}
  BY <1>0, <1>1, StopIInv DEF Rollback
<1>2. CASE pc \notin Rollback \cup {"journal", "finish"}
  BY <1>0, <1>2, FailIInv DEF Places, Forward
<1> QED BY <1>1, <1>2

\* The process dies anywhere.
LEMMA CrashIInv == ASSUME IInv, Dies PROVE IInv'
<1> USE DEF Dies
<1>1. CASE pc = "journal"
  <2> USE <1>1 DEF IInv, TypeOK, Go
  <2>1. Stored' /\ Fitting' /\ Kept'
    BY DEF Stored, Fitting, Kept, Custody, Apart, Once
  <2>2. /\ journal' \in [state : {"none", "torn", "kept"}, wal : BOOLEAN, shm : BOOLEAN]
        /\ journal'.state = "kept" => journal' = NewJournal
    <3>1. /\ TornJournal \in [state : {"none", "torn", "kept"}, wal : BOOLEAN, shm : BOOLEAN]
          /\ TornJournal.state = "torn"
      <4>1. NoJournal \in [state : {"none", "torn", "kept"}, wal : BOOLEAN, shm : BOOLEAN]
        BY DEF NoJournal
      <4> QED BY <4>1 DEF TornJournal
    <3>2. journal' \in {NoJournal, TornJournal, NewJournal}
      OBVIOUS
    <3>3. CASE journal' = NewJournal
      BY <3>3 DEF NewJournal, Exists
    <3>4. CASE journal' = TornJournal
      BY <3>1, <3>4
    <3>5. CASE journal' = NoJournal
      BY <3>5 DEF NoJournal
    <3> QED BY <3>2, <3>3, <3>4, <3>5
  <2>3. Pristine /\ had' = had /\ file' = file /\ pc' = "idle" /\ started' = FALSE
    BY DEF Journaled
  <2>4. Standing'
    BY <2>2, <2>3 DEF Standing, Places
  <2>5. Journaled'
    <3>1. ASSUME journal'.state = "kept"
          PROVE  /\ journal'.wal <=> "wal" \in had
                 /\ journal'.shm <=> "shm" \in had
      <4>1. file["wal"] # "none" <=> "wal" \in had
        BY <2>3 DEF Pristine, Home
      <4>2. file["shm"] # "none" <=> "shm" \in had
        BY <2>3 DEF Pristine, Home
      <4> HIDE DEF Dies
      <4>3. (journal'.wal <=> file["wal"] # "none") /\ (journal'.shm <=> file["shm"] # "none")
        BY <3>1, <2>2 DEF NewJournal, Exists
      <4> QED BY <4>1, <4>2, <4>3
    <3>2. Pristine'
      BY <2>3 DEF Pristine, Home
    <3> QED BY <2>3, <3>1, <3>2 DEF Journaled
  <2>6. Onward' /\ Backward'
    BY DEF Onward, Backward, Forward
  <2> QED BY <2>1, <2>4, <2>5, <2>6
<1>2. CASE pc # "journal" /\ file' = file
  BY <1>2, StopIInv
<1>3. CASE pc \in {"qualify", "finish"} /\ file' = Opened("used")
  <2>1. Candidate("used")
    BY <1>3 DEF Candidate
  <2> QED BY <1>3, <2>1, CandidateIInv DEF Go
<1> QED BY <1>1, <1>2, <1>3

\* Every step preserves the invariant.
LEMMA NextIInv == ASSUME IInv, [RecoveryNext]_recoveryVars PROVE IInv'
<1>1. CASE Command
  BY <1>1, BeginIInv, WriteJournalIInv, ResumeIInv, KeepCandidateWalIInv, KeepCandidateShmIInv,
     CheckCandidateIInv, ReconcileWalIInv, ReconcileShmIInv, StageIInv, CopyIInv, PublishIInv,
     BootIInv, QualifyIInv, RemoveJournalIInv, KeepFailedDatabaseIInv, KeepFailedWalIInv,
     KeepFailedShmIInv, KeepFailedStageIInv, RestoreDatabaseIInv, RestoreWalIInv, RestoreShmIInv,
     RollbackEndsIInv DEF Command
<1>2. CASE QualifyFails \/ IoError \/ Dies
  BY <1>2, QualifyFailsIInv, IoErrorIInv, CrashIInv
<1>3. CASE UNCHANGED recoveryVars
  BY <1>3 DEF recoveryVars, IInv, TypeOK, Stored, Fitting, Standing, Kept, Custody, Apart, Once,
              Journaled, Pristine, Home, Onward, Backward
<1> QED BY <1>1, <1>2, <1>3 DEF RecoveryNext

\* The invariant holds however often recover_corrupt_storage_from_config is
\* interrupted, fails, is rolled back and is run again.
THEOREM RecoveryInvariant == RecoverySpec => []IInv
BY InitIInv, NextIInv, PTL DEF RecoverySpec

\* Every original file of the corrupt database survives at exactly one path:
\* its own, its quarantine, or among what a rollback put aside; the database
\* itself is never there.
THEOREM OriginalsSurvive == RecoverySpec => []OriginalsKept
<1>1. IInv => OriginalsKept
  <2> SUFFICES ASSUME IInv PROVE OriginalsKept
    OBVIOUS
  <2> USE DEF IInv, TypeOK
  <2>1. /\ file["f_db"] # "original"
        /\ file["db"] = "original" <=> file["q_db"] # "original"
    BY DEF Fitting, Kept
  <2>2. ASSUME NEW s \in Sidecars \cap had PROVE Once(s, Quarantined[s], Failed[s])
    BY <2>2, Names DEF Kept, Custody, Sidecars
  <2>3. ASSUME NEW f \in had
        PROVE  \E p \in {f, Quarantined[f], Failed[f]} :
                 /\ file[p] = "original"
                 /\ \A q \in {f, Quarantined[f], Failed[f]} \ {p} : file[q] # "original"
    <3>1. CASE f = "db"
      BY <2>1, <3>1, Names
    <3>2. CASE f \in Sidecars
      <4>1. PICK a, b, c : a = f /\ b = Quarantined[f] /\ c = Failed[f]
        OBVIOUS
      <4>2. Once(a, b, c)
        BY <2>2, <3>2, <4>1
      <4>3. \E p \in {a, b, c} :
              file[p] = "original" /\ \A q \in {a, b, c} \ {p} : file[q] # "original"
        BY <4>2 DEF Once
      <4> QED BY <4>1, <4>3
    <3> QED BY <3>1, <3>2 DEF Standing, Active
  <2> QED BY <2>1, <2>3 DEF OriginalsKept
<1> QED BY <1>1, RecoveryInvariant, PTL

\* SQLite never finds a write-ahead log of another database beside the one that
\* it opens: not the original one beside the backup, nor that of a failed
\* candidate beside the restored original.
THEOREM SidecarsBelong == RecoverySpec => []OwnSidecars
<1>1. IInv => OwnSidecars
  <2> SUFFICES ASSUME IInv PROVE OwnSidecars
    OBVIOUS
  <2>1. pc \in {"boot", "qualify", "finish", "done"} =>
          file["wal"] # "original" /\ file["shm"] # "original"
    BY DEF IInv, Onward, Kept, Apart
  <2>2. pc = "idle" /\ journal.state = "none" => Home("wal") /\ Home("shm")
    BY DEF IInv, Journaled, Pristine
  <2> QED BY <2>1, <2>2 DEF OwnSidecars, Home, Sidecars
<1> QED BY <1>1, RecoveryInvariant, PTL

-----------------------------------------------------------------------------
(* The service supervisor.                                                 *)

Statuses == {"Inactive", "Starting", "Running", "Failed", "Stopping", "Restarting"}
States == {"none", "Running", "Paused", "Stopped", "Missing", "Loose"}
Kinds == {"idle", "exit", "boot", "rollback", "start", "stop", "restart", "sweep", "shutdown"}
           \union Reloading
Functions == {"start", "stop", "depend", "block", "check", "retry", "again", "publish", "record",
              "republish", "agents", "boot"}

Service ==
  [status : Statuses, owner : Ids \union {None}, count : Nat, exit : {"none", "ok", "error"},
   desired : BOOLEAN, ready : BOOLEAN, healthy : BOOLEAN, exhausted : BOOLEAN,
   next : {"none", "later", "due"}, window : {"none", "open", "over"}, revision : Nat]
Tasks == [fn : Functions, s : Services, keep : BOOLEAN]

\* Where an operation can be in each of its calls.
StartPlaces == {"begin", "clean", "cleaned", "mark", "create", "created", "ready", "kill", "killed"}
StopPlaces == {"begin", "halt", "halted"}
CheckPlaces == {"begin", "reap", "reaped", "due", "evict", "attempt"}

Operations ==
  [kind : Kinds, todo : Seq(Tasks), at : StartPlaces \union StopPlaces \union CheckPlaces,
   new : Ids \union {None}, done : Seq(Services), old : [Services -> Service] \union {<<>>}]

SupervisorTypeOK ==
  /\ svc \in [Services -> Service] /\ row \in [Services -> Service]
  /\ files \in [Services -> 1..2]
  /\ agent \in [Ids -> States] /\ made \in [Ids -> Services]
  /\ op \in Operations
  /\ orphans \in SUBSET Ids /\ tries \in [Services -> Nat] /\ events \in Nat

\* Which calls an operation can have left.
Suits(kind, fn) ==
  /\ fn = "republish" => kind = "undo"
  /\ fn = "publish" => kind = "reload"
  /\ fn = "boot" => kind = "boot"
Proper(o) ==
  /\ o \in Operations
  /\ o.kind \in {"idle", "exit"} => o.todo = <<>>
  /\ o.kind \in Reloading => o.old \in [Services -> Service]
  /\ \A i \in DOMAIN o.todo :
       /\ Suits(o.kind, o.todo[i].fn)
       /\ o.kind = "sweep" /\ o.todo[i].fn = "start" => i = 1

\* What has been achieved at each place.
Gone(s) == svc[s].owner = None \/ agent[svc[s].owner] = "Stopped"
PlaceFits ==
  op.todo # <<>> =>
    LET r == svc[This] IN
    CASE Head(op.todo).fn = "start" ->
           /\ op.at \in StartPlaces
           /\ op.at = "clean" => r.owner # None
           /\ op.at = "cleaned" => Gone(This)
           /\ op.at \in {"mark", "create", "created"} => r.owner = None
           /\ op.at = "ready" => r.owner = op.new /\ row[This].owner = op.new
           /\ op.at \in {"kill", "killed"} => r.owner \in {None, op.new}
           /\ op.at \in {"created", "ready", "kill", "killed"} => op.new # None
           /\ op.at = "killed" => agent[op.new] = "Stopped"
      [] Head(op.todo).fn = "stop" ->
           /\ op.at \in StopPlaces
           /\ op.at = "halt" => r.owner # None
           /\ op.at = "halted" => Gone(This)
      [] Head(op.todo).fn = "check" ->
           /\ op.at \in CheckPlaces
           /\ op.at \in {"reap", "evict"} => r.owner # None
           /\ op.at \in {"reaped", "attempt"} => Gone(This)
           /\ op.at \in {"evict", "attempt"} => r.next # "none"
      [] OTHER -> op.at = "begin"

\* The agent that is being started belongs to the service of the call.
NewFits ==
  op.new # None =>
    /\ op.todo # <<>> /\ Head(op.todo).fn = "start"
    /\ op.at \in {"created", "ready", "kill", "killed"}
    /\ made[op.new] = This /\ agent[op.new] \in {"Running", "Paused", "Stopped"}
    /\ \A s \in Services \ {This} : row[s].owner # op.new

\* An agent that lives, or is left out and will be back, is the owner of the
\* service it was made for, in memory and in the row.
Alive(i) == Live(i) \/ agent[i] = "Missing"
Tracked ==
  \A i \in Ids : Alive(i) /\ i \notin orphans /\ i # op.new =>
    /\ row[made[i]].owner = i
    /\ op.kind # "exit" => svc[made[i]].owner = i

\* Each copy of the state of a service: an inactive one has no owner, and a
\* restart is scheduled only within the limit.
Sound(r) ==
  /\ r.status = "Inactive" => r.owner = None
  /\ r.next # "none" => r.count < MaxRestarts
CopiesSound ==
  \A s \in Services :
    /\ Sound(svc[s]) /\ Sound(row[s])
    /\ op.kind \in Reloading =>
         /\ Sound(op.old[s])
         /\ svc[s].owner # None /\ agent[svc[s].owner] = "Missing"
              => op.old[s].owner = svc[s].owner

\* The attempts of a window are counted in every copy that has the window.
Counts(r, n) == r.window = "open" => n <= r.count
TriesCounted ==
  \A s \in Services :
    /\ tries[s] <= MaxRestarts
    /\ svc[s].window # "open" => tries[s] = 0
    /\ Counts(svc[s], tries[s]) /\ Counts(row[s], tries[s])
    /\ op.kind \in Reloading => Counts(op.old[s], tries[s])

\* An attempt is counted before it is made.
AttemptCounted ==
  (op.kind = "sweep" /\ op.todo # <<>> /\ Head(op.todo).fn = "start"
     /\ op.at \in {"begin", "clean", "cleaned", "mark", "create"}) =>
    /\ svc[This].count <= MaxRestarts
    /\ Counts(svc[This], tries[This] + 1) /\ Counts(row[This], tries[This] + 1)

SupervisorInv ==
  /\ SupervisorTypeOK /\ Proper(op) /\ PlaceFits /\ NewFits /\ Tracked
  /\ CopiesSound /\ TriesCounted /\ AttemptCounted

-----------------------------------------------------------------------------
(* What the transitions of one service do.                                 *)

\* q is r with other marks: owner, count and window are kept, no restart is
\* scheduled, and the service is not declared inactive.
Remarks(r, q) ==
  /\ q \in Service /\ q.owner = r.owner /\ q.count = r.count /\ q.window = r.window
  /\ q.next \in {r.next, "none"} /\ q.status \in {r.status} \union (Statuses \ {"Inactive"})

\* q is r without its owner.
Clears(r, q) ==
  /\ q \in Service /\ q.owner = None /\ q.count = r.count /\ q.window = r.window
  /\ q.next \in {r.next, "none"}

\* mark_starting, mark_ready, mark_failed, mark_stopping and the note of a
\* failed dependency keep the owner, the restart count and the window of a
\* service.
LEMMA Remarking ==
  ASSUME NEW r \in Service
  PROVE  /\ Remarks(r, MarkStarting(r)) /\ Remarks(r, MarkReady(r)) /\ Remarks(r, MarkFailed(r))
         /\ Remarks(r, MarkStopping(r)) /\ Remarks(r, Blocked(r))
<1>1. Remarks(r, MarkStarting(r))
  BY DEF Remarks, Service, MarkStarting, Statuses
<1>2. Remarks(r, MarkReady(r))
  <2>1. CASE r.status = "Running"
    <3>1. MarkReady(r) = [r EXCEPT !.ready = TRUE, !.healthy = TRUE]
      BY <2>1 DEF MarkReady
    <3> QED BY <3>1 DEF Remarks, Service
  <2>2. CASE r.status # "Running"
    BY <2>2 DEF Remarks, MarkReady
  <2> QED BY <2>1, <2>2
<1>3. Remarks(r, MarkFailed(r))
  BY DEF Remarks, Service, MarkFailed, Statuses
<1>4. Remarks(r, MarkStopping(r))
  BY DEF Remarks, Service, MarkStopping, Statuses
<1>5. Remarks(r, Blocked(r))
  BY DEF Remarks, Service, Blocked, Statuses
<1> QED BY <1>1, <1>2, <1>3, <1>4, <1>5

\* clear_instance, clear_for_restart and mark_stopped forget the owner and keep
\* the restart count and its window.
LEMMA Clearing ==
  ASSUME NEW r \in Service, NEW keep \in BOOLEAN
  PROVE  /\ Clears(r, ClearInstance(r)) /\ Clears(r, ClearForRestart(r))
         /\ Clears(r, MarkStopped(r, keep))
<1>1. Clears(r, ClearInstance(r))
  BY DEF Clears, Service, ClearInstance
<1>2. Clears(r, ClearForRestart(r))
  BY <1>1 DEF Clears, Service, ClearForRestart, Statuses
<1>3. Clears(r, MarkStopped(r, keep))
  BY DEF Clears, Service, MarkStopped, Statuses
<1> QED BY <1>1, <1>2, <1>3

\* mark_started names the owner and cancels a restart that was scheduled.
LEMMA BecomesRunning ==
  ASSUME NEW r \in Service, NEW i \in Ids
  PROVE  LET q == MarkStarted(r, i) IN
         /\ q \in Service /\ q.owner = i /\ q.count = r.count /\ q.window = r.window
         /\ q.next = "none" /\ q.status = "Running"
  BY DEF Service, MarkStarted, Statuses

\* schedule_restart counts nothing in an open window and schedules only below
\* the limit.
LEMMA Scheduling ==
  ASSUME NEW s \in Services, NEW r \in Service
  PROVE  LET q == ScheduleRestart(s, r) IN
         /\ q \in Service /\ q.owner = r.owner
         /\ q.status \in {r.status, "Restarting"}
         /\ r.window = "open" => q.window = "open" /\ q.count = r.count
         /\ q.next # "none" => q.count < MaxRestarts \/ (q.next = r.next /\ q.count = r.count)
<1> DEFINE w == IF r.window = "open" THEN r
                ELSE [r EXCEPT !.window = "open", !.count = 0, !.exhausted = FALSE]
           x == [w EXCEPT !.exhausted = TRUE, !.next = "none"]
           d == DeferRestart(w)
<1>1. /\ w \in Service /\ w.owner = r.owner /\ w.status = r.status /\ w.window = "open"
      /\ r.window = "open" => w.count = r.count
  <2>1. CASE r.window = "open"
    BY <2>1
  <2>2. CASE r.window # "open"
    <3>1. w = [r EXCEPT !.window = "open", !.count = 0, !.exhausted = FALSE]
      BY <2>2
    <3> QED BY <2>2, <3>1 DEF Service
  <2> QED BY <2>1, <2>2
<1> HIDE DEF w
<1>2. /\ x \in Service /\ x.owner = w.owner /\ x.status = w.status /\ x.window = "open"
      /\ x.count = w.count /\ x.next = "none"
  BY <1>1 DEF Service
<1>3. /\ d \in Service /\ d.owner = w.owner /\ d.status = "Restarting" /\ d.window = "open"
      /\ d.count = w.count
  BY <1>1 DEF Service, DeferRestart, Statuses
<1>4. MaxRestarts \in Nat /\ w.count \in Nat
  BY <1>1, SupervisorConstants DEF Service
<1> HIDE DEF x, d
<1>5. ScheduleRestart(s, r) = IF ~Restartable(s, r) THEN r
                              ELSE IF w.count >= MaxRestarts THEN x ELSE d
  BY DEF ScheduleRestart, w, x, d
<1>6. CASE ~Restartable(s, r)
  BY <1>5, <1>6
<1>7. CASE Restartable(s, r) /\ w.count >= MaxRestarts
  <2>1. ScheduleRestart(s, r) = x
    BY <1>5, <1>7
  <2> QED BY <1>1, <1>2, <2>1
<1>8. CASE Restartable(s, r) /\ ~(w.count >= MaxRestarts)
  <2>1. ScheduleRestart(s, r) = d /\ w.count < MaxRestarts
    BY <1>4, <1>5, <1>8
  <2>2. d.count < MaxRestarts
    BY <1>3, <2>1
  <2> QED BY <1>1, <1>3, <2>1, <2>2
<1> QED BY <1>6, <1>7, <1>8

\* record_restart counts one restart and takes it off the schedule.
LEMMA Recording ==
  ASSUME NEW r \in Service
  PROVE  LET q == RecordRestart(r) IN
         /\ q \in Service /\ q.owner = r.owner /\ q.count = r.count + 1 /\ q.window = r.window
         /\ q.next = "none" /\ q.status = "Restarting"
<1>1. r.count + 1 \in Nat
  BY DEF Service
<1> DEFINE n == r.count + 1
<1>2. RecordRestart(r) = [r EXCEPT !.count = n, !.status = "Restarting", !.ready = FALSE,
                                   !.healthy = FALSE, !.next = "none"]
  BY DEF RecordRestart
<1> HIDE DEF n
<1>3. n \in Nat
  BY <1>1 DEF n
<1>4. LET q == RecordRestart(r) IN
      /\ q \in Service /\ q.owner = r.owner /\ q.count = n /\ q.window = r.window
      /\ q.next = "none" /\ q.status = "Restarting"
  BY <1>2, <1>3 DEF Service, Statuses
<1> QED BY <1>4 DEF n

\* reset_restart_budget closes the window and keeps the owner.
LEMMA Resetting ==
  ASSUME NEW r \in Service
  PROVE  LET q == ResetBudget(r) IN
         /\ q \in Service /\ q.owner = r.owner /\ q.window = "none" /\ q.next = "none"
         /\ q.status = r.status
  BY DEF Service, ResetBudget

\* Deferring a restart keeps the owner, the count and the window.
LEMMA Deferring ==
  ASSUME NEW r \in Service
  PROVE  LET q == DeferRestart(r) IN
         /\ q \in Service /\ q.owner = r.owner /\ q.count = r.count /\ q.window = r.window
         /\ q.status = "Restarting"
  BY DEF Service, DeferRestart, Statuses

\* What a boot reads back from a row has the owner and the count of the row.
LEMMA Restoring ==
  ASSUME NEW r \in Service, NEW state, NEW revision \in Nat
  PROVE  LET q == RestoreRuntime(Rebound(r, state), revision) IN
         /\ q \in Service /\ q.owner = r.owner /\ q.count = r.count
         /\ q.window \in {r.window, "none"} /\ q.next \in {r.next, "none"}
         /\ q.status \in {"Running", "Failed"} \/ (r.owner = None /\ q.status = r.status)
<1> DEFINE b == Rebound(r, state)
<1>1. /\ b \in Service /\ b.owner = r.owner /\ b.count = r.count
      /\ b.window = r.window /\ b.next = r.next
      /\ b.status \in {"Running", "Failed"} \/ (r.owner = None /\ b.status = r.status)
  <2> DEFINE f == [Blocked(r) EXCEPT !.status = "Failed"]
             p == [Blocked(r) EXCEPT !.status = "Running"]
             u == [r EXCEPT !.status = "Running", !.healthy = TRUE]
  <2>1. /\ f \in Service /\ f.owner = r.owner /\ f.count = r.count
        /\ f.window = r.window /\ f.next = r.next /\ f.status = "Failed"
    BY DEF Service, Blocked, Statuses
  <2>2. /\ p \in Service /\ p.owner = r.owner /\ p.count = r.count
        /\ p.window = r.window /\ p.next = r.next /\ p.status = "Running"
    BY DEF Service, Blocked, Statuses
  <2>3. /\ u \in Service /\ u.owner = r.owner /\ u.count = r.count
        /\ u.window = r.window /\ u.next = r.next /\ u.status = "Running"
    BY DEF Service, Statuses
  <2> HIDE DEF f, p, u
  <2>4. b \in {f, p, u} \/ (r.owner = None /\ b = r)
    BY DEF Rebound, f, p, u
  <2> QED BY <2>1, <2>2, <2>3, <2>4
<1> HIDE DEF b
<1> DEFINE c == [Fresh(revision) EXCEPT !.status = "Failed", !.owner = b.owner,
                                        !.desired = b.desired, !.count = b.count]
           e == [b EXCEPT !.revision = revision]
<1>2. /\ c \in Service /\ c.owner = b.owner /\ c.count = b.count
      /\ c.window = "none" /\ c.next = "none" /\ c.status = "Failed"
  <2>1. /\ Fresh(revision) \in Service /\ Fresh(revision).window = "none"
        /\ Fresh(revision).next = "none"
    BY DEF Service, Fresh, Statuses
  <2>2. b.owner \in Ids \union {None} /\ b.desired \in BOOLEAN /\ b.count \in Nat
    BY <1>1 DEF Service
  <2> QED BY <2>1, <2>2 DEF Service, Statuses
<1>3. /\ e \in Service /\ e.owner = b.owner /\ e.count = b.count
      /\ e.window = b.window /\ e.next = b.next /\ e.status = b.status
  BY <1>1 DEF Service
<1> HIDE DEF c, e
<1>4. RestoreRuntime(b, revision) \in {c, e}
  BY DEF RestoreRuntime, c, e
<1>5. LET q == RestoreRuntime(b, revision) IN
      /\ q \in Service /\ q.owner = r.owner /\ q.count = r.count
      /\ q.window \in {r.window, "none"} /\ q.next \in {r.next, "none"}
      /\ q.status \in {"Running", "Failed"} \/ (r.owner = None /\ q.status = r.status)
  BY <1>1, <1>2, <1>3, <1>4
<1> QED BY <1>5 DEF b

-----------------------------------------------------------------------------
(* Lists of calls.                                                         *)

\* A nonempty set of naturals has a least element.
LEMMA LeastNatural ==
  ASSUME NEW S \in SUBSET Nat, S # {}
  PROVE  \E m \in S : \A y \in S : m <= y
<1> DEFINE R == {ss \in Nat \X Nat : ss[1] < ss[2]}
<1>1. IsWellFoundedOn(R, Nat)
  BY NatLessThanWellFounded DEF OpToRel
<1> HIDE DEF R
<1>2. PICK x \in S : \A y \in S : ~(<<y, x>> \in R)
  BY <1>1, WFMin
<1>3. \A y \in S : x <= y
  <2> TAKE y \in S
  <2>1. x \in Nat /\ y \in Nat
    OBVIOUS
  <2>2. ~(y < x)
    BY <1>2, <2>1 DEF R
  <2> QED BY <2>1, <2>2
<1> QED BY <1>3

\* The names of a list that are in a set are names of the list.
LEMMA AmongType ==
  ASSUME NEW S, NEW list \in Seq(S), NEW names
  PROVE  Among(list, names) \in Seq(S)
<1> DEFINE n == Len(list)
           Grow(f, i) == IF i = 0 THEN <<>>
                         ELSE IF list[i] \in names THEN Append(f[i - 1], list[i]) ELSE f[i - 1]
           Solves(f, m) == f = [i \in 0..m |-> Grow(f, i)]
           Bad == {m \in 0..n : ~ \E f \in [0..m -> Seq(S)] : Solves(f, m)}
<1>1. n \in Nat /\ \A i \in 1..n : list[i] \in S
  OBVIOUS
<1>2. Bad = {}
  <2> SUFFICES ASSUME Bad # {} PROVE FALSE
    OBVIOUS
  <2>0. Bad \in SUBSET Nat
    BY <1>1
  <2> HIDE DEF Bad
  <2>1. PICK m \in Bad : \A k \in Bad : m <= k
    BY LeastNatural, <2>0
  <2>2. m \in 0..n /\ ~ \E f \in [0..m -> Seq(S)] : Solves(f, m)
    BY <2>1 DEF Bad
  <2>3. CASE m = 0
    <3> DEFINE f == [i \in 0..0 |-> <<>>]
    <3>1. f \in [0..m -> Seq(S)]
      BY <2>3
    <3>2. Solves(f, m)
      BY <2>3
    <3> QED BY <2>2, <3>1, <3>2
  <2>4. CASE m # 0
    <3>1. m - 1 \in 0..n /\ m - 1 \notin Bad
      BY <1>1, <2>1, <2>2, <2>4
    <3>2. PICK g \in [0..(m - 1) -> Seq(S)] : Solves(g, m - 1)
      BY <3>1 DEF Bad
    <3> DEFINE v == Grow(g, m)
               f == [i \in 0..m |-> IF i = m THEN v ELSE g[i]]
    <3>3. v \in Seq(S)
      BY <1>1, <2>2, <2>4, <3>2
    <3>4. f \in [0..m -> Seq(S)]
      BY <2>2, <3>2, <3>3
    <3>5. \A i \in 0..m : f[i] = Grow(f, i)
      <4> TAKE i \in 0..m
      <4>1. CASE i = m
        <5>1. f[m - 1] = g[m - 1] /\ f[m] = v
          BY <1>1, <2>2, <2>4
        <5> QED BY <2>4, <4>1, <5>1
      <4>2. CASE i # m
        <5>1. i \in 0..(m - 1) /\ f[i] = g[i] /\ (i # 0 => f[i - 1] = g[i - 1])
          BY <1>1, <2>2, <4>2
        <5>2. g[i] = Grow(g, i)
          BY <3>2, <5>1
        <5> QED BY <5>1, <5>2
      <4> QED BY <4>1, <4>2
    <3>6. Solves(f, m)
      BY <3>5
    <3> QED BY <2>2, <3>4, <3>6
  <2> QED BY <2>3, <2>4
<1>3. \E f : Solves(f, n)
  <2> HIDE DEF Bad
  <2>1. n \in 0..n /\ n \notin Bad
    BY <1>1, <1>2
  <2>2. \E f \in [0..n -> Seq(S)] : Solves(f, n)
    BY <2>1 DEF Bad
  <2> QED BY <2>2
<1> DEFINE p == CHOOSE f : Solves(f, n)
<1> HIDE DEF Solves
<1>4. Solves(p, n)
  BY <1>3
<1>5. Among(list, names) = p[n]
  BY DEF Among, Solves
<1> HIDE DEF p
<1>6. \A i \in 0..n : p[i] = Grow(p, i)
  BY <1>4 DEF Solves
<1> DEFINE Wrong == {m \in 0..n : p[m] \notin Seq(S)}
<1>7. Wrong = {}
  <2> SUFFICES ASSUME Wrong # {} PROVE FALSE
    OBVIOUS
  <2>0. Wrong \in SUBSET Nat
    BY <1>1
  <2> HIDE DEF Wrong
  <2>1. PICK m \in Wrong : \A k \in Wrong : m <= k
    BY LeastNatural, <2>0
  <2>2. m \in 0..n /\ p[m] \notin Seq(S)
    BY <2>1 DEF Wrong
  <2>3. m # 0
    <3>1. <<>> \in Seq(S)
      OBVIOUS
    <3> QED BY <1>1, <1>6, <2>2, <3>1
  <2>4. m - 1 \in 0..n /\ p[m - 1] \in Seq(S)
    BY <1>1, <2>1, <2>2, <2>3 DEF Wrong
  <2>5. p[m] = Grow(p, m) /\ list[m] \in S
    BY <1>1, <1>6, <2>2, <2>3
  <2> QED BY <2>2, <2>3, <2>4, <2>5
<1> QED BY <1>1, <1>5, <1>7

\* A reversed list is a list.
LEMMA ReverseType ==
  ASSUME NEW S, NEW list \in Seq(S)
  PROVE  Reverse(list) \in Seq(S)
<1>1. \A i \in 1..Len(list) : list[(Len(list) - i) + 1] \in S
  OBVIOUS
<1> QED BY <1>1 DEF Reverse

\* All calls of a list are of one function.
LEMMA CallsType ==
  ASSUME NEW names \in Seq(Services), NEW fn \in {"start", "depend", "check", "again", "boot"}
  PROVE  /\ Calls(fn, names) \in Seq(Tasks)
         /\ \A i \in DOMAIN Calls(fn, names) : Calls(fn, names)[i].fn = fn
<1> DEFINE task(s) == Task(fn, s, FALSE)
<1>1. \A s \in Services : task(s) \in Tasks /\ task(s).fn = fn
  BY DEF Task, Tasks, Functions
<1> HIDE DEF task
<1>2. \A i \in 1..Len(names) : names[i] \in Services
  OBVIOUS
<1>3. Calls(fn, names) = [i \in 1..Len(names) |-> task(names[i])]
  BY DEF Calls, task
<1>4. Calls(fn, names) \in Seq(Tasks) /\ DOMAIN Calls(fn, names) = 1..Len(names)
  BY <1>1, <1>2, <1>3
<1> QED BY <1>1, <1>2, <1>3, <1>4

\* A list of names gives a list of starts.
LEMMA StartsType ==
  ASSUME NEW names \in Seq(Services)
  PROVE  /\ Starts(names) \in Seq(Tasks)
         /\ \A i \in DOMAIN Starts(names) : Starts(names)[i].fn = "start"
<1>1. Starts(names) = Calls("start", names)
  BY DEF Starts, Calls
<1> QED BY <1>1, CallsType

\* A list of names gives a list of stops.
LEMMA StopsType ==
  ASSUME NEW names \in Seq(Services), NEW kept
  PROVE  /\ Stops(names, kept) \in Seq(Tasks)
         /\ \A i \in DOMAIN Stops(names, kept) : Stops(names, kept)[i].fn = "stop"
<1>1. \A s \in Services : Task("stop", s, s \in kept) \in Tasks /\ Task("stop", s, s \in kept).fn = "stop"
  BY DEF Task, Tasks, Functions
<1>2. \A i \in 1..Len(names) : names[i] \in Services
  OBVIOUS
<1>3. Stops(names, kept) = [i \in 1..Len(names) |-> Task("stop", names[i], names[i] \in kept)]
  BY DEF Stops
<1>4. Stops(names, kept) \in Seq(Tasks) /\ DOMAIN Stops(names, kept) = 1..Len(names)
  BY <1>1, <1>2, <1>3
<1> QED BY <1>1, <1>2, <1>3, <1>4

-----------------------------------------------------------------------------
(* Operations go on from call to call.                                     *)

AllSuit(kind, todo) ==
  \A i \in DOMAIN todo : Suits(kind, todo[i].fn) /\ (kind = "sweep" => todo[i].fn # "start")

\* An operation between two calls, none of which is an attempt to restart.
Between(o) ==
  /\ Proper(o) /\ o.at = "begin" /\ o.new = None
  /\ AllSuit(o.kind, o.todo)

\* The next operation remembers what this one does, if it remembers anything.
SameMemory(o) == o.kind \in Reloading => op.kind \in Reloading /\ o.old = op.old

\* Two lists of calls that suit an operation, one after the other, suit it.
LEMMA Concatenated ==
  ASSUME NEW kind, NEW a \in Seq(Tasks), NEW b \in Seq(Tasks), AllSuit(kind, a), AllSuit(kind, b)
  PROVE  a \o b \in Seq(Tasks) /\ AllSuit(kind, a \o b)
<1>1. a \o b \in Seq(Tasks) /\ DOMAIN (a \o b) = 1..(Len(a) + Len(b))
  OBVIOUS
<1>2. ASSUME NEW i \in DOMAIN (a \o b)
      PROVE  (i \in DOMAIN a /\ (a \o b)[i] = a[i])
               \/ (i - Len(a) \in DOMAIN b /\ (a \o b)[i] = b[i - Len(a)])
  <2>1. i \in 1..(Len(a) + Len(b))
    BY <1>1, <1>2
  <2>2. CASE i <= Len(a)
    BY <2>1, <2>2
  <2>3. CASE i > Len(a)
    BY <2>1, <2>3
  <2> QED BY <2>1, <2>2, <2>3
<1> QED BY <1>1, <1>2 DEF AllSuit

\* A single call that suits an operation is a list that suits it.
LEMMA Single ==
  ASSUME NEW kind, NEW s \in Services, NEW fn \in Functions \ {"start"}, NEW keep \in BOOLEAN,
         Suits(kind, fn)
  PROVE  <<Task(fn, s, keep)>> \in Seq(Tasks) /\ AllSuit(kind, <<Task(fn, s, keep)>>)
<1>1. Task(fn, s, keep) \in Tasks /\ Task(fn, s, keep).fn = fn
  BY DEF Task, Tasks
<1> QED BY <1>1 DEF AllSuit

\* A list of two calls.
LEMMA Pair ==
  ASSUME NEW a \in Tasks, NEW b \in Tasks
  PROVE  /\ <<a, b>> \in Seq(Tasks)
         /\ \A i \in DOMAIN <<a, b>> : <<a, b>>[i] \in {a, b}
<1>1. <<a, b>> \in Seq(Tasks) /\ DOMAIN <<a, b>> = 1..2
  OBVIOUS
<1>2. \A i \in 1..2 : i = 1 \/ i = 2
  OBVIOUS
<1> QED BY <1>1, <1>2

\* The list of calls that starts one service.
LEMMA StartsOne ==
  ASSUME NEW s \in Services
  PROVE  LET one == Starts(<<s>>) IN
         one \in Seq(Tasks) /\ Len(one) = 1 /\ one[1] = Task("start", s, FALSE)
<1> DEFINE names == <<s>>
           one == Starts(names)
<1>1. names \in Seq(Services) /\ DOMAIN names = 1..1 /\ names[1] = s
  OBVIOUS
<1> HIDE DEF names
<1>2. one \in Seq(Tasks)
  BY <1>1, StartsType
<1>3. DOMAIN one = 1..1 /\ one[1] = Task("start", s, FALSE)
  <2>1. one = [i \in 1..1 |-> Task("start", names[i], FALSE)]
    BY <1>1 DEF Starts
  <2>2. 1 \in 1..1
    OBVIOUS
  <2> HIDE DEF one
  <2> QED BY <1>1, <2>1, <2>2
<1> HIDE DEF one
<1>4. Len(one) = 1
  BY <1>2, <1>3
<1> QED BY <1>2, <1>3, <1>4 DEF one, names

\* One call before the others.
LEMMA Prepended ==
  ASSUME NEW one \in Seq(Tasks), Len(one) = 1, NEW b \in Seq(Tasks)
  PROVE  LET c == one \o b IN
         /\ c \in Seq(Tasks) /\ c # <<>> /\ Head(c) = one[1] /\ c[1] = one[1] /\ 1 \in DOMAIN c
         /\ \A i \in DOMAIN c : i # 1 => i - 1 \in DOMAIN b /\ c[i] = b[i - 1]
<1> DEFINE c == one \o b
<1>0. /\ c \in Seq(Tasks) /\ Len(c) = Len(one) + Len(b)
      /\ \A i \in 1..(Len(one) + Len(b)) :
           c[i] = IF i <= Len(one) THEN one[i] ELSE b[i - Len(one)]
  BY ConcatProperties
<1> HIDE DEF c
<1>1. c \in Seq(Tasks) /\ Len(b) \in Nat /\ Len(c) = 1 + Len(b) /\ DOMAIN c = 1..(1 + Len(b))
  BY <1>0
<1>2. \A i \in 1..Len(b) : c[i + 1] = b[i]
  BY <1>0, <1>1
<1>3. c[1] = one[1] /\ 1 \in DOMAIN c /\ c # <<>>
  BY <1>0, <1>1
<1>4. ASSUME NEW i \in DOMAIN c, i # 1
      PROVE  i - 1 \in DOMAIN b /\ c[i] = b[i - 1]
  <2>1. i - 1 \in 1..Len(b) /\ i = (i - 1) + 1
    BY <1>1, <1>4
  <2> QED BY <1>2, <2>1
<1>5. Head(c) = c[1]
  BY <1>1, <1>3
<1> QED BY <1>1, <1>3, <1>4, <1>5 DEF c

\* What is left after the first call.
LEMMA HeadAndTail ==
  ASSUME Proper(op), op.todo # <<>>
  PROVE  /\ Head(op.todo) \in Tasks /\ Head(op.todo) = op.todo[1] /\ This \in Services
         /\ Suits(op.kind, Head(op.todo).fn)
         /\ Tail(op.todo) \in Seq(Tasks) /\ AllSuit(op.kind, Tail(op.todo))
         /\ op.kind \notin {"idle", "exit"}
<1>1. op.todo \in Seq(Tasks)
  BY DEF Proper, Operations
<1>2. 1 \in DOMAIN op.todo /\ Head(op.todo) = op.todo[1] /\ Head(op.todo) \in Tasks
  BY <1>1
<1>3. Tail(op.todo) \in Seq(Tasks)
  BY <1>1
<1>4. ASSUME NEW i \in DOMAIN Tail(op.todo)
      PROVE  i + 1 \in DOMAIN op.todo /\ Tail(op.todo)[i] = op.todo[i + 1] /\ i + 1 # 1
  BY <1>1, <1>4
<1>5. AllSuit(op.kind, Tail(op.todo))
  BY <1>4 DEF AllSuit, Proper
<1>6. This \in Services
  BY <1>2 DEF This, Tasks
<1> QED BY <1>2, <1>3, <1>5, <1>6 DEF Proper

\* An operation of one kind that begins.
LEMMA Begins ==
  ASSUME NEW kind \in Kinds, NEW todo \in Seq(Tasks)
  PROVE  LET o == Operation(kind, todo) IN
         /\ o \in Operations /\ o.kind = kind /\ o.todo = todo
         /\ o.at = "begin" /\ o.new = None
  BY DEF Operation, Operations, StartPlaces

\* The lock is free, or the process has ended.
LEMMA Ends ==
  \A o \in {Idle, Exit} : Between(o) /\ o.kind \in {"idle", "exit"} /\ o.todo = <<>>
<1>1. \A k \in {"idle", "exit"} : k \in Kinds /\ k \notin Reloading
  BY DEF Kinds, Reloading
<1>2. <<>> \in Seq(Tasks)
  OBVIOUS
<1>3. \A k \in {"idle", "exit"} :
        /\ Operation(k, <<>>) \in Operations /\ Operation(k, <<>>).kind = k
        /\ Operation(k, <<>>).todo = <<>> /\ Operation(k, <<>>).at = "begin"
        /\ Operation(k, <<>>).new = None
  BY <1>1, <1>2, Begins
<1> QED BY <1>1, <1>3 DEF Idle, Exit, Between, Proper, AllSuit

\* The next call begins, or the operation ends.
LEMMA Continues ==
  ASSUME NEW o \in Operations, o.kind \notin {"idle", "exit"},
         o.kind \in Reloading => o.old \in [Services -> Service],
         NEW todo \in Seq(Tasks), AllSuit(o.kind, todo)
  PROVE  LET c == Continue(o, todo) IN
         /\ Between(c)
         /\ c.kind \in Reloading => c.kind = o.kind /\ c.old = o.old
<1> DEFINE c == Continue(o, todo)
<1>1. CASE todo # <<>>
  <2>1. c = [o EXCEPT !.todo = todo, !.at = "begin", !.new = None]
    BY <1>1 DEF Continue
  <2>2. /\ c \in Operations /\ c.todo = todo /\ c.at = "begin" /\ c.new = None
        /\ c.kind = o.kind /\ c.old = o.old
    BY <2>1 DEF Operations, StartPlaces
  <2> HIDE DEF c
  <2>3. Between(c)
    BY <2>2 DEF Between, Proper, AllSuit
  <2> QED BY <2>2, <2>3 DEF c
<1>2. CASE todo = <<>>
  <2>1. c \in {Idle, Exit}
    BY <1>2 DEF Continue
  <2> HIDE DEF c
  <2>4. Between(c) /\ c.kind \notin Reloading
    BY <2>1, Ends DEF Reloading
  <2> QED BY <2>4 DEF c
<1> QED BY <1>1, <1>2

\* The call of this operation returns.
LEMMA Returns ==
  ASSUME Proper(op), op.todo # <<>>, Ok \/ Skip
  PROVE  Between(op') /\ SameMemory(op')
<1> DEFINE o == [op EXCEPT !.done = IF op.kind \in {"boot", "reload", "rollout"}
                                      THEN Append(@, This) ELSE @]
<1>1. /\ op \in Operations /\ op.kind \notin {"idle", "exit"}
      /\ op.kind \in Reloading => op.old \in [Services -> Service]
      /\ Tail(op.todo) \in Seq(Tasks) /\ AllSuit(op.kind, Tail(op.todo))
  BY HeadAndTail DEF Proper
<1>2. o \in Operations /\ o.kind = op.kind /\ o.old = op.old
  <2>1. op.done \in Seq(Services) /\ Append(op.done, This) \in Seq(Services)
    BY <1>1, HeadAndTail DEF Operations
  <2> QED BY <1>1, <2>1 DEF Operations
<1>3. op' = Continue(o, Tail(op.todo)) \/ op' = Continue(op, Tail(op.todo))
  BY DEF Ok, Skip
<1> HIDE DEF o
<1> QED BY <1>1, <1>2, <1>3, Continues DEF SameMemory

\* Other calls are made instead of this one.
LEMMA Replaces ==
  ASSUME Proper(op), op.todo # <<>>, NEW todo \in Seq(Tasks), AllSuit(op.kind, todo), Instead(todo)
  PROVE  Between(op') /\ SameMemory(op')
<1>1. /\ op \in Operations /\ op.kind \notin {"idle", "exit"}
      /\ op.kind \in Reloading => op.old \in [Services -> Service]
      /\ Tail(op.todo) \in Seq(Tasks) /\ AllSuit(op.kind, Tail(op.todo))
  BY HeadAndTail DEF Proper
<1>2. todo \o Tail(op.todo) \in Seq(Tasks) /\ AllSuit(op.kind, todo \o Tail(op.todo))
  BY <1>1, Concatenated
<1> QED BY <1>1, <1>2, Continues DEF Instead, SameMemory

\* The call fails.
LEMMA Fails ==
  ASSUME Proper(op), op.todo # <<>>, Err
  PROVE  Between(op') /\ SameMemory(op')
<1>1. /\ op \in Operations /\ op.kind \notin {"idle", "exit"}
      /\ op.kind \in Reloading => op.old \in [Services -> Service]
      /\ Tail(op.todo) \in Seq(Tasks) /\ AllSuit(op.kind, Tail(op.todo))
      /\ This \in Services /\ Order \in Seq(Services)
      /\ op.done \in Seq(Services)
  BY HeadAndTail, SupervisorConstants DEF Proper, Operations
<1> DEFINE undo == Stops(Reverse(op.done), {})
           back(names) == Starts(OldActive(names))
           u == [op EXCEPT !.kind = "undo"]
           b == [op EXCEPT !.kind = "rollback"]
           rollout == undo \o <<Task("republish", This, FALSE)>> \o back(Services)
           retry == <<Task("retry", This, FALSE)>> \o Tail(op.todo)
<1>2. /\ u \in Operations /\ u.kind = "undo" /\ u.old = op.old
      /\ b \in Operations /\ b.kind = "rollback"
  BY <1>1 DEF Operations, Kinds, Reloading
<1>3. undo \in Seq(Tasks) /\ AllSuit("undo", undo) /\ AllSuit("rollback", undo)
  BY <1>1, ReverseType, StopsType DEF AllSuit, Suits
<1>4. \A names : back(names) \in Seq(Tasks) /\ AllSuit("undo", back(names))
  <2> TAKE names
  <2>1. OldActive(names) \in Seq(Services)
    BY <1>1, AmongType DEF OldActive
  <2> HIDE DEF OldActive
  <2> QED BY <2>1, StartsType DEF AllSuit, Suits
<1> HIDE DEF undo, back
<1>5. rollout \in Seq(Tasks) /\ AllSuit("undo", rollout)
  <2>1. /\ <<Task("republish", This, FALSE)>> \in Seq(Tasks)
        /\ AllSuit("undo", <<Task("republish", This, FALSE)>>)
    BY <1>1, Single DEF Suits, Functions
  <2>2. /\ undo \o <<Task("republish", This, FALSE)>> \in Seq(Tasks)
        /\ AllSuit("undo", undo \o <<Task("republish", This, FALSE)>>)
    BY <1>3, <2>1, Concatenated
  <2> QED BY <1>4, <2>2, Concatenated
<1>6. op.kind = "sweep" => retry \in Seq(Tasks) /\ AllSuit(op.kind, retry)
  <2>1. /\ <<Task("retry", This, FALSE)>> \in Seq(Tasks)
        /\ AllSuit(op.kind, <<Task("retry", This, FALSE)>>)
    BY <1>1, Single DEF Suits, Functions
  <2> QED BY <1>1, <2>1, Concatenated
<1> HIDE DEF rollout, retry, u, b
<1>7. CASE op.kind = "boot"
  <2>1. op' = Continue(b, undo)
    BY <1>7 DEF Err, undo, b
  <2> QED BY <1>2, <1>3, <2>1, Continues DEF SameMemory, Reloading
<1>8. CASE op.kind = "reload"
  <2>1. op' = Continue(u, back(Range(op.done)))
    BY <1>8 DEF Err, back, u
  <2> QED BY <1>1, <1>2, <1>4, <1>8, <2>1, Continues DEF SameMemory, Reloading
<1>9. CASE op.kind = "rollout"
  <2>1. op' = Continue(u, rollout)
    BY <1>9 DEF Err, rollout, u, undo, back
  <2> QED BY <1>1, <1>2, <1>5, <1>9, <2>1, Continues DEF SameMemory, Reloading
<1>10. CASE op.kind \in {"rollback", "shutdown", "undo"}
  <2>1. op' = Continue(op, Tail(op.todo))
    BY <1>10 DEF Err
  <2> QED BY <1>1, <2>1, Continues DEF SameMemory
<1>11. CASE op.kind = "sweep" /\ Head(op.todo).fn = "start"
  <2>1. op' = Continue(op, retry)
    BY <1>11 DEF Err, retry
  <2> QED BY <1>1, <1>6, <1>11, <2>1, Continues DEF SameMemory
<1>12. CASE /\ op.kind \notin {"boot", "reload", "rollout", "rollback", "shutdown", "undo"}
            /\ ~(op.kind = "sweep" /\ Head(op.todo).fn = "start")
  <2>1. op' = Idle
    BY <1>12 DEF Err
  <2> QED BY <2>1, Ends DEF SameMemory, Reloading
<1> QED BY <1>7, <1>8, <1>9, <1>10, <1>11, <1>12

-----------------------------------------------------------------------------
(* One step: the parts of the invariant.                                   *)

\* Between two calls nothing is known of places, new agents and attempts.
LEMMA Stands ==
  ASSUME Between(op')
  PROVE  Proper(op)' /\ PlaceFits' /\ NewFits' /\ AttemptCounted'
<1>1. Proper(op)' /\ op'.at = "begin" /\ op'.new = None
  BY DEF Between, Proper, Suits
<1>2. op'.todo # <<>> => 1 \in DOMAIN op'.todo /\ Head(op'.todo) = op'.todo[1]
  <2>1. op'.todo \in Seq(Tasks)
    BY DEF Between, Proper, Operations
  <2> QED BY <2>1
<1>3. op'.kind = "sweep" /\ op'.todo # <<>> => Head(op'.todo).fn # "start"
  BY <1>2 DEF Between, AllSuit
<1>4. PlaceFits'
  BY <1>1 DEF PlaceFits, StartPlaces, StopPlaces, CheckPlaces
<1>5. NewFits'
  BY <1>1 DEF NewFits
<1>6. AttemptCounted'
  BY <1>3 DEF AttemptCounted
<1> QED BY <1>1, <1>4, <1>5, <1>6

\* The owner of a service is recorded as before, or it has been stopped.
KeepsOwner(s) ==
  \/ Gone(s)
  \/ svc'[s].owner = svc[s].owner /\ row'[s].owner \in {row[s].owner, svc[s].owner}

\* Tracked is kept when owners change only where nobody lives, and the agent
\* just created is either still new, ended or named by both states of its
\* service.
LEMMA TrackedStep ==
  ASSUME SupervisorInv, op.kind # "exit", orphans' = orphans,
         \A s \in Services : KeepsOwner(s),
         \A i \in Ids : i = op'.new \/ (made'[i] = made[i] /\ (Alive(i)' => Alive(i))),
         \A i \in Ids : i = op.new /\ i # op'.new =>
           ~Alive(i)' \/ (row'[made[i]].owner = i /\ svc'[made[i]].owner = i)
  PROVE  Tracked'
<1> SUFFICES ASSUME NEW i \in Ids, Alive(i)', i \notin orphans', i # op'.new
             PROVE  row'[made'[i]].owner = i /\ svc'[made'[i]].owner = i
  BY DEF Tracked
<1>1. made'[i] = made[i] /\ Alive(i) /\ made[i] \in Services /\ i # None
  BY SupervisorConstants DEF SupervisorInv, SupervisorTypeOK
<1>2. CASE i = op.new
  BY <1>1, <1>2
<1>3. CASE i # op.new
  <2>1. row[made[i]].owner = i /\ svc[made[i]].owner = i
    BY <1>1, <1>3 DEF SupervisorInv, Tracked
  <2>2. ~Gone(made[i])
    BY <1>1, <2>1 DEF Gone, Alive, Live
  <2> QED BY <1>1, <2>1, <2>2 DEF KeepsOwner
<1> QED BY <1>2, <1>3

\* CopiesSound is kept by a step that keeps what the operation remembers and
\* brings no agent to be missing.
LEMMA CopiesStep ==
  ASSUME SupervisorInv, SameMemory(op'),
         \A s \in Services : Sound(svc'[s]) /\ Sound(row'[s]),
         \A i \in Ids : agent'[i] = "Missing" => agent[i] = "Missing",
         \A s \in Services : svc'[s].owner \in {svc[s].owner, None}
                               \/ agent'[svc'[s].owner] # "Missing",
         svc' \in [Services -> Service]
  PROVE  CopiesSound'
<1> SUFFICES ASSUME NEW s \in Services
             PROVE  op'.kind \in Reloading =>
                      /\ Sound(op'.old[s])
                      /\ svc'[s].owner # None /\ agent'[svc'[s].owner] = "Missing"
                           => op'.old[s].owner = svc'[s].owner
  BY DEF CopiesSound
<1> SUFFICES ASSUME op'.kind \in Reloading
             PROVE  /\ Sound(op.old[s])
                    /\ svc'[s].owner # None /\ agent'[svc'[s].owner] = "Missing"
                         => op.old[s].owner = svc'[s].owner
  BY DEF SameMemory
<1>1. op.kind \in Reloading
  BY DEF SameMemory
<1>2. Sound(op.old[s])
  BY <1>1 DEF SupervisorInv, CopiesSound
<1>3. svc[s].owner # None /\ agent[svc[s].owner] = "Missing" => op.old[s].owner = svc[s].owner
  BY <1>1 DEF SupervisorInv, CopiesSound
<1>4. svc'[s].owner \in Ids \union {None}
  BY DEF Service
<1> QED BY <1>2, <1>3, <1>4

\* This step makes no attempt.
NoAttempt == ~(op.kind = "sweep" /\ At("start", "create") /\ op' # op)

\* The ghost count of attempts: none outside an open window, one more at an
\* attempt.
LEMMA Remembers ==
  ASSUME SupervisorInv, Remember, svc' \in [Services -> Service]
  PROVE  /\ tries' \in [Services -> Nat]
         /\ \A s \in Services :
              /\ svc'[s].window # "open" => tries'[s] = 0
              /\ NoAttempt \/ s # This => tries'[s] <= tries[s]
              /\ tries'[s] <= tries[s] + 1
<1>1. tries \in [Services -> Nat]
  BY DEF SupervisorInv, SupervisorTypeOK
<1>2. tries' \in [Services -> Nat]
  BY <1>1 DEF Remember
<1>3. ASSUME NEW s \in Services
      PROVE  /\ svc'[s].window # "open" => tries'[s] = 0
             /\ NoAttempt \/ s # This => tries'[s] <= tries[s]
             /\ tries'[s] <= tries[s] + 1
  <2>1. tries'[s] = IF svc'[s].window # "open" THEN 0
                    ELSE IF op.kind = "sweep" /\ At("start", "create") /\ This = s /\ op' # op
                           THEN tries[s] + 1 ELSE tries[s]
    BY DEF Remember
  <2>2. tries[s] \in Nat
    BY <1>1
  <2> QED BY <2>1, <2>2 DEF NoAttempt
<1> QED BY <1>2, <1>3

\* TriesCounted is kept by a step that makes no attempt and lowers no count in
\* an open window.
LEMMA TriesStep ==
  ASSUME SupervisorInv, Remember, NoAttempt,
         svc' \in [Services -> Service], row' \in [Services -> Service],
         \A s \in Services : Counts(svc'[s], tries[s]) /\ Counts(row'[s], tries[s]),
         op'.kind \in Reloading =>
           op'.old \in [Services -> Service] /\ \A s \in Services : Counts(op'.old[s], tries[s])
  PROVE  TriesCounted'
<1> SUFFICES ASSUME NEW s \in Services
             PROVE  /\ tries'[s] <= MaxRestarts
                    /\ svc'[s].window # "open" => tries'[s] = 0
                    /\ Counts(svc'[s], tries'[s]) /\ Counts(row'[s], tries'[s])
                    /\ op'.kind \in Reloading => Counts(op'.old[s], tries'[s])
  BY DEF TriesCounted
<1>1. /\ tries'[s] \in Nat /\ tries'[s] <= tries[s] /\ (svc'[s].window # "open" => tries'[s] = 0)
      /\ tries[s] \in Nat /\ tries[s] <= MaxRestarts /\ MaxRestarts \in Nat
  BY Remembers, SupervisorConstants DEF SupervisorInv, SupervisorTypeOK, TriesCounted
<1>2. \A r \in Service : Counts(r, tries[s]) => Counts(r, tries'[s])
  BY <1>1 DEF Counts, Service
<1>3. op'.kind \in Reloading => op'.old[s] \in Service
  OBVIOUS
<1> QED BY <1>1, <1>2, <1>3

\* The ghost count has its type when everything else has.
LEMMA TypeStep ==
  ASSUME SupervisorInv, Remember, svc' \in [Services -> Service], row' \in [Services -> Service],
         files' \in [Services -> 1..2], agent' \in [Ids -> States], made' \in [Ids -> Services],
         op' \in Operations, orphans' \in SUBSET Ids, events' \in Nat
  PROVE  SupervisorTypeOK'
  BY Remembers DEF SupervisorTypeOK

-----------------------------------------------------------------------------
(* A step of a call on one service.                                        *)

\* What the states of agents become: they stay, or end.
Fades ==
  /\ agent' \in [Ids -> States]
  /\ \A i \in Ids : agent'[i] \in {agent[i], "Stopped", "Loose"}
  /\ UNCHANGED <<made, orphans, files>> /\ events' \in Nat

\* The state of this service becomes q, in memory or also in its row.
Becomes(q) ==
  /\ q \in Service /\ Sound(q)
  /\ svc' = [svc EXCEPT ![This] = q]
  /\ row' \in {row, [row EXCEPT ![This] = q]}
  /\ q.owner \in {svc[This].owner, None, op.new}
  /\ q.owner = svc[This].owner \/ Gone(This)
  /\ svc[This].window = "open" /\ q.window = "open" => svc[This].count <= q.count
  /\ NoAttempt \/ (q.window = svc[This].window /\ q.count = svc[This].count)

\* What the invariant says of the service of the current call.
LEMMA Typed ==
  ASSUME SupervisorInv, op.todo # <<>>
  PROVE  /\ This \in Services /\ svc[This] \in Service /\ row[This] \in Service
         /\ Sound(svc[This]) /\ Sound(row[This])
         /\ Head(op.todo) \in Tasks /\ op.new \in Ids \union {None} /\ None \notin Ids
         /\ svc[This].owner \in Ids \union {None}
         /\ op.kind \notin {"idle", "exit"} /\ op \in Operations
         /\ Suits(op.kind, Head(op.todo).fn)
<1>1. This \in Services /\ Head(op.todo) \in Tasks /\ op.kind \notin {"idle", "exit"}
      /\ Suits(op.kind, Head(op.todo).fn)
  BY HeadAndTail DEF SupervisorInv
<1>2. svc[This] \in Service /\ row[This] \in Service /\ op \in Operations
  BY <1>1 DEF SupervisorInv, SupervisorTypeOK
<1>3. op.new \in Ids \union {None} /\ svc[This].owner \in Ids \union {None}
  BY <1>2 DEF Operations, Service
<1>4. Sound(svc[This]) /\ Sound(row[This])
  BY <1>1 DEF SupervisorInv, CopiesSound
<1> QED BY <1>1, <1>2, <1>3, <1>4, SupervisorConstants

\* The attempts stay counted, also when this step makes one.
LEMMA CountStep ==
  ASSUME SupervisorInv, op.todo # <<>>, Remember, NEW q, Becomes(q), SameMemory(op')
  PROVE  TriesCounted'
<1>1. This \in Services /\ svc[This] \in Service /\ row[This] \in Service
  BY Typed
<1>2. svc \in [Services -> Service] /\ row \in [Services -> Service]
  BY DEF SupervisorInv, SupervisorTypeOK
<1>3. svc' \in [Services -> Service] /\ row' \in [Services -> Service]
  BY <1>1, <1>2 DEF Becomes
<1>4. svc'[This] = q /\ row'[This] \in {row[This], q} /\ q \in Service
  BY <1>1, <1>2 DEF Becomes
<1>5. \A s \in Services \ {This} : svc'[s] = svc[s] /\ row'[s] = row[s]
  BY <1>1, <1>2 DEF Becomes
<1>6. \A s \in Services : /\ tries[s] \in Nat /\ (svc[s].window # "open" => tries[s] = 0)
                          /\ Counts(svc[s], tries[s]) /\ Counts(row[s], tries[s])
  BY DEF SupervisorInv, SupervisorTypeOK, TriesCounted
<1>7. CASE NoAttempt
  <2>1. Counts(q, tries[This])
    <3>1. tries[This] \in Nat /\ q.count \in Nat /\ svc[This].count \in Nat
      BY <1>1, <1>4, <1>6 DEF Service
    <3> QED BY <1>1, <1>6, <3>1 DEF Counts, Becomes
  <2>2. \A s \in Services : Counts(svc'[s], tries[s]) /\ Counts(row'[s], tries[s])
    BY <1>4, <1>5, <1>6, <2>1
  <2>3. op'.kind \in Reloading =>
          op'.old \in [Services -> Service] /\ \A s \in Services : Counts(op'.old[s], tries[s])
    BY DEF SupervisorInv, Proper, SameMemory, TriesCounted
  <2> QED BY <1>3, <1>7, <2>2, <2>3, TriesStep
<1>8. CASE ~NoAttempt
  <2>1. /\ op'.kind \notin Reloading /\ op.kind = "sweep" /\ Head(op.todo).fn = "start"
        /\ op.at = "create"
    BY <1>8 DEF NoAttempt, SameMemory, Reloading, At
  <2>2. /\ svc[This].count <= MaxRestarts
        /\ Counts(svc[This], tries[This] + 1) /\ Counts(row[This], tries[This] + 1)
    BY <2>1 DEF SupervisorInv, AttemptCounted
  <2>3. q.window = svc[This].window /\ q.count = svc[This].count
    BY <1>8 DEF Becomes
  <2>4. Counts(q, tries[This] + 1)
    BY <2>2, <2>3 DEF Counts
  <2> SUFFICES ASSUME NEW s \in Services
               PROVE  /\ tries'[s] <= MaxRestarts
                      /\ svc'[s].window # "open" => tries'[s] = 0
                      /\ Counts(svc'[s], tries'[s]) /\ Counts(row'[s], tries'[s])
    BY <2>1 DEF TriesCounted
  <2>5. /\ tries'[s] \in Nat /\ tries[s] \in Nat /\ MaxRestarts \in Nat
        /\ svc'[s].window # "open" => tries'[s] = 0
        /\ s # This => tries'[s] <= tries[s]
        /\ tries'[s] <= tries[s] + 1
    BY <1>3, <1>6, Remembers, SupervisorConstants
  <2>6. svc'[s] \in Service /\ row'[s] \in Service
    BY <1>3
  <2>7. CASE s = This
    <3>1. Counts(svc'[s], tries[s] + 1) /\ Counts(row'[s], tries[s] + 1)
      BY <1>4, <2>2, <2>4, <2>7
    <3>2. \A r \in Service : Counts(r, tries[s] + 1) => Counts(r, tries'[s])
      BY <2>5 DEF Counts, Service
    <3>3. svc'[s].window = "open" => tries'[s] <= svc'[s].count
      BY <2>6, <3>1, <3>2 DEF Counts
    <3>4. svc'[s].count <= MaxRestarts /\ svc'[s].count \in Nat
      BY <1>4, <2>2, <2>3, <2>6, <2>7 DEF Service
    <3> QED BY <2>5, <2>6, <3>1, <3>2, <3>3, <3>4
  <2>8. CASE s # This
    <3>1. \A r \in Service : Counts(r, tries[s]) => Counts(r, tries'[s])
      BY <2>5, <2>8 DEF Counts, Service
    <3>2. Counts(svc'[s], tries[s]) /\ Counts(row'[s], tries[s]) /\ tries[s] <= MaxRestarts
      BY <1>5, <1>6, <2>8 DEF SupervisorInv, TriesCounted
    <3> QED BY <2>5, <2>6, <2>8, <3>1, <3>2
  <2> QED BY <2>7, <2>8
<1> QED BY <1>7, <1>8

\* The parts of the invariant that do not depend on where the operation is.
LEMMA CallStep ==
  ASSUME SupervisorInv, op.todo # <<>>, Remember, NEW q, Becomes(q), Fades,
         op' \in Operations, SameMemory(op'),
         \A i \in Ids : i = op.new /\ i # op'.new =>
           agent'[i] = "Stopped" \/ (row'[This].owner = i /\ q.owner = i)
  PROVE  SupervisorTypeOK' /\ Tracked' /\ CopiesSound' /\ TriesCounted'
<1>1. /\ This \in Services /\ svc[This] \in Service /\ row[This] \in Service
      /\ op.new \in Ids \union {None} /\ None \notin Ids /\ op.kind # "exit"
      /\ svc[This].owner \in Ids \union {None}
  BY Typed
<1>2. svc \in [Services -> Service] /\ row \in [Services -> Service]
  BY DEF SupervisorInv, SupervisorTypeOK
<1>3. svc' \in [Services -> Service] /\ row' \in [Services -> Service]
  BY <1>1, <1>2 DEF Becomes
<1>4. svc'[This] = q /\ row'[This] \in {row[This], q} /\ q \in Service
  BY <1>1, <1>2 DEF Becomes
<1>5. \A s \in Services \ {This} : svc'[s] = svc[s] /\ row'[s] = row[s]
  BY <1>1, <1>2 DEF Becomes
<1>6. SupervisorTypeOK'
  BY <1>3, TypeStep DEF Fades, SupervisorInv, SupervisorTypeOK
<1>7. Tracked'
  <2>1. \A s \in Services : KeepsOwner(s)
    <3> TAKE s \in Services
    <3>1. CASE s = This
      BY <1>4, <3>1 DEF KeepsOwner, Becomes
    <3>2. CASE s # This
      BY <1>5, <3>2 DEF KeepsOwner
    <3> QED BY <3>1, <3>2
  <2>2. \A i \in Ids : made'[i] = made[i] /\ (Alive(i)' => Alive(i))
    BY DEF Fades, Alive, Live
  <2>3. ASSUME NEW i \in Ids, i = op.new, i # op'.new
        PROVE  ~Alive(i)' \/ (row'[made[i]].owner = i /\ svc'[made[i]].owner = i)
    <3>1. made[i] = This
      BY <1>1, <2>3 DEF SupervisorInv, NewFits
    <3>2. agent'[i] = "Stopped" => ~Alive(i)'
      BY DEF Alive, Live
    <3> QED BY <1>4, <2>3, <3>1, <3>2
  <2> QED BY <1>1, <2>1, <2>2, <2>3, TrackedStep DEF Fades
<1>8. \A i \in Ids : agent'[i] = "Missing" => agent[i] = "Missing"
  BY DEF Fades
<1>9. CopiesSound'
  <2>1. \A s \in Services : Sound(svc'[s]) /\ Sound(row'[s])
    BY <1>4, <1>5 DEF Becomes, SupervisorInv, CopiesSound
  <2>2. ASSUME NEW s \in Services
        PROVE  svc'[s].owner \in {svc[s].owner, None} \/ agent'[svc'[s].owner] # "Missing"
    <3>1. CASE s # This
      BY <1>5, <3>1
    <3>2. CASE s = This /\ q.owner = op.new /\ op.new # None
      <4>1. agent[op.new] # "Missing" /\ op.new \in Ids
        BY <1>1, <3>2 DEF SupervisorInv, NewFits
      <4> QED BY <1>4, <1>8, <3>2, <4>1
    <3>3. CASE s = This /\ (q.owner # op.new \/ op.new = None)
      BY <1>4, <3>3 DEF Becomes
    <3> QED BY <3>1, <3>2, <3>3
  <2> QED BY <1>3, <1>8, <2>1, <2>2, CopiesStep
<1>10. TriesCounted'
  BY CountStep
<1> QED BY <1>6, <1>7, <1>9, <1>10

\* The call ends with this step.
LEMMA CallEnds ==
  ASSUME SupervisorInv, op.todo # <<>>, Remember, NEW q, Becomes(q), Fades,
         Ok \/ Skip \/ Err \/ (Between(op') /\ SameMemory(op')),
         \A i \in Ids : i = op.new => agent'[i] = "Stopped" \/ (row'[This].owner = i /\ q.owner = i)
  PROVE  SupervisorInv'
<1>1. Between(op') /\ SameMemory(op')
  BY Returns, Fails DEF SupervisorInv
<1>2. op' \in Operations
  BY <1>1 DEF Between, Proper
<1>3. SupervisorTypeOK' /\ Tracked' /\ CopiesSound' /\ TriesCounted'
  BY <1>1, <1>2, CallStep
<1> QED BY <1>1, <1>3, Stands DEF SupervisorInv

Early == {"begin", "clean", "cleaned", "mark", "create"}

\* The call goes on at another place.
LEMMA CallGoesOn ==
  ASSUME SupervisorInv, op.todo # <<>>, Remember, NEW q, Becomes(q), Fades,
         NEW place \in StartPlaces \union StopPlaces \union CheckPlaces, Goto(place),
         \A i \in Ids : i = op.new => agent'[i] # "Loose",
         op.new # None => place \in {"ready", "kill", "killed"},
         Head(op.todo).fn = "start" /\ place \in Early =>
           /\ op.at \in Early \ {"create"}
           /\ q.count = svc[This].count /\ q.window = svc[This].window,
         PlaceFits'
  PROVE  SupervisorInv'
<1>1. /\ This \in Services /\ svc[This] \in Service /\ row[This] \in Service /\ op \in Operations
      /\ op.new \in Ids \union {None} /\ op.kind # "exit" /\ None \notin Ids
  BY Typed
<1>2. /\ op' \in Operations /\ op'.kind = op.kind /\ op'.todo = op.todo /\ op'.at = place
      /\ op'.new = op.new /\ op'.old = op.old /\ op'.done = op.done
  BY <1>1 DEF Goto, Operations
<1>3. SameMemory(op')
  BY <1>2 DEF SameMemory
<1>4. SupervisorTypeOK' /\ Tracked' /\ CopiesSound' /\ TriesCounted'
  BY <1>2, <1>3, CallStep
<1>5. Proper(op)'
  BY <1>2 DEF SupervisorInv, Proper, Suits
<1>6. This' = This /\ \A s \in Services \ {This} : row'[s] = row[s]
  BY <1>1, <1>2 DEF This, Becomes, SupervisorInv, SupervisorTypeOK
<1>7. NewFits'
  <2> SUFFICES ASSUME op'.new # None
               PROVE  /\ op'.todo # <<>> /\ Head(op'.todo).fn = "start"
                      /\ op'.at \in {"created", "ready", "kill", "killed"}
                      /\ made'[op'.new] = This'
                      /\ agent'[op'.new] \in {"Running", "Paused", "Stopped"}
                      /\ \A s \in Services \ {This'} : row'[s].owner # op'.new
    BY DEF NewFits
  <2>1. /\ op.new \in Ids /\ Head(op.todo).fn = "start"
        /\ made[op.new] = This /\ agent[op.new] \in {"Running", "Paused", "Stopped"}
        /\ \A s \in Services \ {This} : row[s].owner # op.new
    BY <1>1, <1>2 DEF SupervisorInv, NewFits
  <2>2. agent'[op.new] \in {"Running", "Paused", "Stopped"} /\ made' = made
    BY <2>1 DEF Fades
  <2> QED BY <1>2, <1>6, <2>1, <2>2
<1>8. AttemptCounted'
  <2> SUFFICES ASSUME op.kind = "sweep", Head(op.todo).fn = "start", place \in Early
               PROVE  /\ svc'[This].count <= MaxRestarts
                      /\ Counts(svc'[This], tries'[This] + 1) /\ Counts(row'[This], tries'[This] + 1)
    BY <1>2, <1>6 DEF AttemptCounted, Early
  <2>1. op.at \in Early \ {"create"} /\ q.count = svc[This].count /\ q.window = svc[This].window
    OBVIOUS
  <2>2. /\ svc[This].count <= MaxRestarts
        /\ Counts(svc[This], tries[This] + 1) /\ Counts(row[This], tries[This] + 1)
    BY <2>1 DEF SupervisorInv, AttemptCounted, Early
  <2>3. svc'[This] = q /\ row'[This] \in {row[This], q} /\ q \in Service
    BY <1>1 DEF Becomes, SupervisorInv, SupervisorTypeOK
  <2>4. NoAttempt /\ svc' \in [Services -> Service]
    BY <1>4, <2>1 DEF NoAttempt, At, SupervisorTypeOK
  <2>5. tries'[This] <= tries[This] /\ tries'[This] \in Nat /\ tries[This] \in Nat
    BY <1>1, <2>4, Remembers DEF SupervisorInv, SupervisorTypeOK
  <2>6. Counts(q, tries[This] + 1)
    BY <2>1, <2>2 DEF Counts
  <2>7. \A r \in Service : Counts(r, tries[This] + 1) => Counts(r, tries'[This] + 1)
    BY <2>5 DEF Counts, Service
  <2> QED BY <1>1, <2>1, <2>2, <2>3, <2>6, <2>7
<1> QED BY <1>4, <1>5, <1>7, <1>8 DEF SupervisorInv

\* A step that leaves the service as it is.
LEMMA AsBefore ==
  ASSUME SupervisorInv, op.todo # <<>>, UNCHANGED <<svc, row>>
  PROVE  Becomes(svc[This])
<1>1. /\ This \in Services /\ svc[This] \in Service /\ Sound(svc[This])
      /\ svc \in [Services -> Service]
  BY Typed DEF SupervisorInv, SupervisorTypeOK
<1>2. svc' = [svc EXCEPT ![This] = svc[This]]
  BY <1>1
<1>3. svc[This].count <= svc[This].count
  BY <1>1 DEF Service
<1> QED BY <1>1, <1>2, <1>3 DEF Becomes

\* A transition that keeps the owner, the count and the window.
LEMMA Remarked ==
  ASSUME SupervisorInv, op.todo # <<>>, NEW q, Remarks(svc[This], q), Save(This, q) \/ Mark(This, q)
  PROVE  Becomes(q) /\ svc'[This] = q
<1>1. /\ This \in Services /\ svc[This] \in Service /\ Sound(svc[This])
      /\ svc \in [Services -> Service]
  BY Typed DEF SupervisorInv, SupervisorTypeOK
<1>2. Sound(q)
  BY <1>1 DEF Sound, Remarks, Statuses
<1>3. svc[This].count <= svc[This].count
  BY <1>1 DEF Service
<1> QED BY <1>1, <1>2, <1>3 DEF Becomes, Save, Mark, Remarks

\* A transition that forgets an owner that has ended.
LEMMA Cleared ==
  ASSUME SupervisorInv, op.todo # <<>>, Gone(This),
         NEW q, Clears(svc[This], q), Save(This, q) \/ Mark(This, q)
  PROVE  Becomes(q) /\ svc'[This] = q
<1>1. /\ This \in Services /\ svc[This] \in Service /\ Sound(svc[This])
      /\ svc \in [Services -> Service]
  BY Typed DEF SupervisorInv, SupervisorTypeOK
<1>2. Sound(q)
  BY <1>1 DEF Sound, Clears
<1>3. svc[This].count <= svc[This].count
  BY <1>1 DEF Service
<1> QED BY <1>1, <1>2, <1>3 DEF Becomes, Save, Mark, Clears

\* A transition that may also open a window or count a restart.
LEMMA Advanced ==
  ASSUME SupervisorInv, op.todo # <<>>, NoAttempt,
         NEW q \in Service, Sound(q), Save(This, q) \/ Mark(This, q),
         q.owner = svc[This].owner \/ (q.owner = None /\ Gone(This)),
         svc[This].window = "open" /\ q.window = "open" => svc[This].count <= q.count
  PROVE  Becomes(q) /\ svc'[This] = q
<1>1. This \in Services /\ svc \in [Services -> Service]
  BY Typed DEF SupervisorInv, SupervisorTypeOK
<1> QED BY <1>1 DEF Becomes, Save, Mark

\* A step that touches no agent.
LEMMA AgentsStay ==
  ASSUME SupervisorInv, UNCHANGED <<agent, made, orphans, files>>, UNCHANGED events \/ Event
  PROVE  Fades
<1>1. events \in Nat /\ agent \in [Ids -> States]
  BY DEF SupervisorInv, SupervisorTypeOK
<1> QED BY <1>1 DEF Fades, Event

\* A step that stops one agent.
LEMMA AgentStops ==
  ASSUME SupervisorInv, UNCHANGED <<made, orphans, files>>, NEW i \in Ids,
         SetAgent(i, "Stopped"), UNCHANGED events
  PROVE  Fades /\ agent'[i] = "Stopped"
<1>1. events \in Nat /\ agent \in [Ids -> States]
  BY DEF SupervisorInv, SupervisorTypeOK
<1> QED BY <1>1 DEF Fades, SetAgent, States

\* A stop that fails touches no agent.
LEMMA AgentDoesNotStop ==
  ASSUME SupervisorInv, UNCHANGED <<made, orphans, files>>, NEW i, StopFails(i)
  PROVE  Fades
<1>1. UNCHANGED <<agent, made, orphans, files>> /\ (UNCHANGED events \/ Event)
  BY DEF StopFails
<1> QED BY <1>1, AgentsStay

\* Going to another place of a call keeps everything else of the operation.
LEMMA Goes ==
  ASSUME SupervisorInv, op.todo # <<>>, NEW place, Goto(place)
  PROVE  /\ op'.todo = op.todo /\ op'.at = place /\ op'.new = op.new /\ This' = This
         /\ op'.kind = op.kind
<1>1. op \in Operations
  BY Typed
<1> QED BY <1>1 DEF Goto, This, Operations

\* Outside a start, and at its first places, no agent is new.
LEMMA NothingNew ==
  ASSUME SupervisorInv,
         op.todo = <<>> \/ Head(op.todo).fn # "start"
           \/ op.at \notin {"created", "ready", "kill", "killed"}
  PROVE  op.new = None /\ \A i \in Ids : i # op.new
  BY SupervisorConstants DEF SupervisorInv, NewFits

-----------------------------------------------------------------------------
(* start_service_inner.                                                    *)

\* The invariant is kept by Examine: the first look at a service that is to
\* start.
LEMMA StepExamine ==
  ASSUME SupervisorInv, Remember, Examine
  PROVE  SupervisorInv'
<1> DEFINE r == svc[This]
           up == Available(This) /\ r.owner # None /\ agent[r.owner] = "Running"
<1>1. /\ op.todo # <<>> /\ Head(op.todo).fn = "start" /\ op.at = "begin"
      /\ UNCHANGED <<agent, made, orphans, events, files>>
  BY DEF Examine, At
<1>2. r \in Service /\ op.new = None /\ (\A i \in Ids : i # op.new) /\ Fades
  BY <1>1, Typed, NothingNew, AgentsStay
<1>3. CASE ~RequiredReady(This) /\ Save(This, Blocked(r)) /\ Err
  <2>1. Becomes(Blocked(r))
    BY <1>1, <1>2, <1>3, Remarking, Remarked
  <2> QED BY <1>1, <1>2, <1>3, <2>1, CallEnds
<1>4. CASE RequiredReady(This) /\ up /\ Ok /\ UNCHANGED <<svc, row>>
  <2>1. Becomes(svc[This])
    BY <1>1, <1>4, AsBefore
  <2> QED BY <1>1, <1>2, <1>4, <2>1, CallEnds
<1>5. CASE /\ RequiredReady(This) /\ ~up /\ Goto(IF r.owner = None THEN "mark" ELSE "clean")
           /\ UNCHANGED <<svc, row>>
  <2> DEFINE place == IF r.owner = None THEN "mark" ELSE "clean"
  <2>1. Becomes(svc[This])
    BY <1>1, <1>5, AsBefore
  <2>2. Goto(place)
    BY <1>5
  <2>3. PlaceFits'
    <3>1. op'.todo = op.todo /\ op'.at = place /\ op'.new = op.new /\ This' = This
      BY <1>1, <2>2, Goes
    <3>2. svc' = svc
      BY <1>5
    <3> QED BY <1>1, <3>1, <3>2 DEF PlaceFits, StartPlaces
  <2>4. place \in Early /\ place \in StartPlaces
    BY DEF Early, StartPlaces
  <2> HIDE DEF place
  <2> QED BY <1>1, <1>2, <2>1, <2>2, <2>3, <2>4, CallGoesOn DEF Early
<1> QED BY <1>3, <1>4, <1>5 DEF Examine

\* The invariant is kept by CleanOwner: stopping an owner left from before.
LEMMA StepCleanOwner ==
  ASSUME SupervisorInv, Remember, CleanOwner
  PROVE  SupervisorInv'
<1>1. /\ op.todo # <<>> /\ Head(op.todo).fn = "start" /\ op.at = "clean"
      /\ UNCHANGED <<svc, row, made, orphans, files>>
  BY DEF CleanOwner, At
<1>2. op.new = None /\ (\A i \in Ids : i # op.new) /\ svc[This].owner \in Ids
  BY <1>1, Typed, NothingNew DEF SupervisorInv, PlaceFits
<1>3. Becomes(svc[This])
  BY <1>1, AsBefore
<1>4. CASE StopSucceeds(svc[This].owner) /\ Goto("cleaned")
  <2>1. Fades /\ agent'[svc[This].owner] = "Stopped"
    BY <1>1, <1>2, <1>4, AgentStops DEF StopSucceeds
  <2>2. PlaceFits'
    <3>1. op'.todo = op.todo /\ op'.at = "cleaned" /\ op'.new = op.new /\ This' = This
      BY <1>1, <1>4, Goes
    <3>2. svc' = svc
      BY <1>1
    <3> QED BY <1>1, <2>1, <3>1, <3>2 DEF PlaceFits, StartPlaces, Gone
  <2> QED BY <1>1, <1>2, <1>3, <1>4, <2>1, <2>2, CallGoesOn DEF Early, StartPlaces
<1>5. CASE StopFails(svc[This].owner) /\ Err
  <2>1. Fades
    BY <1>1, <1>5, AgentDoesNotStop
  <2> QED BY <1>1, <1>2, <1>3, <1>5, <2>1, CallEnds
<1> QED BY <1>4, <1>5 DEF CleanOwner

\* The invariant is kept by OwnerCleaned: forgetting the owner that was
\* stopped.
LEMMA StepOwnerCleaned ==
  ASSUME SupervisorInv, Remember, OwnerCleaned
  PROVE  SupervisorInv'
<1> DEFINE q == ClearForRestart(svc[This])
<1>1. /\ op.todo # <<>> /\ Head(op.todo).fn = "start" /\ op.at = "cleaned"
      /\ UNCHANGED <<agent, made, orphans, events, files>>
      /\ Save(This, q) /\ Goto("mark")
  BY DEF OwnerCleaned, At
<1>2. op.new = None /\ (\A i \in Ids : i # op.new) /\ Fades /\ Gone(This)
  BY <1>1, NothingNew, AgentsStay DEF SupervisorInv, PlaceFits
<1>3. Clears(svc[This], q)
  BY <1>1, Typed, Clearing
<1> HIDE DEF q
<1>4. Becomes(q) /\ svc'[This] = q
  BY <1>1, <1>2, <1>3, Cleared
<1>5. PlaceFits'
  <2>1. op'.todo = op.todo /\ op'.at = "mark" /\ op'.new = op.new /\ This' = This
    BY <1>1, Goes
  <2> QED BY <1>1, <1>3, <1>4, <2>1 DEF PlaceFits, StartPlaces, Clears
<1> QED BY <1>1, <1>2, <1>3, <1>4, <1>5, CallGoesOn DEF Early, StartPlaces, Clears

\* The invariant is kept by Starting: mark_starting and its row.
LEMMA StepStarting ==
  ASSUME SupervisorInv, Remember, Starting
  PROVE  SupervisorInv'
<1> DEFINE q == MarkStarting(svc[This])
<1>1. /\ op.todo # <<>> /\ Head(op.todo).fn = "start" /\ op.at = "mark"
      /\ UNCHANGED <<agent, made, orphans, events, files>>
      /\ Save(This, q) /\ Goto("create")
  BY DEF Starting, At
<1>2. op.new = None /\ (\A i \in Ids : i # op.new) /\ Fades /\ svc[This].owner = None
  BY <1>1, NothingNew, AgentsStay DEF SupervisorInv, PlaceFits
<1>3. Remarks(svc[This], q)
  BY <1>1, Typed, Remarking
<1> HIDE DEF q
<1>4. Becomes(q) /\ svc'[This] = q
  BY <1>1, <1>2, <1>3, Remarked
<1>5. PlaceFits'
  <2>1. op'.todo = op.todo /\ op'.at = "create" /\ op'.new = op.new /\ This' = This
    BY <1>1, Goes
  <2> QED BY <1>1, <1>2, <1>3, <1>4, <2>1 DEF PlaceFits, StartPlaces, Remarks
<1> QED BY <1>1, <1>2, <1>3, <1>4, <1>5, CallGoesOn DEF Early, StartPlaces, Remarks

\* The name that is chosen for a new agent is not in use.
LEMMA NewAgentUnused ==
  ASSUME \E i \in Ids : Unused(i)
  PROVE  NewAgent \in Ids /\ Unused(NewAgent)
<1> DEFINE free == {i \in Ids : Unused(i)}
<1>1. free \in SUBSET Nat /\ free # {}
  BY SupervisorConstants
<1> HIDE DEF free
<1>2. \E m \in free : \A j \in free : m <= j
  BY <1>1, LeastNatural
<1>3. \E i \in Ids : Unused(i) /\ \A j \in Ids : Unused(j) => i <= j
  BY <1>2 DEF free
<1> HIDE DEF Unused
<1> QED BY <1>3 DEF NewAgent

\* The invariant is kept by Create: create_agent_grouped; at an attempt of the
\* sweep the ghost count rises.
LEMMA StepCreate ==
  ASSUME SupervisorInv, Remember, Create
  PROVE  SupervisorInv'
<1>1. /\ op.todo # <<>> /\ Head(op.todo).fn = "start" /\ op.at = "create"
      /\ UNCHANGED <<orphans, files>>
  BY DEF Create, At
<1>2. /\ op.new = None /\ (\A i \in Ids : i # op.new) /\ svc[This].owner = None
      /\ This \in Services /\ svc[This] \in Service /\ op \in Operations
      /\ op.kind # "exit" /\ None \notin Ids
  BY <1>1, NothingNew, Typed DEF SupervisorInv, PlaceFits
<1>3. /\ agent \in [Ids -> States] /\ made \in [Ids -> Services] /\ events \in Nat
      /\ svc \in [Services -> Service] /\ row \in [Services -> Service]
      /\ files \in [Services -> 1..2] /\ orphans \in SUBSET Ids
  BY DEF SupervisorInv, SupervisorTypeOK
<1>4. CASE /\ \E i \in Ids : Unused(i)
           /\ SetAgent(NewAgent, "Running") /\ made' = [made EXCEPT ![NewAgent] = This]
           /\ op' = [op EXCEPT !.at = "created", !.new = NewAgent]
           /\ UNCHANGED <<svc, row, events>>
  <2>1. PICK n \in Ids : n = NewAgent /\ Unused(n)
    BY <1>4, NewAgentUnused
  <2>2. /\ agent' = [agent EXCEPT ![n] = "Running"] /\ made' = [made EXCEPT ![n] = This]
        /\ op' = [op EXCEPT !.at = "created", !.new = n]
    BY <1>4, <2>1 DEF SetAgent
  <2>3. /\ op' \in Operations /\ op'.kind = op.kind /\ op'.todo = op.todo /\ op'.at = "created"
        /\ op'.new = n /\ op'.old = op.old /\ This' = This
    BY <1>2, <2>2 DEF Operations, StartPlaces, This
  <2>4. SameMemory(op') /\ Proper(op)'
    BY <2>3 DEF SameMemory, SupervisorInv, Proper, Suits
  <2>5. agent' \in [Ids -> States] /\ made' \in [Ids -> Services]
    BY <1>2, <1>3, <2>2 DEF States
  <2>6. SupervisorTypeOK'
    BY <1>1, <1>3, <1>4, <2>3, <2>5, TypeStep
  <2>7. \A i \in Ids : i = n \/ (made'[i] = made[i] /\ agent'[i] = agent[i])
    BY <1>3, <2>2
  <2>8. Tracked'
    <3>1. \A s \in Services : KeepsOwner(s)
      BY <1>4 DEF KeepsOwner
    <3>2. \A i \in Ids : i = op'.new \/ (made'[i] = made[i] /\ (Alive(i)' => Alive(i)))
      BY <2>3, <2>7 DEF Alive, Live
    <3> QED BY <1>1, <1>2, <3>1, <3>2, TrackedStep
  <2>9. CopiesSound'
    <3>1. \A s \in Services : Sound(svc'[s]) /\ Sound(row'[s])
      BY <1>4 DEF SupervisorInv, CopiesSound
    <3>2. \A i \in Ids : agent'[i] = "Missing" => agent[i] = "Missing"
      BY <1>3, <2>2
    <3>3. \A s \in Services : svc'[s].owner \in {svc[s].owner, None}
      BY <1>4
    <3> QED BY <1>3, <1>4, <2>4, <3>1, <3>2, <3>3, CopiesStep
  <2>10. TriesCounted'
    BY <1>1, <1>4, <2>4, AsBefore, CountStep
  <2>11. PlaceFits'
    BY <1>1, <1>2, <1>4, <2>3 DEF PlaceFits, StartPlaces
  <2>12. NewFits'
    <3>1. \A s \in Services : row'[s].owner # n
      BY <1>4, <2>1 DEF Unused
    <3>2. made'[n] = This /\ agent'[n] = "Running"
      BY <1>3, <2>2
    <3> QED BY <1>1, <2>3, <3>1, <3>2 DEF NewFits
  <2>13. AttemptCounted'
    BY <2>3 DEF AttemptCounted
  <2> QED BY <2>4, <2>6, <2>8, <2>9, <2>10, <2>11, <2>12, <2>13 DEF SupervisorInv
<1>5. CASE /\ Event /\ Save(This, MarkFailed(svc[This])) /\ Err
           /\ \/ UNCHANGED agent
              \/ \E i \in Ids : Unused(i) /\ SetAgent(NewAgent, "Loose")
           /\ UNCHANGED made
  <2>1. Becomes(MarkFailed(svc[This]))
    BY <1>1, <1>2, <1>5, Remarking, Remarked
  <2>2. agent' = agent \/ agent' = [agent EXCEPT ![NewAgent] = "Loose"]
    BY <1>5 DEF SetAgent
  <2>3. Fades
    <3>1. agent' \in [Ids -> States] /\ \A i \in Ids : agent'[i] \in {agent[i], "Stopped", "Loose"}
      BY <1>3, <2>2 DEF States
    <3>2. UNCHANGED <<made, orphans, files>> /\ events' \in Nat
      BY <1>1, <1>3, <1>5 DEF Event
    <3> QED BY <3>1, <3>2 DEF Fades
  <2> QED BY <1>1, <1>2, <1>5, <2>1, <2>3, CallEnds
<1> QED BY <1>4, <1>5 DEF Create

\* The invariant is kept by Started: mark_started and its row.
LEMMA StepStarted ==
  ASSUME SupervisorInv, Remember, Started
  PROVE  SupervisorInv'
<1> DEFINE q == MarkStarted(svc[This], op.new)
<1>1. /\ op.todo # <<>> /\ Head(op.todo).fn = "start" /\ op.at = "created"
      /\ UNCHANGED <<agent, made, orphans, files>>
  BY DEF Started, At
<1>2. /\ svc[This].owner = None /\ op.new # None /\ This \in Services
      /\ svc[This] \in Service /\ op.new \in Ids
  BY <1>1, Typed DEF SupervisorInv, PlaceFits
<1>3. agent[op.new] \in {"Running", "Paused", "Stopped"}
  BY <1>2 DEF SupervisorInv, NewFits
<1>4. CASE Save(This, q) /\ Goto("ready") /\ UNCHANGED events
  <2>1. /\ q \in Service /\ q.owner = op.new /\ q.count = svc[This].count
        /\ q.window = svc[This].window /\ q.next = "none" /\ q.status = "Running"
    BY <1>2, BecomesRunning
  <2> HIDE DEF q
  <2>2. /\ svc' = [svc EXCEPT ![This] = q] /\ row' = [row EXCEPT ![This] = q]
        /\ svc \in [Services -> Service] /\ row \in [Services -> Service]
    BY <1>4 DEF Save, SupervisorInv, SupervisorTypeOK
  <2>3. Becomes(q) /\ svc'[This] = q /\ row'[This] = q
    <3>1. svc[This].count <= q.count
      BY <1>2, <2>1 DEF Service
    <3>2. Sound(q) /\ Gone(This)
      BY <1>2, <2>1 DEF Sound, Gone
    <3> QED BY <1>2, <2>1, <2>2, <3>1, <3>2 DEF Becomes
  <2>4. Fades
    BY <1>1, <1>4, AgentsStay
  <2>5. PlaceFits'
    <3>1. op'.todo = op.todo /\ op'.at = "ready" /\ op'.new = op.new /\ This' = This
      BY <1>1, <1>4, Goes
    <3> QED BY <1>1, <1>2, <2>1, <2>3, <3>1 DEF PlaceFits, StartPlaces
  <2>6. agent' = agent
    BY <1>1
  <2> QED BY <1>1, <1>3, <1>4, <2>3, <2>4, <2>5, <2>6, CallGoesOn DEF StartPlaces, Early
<1>5. CASE Event /\ Goto("kill") /\ UNCHANGED <<svc, row>>
  <2>1. Becomes(svc[This]) /\ Fades
    BY <1>1, <1>5, AsBefore, AgentsStay
  <2>2. PlaceFits'
    <3>1. op'.todo = op.todo /\ op'.at = "kill" /\ op'.new = op.new /\ This' = This
      BY <1>1, <1>5, Goes
    <3> QED BY <1>1, <1>2, <1>5, <3>1 DEF PlaceFits, StartPlaces
  <2> QED BY <1>1, <1>3, <1>5, <2>1, <2>2, CallGoesOn DEF StartPlaces, Early
<1> QED BY <1>4, <1>5 DEF Started

\* The invariant is kept by Ready: readiness.
LEMMA StepReady ==
  ASSUME SupervisorInv, Remember, Ready
  PROVE  SupervisorInv'
<1> DEFINE q == MarkReady(svc[This])
<1>1. /\ op.todo # <<>> /\ Head(op.todo).fn = "start" /\ op.at = "ready"
      /\ UNCHANGED <<agent, made, orphans, files>>
  BY DEF Ready, At
<1>2. /\ svc[This].owner = op.new /\ op.new # None /\ This \in Services
      /\ svc[This] \in Service /\ op.new \in Ids /\ row \in [Services -> Service]
  BY <1>1, Typed DEF SupervisorInv, PlaceFits, SupervisorTypeOK
<1>3. agent[op.new] \in {"Running", "Paused", "Stopped"}
  BY <1>2 DEF SupervisorInv, NewFits
<1>4. CASE agent[op.new] = "Running" /\ Save(This, q) /\ Ok /\ UNCHANGED events
  <2>1. Remarks(svc[This], q)
    BY <1>2, Remarking
  <2> HIDE DEF q
  <2>2. Becomes(q) /\ Fades
    BY <1>1, <1>4, <2>1, Remarked, AgentsStay
  <2>3. row'[This].owner = op.new /\ q.owner = op.new
    BY <1>2, <1>4, <2>1 DEF Save, Remarks
  <2> QED BY <1>1, <1>4, <2>2, <2>3, CallEnds
<1>5. CASE Goto("kill") /\ UNCHANGED <<svc, row>> /\ (UNCHANGED events \/ Event)
  <2>1. Becomes(svc[This]) /\ Fades
    BY <1>1, <1>5, AsBefore, AgentsStay
  <2>2. PlaceFits'
    <3>1. op'.todo = op.todo /\ op'.at = "kill" /\ op'.new = op.new /\ This' = This
      BY <1>1, <1>5, Goes
    <3> QED BY <1>1, <1>2, <1>5, <3>1 DEF PlaceFits, StartPlaces
  <2> QED BY <1>1, <1>3, <1>5, <2>1, <2>2, CallGoesOn DEF StartPlaces, Early
<1> QED BY <1>4, <1>5 DEF Ready

\* The invariant is kept by KillNew: fail_service_start kills the new agent.
LEMMA StepKillNew ==
  ASSUME SupervisorInv, Remember, KillNew
  PROVE  SupervisorInv'
<1>1. /\ op.todo # <<>> /\ Head(op.todo).fn = "start" /\ op.at = "kill"
      /\ SetAgent(op.new, "Stopped") /\ Goto("killed")
      /\ UNCHANGED <<svc, row, made, orphans, events, files>>
  BY DEF KillNew, At
<1>2. svc[This].owner \in {None, op.new} /\ op.new # None /\ op.new \in Ids
  BY <1>1, Typed DEF SupervisorInv, PlaceFits
<1>3. Becomes(svc[This]) /\ Fades /\ agent'[op.new] = "Stopped"
  BY <1>1, <1>2, AsBefore, AgentStops
<1>4. PlaceFits'
  <2>1. op'.todo = op.todo /\ op'.at = "killed" /\ op'.new = op.new /\ This' = This
    BY <1>1, Goes
  <2> QED BY <1>1, <1>2, <1>3, <2>1 DEF PlaceFits, StartPlaces
<1> QED BY <1>1, <1>3, <1>4, CallGoesOn DEF StartPlaces, Early

\* The invariant is kept by FailStart: fail_service_start records the failure.
LEMMA StepFailStart ==
  ASSUME SupervisorInv, Remember, FailStart
  PROVE  SupervisorInv'
<1> DEFINE f == MarkFailed(svc[This])
           q == ClearInstance(f)
<1>1. /\ op.todo # <<>> /\ Head(op.todo).fn = "start" /\ op.at = "killed"
      /\ Save(This, q) /\ Err
      /\ UNCHANGED <<agent, made, orphans, events, files>>
  BY DEF FailStart, At
<1>2. /\ svc[This].owner \in {None, op.new} /\ agent[op.new] = "Stopped"
      /\ svc[This] \in Service /\ op.new \in Ids
  BY <1>1, Typed DEF SupervisorInv, PlaceFits
<1>3. Remarks(svc[This], f)
  BY <1>2, Remarking
<1> HIDE DEF f
<1>4. Clears(f, q)
  BY <1>3, Clearing DEF Remarks
<1> HIDE DEF q
<1>5. Clears(svc[This], q)
  BY <1>3, <1>4 DEF Remarks, Clears
<1>6. Becomes(q) /\ Fades
  <2>1. Gone(This)
    BY <1>2 DEF Gone
  <2> QED BY <1>1, <1>5, <2>1, Cleared, AgentsStay
<1> QED BY <1>1, <1>2, <1>6, CallEnds

-----------------------------------------------------------------------------
(* stop_service_inner.                                                     *)

\* The invariant is kept by Stopping: mark_stopping and its row.
LEMMA StepStopping ==
  ASSUME SupervisorInv, Remember, Stopping
  PROVE  SupervisorInv'
<1> DEFINE r == svc[This]
<1>1. /\ op.todo # <<>> /\ Head(op.todo).fn = "stop" /\ op.at = "begin"
      /\ UNCHANGED <<agent, made, orphans, events, files>>
  BY DEF Stopping, At
<1>2. /\ r \in Service /\ op.new = None /\ (\A i \in Ids : i # op.new) /\ Fades /\ Sound(r)
      /\ Head(op.todo).keep \in BOOLEAN
  BY <1>1, Typed, NothingNew, AgentsStay DEF Tasks
<1>3. CASE r.status = "Inactive" /\ Save(This, MarkStopped(r, Head(op.todo).keep)) /\ Ok
  <2>1. Gone(This)
    BY <1>2, <1>3 DEF Gone, Sound
  <2>2. Becomes(MarkStopped(r, Head(op.todo).keep))
    BY <1>1, <1>2, <1>3, <2>1, Clearing, Cleared
  <2> QED BY <1>1, <1>2, <1>3, <2>2, CallEnds
<1>4. CASE /\ r.status # "Inactive" /\ Save(This, MarkStopping(r))
           /\ Goto(IF r.owner = None THEN "halted" ELSE "halt")
  <2> DEFINE place == IF r.owner = None THEN "halted" ELSE "halt"
             q == MarkStopping(r)
  <2>1. Remarks(r, q) /\ Goto(place) /\ Save(This, q)
    BY <1>2, <1>4, Remarking
  <2> HIDE DEF q
  <2>2. Becomes(q) /\ svc'[This] = q
    BY <1>1, <2>1, Remarked
  <2>3. PlaceFits'
    <3>1. op'.todo = op.todo /\ op'.at = place /\ This' = This
      BY <1>1, <2>1, Goes
    <3> QED BY <1>1, <2>1, <2>2, <3>1 DEF PlaceFits, StopPlaces, Gone, Remarks
  <2>4. place \in StopPlaces
    BY DEF StopPlaces
  <2> HIDE DEF place
  <2> QED BY <1>1, <1>2, <2>1, <2>2, <2>3, <2>4, CallGoesOn
<1> QED BY <1>3, <1>4 DEF Stopping

\* The invariant is kept by Halt: stopping the owner.
LEMMA StepHalt ==
  ASSUME SupervisorInv, Remember, Halt
  PROVE  SupervisorInv'
<1>1. /\ op.todo # <<>> /\ Head(op.todo).fn = "stop" /\ op.at = "halt"
      /\ UNCHANGED <<made, orphans, files>>
  BY DEF Halt, At
<1>2. /\ op.new = None /\ (\A i \in Ids : i # op.new) /\ svc[This].owner \in Ids
      /\ svc[This] \in Service
  BY <1>1, Typed, NothingNew DEF SupervisorInv, PlaceFits, StopPlaces
<1>3. CASE StopSucceeds(svc[This].owner) /\ Goto("halted") /\ UNCHANGED <<svc, row>>
  <2>1. Becomes(svc[This])
    BY <1>1, <1>3, AsBefore
  <2>2. Fades /\ agent'[svc[This].owner] = "Stopped"
    BY <1>1, <1>2, <1>3, AgentStops DEF StopSucceeds
  <2>3. PlaceFits'
    <3>1. op'.todo = op.todo /\ op'.at = "halted" /\ This' = This
      BY <1>1, <1>3, Goes
    <3>2. svc' = svc
      BY <1>3
    <3> QED BY <1>1, <2>2, <3>1, <3>2 DEF PlaceFits, StopPlaces, Gone
  <2> QED BY <1>1, <1>2, <1>3, <2>1, <2>2, <2>3, CallGoesOn DEF StopPlaces
<1>4. CASE StopFails(svc[This].owner) /\ Save(This, MarkFailed(svc[This])) /\ Err
  <2>1. Fades
    BY <1>1, <1>4, AgentDoesNotStop
  <2>2. Becomes(MarkFailed(svc[This]))
    BY <1>1, <1>2, <1>4, Remarking, Remarked
  <2> QED BY <1>1, <1>2, <1>4, <2>1, <2>2, CallEnds
<1> QED BY <1>3, <1>4 DEF Halt

\* The invariant is kept by Halted: mark_stopped and its row.
LEMMA StepHalted ==
  ASSUME SupervisorInv, Remember, Halted
  PROVE  SupervisorInv'
<1>1. /\ op.todo # <<>> /\ Head(op.todo).fn = "stop" /\ op.at = "halted"
      /\ Save(This, MarkStopped(svc[This], Head(op.todo).keep)) /\ Ok
      /\ UNCHANGED <<agent, made, orphans, events, files>>
  BY DEF Halted, At
<1>2. /\ svc[This] \in Service /\ op.new = None /\ (\A i \in Ids : i # op.new) /\ Fades
      /\ Head(op.todo).keep \in BOOLEAN /\ Gone(This)
  BY <1>1, Typed, NothingNew, AgentsStay DEF Tasks, SupervisorInv, PlaceFits
<1>3. Becomes(MarkStopped(svc[This], Head(op.todo).keep))
  BY <1>1, <1>2, Clearing, Cleared
<1> QED BY <1>1, <1>2, <1>3, CallEnds

-----------------------------------------------------------------------------
(* service_supervisor_sweep.                                               *)

\* Two such transitions in a row are one.
LEMMA RemarksTwice ==
  ASSUME NEW r, NEW f, NEW g, Remarks(r, f), Remarks(f, g)
  PROVE  Remarks(r, g)
  BY DEF Remarks, Statuses

\* A restart is scheduled within the limit, in the window that is open.
LEMMA Rescheduled ==
  ASSUME SupervisorInv, op.todo # <<>>, Head(op.todo).fn # "start",
         NEW f, Remarks(svc[This], f), NEW q, q = ScheduleRestart(This, f),
         Save(This, q) \/ Mark(This, q)
  PROVE  Becomes(q) /\ svc'[This] = q /\ q.owner = svc[This].owner
<1>1. This \in Services /\ svc[This] \in Service /\ Sound(svc[This]) /\ f \in Service
  BY Typed DEF Remarks
<1>2. /\ q \in Service /\ q.owner = f.owner
      /\ q.status \in {f.status, "Restarting"}
      /\ f.window = "open" => q.window = "open" /\ q.count = f.count
      /\ q.next # "none" => q.count < MaxRestarts \/ (q.next = f.next /\ q.count = f.count)
  BY <1>1, Scheduling
<1>3. Sound(q)
  BY <1>1, <1>2 DEF Sound, Remarks, Statuses
<1>4. svc[This].window = "open" /\ q.window = "open" => svc[This].count <= q.count
  BY <1>1, <1>2 DEF Remarks, Service
<1>5. q.owner = svc[This].owner
  BY <1>2 DEF Remarks
<1>6. NoAttempt
  BY DEF NoAttempt, At
<1> QED BY <1>2, <1>3, <1>4, <1>5, <1>6, Advanced

\* The invariant is kept by Depend: stopping the dependents of what failed.
LEMMA StepDepend ==
  ASSUME SupervisorInv, Remember, Depend
  PROVE  SupervisorInv'
<1> DEFINE todo == <<Task("stop", This, TRUE), Task("block", This, TRUE)>>
<1>1. /\ op.todo # <<>> /\ Head(op.todo).fn = "depend"
      /\ Instead(todo) \/ Skip
      /\ UNCHANGED <<svc, row, agent, made, orphans, events, files>>
  BY DEF Depend, At
<1>2. (\A i \in Ids : i # op.new) /\ Fades /\ Becomes(svc[This]) /\ This \in Services
  BY <1>1, Typed, NothingNew, AgentsStay, AsBefore
<1>3. todo \in Seq(Tasks) /\ AllSuit(op.kind, todo)
  <2>1. /\ Task("stop", This, TRUE) \in Tasks /\ Task("stop", This, TRUE).fn = "stop"
        /\ Task("block", This, TRUE) \in Tasks /\ Task("block", This, TRUE).fn = "block"
    BY <1>2 DEF Task, Tasks, Functions
  <2>2. todo \in Seq(Tasks) /\ \A i \in DOMAIN todo :
                                 todo[i] \in {Task("stop", This, TRUE), Task("block", This, TRUE)}
    BY <2>1, Pair
  <2> HIDE DEF todo
  <2>3. \A i \in DOMAIN todo : todo[i].fn \in {"stop", "block"}
    BY <2>1, <2>2
  <2> QED BY <2>2, <2>3 DEF AllSuit, Suits
<1> HIDE DEF todo
<1>4. CASE Instead(todo)
  <2>1. Between(op') /\ SameMemory(op')
    BY <1>1, <1>3, <1>4, Replaces DEF SupervisorInv
  <2> QED BY <1>1, <1>2, <2>1, CallEnds
<1>5. CASE Skip
  BY <1>1, <1>2, <1>5, CallEnds
<1> QED BY <1>1, <1>4, <1>5

\* The invariant is kept by Block: scheduling the restart of a dependent.
LEMMA StepBlock ==
  ASSUME SupervisorInv, Remember, Block
  PROVE  SupervisorInv'
<1> DEFINE f == Blocked(MarkFailed(svc[This]))
           q == ScheduleRestart(This, f)
<1>1. /\ op.todo # <<>> /\ Head(op.todo).fn = "block" /\ Save(This, q) /\ Skip
      /\ UNCHANGED <<agent, made, orphans, events, files>>
  BY DEF Block, At
<1>2. (\A i \in Ids : i # op.new) /\ Fades /\ svc[This] \in Service
  BY <1>1, Typed, NothingNew, AgentsStay
<1>3. Remarks(svc[This], f)
  <2>1. Remarks(svc[This], MarkFailed(svc[This]))
    BY <1>2, Remarking
  <2>2. Remarks(MarkFailed(svc[This]), f)
    BY <2>1, Remarking DEF Remarks
  <2> QED BY <2>1, <2>2, RemarksTwice
<1> HIDE DEF f
<1>4. Becomes(q)
  BY <1>1, <1>3, Rescheduled
<1> QED BY <1>1, <1>2, <1>4, CallEnds

\* The invariant is kept by Retry: scheduling again after a failed attempt.
LEMMA StepRetry ==
  ASSUME SupervisorInv, Remember, Retry
  PROVE  SupervisorInv'
<1> DEFINE f == MarkFailed(svc[This])
           q == ScheduleRestart(This, f)
<1>1. /\ op.todo # <<>> /\ Head(op.todo).fn = "retry" /\ Save(This, q) /\ Skip
      /\ UNCHANGED <<agent, made, orphans, events, files>>
  BY DEF Retry, At
<1>2. (\A i \in Ids : i # op.new) /\ Fades /\ svc[This] \in Service
  BY <1>1, Typed, NothingNew, AgentsStay
<1>3. Remarks(svc[This], f)
  BY <1>2, Remarking
<1> HIDE DEF f
<1>4. Becomes(q)
  BY <1>1, <1>3, Rescheduled
<1> QED BY <1>1, <1>2, <1>4, CallEnds

\* The invariant is kept by Check: the liveness check of a service.
LEMMA StepCheck ==
  ASSUME SupervisorInv, Remember, Check
  PROVE  SupervisorInv'
<1> DEFINE r == svc[This]
           failed == ScheduleRestart(This, MarkFailed(r))
           scheduled == ScheduleRestart(This, r)
<1>1. /\ op.todo # <<>> /\ Head(op.todo).fn = "check" /\ op.at = "begin"
      /\ UNCHANGED <<agent, made, orphans, events, files>>
  BY DEF Check, At
<1>2. op.new = None /\ (\A i \in Ids : i # op.new) /\ Fades /\ r \in Service
  BY <1>1, Typed, NothingNew, AgentsStay
<1>3. Remarks(r, r) /\ Remarks(r, MarkFailed(r)) /\ Remarks(r, MarkReady(r))
  BY <1>2, Remarking DEF Remarks
<1>4. CASE Skip /\ UNCHANGED <<svc, row>>
  BY <1>1, <1>2, <1>4, AsBefore, CallEnds
<1>5. CASE Save(This, MarkReady(r)) /\ Skip
  <2>1. Becomes(MarkReady(r))
    BY <1>1, <1>3, <1>5, Remarked
  <2> QED BY <1>1, <1>2, <1>5, <2>1, CallEnds
<1>6. CASE OwnerState(r) \in {"Paused", "Stopped"} /\ Mark(This, failed) /\ Goto("reap")
  <2>1. r.owner # None
    BY <1>6 DEF OwnerState
  <2>2. Becomes(failed) /\ svc'[This] = failed /\ failed.owner = r.owner
    BY <1>1, <1>3, <1>6, Rescheduled
  <2> HIDE DEF failed
  <2>3. PlaceFits'
    <3>1. op'.todo = op.todo /\ op'.at = "reap" /\ This' = This
      BY <1>1, <1>6, Goes
    <3> QED BY <1>1, <2>1, <2>2, <3>1 DEF PlaceFits, CheckPlaces
  <2> QED BY <1>1, <1>2, <1>6, <2>2, <2>3, CallGoesOn DEF CheckPlaces
<1>7. ASSUME Goto("due"), NEW q, Becomes(q)
      PROVE  SupervisorInv'
  <2>1. PlaceFits'
    <3>1. op'.todo = op.todo /\ op'.at = "due" /\ This' = This
      BY <1>1, <1>7, Goes
    <3> QED BY <1>1, <3>1 DEF PlaceFits, CheckPlaces
  <2> QED BY <1>1, <1>2, <1>7, <2>1, CallGoesOn DEF CheckPlaces
<1>8. CASE Save(This, failed) /\ Goto("due")
  <2>1. Becomes(failed)
    BY <1>1, <1>3, <1>8, Rescheduled
  <2> QED BY <1>7, <1>8, <2>1
<1>9. CASE (Save(This, scheduled) \/ Mark(This, scheduled)) /\ Goto("due")
  <2>1. Becomes(scheduled)
    BY <1>1, <1>3, <1>9, Rescheduled
  <2> QED BY <1>7, <1>9, <2>1
<1>10. CASE Goto("due") /\ UNCHANGED <<svc, row>>
  BY <1>1, <1>7, <1>10, AsBefore
<1>11. \/ Skip /\ UNCHANGED <<svc, row>>
       \/ Save(This, MarkReady(r)) /\ Skip
       \/ OwnerState(r) \in {"Paused", "Stopped"} /\ Mark(This, failed) /\ Goto("reap")
       \/ Save(This, failed) /\ Goto("due")
       \/ (Save(This, scheduled) \/ Mark(This, scheduled)) /\ Goto("due")
       \/ Goto("due") /\ UNCHANGED <<svc, row>>
  BY Zenon DEF Check
<1> QED BY <1>4, <1>5, <1>6, <1>8, <1>9, <1>10, <1>11

\* The invariant is kept by Reap: stopping an owner that does not run.
LEMMA StepReap ==
  ASSUME SupervisorInv, Remember, Reap
  PROVE  SupervisorInv'
<1>1. /\ op.todo # <<>> /\ Head(op.todo).fn = "check" /\ op.at = "reap"
      /\ UNCHANGED <<svc, row, made, orphans, files>>
  BY DEF Reap, At
<1>2. op.new = None /\ (\A i \in Ids : i # op.new) /\ svc[This].owner \in Ids /\ Becomes(svc[This])
  BY <1>1, Typed, NothingNew, AsBefore DEF SupervisorInv, PlaceFits
<1>3. CASE StopSucceeds(svc[This].owner) /\ Goto("reaped")
  <2>1. Fades /\ agent'[svc[This].owner] = "Stopped"
    BY <1>1, <1>2, <1>3, AgentStops DEF StopSucceeds
  <2>2. PlaceFits'
    <3>1. op'.todo = op.todo /\ op'.at = "reaped" /\ This' = This
      BY <1>1, <1>3, Goes
    <3>2. svc' = svc
      BY <1>1
    <3> QED BY <1>1, <2>1, <3>1, <3>2 DEF PlaceFits, CheckPlaces, Gone
  <2> QED BY <1>1, <1>2, <1>3, <2>1, <2>2, CallGoesOn DEF CheckPlaces
<1>4. CASE StopFails(svc[This].owner) /\ Err
  <2>1. Fades
    BY <1>1, <1>4, AgentDoesNotStop
  <2> QED BY <1>1, <1>2, <1>4, <2>1, CallEnds
<1> QED BY <1>3, <1>4 DEF Reap

\* The invariant is kept by Reaped: forgetting it.
LEMMA StepReaped ==
  ASSUME SupervisorInv, Remember, Reaped
  PROVE  SupervisorInv'
<1> DEFINE q == ClearInstance(svc[This])
<1>1. /\ op.todo # <<>> /\ Head(op.todo).fn = "check" /\ op.at = "reaped"
      /\ Save(This, q) /\ Goto("due")
      /\ UNCHANGED <<agent, made, orphans, events, files>>
  BY DEF Reaped, At
<1>2. /\ op.new = None /\ (\A i \in Ids : i # op.new) /\ Fades /\ Gone(This)
      /\ svc[This] \in Service
  BY <1>1, Typed, NothingNew, AgentsStay DEF SupervisorInv, PlaceFits
<1>3. Becomes(q)
  BY <1>1, <1>2, Clearing, Cleared
<1>4. PlaceFits'
  <2>1. op'.todo = op.todo /\ op'.at = "due" /\ This' = This
    BY <1>1, Goes
  <2> QED BY <1>1, <2>1 DEF PlaceFits, CheckPlaces
<1> HIDE DEF q
<1> QED BY <1>1, <1>2, <1>3, <1>4, CallGoesOn DEF CheckPlaces

\* A restart that was scheduled is put off.
LEMMA PutOff ==
  ASSUME SupervisorInv, op.todo # <<>>, svc[This].next # "none",
         NEW q, q = DeferRestart(svc[This]), Save(This, q)
  PROVE  Becomes(q)
<1>1. This \in Services /\ svc[This] \in Service /\ Sound(svc[This]) /\ svc \in [Services -> Service]
  BY Typed DEF SupervisorInv, SupervisorTypeOK
<1>2. /\ q \in Service /\ q.owner = svc[This].owner /\ q.count = svc[This].count
      /\ q.window = svc[This].window /\ q.status = "Restarting"
  BY <1>1, Deferring
<1>3. Sound(q) /\ svc[This].count <= q.count
  BY <1>1, <1>2 DEF Sound, Service
<1> QED BY <1>2, <1>3 DEF Becomes, Save

\* The invariant is kept by Due: a restart that is due.
LEMMA StepDue ==
  ASSUME SupervisorInv, Remember, Due
  PROVE  SupervisorInv'
<1> DEFINE r == svc[This]
<1>1. /\ op.todo # <<>> /\ Head(op.todo).fn = "check" /\ op.at = "due"
      /\ UNCHANGED <<agent, made, orphans, events, files>>
  BY DEF Due, At
<1>2. op.new = None /\ (\A i \in Ids : i # op.new) /\ Fades
  BY <1>1, NothingNew, AgentsStay
<1>3. CASE Skip /\ UNCHANGED <<svc, row>>
  BY <1>1, <1>2, <1>3, AsBefore, CallEnds
<1>4. CASE r.next = "due" /\ Save(This, DeferRestart(r)) /\ Skip
  <2>1. Becomes(DeferRestart(r))
    BY <1>1, <1>4, PutOff
  <2> QED BY <1>1, <1>2, <1>4, <2>1, CallEnds
<1>5. CASE r.next = "due" /\ UNCHANGED <<svc, row>> /\ Goto(IF r.owner = None THEN "attempt" ELSE "evict")
  <2> DEFINE place == IF r.owner = None THEN "attempt" ELSE "evict"
  <2>1. Becomes(svc[This]) /\ Goto(place)
    BY <1>1, <1>5, AsBefore
  <2>2. PlaceFits'
    <3>1. op'.todo = op.todo /\ op'.at = place /\ This' = This
      BY <1>1, <2>1, Goes
    <3>2. svc' = svc
      BY <1>5
    <3> QED BY <1>1, <1>5, <3>1, <3>2 DEF PlaceFits, CheckPlaces, Gone
  <2>3. place \in CheckPlaces
    BY DEF CheckPlaces
  <2> HIDE DEF place
  <2> QED BY <1>1, <1>2, <2>1, <2>2, <2>3, CallGoesOn
<1> QED BY <1>3, <1>4, <1>5 DEF Due

\* The invariant is kept by Evict: stopping what is left before a restart.
LEMMA StepEvict ==
  ASSUME SupervisorInv, Remember, Evict
  PROVE  SupervisorInv'
<1>1. /\ op.todo # <<>> /\ Head(op.todo).fn = "check" /\ op.at = "evict"
      /\ UNCHANGED <<made, orphans, files>>
  BY DEF Evict, At
<1>2. /\ op.new = None /\ (\A i \in Ids : i # op.new) /\ svc[This].owner \in Ids
      /\ svc[This].next # "none"
  BY <1>1, Typed, NothingNew DEF SupervisorInv, PlaceFits
<1>3. CASE StopSucceeds(svc[This].owner) /\ Goto("attempt") /\ UNCHANGED <<svc, row>>
  <2>1. Fades /\ agent'[svc[This].owner] = "Stopped" /\ Becomes(svc[This])
    BY <1>1, <1>2, <1>3, AgentStops, AsBefore DEF StopSucceeds
  <2>2. PlaceFits'
    <3>1. op'.todo = op.todo /\ op'.at = "attempt" /\ This' = This
      BY <1>1, <1>3, Goes
    <3>2. svc' = svc
      BY <1>3
    <3> QED BY <1>1, <1>2, <2>1, <3>1, <3>2 DEF PlaceFits, CheckPlaces, Gone
  <2> QED BY <1>1, <1>2, <1>3, <2>1, <2>2, CallGoesOn DEF CheckPlaces
<1>4. CASE StopFails(svc[This].owner) /\ Save(This, DeferRestart(svc[This])) /\ Skip
  <2>1. Fades /\ Becomes(DeferRestart(svc[This]))
    BY <1>1, <1>2, <1>4, AgentDoesNotStop, PutOff
  <2> QED BY <1>1, <1>2, <1>4, <2>1, CallEnds
<1> QED BY <1>3, <1>4 DEF Evict

\* The invariant is kept by Attempt: counting and recording a restart before it
\* is made.
LEMMA StepAttempt ==
  ASSUME SupervisorInv, Remember, Attempt
  PROVE  SupervisorInv'
<1> DEFINE c == ClearForRestart(svc[This])
           q == RecordRestart(c)
           todo == Starts(<<This>>) \o Tail(op.todo)
<1>1. /\ op.todo # <<>> /\ Head(op.todo).fn = "check" /\ op.at = "attempt"
      /\ Save(This, q) /\ op' = Continue(op, todo)
      /\ UNCHANGED <<agent, made, orphans, events, files>>
  BY DEF Attempt, At, Instead
<1>2. /\ op.new = None /\ (\A i \in Ids : i # op.new) /\ Fades /\ Gone(This)
      /\ svc[This] \in Service /\ svc[This].next # "none" /\ Sound(svc[This])
      /\ This \in Services /\ op \in Operations
      /\ Tail(op.todo) \in Seq(Tasks) /\ AllSuit(op.kind, Tail(op.todo))
  BY <1>1, Typed, NothingNew, AgentsStay, HeadAndTail DEF SupervisorInv, PlaceFits
<1>3. Clears(svc[This], c)
  BY <1>2, Clearing
<1> HIDE DEF c
<1>4. /\ q \in Service /\ q.owner = None /\ q.count = svc[This].count + 1
      /\ q.window = svc[This].window /\ q.next = "none" /\ q.status = "Restarting"
  BY <1>3, Recording DEF Clears
<1>5. svc[This].count < MaxRestarts /\ svc[This].count \in Nat /\ MaxRestarts \in Nat
  BY <1>2, SupervisorConstants DEF Sound, Service
<1> HIDE DEF q
<1>6. Becomes(q) /\ svc'[This] = q /\ row'[This] = q
  <2>1. Sound(q) /\ svc[This].count <= q.count /\ NoAttempt
    BY <1>1, <1>4, <1>5 DEF Sound, NoAttempt, At
  <2>2. row'[This] = q
    BY <1>1, <1>2 DEF Save, SupervisorInv, SupervisorTypeOK
  <2> QED BY <1>1, <1>2, <1>4, <2>1, <2>2, Advanced
<1>7. /\ todo \in Seq(Tasks) /\ todo # <<>> /\ Head(todo) = Task("start", This, FALSE)
      /\ \A i \in DOMAIN todo : /\ Suits(op.kind, todo[i].fn)
                                /\ op.kind = "sweep" /\ todo[i].fn = "start" => i = 1
  <2> DEFINE one == Starts(<<This>>)
             t == Task("start", This, FALSE)
  <2>1. t \in Tasks /\ t.fn = "start"
    BY <1>2 DEF Task, Tasks, Functions
  <2>2. one \in Seq(Tasks) /\ Len(one) = 1 /\ one[1] = t
    BY <1>2, StartsOne
  <2>3. todo = one \o Tail(op.todo)
    OBVIOUS
  <2> HIDE DEF one, t, todo
  <2>4. /\ todo \in Seq(Tasks) /\ todo # <<>> /\ Head(todo) = t /\ todo[1] = t /\ 1 \in DOMAIN todo
        /\ \A i \in DOMAIN todo : i # 1 =>
              i - 1 \in DOMAIN Tail(op.todo) /\ todo[i] = Tail(op.todo)[i - 1]
    BY <1>2, <2>2, <2>3, Prepended
  <2>6. \A i \in DOMAIN todo : i # 1 =>
          Suits(op.kind, todo[i].fn) /\ (op.kind = "sweep" => todo[i].fn # "start")
    BY <1>2, <2>4 DEF AllSuit
  <2>7. Suits(op.kind, todo[1].fn)
    BY <2>1, <2>4 DEF Suits
  <2> QED BY <2>4, <2>6, <2>7 DEF t
<1> HIDE DEF todo
<1>8. /\ op' \in Operations /\ op'.todo = todo /\ op'.at = "begin" /\ op'.new = None
      /\ op'.kind = op.kind /\ op'.old = op.old
  <2>1. op' = [op EXCEPT !.todo = todo, !.at = "begin", !.new = None]
    BY <1>1, <1>7 DEF Continue
  <2> QED BY <1>2, <1>7, <2>1 DEF Operations, StartPlaces
<1>9. SameMemory(op') /\ Proper(op)'
  <2>1. op.kind \notin {"idle", "exit"}
    BY <1>1, Typed
  <2> QED BY <1>7, <1>8, <2>1 DEF SameMemory, SupervisorInv, Proper, Suits
<1>10. SupervisorTypeOK' /\ Tracked' /\ CopiesSound' /\ TriesCounted'
  BY <1>1, <1>2, <1>6, <1>8, <1>9, CallStep
<1>11. This' = This /\ Head(op'.todo).fn = "start"
  BY <1>7, <1>8 DEF This, Task
<1>12. PlaceFits' /\ NewFits'
  BY <1>8, <1>11 DEF PlaceFits, NewFits, StartPlaces
<1>13. AttemptCounted'
  <2>1. NoAttempt /\ svc' \in [Services -> Service]
    BY <1>1, <1>10 DEF NoAttempt, At, SupervisorTypeOK
  <2>2. /\ tries'[This] <= tries[This] /\ tries'[This] \in Nat /\ tries[This] \in Nat
        /\ svc'[This].window # "open" => tries'[This] = 0
    BY <1>2, <2>1, Remembers DEF SupervisorInv, SupervisorTypeOK
  <2>3. svc[This].window = "open" => tries[This] <= svc[This].count
    BY <1>2 DEF SupervisorInv, TriesCounted, Counts
  <2>4. q.count <= MaxRestarts /\ Counts(q, tries'[This] + 1)
    BY <1>4, <1>5, <2>2, <2>3 DEF Counts
  <2> QED BY <1>6, <1>11, <2>4 DEF AttemptCounted
<1> QED BY <1>9, <1>10, <1>12, <1>13 DEF SupervisorInv

-----------------------------------------------------------------------------
(* Requests, and calls that change every service.                          *)

\* A step that keeps the owners, wherever the operation is afterwards.
LEMMA Passes ==
  ASSUME SupervisorInv, Remember, NoAttempt, op.kind # "exit", op.new = None, Fades,
         svc' \in [Services -> Service], row' \in [Services -> Service],
         Proper(op)', SameMemory(op'), PlaceFits', NewFits', AttemptCounted',
         \A s \in Services :
           /\ Sound(svc'[s]) /\ Sound(row'[s])
           /\ svc'[s].owner = svc[s].owner /\ row'[s].owner \in {row[s].owner, svc[s].owner}
           /\ Counts(svc'[s], tries[s]) /\ Counts(row'[s], tries[s])
  PROVE  SupervisorInv'
<1>1. SupervisorTypeOK'
  BY TypeStep DEF Fades, SupervisorInv, SupervisorTypeOK, Proper
<1>2. Tracked'
  <2>1. \A s \in Services : KeepsOwner(s)
    BY DEF KeepsOwner
  <2>2. \A i \in Ids : made'[i] = made[i] /\ (Alive(i)' => Alive(i)) /\ i # op.new
    BY SupervisorConstants DEF Fades, Alive, Live
  <2> QED BY <2>1, <2>2, TrackedStep DEF Fades
<1>3. CopiesSound'
  <2>1. \A i \in Ids : agent'[i] = "Missing" => agent[i] = "Missing"
    BY DEF Fades
  <2> QED BY <2>1, CopiesStep
<1>4. TriesCounted'
  <2>1. op'.kind \in Reloading =>
          op'.old \in [Services -> Service] /\ \A s \in Services : Counts(op'.old[s], tries[s])
    BY DEF SupervisorInv, Proper, SameMemory, TriesCounted
  <2> QED BY <2>1, TriesStep
<1> QED BY <1>1, <1>2, <1>3, <1>4 DEF SupervisorInv

\* What holds of the services when a step leaves them alone.
LEMMA Untouched ==
  ASSUME SupervisorInv, UNCHANGED <<svc, row>>
  PROVE  /\ svc' \in [Services -> Service] /\ row' \in [Services -> Service]
         /\ \A s \in Services :
              /\ Sound(svc'[s]) /\ Sound(row'[s])
              /\ svc'[s].owner = svc[s].owner /\ row'[s].owner \in {row[s].owner, svc[s].owner}
              /\ Counts(svc'[s], tries[s]) /\ Counts(row'[s], tries[s])
  BY DEF SupervisorInv, SupervisorTypeOK, CopiesSound, TriesCounted

\* Nobody holds the lock.
LEMMA Resting ==
  ASSUME SupervisorInv, op.kind \in {"idle", "exit"}
  PROVE  op.todo = <<>> /\ op.new = None /\ (\A i \in Ids : i # op.new) /\ NoAttempt
<1>1. op.todo = <<>>
  BY DEF SupervisorInv, Proper
<1> QED BY <1>1, NothingNew DEF NoAttempt

\* A new operation that remembers nothing stands before its first call.
LEMMA Opens ==
  ASSUME NEW kind \in Kinds \ ({"idle", "exit"} \union Reloading), NEW todo \in Seq(Tasks),
         AllSuit(kind, todo), op' = Operation(kind, todo)
  PROVE  Between(op') /\ SameMemory(op')
<1> DEFINE o == Operation(kind, todo)
<1>1. /\ o \in Operations /\ o.kind = kind /\ o.todo = todo
      /\ o.at = "begin" /\ o.new = None
  BY Begins
<1> HIDE DEF o
<1>2. Between(o) /\ o.kind \notin Reloading
  BY <1>1 DEF Between, Proper, AllSuit
<1> QED BY <1>2 DEF o, SameMemory

\* A request that changes no service yet.
LEMMA Requested ==
  ASSUME SupervisorInv, Remember, op.kind = "idle", UNCHANGED events \/ Event,
         NEW kind \in Kinds \ ({"idle", "exit"} \union Reloading), NEW todo \in Seq(Tasks),
         AllSuit(kind, todo), op' = Operation(kind, todo),
         UNCHANGED <<svc, row, files, agent, made, orphans>>
  PROVE  SupervisorInv'
<1>1. Between(op') /\ SameMemory(op')
  BY Opens
<1>2. Proper(op)' /\ PlaceFits' /\ NewFits' /\ AttemptCounted'
  BY <1>1, Stands
<1>3. op.new = None /\ NoAttempt /\ Fades
  BY Resting, AgentsStay
<1> QED BY <1>1, <1>2, <1>3, Untouched, Passes

\* The boot order and its reverse are lists of services.
LEMMA OrderTyped ==
  Order \in Seq(Services) /\ Reverse(Order) \in Seq(Services) /\ Order[1] \in Services
<1>1. Order \in Seq(Services) /\ Order # <<>>
  BY SupervisorConstants
<1>2. Order[1] \in Services
  BY <1>1
<1> QED BY <1>1, <1>2, ReverseType

\* Lists of the services of a set.
LEMMA ListTyped ==
  ASSUME NEW names
  PROVE  Backwards(names) \in Seq(Services) /\ Forwards(names) \in Seq(Services)
<1>1. Order \in Seq(Services) /\ Reverse(Order) \in Seq(Services)
  BY OrderTyped
<1> QED BY <1>1, AmongType DEF Backwards, Forwards

\* The invariant is kept by Sweep: a sweep begins.
LEMMA StepSweep ==
  ASSUME SupervisorInv, Remember, Sweep
  PROVE  SupervisorInv'
<1> DEFINE a == Calls("depend", Reverse(Order))
           b == Calls("check", Order)
<1>1. /\ a \in Seq(Tasks) /\ b \in Seq(Tasks)
      /\ AllSuit("sweep", a) /\ AllSuit("sweep", b)
  BY OrderTyped, CallsType DEF AllSuit, Suits
<1>2. /\ op.kind = "idle" /\ op' = Operation("sweep", a \o b)
      /\ UNCHANGED <<svc, row, agent, made, orphans, events, files>>
  BY DEF Sweep
<1> HIDE DEF a, b
<1>3. a \o b \in Seq(Tasks) /\ AllSuit("sweep", a \o b)
  BY <1>1, Concatenated
<1>4. "sweep" \in Kinds \ ({"idle", "exit"} \union Reloading)
  BY DEF Kinds, Reloading
<1> QED BY <1>2, <1>3, <1>4, Requested

\* The invariant is kept by Shutdown: a shutdown begins.
LEMMA StepShutdown ==
  ASSUME SupervisorInv, Remember, Shutdown
  PROVE  SupervisorInv'
<1> DEFINE a == Stops(Reverse(Order), {})
           b == <<Task("agents", Order[1], FALSE)>>
<1>1. /\ a \in Seq(Tasks) /\ b \in Seq(Tasks)
      /\ AllSuit("shutdown", a) /\ AllSuit("shutdown", b)
  <2>1. a \in Seq(Tasks) /\ AllSuit("shutdown", a)
    BY OrderTyped, StopsType DEF AllSuit, Suits
  <2>2. b \in Seq(Tasks) /\ AllSuit("shutdown", b)
    BY OrderTyped, Single DEF Suits, Functions
  <2> QED BY <2>1, <2>2
<1>2. /\ op.kind = "idle" /\ op' = Operation("shutdown", a \o b) /\ Event
      /\ UNCHANGED <<svc, row, files, agent, made, orphans>>
  BY DEF Shutdown, Request
<1> HIDE DEF a, b
<1>3. a \o b \in Seq(Tasks) /\ AllSuit("shutdown", a \o b)
  BY <1>1, Concatenated
<1>4. "shutdown" \in Kinds \ ({"idle", "exit"} \union Reloading)
  BY DEF Kinds, Reloading
<1> QED BY <1>2, <1>3, <1>4, Requested

\* The invariant is kept by StopService: stop_service begins.
LEMMA StepStopService ==
  ASSUME SupervisorInv, Remember, NEW s \in Services, StopService(s)
  PROVE  SupervisorInv'
<1> DEFINE a == Stops(Backwards(DependentsOf(s)), {})
<1>1. a \in Seq(Tasks) /\ AllSuit("stop", a)
  BY ListTyped, StopsType DEF AllSuit, Suits
<1>2. /\ op.kind = "idle" /\ op' = Operation("stop", a) /\ Event
      /\ UNCHANGED <<svc, row, files, agent, made, orphans>>
  BY DEF StopService, Request
<1> HIDE DEF a
<1>3. "stop" \in Kinds \ ({"idle", "exit"} \union Reloading)
  BY DEF Kinds, Reloading
<1> QED BY <1>1, <1>2, <1>3, Requested

\* The invariant is kept by RestartService: restart_service begins.
LEMMA StepRestartService ==
  ASSUME SupervisorInv, Remember, NEW s \in Services, RestartService(s)
  PROVE  SupervisorInv'
<1> DEFINE wanted == {d \in DependentsOf(s) : d = s \/ svc[d].desired}
           a == Stops(Backwards(DependentsOf(s)), wanted)
           b == Calls("again", Backwards(wanted))
           c == Starts(Forwards(wanted))
<1>1. /\ op.kind = "idle" /\ op' = Operation("restart", a \o b \o c) /\ Event
      /\ UNCHANGED <<svc, row, files, agent, made, orphans>>
  BY DEF RestartService, Request
<1> HIDE DEF wanted
<1>2. /\ a \in Seq(Tasks) /\ b \in Seq(Tasks) /\ c \in Seq(Tasks)
      /\ AllSuit("restart", a) /\ AllSuit("restart", b) /\ AllSuit("restart", c)
  BY ListTyped, StopsType, CallsType, StartsType DEF AllSuit, Suits
<1> HIDE DEF a, b, c
<1>3. a \o b \in Seq(Tasks) /\ AllSuit("restart", a \o b)
  BY <1>2, Concatenated
<1>4. a \o b \o c \in Seq(Tasks) /\ AllSuit("restart", a \o b \o c)
  BY <1>2, <1>3, Concatenated
<1>5. "restart" \in Kinds \ ({"idle", "exit"} \union Reloading)
  BY DEF Kinds, Reloading
<1> QED BY <1>1, <1>4, <1>5, Requested

\* The invariant is kept by StartService: start_service begins, with a fresh
\* budget after a failure.
LEMMA StepStartService ==
  ASSUME SupervisorInv, Remember, NEW s \in Services, StartService(s)
  PROVE  SupervisorInv'
<1> DEFINE a == Starts(<<s>>)
           q == ResetBudget(svc[s])
<1>1. /\ op.kind = "idle" /\ op' = Operation("start", a) /\ Event
      /\ svc' = [svc EXCEPT ![s] = q] \/ svc' = svc
      /\ UNCHANGED <<row, files, agent, made, orphans>>
  BY DEF StartService, Request
<1>2. a \in Seq(Tasks) /\ AllSuit("start", a)
  <2>1. <<s>> \in Seq(Services)
    OBVIOUS
  <2> QED BY <2>1, StartsType DEF AllSuit, Suits
<1>3. "start" \in Kinds \ ({"idle", "exit"} \union Reloading)
  BY DEF Kinds, Reloading
<1> HIDE DEF a
<1>4. Between(op') /\ SameMemory(op')
  BY <1>1, <1>2, <1>3, Opens
<1>5. Proper(op)' /\ PlaceFits' /\ NewFits' /\ AttemptCounted'
  BY <1>4, Stands
<1>6. op.new = None /\ NoAttempt /\ Fades
  BY <1>1, Resting, AgentsStay
<1>7. /\ q \in Service /\ q.owner = svc[s].owner /\ q.window = "none" /\ q.next = "none"
      /\ q.status = svc[s].status
  BY Resetting DEF SupervisorInv, SupervisorTypeOK
<1> HIDE DEF q
<1>8. /\ svc \in [Services -> Service] /\ row \in [Services -> Service]
      /\ \A x \in Services : /\ Sound(svc[x]) /\ Sound(row[x])
                              /\ Counts(svc[x], tries[x]) /\ Counts(row[x], tries[x])
  BY DEF SupervisorInv, SupervisorTypeOK, CopiesSound, TriesCounted
<1>9. Sound(q) /\ Counts(q, tries[s])
  BY <1>7, <1>8 DEF Sound, Counts
<1>10. svc' \in [Services -> Service] /\ \A x \in Services : svc'[x] = svc[x] \/ (x = s /\ svc'[x] = q)
  BY <1>1, <1>7, <1>8
<1>11. /\ row' \in [Services -> Service]
       /\ \A x \in Services :
            /\ Sound(svc'[x]) /\ Sound(row'[x])
            /\ svc'[x].owner = svc[x].owner /\ row'[x].owner \in {row[x].owner, svc[x].owner}
            /\ Counts(svc'[x], tries[x]) /\ Counts(row'[x], tries[x])
  BY <1>1, <1>7, <1>8, <1>9, <1>10
<1> QED BY <1>1, <1>4, <1>5, <1>6, <1>10, <1>11, Passes

\* The invariant is kept by Again: a restart the operator asked for.
LEMMA StepAgain ==
  ASSUME SupervisorInv, Remember, Again
  PROVE  SupervisorInv'
<1> DEFINE f == ResetBudget(svc[This])
           q == RecordRestart(f)
<1>1. /\ op.todo # <<>> /\ Head(op.todo).fn = "again" /\ Save(This, q) /\ Skip
      /\ UNCHANGED <<agent, made, orphans, events, files>>
  BY DEF Again, At
<1>2. (\A i \in Ids : i # op.new) /\ Fades /\ svc[This] \in Service
  BY <1>1, Typed, NothingNew, AgentsStay
<1>3. f \in Service /\ f.owner = svc[This].owner /\ f.window = "none"
  BY <1>2, Resetting
<1> HIDE DEF f
<1>4. /\ q \in Service /\ q.owner = svc[This].owner /\ q.window = "none" /\ q.next = "none"
      /\ q.status = "Restarting"
  BY <1>3, Recording
<1> HIDE DEF q
<1>5. Sound(q) /\ NoAttempt
  BY <1>1, <1>4 DEF Sound, NoAttempt, At
<1>6. Becomes(q)
  BY <1>1, <1>4, <1>5, Advanced
<1> QED BY <1>1, <1>2, <1>6, CallEnds

\* The invariant is kept by Record: a reload writes every row.
LEMMA StepRecord ==
  ASSUME SupervisorInv, Remember, Record
  PROVE  SupervisorInv'
<1>1. /\ op.todo # <<>> /\ Head(op.todo).fn = "record" /\ row' = svc /\ Skip
      /\ UNCHANGED <<svc, agent, made, orphans, events, files>>
  BY DEF Record, At
<1>2. op.new = None /\ Fades /\ NoAttempt /\ op.kind # "exit"
  BY <1>1, Typed, NothingNew, AgentsStay DEF NoAttempt, At
<1>3. Between(op') /\ SameMemory(op')
  BY <1>1, Returns DEF SupervisorInv
<1>4. Proper(op)' /\ PlaceFits' /\ NewFits' /\ AttemptCounted'
  BY <1>3, Stands
<1>5. /\ svc' \in [Services -> Service] /\ row' \in [Services -> Service]
      /\ \A s \in Services :
           /\ Sound(svc'[s]) /\ Sound(row'[s])
           /\ svc'[s].owner = svc[s].owner /\ row'[s].owner \in {row[s].owner, svc[s].owner}
           /\ Counts(svc'[s], tries[s]) /\ Counts(row'[s], tries[s])
  BY <1>1 DEF SupervisorInv, SupervisorTypeOK, CopiesSound, TriesCounted
<1> QED BY <1>2, <1>3, <1>4, <1>5, Passes

\* The invariant is kept by StopAgents: a shutdown stops the agents that are
\* left.
LEMMA StepStopAgents ==
  ASSUME SupervisorInv, Remember, StopAgents
  PROVE  SupervisorInv'
<1>1. /\ op.todo # <<>> /\ Head(op.todo).fn = "agents" /\ Skip
      /\ agent' = [i \in Ids |-> IF Live(i) \/ agent[i] = "Loose" THEN "Stopped" ELSE agent[i]]
      /\ UNCHANGED <<svc, row, made, orphans, events, files>>
  BY DEF StopAgents, At
<1>2. /\ \A i \in Ids : i # op.new
      /\ Becomes(svc[This]) /\ agent \in [Ids -> States] /\ events \in Nat
  BY <1>1, NothingNew, AsBefore DEF SupervisorInv, SupervisorTypeOK
<1>3. Fades
  BY <1>1, <1>2 DEF Fades, States
<1> QED BY <1>1, <1>2, <1>3, CallEnds

\* The invariant is kept by Boot: the next service of a boot.
LEMMA StepBoot ==
  ASSUME SupervisorInv, Remember, Boot
  PROVE  SupervisorInv'
<1> DEFINE one == Starts(<<This>>)
<1>1. /\ op.todo # <<>> /\ Head(op.todo).fn = "boot" /\ (Skip \/ Instead(one))
      /\ UNCHANGED <<svc, row, agent, made, orphans, events, files>>
  BY DEF Boot, At
<1>2. /\ \A i \in Ids : i # op.new
      /\ Becomes(svc[This]) /\ Fades /\ This \in Services /\ op.kind = "boot"
  BY <1>1, NothingNew, AsBefore, AgentsStay, Typed DEF Suits
<1>3. one \in Seq(Tasks) /\ AllSuit(op.kind, one)
  <2>1. <<This>> \in Seq(Services)
    BY <1>2
  <2> QED BY <1>2, <2>1, StartsType DEF AllSuit, Suits
<1> HIDE DEF one
<1>4. CASE Skip
  BY <1>1, <1>2, <1>4, CallEnds
<1>5. CASE Instead(one)
  <2>1. Between(op') /\ SameMemory(op')
    BY <1>1, <1>3, <1>5, Replaces DEF SupervisorInv
  <2> QED BY <1>1, <1>2, <2>1, CallEnds
<1> QED BY <1>1, <1>4, <1>5

\* The invariant is kept by Reload: a reload begins and remembers the states.
LEMMA StepReload ==
  ASSUME SupervisorInv, Remember, Reload
  PROVE  SupervisorInv'
<1> DEFINE changed == {s \in Services : svc[s].revision # files[s]}
           affected == UNION {DependentsOf(s) : s \in changed}
           a == Stops(Backwards(affected), {})
           b == <<Task("publish", Order[1], FALSE)>>
           o == Operation("reload", a \o b)
<1>1. /\ op.kind = "idle" /\ op' = [o EXCEPT !.old = svc] /\ Event
      /\ UNCHANGED <<svc, row, files, agent, made, orphans>>
  BY DEF Reload, Request
<1> HIDE DEF affected
<1>2. a \in Seq(Tasks) /\ AllSuit("reload", a)
  BY ListTyped, StopsType DEF AllSuit, Suits
<1>3. b \in Seq(Tasks) /\ AllSuit("reload", b)
  BY OrderTyped, Single DEF Suits, Functions
<1> HIDE DEF a, b
<1>4. a \o b \in Seq(Tasks) /\ AllSuit("reload", a \o b)
  BY <1>2, <1>3, Concatenated
<1>5. /\ o \in Operations /\ o.kind = "reload" /\ o.todo = a \o b
      /\ o.at = "begin" /\ o.new = None
  <2>1. "reload" \in Kinds
    BY DEF Kinds, Reloading
  <2> QED BY <1>4, <2>1, Begins
<1> HIDE DEF o
<1>6. /\ svc \in [Services -> Service] /\ row \in [Services -> Service]
      /\ files \in [Services -> 1..2] /\ made \in [Ids -> Services] /\ orphans \in SUBSET Ids
  BY DEF SupervisorInv, SupervisorTypeOK
<1>7. /\ op' \in Operations /\ op'.kind = "reload" /\ op'.todo = a \o b
      /\ op'.at = "begin" /\ op'.new = None /\ op'.old = svc
  BY <1>1, <1>5, <1>6 DEF Operations
<1>8. Between(op')
  BY <1>4, <1>6, <1>7 DEF Between, Proper, AllSuit
<1>9. op.new = None /\ (\A i \in Ids : i # op.new) /\ NoAttempt /\ Fades
  BY <1>1, Resting, AgentsStay
<1>10. SupervisorTypeOK'
  BY <1>1, <1>6, <1>7, <1>9, TypeStep DEF Fades
<1>11. Tracked'
  <2>1. \A s \in Services : KeepsOwner(s)
    BY <1>1 DEF KeepsOwner
  <2>2. \A i \in Ids : made'[i] = made[i] /\ (Alive(i)' => Alive(i))
    BY <1>9 DEF Fades, Alive, Live
  <2> QED BY <1>1, <1>9, <2>1, <2>2, TrackedStep
<1>12. CopiesSound'
  <2>1. \A s \in Services : Sound(svc[s]) /\ Sound(row[s])
    BY DEF SupervisorInv, CopiesSound
  <2>2. svc' = svc /\ row' = row
    BY <1>1
  <2> QED BY <1>7, <2>1, <2>2 DEF CopiesSound
<1>13. TriesCounted'
  <2>1. \A s \in Services : Counts(svc[s], tries[s]) /\ Counts(row[s], tries[s])
    BY DEF SupervisorInv, TriesCounted
  <2> QED BY <1>1, <1>6, <1>7, <1>9, <2>1, TriesStep
<1> QED BY <1>8, <1>10, <1>11, <1>12, <1>13, Stands DEF SupervisorInv

\* The invariant is kept by Publish: a reload publishes the definitions.
LEMMA StepPublish ==
  ASSUME SupervisorInv, Remember, Publish
  PROVE  SupervisorInv'
<1> DEFINE rolled == {s \in Range(op.done) : op.old[s].desired}
           a == Starts(Forwards(rolled))
           b == <<Task("record", Order[1], FALSE)>>
           Revised(s) == [svc[s] EXCEPT !.revision = files[s]]
<1>1. /\ op.todo # <<>> /\ Head(op.todo).fn = "publish" /\ op.at = "begin"
      /\ svc' = [s \in Services |-> Revised(s)]
      /\ op' = [op EXCEPT !.kind = "rollout", !.done = <<>>, !.todo = a \o b]
      /\ UNCHANGED <<row, agent, made, orphans, events, files>>
  BY DEF Publish, At
<1> HIDE DEF rolled
<1>2. a \in Seq(Tasks) /\ AllSuit("rollout", a)
  BY ListTyped, StartsType DEF AllSuit, Suits
<1>3. b \in Seq(Tasks) /\ AllSuit("rollout", b)
  BY OrderTyped, Single DEF Suits, Functions
<1> HIDE DEF a, b
<1>4. a \o b \in Seq(Tasks) /\ AllSuit("rollout", a \o b)
  BY <1>2, <1>3, Concatenated
<1>5. op \in Operations /\ op.kind = "reload" /\ op.new = None /\ Fades /\ NoAttempt
  BY <1>1, Typed, NothingNew, AgentsStay DEF Suits, NoAttempt, At
<1>6. /\ op' \in Operations /\ op'.kind = "rollout" /\ op'.todo = a \o b
      /\ op'.at = "begin" /\ op'.new = None /\ op'.old = op.old
  <2> DEFINE todo == a \o b
  <2>1. todo \in Seq(Tasks) /\ <<>> \in Seq(Services) /\ "rollout" \in Kinds
    BY <1>4 DEF Kinds, Reloading
  <2>2. op' = [op EXCEPT !.kind = "rollout", !.done = <<>>, !.todo = todo]
    BY <1>1
  <2> HIDE DEF todo
  <2>3. op' \in Operations
    BY <1>5, <2>1, <2>2 DEF Operations
  <2>4. /\ op'.kind = "rollout" /\ op'.todo = todo /\ op'.at = "begin"
        /\ op'.new = None /\ op'.old = op.old
    BY <1>1, <1>5, <2>2 DEF Operations
  <2> QED BY <2>3, <2>4 DEF todo
<1>7. Between(op') /\ SameMemory(op')
  <2>1. op.kind \in Reloading /\ op.old \in [Services -> Service]
    BY <1>5 DEF SupervisorInv, Proper, Reloading
  <2> QED BY <1>4, <1>6, <2>1 DEF Between, Proper, AllSuit, SameMemory
<1>8. Proper(op)' /\ PlaceFits' /\ NewFits' /\ AttemptCounted'
  BY <1>7, Stands
<1>9. /\ svc \in [Services -> Service] /\ row \in [Services -> Service]
      /\ files \in [Services -> 1..2]
      /\ \A x \in Services : /\ Sound(svc[x]) /\ Sound(row[x])
                              /\ Counts(svc[x], tries[x]) /\ Counts(row[x], tries[x])
  BY DEF SupervisorInv, SupervisorTypeOK, CopiesSound, TriesCounted
<1>10. ASSUME NEW s \in Services
       PROVE  /\ Revised(s) \in Service /\ Revised(s).owner = svc[s].owner
              /\ Revised(s).count = svc[s].count /\ Revised(s).window = svc[s].window
              /\ Revised(s).next = svc[s].next /\ Revised(s).status = svc[s].status
  <2>1. svc[s] \in Service /\ files[s] \in Nat
    BY <1>9
  <2> QED BY <2>1 DEF Service
<1> HIDE DEF Revised
<1>11. svc' \in [Services -> Service] /\ \A s \in Services : svc'[s] = Revised(s)
  BY <1>1, <1>10
<1>12. \A s \in Services : Sound(Revised(s)) /\ Counts(Revised(s), tries[s])
  BY <1>9, <1>10 DEF Sound, Counts
<1>13. /\ row' \in [Services -> Service]
       /\ \A s \in Services :
            /\ Sound(svc'[s]) /\ Sound(row'[s])
            /\ svc'[s].owner = svc[s].owner /\ row'[s].owner \in {row[s].owner, svc[s].owner}
            /\ Counts(svc'[s], tries[s]) /\ Counts(row'[s], tries[s])
  BY <1>1, <1>9, <1>10, <1>11, <1>12
<1>14. op.kind # "exit"
  BY <1>5
<1> QED BY <1>5, <1>7, <1>8, <1>11, <1>13, <1>14, Passes

\* The invariant is kept by Republish: a failed rollout puts the states back.
LEMMA StepRepublish ==
  ASSUME SupervisorInv, Remember, Republish
  PROVE  SupervisorInv'
<1> DEFINE lost == {i \in Ids : Live(i) /\ \E s \in Services :
                                  svc[s].owner = i /\ op.old[s].owner # i}
<1>1. /\ op.todo # <<>> /\ Head(op.todo).fn = "republish" /\ Skip
      /\ svc' = op.old /\ orphans' = orphans \union lost
      /\ UNCHANGED <<row, agent, made, events, files>>
  BY DEF Republish, At
<1>2. /\ op.kind = "undo" /\ op.kind \in Reloading /\ op.new = None
      /\ (\A i \in Ids : i # op.new) /\ NoAttempt /\ op.kind # "exit"
  BY <1>1, Typed, NothingNew DEF Suits, Reloading, NoAttempt, At
<1>3. op.old \in [Services -> Service]
  BY <1>2 DEF SupervisorInv, Proper
<1>4. Between(op') /\ SameMemory(op')
  BY <1>1, Returns DEF SupervisorInv
<1>5. /\ row \in [Services -> Service] /\ files \in [Services -> 1..2]
      /\ made \in [Ids -> Services] /\ orphans \in SUBSET Ids /\ events \in Nat
      /\ agent \in [Ids -> States] /\ svc \in [Services -> Service]
  BY DEF SupervisorInv, SupervisorTypeOK
<1>6. SupervisorTypeOK'
  BY <1>1, <1>3, <1>4, <1>5, TypeStep DEF Between, Proper
<1>7. Tracked'
  <2> SUFFICES ASSUME NEW i \in Ids, Alive(i)', i \notin orphans'
               PROVE  row'[made'[i]].owner = i /\ svc'[made'[i]].owner = i
    BY DEF Tracked
  <2>1. Alive(i) /\ i \notin orphans /\ i # op.new /\ i \notin lost
    BY <1>1, <1>2 DEF Alive, Live
  <2>2. /\ row[made[i]].owner = i /\ svc[made[i]].owner = i /\ made[i] \in Services
    BY <1>2, <1>5, <2>1 DEF SupervisorInv, Tracked
  <2>3. op.old[made[i]].owner = i
    <3>1. CASE Live(i)
      BY <2>1, <2>2, <3>1
    <3>2. CASE agent[i] = "Missing"
      <4>1. i # None
        BY SupervisorConstants
      <4> QED BY <1>2, <2>2, <3>2, <4>1 DEF SupervisorInv, CopiesSound
    <3> QED BY <2>1, <3>1, <3>2 DEF Alive
  <2> QED BY <1>1, <2>2, <2>3
<1>8. CopiesSound'
  <2>1. \A s \in Services : Sound(op.old[s]) /\ Sound(row[s])
    BY <1>2 DEF SupervisorInv, CopiesSound
  <2>2. op'.kind \in Reloading => op'.old = op.old
    BY <1>4 DEF SameMemory
  <2> QED BY <1>1, <2>1, <2>2 DEF CopiesSound
<1>9. TriesCounted'
  <2>1. \A s \in Services : Counts(op.old[s], tries[s]) /\ Counts(row[s], tries[s])
    BY <1>2 DEF SupervisorInv, TriesCounted
  <2>2. op'.kind \in Reloading => op'.old = op.old
    BY <1>4 DEF SameMemory
  <2> QED BY <1>1, <1>2, <1>3, <1>5, <2>1, <2>2, TriesStep
<1> QED BY <1>4, <1>6, <1>7, <1>8, <1>9, Stands DEF SupervisorInv

-----------------------------------------------------------------------------
(* The process and its surroundings.                                       *)

\* The invariant is kept by Crash: the process dies, and an agent no row names
\* yet is lost.
LEMMA StepCrash ==
  ASSUME SupervisorInv, Remember, Crash
  PROVE  SupervisorInv'
<1> DEFINE lost == {i \in Ids \cap {op.new} : Live(i) /\ \A s \in Services : row[s].owner # i}
<1>1. /\ op.kind # "exit" /\ Event /\ op' = Exit /\ orphans' = orphans \union lost
      /\ UNCHANGED <<svc, row, files, agent, made>>
  BY DEF Crash
<1>2. Between(op') /\ SameMemory(op') /\ op'.kind = "exit" /\ op'.new = None
  <2>1. Between(Exit)
    BY Ends
  <2>2. Exit.kind = "exit" /\ Exit.new = None
    BY DEF Exit, Operation
  <2> QED BY <1>1, <2>1, <2>2 DEF SameMemory, Reloading
<1>3. /\ svc \in [Services -> Service] /\ row \in [Services -> Service]
      /\ files \in [Services -> 1..2]
      /\ made \in [Ids -> Services] /\ orphans \in SUBSET Ids /\ events \in Nat
      /\ agent \in [Ids -> States]
  BY DEF SupervisorInv, SupervisorTypeOK
<1>4. SupervisorTypeOK'
  BY <1>1, <1>2, <1>3, TypeStep DEF Between, Proper, Event
<1>5. Tracked'
  <2> SUFFICES ASSUME NEW i \in Ids, Alive(i)', i \notin orphans'
               PROVE  row'[made'[i]].owner = i
    BY <1>2 DEF Tracked
  <2>1. Alive(i) /\ i \notin orphans /\ i \notin lost
    BY <1>1 DEF Alive, Live
  <2>2. CASE i # op.new
    BY <1>1, <2>1, <2>2 DEF SupervisorInv, Tracked
  <2>3. CASE i = op.new
    <3>1. op.new # None
      BY <2>3, SupervisorConstants
    <3>2. /\ made[i] = This /\ agent[i] # "Missing"
          /\ \A s \in Services \ {This} : row[s].owner # i
      BY <2>3, <3>1 DEF SupervisorInv, NewFits
    <3>3. Live(i)
      BY <2>1, <3>2 DEF Alive
    <3>4. \E s \in Services : row[s].owner = i
      BY <2>1, <2>3, <3>3
    <3> QED BY <1>1, <3>2, <3>4
  <2> QED BY <2>2, <2>3
<1>6. CopiesSound'
  <2>1. \A s \in Services : Sound(svc'[s]) /\ Sound(row'[s])
    BY <1>1 DEF SupervisorInv, CopiesSound
  <2> QED BY <1>1, <1>2, <1>3, <2>1, CopiesStep
<1>7. TriesCounted'
  <2>1. CASE op.todo # <<>>
    <3>1. Becomes(svc[This])
      BY <1>1, <2>1, AsBefore
    <3> QED BY <1>2, <2>1, <3>1, CountStep
  <2>2. CASE op.todo = <<>>
    <3>1. NoAttempt
      BY <2>2 DEF NoAttempt, At
    <3>2. \A s \in Services : Counts(svc'[s], tries[s]) /\ Counts(row'[s], tries[s])
      BY <1>1 DEF SupervisorInv, TriesCounted
    <3> QED BY <1>1, <1>2, <1>3, <3>1, <3>2, TriesStep DEF Reloading
  <2> QED BY <2>1, <2>2
<1> QED BY <1>2, <1>4, <1>5, <1>6, <1>7, Stands DEF SupervisorInv

\* The invariant is kept by Restart: agents and states as the next process
\* reads them back.
LEMMA StepRestart ==
  ASSUME SupervisorInv, Remember, Restart
  PROVE  SupervisorInv'
<1> DEFINE back == [i \in Ids |-> CASE agent[i] = "Missing" -> "Running"
                                    [] agent[i] = "Loose" -> "none"
                                    [] OTHER -> agent[i]]
           state(s) == IF row[s].owner = None THEN "none" ELSE agent'[row[s].owner]
           Restored(s) == RestoreRuntime(Rebound(row[s], state(s)), files[s])
           todo == Calls("boot", Order)
<1>1. /\ op.kind = "exit"
      /\ \/ agent' = back /\ UNCHANGED events
         \/ \E i \in Ids : back[i] = "Running" /\ Event /\ agent' = [back EXCEPT ![i] = "Missing"]
      /\ svc' = [s \in Services |-> Restored(s)]
      /\ row' = [s \in Services |-> IF row[s].revision = 0 THEN row[s] ELSE Restored(s)]
      /\ op' = Operation("boot", todo)
      /\ UNCHANGED <<made, orphans, files>>
  <2>1. svc' = [s \in Services |-> Restored(s)]
    BY DEF Restart
  <2>2. row' = [s \in Services |-> IF row[s].revision = 0 THEN row[s] ELSE Restored(s)]
    <3>1. \A s \in Services : [x \in Services |-> Restored(x)][s] = Restored(s)
      OBVIOUS
    <3> QED BY <3>1 DEF Restart
  <2> QED BY <2>1, <2>2 DEF Restart
<1>2. /\ svc \in [Services -> Service] /\ row \in [Services -> Service]
      /\ files \in [Services -> 1..2] /\ events \in Nat
      /\ made \in [Ids -> Services] /\ orphans \in SUBSET Ids /\ agent \in [Ids -> States]
  BY DEF SupervisorInv, SupervisorTypeOK
<1>3. /\ back \in [Ids -> States]
      /\ \A i \in Ids : (back[i] \in {"Running", "Paused", "Missing"} => Alive(i))
  BY <1>2 DEF States, Alive, Live
<1> HIDE DEF back
<1>4. /\ agent' \in [Ids -> States] /\ events' \in Nat
      /\ \A i \in Ids : Alive(i)' => Alive(i)
  <2>1. CASE agent' = back /\ UNCHANGED events
    BY <1>2, <1>3, <2>1 DEF Alive, Live
  <2>2. CASE \E i \in Ids : back[i] = "Running" /\ Event /\ agent' = [back EXCEPT ![i] = "Missing"]
    <3>1. PICK k \in Ids : back[k] = "Running" /\ Event /\ agent' = [back EXCEPT ![k] = "Missing"]
      BY <2>2
    <3>2. agent' \in [Ids -> States] /\ events' \in Nat
      BY <1>2, <1>3, <3>1 DEF States, Event
    <3>3. ASSUME NEW i \in Ids, Alive(i)'
          PROVE  Alive(i)
      <4>1. CASE i = k
        BY <1>3, <3>1, <4>1
      <4>2. CASE i # k
        <5>1. agent'[i] = back[i]
          BY <1>3, <3>1, <4>2
        <5> QED BY <1>3, <3>3, <5>1 DEF Alive, Live
      <4> QED BY <4>1, <4>2
    <3> QED BY <3>2, <3>3
  <2> QED BY <1>1, <2>1, <2>2
<1>5. Between(op') /\ SameMemory(op') /\ op'.kind = "boot"
  <2>1. todo \in Seq(Tasks) /\ AllSuit("boot", todo)
    BY OrderTyped, CallsType DEF AllSuit, Suits
  <2>2. "boot" \in Kinds \ ({"idle", "exit"} \union Reloading)
    BY DEF Kinds, Reloading
  <2>3. op'.kind = "boot"
    BY <1>1 DEF Operation
  <2> HIDE DEF todo
  <2> QED BY <1>1, <2>1, <2>2, <2>3, Opens
<1>6. ASSUME NEW s \in Services
      PROVE  /\ Restored(s) \in Service /\ Restored(s).owner = row[s].owner
             /\ Restored(s).count = row[s].count
             /\ Restored(s).window \in {row[s].window, "none"}
             /\ Restored(s).next \in {row[s].next, "none"}
             /\ \/ Restored(s).status \in {"Running", "Failed"}
                \/ row[s].owner = None /\ Restored(s).status = row[s].status
  <2>1. row[s] \in Service /\ files[s] \in Nat
    BY <1>2
  <2> QED BY <2>1, Restoring
<1> HIDE DEF Restored, state
<1>7. /\ svc' \in [Services -> Service] /\ row' \in [Services -> Service]
      /\ \A s \in Services : svc'[s] = Restored(s) /\ row'[s] \in {row[s], Restored(s)}
  BY <1>1, <1>2, <1>6
<1>8. SupervisorTypeOK'
  BY <1>1, <1>2, <1>4, <1>5, <1>7, TypeStep DEF Between, Proper
<1>9. Tracked'
  <2> SUFFICES ASSUME NEW i \in Ids, Alive(i)', i \notin orphans'
               PROVE  row'[made'[i]].owner = i /\ svc'[made'[i]].owner = i
    BY DEF Tracked
  <2>1. Alive(i) /\ i \notin orphans /\ i # op.new /\ made[i] \in Services
    BY <1>1, <1>2, <1>4, Resting
  <2>2. row[made[i]].owner = i
    BY <2>1 DEF SupervisorInv, Tracked
  <2> QED BY <1>1, <1>6, <1>7, <2>1, <2>2
<1>10. \A s \in Services : /\ Sound(row[s]) /\ Sound(Restored(s))
                           /\ Counts(row[s], tries[s]) /\ Counts(Restored(s), tries[s])
  <2>1. \A s \in Services : Sound(row[s]) /\ Counts(row[s], tries[s])
    BY DEF SupervisorInv, CopiesSound, TriesCounted
  <2> QED BY <1>6, <2>1 DEF Sound, Counts
<1>11. CopiesSound'
  BY <1>5, <1>7, <1>10 DEF CopiesSound, Reloading
<1>12. TriesCounted'
  <2>1. NoAttempt /\ op'.kind \notin Reloading
    BY <1>1, <1>5 DEF NoAttempt, Reloading
  <2>2. \A s \in Services : Counts(svc'[s], tries[s]) /\ Counts(row'[s], tries[s])
    BY <1>7, <1>10
  <2> QED BY <1>7, <2>1, <2>2, TriesStep
<1> QED BY <1>5, <1>8, <1>9, <1>11, <1>12, Stands DEF SupervisorInv

\* The invariant is kept by Edit: a definition changes on disk.
LEMMA StepEdit ==
  ASSUME SupervisorInv, Remember, NEW s \in Services, Edit(s)
  PROVE  SupervisorInv'
<1>1. /\ op.kind \in {"idle", "exit"} /\ Event /\ files' = [files EXCEPT ![s] = 3 - @]
      /\ UNCHANGED <<svc, row, agent, made, op, orphans>>
  BY DEF Edit
<1>2. op.todo = <<>> /\ op.new = None /\ NoAttempt
  BY <1>1, Resting
<1>3. /\ svc \in [Services -> Service] /\ row \in [Services -> Service]
      /\ files \in [Services -> 1..2] /\ events \in Nat /\ op \in Operations
      /\ made \in [Ids -> Services] /\ orphans \in SUBSET Ids /\ agent \in [Ids -> States]
  BY DEF SupervisorInv, SupervisorTypeOK
<1>4. files' \in [Services -> 1..2]
  <2>1. 3 - files[s] \in 1..2
    BY <1>3
  <2> QED BY <1>1, <1>3, <2>1
<1>5. SupervisorTypeOK'
  BY <1>1, <1>3, <1>4, TypeStep DEF Event
<1>6. Proper(op)' /\ PlaceFits' /\ NewFits' /\ AttemptCounted'
  BY <1>1, <1>2 DEF SupervisorInv, Proper, Suits, PlaceFits, NewFits, AttemptCounted
<1>7. Tracked' /\ CopiesSound'
  BY <1>1 DEF SupervisorInv, Tracked, CopiesSound, Alive, Live
<1>8. TriesCounted'
  <2>1. op'.kind \notin Reloading
    BY <1>1 DEF Reloading
  <2>2. \A x \in Services : Counts(svc'[x], tries[x]) /\ Counts(row'[x], tries[x])
    BY <1>1 DEF SupervisorInv, TriesCounted
  <2> QED BY <1>1, <1>2, <1>3, <2>1, <2>2, TriesStep
<1> QED BY <1>5, <1>6, <1>7, <1>8 DEF SupervisorInv

\* A step of the clock.
LEMMA ClockStep ==
  ASSUME SupervisorInv, Remember, op.kind = "idle",
         UNCHANGED <<agent, made, op, orphans, events, files>>,
         svc' \in [Services -> Service], row' \in [Services -> Service],
         \A s \in Services :
           /\ Sound(svc'[s]) /\ Sound(row'[s])
           /\ svc'[s].owner = svc[s].owner /\ row'[s].owner = row[s].owner
           /\ Counts(svc'[s], tries[s]) /\ Counts(row'[s], tries[s])
  PROVE  SupervisorInv'
<1>1. op.todo = <<>> /\ op.new = None /\ NoAttempt /\ Fades
  BY Resting, AgentsStay
<1>2. Proper(op)' /\ PlaceFits' /\ NewFits' /\ AttemptCounted'
  BY <1>1 DEF SupervisorInv, Proper, Suits, PlaceFits, NewFits, AttemptCounted
<1>3. SameMemory(op') /\ op.kind # "exit"
  BY DEF SameMemory, Reloading
<1> QED BY <1>1, <1>2, <1>3, Passes

\* The invariant is kept by DelayEnds: the delay of a restart passes.
LEMMA StepDelayEnds ==
  ASSUME SupervisorInv, Remember, NEW s \in Services, DelayEnds(s)
  PROVE  SupervisorInv'
<1> DEFINE q == [svc[s] EXCEPT !.next = "due"]
           p == [row[s] EXCEPT !.next = IF row[s].next = "later" THEN "due" ELSE row[s].next]
<1>1. /\ op.kind = "idle" /\ svc[s].next = "later"
      /\ svc' = [svc EXCEPT ![s] = q] /\ row' = [row EXCEPT ![s] = p]
      /\ UNCHANGED <<agent, made, op, orphans, events, files>>
  BY DEF DelayEnds
<1>2. /\ svc \in [Services -> Service] /\ row \in [Services -> Service]
      /\ svc[s] \in Service /\ row[s] \in Service
      /\ \A x \in Services : /\ Sound(svc[x]) /\ Sound(row[x])
                              /\ Counts(svc[x], tries[x]) /\ Counts(row[x], tries[x])
  BY DEF SupervisorInv, SupervisorTypeOK, CopiesSound, TriesCounted
<1>3. /\ q \in Service /\ q.owner = svc[s].owner /\ q.count = svc[s].count
      /\ q.window = svc[s].window /\ q.status = svc[s].status
  BY <1>2 DEF Service
<1>4. /\ p \in Service /\ p.owner = row[s].owner /\ p.count = row[s].count
      /\ p.window = row[s].window /\ p.status = row[s].status
      /\ p.next = "none" \/ row[s].next # "none"
  BY <1>2 DEF Service
<1> HIDE DEF q, p
<1>5. Sound(q) /\ Sound(p) /\ Counts(q, tries[s]) /\ Counts(p, tries[s])
  BY <1>1, <1>2, <1>3, <1>4 DEF Sound, Counts
<1>6. /\ svc' \in [Services -> Service] /\ row' \in [Services -> Service]
      /\ svc'[s] = q /\ row'[s] = p
      /\ \A x \in Services : x # s => svc'[x] = svc[x] /\ row'[x] = row[x]
  <2>1. svc' \in [Services -> Service] /\ row' \in [Services -> Service]
    BY <1>1, <1>2, <1>3, <1>4
  <2>2. svc'[s] = q /\ row'[s] = p
    BY <1>1, <1>2
  <2>3. \A x \in Services : x # s => svc'[x] = svc[x] /\ row'[x] = row[x]
    BY <1>1, <1>2
  <2> QED BY <2>1, <2>2, <2>3
<1>7. \A x \in Services :
        /\ Sound(svc'[x]) /\ Sound(row'[x])
        /\ svc'[x].owner = svc[x].owner /\ row'[x].owner = row[x].owner
        /\ Counts(svc'[x], tries[x]) /\ Counts(row'[x], tries[x])
  BY <1>2, <1>3, <1>4, <1>5, <1>6
<1> QED BY <1>1, <1>6, <1>7, ClockStep

\* The invariant is kept by WindowEnds: a restart window passes.
LEMMA StepWindowEnds ==
  ASSUME SupervisorInv, Remember, NEW s \in Services, WindowEnds(s)
  PROVE  SupervisorInv'
<1> DEFINE q == [svc[s] EXCEPT !.window = "over"]
           p == [row[s] EXCEPT !.window = IF row[s].window = "open" THEN "over" ELSE row[s].window]
<1>1. /\ op.kind = "idle"
      /\ svc' = [svc EXCEPT ![s] = q] /\ row' = [row EXCEPT ![s] = p]
      /\ UNCHANGED <<agent, made, op, orphans, events, files>>
  BY DEF WindowEnds
<1>2. /\ svc \in [Services -> Service] /\ row \in [Services -> Service]
      /\ svc[s] \in Service /\ row[s] \in Service
      /\ \A x \in Services : /\ Sound(svc[x]) /\ Sound(row[x])
                              /\ Counts(svc[x], tries[x]) /\ Counts(row[x], tries[x])
  BY DEF SupervisorInv, SupervisorTypeOK, CopiesSound, TriesCounted
<1>3. /\ q \in Service /\ q.owner = svc[s].owner /\ q.count = svc[s].count
      /\ q.window = "over" /\ q.status = svc[s].status /\ q.next = svc[s].next
  BY <1>2 DEF Service
<1>4. /\ p \in Service /\ p.owner = row[s].owner /\ p.count = row[s].count
      /\ p.window # "open" /\ p.status = row[s].status /\ p.next = row[s].next
  BY <1>2 DEF Service
<1> HIDE DEF q, p
<1>5. Sound(q) /\ Sound(p) /\ Counts(q, tries[s]) /\ Counts(p, tries[s])
  BY <1>1, <1>2, <1>3, <1>4 DEF Sound, Counts
<1>6. /\ svc' \in [Services -> Service] /\ row' \in [Services -> Service]
      /\ svc'[s] = q /\ row'[s] = p
      /\ \A x \in Services : x # s => svc'[x] = svc[x] /\ row'[x] = row[x]
  <2>1. svc' \in [Services -> Service] /\ row' \in [Services -> Service]
    BY <1>1, <1>2, <1>3, <1>4
  <2>2. svc'[s] = q /\ row'[s] = p
    BY <1>1, <1>2
  <2>3. \A x \in Services : x # s => svc'[x] = svc[x] /\ row'[x] = row[x]
    BY <1>1, <1>2
  <2> QED BY <2>1, <2>2, <2>3
<1>7. \A x \in Services :
        /\ Sound(svc'[x]) /\ Sound(row'[x])
        /\ svc'[x].owner = svc[x].owner /\ row'[x].owner = row[x].owner
        /\ Counts(svc'[x], tries[x]) /\ Counts(row'[x], tries[x])
  BY <1>2, <1>3, <1>4, <1>5, <1>6
<1> QED BY <1>1, <1>6, <1>7, ClockStep

\* The invariant is kept by Disturb: an agent is paused, resumed or killed by
\* its user.
LEMMA StepDisturb ==
  ASSUME SupervisorInv, Remember, NEW i \in Ids, Disturb(i)
  PROVE  SupervisorInv'
<1>1. /\ op.kind # "exit" /\ UNCHANGED <<svc, row, made, op, orphans, files>>
      /\ agent[i] \in {"Running", "Paused"}
      /\ \E state \in {"Running", "Paused", "Stopped"} : agent' = [agent EXCEPT ![i] = state]
      /\ UNCHANGED events \/ Event
  BY DEF Disturb, SetAgent, Live
<1>2. /\ svc \in [Services -> Service] /\ row \in [Services -> Service]
      /\ files \in [Services -> 1..2] /\ events \in Nat /\ op \in Operations
      /\ made \in [Ids -> Services] /\ orphans \in SUBSET Ids /\ agent \in [Ids -> States]
  BY DEF SupervisorInv, SupervisorTypeOK
<1>3. /\ agent' \in [Ids -> States] /\ events' \in Nat
      /\ agent'[i] \in {"Running", "Paused", "Stopped"}
      /\ \A j \in Ids : j # i => agent'[j] = agent[j]
  BY <1>1, <1>2 DEF States, Event
<1>4. SupervisorTypeOK'
  BY <1>1, <1>2, <1>3, TypeStep
<1>5. SameMemory(op') /\ NoAttempt /\ This' = This
  BY <1>1 DEF SameMemory, NoAttempt, This
<1>6. Proper(op)'
  BY <1>1 DEF SupervisorInv, Proper, Suits
<1>7. \A j \in Ids : agent[j] = "Stopped" => agent'[j] = "Stopped"
  BY <1>1, <1>3
<1>8. PlaceFits'
  <2> SUFFICES ASSUME op.todo # <<>>
               PROVE  PlaceFits'
    BY <1>1 DEF PlaceFits
  <2>1. This \in Services /\ svc[This].owner \in Ids \union {None} /\ op.new \in Ids \union {None}
    BY Typed
  <2>2. Gone(This) => (svc'[This].owner = None \/ agent'[svc'[This].owner] = "Stopped")
    BY <1>1, <1>7, <2>1 DEF Gone
  <2>3. agent[op.new] = "Stopped" /\ op.new # None => agent'[op.new] = "Stopped"
    BY <1>7, <2>1
  <2> QED BY <1>1, <1>5, <2>2, <2>3 DEF SupervisorInv, PlaceFits, Gone
<1>9. NewFits'
  <2> SUFFICES ASSUME op.new # None
               PROVE  NewFits'
    BY <1>1 DEF NewFits
  <2>1. op.new \in Ids /\ agent[op.new] \in {"Running", "Paused", "Stopped"}
    BY <1>2 DEF SupervisorInv, NewFits, Operations
  <2>2. agent'[op.new] \in {"Running", "Paused", "Stopped"}
    BY <1>3, <2>1
  <2> QED BY <1>1, <1>5, <2>2 DEF SupervisorInv, NewFits
<1>10. Tracked'
  <2>1. \A s \in Services : KeepsOwner(s)
    BY <1>1 DEF KeepsOwner
  <2>2. \A j \in Ids : made'[j] = made[j] /\ (Alive(j)' => Alive(j))
    BY <1>1, <1>3 DEF Alive, Live
  <2> QED BY <1>1, <2>1, <2>2, TrackedStep
<1>11. CopiesSound'
  <2>1. \A s \in Services : Sound(svc'[s]) /\ Sound(row'[s])
    BY <1>1 DEF SupervisorInv, CopiesSound
  <2>2. \A j \in Ids : agent'[j] = "Missing" => agent[j] = "Missing"
    BY <1>3
  <2> QED BY <1>1, <1>2, <1>5, <2>1, <2>2, CopiesStep
<1>12. TriesCounted'
  <2>1. \A s \in Services : Counts(svc'[s], tries[s]) /\ Counts(row'[s], tries[s])
    BY <1>1 DEF SupervisorInv, TriesCounted
  <2>2. op'.kind \in Reloading =>
          op'.old \in [Services -> Service] /\ \A s \in Services : Counts(op'.old[s], tries[s])
    BY <1>1 DEF SupervisorInv, Proper, TriesCounted
  <2> QED BY <1>1, <1>2, <1>5, <2>1, <2>2, TriesStep
<1>13. AttemptCounted'
  <2> SUFFICES ASSUME op.kind = "sweep", op.todo # <<>>, Head(op.todo).fn = "start",
                      op.at \in {"begin", "clean", "cleaned", "mark", "create"}
               PROVE  /\ svc'[This].count <= MaxRestarts
                      /\ Counts(svc'[This], tries'[This] + 1) /\ Counts(row'[This], tries'[This] + 1)
    BY <1>1, <1>5 DEF AttemptCounted
  <2>1. /\ svc[This].count <= MaxRestarts
        /\ Counts(svc[This], tries[This] + 1) /\ Counts(row[This], tries[This] + 1)
    BY DEF SupervisorInv, AttemptCounted
  <2>2. This \in Services /\ svc[This] \in Service /\ row[This] \in Service
    BY Typed
  <2>3. tries'[This] <= tries[This] /\ tries'[This] \in Nat /\ tries[This] \in Nat
    BY <1>1, <1>2, <1>5, <2>2, Remembers DEF SupervisorInv, SupervisorTypeOK
  <2>4. \A r \in Service : Counts(r, tries[This] + 1) => Counts(r, tries'[This] + 1)
    BY <2>3 DEF Counts, Service
  <2> QED BY <1>1, <2>1, <2>2, <2>4
<1> QED BY <1>4, <1>6, <1>8, <1>9, <1>10, <1>11, <1>12, <1>13 DEF SupervisorInv

-----------------------------------------------------------------------------
(* The specification.                                                      *)

\* The first boot, with no agent and no rows.
LEMMA SupervisorInit == Init => SupervisorInv
<1> SUFFICES ASSUME Init PROVE SupervisorInv
  OBVIOUS
<1>1. /\ svc = [s \in Services |-> Fresh(1)] /\ row = [s \in Services |-> Fresh(0)]
      /\ files = [s \in Services |-> 1]
      /\ agent = [i \in Ids |-> "none"] /\ made = [i \in Ids |-> Order[1]]
      /\ op = Operation("boot", Calls("boot", Order))
      /\ orphans = {} /\ tries = [s \in Services |-> 0] /\ events = 0
  BY DEF Init
<1>2. ASSUME NEW n \in Nat
      PROVE  /\ Fresh(n) \in Service /\ Fresh(n).owner = None /\ Fresh(n).next = "none"
             /\ Fresh(n).window = "none"
  BY DEF Fresh, Service, Statuses
<1>3. \A s \in Services : svc[s] = Fresh(1) /\ row[s] = Fresh(0) /\ tries[s] = 0
  BY <1>1
<1> DEFINE todo == Calls("boot", Order)
<1>4. todo \in Seq(Tasks) /\ \A i \in DOMAIN todo : todo[i].fn = "boot"
  BY OrderTyped, CallsType
<1>5. /\ op \in Operations /\ op.kind = "boot" /\ op.todo = todo
      /\ op.at = "begin" /\ op.new = None
  <2>1. "boot" \in Kinds
    BY DEF Kinds
  <2> QED BY <1>1, <1>4, <2>1, Begins
<1> HIDE DEF todo
<1>6. SupervisorTypeOK
  <2>1. svc \in [Services -> Service] /\ row \in [Services -> Service]
    BY <1>1, <1>2
  <2> QED BY <1>1, <1>5, <2>1, OrderTyped DEF SupervisorTypeOK, States
<1>7. Proper(op)
  BY <1>4, <1>5 DEF Proper, Suits, Reloading
<1>8. PlaceFits /\ NewFits /\ AttemptCounted
  BY <1>5 DEF PlaceFits, NewFits, AttemptCounted, StartPlaces, StopPlaces, CheckPlaces
<1>9. Tracked
  BY <1>1 DEF Tracked, Alive, Live
<1>10. CopiesSound
  BY <1>2, <1>3, <1>5 DEF CopiesSound, Sound, Reloading
<1>11. TriesCounted
  BY <1>2, <1>3, <1>5, SupervisorConstants DEF TriesCounted, Counts, Reloading
<1> QED BY <1>6, <1>7, <1>8, <1>9, <1>10, <1>11 DEF SupervisorInv

\* Every step keeps the invariant; one case per group of actions.
LEMMA SupervisorNext == SupervisorInv /\ [Next]_vars => SupervisorInv'
<1> SUFFICES ASSUME SupervisorInv, [Next]_vars PROVE SupervisorInv'
  OBVIOUS
<1>1. CASE UNCHANGED vars
  BY <1>1 DEF vars, SupervisorInv, SupervisorTypeOK, Proper, Suits, PlaceFits, Gone, This, NewFits,
              Tracked, Alive, Live, CopiesSound, TriesCounted, AttemptCounted
<1> SUFFICES ASSUME Action, Remember PROVE SupervisorInv'
  BY <1>1 DEF Next
<1>2. CASE StartStep
  BY <1>2, StepExamine, StepCleanOwner, StepOwnerCleaned, StepStarting, StepCreate, StepStarted,
     StepReady, StepKillNew, StepFailStart DEF StartStep
<1>3. CASE StopStep
  BY <1>3, StepStopping, StepHalt, StepHalted DEF StopStep
<1>4. CASE SweepStep
  BY <1>4, StepDepend, StepBlock, StepCheck, StepReap, StepReaped, StepDue, StepEvict, StepAttempt,
     StepRetry DEF SweepStep
<1>5. CASE RequestStep
  BY <1>5, StepAgain, StepPublish, StepRecord, StepRepublish, StepStopAgents DEF RequestStep
<1>6. CASE Boot \/ Sweep \/ Reload \/ Shutdown \/ Crash \/ Restart
  BY <1>6, StepBoot, StepSweep, StepReload, StepShutdown, StepCrash, StepRestart
<1>7. CASE \E s \in Services : \/ StartService(s) \/ StopService(s) \/ RestartService(s) \/ Edit(s)
                               \/ DelayEnds(s) \/ WindowEnds(s)
  BY <1>7, StepStartService, StepStopService, StepRestartService, StepEdit, StepDelayEnds,
     StepWindowEnds
<1>8. CASE \E i \in Ids : Disturb(i)
  BY <1>8, StepDisturb
<1> QED BY <1>2, <1>3, <1>4, <1>5, <1>6, <1>7, <1>8 DEF Action, Step

\* SupervisorInv is an invariant of the supervisor: over boots, sweeps,
\* requests, reloads that are rolled back, shutdowns, crashes and agents killed
\* by their users, in every order, for every set of services, dependency graph,
\* boot order and restart limit.
THEOREM SupervisorInvariant == Spec => []SupervisorInv
  BY SupervisorInit, SupervisorNext, PTL DEF Spec

\* OwnersTracked holds: between the calls of start_service_inner,
\* stop_service_inner, the sweep and a reload, and after a crash at any of
\* them, an agent that runs for a service is the one its row and its state in
\* memory name; only what a failed rollout could not stop, and what a crash
\* caught between its creation and its row, is given up.
THEOREM OwnersAreTracked == Spec => []OwnersTracked
<1>1. SupervisorInv => OwnersTracked
  BY DEF SupervisorInv, Tracked, Alive, OwnersTracked
<1> QED BY <1>1, SupervisorInvariant, PTL

\* AttemptsBounded holds: the sweep starts a service at most max_restarts times
\* in one window, whatever happens between scheduling, recording and making the
\* attempt, and whatever a crash makes the next boot read back.
THEOREM AttemptsAreBounded == Spec => []AttemptsBounded
<1>1. SupervisorInv => AttemptsBounded
  BY DEF SupervisorInv, TriesCounted, AttemptsBounded
<1> QED BY <1>1, SupervisorInvariant, PTL
=============================================================================
