--------------------------- MODULE LicenseManager ---------------------------
(***************************************************************************)
(* The updater's license manager: it replaces the license file mounted     *)
(* into compdf-app, restarts the application, and puts the previous file   *)
(* back when the new one cannot be verified.  Its journal is written ahead *)
(* of every change, so that a restarted updater knows what to undo.        *)
(*                                                                         *)
(* A request id stands for its upload too: the server draws a fresh id for *)
(* each one.  `work` is the goroutine that Start or Recover leaves behind; *)
(* the HTTP handlers run beside it, under the manager's mutex.             *)
(***************************************************************************)
EXTENDS Naturals

CONSTANTS
  Request,    \* request ids, each with the license it uploads
  Original,   \* the license of the installation: its file, or the environment
              \* of the application when there is no file
  Down,       \* what a stopped application runs
  NoRequest,  \* the empty request id of a manager that never had a job
  Unrecorded  \* the container and the previous file are not known yet

File == Request \cup {Original}

ASSUME LicenseAssumption ==
  Original \notin Request /\ NoRequest \notin Request /\ Down \notin File /\ Unrecorded \notin File

VARIABLES
  job,      \* Manager.job: request id, phase, and what restore() would put back
  journal,  \* license-update.json in the state directory: the last saved job
  file,     \* configs/app-license/license.xml
  loaded,   \* the license the running application has loaded
  work,     \* the next step of the goroutine, "none" when Manager.running is false
  lockLost, \* the context of withLock was canceled: Refresh failed
  before,   \* history: the file when the last request was accepted
  withdrawn \* history: the job had ended when withLock asked for its recovery

manager == <<job, journal, file, loaded, work, lockLost, before, withdrawn>>

Ended == {"none", "SUCCEEDED", "FAILED", "ROLLED_BACK"}
Phase == Ended \cup {"VALIDATING", "REPLACING", "RESTARTING", "RESTORING", "RECOVERY_REQUIRED"}
Step  == {"none", "validate", "backup", "announce", "replace", "announceRestart", "restart",
          "succeed", "restore", "putBack", "restartOld", "rollBack", "end"}

Job(r, phase, prior) == [id |-> r, phase |-> phase, prior |-> prior]

Init ==
  /\ job = Job(NoRequest, "none", Unrecorded)
  /\ journal = job
  /\ file = Original /\ loaded = Original
  /\ work = "none"
  /\ lockLost = FALSE
  /\ before = Original
  /\ withdrawn = FALSE

-----------------------------------------------------------------------------
(* phase(): the journal is saved with the job, or the job needs recovery.  *)

Saved(p, prior)   == job' = Job(job.id, p, prior) /\ journal' = job'
NotSaved(prior)   == job' = Job(job.id, "RECOVERY_REQUIRED", prior) /\ UNCHANGED journal
SetPhase(p, prior) == Saved(p, prior) \/ NotSaved(prior)

(* A step of the goroutine that only sets the phase p.                     *)
Announce(step, p, next, otherwise) ==
  /\ work = step
  /\ \/ Saved(p, job.prior) /\ work' = next
     \/ NotSaved(job.prior) /\ work' = otherwise
  /\ UNCHANGED <<file, loaded, lockLost, before, withdrawn>>

-----------------------------------------------------------------------------
(* Start() and Recover(), by what they answer.  A repeated request and a   *)
(* refusal (work in progress, another holder of the updater lock) change   *)
(* nothing.                                                                *)

Available == work = "none" /\ job.phase \in Ended

StartAccepted(r) ==
  /\ job.id # r /\ Available
  /\ job' = Job(r, "VALIDATING", Unrecorded)
  /\ journal' = job'
  /\ work' = "validate"
  /\ before' = file
  /\ withdrawn' = FALSE
  /\ UNCHANGED <<file, loaded, lockLost>>

(* The journal cannot be written: the job stays in memory, without work.   *)
StartNotSaved(r) ==
  /\ job.id # r /\ Available
  /\ job' = Job(r, "VALIDATING", Unrecorded)
  /\ withdrawn' = FALSE
  /\ UNCHANGED <<journal, file, loaded, work, lockLost, before>>

RecoverAccepted(r) ==
  /\ work = "none" /\ job.phase = "RECOVERY_REQUIRED" /\ job.id = r
  /\ work' = "restore"
  /\ UNCHANGED <<job, journal, file, loaded, lockLost, before, withdrawn>>

-----------------------------------------------------------------------------
(* apply().                                                                *)

Fail(step) == Announce(step, "FAILED", "end", "end")

(* The SDK in the application container accepts the license.               *)
Validate ==
  /\ work = "validate" /\ ~lockLost
  /\ work' = "backup"
  /\ UNCHANGED <<job, journal, file, loaded, lockLost, before, withdrawn>>

(* Container and previous file are recorded in memory, the file is copied. *)
BackUp ==
  /\ work = "backup"
  /\ job' = [job EXCEPT !.prior = file]
  /\ work' = "announce"
  /\ UNCHANGED <<journal, file, loaded, lockLost, before, withdrawn>>

(* The copy fails after the container was recorded.                        *)
BackUpFails ==
  /\ work = "backup"
  /\ SetPhase("FAILED", file)
  /\ work' = "end"
  /\ UNCHANGED <<file, loaded, lockLost, before, withdrawn>>

(* Mutant: the file is replaced although the journal could not be saved. *)
AnnounceReplaceUnsaved == Announce("announce", "REPLACING", "replace", "replace")

AnnounceReplace == Announce("announce", "REPLACING", "replace", "end")

Replace ==
  /\ work = "replace"
  /\ \/ file' = job.id /\ work' = "announceRestart"
     \/ file' = file /\ work' = "restore"
  /\ UNCHANGED <<job, journal, loaded, lockLost, before, withdrawn>>

AnnounceRestart == Announce("announceRestart", "RESTARTING", "restart", "restore")

(* The application is restarted and converts a document.                   *)
Restart ==
  /\ work = "restart"
  /\ \/ ~lockLost /\ loaded' = file /\ work' = "succeed"
     \/ loaded' \in {loaded, file, Down} /\ work' = IF lockLost THEN "end" ELSE "restore"
  /\ UNCHANGED <<job, journal, file, lockLost, before, withdrawn>>

Succeed == Announce("succeed", "SUCCEEDED", "end", "end")

-----------------------------------------------------------------------------
(* restore().                                                              *)

AnnounceRestore == Announce("restore", "RESTORING", "putBack", "end")

(* Mutant: the container is not compared with the recorded one. *)
PutBackUnchecked ==
  /\ work = "putBack" /\ ~lockLost
  /\ file' = job.prior
  /\ work' = "restartOld"
  /\ UNCHANGED <<job, journal, loaded, lockLost, before, withdrawn>>

(* The recorded container is still the one, and its file is put back.      *)
PutBack ==
  /\ work = "putBack" /\ ~lockLost /\ job.prior # Unrecorded
  /\ file' = job.prior
  /\ work' = "restartOld"
  /\ UNCHANGED <<job, journal, loaded, lockLost, before, withdrawn>>

RestartOld ==
  /\ work = "restartOld" /\ ~lockLost
  /\ loaded' = file
  /\ work' = "rollBack"
  /\ UNCHANGED <<job, journal, file, lockLost, before, withdrawn>>

RollBack == Announce("rollBack", "ROLLED_BACK", "end", "end")

(* The previous license cannot be restored or verified.                    *)
RestoreFails ==
  /\ \/ work = "putBack" /\ UNCHANGED loaded
     \/ work = "restartOld" /\ loaded' \in {loaded, file, Down}
  /\ SetPhase("RECOVERY_REQUIRED", job.prior)
  /\ work' = "end"
  /\ UNCHANGED <<file, lockLost, before, withdrawn>>

-----------------------------------------------------------------------------
(* withLock() and the process.                                             *)

LoseLock ==
  /\ work # "none" /\ ~lockLost
  /\ lockLost' = TRUE
  /\ UNCHANGED <<job, journal, file, loaded, work, before, withdrawn>>

End ==
  /\ work = "end"
  /\ IF lockLost THEN SetPhase("RECOVERY_REQUIRED", job.prior) ELSE UNCHANGED <<job, journal>>
  /\ withdrawn' = (withdrawn \/ (lockLost /\ job.phase \in Ended))
  /\ work' = "none"
  /\ lockLost' = FALSE
  /\ UNCHANGED <<file, loaded, before>>

(* Mutant: an interrupted replacement is taken for an interrupted check. *)
InterruptedFails(p) == IF p \in Ended THEN p ELSE "FAILED"

(* New(): what a journal phase means after a restart.                      *)
Interrupted(p) ==
  IF p \in Ended THEN p ELSE IF p = "VALIDATING" THEN "FAILED" ELSE "RECOVERY_REQUIRED"

AfterCrash == [journal EXCEPT !.phase = Interrupted(journal.phase)]

(* The updater dies and is started again.  Docker may or may not finish a  *)
(* restart of the application that it was asked for.                       *)
CrashUpdater ==
  /\ job' = AfterCrash
  /\ journal' = job'
  /\ work' = "none"
  /\ lockLost' = FALSE
  /\ loaded' \in IF work \in {"restart", "restartOld"} THEN {loaded, file, Down} ELSE {loaded}
  /\ UNCHANGED <<file, before, withdrawn>>

WorkStep ==
  \/ Validate \/ Fail("validate") \/ BackUp \/ Fail("backup") \/ BackUpFails
  \/ AnnounceReplace \/ Replace \/ AnnounceRestart \/ Restart \/ Succeed
  \/ AnnounceRestore \/ PutBack \/ RestartOld \/ RollBack \/ RestoreFails
  \/ End

Handle(r) == StartAccepted(r) \/ StartNotSaved(r) \/ RecoverAccepted(r)

ManagerNext == WorkStep \/ LoseLock \/ CrashUpdater \/ \E r \in Request : Handle(r)

ManagerSpec == Init /\ [][ManagerNext]_manager

-----------------------------------------------------------------------------
JobType == [id : Request \cup {NoRequest}, phase : Phase, prior : File \cup {Unrecorded}]

ManagerTypeOK ==
  /\ job \in JobType /\ journal \in JobType
  /\ file \in File
  /\ loaded \in File \cup {Down}
  /\ work \in Step
  /\ lockLost \in BOOLEAN
  /\ before \in File
  /\ withdrawn \in BOOLEAN

(* What a job says of the license: after SUCCEEDED the uploaded one is     *)
(* installed, after FAILED and ROLLED_BACK the one from before the request *)
(* is, and the application runs it.                                        *)
Truthful(j) ==
  j.phase \in Ended \ {"none"} =>
    /\ file = IF j.phase = "SUCCEEDED" THEN j.id ELSE before
    /\ loaded = file

(* A finished job tells the truth, whatever crashed or could not be saved  *)
(* on the way.                                                             *)
OutcomeHolds == Truthful(job)

(* The journal is ahead of the license file: a crash at any moment leaves  *)
(* a journal that tells the truth, and one that asks for recovery knows    *)
(* what to put back unless nothing was changed yet.                        *)
CrashRestorable ==
  /\ Truthful(AfterCrash)
  /\ AfterCrash.phase = "RECOVERY_REQUIRED" =>
       \/ journal.prior = before
       \/ file = before /\ loaded = file

(* As the messages of manager.go promise, an operator can recover a job    *)
(* that asks for recovery: it recorded the container and what to put back. *)
RecoveryRecorded ==
  job.phase = "RECOVERY_REQUIRED" /\ work = "none" => job.prior # Unrecorded

(* As Start() says when it refuses an upload, a license operation is       *)
(* active or requires recovery.                                            *)
RefusedForCause == Available \/ work # "none" \/ job.phase = "RECOVERY_REQUIRED"

-----------------------------------------------------------------------------
(* The inductive invariant behind them.                                    *)

Untouched == file = before /\ loaded = before

(* The job knows what to put back, or nothing was changed.                 *)
Known(j) == j.prior = before \/ (j.prior = Unrecorded /\ Untouched)

JournalInv ==
  /\ Known(journal)
  /\ journal.phase = "SUCCEEDED" => file = journal.id /\ loaded = file
  /\ journal.phase \in {"none", "VALIDATING", "FAILED", "ROLLED_BACK"} => Untouched

ValidateInv ==
  work \in {"validate", "backup", "announce"} =>
    /\ job.phase = "VALIDATING" /\ journal.phase = "VALIDATING"
    /\ job.id \in Request /\ journal.id = job.id
    /\ job.prior = IF work = "announce" THEN before ELSE Unrecorded

ReplaceInv ==
  work \in {"replace", "announceRestart", "restart", "succeed"} =>
    /\ journal = job /\ job.id \in Request /\ job.prior = before
    /\ job.phase = IF work \in {"replace", "announceRestart"} THEN "REPLACING" ELSE "RESTARTING"
    /\ work # "replace" => file = job.id
    /\ work = "succeed" => loaded = file

RestoreInv ==
  work \in {"putBack", "restartOld", "rollBack"} =>
    /\ journal = job /\ job.phase = "RESTORING"
    /\ work # "putBack" => file = before /\ job.prior = before
    /\ work = "rollBack" => loaded = before

EndInv ==
  /\ work \in {"restore", "end"} => job.id = journal.id /\ job.phase # "VALIDATING" /\ Known(job)
  /\ work = "restore" => job.phase \notin Ended
  /\ work = "none" /\ job.phase = "RECOVERY_REQUIRED" => job.id = journal.id /\ Known(job)
  /\ job.phase \in Ended => work \in {"none", "end"} /\ journal = job

ManagerInv ==
  ManagerTypeOK /\ JournalInv /\ ValidateInv /\ ReplaceInv /\ RestoreInv /\ EndInv

=============================================================================
