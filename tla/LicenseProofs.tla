---------------------------- MODULE LicenseProofs ----------------------------
(***************************************************************************)
(* Theorems of the license manager, and of the end-to-end protocol: what   *)
(* holds of the manager alone carries over because the composed system     *)
(* only takes its steps, and what the server shows and holds follows from  *)
(* an invariant of both processes and of the messages between them.        *)
(***************************************************************************)
EXTENDS LicenseUpdate, TLAPS

(* The constants that stand for no license differ from every license.      *)
LEMMA Constants ==
  /\ Original \in File /\ Request \subseteq File
  /\ Unrecorded \notin File /\ Original \notin Request /\ NoRequest \notin Request
BY LicenseAssumption DEF File

(* The initial state satisfies the invariant.                              *)
LEMMA InitInv == Init => ManagerInv
<1> SUFFICES ASSUME Init PROVE ManagerInv
  OBVIOUS
<1> USE Constants DEF Init, Job, Phase, Ended
<1>1. ManagerTypeOK
  BY DEF ManagerTypeOK, JobType, Step
<1>2. JournalInv
  BY DEF JournalInv, Known, Untouched
<1> QED BY <1>1, <1>2 DEF ManagerInv, ValidateInv, ReplaceInv, RestoreInv, EndInv

(* A step of apply() before the license is touched keeps the invariant.    *)
LEMMA ValidateKeeps ==
  ASSUME ManagerInv, Validate \/ Fail("validate") \/ BackUp \/ Fail("backup") \/ BackUpFails
  PROVE  ManagerInv'
<1> USE Constants DEF ManagerInv, ManagerTypeOK, JobType, Phase, Ended, Step, JournalInv, Known,
      Untouched, ValidateInv, ReplaceInv, RestoreInv, EndInv, Job
<1>1. CASE Validate
  BY <1>1 DEF Validate
<1>2. CASE Fail("validate") \/ Fail("backup")
  BY <1>2 DEF Fail, Announce, Saved, NotSaved
<1>3. CASE BackUp
  BY <1>3 DEF BackUp
<1>4. CASE BackUpFails
  BY <1>4 DEF BackUpFails, SetPhase, Saved, NotSaved
<1> QED BY <1>1, <1>2, <1>3, <1>4

(* A step of apply() that replaces the license keeps the invariant.        *)
LEMMA ReplaceKeeps ==
  ASSUME ManagerInv, AnnounceReplace \/ Replace \/ AnnounceRestart \/ Restart \/ Succeed
  PROVE  ManagerInv'
<1> USE Constants DEF ManagerInv, ManagerTypeOK, JobType, Phase, Ended, Step, JournalInv, Known,
      Untouched, ValidateInv, ReplaceInv, RestoreInv, EndInv, Job
<1>1. CASE AnnounceReplace
  BY <1>1 DEF AnnounceReplace, Announce, Saved, NotSaved
<1>2. CASE Replace
  BY <1>2 DEF Replace
<1>3. CASE AnnounceRestart
  BY <1>3 DEF AnnounceRestart, Announce, Saved, NotSaved
<1>4. CASE Restart
  BY <1>4 DEF Restart
<1>5. CASE Succeed
  BY <1>5 DEF Succeed, Announce, Saved, NotSaved
<1> QED BY <1>1, <1>2, <1>3, <1>4, <1>5

(* A step of restore() keeps the invariant.                                *)
LEMMA RestoreKeeps ==
  ASSUME ManagerInv, AnnounceRestore \/ PutBack \/ RestartOld \/ RollBack \/ RestoreFails
  PROVE  ManagerInv'
<1> USE Constants DEF ManagerInv, ManagerTypeOK, JobType, Phase, Ended, Step, JournalInv, Known,
      Untouched, ValidateInv, ReplaceInv, RestoreInv, EndInv, Job
<1>1. CASE AnnounceRestore
  BY <1>1 DEF AnnounceRestore, Announce, Saved, NotSaved
<1>2. CASE PutBack
  BY <1>2 DEF PutBack
<1>3. CASE RestartOld
  BY <1>3 DEF RestartOld
<1>4. CASE RollBack
  BY <1>4 DEF RollBack, Announce, Saved, NotSaved
<1>5. ASSUME RestoreFails PROVE ManagerInv'
  <2>1. /\ job' = Job(job.id, "RECOVERY_REQUIRED", job.prior)
        /\ journal' = job' \/ journal' = journal
        /\ file' = file /\ before' = before /\ work' = "end"
        /\ loaded' \in File \cup {Down}
        /\ journal = job /\ job.phase = "RESTORING"
    BY <1>5 DEF RestoreFails, SetPhase, Saved, NotSaved
  <2>2. ManagerTypeOK'
    BY <1>5, <2>1 DEF RestoreFails
  <2>3. Known(job)' /\ Known(journal)'
    BY <1>5, <2>1 DEF RestoreFails
  <2>4. /\ job'.phase = "RECOVERY_REQUIRED" /\ job'.id = journal'.id
        /\ journal'.phase \in {"RECOVERY_REQUIRED", "RESTORING"}
    BY <2>1
  <2>5. JournalInv' /\ EndInv'
    BY <2>1, <2>3, <2>4
  <2> QED BY <2>1, <2>2, <2>5
<1> QED BY <1>1, <1>2, <1>3, <1>4, <1>5

(* The lock, the end of the goroutine, a crash and the requests keep it.   *)
LEMMA ControlKeeps ==
  ASSUME ManagerInv, LoseLock \/ End \/ CrashUpdater \/ (\E r \in Request : Handle(r))
  PROVE  ManagerInv'
<1> USE Constants DEF ManagerInv, ManagerTypeOK, JobType, Phase, Ended, Step, JournalInv, Known,
      Untouched, ValidateInv, ReplaceInv, RestoreInv, EndInv, Job
<1>1. CASE LoseLock
  BY <1>1 DEF LoseLock
<1>2. ASSUME End PROVE ManagerInv'
  <2>1. CASE lockLost
    <3>1. /\ job' = Job(job.id, "RECOVERY_REQUIRED", job.prior)
          /\ journal' = job' \/ journal' = journal
          /\ file' = file /\ before' = before /\ loaded' = loaded /\ work' = "none"
      BY <1>2, <2>1 DEF End, SetPhase, Saved, NotSaved
    <3>2. ManagerTypeOK'
      <4>1. withdrawn' \in BOOLEAN
        BY <1>2, Zenon DEF End
      <4>2. job' \in JobType /\ journal' \in JobType
        BY <3>1
      <4> QED BY <1>2, <3>1, <4>1, <4>2 DEF End
    <3>3. Known(job)' /\ Known(journal)'
      BY <1>2, <3>1 DEF End
    <3>4. /\ job'.phase = "RECOVERY_REQUIRED" /\ job'.id = journal'.id
          /\ journal' = journal \/ journal'.phase = "RECOVERY_REQUIRED"
      BY <1>2, <3>1 DEF End
    <3>5. JournalInv' /\ EndInv'
      BY <3>1, <3>3, <3>4
    <3> QED BY <3>1, <3>2, <3>5
  <2>2. CASE ~lockLost
    BY <1>2, <2>2 DEF End
  <2> QED BY <2>1, <2>2
<1>3. ASSUME CrashUpdater PROVE ManagerInv'
  <2>1. /\ job' = [journal EXCEPT !.phase = Interrupted(journal.phase)]
        /\ job' = Job(journal.id, Interrupted(journal.phase), journal.prior)
        /\ journal' = job' /\ work' = "none" /\ file' = file /\ before' = before
        /\ loaded' \in File \cup {Down}
        /\ work \notin {"restart", "restartOld"} => loaded' = loaded
    BY <1>3 DEF CrashUpdater, AfterCrash
  <2>2. ManagerTypeOK'
    <3>1. Interrupted(journal.phase) \in Phase
      BY DEF Interrupted
    <3>2. job' \in JobType
      BY <2>1, <3>1
    <3> QED BY <1>3, <2>1, <3>2 DEF CrashUpdater
  <2>3. /\ journal'.phase = Interrupted(journal.phase)
        /\ journal'.id = journal.id /\ journal'.prior = journal.prior
    BY <2>1
  <2>4. CASE work \in {"restart", "restartOld"}
    <3>1. journal'.phase = "RECOVERY_REQUIRED" /\ journal.prior = before
      BY <2>3, <2>4 DEF Interrupted
    <3>2. JournalInv' /\ EndInv'
      BY <2>1, <2>3, <3>1
    <3> QED BY <2>1, <2>2, <3>2
  <2>5. CASE work \notin {"restart", "restartOld"}
    <3>1. JournalInv'
      BY <2>1, <2>3, <2>5 DEF Interrupted
    <3>2. EndInv'
      BY <2>1, <2>3, <3>1
    <3> QED BY <2>1, <2>2, <3>1, <3>2
  <2> QED BY <2>4, <2>5
<1>4. ASSUME NEW r \in Request, StartAccepted(r) PROVE ManagerInv'
  BY <1>4 DEF StartAccepted, Available
<1>5. ASSUME NEW r \in Request, StartNotSaved(r) PROVE ManagerInv'
  <2>1. ManagerTypeOK'
    BY <1>5 DEF StartNotSaved
  <2>2. JournalInv'
    BY <1>5 DEF StartNotSaved
  <2>3. job'.phase = "VALIDATING" /\ work' = "none"
    BY <1>5 DEF StartNotSaved, Available
  <2> QED BY <2>1, <2>2, <2>3
<1>6. ASSUME NEW r \in Request, RecoverAccepted(r) PROVE ManagerInv'
  BY <1>6 DEF RecoverAccepted
<1> QED BY <1>1, <1>2, <1>3, <1>4, <1>5, <1>6 DEF Handle

(* Every step of the manager keeps the invariant, and so does a stutter.   *)
LEMMA StepInv == ManagerInv /\ [ManagerNext]_manager => ManagerInv'
<1> SUFFICES ASSUME ManagerInv, [ManagerNext]_manager PROVE ManagerInv'
  OBVIOUS
<1>1. CASE WorkStep
  BY <1>1, ValidateKeeps, ReplaceKeeps, RestoreKeeps, ControlKeeps DEF WorkStep
<1>2. CASE LoseLock \/ CrashUpdater \/ \E r \in Request : Handle(r)
  BY <1>2, ControlKeeps
<1>3. CASE UNCHANGED manager
  BY <1>3 DEF manager, ManagerInv, ManagerTypeOK, JournalInv, Known, Untouched, ValidateInv,
     ReplaceInv, RestoreInv, EndInv
<1> QED BY <1>1, <1>2, <1>3 DEF ManagerNext

(* The inductive invariant of the license manager holds for any requests.  *)
THEOREM ManagerInvariance == ManagerSpec => []ManagerInv
BY InitInv, StepInv, PTL DEF ManagerSpec

(* A job that has ended is saved and says what is installed.               *)
LEMMA InvOutcome == ManagerInv => OutcomeHolds
<1> SUFFICES ASSUME ManagerInv, job.phase \in Ended \ {"none"} PROVE OutcomeHolds
  BY DEF OutcomeHolds, Truthful
<1>1. journal = job
  BY DEF ManagerInv, EndInv
<1> QED BY <1>1 DEF ManagerInv, JournalInv, Untouched, OutcomeHolds, Truthful, Ended

(* What the journal says after a crash is true or can be undone.           *)
LEMMA InvRestorable == ManagerInv => CrashRestorable
<1> SUFFICES ASSUME ManagerInv PROVE CrashRestorable
  OBVIOUS
<1>1. /\ AfterCrash.phase = Interrupted(journal.phase)
      /\ AfterCrash.id = journal.id /\ journal.phase \in Phase
  BY DEF AfterCrash, ManagerInv, ManagerTypeOK, JobType
<1>2. Truthful(AfterCrash)
  BY <1>1 DEF ManagerInv, JournalInv, Untouched, Truthful, Interrupted, Ended, Phase
<1>3. journal.prior = before \/ (file = before /\ loaded = file)
  BY DEF ManagerInv, JournalInv, Known, Untouched
<1> QED BY <1>2, <1>3 DEF CrashRestorable

(* Whatever the server, the messages and the crashes do, the updater only  *)
(* takes the steps of its license manager.                                 *)
LEMMA UpdaterSteps ==
  ASSUME [Next]_vars
  PROVE  [ManagerNext]_manager
<1>1. CASE UpdaterStep
  BY <1>1 DEF UpdaterStep, ManagerNext
<1>2. CASE UpdaterCrashes
  BY <1>2 DEF UpdaterCrashes, ManagerNext
<1>3. ASSUME NEW r \in Request, BeginStart(r) \/ HandlePost(r) \/ HandleRecovery(r)
      PROVE  [ManagerNext]_manager
  BY <1>3 DEF BeginStart, HandlePost, HandleRecovery, ManagerNext, Handle, manager
<1>4. CASE DrainFails \/ Dispatch \/ ReadAnswer \/ GiveUp \/ ReleaseEnded \/ EndInterrupted
  BY <1>4 DEF DrainFails, Dispatch, ReadAnswer, GiveUp, ReleaseEnded, EndInterrupted
<1>5. CASE Ask \/ Tell \/ AskFails \/ Conclude \/ PostRecovery \/ ReadRecovery \/ GiveUpRecovery
  BY <1>5 DEF Ask, Tell, AskFails, Conclude, PostRecovery, ReadRecovery, GiveUpRecovery
<1>6. CASE LosePost \/ AdminSetsMode \/ CrashServer
  BY <1>6 DEF LosePost, AdminSetsMode, CrashServer
<1>7. CASE UNCHANGED vars
  BY <1>7 DEF vars
<1> QED BY <1>1, <1>2, <1>3, <1>4, <1>5, <1>6, <1>7 DEF Next

(* The composed system implements the manager on its own: what is proved   *)
(* of the manager holds end to end.                                        *)
THEOREM UpdaterImplements == Spec => ManagerSpec
<1>1. UpdateInit => Init
  BY DEF UpdateInit
<1> QED BY <1>1, UpdaterSteps, PTL DEF Spec, ManagerSpec

(* A finished job tells the truth about the license, end to end.           *)
THEOREM OutcomeTrue == Spec => []OutcomeHolds
BY UpdaterImplements, ManagerInvariance, InvOutcome, PTL

(* The journal is ahead of the license file, end to end: a crash at any    *)
(* moment leaves the truth or what is needed to restore it.                *)
THEOREM JournalAhead == Spec => []CrashRestorable
BY UpdaterImplements, ManagerInvariance, InvRestorable, PTL

-----------------------------------------------------------------------------
(* The composed system.  The inductive invariant behind MaintenanceHeld    *)
(* and EndIsTrue relates what each process and each message on its way     *)
(* knows of a request to what the updater did with it.                     *)

(* The job is being worked on, or waits for the operator.                  *)
Active == job.phase \notin Ended /\ ~Stranded

(* The steps after which the posted license may still be installed.        *)
Forward == {"validate", "backup", "announce", "replace", "announceRestart", "restart", "succeed"}

(* Maintenance is held for the request, or an administrator took it over.  *)
Held(r) == (mode.mode = "maintenance" /\ mode.owner = r) \/ mode.owner = Admin

Shows(s, r, p) == s.id = r /\ s.phase = p

(* The request is known to the server alone: nothing came of it yet.       *)
Fresh(r) ==
  /\ r \notin {job.id, journal.id, told.id, recovering} \cup recovers
  /\ r \notin {file, loaded, before, job.prior, journal.prior}

(* The license of the request is not installed and will not be.            *)
Discarded(r) ==
  /\ r \notin {file, loaded, before, job.prior, journal.prior}
  /\ job.id = r => work \notin Forward

(* The updater refused the request.                                        *)
Unaccepted(r) == Discarded(r) /\ journal.id # r /\ (job.id = r => Stranded)

(* A request to recover the job is on its way, or the server may send one. *)
Recovering(r) == r \in recovers \/ recovering = r \/ Shows(update, r, "RECOVERY_REQUIRED")

(* The job of the request goes forward no more: recovery may only go back. *)
Settled(r) == job.id = r => work \notin Forward /\ (job.phase = "SUCCEEDED" => work = "none")

(* The license of the request is installed, and no message undoes it.      *)
Installed(r) ==
  /\ file = r /\ loaded = r /\ job.id = r /\ journal.id = r /\ work \in {"none", "end"}
  /\ Recovering(r) => job.phase = "SUCCEEDED" /\ work = "none"

(* When the goroutine has ended, the job has, or it waits: the manager is  *)
(* never between.                                                          *)
IdleInv ==
  /\ work = "none" => job.phase \in Ended \cup {"RECOVERY_REQUIRED", "VALIDATING"}
  /\ work = "end" /\ ~lockLost => job.phase \in Ended \cup {"RECOVERY_REQUIRED"}
  /\ Stranded => journal.phase \in Ended
  /\ job.phase = "none" => work = "none"
  /\ IF job.phase = "none" THEN job.id = NoRequest ELSE job.id \in Request
  /\ IF journal.phase = "none" THEN journal.id = NoRequest ELSE journal.id \in Request

(* Request ids in use are drawn, and no request installs what it replaces. *)
IdsInv ==
  /\ posts \subseteq drawn
  /\ update.id \in drawn \cup {NoRequest}
  /\ journal.id \in Request => before # journal.id

(* A request that the updater has not handled yet is unknown to it.        *)
FreshInv ==
  \A r \in Request :
    r \notin drawn \/ r \in posts \/ Shows(update, r, "DRAINING") => Fresh(r)

(* A request is on its way only in maintenance for it.                     *)
PostInv == \A r \in posts : Shows(update, r, "DISPATCHING") /\ Held(r)

(* run() works on the request that the server shows, and no reconcile()    *)
(* while it does.                                                          *)
RunInv ==
  /\ run = "drain" => update.phase = "DRAINING"
  /\ run = "post" => Shows(update, posted, "DISPATCHING")
  /\ run # "post" => posted = NoRequest /\ answer = "none"
  /\ answer # "none" => posted \notin posts
  /\ answer = "rejected" => Unaccepted(posted)
  /\ query # "none" => run = "none" /\ update.phase \notin Ended \cup {"DRAINING"}

(* Recovery is asked for a job that goes forward no more.                  *)
RecoverInv ==
  /\ \A r \in Request :
       (r \in recovers \/ recovering = r) /\ update.id = r =>
         update.phase \notin {"DRAINING", "DISPATCHING"}
  /\ recovery = "told" => recovering \in Request
  /\ \A r \in Request : Recovering(r) \/ Shows(told, r, "RECOVERY_REQUIRED") => Settled(r)

(* A job of the updater that has not ended is the one the server shows, it *)
(* has not ended there either, and maintenance is held for it.             *)
ActiveInv ==
  ~withdrawn /\ Active =>
    /\ update.id = job.id /\ update.phase \notin Ended \cup {"DRAINING"}
    /\ Held(job.id)
    /\ told.id = job.id => told.phase \notin Ended

(* The outcome that the server shows, or is about to, is the updater's.    *)
OutcomeInv ==
  /\ update.phase \in {"FAILED", "ROLLED_BACK"} => Discarded(update.id)
  /\ told.phase \in {"FAILED", "ROLLED_BACK"} => Discarded(told.id)
  /\ update.phase = "SUCCEEDED" => Installed(update.id)
  /\ told.phase = "SUCCEEDED" /\ told.id = update.id => Installed(told.id)

ServerInv == IdsInv /\ FreshInv /\ PostInv /\ RunInv /\ RecoverInv /\ ActiveInv /\ OutcomeInv

-----------------------------------------------------------------------------
(* The manager's side: what its steps do that the server can tell apart.   *)

(* What a step of the updater's goroutine does to the license and the job. *)
Worked ==
  /\ work # "none"
  /\ job'.id = job.id /\ journal'.id = journal.id /\ before' = before
  /\ loaded' \in {loaded, file, Down}
  /\ file' \in {file, job.prior} \/ (work = "replace" /\ file' = job.id)
  /\ job'.prior \in {job.prior, file} /\ journal'.prior \in {journal.prior, job.prior, file}
  /\ work' \in Forward => work \in Forward
  /\ job'.phase = "SUCCEEDED" => job.phase = "SUCCEEDED" \/ work \in Forward
  /\ work = "end" => UNCHANGED <<file, loaded>> /\ work' \in {"none", "end"}
  /\ withdrawn => withdrawn'
  /\ Active' => Active \/ withdrawn'

(* A step of the goroutine moves only that way.                            *)
LEMMA WorkMoves ==
  ASSUME ManagerInv, WorkStep \/ LoseLock
  PROVE  Worked
<1> USE DEF ManagerInv, ManagerTypeOK, JobType, Ended, ValidateInv, ReplaceInv, RestoreInv, EndInv,
        Job, Worked, Active, Stranded, Forward
<1>1. CASE Validate
  BY <1>1 DEF Validate
<1>2. CASE Fail("validate") \/ Fail("backup")
  BY <1>2 DEF Fail, Announce, Saved, NotSaved
<1>3. CASE BackUp
  BY <1>3 DEF BackUp
<1>4. CASE BackUpFails
  BY <1>4 DEF BackUpFails, SetPhase, Saved, NotSaved
<1>5. CASE AnnounceReplace
  BY <1>5 DEF AnnounceReplace, Announce, Saved, NotSaved
<1>6. CASE Replace
  BY <1>6 DEF Replace
<1>7. CASE AnnounceRestart
  BY <1>7 DEF AnnounceRestart, Announce, Saved, NotSaved
<1>8. CASE Restart
  BY <1>8 DEF Restart
<1>9. CASE Succeed
  BY <1>9 DEF Succeed, Announce, Saved, NotSaved
<1>10. CASE AnnounceRestore
  BY <1>10 DEF AnnounceRestore, Announce, Saved, NotSaved
<1>11. CASE PutBack
  BY <1>11 DEF PutBack
<1>12. CASE RestartOld
  BY <1>12 DEF RestartOld
<1>13. CASE RollBack
  BY <1>13 DEF RollBack, Announce, Saved, NotSaved
<1>14. CASE RestoreFails
  BY <1>14 DEF RestoreFails, SetPhase, Saved, NotSaved
<1>15. CASE LoseLock
  BY <1>15 DEF LoseLock
<1>16. CASE End
  BY <1>16 DEF End, SetPhase, Saved, NotSaved
<1>. QED BY <1>1, <1>2, <1>3, <1>4, <1>5, <1>6, <1>7, <1>8, <1>9, <1>10, <1>11, <1>12, <1>13,
            <1>14, <1>15, <1>16 DEF WorkStep

(* The manager is never between two jobs.                                  *)
LEMMA IdleStep ==
  ASSUME ManagerInv, IdleInv, [ManagerNext]_manager
  PROVE  IdleInv'
<1> USE DEF ManagerInv, ManagerTypeOK, JobType, Phase, Ended, ValidateInv, ReplaceInv, RestoreInv, EndInv,
        Job, Stranded, IdleInv
<1>1. CASE Validate
  BY <1>1 DEF Validate
<1>2. CASE Fail("validate") \/ Fail("backup")
  BY <1>2 DEF Fail, Announce, Saved, NotSaved
<1>3. CASE BackUp
  BY <1>3 DEF BackUp
<1>4. CASE BackUpFails
  BY <1>4 DEF BackUpFails, SetPhase, Saved, NotSaved
<1>5. CASE AnnounceReplace
  BY <1>5 DEF AnnounceReplace, Announce, Saved, NotSaved
<1>6. CASE Replace
  BY <1>6 DEF Replace
<1>7. CASE AnnounceRestart
  BY <1>7 DEF AnnounceRestart, Announce, Saved, NotSaved
<1>8. CASE Restart
  BY <1>8 DEF Restart
<1>9. CASE Succeed
  BY <1>9 DEF Succeed, Announce, Saved, NotSaved
<1>10. CASE AnnounceRestore
  BY <1>10 DEF AnnounceRestore, Announce, Saved, NotSaved
<1>11. CASE PutBack
  BY <1>11 DEF PutBack
<1>12. CASE RestartOld
  BY <1>12 DEF RestartOld
<1>13. CASE RollBack
  BY <1>13 DEF RollBack, Announce, Saved, NotSaved
<1>14. CASE RestoreFails
  BY <1>14 DEF RestoreFails, SetPhase, Saved, NotSaved
<1>15. CASE LoseLock
  BY <1>15 DEF LoseLock
<1>16. CASE End
  BY <1>16 DEF End, SetPhase, Saved, NotSaved
<1>17. CASE CrashUpdater
  BY <1>17 DEF CrashUpdater, AfterCrash, Interrupted
<1>18. ASSUME NEW r \in Request, Handle(r) PROVE IdleInv'
  BY <1>18 DEF Handle, StartAccepted, StartNotSaved, RecoverAccepted, Available
<1>19. CASE UNCHANGED manager
  BY <1>19 DEF manager
<1>. QED BY <1>1, <1>2, <1>3, <1>4, <1>5, <1>6, <1>7, <1>8, <1>9, <1>10, <1>11, <1>12, <1>13,
            <1>14, <1>15, <1>16, <1>17, <1>18, <1>19 DEF ManagerNext, WorkStep

(* A crash of the updater takes the job back to what the journal says.     *)
Crashed ==
  /\ job'.id = journal.id /\ journal'.id = journal.id /\ before' = before /\ file' = file
  /\ loaded' \in {loaded, file, Down} /\ (work \notin Forward \cup {"restartOld"} => loaded' = loaded)
  /\ job'.prior = journal.prior /\ journal'.prior = journal.prior
  /\ work' = "none" /\ withdrawn' = withdrawn
  /\ job.phase \in Ended => job'.phase = job.phase
  /\ Active' => Active /\ job.id = journal.id

(* A crash moves only that way.                                            *)
LEMMA CrashMoves ==
  ASSUME ManagerInv, IdleInv, CrashUpdater
  PROVE  Crashed
<1>1. /\ job'.id = journal.id /\ job'.prior = journal.prior /\ job'.phase = Interrupted(journal.phase)
      /\ journal' = job' /\ work' = "none" /\ journal.phase \in Phase
  BY DEF ManagerInv, ManagerTypeOK, JobType, CrashUpdater, AfterCrash
<1>2. /\ before' = before /\ file' = file /\ withdrawn' = withdrawn
      /\ loaded' \in {loaded, file, Down} /\ (work \notin Forward \cup {"restartOld"} => loaded' = loaded)
  BY DEF CrashUpdater, Forward
<1>3. job.phase \in Ended => job'.phase = job.phase
  BY <1>1 DEF ManagerInv, EndInv, Interrupted
<1>4. Active' => Active /\ job.id = journal.id
  <2>1. Active' => journal.phase \notin Ended \cup {"VALIDATING"}
    BY <1>1 DEF Active, Interrupted, Ended
  <2>2. journal.phase \notin Ended => Active
    BY DEF ManagerInv, EndInv, IdleInv, Active
  <2>3. journal.phase \notin Ended \cup {"VALIDATING"} => job.id = journal.id
    BY <2>2 DEF ManagerInv, ManagerTypeOK, Step, ValidateInv, ReplaceInv, RestoreInv, EndInv, IdleInv, Active,
                Stranded
  <2>. QED BY <2>1, <2>2, <2>3
<1>. QED BY <1>1, <1>2, <1>3, <1>4 DEF Crashed

(* What is in use of the service's calls and files bears a request id.      *)
Identified ==
  /\ update.phase # "none" => update.id \in Request
  /\ IF told.phase = "none" THEN told.id = NoRequest ELSE told.id \in Request
  /\ told.phase \in Phase
  /\ run = "drain" => update.phase # "none"
  /\ run = "post" => posted \in Request /\ update.phase # "none"
  /\ recovery # "none" => recovering \in Request

TypeInv == UpdateTypeOK /\ ManagerInv /\ IdleInv /\ Identified

(* What reconcile() does with the status it was told: it is saved, and the *)
(* mode and the recovery follow unless the server dies first.              *)
LEMMA ConcludeFacts ==
  ASSUME Conclude
  PROVE  /\ query = "told" /\ told.id = update.id /\ update' = told
         /\ query' = "none" /\ told' = Untold
         /\ UNCHANGED <<manager, posts, history>>
         /\ mode' \in {mode, Released(told)}
         /\ \/ UNCHANGED <<run, posted, answer>>
            \/ run' = "none" /\ posted' = NoRequest /\ answer' = "none"
         /\ \/ UNCHANGED recover
            \/ recovery' = "none" /\ recovering' = NoRequest /\ recovers' = recovers
            \/ SendRecovery(told)
<1> USE DEF start, recover
<1>1. CASE UNCHANGED mode /\ Forget
  BY <1>1 DEF Conclude, Record, UpdateThenMode, Forget
<1>2. CASE ~(UNCHANGED mode /\ Forget)
  BY <1>2 DEF Conclude, Record, UpdateThenMode
<1>. QED BY <1>1, <1>2

(* Every step keeps the service's files and messages well typed.           *)
LEMMA TypeStep ==
  ASSUME UpdateTypeOK, IdleInv, Identified, ManagerTypeOK', [Next]_vars
  PROVE  UpdateTypeOK' /\ Identified'
<1> USE Constants, AdminAssumption
    DEF IdleInv, Identified, UpdateTypeOK, ManagerTypeOK, StatusType, JobType, Phase, Ended, Status, Mode, Untold, start, reconcile, recover,
        history, service, Forget, Released, UpdateThenMode, Record, SendRecovery
<1>1. CASE UpdaterStep \/ UNCHANGED vars
  BY <1>1 DEF UpdaterStep, vars
<1>2. CASE UpdaterCrashes
  BY <1>2 DEF UpdaterCrashes
<1>3. ASSUME NEW r \in Request, BeginStart(r) PROVE UpdateTypeOK' /\ Identified'
  BY <1>3 DEF BeginStart, manager
<1>4. ASSUME NEW r \in Request, HandlePost(r) PROVE UpdateTypeOK' /\ Identified'
  BY <1>4 DEF HandlePost, Answer
<1>5. ASSUME NEW r \in Request, HandleRecovery(r) PROVE UpdateTypeOK' /\ Identified'
  BY <1>5 DEF HandleRecovery
<1>6. CASE DrainFails
  BY <1>6 DEF DrainFails
<1>7. CASE Dispatch
  BY <1>7 DEF Dispatch
<1>8. CASE ReadAnswer
  BY <1>8 DEF ReadAnswer
<1>9. CASE GiveUp \/ ReleaseEnded \/ Ask \/ AskFails \/ Tell
  BY <1>9 DEF GiveUp, ReleaseEnded, Ask, AskFails, Tell
<1>10. CASE EndInterrupted
  BY <1>10 DEF EndInterrupted
<1>11. CASE Conclude
  <2>1. /\ update' = told /\ query' = "none" /\ told' = Untold /\ UNCHANGED <<manager, posts, history>>
        /\ mode' \in {mode, Released(told)} /\ run' \in {run, "none"} /\ posted' \in {posted, NoRequest}
        /\ run' = "none" \/ UNCHANGED <<run, posted>>
        /\ answer' \in {answer, "none"}
    BY <1>11, ConcludeFacts
  <2>2. /\ recovery' \in {recovery, "none", "sent"} /\ recovering' \in {recovering, NoRequest, told.id}
        /\ recovers' \in {recovers, recovers \cup {told.id}}
        /\ recovery' # "none" => recovering' \in Request
        /\ recovers' # recovers => told.id \in Request
    BY <1>11, ConcludeFacts
  <2>3. mode' \in [mode : {"normal", "draining", "maintenance"}, owner : Request \cup {NoRequest, Admin}]
    BY <2>1
  <2>4. run' # "none" => told.phase # "none"
    BY <1>11, <2>1, ConcludeFacts
  <2>6. recovery' # "none" => recovering' \in Request
    BY <2>2
  <2>7. told'.phase = "none" /\ told'.id = NoRequest /\ "none" \in Phase
    BY <2>1
  <2>8. update' = told /\ (run' = "post" => posted' \in Request)
    BY <2>1
  <2>9. Identified'
    BY <2>4, <2>6, <2>7, <2>8
  <2>5. UpdateTypeOK'
    BY <2>1, <2>2, <2>3
  <2>. QED BY <2>5, <2>9
<1>12. CASE PostRecovery \/ ReadRecovery \/ GiveUpRecovery
  BY <1>12 DEF PostRecovery, ReadRecovery, GiveUpRecovery
<1>13. CASE LosePost \/ AdminSetsMode \/ CrashServer
  BY <1>13 DEF LosePost, AdminSetsMode, CrashServer
<1>. QED BY <1>1, <1>2, <1>3, <1>4, <1>5, <1>6, <1>7, <1>8, <1>9, <1>10, <1>11, <1>12, <1>13 DEF Next

-----------------------------------------------------------------------------
(* The updater's steps.                                                   *)

(* What the updater's goroutine does keeps what the server relies on.      *)
LEMMA UpdaterStepServer ==
  ASSUME TypeInv, ServerInv, UpdaterStep
  PROVE  ServerInv'
<1>1. Worked
  BY WorkMoves DEF UpdaterStep, TypeInv
<1>2. UNCHANGED <<update, mode, run, posted, posts, answer, query, told, recovery, recovering, recovers, drawn, misfiled>>
  BY DEF UpdaterStep, service, start, reconcile, recover, history
<1>3. job.phase \in Ended => work = "end"
  BY <1>1 DEF TypeInv, ManagerInv, EndInv, Worked
<1>4. ASSUME NEW r \in Request
      PROVE  Fresh(r) => Fresh(r)'
  BY <1>1, <1>2, Constants, LicenseAssumption DEF Fresh, Worked, File
<1>5. ASSUME NEW r \in Request
      PROVE  Discarded(r) => Discarded(r)'
  BY <1>1, Constants, LicenseAssumption DEF Discarded, Worked, Forward, File
<1>6. ASSUME NEW r \in Request
      PROVE  Unaccepted(r) => Unaccepted(r)'
  BY <1>1, <1>5 DEF Unaccepted, Worked, Stranded
<1>7. ASSUME NEW r \in Request
      PROVE  Settled(r) => Settled(r)'
  BY <1>1 DEF Settled, Worked
<1>8. ASSUME NEW r \in Request
      PROVE  Installed(r) => Installed(r)'
  BY <1>1, <1>2 DEF Installed, Recovering, Shows, Worked
<1>9. IdsInv' /\ FreshInv' /\ PostInv'
  BY <1>1, <1>2, <1>4 DEF ServerInv, IdsInv, FreshInv, PostInv, Held, Shows, Worked
<1>10. RunInv'
  BY <1>2, <1>6 DEF ServerInv, RunInv, Shows, TypeInv, Identified
<1>11. RecoverInv'
  BY <1>2, <1>7 DEF ServerInv, RecoverInv, Recovering, Shows
<1>12. ActiveInv'
  BY <1>1, <1>2 DEF ServerInv, ActiveInv, Held, Worked
<1>13. OutcomeInv'
  BY <1>2, <1>5, <1>8 DEF ServerInv, OutcomeInv, TypeInv, Identified
<1>. QED BY <1>9, <1>10, <1>11, <1>12, <1>13 DEF ServerInv

(* A crash of the updater loses the requests on their way and takes back   *)
(* at most what no outcome was shown for.                                  *)
LEMMA UpdaterCrashServer ==
  ASSUME TypeInv, ServerInv, UpdaterCrashes
  PROVE  ServerInv'
<1>1. Crashed
  BY CrashMoves DEF UpdaterCrashes, TypeInv
<1>2. /\ UNCHANGED <<update, mode, run, posted, answer, query, told, recovery, recovering, drawn, misfiled>>
      /\ posts' = {} /\ recovers' = {}
  BY DEF UpdaterCrashes, reconcile, history
<1>4. ASSUME NEW r \in Request
      PROVE  Fresh(r) => Fresh(r)'
  BY <1>1, <1>2, LicenseAssumption DEF Fresh, Crashed, File
<1>5. ASSUME NEW r \in Request
      PROVE  Discarded(r) => Discarded(r)'
  BY <1>1, LicenseAssumption DEF Discarded, Crashed, Forward, File
<1>6. ASSUME NEW r \in Request
      PROVE  Unaccepted(r) => Unaccepted(r)'
  BY <1>1, <1>5 DEF Unaccepted, Crashed
<1>7. ASSUME NEW r \in Request
      PROVE  Settled(r)'
  BY <1>1 DEF Settled, Crashed, Forward
<1>8. ASSUME NEW r \in Request
      PROVE  Installed(r) => Installed(r)'
  <2>1. r \notin recovers'
    BY <1>2
  <2>2. Installed(r) => work \notin Forward \cup {"restartOld"}
    BY DEF Installed, Forward
  <2>3. Recovering(r)' => Recovering(r)
    BY <1>2 DEF Recovering, Shows
  <2>. QED BY <1>1, <2>2, <2>3 DEF Installed, Crashed, Ended
<1>9. IdsInv' /\ FreshInv' /\ PostInv'
  BY <1>1, <1>2, <1>4 DEF ServerInv, IdsInv, FreshInv, PostInv, Held, Shows, Crashed
<1>10. RunInv'
  BY <1>2, <1>6 DEF ServerInv, RunInv, Shows, TypeInv, Identified
<1>11. RecoverInv'
  BY <1>2, <1>7 DEF ServerInv, RecoverInv, Recovering, Shows
<1>12. ActiveInv'
  BY <1>1, <1>2 DEF ServerInv, ActiveInv, Held, Crashed
<1>13. OutcomeInv'
  BY <1>2, <1>5, <1>8 DEF ServerInv, OutcomeInv, TypeInv, Identified
<1>. QED BY <1>9, <1>10, <1>11, <1>12, <1>13 DEF ServerInv

(* The updater accepts or refuses a posted license.                        *)
LEMMA PostServer ==
  ASSUME TypeInv, ServerInv, NEW p \in Request, HandlePost(p)
  PROVE  ServerInv'
<1>1. /\ p \in posts /\ posts' = posts \ {p}
      /\ UNCHANGED <<update, mode, run, posted, query, told, recovery, recovering, recovers, drawn, misfiled>>
  BY DEF HandlePost, reconcile, recover, history
<1>2. /\ Fresh(p) /\ update.id = p /\ update.phase = "DISPATCHING" /\ Held(p)
      /\ posts' = {}
  BY <1>1 DEF ServerInv, FreshInv, PostInv, Shows
<1>3. run = "post" => posted = p
  BY <1>2 DEF ServerInv, RunInv, Shows
<1>4. CASE StartAccepted(p) /\ Answer(p, "VALIDATING")
  <2>1. /\ job'.id = p /\ job'.phase = "VALIDATING" /\ job'.prior = Unrecorded
        /\ journal' = job' /\ work' = "validate" /\ before' = file
        /\ withdrawn' = FALSE /\ UNCHANGED <<file, loaded>>
        /\ answer' = IF posted = p THEN "VALIDATING" ELSE answer
    BY <1>4 DEF StartAccepted, Job, Answer
  <2>2. ASSUME NEW r \in Request, r # p
        PROVE  /\ Fresh(r) => Fresh(r)'
               /\ Discarded(r) => Discarded(r)'
               /\ Settled(r)'
    BY <1>1, <2>1, <2>2, LicenseAssumption DEF Fresh, Discarded, Settled, File
  <2>3. ASSUME NEW r \in Request PROVE (Recovering(r) \/ Shows(told, r, "RECOVERY_REQUIRED")) => r # p
    BY <1>2 DEF Recovering, Shows, Fresh
  <2>4. told.id # p
    BY <1>2 DEF Fresh
  <2>5. IdsInv' /\ FreshInv' /\ PostInv'
    BY <1>1, <1>2, <2>1, <2>2 DEF ServerInv, IdsInv, FreshInv, PostInv, Shows, Fresh
  <2>6. RunInv'
    <3>1. run # "post" => answer' = "none"
      BY <1>3, <2>1, LicenseAssumption DEF ServerInv, RunInv
    <3>2. answer' # "none" => posted \notin posts'
      BY <1>2
    <3>3. answer' = "rejected" => Unaccepted(posted)'
      BY <1>1, <1>2, <2>1, <1>3, <2>2 DEF ServerInv, RunInv, Unaccepted, TypeInv, Identified
    <3>. QED BY <1>1, <3>1, <3>2, <3>3 DEF ServerInv, RunInv, Shows
  <2>7. RecoverInv'
    BY <1>1, <2>2, <2>3 DEF ServerInv, RecoverInv, Recovering, Shows
  <2>8. ActiveInv'
    BY <1>1, <1>2, <2>1, <2>4 DEF ActiveInv, Held, Ended
  <2>9. OutcomeInv'
    BY <1>1, <1>2, <2>2, <2>4 DEF ServerInv, OutcomeInv, TypeInv, Identified
  <2>. QED BY <2>5, <2>6, <2>7, <2>8, <2>9 DEF ServerInv
<1>5. CASE StartNotSaved(p) /\ Answer(p, "rejected")
  <2>1. /\ job'.id = p /\ job'.phase = "VALIDATING" /\ job'.prior = Unrecorded
        /\ UNCHANGED <<journal, file, loaded, before, work>> /\ work = "none" /\ withdrawn' = FALSE
        /\ answer' = IF posted = p THEN "rejected" ELSE answer
    BY <1>5 DEF StartNotSaved, Available, Job, Answer
  <2>2. ASSUME NEW r \in Request, r # p
        PROVE  /\ Fresh(r) => Fresh(r)'
               /\ Discarded(r) => Discarded(r)'
               /\ Settled(r)'
    BY <1>1, <2>1, <2>2, LicenseAssumption DEF Fresh, Discarded, Settled, File
  <2>3. Unaccepted(p)' /\ Settled(p)'
    BY <1>1, <1>2, <2>1, LicenseAssumption DEF Unaccepted, Discarded, Settled, Stranded, Fresh, Forward, File
  <2>4. told.id # p
    BY <1>2 DEF Fresh
  <2>5. IdsInv' /\ FreshInv' /\ PostInv'
    BY <1>1, <1>2, <2>1, <2>2 DEF ServerInv, IdsInv, FreshInv, PostInv, Shows, Fresh
  <2>6. RunInv'
    <3>1. run # "post" => answer' = "none"
      BY <1>3, <2>1, LicenseAssumption DEF ServerInv, RunInv
    <3>2. answer' # "none" => posted \notin posts'
      BY <1>2
    <3>3. answer' = "rejected" => Unaccepted(posted)'
      BY <1>1, <1>2, <1>3, <2>1, <2>3 DEF ServerInv, RunInv
    <3>. QED BY <1>1, <3>1, <3>2, <3>3 DEF ServerInv, RunInv, Shows
  <2>7. RecoverInv'
    BY <1>1, <2>2, <2>3 DEF ServerInv, RecoverInv, Recovering, Shows
  <2>8. ActiveInv'
    BY <2>1 DEF ActiveInv, Active, Stranded
  <2>9. OutcomeInv'
    BY <1>1, <1>2, <2>2, <2>4 DEF ServerInv, OutcomeInv, TypeInv, Identified
  <2>. QED BY <2>5, <2>6, <2>7, <2>8, <2>9 DEF ServerInv
<1>6. CASE UNCHANGED manager /\ Answer(p, "rejected")
  <2>1. /\ UNCHANGED <<job, journal, file, loaded, work, before, withdrawn>>
        /\ answer' = IF posted = p THEN "rejected" ELSE answer
    BY <1>6 DEF manager, Answer
  <2>2. ASSUME NEW r \in Request
        PROVE  /\ Fresh(r)' <=> Fresh(r)
               /\ Discarded(r)' <=> Discarded(r)
               /\ Settled(r)' <=> Settled(r)
               /\ Installed(r)' <=> Installed(r)
               /\ Unaccepted(r)' <=> Unaccepted(r)
    BY <1>1, <2>1 DEF Fresh, Discarded, Settled, Installed, Recovering, Shows, Unaccepted, Stranded
  <2>3. Unaccepted(p)
    BY <1>2 DEF Fresh, Unaccepted, Discarded
  <2>5. IdsInv' /\ FreshInv' /\ PostInv'
    BY <1>1, <1>2, <2>1, <2>2 DEF ServerInv, IdsInv, FreshInv, PostInv, Shows
  <2>6. RunInv'
    <3>1. run # "post" => answer' = "none"
      BY <1>3, <2>1, LicenseAssumption DEF ServerInv, RunInv
    <3>2. answer' # "none" => posted \notin posts'
      BY <1>2
    <3>3. answer' = "rejected" => Unaccepted(posted)'
      BY <1>1, <1>2, <1>3, <2>1, <2>2, <2>3 DEF ServerInv, RunInv
    <3>. QED BY <1>1, <3>1, <3>2, <3>3 DEF ServerInv, RunInv, Shows
  <2>7. RecoverInv'
    BY <1>1, <2>2 DEF ServerInv, RecoverInv, Recovering, Shows
  <2>8. ActiveInv'
    BY <1>1, <2>1 DEF ServerInv, ActiveInv, Active, Stranded, Held
  <2>9. OutcomeInv'
    BY <1>1, <1>2, <2>2 DEF ServerInv, OutcomeInv, TypeInv, Identified
  <2>. QED BY <2>5, <2>6, <2>7, <2>8, <2>9 DEF ServerInv
<1>. QED BY <1>4, <1>5, <1>6 DEF HandlePost

(* The updater accepts a request to recover its job, or refuses it.        *)
LEMMA RecoveryServer ==
  ASSUME TypeInv, ServerInv, NEW p \in Request, HandleRecovery(p)
  PROVE  ServerInv'
<1>1. /\ p \in recovers /\ recovers' = recovers \ {p}
      /\ UNCHANGED <<update, mode, run, posted, posts, answer, query, told, drawn, misfiled>>
      /\ recovering' \in {recovering, NoRequest}
      /\ recovery' = "told" => recovery = "told" \/ (recovering' = recovering /\ recovering = p)
      /\ recovering' = NoRequest => recovery' # "told" \/ recovering = NoRequest
      /\ recovery' = "told" => recovering' = recovering
  BY DEF HandleRecovery, start, reconcile, history
<1>2. \/ UNCHANGED <<job, journal, file, loaded, work, before, withdrawn>>
      \/ /\ UNCHANGED <<job, journal, file, loaded, before, withdrawn>>
         /\ work = "none" /\ work' = "restore" /\ job.phase = "RECOVERY_REQUIRED" /\ job.id = p
  BY DEF HandleRecovery, RecoverAccepted, manager
<1>3. Active' <=> Active
  BY <1>2 DEF Active, Stranded
<1>4. ASSUME NEW r \in Request
      PROVE  /\ Fresh(r) => Fresh(r)'
             /\ Discarded(r) => Discarded(r)'
             /\ Settled(r) => Settled(r)'
             /\ Unaccepted(r) => Unaccepted(r)'
  BY <1>1, <1>2, LicenseAssumption DEF Fresh, Discarded, Settled, Unaccepted, Stranded, Forward
<1>5. ASSUME NEW r \in Request
      PROVE  Installed(r) => Installed(r)'
  BY <1>1, <1>2, LicenseAssumption DEF Installed, Recovering, Shows
<1>6. IdsInv' /\ FreshInv' /\ PostInv'
  BY <1>1, <1>2, <1>4 DEF ServerInv, IdsInv, FreshInv, PostInv, Shows, Held
<1>7. RunInv'
  BY <1>1, <1>4 DEF ServerInv, RunInv, Shows, TypeInv, Identified
<1>8. RecoverInv'
  BY <1>1, <1>4, LicenseAssumption DEF ServerInv, RecoverInv, Recovering, Shows
<1>9. ActiveInv'
  BY <1>1, <1>2, <1>3 DEF ServerInv, ActiveInv, Held
<1>10. OutcomeInv'
  BY <1>1, <1>4, <1>5 DEF ServerInv, OutcomeInv, TypeInv, Identified
<1>. QED BY <1>6, <1>7, <1>8, <1>9, <1>10 DEF ServerInv

-----------------------------------------------------------------------------
(* The server's steps, the network's and the administrator's.              *)

(* What is said of the license and the job alone, while they stay.         *)
LEMMA ManagerStays ==
  ASSUME UNCHANGED manager
  PROVE  /\ UNCHANGED <<job, journal, file, loaded, work, before, withdrawn>>
         /\ Active' <=> Active
         /\ \A r \in Request :
              /\ Discarded(r)' <=> Discarded(r)
              /\ Unaccepted(r)' <=> Unaccepted(r)
              /\ Settled(r)' <=> Settled(r)
BY DEF manager, Active, Stranded, Discarded, Unaccepted, Settled

(* A new request is one that nothing in the system knows of.               *)
LEMMA BeginServer ==
  ASSUME TypeInv, ServerInv, NEW p \in Request, BeginStart(p)
  PROVE  ServerInv'
<1>1. /\ Fresh(p) /\ update.phase \in Ended /\ posts = {} /\ run = "none" /\ query = "none"
      /\ ~Active \/ withdrawn
  BY DEF BeginStart, ServerInv, FreshInv, PostInv, RunInv, ActiveInv, Shows, Ended, TypeInv, UpdateTypeOK
<1>2. /\ UNCHANGED manager /\ drawn' = drawn \cup {p}
      /\ update'.id = p /\ update'.phase = "DRAINING"
      /\ UNCHANGED <<posted, posts, answer, recovers, misfiled>> \/ Forget
      /\ posts' = {} /\ recovers' = recovers /\ query' = "none" /\ run' \in {"none", "drain"}
      /\ posted' = NoRequest /\ answer' = "none"
      /\ UNCHANGED told \/ told' = Untold
      /\ UNCHANGED <<recovery, recovering>> \/ (recovery' = "none" /\ recovering' = NoRequest)
  BY <1>1 DEF BeginStart, UpdateThenMode, Forget, Status, reconcile, recover, ServerInv, RunInv
<1>3. /\ Active' <=> Active
      /\ UNCHANGED <<job, journal, file, loaded, work, before, withdrawn>>
      /\ \A r \in Request : (Discarded(r)' <=> Discarded(r)) /\ (Settled(r)' <=> Settled(r))
  BY <1>2, ManagerStays
<1>4. \A r \in Request : Fresh(r) => Fresh(r)'
  BY <1>2, <1>3, LicenseAssumption DEF Fresh, Untold, Status
<1>5. \A r \in Request : Recovering(r)' => Recovering(r) /\ r # p
  BY <1>1, <1>2, LicenseAssumption DEF Recovering, Shows, Fresh
<1>6. IdsInv' /\ FreshInv' /\ PostInv'
  BY <1>1, <1>2, <1>3, <1>4 DEF ServerInv, IdsInv, FreshInv, PostInv, Shows
<1>7. RunInv'
  BY <1>2 DEF RunInv, Shows
<1>8. RecoverInv'
  <2>1. \A r \in Request : Shows(told, r, "RECOVERY_REQUIRED")' => Shows(told, r, "RECOVERY_REQUIRED")
    BY <1>2 DEF Shows, Untold, Status
  <2>2. recovery' = "told" => recovering' \in Request
    BY <1>2 DEF ServerInv, RecoverInv
  <2>3. \A r \in Request : (r \in recovers' \/ recovering' = r) => r # update'.id
    BY <1>2, <1>5 DEF Recovering
  <2>. QED BY <1>3, <1>5, <2>1, <2>2, <2>3 DEF ServerInv, RecoverInv
<1>9. ActiveInv'
  BY <1>1, <1>3 DEF ActiveInv
<1>10. OutcomeInv'
  BY <1>1, <1>2, <1>3 DEF ServerInv, OutcomeInv, Untold, Status, TypeInv, Identified, Fresh, Phase
<1>. QED BY <1>6, <1>7, <1>8, <1>9, <1>10 DEF ServerInv

(* A request that ends before it is dispatched never reached the updater.  *)
LEMMA DrainServer ==
  ASSUME TypeInv, ServerInv, DrainFails \/ EndInterrupted
  PROVE  ServerInv'
<1>1. /\ update.phase = "DRAINING" /\ update.id \in Request /\ posts = {} /\ run # "post" /\ query = "none"
  BY DEF DrainFails, EndInterrupted, ServerInv, PostInv, RunInv, Shows, TypeInv, Identified
<1>11. Fresh(update.id)
  BY <1>1 DEF ServerInv, FreshInv, Shows
<1>12. ~Active \/ withdrawn
  BY <1>1 DEF ServerInv, ActiveInv
<1>2. /\ UNCHANGED manager /\ drawn' = drawn
      /\ update'.id = update.id /\ update'.phase = "FAILED"
      /\ posts' = {} /\ recovers' = recovers /\ query' = "none" /\ run' = "none"
      /\ posted' = NoRequest /\ answer' = "none"
      /\ UNCHANGED told \/ told' = Untold
      /\ UNCHANGED <<recovery, recovering>> \/ (recovery' = "none" /\ recovering' = NoRequest)
  BY <1>1 DEF DrainFails, EndInterrupted, Record, UpdateThenMode, Forget, Status, start, reconcile, recover, history,
              ServerInv, RunInv, TypeInv, UpdateTypeOK, StatusType
<1>3. /\ Active' <=> Active
      /\ UNCHANGED <<job, journal, file, loaded, work, before, withdrawn>>
      /\ \A r \in Request : (Discarded(r)' <=> Discarded(r)) /\ (Settled(r)' <=> Settled(r))
  BY <1>2, ManagerStays
<1>4. \A r \in Request : Fresh(r) => Fresh(r)'
  BY <1>2, <1>3, LicenseAssumption DEF Fresh, Untold, Status
<1>5. \A r \in Request : Recovering(r)' => Recovering(r)
  BY <1>2, LicenseAssumption DEF Recovering, Shows
<1>6. IdsInv' /\ FreshInv' /\ PostInv'
  BY <1>1, <1>2, <1>3, <1>4 DEF ServerInv, IdsInv, FreshInv, PostInv, Shows
<1>7. RunInv'
  BY <1>2 DEF RunInv, Shows
<1>8. RecoverInv'
  <2>1. \A r \in Request : Shows(told, r, "RECOVERY_REQUIRED")' => Shows(told, r, "RECOVERY_REQUIRED")
    BY <1>2 DEF Shows, Untold, Status
  <2>2. recovery' = "told" => recovering' \in Request
    BY <1>2 DEF ServerInv, RecoverInv
  <2>. QED BY <1>2, <1>3, <1>5, <2>1, <2>2 DEF ServerInv, RecoverInv
<1>9. ActiveInv'
  BY <1>12, <1>3 DEF ActiveInv
<1>10. OutcomeInv'
  <2>1. Discarded(update.id)
    BY <1>11 DEF Fresh, Discarded
  <2>2. told'.phase \in {"FAILED", "ROLLED_BACK"} => told' = told /\ told.id \in Request
    BY <1>2, <1>11 DEF Untold, Status, TypeInv, Identified
  <2>3. told'.id # update'.id
    BY <1>1, <1>2, <1>11, LicenseAssumption DEF Untold, Status, Fresh
  <2>. QED BY <1>1, <1>2, <1>3, <2>1, <2>2, <2>3 DEF ServerInv, OutcomeInv
<1>. QED BY <1>6, <1>7, <1>8, <1>9, <1>10 DEF ServerInv

(* The request is posted in maintenance, or the server dies before that.   *)
LEMMA DispatchServer ==
  ASSUME TypeInv, ServerInv, Dispatch
  PROVE  ServerInv'
<1>1. /\ update.phase = "DRAINING" /\ update.id \in Request /\ posts = {} /\ run = "drain" /\ query = "none"
      /\ answer = "none"
  BY DEF Dispatch, ServerInv, PostInv, RunInv, Shows, TypeInv, Identified
<1>11. Fresh(update.id)
  BY <1>1 DEF ServerInv, FreshInv, Shows
<1>12. ~Active \/ withdrawn
  BY <1>1 DEF ServerInv, ActiveInv
<1>2. /\ UNCHANGED manager /\ drawn' = drawn /\ update'.id = update.id
      /\ mode'.mode = "maintenance" /\ mode'.owner = update.id
      /\ recovers' = recovers /\ query' = "none" /\ answer' = "none"
      /\ \/ update'.phase = "DISPATCHING" /\ run' = "post" /\ posted' = update.id /\ posts' = {update.id}
         \/ update'.phase = "DRAINING" /\ run' = "none" /\ posted' = NoRequest /\ posts' = {}
      /\ UNCHANGED told \/ told' = Untold
      /\ UNCHANGED <<recovery, recovering>> \/ (recovery' = "none" /\ recovering' = NoRequest)
  BY <1>1 DEF Dispatch, Forget, Mode, start, reconcile, recover, history, TypeInv, UpdateTypeOK, StatusType
<1>3. /\ Active' <=> Active
      /\ UNCHANGED <<job, journal, file, loaded, work, before, withdrawn>>
      /\ \A r \in Request : (Discarded(r)' <=> Discarded(r)) /\ (Settled(r)' <=> Settled(r))
  BY <1>2, ManagerStays
<1>4. \A r \in Request : Fresh(r) => Fresh(r)'
  BY <1>2, <1>3, LicenseAssumption DEF Fresh, Untold, Status
<1>5. \A r \in Request : Recovering(r)' => Recovering(r) /\ r # update.id
  BY <1>2, <1>11, LicenseAssumption DEF Recovering, Shows, Fresh
<1>6. IdsInv' /\ FreshInv' /\ PostInv'
  <2>1. IdsInv'
    BY <1>1, <1>2, <1>3, LicenseAssumption DEF ServerInv, IdsInv
  <2>2. FreshInv'
    BY <1>1, <1>11, <1>2, <1>4 DEF ServerInv, FreshInv, Shows
  <2>3. PostInv'
    BY <1>1, <1>2 DEF PostInv, Held, Shows
  <2>. QED BY <2>1, <2>2, <2>3
<1>7. RunInv'
  BY <1>2 DEF RunInv, Shows
<1>8. RecoverInv'
  <2>1. \A r \in Request : Shows(told, r, "RECOVERY_REQUIRED")' => Shows(told, r, "RECOVERY_REQUIRED")
    BY <1>2 DEF Shows, Untold, Status
  <2>2. recovery' = "told" => recovering' \in Request
    BY <1>2 DEF ServerInv, RecoverInv
  <2>3. \A r \in Request : (r \in recovers' \/ recovering' = r) => r # update'.id
    BY <1>2, <1>5 DEF Recovering
  <2>. QED BY <1>3, <1>5, <2>1, <2>2, <2>3 DEF ServerInv, RecoverInv
<1>9. ActiveInv'
  BY <1>12, <1>3 DEF ActiveInv
<1>10. OutcomeInv'
  <2>2. told'.phase \in {"FAILED", "ROLLED_BACK"} => told' = told /\ told.id \in Request
    BY <1>2, <1>11 DEF Untold, Status, TypeInv, Identified
  <2>3. told'.id # update'.id
    BY <1>1, <1>2, <1>11, LicenseAssumption DEF Untold, Status, Fresh
  <2>. QED BY <1>1, <1>2, <1>3, <2>2, <2>3 DEF ServerInv, OutcomeInv
<1>. QED BY <1>6, <1>7, <1>8, <1>9, <1>10 DEF ServerInv

(* The answer of the updater is recorded as the outcome or as progress.    *)
LEMMA AnswerServer ==
  ASSUME TypeInv, ServerInv, ReadAnswer
  PROVE  ServerInv'
<1>1. /\ update.phase = "DISPATCHING" /\ update.id = posted /\ posted \in Request
      /\ posts = {} /\ query = "none" /\ run = "post" /\ answer \in {"rejected", "VALIDATING"}
  BY DEF ReadAnswer, ServerInv, PostInv, RunInv, Shows, TypeInv, Identified, UpdateTypeOK
<1>2. /\ UNCHANGED manager /\ drawn' = drawn /\ update'.id = update.id
      /\ posts' = {} /\ recovers' = recovers /\ query' = "none" /\ run' = "none"
      /\ posted' = NoRequest /\ answer' = "none"
      /\ \/ answer = "rejected" /\ update'.phase = "FAILED"
         \/ answer = "VALIDATING" /\ update'.phase = "VALIDATING" /\ mode' = mode
      /\ UNCHANGED told \/ told' = Untold
      /\ UNCHANGED <<recovery, recovering>> \/ (recovery' = "none" /\ recovering' = NoRequest)
  BY <1>1 DEF ReadAnswer, Record, Released, UpdateThenMode, Forget, Status, reconcile, recover, history,
              TypeInv, UpdateTypeOK, StatusType, Ended
<1>3. /\ Active' <=> Active
      /\ UNCHANGED <<job, journal, file, loaded, work, before, withdrawn>>
      /\ \A r \in Request : (Discarded(r)' <=> Discarded(r)) /\ (Settled(r)' <=> Settled(r))
  BY <1>2, ManagerStays
<1>4. \A r \in Request : Fresh(r) => Fresh(r)'
  BY <1>2, <1>3, LicenseAssumption DEF Fresh, Untold, Status
<1>5. \A r \in Request : Recovering(r)' => Recovering(r)
  BY <1>2, LicenseAssumption DEF Recovering, Shows
<1>6. IdsInv' /\ FreshInv' /\ PostInv'
  BY <1>1, <1>2, <1>3, <1>4 DEF ServerInv, IdsInv, FreshInv, PostInv, Shows
<1>7. RunInv'
  BY <1>2 DEF RunInv, Shows
<1>8. RecoverInv'
  <2>1. \A r \in Request : Shows(told, r, "RECOVERY_REQUIRED")' => Shows(told, r, "RECOVERY_REQUIRED")
    BY <1>2 DEF Shows, Untold, Status
  <2>2. recovery' = "told" => recovering' \in Request
    BY <1>2 DEF ServerInv, RecoverInv
  <2>. QED BY <1>2, <1>3, <1>5, <2>1, <2>2 DEF ServerInv, RecoverInv
<1>9. ActiveInv'
  <2>1. ~withdrawn /\ Active => answer # "rejected"
    BY <1>1 DEF ServerInv, ActiveInv, RunInv, Unaccepted, Active
  <2>2. ~withdrawn /\ Active => job.id \in Request
    BY DEF Active, TypeInv, IdleInv, Ended
  <2>3. ~withdrawn /\ Active /\ told'.id = job.id => told'.phase \notin Ended
    BY <1>2, <2>2, LicenseAssumption DEF Untold, Status, ServerInv, ActiveInv
  <2>. QED BY <1>1, <1>2, <1>3, <2>1, <2>3 DEF ServerInv, ActiveInv, Held, Ended
<1>10. OutcomeInv'
  <2>1. answer = "rejected" => Discarded(update.id)
    BY <1>1 DEF ServerInv, RunInv, Unaccepted
  <2>2. told'.phase \in {"FAILED", "ROLLED_BACK"} => told' = told /\ told.id \in Request
    BY <1>2 DEF Untold, Status, TypeInv, Identified
  <2>3. told'.phase = "SUCCEEDED" => told' = told
    BY <1>2 DEF Untold, Status
  <2>4. \A r \in Request : Installed(r) => Installed(r)'
    BY <1>3, <1>5 DEF Installed
  <2>. QED BY <1>1, <1>2, <1>3, <2>1, <2>2, <2>3, <2>4 DEF ServerInv, OutcomeInv
<1>. QED BY <1>6, <1>7, <1>8, <1>9, <1>10 DEF ServerInv

(* A call that is given up, an answer that is lost and a server that dies  *)
(* change neither the job nor the mode: the server then knows less.        *)
LEMMA ForgetServer ==
  ASSUME TypeInv, ServerInv, GiveUp \/ AskFails \/ GiveUpRecovery \/ LosePost \/ CrashServer
  PROVE  ServerInv'
<1>1. /\ UNCHANGED manager /\ UNCHANGED <<update, mode, drawn>>
      /\ posts' \subseteq posts /\ recovers' \subseteq recovers
      /\ query' = "none" \/ UNCHANGED <<query, run>>
      /\ UNCHANGED <<run, posted, answer>> \/ (run' = "none" /\ posted' = NoRequest /\ answer' = "none")
      /\ UNCHANGED told \/ told' = Untold
      /\ UNCHANGED <<recovery, recovering>> \/ (recovery' = "none" /\ recovering' = NoRequest)
  BY DEF GiveUp, AskFails, GiveUpRecovery, LosePost, CrashServer, Forget, start, reconcile, recover, history,
         ServerInv, RunInv
<1>2. /\ Active' <=> Active
      /\ UNCHANGED <<job, journal, file, loaded, work, before, withdrawn>>
      /\ \A r \in Request : /\ (Discarded(r)' <=> Discarded(r)) /\ (Settled(r)' <=> Settled(r))
                            /\ Unaccepted(r)' <=> Unaccepted(r)
  BY <1>1, ManagerStays
<1>3. \A r \in Request : Fresh(r) => Fresh(r)'
  BY <1>1, <1>2, LicenseAssumption DEF Fresh, Untold, Status
<1>4. \A r \in Request : Recovering(r)' => Recovering(r)
  BY <1>1, LicenseAssumption DEF Recovering, Shows
<1>5. \A r \in Request : Installed(r) => Installed(r)'
  BY <1>2, <1>4 DEF Installed
<1>6. IdsInv' /\ FreshInv' /\ PostInv'
  <2>1. IdsInv'
    BY <1>1, <1>2 DEF ServerInv, IdsInv
  <2>2. FreshInv'
    BY <1>1, <1>3 DEF ServerInv, FreshInv, Shows
  <2>3. PostInv'
    BY <1>1 DEF ServerInv, PostInv, Held, Shows
  <2>. QED BY <2>1, <2>2, <2>3
<1>7. RunInv'
  <2>1. answer' = "rejected" => Unaccepted(posted)'
    BY <1>1, <1>2 DEF ServerInv, RunInv, TypeInv, Identified
  <2>. QED BY <1>1, <2>1 DEF ServerInv, RunInv, Shows
<1>8. RecoverInv'
  <2>1. \A r \in Request : Shows(told, r, "RECOVERY_REQUIRED")' => Shows(told, r, "RECOVERY_REQUIRED")
    BY <1>1 DEF Shows, Untold, Status
  <2>2. recovery' = "told" => recovering' \in Request
    BY <1>1 DEF ServerInv, RecoverInv
  <2>3. \A r \in Request : (r \in recovers' \/ recovering' = r) => (r \in recovers \/ recovering = r)
    BY <1>1, LicenseAssumption
  <2>. QED BY <1>1, <1>2, <1>4, <2>1, <2>2, <2>3 DEF ServerInv, RecoverInv
<1>9. ActiveInv'
  <2>1. Active => job.id \in Request
    BY DEF Active, TypeInv, IdleInv, Ended
  <2>. QED BY <1>1, <1>2, <2>1, LicenseAssumption DEF ServerInv, ActiveInv, Held, Untold, Status
<1>10. OutcomeInv'
  <2>1. told'.phase \in {"FAILED", "ROLLED_BACK"} => told' = told /\ told.id \in Request
    BY <1>1 DEF Untold, Status, TypeInv, Identified
  <2>2. told'.phase = "SUCCEEDED" => told' = told
    BY <1>1 DEF Untold, Status
  <2>3. update.phase \in Ended \ {"none"} => update.id \in Request
    BY DEF TypeInv, Identified
  <2>4. told.phase = "SUCCEEDED" => told.id \in Request
    BY DEF TypeInv, Identified
  <2>. QED BY <1>1, <1>2, <1>5, <2>1, <2>2, <2>3, <2>4 DEF ServerInv, OutcomeInv, Ended
<1>. QED BY <1>6, <1>7, <1>8, <1>9, <1>10 DEF ServerInv

(* The mode is changed by an administrator, or once the request has ended. *)
LEMMA ModeServer ==
  ASSUME TypeInv, ServerInv, AdminSetsMode \/ ReleaseEnded
  PROVE  ServerInv'
<1>1. /\ UNCHANGED manager /\ UNCHANGED <<update, drawn, run, posted, posts, answer, query, told>>
      /\ UNCHANGED <<recovery, recovering, recovers>>
      /\ mode'.owner = Admin \/ update.phase \in Ended
  BY DEF AdminSetsMode, ReleaseEnded, Mode, start, reconcile, recover, history
<1>2. /\ Active' <=> Active
      /\ UNCHANGED <<job, journal, file, loaded, work, before, withdrawn>>
      /\ \A r \in Request : /\ (Discarded(r)' <=> Discarded(r)) /\ (Settled(r)' <=> Settled(r))
                            /\ Unaccepted(r)' <=> Unaccepted(r)
  BY <1>1, ManagerStays
<1>3. \A r \in Request : (Fresh(r)' <=> Fresh(r)) /\ (Recovering(r)' <=> Recovering(r))
  BY <1>1, <1>2 DEF Fresh, Recovering, Shows
<1>5. \A r \in Request : Installed(r) => Installed(r)'
  BY <1>2, <1>3 DEF Installed
<1>6. IdsInv' /\ FreshInv' /\ PostInv'
  <2>1. IdsInv' /\ FreshInv'
    BY <1>1, <1>2, <1>3 DEF ServerInv, IdsInv, FreshInv, Shows
  <2>2. PostInv'
    BY <1>1 DEF ServerInv, PostInv, Held, Shows, Ended
  <2>. QED BY <2>1, <2>2
<1>7. RunInv'
  <2>1. answer' = "rejected" => Unaccepted(posted)'
    BY <1>1, <1>2 DEF ServerInv, RunInv, TypeInv, Identified
  <2>. QED BY <1>1, <2>1 DEF ServerInv, RunInv, Shows
<1>8. RecoverInv'
  BY <1>1, <1>2, <1>3 DEF ServerInv, RecoverInv, Shows
<1>9. ActiveInv'
  BY <1>1, <1>2 DEF ServerInv, ActiveInv, Held
<1>10. OutcomeInv'
  BY <1>1, <1>2, <1>5 DEF ServerInv, OutcomeInv, TypeInv, Identified
<1>. QED BY <1>6, <1>7, <1>8, <1>9, <1>10 DEF ServerInv

(* The updater is asked for its status and reports that of its job.        *)
LEMMA AskServer ==
  ASSUME TypeInv, ServerInv, Ask \/ Tell
  PROVE  ServerInv'
<1>1. /\ UNCHANGED manager /\ UNCHANGED <<update, mode, drawn, run, posted, posts, answer>>
      /\ UNCHANGED <<recovery, recovering, recovers>>
      /\ query' # "none" /\ run = "none" /\ update.phase \notin Ended \cup {"DRAINING"}
      /\ UNCHANGED told \/ (told'.id = job.id /\ told'.phase = job.phase)
  BY DEF Ask, Tell, Status, start, reconcile, recover, history, ServerInv, RunInv
<1>2. /\ Active' <=> Active
      /\ UNCHANGED <<job, journal, file, loaded, work, before, withdrawn>>
      /\ \A r \in Request : /\ (Discarded(r)' <=> Discarded(r)) /\ (Settled(r)' <=> Settled(r))
                            /\ Unaccepted(r)' <=> Unaccepted(r)
  BY <1>1, ManagerStays
<1>3. \A r \in Request : (Fresh(r) => Fresh(r)') /\ (Recovering(r)' <=> Recovering(r))
  BY <1>1, <1>2 DEF Fresh, Recovering, Shows
<1>5. \A r \in Request : Installed(r) => Installed(r)'
  BY <1>2, <1>3 DEF Installed
<1>6. IdsInv' /\ FreshInv' /\ PostInv'
  BY <1>1, <1>2, <1>3 DEF ServerInv, IdsInv, FreshInv, PostInv, Held, Shows
<1>7. RunInv'
  <2>1. answer' = "rejected" => Unaccepted(posted)'
    BY <1>1, <1>2 DEF ServerInv, RunInv, TypeInv, Identified
  <2>. QED BY <1>1, <2>1 DEF ServerInv, RunInv, Shows
<1>8. RecoverInv'
  <2>1. \A r \in Request : job.id = r /\ job.phase = "RECOVERY_REQUIRED" => Settled(r)
    BY DEF Settled, TypeInv, ManagerInv, ManagerTypeOK, Step, ValidateInv, ReplaceInv, Forward, IdleInv
  <2>. QED BY <1>1, <1>2, <1>3, <2>1 DEF ServerInv, RecoverInv, Shows
<1>9. ActiveInv'
  <2>1. Active => job.phase \notin Ended
    BY DEF Active
  <2>2. \A r \in Request \cup {NoRequest} : Held(r)' <=> Held(r)
    BY <1>1 DEF Held
  <2>3. job.id \in Request \cup {NoRequest}
    BY DEF TypeInv, IdleInv
  <2>. QED BY <1>1, <1>2, <2>1, <2>2, <2>3 DEF ServerInv, ActiveInv
<1>10. OutcomeInv'
  <2>1. job.phase \in Ended \ {"none"} => job.id \in Request /\ work \in {"none", "end"} /\ journal = job
    BY DEF TypeInv, ManagerInv, EndInv, IdleInv, Ended
  <2>2. \A r \in Request : job.id = r /\ job.phase \in {"FAILED", "ROLLED_BACK"} => Discarded(r)
    <3> SUFFICES ASSUME NEW r \in Request, job.id = r, job.phase \in {"FAILED", "ROLLED_BACK"}
                 PROVE  Discarded(r)
      OBVIOUS
    <3>1. Untouched /\ Known(journal) /\ journal = job /\ before # r /\ work \notin Forward
      BY <2>1 DEF TypeInv, ManagerInv, JournalInv, ServerInv, IdsInv, Ended, Forward
    <3>. QED BY <3>1, LicenseAssumption DEF Discarded, Untouched, Known, File
  <2>3. \A r \in Request : job.id = r /\ job.phase = "SUCCEEDED" => Installed(r)
    <3> SUFFICES ASSUME NEW r \in Request, job.id = r, job.phase = "SUCCEEDED" PROVE Installed(r)
      OBVIOUS
    <3>1. file = r /\ loaded = r /\ journal.id = r /\ work \in {"none", "end"}
      BY <2>1 DEF TypeInv, ManagerInv, JournalInv, Ended
    <3>2. Recovering(r) => work = "none"
      BY DEF ServerInv, RecoverInv, Settled
    <3>. QED BY <3>1, <3>2 DEF Installed
  <2>4. told'.phase \in {"FAILED", "ROLLED_BACK"} => Discarded(told'.id) /\ told'.id \in Request
    BY <1>1, <2>1, <2>2 DEF ServerInv, OutcomeInv, TypeInv, Identified, Ended
  <2>5. told'.phase = "SUCCEEDED" /\ told'.id = update.id => Installed(update.id)
    BY <1>1, <2>1, <2>3 DEF ServerInv, OutcomeInv, Ended
  <2>6. told'.phase = "SUCCEEDED" => told'.id \in Request
    BY <1>1, <2>1 DEF TypeInv, Identified, Ended
  <2>. QED BY <1>1, <1>2, <1>5, <2>4, <2>5, <2>6 DEF OutcomeInv, Ended
<1>. QED BY <1>6, <1>7, <1>8, <1>9, <1>10 DEF ServerInv

(* The status of the updater becomes that of the server, which may ask to  *)
(* recover the job it shows.                                               *)
LEMMA ConcludeServer ==
  ASSUME TypeInv, ServerInv, Conclude
  PROVE  ServerInv'
<1>1. /\ told.id = update.id /\ told.phase \in Phase /\ run = "none" /\ update.phase \notin Ended \cup {"DRAINING"}
      /\ update.id \in Request
  BY ConcludeFacts DEF ServerInv, RunInv, TypeInv, Identified, Ended
<1>11. posts = {}
  BY <1>1 DEF ServerInv, FreshInv, PostInv, Fresh, Shows, TypeInv, UpdateTypeOK
<1>12. told.phase \notin {"DRAINING", "DISPATCHING"}
  BY <1>1 DEF Phase, Ended
<1>2. /\ UNCHANGED manager /\ drawn' = drawn /\ update' = told /\ update'.id = update.id
      /\ posts' = {} /\ query' = "none" /\ run' = "none"
      /\ posted' = NoRequest /\ answer' = "none"
      /\ told'.phase = "none" /\ told'.id = NoRequest
      /\ mode' \in {mode, Released(told)}
      /\ \/ recovers' = recovers /\ recovering' \in {recovering, NoRequest}
         \/ recovers' = recovers \cup {told.id} /\ recovering' = told.id /\ told.phase = "RECOVERY_REQUIRED"
      /\ recovery' = "told" => recovery = "told" /\ recovering' = recovering
  BY <1>1, <1>11, ConcludeFacts DEF SendRecovery, Untold, Status, history, recover, ServerInv, RunInv
<1>3. /\ Active' <=> Active
      /\ UNCHANGED <<job, journal, file, loaded, work, before, withdrawn>>
      /\ \A r \in Request : (Discarded(r)' <=> Discarded(r)) /\ (Settled(r)' <=> Settled(r))
  BY <1>2, ManagerStays
<1>4. \A r \in Request : Fresh(r) => Fresh(r)'
  BY <1>2, <1>3, LicenseAssumption DEF Fresh
<1>5. \A r \in Request : Recovering(r)' => Recovering(r) \/ Shows(told, r, "RECOVERY_REQUIRED")
  BY <1>2, LicenseAssumption DEF Recovering, Shows
<1>6. IdsInv' /\ FreshInv' /\ PostInv'
  BY <1>2, <1>12, <1>3, <1>4 DEF ServerInv, IdsInv, FreshInv, PostInv, Shows
<1>7. RunInv'
  BY <1>2, LicenseAssumption DEF RunInv, Shows
<1>8. RecoverInv'
  <2>1. recovery' = "told" => recovering' \in Request
    BY <1>2 DEF ServerInv, RecoverInv
  <2>2. \A r \in Request : ~Shows(told, r, "RECOVERY_REQUIRED")'
    BY <1>2 DEF Shows
  <2>. QED BY <1>2, <1>12, <1>3, <1>5, <2>1, <2>2 DEF ServerInv, RecoverInv
<1>9. ActiveInv'
  <2>1. Active => job.id \in Request
    BY DEF Active, TypeInv, IdleInv, Ended
  <2>2. ~withdrawn /\ Active => job.id = update.id /\ told.phase \notin Ended
    BY <1>1 DEF ServerInv, ActiveInv
  <2>3. told.phase \notin Ended => mode' = mode
    BY <1>2 DEF Released
  <2>. QED BY <1>2, <1>12, <1>3, <2>1, <2>2, <2>3, LicenseAssumption DEF ServerInv, ActiveInv, Held
<1>10. OutcomeInv'
  <2>1. told.phase \in {"FAILED", "ROLLED_BACK"} => Discarded(update.id)
    BY <1>1 DEF ServerInv, OutcomeInv
  <2>2. told.phase = "SUCCEEDED" => Installed(update.id)
    BY <1>1 DEF ServerInv, OutcomeInv
  <2>3. told.phase = "SUCCEEDED" => \A r \in Request : Installed(r) => Installed(r)'
    BY <1>3, <1>5 DEF Installed, Shows
  <2>. QED BY <1>1, <1>2, <1>3, <2>1, <2>2, <2>3 DEF OutcomeInv
<1>. QED BY <1>6, <1>7, <1>8, <1>9, <1>10 DEF ServerInv

(* A recovery is asked for only while the server shows that it is needed,  *)
(* and its answer is for the request that is shown, or is misfiled.        *)
LEMMA RecoverServer ==
  ASSUME TypeInv, ServerInv, PostRecovery \/ ReadRecovery, ~misfiled'
  PROVE  ServerInv'
<1>1. /\ UNCHANGED manager /\ UNCHANGED <<drawn, mode, posts, query, told, run, posted, answer>>
      /\ update'.id = update.id /\ update.id \in Request
      /\ update'.phase = "RECOVERY_REQUIRED"
      /\ recovery' # "told"
      /\ \A r \in Request :
           r \in recovers' \/ recovering' = r \/ Shows(update, r, "RECOVERY_REQUIRED")' => Recovering(r)
      /\ update.phase \notin {"DRAINING", "DISPATCHING"}
      /\ recovering' \in Request \cup {NoRequest}
  <2>1. CASE PostRecovery
    BY <2>1 DEF PostRecovery, SendRecovery, Recovering, Shows, start, reconcile, history, TypeInv, Identified
  <2>2. CASE ReadRecovery
    BY <2>2, LicenseAssumption DEF ReadRecovery, Recovering, Shows, Status, start, reconcile, ServerInv, RecoverInv
  <2>. QED BY <2>1, <2>2
<1>2. /\ posts = {} /\ run = "none"
  BY <1>1 DEF ServerInv, PostInv, RunInv, Shows, TypeInv, UpdateTypeOK
<1>3. /\ Active' <=> Active
      /\ UNCHANGED <<job, journal, file, loaded, work, before, withdrawn>>
      /\ \A r \in Request : /\ (Discarded(r)' <=> Discarded(r)) /\ (Settled(r)' <=> Settled(r))
                            /\ (Unaccepted(r)' <=> Unaccepted(r))
  BY <1>1, ManagerStays
<1>4. \A r \in Request : Recovering(r)' => Recovering(r)
  BY <1>1 DEF Recovering
<1>5. \A r \in Request : r \notin drawn => Fresh(r)'
  <2> SUFFICES ASSUME NEW r \in Request, r \notin drawn PROVE Fresh(r)'
    OBVIOUS
  <2>1. Fresh(r) /\ update.id # r
    BY <1>1, LicenseAssumption DEF ServerInv, FreshInv, IdsInv
  <2>2. r \notin recovers' /\ recovering' # r
    BY <2>1, <1>1 DEF Recovering, Fresh, Shows
  <2>. QED BY <1>1, <1>3, <2>1, <2>2 DEF Fresh
<1>6. IdsInv' /\ FreshInv' /\ PostInv'
  BY <1>1, <1>2, <1>3, <1>5 DEF ServerInv, IdsInv, FreshInv, PostInv, Shows
<1>7. RunInv'
  <2>1. answer' = "none"
    BY <1>1, <1>2 DEF ServerInv, RunInv
  <2>. QED BY <1>1, <1>2, <2>1 DEF ServerInv, RunInv, Ended
<1>8. RecoverInv'
  BY <1>1, <1>3, <1>4 DEF ServerInv, RecoverInv, Shows
<1>9. ActiveInv'
  BY <1>1, <1>3 DEF ServerInv, ActiveInv, Held, Ended
<1>10. OutcomeInv'
  <2>1. \A r \in Request : Installed(r) => Installed(r)'
    BY <1>3, <1>4 DEF Installed
  <2>. QED BY <1>1, <1>3, <2>1 DEF ServerInv, OutcomeInv, TypeInv, Identified
<1>. QED BY <1>6, <1>7, <1>8, <1>9, <1>10 DEF ServerInv

(* What the server relies on until it misfiles an answer to recover().     *)
SystemInv == TypeInv /\ (~misfiled => ServerInv)

(* The system starts with nothing installed but the original license.      *)
LEMMA SystemInit == UpdateInit => SystemInv
<1> SUFFICES ASSUME UpdateInit PROVE SystemInv
  OBVIOUS
<1> USE Constants, LicenseAssumption, AdminAssumption
<1>1. ManagerInv
  BY InitInv DEF UpdateInit
<1>2. UpdateTypeOK /\ IdleInv /\ Identified
  BY <1>1 DEF UpdateInit, Init, Job, Untold, Status, Mode, UpdateTypeOK, ManagerInv, StatusType, Phase, Ended,
              IdleInv, Identified, Stranded
<1>3. job.id = NoRequest /\ journal.id = NoRequest /\ job.prior = Unrecorded /\ journal.prior = Unrecorded
      /\ file = Original /\ loaded = Original /\ before = Original /\ work = "none" /\ job.phase = "none"
  BY DEF UpdateInit, Init, Job
<1>4. update.id = NoRequest /\ update.phase = "none" /\ told.id = NoRequest /\ told.phase = "none"
  BY DEF UpdateInit, Untold, Status
<1>5. run = "none" /\ posts = {} /\ recovers = {} /\ recovering = NoRequest /\ answer = "none"
      /\ query = "none" /\ recovery = "none" /\ posted = NoRequest /\ drawn = {}
  BY DEF UpdateInit
<1>6. IdsInv /\ FreshInv /\ PostInv
  BY <1>3, <1>4, <1>5 DEF IdsInv, FreshInv, PostInv, Fresh, Shows
<1>7. RunInv /\ RecoverInv
  BY <1>3, <1>4, <1>5 DEF RunInv, RecoverInv, Recovering, Shows
<1>8. ActiveInv /\ OutcomeInv
  BY <1>3, <1>4 DEF ActiveInv, OutcomeInv, Active, Ended
<1>. QED BY <1>1, <1>2, <1>6, <1>7, <1>8 DEF SystemInv, TypeInv, ServerInv

(* Every step of either process, of the network and of the administrator   *)
(* keeps what they rely on.                                                *)
LEMMA SystemStep ==
  ASSUME SystemInv, [Next]_vars
  PROVE  SystemInv'
<1>1. [ManagerNext]_manager
  BY UpdaterSteps
<1>2. ManagerInv' /\ IdleInv'
  BY <1>1, StepInv, IdleStep DEF SystemInv, TypeInv
<1>3. TypeInv'
  BY <1>2, TypeStep DEF SystemInv, TypeInv, ManagerInv
<1>4. ASSUME ~misfiled' PROVE ServerInv'
  <2>1. CASE UNCHANGED vars
    BY <2>1, <1>4 DEF vars, manager, service, start, reconcile, recover, history, SystemInv, ServerInv, IdsInv, FreshInv,
             PostInv, RunInv, RecoverInv, ActiveInv, OutcomeInv, Fresh, Shows, Held, Discarded, Unaccepted,
             Recovering, Settled, Installed, Active, Stranded
  <2>2. CASE Next
    <3>1. ~misfiled
      BY <2>2, <1>4 DEF Next, UpdaterStep, UpdaterCrashes, BeginStart, HandlePost, HandleRecovery, DrainFails, Dispatch,
               ReadAnswer, GiveUp, ReleaseEnded, EndInterrupted, Ask, Tell, AskFails, Conclude, PostRecovery,
               ReadRecovery, GiveUpRecovery, LosePost, AdminSetsMode, CrashServer, service, history
    <3>2. TypeInv /\ ServerInv
      BY <3>1 DEF SystemInv
    <3>. QED BY <2>2, <1>4, <3>2, UpdaterStepServer, UpdaterCrashServer, PostServer, RecoveryServer, BeginServer,
                DrainServer, DispatchServer, AnswerServer, ForgetServer, ModeServer, AskServer, ConcludeServer,
                RecoverServer DEF Next
  <2>. QED BY <2>1, <2>2
<1>. QED BY <1>3, <1>4 DEF SystemInv

(* The inductive invariant of the composed system, for any requests.       *)
THEOREM UpdateInvariance == Spec => []SystemInv
BY SystemInit, SystemStep, PTL DEF Spec

(* The files, calls and messages of the service keep their types.          *)
THEOREM UpdateTyped == Spec => []UpdateTypeOK
<1>1. SystemInv => UpdateTypeOK
  BY DEF SystemInv, TypeInv
<1>. QED BY <1>1, UpdateInvariance, PTL

(* Whatever is lost, late or restarted, the updater works on a license     *)
(* only while the server holds maintenance for that request, or an         *)
(* administrator took the mode over.                                       *)
THEOREM MaintenanceKept == Spec => []MaintenanceHeld
<1>1. SystemInv => MaintenanceHeld
  <2> SUFFICES ASSUME SystemInv, work \notin {"none", "end"}, ~withdrawn, ~misfiled
               PROVE  mode = Mode("maintenance", job.id) \/ mode.owner = Admin
    BY DEF MaintenanceHeld
  <2>1. Active
    BY DEF SystemInv, TypeInv, ManagerInv, EndInv, Active, Stranded
  <2>2. Held(job.id)
    BY <2>1 DEF SystemInv, ServerInv, ActiveInv
  <2>3. mode = [mode |-> mode.mode, owner |-> mode.owner]
    BY DEF SystemInv, TypeInv, UpdateTypeOK
  <2>. QED BY <2>2, <2>3 DEF Held, Mode
<1>. QED BY <1>1, UpdateInvariance, PTL

(* Whatever is lost, late or restarted, the outcome that the server shows  *)
(* is the one the application runs with.                                   *)
THEOREM ShownIsTrue == Spec => []EndIsTrue
<1>1. SystemInv => EndIsTrue
  BY DEF SystemInv, ServerInv, OutcomeInv, EndIsTrue, Discarded, Installed
<1>. QED BY <1>1, UpdateInvariance, PTL

=============================================================================
