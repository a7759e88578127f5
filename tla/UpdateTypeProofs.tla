--------------------------- MODULE UpdateTypeProofs ---------------------------
(***************************************************************************)
(* The types of the whole composition of page, server, scheduler and       *)
(* commands.  Unlike what an update promises of the installation, they     *)
(* hold even when two commands run at once: each command's copy of the job *)
(* is its own, and says in which phase the command is.                     *)
(***************************************************************************)
EXTENDS UpdateProofs

(* A job names its versions and its request, and a backup is none or whole. *)
Whole(j) ==
  /\ j \in Job
  /\ IF j.phase = "NONE" THEN j.id = NoRequest
     ELSE j.id \in Request /\ j.cur \in Version /\ j.tgt \in Version
  /\ j.backup \in [env : Version, current : Version, schema : Version] \cup {NoBackup}

(* The copy j of a command that has come to place k.                       *)
At(k, j) ==
  /\ k \notin {"idle", "entered"} => j.phase # "NONE"
  /\ k \in {"artifacts", "images", "loading"} => j.phase = "DOWNLOADING"
  /\ k = "dumping" => j.phase = "BACKING_UP"
  /\ k = "checking" => j.phase = "BACKED_UP"
  /\ k = "draining" => j.phase = "DRAINING"
  /\ k = "migrating" => j.phase = "MIGRATING"
  /\ k \in {"deploying app", "deploying server"} => j.phase = "DEPLOYING"
  /\ k \in {"verifying", "persisting", "committing"} => j.phase = "VERIFYING"
  /\ k \in Restoring => j.phase = "ROLLBACK_REQUIRED" /\ j.backup # NoBackup

(* What is on disk and in the services.                                  *)
FileTypes ==
  /\ history \subseteq [id : Request, kind : {"update", "rollback"}, cur : Version]
  /\ releases \in [Version -> {"none", "metadata", "staged"}]
  /\ cancels \subseteq Request /\ published \in Version
  /\ env \in Version /\ current \in Version /\ app \in Version /\ server \in Version
  /\ schema \in Version

(* Each command's copy is whole and belongs to the place it has come to. *)
CopyTypes ==
  /\ pc \in [Process -> Place] /\ mem \in [Process -> Job]
  /\ \A p \in Process : Whole(mem[p]) /\ At(pc[p], mem[p])

(* The updater's part of it.                                             *)
JobTyped == LockTypeOK /\ Whole(job) /\ FileTypes /\ CopyTypes

(* The steps of the lock keep its types.                                 *)
LEMMA LockTyped ==
  ASSUME LockTypeOK, NEW p \in Process,
         Acquire(p) \/ FindStale(p) \/ RenameAway(p) \/ AcquireFails(p) \/ BeginRelease(p) \/ Remove(p)
  PROVE  LockTypeOK'
BY DEF LockTypeOK, Acquire, FindStale, RenameAway, AcquireFails, BeginRelease, Remove

(* So do its aging, a dead owner, and steps that leave it alone.         *)
LEMMA LockRests ==
  ASSUME LockTypeOK, LockAges \/ LockCrash \/ UNCHANGED lockVars
  PROVE  LockTypeOK'
BY DEF LockTypeOK, LockAges, LockCrash, lockVars

(* Before the first release there is no job.                             *)
LEMMA NoJobWhole == Whole(NoJob) /\ NoJob.phase = "NONE"
<1>1. 0 \in Versions
  BY UpdateAssumption DEF Versions
<1>2. NoJob \in Job /\ NoJob.phase = "NONE" /\ NoJob.backup = NoBackup
  BY <1>1, NewJobFacts
<1>3. NoJob.id = NoRequest
  BY DEF NoJob, NewJob
<1>. QED BY <1>3, <1>2 DEF Whole

(* A new job is whole.                                                   *)
LEMMA NewJobWhole ==
  ASSUME NEW id \in Request, NEW cur \in Version, NEW tgt \in Version
  PROVE  Whole(NewJob(id, cur, tgt)) /\ NewJob(id, cur, tgt).phase = "AVAILABLE"
<1>1. cur \in Versions /\ tgt \in Versions
  BY DEF Version, Versions
<1>2. /\ NewJob(id, cur, tgt) \in Job /\ NewJob(id, cur, tgt).phase = "AVAILABLE"
      /\ NewJob(id, cur, tgt).tgt = tgt /\ NewJob(id, cur, tgt).id = id
      /\ NewJob(id, cur, tgt).cur = cur /\ NewJob(id, cur, tgt).backup = NoBackup
  BY <1>1, NewJobFacts
<1>. QED BY <1>2 DEF Whole

(* A transition keeps a job whole, in its next phase.                    *)
LEMMA TransitionWhole ==
  ASSUME NEW j, Whole(j), j.phase # "NONE", NEW next \in Phase \ {"NONE"}, next = "FAILED" => j.phase \in Active
  PROVE  /\ Whole(Transition(j, next)) /\ Transition(j, next).phase = next
         /\ Transition(j, next).backup = j.backup /\ Transition(j, next).tgt = j.tgt
         /\ Transition(j, next).id = j.id
BY TransitionFacts DEF Whole

(* So does resuming it.                                                  *)
LEMMA ResumedWhole ==
  ASSUME NEW j, Whole(j), NEW phase \in Active, Resumable(j, phase)
  PROVE  Whole(Resumed(j)) /\ Resumed(j).phase = phase
BY ResumedFacts DEF Whole, Resumable, Active

(* So does the recovery that is noted with a failure.                    *)
LEMMA RecoveredWhole ==
  ASSUME NEW j, Whole(j), NEW r \in {"unset", "offered", "manual"}
  PROVE  Whole([j EXCEPT !.recovery = r])
BY Recovered DEF Whole

(* So does the way its release came.                                     *)
LEMMA DeliveredWhole ==
  ASSUME NEW j, Whole(j), NEW d \in {"online", "offline"}
  PROVE  Whole(Delivered(j, d)) /\ Delivered(j, d).phase = j.phase /\ Delivered(j, d).backup = j.backup
BY DeliveredFacts DEF Whole

(* A backup of what is installed completes a job.                        *)
LEMMA BackupWhole ==
  ASSUME NEW j, Whole(j), FileTypes
  PROVE  Whole([j EXCEPT !.backup = [env |-> env, current |-> current, schema |-> schema]])
<1>1. ASSUME NEW b \in [env : Version, current : Version, schema : Version]
      PROVE  Whole([j EXCEPT !.backup = b])
  <2>1. b \in Backup
    BY DEF Backup, Version
  <2>. QED BY <2>1, BackedUp DEF Whole
<1>. QED BY <1>1 DEF FileTypes

(* A command ends with the job saved as k, or the updater dies.            *)
LEMMA EndTyped ==
  ASSUME JobTyped, NEW p \in Process, NEW k, Whole(k), EndWith(p, k) \/ (job' = k /\ Die), FileTypes'
  PROVE  JobTyped'
<1>1. job' = k
  BY DEF EndWith
<1>2. LockTypeOK'
  BY LockTyped, LockRests DEF JobTyped, EndWith, End, Die
<1>3. CopyTypes'
  <2>1. /\ pc' = [pc EXCEPT ![p] = "idle"] \/ pc' = [q \in Process |-> "idle"]
        /\ \A q \in Process : /\ pc'[q] = "idle" \/ UNCHANGED <<pc[q], mem[q]>>
                              /\ mem'[q] = NoJob \/ UNCHANGED <<pc[q], mem[q]>>
        /\ mem' \in [Process -> Job] /\ pc' \in [Process -> Place]
    BY NoJobWhole DEF JobTyped, CopyTypes, EndWith, End, Die, Place, Whole
  <2>2. At("idle", NoJob)
    BY DEF At, Restoring
  <2>3. ASSUME NEW q \in Process PROVE Whole(mem'[q]) /\ At(pc'[q], mem'[q])
    BY <2>1, <2>2, NoJobWhole DEF JobTyped, CopyTypes
  <2>. QED BY <2>1, <2>3 DEF CopyTypes
<1>. QED BY <1>1, <1>2, <1>3 DEF JobTyped

(* A command goes on at place with k as its copy.                          *)
LEMMA GoTyped ==
  ASSUME JobTyped, NEW p \in Process, NEW place \in Place, NEW k, Whole(k), At(place, k),
         Goto(p, place), mem' = [mem EXCEPT ![p] = k] \/ (UNCHANGED mem /\ mem[p] = k),
         Whole(job'), LockTypeOK', FileTypes'
  PROVE  JobTyped'
<1>1. pc' = [pc EXCEPT ![p] = place] /\ k \in Job
  BY DEF Goto, Whole
<1>2. pc' \in [Process -> Place] /\ mem' \in [Process -> Job]
  BY <1>1 DEF JobTyped, CopyTypes
<1>3. ASSUME NEW q \in Process PROVE Whole(mem'[q]) /\ At(pc'[q], mem'[q])
  BY <1>1 DEF JobTyped, CopyTypes
<1>4. CopyTypes'
  BY <1>2, <1>3 DEF CopyTypes
<1>. QED BY <1>4 DEF JobTyped

(* A step that leaves the commands and the job alone.                      *)
LEMMA RestTyped ==
  ASSUME JobTyped, UNCHANGED <<job, pc, mem>>, LockTypeOK', FileTypes'
  PROVE  JobTyped'
BY DEF JobTyped, CopyTypes

(* The copy of the command at work.                                        *)
LEMMA CopyFacts ==
  ASSUME JobTyped, NEW p \in Process
  PROVE  /\ Whole(mem[p]) /\ At(pc[p], mem[p]) /\ pc[p] \in Place
         /\ mem[p].phase # "NONE" => mem[p].id \in Request /\ mem[p].cur \in Version /\ mem[p].tgt \in Version
         /\ Whole(job) /\ FileTypes /\ LockTypeOK
BY DEF JobTyped, CopyTypes, Whole

(* The first save of a download and of an import.                          *)
LEMMA PrepareTyped ==
  ASSUME JobTyped, NEW p \in Process, NEW id \in Request, NEW cur \in Version, NEW tgt \in Version,
         NEW delivery \in {"online", "offline"}, NEW place \in {"artifacts", "loading"},
         Prepare(p, id, cur, tgt, delivery, place), UNCHANGED <<published, installed>>,
         releases' \in [Version -> {"none", "metadata", "staged"}], cancels' \subseteq Request
  PROVE  JobTyped'
<1>0. /\ Whole(job) /\ FileTypes /\ LockTypeOK
      /\ {"DOWNLOADING", "PAUSED"} \subseteq Phase /\ "DOWNLOADING" \in Active /\ "FAILED" \notin Active
      /\ place \in Place /\ "NONE" \notin Terminal
  BY DEF JobTyped, Phase, Active, Place, Working, Terminal
<1>1. FileTypes'
  <2>1. history' \subseteq [id : Request, kind : {"update", "rollback"}, cur : Version]
    <3>1. history' = history \/ (job.phase \in Terminal /\ history' = history \cup {Record(job.id, "update", job.cur)})
      BY DEF Prepare
    <3>. QED BY <1>0, <3>1 DEF FileTypes, Record, Whole
  <2>. QED BY <1>0, <2>1 DEF FileTypes, installed
<1>2. ASSUME NEW j, Whole(j), j.phase = "DOWNLOADING", Proceed(p, j, delivery, place)
      PROVE  JobTyped'
  <2> DEFINE k == Delivered(j, delivery)
  <2>1. Whole(k) /\ k.phase = "DOWNLOADING"
    BY <1>2, DeliveredWhole
  <2>2. CASE Save(p, k) /\ Goto(p, place) /\ UNCHANGED lockVars
    <3> HIDE DEF k
    <3>1. At(place, k) /\ Whole(job') /\ mem' = [mem EXCEPT ![p] = k]
      BY <2>1, <2>2 DEF At, Save, Restoring
    <3>. QED BY <1>0, <1>1, <2>1, <2>2, <3>1, GoTyped, LockRests
  <2>3. CASE job' = j /\ Die
    BY <1>1, <1>2, <2>3, EndTyped
  <2>. QED BY <1>2, <2>2, <2>3 DEF Proceed
<1>3. ASSUME NEW j, Whole(j), job' = j, Die
      PROVE  JobTyped'
  BY <1>1, <1>3, EndTyped
<1>4. Whole(NewJob(id, cur, tgt)) /\ NewJob(id, cur, tgt).phase = "AVAILABLE"
  BY NewJobWhole
<1>5. Whole(Transition(NewJob(id, cur, tgt), "DOWNLOADING")) /\ Transition(NewJob(id, cur, tgt), "DOWNLOADING").phase = "DOWNLOADING"
  BY <1>0, <1>4, TransitionWhole
<1>6. Resumable(job, "DOWNLOADING") => Whole(Resumed(job)) /\ Resumed(job).phase = "DOWNLOADING"
  BY <1>0, ResumedWhole
<1>7. job.phase = "FAILED" => Whole(Transition(job, "PAUSED"))
  BY <1>0, TransitionWhole
<1>8. \/ Proceed(p, Transition(NewJob(id, cur, tgt), "DOWNLOADING"), delivery, place)
      \/ job' \in {job, NewJob(id, cur, tgt)} /\ Die
      \/ job.phase = "DOWNLOADING" /\ Proceed(p, job, delivery, place)
      \/ Resumable(job, "DOWNLOADING") /\ Proceed(p, Resumed(job), delivery, place)
      \/ job.phase = "FAILED" /\ job' = Transition(job, "PAUSED") /\ Die
  BY DEF Prepare
<1>. QED BY <1>0, <1>2, <1>3, <1>4, <1>5, <1>6, <1>7, <1>8

(* download, import and backup.                                            *)
LEMMA StageTyped ==
  ASSUME JobTyped, NEW p \in Process,
         \/ FetchArtifacts(p) \/ PullImages(p) \/ PauseDownload(p) \/ FailDownload(p) \/ LoadImages(p)
         \/ TakeBackup(p) \/ FailBackup(p)
  PROVE  JobTyped'
<1> DEFINE m == mem[p]
<1>0. /\ Whole(m) /\ At(pc[p], m) /\ FileTypes /\ LockTypeOK /\ Whole(job) /\ m.phase # "NONE"
      /\ m.phase \in {"DOWNLOADING", "BACKING_UP"} /\ m.tgt \in Version
      /\ {"VERIFIED", "PAUSED", "FAILED", "BACKED_UP"} \subseteq Phase
      /\ {"DOWNLOADING", "BACKING_UP"} \subseteq Active
  BY CopyFacts DEF At, FetchArtifacts, PullImages, PauseDownload, FailDownload, LoadImages, TakeBackup, FailBackup,
                   Phase, Active
<1> HIDE DEF m
<1>1. CASE FetchArtifacts(p)
  <2>1. /\ job' = m /\ mem' = [mem EXCEPT ![p] = m] /\ Goto(p, "images") /\ "images" \in Place
        /\ UNCHANGED <<lockVars, history, cancels, published, installed>>
        /\ releases' = [releases EXCEPT ![m.tgt] = "staged"] /\ m.phase = "DOWNLOADING"
    BY <1>1 DEF m, FetchArtifacts, Save, Place, Working
  <2>2. FileTypes' /\ LockTypeOK' /\ Whole(job')
    BY <1>0, <2>1, LockRests DEF FileTypes, installed
  <2>3. At("images", m)
    BY <2>1 DEF At, Restoring
  <2>. QED BY <1>0, <2>1, <2>2, <2>3, GoTyped
<1>2. CASE PullImages(p) \/ PauseDownload(p) \/ FailDownload(p) \/ LoadImages(p) \/ FailBackup(p)
  <2>1. PICK next \in {"VERIFIED", "PAUSED", "FAILED"} : EndWith(p, Transition(m, next))
    BY <1>2 DEF m, PullImages, PauseDownload, FailDownload, LoadImages, FailBackup
  <2>2. Whole(Transition(m, next))
    BY <1>0, TransitionWhole
  <2>3. FileTypes'
    BY <1>0, <1>2 DEF PullImages, PauseDownload, FailDownload, LoadImages, FailBackup, FileTypes, installed
  <2>. QED BY <2>1, <2>2, <2>3, EndTyped
<1>3. CASE TakeBackup(p)
  <2>1. EndWith(p, [Transition(m, "BACKED_UP") EXCEPT
                      !.backup = [env |-> env, current |-> current, schema |-> schema]])
    BY <1>3 DEF m, TakeBackup
  <2>2. Whole([Transition(m, "BACKED_UP") EXCEPT
                      !.backup = [env |-> env, current |-> current, schema |-> schema]])
    BY <1>0, TransitionWhole, BackupWhole
  <2>3. FileTypes'
    BY <1>0, <1>3 DEF TakeBackup, FileTypes, installed
  <2>. QED BY <2>1, <2>2, <2>3, EndTyped
<1>. QED BY <1>1, <1>2, <1>3

(* The import of a package, and the backup that begins.                    *)
LEMMA BeginTyped ==
  ASSUME JobTyped, NEW p \in Process, BeginImport(p) \/ BeginBackup(p) \/ Preflight(p) \/ BeginApply(p) \/ BeginRollback(p)
  PROVE  JobTyped'
<1>0. /\ Whole(job) /\ FileTypes /\ LockTypeOK
      /\ {"BACKING_UP", "PRECHECKED", "PAUSED", "ROLLBACK_REQUIRED"} \subseteq Phase \ {"NONE"} /\ "BACKING_UP" \in Active
      /\ {"dumping", "checking", "restoring app"} \subseteq Place
  BY CopyFacts DEF Phase, Active, Place, Working, Applying, Restoring
<1>1. CASE BeginImport(p)
  <2> DEFINE m == mem[p]
  <2>1. m.id \in Request /\ m.cur \in Version /\ m.tgt \in Version
    BY <1>1, CopyFacts DEF BeginImport, At, Whole
  <2>2. CASE Prepare(p, m.id, m.cur, m.tgt, "offline", "loading")
    <3>1. UNCHANGED <<published, installed, releases, cancels>>
      BY <1>1 DEF BeginImport
    <3> HIDE DEF m
    <3>. QED BY <1>0, <2>1, <2>2, <3>1, PrepareTyped DEF FileTypes
  <2>3. CASE EndWith(p, [job EXCEPT !.delivery = "offline"]) /\ UNCHANGED history
    <3>1. Whole([job EXCEPT !.delivery = "offline"])
      BY <1>0, DeliveredWhole DEF Delivered
    <3>2. FileTypes'
      BY <1>0, <1>1, <2>3 DEF BeginImport, FileTypes, installed
    <3>. QED BY <2>3, <3>1, <3>2, EndTyped
  <2>. QED BY <1>1, <2>2, <2>3 DEF BeginImport
<1>2. ASSUME NEW k, Whole(k), NEW place \in Place, At(place, k), Save(p, k), Goto(p, place), UNCHANGED lockVars, FileTypes'
      PROVE  JobTyped'
  BY <1>0, <1>2, GoTyped, LockRests DEF Save
<1>3. CASE BeginBackup(p)
  <2>1. FileTypes'
    BY <1>0, <1>3 DEF BeginBackup, FileTypes, installed
  <2>2. CASE job.phase = "FAILED" /\ job' = Transition(job, "PAUSED") /\ Die
    BY <1>0, <2>1, <2>2, TransitionWhole, EndTyped
  <2>3. CASE Goto(p, "dumping") /\ UNCHANGED lockVars
             /\ (\/ job.phase = "PRECHECKED" /\ Save(p, Transition(job, "BACKING_UP"))
                 \/ job.phase = "BACKING_UP" /\ Save(p, job)
                 \/ Resumable(job, "BACKING_UP") /\ Save(p, Resumed(job)))
    <3>1. ASSUME NEW k, Whole(k), k.phase = "BACKING_UP", Save(p, k) PROVE JobTyped'
      <4>1. At("dumping", k)
        BY <3>1 DEF At, Restoring
      <4>. QED BY <1>0, <1>2, <2>1, <2>3, <3>1, <4>1
    <3>2. job.phase = "PRECHECKED" => Whole(Transition(job, "BACKING_UP")) /\ Transition(job, "BACKING_UP").phase = "BACKING_UP"
      BY <1>0, TransitionWhole
    <3>3. Resumable(job, "BACKING_UP") => Whole(Resumed(job)) /\ Resumed(job).phase = "BACKING_UP"
      BY <1>0, ResumedWhole
    <3>. QED BY <1>0, <2>3, <3>1, <3>2, <3>3
  <2>. QED BY <1>3, <2>2, <2>3 DEF BeginBackup
<1>4. CASE Preflight(p)
  <2>1. PICK k \in {job, Transition(job, "PRECHECKED")} : EndWith(p, k)
    BY <1>4 DEF Preflight
  <2>4. job.phase # "NONE" /\ "PRECHECKED" \in Phase \ {"NONE"}
    BY <1>0, <1>4 DEF Preflight
  <2>5. Whole(Transition(job, "PRECHECKED"))
    BY <1>0, <2>4, TransitionWhole
  <2>2. Whole(k)
    BY <1>0, <2>1, <2>5
  <2>3. FileTypes'
    BY <1>0, <1>4 DEF Preflight, FileTypes, installed
  <2>. QED BY <2>1, <2>2, <2>3, EndTyped
<1>5. CASE BeginApply(p)
  <2>1. /\ job.phase = "BACKED_UP" /\ mem' = [mem EXCEPT ![p] = job] /\ Goto(p, "checking") /\ job' = job
        /\ UNCHANGED <<lockVars, files, installed>>
    BY <1>5 DEF BeginApply, files
  <2>2. At("checking", job) /\ FileTypes' /\ LockTypeOK'
    BY <1>0, <2>1, LockRests DEF At, Restoring, FileTypes, files, installed
  <2>. QED BY <1>0, <2>1, <2>2, GoTyped
<1>6. CASE BeginRollback(p)
  <2> DEFINE k == IF job.phase = "COMMITTED" THEN Transition(job, "ROLLBACK_REQUIRED") ELSE job
  <2>1. Save(p, k) /\ job.phase \in {"COMMITTED", "ROLLBACK_REQUIRED"} /\ job.backup # NoBackup
    BY <1>6 DEF BeginRollback
  <2>2. job.phase = "COMMITTED" =>
          /\ Whole(Transition(job, "ROLLBACK_REQUIRED")) /\ Transition(job, "ROLLBACK_REQUIRED").phase = "ROLLBACK_REQUIRED"
          /\ Transition(job, "ROLLBACK_REQUIRED").backup = job.backup
    BY <1>0, TransitionWhole
  <2>3. Whole(k) /\ k.phase = "ROLLBACK_REQUIRED" /\ k.backup # NoBackup
    BY <1>0, <2>1, <2>2
  <2> HIDE DEF k
  <2>4. At("restoring app", k) /\ FileTypes' /\ Goto(p, "restoring app") /\ UNCHANGED lockVars
    BY <1>0, <1>6, <2>3 DEF At, BeginRollback, FileTypes, installed
  <2>. QED BY <1>0, <1>2, <2>1, <2>3, <2>4
<1>. QED BY <1>1, <1>3, <1>4, <1>5, <1>6

(* A command that advances its job.                                        *)
LEMMA AdvanceTyped ==
  ASSUME JobTyped, NEW p \in Process, mem[p].phase # "NONE", NEW next \in Phase \ {"FAILED", "NONE"}, NEW place \in Place,
         At(place, Transition(mem[p], next)),
         Advance(p, next, place), FileTypes'
  PROVE  JobTyped'
<1> DEFINE k == Transition(mem[p], next)
<1>1. Whole(k) /\ LockTypeOK
  BY CopyFacts, TransitionWhole
<1>2. Save(p, k) /\ Goto(p, place) /\ UNCHANGED lockVars /\ At(place, k)
  BY <1>1 DEF Advance
<1> HIDE DEF k
<1>. QED BY <1>1, <1>2, GoTyped, LockRests DEF Save

(* apply, up to its end.                                                   *)
LEMMA ApplyTyped ==
  ASSUME JobTyped, NEW p \in Process,
         \/ Drain(p) \/ StartMigration(p) \/ Migrate(p) \/ ActivateApp(p) \/ ActivateServer(p)
         \/ CommitEnvironment(p) \/ PersistCurrentRelease(p)
  PROVE  JobTyped'
<1>0. /\ Whole(mem[p]) /\ At(pc[p], mem[p]) /\ FileTypes /\ LockTypeOK /\ Whole(job)
      /\ pc[p] \notin {"idle", "entered"}
  BY CopyFacts DEF Drain, StartMigration, Migrate, ActivateApp, ActivateServer, CommitEnvironment, PersistCurrentRelease
<1>1. /\ mem[p].phase # "NONE" /\ mem[p].tgt \in Version
      /\ {"DRAINING", "MIGRATING", "DEPLOYING", "VERIFYING"} \subseteq Phase \ {"FAILED", "NONE"}
      /\ {"draining", "migrating", "deploying app", "deploying server", "verifying", "persisting", "committing"} \subseteq Place
  BY <1>0 DEF At, Whole, Phase, Active, Place, Working, Applying
<1>11. \A next \in {"DRAINING", "MIGRATING", "DEPLOYING", "VERIFYING"} : Transition(mem[p], next).phase = next
  BY <1>0, <1>1, TransitionWhole
<1>2. FileTypes'
  <2>1. /\ UNCHANGED <<history, releases, cancels, published>>
        /\ env' \in {env, mem[p].tgt} /\ current' \in {current, mem[p].tgt} /\ app' \in {app, mem[p].tgt}
        /\ server' \in {server, mem[p].tgt} /\ schema' \in {schema, mem[p].tgt}
    BY DEF Drain, StartMigration, Migrate, ActivateApp, ActivateServer, CommitEnvironment, PersistCurrentRelease,
           files, installed
  <2>. QED BY <1>0, <1>1, <2>1 DEF FileTypes
<1>3. CASE Drain(p)
  <2>1. Advance(p, "DRAINING", "draining")
    BY <1>3 DEF Drain
  <2>2. At("draining", Transition(mem[p], "DRAINING"))
    BY <1>11 DEF At, Restoring
  <2>. QED BY <1>1, <1>2, <2>1, <2>2, AdvanceTyped
<1>4. CASE StartMigration(p)
  <2>1. Advance(p, "MIGRATING", "migrating")
    BY <1>4 DEF StartMigration
  <2>2. At("migrating", Transition(mem[p], "MIGRATING"))
    BY <1>11 DEF At, Restoring
  <2>. QED BY <1>1, <1>2, <2>1, <2>2, AdvanceTyped
<1>5. CASE Migrate(p)
  <2>1. Advance(p, "DEPLOYING", "deploying app") \/ (job' = job /\ Die)
    BY <1>5 DEF Migrate
  <2>2. At("deploying app", Transition(mem[p], "DEPLOYING"))
    BY <1>11 DEF At, Restoring
  <2>. QED BY <1>0, <1>1, <1>2, <2>1, <2>2, AdvanceTyped, EndTyped
<1>6. CASE ActivateServer(p)
  <2>1. Advance(p, "VERIFYING", "verifying") \/ (job' = job /\ Die)
    BY <1>6 DEF ActivateServer
  <2>2. At("verifying", Transition(mem[p], "VERIFYING"))
    BY <1>11 DEF At, Restoring
  <2>. QED BY <1>0, <1>1, <1>2, <2>1, <2>2, AdvanceTyped, EndTyped
<1>7. ASSUME NEW place \in Place, Goto(p, place), At(place, mem[p]), UNCHANGED <<lockVars, files, mem>>
      PROVE  JobTyped'
  BY <1>0, <1>2, <1>7, GoTyped, LockRests DEF files
<1>8. CASE ActivateApp(p)
  <2>1. At("deploying server", mem[p]) /\ Goto(p, "deploying server") /\ UNCHANGED <<lockVars, files, mem>>
    BY <1>0, <1>8 DEF ActivateApp, At, Restoring
  <2>. QED BY <1>1, <1>7, <2>1
<1>9. CASE CommitEnvironment(p)
  <2>1. At("persisting", mem[p]) /\ Goto(p, "persisting") /\ UNCHANGED <<lockVars, files, mem>>
    BY <1>0, <1>9 DEF CommitEnvironment, At, Restoring
  <2>. QED BY <1>1, <1>7, <2>1
<1>10. CASE PersistCurrentRelease(p)
  <2>1. At("committing", mem[p]) /\ Goto(p, "committing") /\ UNCHANGED <<lockVars, files, mem>>
    BY <1>0, <1>10 DEF PersistCurrentRelease, At, Restoring
  <2>. QED BY <1>1, <1>7, <2>1
<1>. QED BY <1>3, <1>4, <1>5, <1>6, <1>8, <1>9, <1>10

(* The end of an apply, and the rollback.                                  *)
LEMMA FinishTyped ==
  ASSUME JobTyped, NEW p \in Process, CommitJob(p) \/ FailApply(p) \/ RecordRollback(p) \/ RollbackFails(p)
  PROVE  JobTyped'
<1> DEFINE m == mem[p]
<1>0. /\ Whole(m) /\ At(pc[p], m) /\ FileTypes /\ LockTypeOK /\ Whole(job)
      /\ pc[p] \notin {"idle", "entered"}
  BY CopyFacts DEF CommitJob, FailApply, RecordRollback, RollbackFails
<1>1. /\ m.phase # "NONE" /\ m.tgt \in Version /\ m.id \in Request
      /\ {"COMMITTED", "FAILED", "ROLLBACK_REQUIRED", "ROLLED_BACK"} \subseteq Phase
      /\ {"MIGRATING", "DEPLOYING", "VERIFYING"} \subseteq Active
      /\ Offered(m.tgt) \in {"offered", "manual"}
  BY <1>0 DEF At, Whole, Phase, Active, Terminal, Offered
<1> HIDE DEF m
<1>2. CASE CommitJob(p)
  <2>1. EndWith(p, [Transition(m, "COMMITTED") EXCEPT !.recovery = Offered(m.tgt)]) /\ FileTypes'
    BY <1>0, <1>2 DEF m, CommitJob, FileTypes, installed
  <2>2. Whole([Transition(m, "COMMITTED") EXCEPT !.recovery = Offered(m.tgt)])
    BY <1>0, <1>1, TransitionWhole, RecoveredWhole
  <2>. QED BY <2>1, <2>2, EndTyped
<1>3. CASE FailApply(p)
  <2> DEFINE failed == Transition(m, "FAILED")
             r == IF pc[p] = "migrating" THEN "manual" ELSE Offered(m.tgt)
             required == [Transition(failed, "ROLLBACK_REQUIRED") EXCEPT !.recovery = r]
  <2>1. (job' = failed /\ Die) \/ EndWith(p, required) \/ EndWith(p, failed)
    BY <1>3 DEF m, FailApply
  <2>2. Whole(failed) /\ failed.phase = "FAILED"
    <3>1. m.phase \in Active
      BY <1>0, <1>1, <1>3 DEF FailApply, At
    <3>. QED BY <1>0, <1>1, <3>1, TransitionWhole
  <2>3. r \in {"unset", "offered", "manual"}
    BY <1>1
  <2>4. FileTypes'
    <3>1. /\ UNCHANGED <<history, releases, cancels, published, env>> /\ current' \in {current, m.tgt}
          /\ app' \in {app, m.tgt} /\ server' \in {server, m.tgt} /\ schema' \in {schema, m.tgt}
      BY <1>3 DEF m, FailApply
    <3>. QED BY <1>0, <1>1, <3>1 DEF FileTypes
  <2> HIDE DEF failed, r
  <2>5. Whole(Transition(failed, "ROLLBACK_REQUIRED"))
    BY <1>1, <2>2, TransitionWhole
  <2>6. Whole(required)
    BY <2>3, <2>5, RecoveredWhole
  <2> HIDE DEF required
  <2>. QED BY <2>1, <2>2, <2>4, <2>6, EndTyped
<1>4. CASE RecordRollback(p)
  <2>1. Whole(Transition(m, "ROLLED_BACK"))
    BY <1>0, <1>1, TransitionWhole
  <2>2. EndWith(p, Transition(m, "ROLLED_BACK")) \/ (job' = Transition(m, "ROLLED_BACK") /\ Die)
    BY <1>4 DEF m, RecordRollback
  <2>3. FileTypes'
    <3>1. /\ history' \in {history, history \cup {Record(m.id, "rollback", m.tgt)}}
          /\ UNCHANGED <<releases, cancels, published, installed>>
      BY <1>4 DEF m, RecordRollback
    <3>. QED BY <1>0, <1>1, <3>1 DEF FileTypes, Record, installed
  <2>. QED BY <2>1, <2>2, <2>3, EndTyped
<1>5. CASE RollbackFails(p)
  <2>1. EndWith(p, job)
    BY <1>5 DEF RollbackFails, EndWith, files
  <2>2. m.backup \in [env : Version, current : Version, schema : Version]
    BY <1>0, <1>5 DEF RollbackFails, At, Whole, Restoring
  <2>3. FileTypes'
    <3>1. /\ UNCHANGED <<history, releases, cancels, published, env, current, schema>>
          /\ app' \in {app, m.backup.env} /\ server' \in {server, m.backup.env}
      BY <1>5 DEF m, RollbackFails, files
    <3>. QED BY <1>0, <2>2, <3>1 DEF FileTypes
  <2>. QED BY <1>0, <2>1, <2>3, EndTyped
<1>. QED BY <1>2, <1>3, <1>4, <1>5

(* A rollback, from its entry to its record.                             *)
LEMMA RestoreTyped ==
  ASSUME JobTyped, NEW p \in Process, RestoreApp(p) \/ RestoreServer(p) \/ RestoreEnvironment(p)
  PROVE  JobTyped'
<1>0. /\ Whole(mem[p]) /\ At(pc[p], mem[p]) /\ FileTypes /\ LockTypeOK /\ Whole(job) /\ pc[p] \in Restoring
  BY CopyFacts DEF RestoreApp, RestoreServer, RestoreEnvironment, Restoring
<1>1. mem[p].backup \in [env : Version, current : Version, schema : Version]
  BY <1>0 DEF At, Whole
<1>2. FileTypes'
  <2>1. /\ UNCHANGED <<history, releases, cancels, published, schema>>
        /\ env' \in {env, mem[p].backup.env} /\ current' \in {current, mem[p].backup.current}
        /\ app' \in {app, mem[p].backup.env} /\ server' \in {server, mem[p].backup.env}
    BY DEF RestoreApp, RestoreServer, RestoreEnvironment, files
  <2>. QED BY <1>0, <1>1, <2>1 DEF FileTypes
<1>3. PICK place \in Restoring : Goto(p, place)
  BY DEF RestoreApp, RestoreServer, RestoreEnvironment, Restoring
<1>4. At(place, mem[p]) /\ place \in Place
  BY <1>0 DEF At, Restoring, Place, Working
<1>5. UNCHANGED <<lockVars, job, mem>>
  BY DEF RestoreApp, RestoreServer, RestoreEnvironment, files
<1>. QED BY <1>0, <1>2, <1>3, <1>4, <1>5, GoTyped, LockRests

(* The steps that leave the job and the commands alone.                    *)
LEMMA AloneTyped ==
  ASSUME JobTyped,
         \/ (\E p \in Process : Unlock(p)) \/ (\E id \in Request : Cancel(id)) \/ ReadHistory \/ Publish
         \/ (LockAges /\ UNCHANGED jobVars) \/ UNCHANGED <<lockVars, jobVars>>
  PROVE  JobTyped'
<1>0. Whole(job) /\ FileTypes /\ LockTypeOK
  BY DEF JobTyped
<1>1. LockTypeOK'
  <2>1. CASE \E p \in Process : Unlock(p)
    BY <1>0, <2>1, LockTyped DEF Unlock
  <2>. QED BY <1>0, <2>1, LockRests DEF Cancel, ReadHistory, Publish
<1>2. FileTypes'
  <2>1. CASE (\E p \in Process : Unlock(p)) \/ (LockAges /\ UNCHANGED jobVars) \/ UNCHANGED <<lockVars, jobVars>>
    BY <1>0, <2>1 DEF Unlock, jobVars, files, installed, FileTypes
  <2>2. CASE \E id \in Request : Cancel(id)
    BY <1>0, <2>2 DEF Cancel, FileTypes, installed
  <2>3. CASE ReadHistory
    BY <1>0, <2>3 DEF ReadHistory, FileTypes, installed, Record, Whole
  <2>4. CASE Publish
    <3>1. published' \in Version
      BY <1>0, <2>4, UpdateAssumption DEF Publish, FileTypes, Version
    <3>. QED BY <1>0, <2>4, <3>1 DEF Publish, FileTypes, installed
  <2>. QED BY <2>1, <2>2, <2>3, <2>4
<1>3. UNCHANGED <<job, pc, mem>>
  BY DEF Unlock, jobVars, files, Cancel, ReadHistory, Publish
<1>. QED BY <1>1, <1>2, <1>3, RestTyped

(* A command that waits for the lock, is refused, or begins.             *)
LEMMA EnterTyped ==
  ASSUME JobTyped, NEW p \in Process, Enter(p) \/ Refuse(p)
  PROVE  JobTyped'
<1>0. Whole(job) /\ FileTypes /\ LockTypeOK /\ Whole(mem[p])
  BY CopyFacts
<1>1. FileTypes'
  BY <1>0 DEF Enter, Refuse, files, installed, FileTypes
<1>2. CASE Enter(p)
  <2>1. /\ Goto(p, "entered") /\ UNCHANGED <<job, mem>> /\ "entered" \in Place /\ At("entered", mem[p])
    BY <1>2 DEF Enter, files, Place, At, Restoring
  <2>2. LockTypeOK'
    BY <1>0, <1>2, LockTyped DEF Enter
  <2>. QED BY <1>0, <1>1, <2>1, <2>2, GoTyped
<1>3. CASE Refuse(p)
  <2>1. EndWith(p, job)
    BY <1>3 DEF Refuse, EndWith, files
  <2>. QED BY <1>0, <1>1, <2>1, EndTyped
<1>. QED BY <1>2, <1>3

(* The updater dies.                                                     *)
LEMMA CrashTyped ==
  ASSUME JobTyped, UpdaterCrash
  PROVE  JobTyped'
<1>1. FileTypes' /\ Whole(job')
  BY DEF JobTyped, UpdaterCrash, files, installed, FileTypes
<1>2. LockTypeOK'
  BY LockRests DEF JobTyped, UpdaterCrash, Die
<1>3. pc' = [q \in Process |-> "idle"] /\ mem' = [q \in Process |-> NoJob] /\ "idle" \in Place /\ NoJob \in Job
  BY NoJobWhole DEF UpdaterCrash, Die, Place, Whole
<1>4. At("idle", NoJob)
  BY DEF At, Restoring
<1>5. CopyTypes'
  BY <1>3, <1>4, NoJobWhole DEF CopyTypes
<1>. QED BY <1>1, <1>2, <1>5 DEF JobTyped

(* The versions a download or an import is asked for.                      *)
LEMMA DownloadTyped ==
  ASSUME JobTyped, NEW p \in Process, NEW id \in Request, NEW cur \in Version, NEW tgt \in Version,
         BeginDownload(p, id, cur, tgt) \/ ImportRelease(p, id, cur, tgt)
  PROVE  JobTyped'
<1>0. Whole(job) /\ FileTypes /\ LockTypeOK
  BY CopyFacts
<1>1. CASE BeginDownload(p, id, cur, tgt)
  <2>1. UNCHANGED <<published, installed>> /\ cancels' \subseteq Request
    BY <1>0, <1>1 DEF BeginDownload, FileTypes
  <2>2. CASE Prepare(p, id, cur, tgt, "online", "artifacts")
             /\ releases' = IF releases[tgt] = "none" THEN [releases EXCEPT ![tgt] = "metadata"] ELSE releases
    <3>1. releases' \in [Version -> {"none", "metadata", "staged"}]
      BY <1>0, <2>2 DEF FileTypes
    <3>. QED BY <2>1, <2>2, <3>1, PrepareTyped
  <2>3. CASE End(p) /\ UNCHANGED <<job, history, releases>>
    <3>1. FileTypes' /\ EndWith(p, job)
      BY <1>0, <2>1, <2>3 DEF FileTypes, installed, EndWith
    <3>. QED BY <1>0, <3>1, EndTyped
  <2>. QED BY <1>1, <2>2, <2>3 DEF BeginDownload
<1>2. CASE ImportRelease(p, id, cur, tgt)
  <2> DEFINE k == NewJob(id, cur, tgt)
  <2>1. Whole(k) /\ k.phase = "AVAILABLE"
    BY NewJobWhole
  <2>2. /\ mem' = [mem EXCEPT ![p] = k] /\ Goto(p, "imported") /\ UNCHANGED <<lockVars, job>>
        /\ releases' = [releases EXCEPT ![tgt] = "staged"] /\ UNCHANGED <<history, cancels, published, installed>>
    BY <1>2 DEF ImportRelease
  <2> HIDE DEF k
  <2>3. FileTypes' /\ "imported" \in Place /\ At("imported", k)
    BY <1>0, <2>1, <2>2 DEF FileTypes, installed, Place, At, Restoring
  <2>. QED BY <1>0, <2>1, <2>2, <2>3, GoTyped, LockRests
<1>. QED BY <1>1, <1>2

(* Any step of a command at work.                                        *)
LEMMA CommandTyped ==
  ASSUME JobTyped, NEW p \in Process, CommandStep(p)
  PROVE  JobTyped'
BY StageTyped, BeginTyped, ApplyTyped, FinishTyped, RestoreTyped, AloneTyped DEF CommandStep

(* The commands that the server passes on without the page.              *)
LEMMA OtherTyped ==
  ASSUME JobTyped, NEW p \in Process, OtherCommands(p)
  PROVE  JobTyped'
<1>1. \A id \in Request : Installed(id) \in Version
  BY UpdateAssumption DEF JobTyped, Whole, Installed, FileTypes
<1>2. ASSUME NEW id \in Request, NEW tgt \in Version,
             BeginDownload(p, id, Installed(id), tgt) \/ ImportRelease(p, id, Installed(id), tgt)
      PROVE  JobTyped'
  BY <1>1, <1>2, DownloadTyped
<1>. QED BY <1>2, EnterTyped, BeginTyped DEF OtherCommands

-----------------------------------------------------------------------------
(* The scheduler and the page.                                             *)

(* What the scheduler keeps between its steps; it downloads a newer release. *)
AutoTypes ==
  /\ auto \in {"idle", "download", "downloading", "prune", "pruning"}
  /\ autoBy \in Process \cup {NoProcess}
  /\ found \in [cur : 0..MaxVersion, tgt : 0..MaxVersion]
  /\ status \in [available : 0..MaxVersion, downloaded : BOOLEAN]
  /\ doomed \subseteq Version
  /\ auto \in {"download", "downloading"} => found.cur \in Version /\ found.tgt \in Version
  /\ autoBy # NoProcess => auto = "downloading"

(* What the page, the server and the requests on their way keep.         *)
PageTypes ==
  /\ mode \in {"normal", "draining", "maintenance"} /\ work \in BOOLEAN
  /\ page \in {"ready", "draining", "backup", "watching", "reopening"}
  /\ pending \in {"none", "install", "rollback"} /\ asked \in Request \cup {NoRequest}
  /\ seen \in [id : Request \cup {NoRequest}, phase : Phase, recovery : {"unset", "offered", "manual"}]
  /\ posts \subseteq [what : {"backup", "install", "rollback"}, id : Request \cup {NoRequest}]
  /\ page \in {"watching", "reopening"} => pending # "none"

(* The inductive invariant.                                              *)
TypedInv == JobTyped /\ AutoTypes /\ PageTypes

(* A round of the scheduler that ends, or that has downloaded.             *)
LEMMA RoundTyped ==
  ASSUME AutoTypes, (RoundEnds /\ UNCHANGED status) \/ Downloaded \/ UNCHANGED autoVars
  PROVE  AutoTypes'
<1>1. 0 \in 0..MaxVersion
  BY UpdateAssumption
<1>2. CASE RoundEnds /\ UNCHANGED status
  BY <1>1, <1>2 DEF AutoTypes, RoundEnds
<1>3. CASE Downloaded
  BY <1>3 DEF AutoTypes, Downloaded
<1>4. CASE UNCHANGED autoVars
  BY <1>4 DEF AutoTypes, autoVars
<1>. QED BY <1>2, <1>3, <1>4

(* A download that the scheduler began.                                  *)
LEMMA AutoDownloadTyped ==
  ASSUME JobTyped, AutoTypes, NEW p \in Process, AutoDownload(p)
  PROVE  JobTyped' /\ AutoTypes'
<1>1. auto = "downloading"
  BY LockAssumption DEF AutoDownload, AutoTypes
<1>2. AutoTypes'
  BY RoundTyped DEF AutoDownload
<1>3. CASE BeginDownload(p, Automatic[found.tgt], found.cur, found.tgt)
  <2>1. found.cur \in Version /\ found.tgt \in Version
    BY <1>1 DEF AutoTypes
  <2>2. Automatic[found.tgt] \in Request
    BY <2>1, AutomationAssumption
  <2>. QED BY <1>2, <1>3, <2>1, <2>2, DownloadTyped
<1>4. CASE FetchArtifacts(p) \/ PullImages(p) \/ PauseDownload(p) \/ FailDownload(p) \/ Refuse(p)
  BY <1>2, <1>4, StageTyped, EnterTyped
<1>. QED BY <1>3, <1>4 DEF AutoDownload

(* The scheduler's steps and its end.                                    *)
LEMMA AutomationTyped ==
  ASSUME JobTyped, AutoTypes, AutomationNext \/ AutomationCrash
  PROVE  JobTyped' /\ AutoTypes'
<1>0. Whole(job) /\ FileTypes /\ LockTypeOK /\ Version \subseteq 0..MaxVersion
  BY DEF JobTyped, Version
<1>1. CASE AutoCheck
  <2>1. JobTyped'
    BY <1>1, AloneTyped DEF AutoCheck
  <2>2. autoBy = NoProcess
    BY <1>1 DEF AutoCheck, AutoTypes
  <2>3. AutoTypes'
    BY <1>0, <1>1, <2>2 DEF AutoCheck, AutoTypes, FileTypes
  <2>. QED BY <2>1, <2>3
<1>2. CASE PruneRead
  <2>1. JobTyped'
    BY <1>2, AloneTyped DEF PruneRead
  <2>2. doomed' \subseteq Version
    BY <1>2 DEF PruneRead
  <2>3. AutoTypes'
    BY <1>2, <2>2 DEF PruneRead, AutoTypes
  <2>. QED BY <2>1, <2>3
<1>3. CASE PruneRemove
  <2>1. FileTypes' /\ LockTypeOK' /\ UNCHANGED <<job, pc, mem>>
    BY <1>0, <1>3, LockRests DEF PruneRemove, FileTypes, installed
  <2>. QED BY <1>3, <2>1, RestTyped, RoundTyped DEF PruneRemove
<1>4. CASE RoundFails
  BY <1>4, AloneTyped, RoundTyped DEF RoundFails
<1>5. ASSUME NEW p \in Process, AutoEnter(p)
      PROVE  JobTyped' /\ AutoTypes'
  BY <1>5, EnterTyped DEF AutoEnter, AutoTypes
<1>6. CASE AutomationCrash
  BY <1>6, CrashTyped, RoundTyped DEF AutomationCrash
<1>. QED BY <1>1, <1>2, <1>3, <1>4, <1>5, <1>6, AutoDownloadTyped DEF AutomationNext

(* The page only copies what it reads of the job.                          *)
LEMMA PageTyped ==
  ASSUME JobTyped, PageTypes, PageNext
  PROVE  PageTypes'
<1>0. View(job) \in [id : Request \cup {NoRequest}, phase : Phase, recovery : {"unset", "offered", "manual"}]
  BY DEF JobTyped, Whole, View, Job
<1>1. CASE BeginInstall \/ NotDrained \/ Expire \/ RetryRecovery \/ ResumeNormal \/ Reload \/ Reopen \/ ReopenFails \/ BackupUnanswered
  <2>1. CASE BeginInstall \/ NotDrained \/ Expire \/ RetryRecovery \/ ResumeNormal \/ ReopenFails
    BY <1>1, <2>1 DEF BeginInstall, NotDrained, Expire, RetryRecovery, ResumeNormal, ReopenFails, PageTypes
  <2>2. CASE Reload \/ Reopen \/ BackupUnanswered
    BY <1>0, <2>2 DEF Reload, Reopen, BackupUnanswered, PageTypes
  <2>. QED BY <1>1, <2>1, <2>2
<1>2. CASE EnterMaintenance \/ BackupDone \/ BeginRollbackOperation
  BY <1>2 DEF EnterMaintenance, BackupDone, BeginRollbackOperation, Dispatch, Post, PageTypes
<1>3. CASE Poll
  <2>1. seen' \in [id : Request \cup {NoRequest}, phase : Phase, recovery : {"unset", "offered", "manual"}]
    BY <1>0, <1>3 DEF Poll, PageTypes
  <2>2. /\ posts' \subseteq posts \cup {Post(pending, asked)} /\ page = "watching" /\ (page' = "ready" \/ pending' = pending)
        /\ page' \in {page, "reopening", "ready"} /\ pending' \in {pending, "none"} /\ asked' \in {asked, NoRequest}
        /\ UNCHANGED <<mode, work>>
    BY <1>3 DEF Poll
  <2>. QED BY <2>1, <2>2 DEF PageTypes, Post
<1>. QED BY <1>1, <1>2, <1>3 DEF PageNext

(* No release, no job and no request at first.                           *)
LEMMA TypedInit == PageInit => TypedInv
<1> SUFFICES ASSUME PageInit PROVE TypedInv
  OBVIOUS
<1>1. /\ LockInit /\ job = NoJob /\ history = {} /\ cancels = {} /\ releases = [v \in Version |-> "none"]
      /\ published = 1 /\ env = 1 /\ current = 1 /\ app = 1 /\ server = 1 /\ schema = 1
      /\ pc = [p \in Process |-> "idle"] /\ mem = [p \in Process |-> NoJob]
      /\ auto = "idle" /\ autoBy = NoProcess /\ doomed = {} /\ found = [cur |-> 0, tgt |-> 0]
      /\ status = [available |-> 0, downloaded |-> FALSE]
  BY DEF PageInit, AutomationInit, UpdateJobInit
<1>2. 1 \in Version /\ 0 \in 0..MaxVersion
  BY UpdateAssumption DEF Version
<1>3. LockTypeOK
  BY <1>1 DEF LockInit, LockTypeOK
<1>4. FileTypes
  BY <1>1, <1>2 DEF FileTypes
<1>5. At("idle", NoJob) /\ "idle" \in Place /\ NoJob \in Job
  BY NoJobWhole DEF At, Restoring, Place, Whole
<1>6. CopyTypes
  BY <1>1, <1>5, NoJobWhole DEF CopyTypes
<1>7. AutoTypes
  BY <1>1, <1>2 DEF AutoTypes
<1>8. PageTypes
  BY NoJobWhole DEF PageInit, PageTypes, View, Whole, Job
<1>. QED BY <1>1, <1>3, <1>4, <1>6, <1>7, <1>8, NoJobWhole DEF TypedInv, JobTyped

(* Every step of the composition keeps the types.                        *)
LEMMA TypedStep ==
  ASSUME TypedInv, [UpdatesNext]_updateVars
  PROVE  TypedInv'
<1> USE DEF TypedInv
<1>1. CASE PageNext
  <2>1. UNCHANGED <<lockVars, jobVars, autoVars>>
    BY <1>1 DEF PageNext, BeginInstall, NotDrained, EnterMaintenance, BackupDone, BackupUnanswered,
         BeginRollbackOperation, Poll, Reopen, ReopenFails, Expire, RetryRecovery, ResumeNormal, Reload, updaterVars
  <2>. QED BY <1>1, <2>1, AloneTyped, RoundTyped, PageTyped
<1>2. CASE AcceptWork \/ FinishWork \/ Reject \/ UNCHANGED updateVars
  <2>1. UNCHANGED <<lockVars, jobVars, autoVars>>
    BY <1>2 DEF AcceptWork, FinishWork, Reject, updateVars, updaterVars
  <2>2. PageTypes'
    BY <1>2 DEF AcceptWork, FinishWork, Reject, updateVars, pageVars, PageTypes
  <2>. QED BY <2>1, <2>2, AloneTyped, RoundTyped
<1>3. ASSUME NEW p \in Process, ServePosts(p)
      PROVE  TypedInv'
  <2>1. UNCHANGED autoVars /\ PageTypes'
    BY <1>3 DEF ServePosts, Serve, PageTypes
  <2>2. JobTyped'
    BY <1>3, BeginTyped DEF ServePosts
  <2>. QED BY <2>1, <2>2, RoundTyped
<1>4. ASSUME UNCHANGED pageVars,
             \/ AutomationNext \/ AutomationCrash
             \/ /\ \/ RunsOn \/ \E p \in Process : OtherCommands(p)
                   \/ \E id \in Request : Cancel(id)
                   \/ ReadHistory \/ Publish
                   \/ LockAges /\ UNCHANGED jobVars
                /\ UNCHANGED autoVars
      PROVE  TypedInv'
  <2>1. PageTypes'
    BY <1>4 DEF pageVars, PageTypes
  <2>2. JobTyped' /\ AutoTypes'
    BY <1>4, AutomationTyped, RoundTyped, CommandTyped, OtherTyped, AloneTyped DEF RunsOn
  <2>. QED BY <2>1, <2>2
<1>. QED BY <1>1, <1>2, <1>3, <1>4 DEF UpdatesNext, UpdaterNext

(* Types of the job on disk, of every command's copy, of the installation,
   the scheduler and the page hold in every reachable state, also when two
   commands run at once because a lock was taken over.                   *)
THEOREM UpdatesTyped == UpdatesSpec => []UpdatesTypeOK
<1>1. ASSUME TypedInv PROVE UpdatesTypeOK
  <2>2. JobTypeOK
    BY <1>1 DEF TypedInv, JobTyped, CopyTypes, FileTypes, Whole, JobTypeOK
  <2>. QED BY <1>1, <2>2 DEF TypedInv, AutoTypes, PageTypes, AutomationTypeOK, UpdatesTypeOK
<1>. QED BY <1>1, TypedInit, TypedStep, PTL DEF UpdatesSpec

-----------------------------------------------------------------------------
(* When the lock excludes, and so when Alone holds.                        *)

\* No command outlives the freshness of its lock.
Fresh == stale => ~Holds(owner)

\* No two that have seen the same stale file are about to rename it.
OneTakeover == \A p, q \in Process : doing[p] = "renaming" /\ doing[q] = "renaming" => p = q

\* A command runs inside the lock, the lock is of the process that is inside,
\* and what a process is about to rename is the stale file that it has seen.
LockInv ==
  /\ \A p \in Process : pc[p] # "idle" => doing[p] = "in"
  /\ \A p \in Process : Holds(p) => owner = p
  /\ \A p \in Process : doing[p] = "renaming" => stale /\ owner # NoProcess

\* How a step of the composition moves the commands and the lock.
Inside == UNCHANGED lockVars /\ \A p \in Process : pc'[p] # "idle" => pc[p] # "idle"
Ends(p) == BeginRelease(p) /\ pc' = [pc EXCEPT ![p] = "idle"]
Dies == LockCrash /\ pc' = [p \in Process |-> "idle"]
Begins(p) == Acquire(p) /\ pc' = [pc EXCEPT ![p] = "entered"]
Waits(p) == UNCHANGED pc /\ (Remove(p) \/ FindStale(p) \/ RenameAway(p) \/ AcquireFails(p))
LockMove ==
  \/ Inside \/ Dies \/ (LockAges /\ UNCHANGED pc)
  \/ \E p \in Process : Ends(p) \/ Begins(p) \/ Waits(p)

(* Each of these moves keeps the lock's invariant.                         *)
LEMMA LockMoveKeeps ==
  ASSUME UpdatesTypeOK, Fresh, OneTakeover, LockInv, LockMove
  PROVE  LockInv'
<1>0. /\ owner \in Process \cup {NoProcess} /\ doing \in [Process -> {"out", "renaming", "creating", "in", "removing"}]
      /\ pc \in [Process -> Place]
  BY DEF UpdatesTypeOK, AutomationTypeOK, JobTypeOK, LockTypeOK
<1>1. CASE Inside
  BY <1>0, <1>1 DEF Inside, lockVars, LockInv, Holds
<1>2. CASE Dies
  BY <1>0, <1>2 DEF Dies, LockCrash, LockInv, Holds
<1>3. CASE LockAges /\ UNCHANGED pc
  BY <1>0, <1>3 DEF LockAges, LockInv, Holds
<1>4. ASSUME NEW p \in Process, Ends(p)
      PROVE  LockInv'
  BY <1>0, <1>4 DEF Ends, BeginRelease, Owned, LockInv, Holds
<1>5. ASSUME NEW p \in Process, Begins(p)
      PROVE  LockInv'
  <2>1. \A q \in Process : ~Holds(q) /\ doing[q] # "renaming"
    BY <1>5, LockAssumption DEF Begins, Acquire, LockInv
  <2> QED BY <1>0, <1>5, <2>1 DEF Begins, Acquire, LockInv, Holds
<1>6. ASSUME NEW p \in Process, Waits(p)
      PROVE  LockInv'
  <2>1. CASE Remove(p)
    <3>1. owner = p /\ ~stale
      BY <2>1 DEF Remove, LockInv, Holds, Fresh
    <3> QED BY <1>0, <1>6, <2>1, <3>1 DEF Waits, Remove, LockInv, Holds
  <2>2. CASE FindStale(p)
    BY <1>0, <1>6, <2>2 DEF Waits, FindStale, LockInv, Holds
  <2>3. CASE RenameAway(p)
    <3>1. \A q \in Process : ~Holds(q) /\ (doing[q] = "renaming" => q = p)
      BY <2>3 DEF RenameAway, LockInv, Fresh, OneTakeover
    <3> QED BY <1>0, <1>6, <2>3, <3>1 DEF Waits, RenameAway, LockInv, Holds
  <2>4. CASE AcquireFails(p)
    BY <1>0, <1>6, <2>4 DEF Waits, AcquireFails, LockInv, Holds
  <2> QED BY <1>6, <2>1, <2>2, <2>3, <2>4 DEF Waits
<1> QED BY <1>1, <1>2, <1>3, <1>4, <1>5, <1>6 DEF LockMove

(* A command at work goes from place to place inside the lock.             *)
LEMMA GotoKeepsLock ==
  ASSUME pc \in [Process -> Place], NEW p \in Process, NEW place, pc[p] # "idle", Goto(p, place), UNCHANGED lockVars
  PROVE  LockMove
BY DEF Goto, Inside, LockMove

(* The ends of commands, and of the updater.                               *)
LEMMA EndMoves ==
  /\ \A p \in Process : End(p) => LockMove
  /\ Die => LockMove
BY DEF End, Die, Ends, Dies, LockMove

(* The first save of a download or an import.                              *)
LEMMA PrepareMoves ==
  ASSUME pc \in [Process -> Place], NEW p \in Process, NEW id, NEW cur, NEW tgt, NEW delivery, NEW place,
         pc[p] # "idle", Prepare(p, id, cur, tgt, delivery, place)
  PROVE  LockMove
<1>1. (\E j : Proceed(p, j, delivery, place)) \/ Die
  BY DEF Prepare
<1> QED BY <1>1, GotoKeepsLock, EndMoves DEF Proceed

(* The commands that begin.                                                *)
LEMMA BeginsMove ==
  ASSUME pc \in [Process -> Place], NEW p \in Process, NEW id, NEW cur, NEW tgt,
         \/ Enter(p) \/ Refuse(p) \/ Preflight(p) \/ BeginBackup(p) \/ BeginApply(p) \/ BeginRollback(p)
         \/ BeginDownload(p, id, cur, tgt) \/ ImportRelease(p, id, cur, tgt)
  PROVE  LockMove
<1>1. CASE Enter(p)
  BY <1>1 DEF Enter, Goto, Begins, LockMove
<1>2. CASE Refuse(p) \/ Preflight(p)
  BY <1>2, EndMoves DEF Refuse, Preflight, EndWith
<1>3. CASE BeginBackup(p) \/ BeginApply(p) \/ BeginRollback(p) \/ ImportRelease(p, id, cur, tgt)
  BY <1>3, EndMoves, GotoKeepsLock DEF BeginBackup, BeginApply, BeginRollback, ImportRelease
<1>4. CASE BeginDownload(p, id, cur, tgt)
  BY <1>4, EndMoves, PrepareMoves DEF BeginDownload
<1> QED BY <1>1, <1>2, <1>3, <1>4

(* The steps of a command that runs, and of a process that waits.          *)
LEMMA RunMoves ==
  ASSUME pc \in [Process -> Place], NEW p \in Process, CommandStep(p)
  PROVE  LockMove
<1>1. CASE \/ FetchArtifacts(p) \/ ActivateApp(p) \/ CommitEnvironment(p) \/ PersistCurrentRelease(p)
           \/ RestoreApp(p) \/ RestoreServer(p) \/ RestoreEnvironment(p)
  BY <1>1, GotoKeepsLock
     DEF FetchArtifacts, ActivateApp, CommitEnvironment, PersistCurrentRelease, RestoreApp, RestoreServer, RestoreEnvironment
<1>2. CASE Drain(p) \/ StartMigration(p) \/ Migrate(p) \/ ActivateServer(p)
  BY <1>2, GotoKeepsLock, EndMoves DEF Drain, StartMigration, Migrate, ActivateServer, Advance
<1>3. CASE \/ PullImages(p) \/ PauseDownload(p) \/ FailDownload(p) \/ LoadImages(p) \/ TakeBackup(p) \/ FailBackup(p)
           \/ CommitJob(p) \/ FailApply(p) \/ RecordRollback(p) \/ RollbackFails(p)
  BY <1>3, EndMoves DEF PullImages, PauseDownload, FailDownload, LoadImages, TakeBackup, FailBackup, CommitJob,
       FailApply, RecordRollback, RollbackFails, EndWith
<1>4. CASE BeginImport(p)
  BY <1>4, PrepareMoves, EndMoves DEF BeginImport, EndWith
<1>5. CASE Unlock(p)
  BY <1>5 DEF Unlock, jobVars, Waits, LockMove
<1> QED BY <1>1, <1>2, <1>3, <1>4, <1>5 DEF CommandStep

(* Every step of the composition is such a move.                           *)
LEMMA AllMove ==
  ASSUME pc \in [Process -> Place], [UpdatesNext]_updateVars
  PROVE  LockMove
<1>1. CASE PageNext \/ AcceptWork \/ FinishWork \/ Reject \/ UNCHANGED updateVars
  <2>1. UNCHANGED <<lockVars, pc>>
    BY <1>1 DEF PageNext, BeginInstall, NotDrained, EnterMaintenance, BackupDone, BackupUnanswered,
         BeginRollbackOperation, Poll, Reopen, ReopenFails, Expire, RetryRecovery, ResumeNormal, Reload,
         AcceptWork, FinishWork, Reject, updateVars, updaterVars, jobVars
  <2> QED BY <2>1 DEF Inside, LockMove
<1>2. ASSUME NEW p \in Process, ServePosts(p)
      PROVE  LockMove
  BY <1>2, BeginsMove DEF ServePosts
<1>3. CASE RunsOn \/ \E p \in Process : OtherCommands(p)
  BY <1>3, RunMoves, BeginsMove DEF RunsOn, OtherCommands
<1>4. CASE (\E id \in Request : Cancel(id)) \/ ReadHistory \/ Publish \/ (LockAges /\ UNCHANGED jobVars)
  BY <1>4 DEF Cancel, ReadHistory, Publish, jobVars, Inside, LockMove
<1>5. CASE AutomationNext
  <2>1. CASE AutoCheck \/ PruneRead \/ PruneRemove \/ RoundFails
    <3>1. UNCHANGED <<lockVars, pc>>
      BY <2>1 DEF AutoCheck, PruneRead, PruneRemove, RoundFails, jobVars
    <3> QED BY <3>1 DEF Inside, LockMove
  <2>2. ASSUME NEW p \in Process, AutoEnter(p) \/ AutoDownload(p)
        PROVE  LockMove
    BY <2>2, BeginsMove, RunMoves DEF AutoEnter, AutoDownload, CommandStep
  <2> QED BY <1>5, <2>1, <2>2 DEF AutomationNext
<1>6. CASE AutomationCrash
  BY <1>6, EndMoves DEF AutomationCrash, UpdaterCrash
<1> QED BY <1>1, <1>2, <1>3, <1>4, <1>5, <1>6 DEF UpdatesNext, UpdaterNext

(* The lock does what it is for (Acquire and Release of lock.go), for any  *)
(* number of processes and crashes, while no command outlives the five     *)
(* minutes of its lock and no two rename the same stale lock; both are     *)
(* needed.                                                                 *)
THEOREM LockExcludes ==
  UpdatesSpec /\ []Fresh /\ []OneTakeover => [](OneHolder /\ Alone)
<1>1. PageInit => LockInv
  BY DEF PageInit, AutomationInit, UpdateJobInit, LockInit, LockInv, Holds
<1>2. UpdatesTypeOK /\ Fresh /\ OneTakeover /\ LockInv /\ [UpdatesNext]_updateVars => LockInv'
  <2>1. UpdatesTypeOK => pc \in [Process -> Place]
    BY DEF UpdatesTypeOK, AutomationTypeOK, JobTypeOK
  <2> QED BY <2>1, AllMove, LockMoveKeeps
<1>3. LockInv => OneHolder /\ Alone
  BY DEF LockInv, OneHolder, Holds, Alone
<1> QED BY <1>1, <1>2, <1>3, UpdatesTyped, PTL DEF UpdatesSpec
=============================================================================
