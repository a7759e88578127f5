------------------------------ MODULE UpdateJob ------------------------------
(***************************************************************************)
(* The product update of the updater: the job in state.json, the commands  *)
(* that move it from phase to phase, and what they do to the installation. *)
(* A command takes the lock, loads the job, works on its own copy and      *)
(* saves it after every step; the updater may die between any two of them. *)
(* cancel, status and history take no lock.                                *)
(*                                                                         *)
(* A release is its version.  Its signature and manifest are verified      *)
(* wherever the code does so (ReleaseRules has those checks).              *)
(***************************************************************************)
EXTENDS UpdaterLock

CONSTANTS
  Request,     \* request ids that administrators use
  NoRequest,   \* the id of no job
  MaxVersion,  \* versions are 1..MaxVersion; 1 is installed at first
  Reversible,  \* versions whose manifest allows an application rollback
  NeedsRestore \* versions whose rollback needs the database backup restored

ASSUME UpdateAssumption ==
  /\ NoRequest \notin Request
  /\ MaxVersion \in Nat \ {0}
  /\ Reversible \subseteq 1..MaxVersion /\ NeedsRestore \subseteq 1..MaxVersion

Version == 1..MaxVersion

VARIABLES
  job,       \* state.json
  history,   \* history/: the archived records, "rollback" standing for "<id>-rollback"
  releases,  \* releases/<version>: "none", its "metadata" only, or "staged" whole
  cancels,   \* cancellations/: the requests with a cancellation file
  published, \* the version the release channel serves
  env,       \* the version in .env
  current,   \* the version in current/release.json
  app, server, \* the versions of the running services
  schema,    \* the version whose migrations the database has
  pc,        \* per process: where its command is
  mem        \* per process: the command's copy of the job

files     == <<job, history, releases, cancels, published>>
installed == <<env, current, app, server, schema>>
jobVars   == <<files, installed, pc, mem>>

Active == {"DOWNLOADING", "VERIFIED", "PRECHECKED", "BACKING_UP", "BACKED_UP",
           "DRAINING", "MIGRATING", "DEPLOYING", "VERIFYING"}
TerminalOrFailed == {"COMMITTED", "ROLLED_BACK", "FAILED"}
Terminal == {"COMMITTED", "ROLLED_BACK"}
Phase == Active \cup Terminal
           \cup {"NONE", "AVAILABLE", "FAILED", "PAUSED", "ROLLBACK_REQUIRED"}

(* An archived job, or the record of a rollback, with its CurrentVersion.  *)
Record(id, kind, cur) == [id |-> id, kind |-> kind, cur |-> cur]
NoBackup == [env |-> 0, current |-> 0, schema |-> 0]
Backup == [env : 0..MaxVersion, current : 0..MaxVersion, schema : 0..MaxVersion]

(* resume is ResumePhase; backup, what the backup named by BackupID holds; *)
(* recovery, whether Recovery lets the dashboard offer the rollback.       *)
Job == [id : Request \cup {NoRequest}, cur : 0..MaxVersion, tgt : 0..MaxVersion,
        delivery : {"online", "offline"}, phase : Phase, resume : Active \cup {"NONE"},
        backup : Backup, recovery : {"unset", "offered", "manual"}]

NewJob(id, cur, tgt) ==
  [id |-> id, cur |-> cur, tgt |-> tgt, delivery |-> "online", phase |-> "AVAILABLE",
   resume |-> "NONE", backup |-> NoBackup, recovery |-> "unset"]

NoJob == [NewJob(NoRequest, 0, 0) EXCEPT !.phase = "NONE"]

-----------------------------------------------------------------------------
(* The phases and their transitions.                                       *)
Successors == [f \in Phase |->
  CASE f = "AVAILABLE"   -> {"DOWNLOADING"}
    [] f = "DOWNLOADING" -> {"VERIFIED", "PAUSED"}
    [] f = "VERIFIED"    -> {"PRECHECKED"}
    [] f = "PRECHECKED"  -> {"BACKING_UP"}
    [] f = "BACKING_UP"  -> {"BACKED_UP", "PAUSED"}
    [] f = "BACKED_UP"   -> {"DRAINING"}
    [] f = "DRAINING"    -> {"MIGRATING", "PAUSED"}
    [] f = "MIGRATING"   -> {"DEPLOYING"}
    [] f = "DEPLOYING"   -> {"VERIFYING"}
    [] f = "VERIFYING"   -> {"COMMITTED"}
    [] f = "COMMITTED"   -> {"ROLLBACK_REQUIRED"}
    [] f = "FAILED"      -> {"PAUSED", "ROLLBACK_REQUIRED"}
    [] f = "ROLLBACK_REQUIRED" -> {"ROLLED_BACK"}
    [] OTHER -> {}]

CanTransition(j, next) ==
  \/ next = "FAILED" /\ j.phase \in Active
  \/ j.phase = "PAUSED" /\ next = j.resume /\ next \in Active
  \/ next \in Successors[j.phase]

ResumeAlwaysKept(j, next) ==
  [j EXCEPT !.phase = next,
            !.resume = IF next \in {"FAILED", "PAUSED"} THEN j.phase ELSE j.resume]

Transition(j, next) ==
  [j EXCEPT !.phase = next,
            !.resume = CASE next = "FAILED" \/ (next = "PAUSED" /\ j.phase \in Active) -> j.phase
                         [] j.phase = "PAUSED" /\ next = j.resume -> "NONE"
                         [] OTHER -> j.resume]

(* FAILED or PAUSED at phase, the job goes through PAUSED back to it.      *)
Resumable(j, phase) == j.phase \in {"FAILED", "PAUSED"} /\ j.resume = phase
Resumed(j) == Transition(IF j.phase = "FAILED" THEN Transition(j, "PAUSED") ELSE j, j.resume)

UpdateJobInit ==
  /\ LockInit
  /\ job = NoJob /\ history = {} /\ cancels = {}
  /\ releases = [v \in Version |-> "none"]
  /\ published = 1
  /\ env = 1 /\ current = 1 /\ app = 1 /\ server = 1 /\ schema = 1
  /\ pc = [p \in Process |-> "idle"]
  /\ mem = [p \in Process |-> NoJob]

-----------------------------------------------------------------------------
(* Steps that commands are made of.                                        *)

Goto(p, place) == pc' = [pc EXCEPT ![p] = place]

(* Store.Save of the command's copy, which the command keeps using.        *)
Save(p, j) == job' = j /\ mem' = [mem EXCEPT ![p] = j]

(* The deferred lock.Release of a command that ends.                       *)
End(p) ==
  /\ pc' = [pc EXCEPT ![p] = "idle"]
  /\ mem' = [mem EXCEPT ![p] = NoJob]
  /\ BeginRelease(p)

(* A command ends with its job saved as j.                                 *)
EndWith(p, j) == job' = j /\ End(p)

(* The updater dies.                                                       *)
Die ==
  /\ pc' = [p \in Process |-> "idle"]
  /\ mem' = [p \in Process |-> NoJob]
  /\ LockCrash

(* advanceJob: the copy moves to next and is saved; the command goes on.   *)
Advance(p, next, place) ==
  /\ CanTransition(mem[p], next)
  /\ Save(p, Transition(mem[p], next))
  /\ Goto(p, place)
  /\ UNCHANGED lockVars

Enter(p) ==
  /\ pc[p] = "idle" /\ Acquire(p)
  /\ Goto(p, "entered")
  /\ UNCHANGED <<files, installed, mem>>

(* An error or a refusal before anything is saved.                         *)
Refuse(p) ==
  /\ pc[p] \in {"entered", "imported", "checking"} /\ End(p)
  /\ UNCHANGED <<files, installed>>

Unlock(p) ==
  \/ Remove(p) /\ UNCHANGED jobVars
  \/ (FindStale(p) \/ RenameAway(p) \/ AcquireFails(p)) /\ UNCHANGED jobVars

UpdaterCrash == Die /\ UNCHANGED <<files, installed>>

(* The publisher serves the next release.                                  *)
Publish ==
  /\ published < MaxVersion /\ published' = published + 1
  /\ UNCHANGED <<lockVars, job, history, releases, cancels, installed, pc, mem>>

-----------------------------------------------------------------------------
(* download and import.                                                    *)

(* Store.Archive refuses an id that the history has.                       *)
Archived(id) == \E r \in history : r.id = id /\ r.kind = "update"

(* prepareDownloadJob: a new job, after the terminal one is archived, or   *)
(* the job of the same request.  It is saved as it was found or created,   *)
(* again as DOWNLOADING, and by an import with its delivery; the updater   *)
(* may die after each, and between the archive and the first of them (the  *)
(* archived id then stays in state.json, and Archive refuses it for good). *)
Delivered(j, delivery) == IF delivery = "online" THEN j ELSE [j EXCEPT !.delivery = delivery]

Proceed(p, j, delivery, place) ==
  \/ Save(p, Delivered(j, delivery)) /\ Goto(p, place) /\ UNCHANGED lockVars
  \/ job' = j /\ Die

Prepare(p, id, cur, tgt, delivery, place) ==
  LET same == job.id = id /\ job.cur = cur /\ job.tgt = tgt
  IN \/ /\ job = NoJob \/ (~same /\ job.phase \in Terminal /\ ~Archived(job.id))
        /\ history' = IF job = NoJob THEN history ELSE history \cup {Record(job.id, "update", job.cur)}
        /\ \/ Proceed(p, Transition(NewJob(id, cur, tgt), "DOWNLOADING"), delivery, place)
           \/ job' \in {job, NewJob(id, cur, tgt)} /\ Die
     \/ /\ same /\ UNCHANGED history
        /\ \/ job.phase = "DOWNLOADING" /\ Proceed(p, job, delivery, place)
           \/ Resumable(job, "DOWNLOADING") /\ Proceed(p, Resumed(job), delivery, place)
           \/ job.phase = "FAILED" /\ job.resume = "DOWNLOADING"
                /\ job' = Transition(job, "PAUSED") /\ Die

(* The channel must serve tgt; a cancellation from before is forgotten.    *)
BeginDownload(p, id, cur, tgt) ==
  /\ pc[p] = "entered" /\ published = tgt
  /\ cancels' = cancels \ {id}
  /\ \/ /\ Prepare(p, id, cur, tgt, "online", "artifacts")
        /\ releases' = IF releases[tgt] = "none"
                         THEN [releases EXCEPT ![tgt] = "metadata"] ELSE releases
     \/ /\ job.id = id /\ job.cur = cur /\ job.tgt = tgt /\ job.phase = "VERIFIED"
        /\ End(p) /\ UNCHANGED <<job, history, releases>>
  /\ UNCHANGED <<published, installed>>

(* The artifacts, and the progress saves, up to the one of stage "images". *)
FetchArtifacts(p) ==
  /\ pc[p] = "artifacts" /\ mem[p].phase = "DOWNLOADING"
  /\ releases' = [releases EXCEPT ![mem[p].tgt] = "staged"]
  /\ Save(p, mem[p]) /\ Goto(p, "images")
  /\ UNCHANGED <<lockVars, history, cancels, published, installed>>

PullImages(p) ==
  /\ pc[p] = "images" /\ CanTransition(mem[p], "VERIFIED")
  /\ EndWith(p, Transition(mem[p], "VERIFIED"))
  /\ cancels' = cancels \ {mem[p].id}
  /\ UNCHANGED <<history, releases, published, installed>>

PauseDownload(p) ==
  /\ pc[p] \in {"artifacts", "images"} /\ mem[p].id \in cancels
  /\ CanTransition(mem[p], "PAUSED")
  /\ EndWith(p, Transition(mem[p], "PAUSED"))
  /\ cancels' = cancels \ {mem[p].id}
  /\ UNCHANGED <<history, releases, published, installed>>

FailDownload(p) ==
  /\ pc[p] \in {"artifacts", "images", "loading"}
  /\ EndWith(p, Transition(mem[p], "FAILED"))
  /\ UNCHANGED <<history, releases, cancels, published, installed>>

Cancel(id) ==
  /\ job.id = id /\ job.phase = "DOWNLOADING"
  /\ cancels' = cancels \cup {id}
  /\ UNCHANGED <<lockVars, job, history, releases, published, installed, pc, mem>>

(* offline.Import: the package becomes releases/<version> before the job   *)
(* is prepared.  A directory that a download left incomplete is an error.  *)
ImportRelease(p, id, cur, v) ==
  /\ pc[p] = "entered" /\ v > cur /\ releases[v] # "metadata"
  /\ releases' = [releases EXCEPT ![v] = "staged"]
  /\ mem' = [mem EXCEPT ![p] = NewJob(id, cur, v)]
  /\ Goto(p, "imported")
  /\ UNCHANGED <<lockVars, job, history, cancels, published, installed>>

BeginImport(p) ==
  /\ pc[p] = "imported"
  /\ LET m == mem[p] IN
     \/ Prepare(p, m.id, m.cur, m.tgt, "offline", "loading")
     \/ /\ job.id = m.id /\ job.cur = m.cur /\ job.tgt = m.tgt /\ job.phase = "VERIFIED"
        /\ EndWith(p, [job EXCEPT !.delivery = "offline"]) /\ UNCHANGED history
  /\ UNCHANGED <<releases, cancels, published, installed>>

LoadImages(p) ==
  /\ pc[p] = "loading"
  /\ EndWith(p, Transition(mem[p], "VERIFIED"))
  /\ UNCHANGED <<history, releases, cancels, published, installed>>

-----------------------------------------------------------------------------
(* preflight and backup create, for the versions and the id of the job.    *)

(* The channel must still serve the target, for an offline release too.    *)
Preflight(p) ==
  /\ pc[p] = "entered" /\ published = job.tgt
  /\ job.phase \in {"VERIFIED", "PRECHECKED"}
  /\ EndWith(p, IF job.phase = "VERIFIED" THEN Transition(job, "PRECHECKED") ELSE job)
  /\ UNCHANGED <<history, releases, cancels, published, installed>>

BeginBackup(p) ==
  /\ pc[p] = "entered"
  /\ \/ /\ \/ job.phase = "PRECHECKED" /\ Save(p, Transition(job, "BACKING_UP"))
           \/ job.phase = "BACKING_UP" /\ Save(p, job)
           \/ Resumable(job, "BACKING_UP") /\ Save(p, Resumed(job))
        /\ Goto(p, "dumping") /\ UNCHANGED lockVars
     \/ /\ job.phase = "FAILED" /\ job.resume = "BACKING_UP"
        /\ job' = Transition(job, "PAUSED") /\ Die
  /\ UNCHANGED <<history, releases, cancels, published, installed>>

(* The backup is complete and verified, or it is not.                      *)
TakeBackup(p) ==
  /\ pc[p] = "dumping" /\ CanTransition(mem[p], "BACKED_UP")
  /\ EndWith(p, [Transition(mem[p], "BACKED_UP") EXCEPT
                   !.backup = [env |-> env, current |-> current, schema |-> schema]])
  /\ UNCHANGED <<history, releases, cancels, published, installed>>

FailBackup(p) ==
  /\ pc[p] = "dumping"
  /\ EndWith(p, Transition(mem[p], "FAILED"))
  /\ UNCHANGED <<history, releases, cancels, published, installed>>

-----------------------------------------------------------------------------
(* apply, for the versions and the id of the job.                          *)

BeginApply(p) ==
  /\ pc[p] = "entered" /\ job.phase = "BACKED_UP" /\ job.backup # NoBackup
  /\ mem' = [mem EXCEPT ![p] = job] /\ Goto(p, "checking")
  /\ UNCHANGED <<lockVars, files, installed>>

(* The backup and the staged release are verified, an online release is    *)
(* authorized once more, and the target environment is prepared.           *)
Drain(p) ==
  /\ pc[p] = "checking" /\ releases[mem[p].tgt] = "staged"
  /\ mem[p].delivery = "online" => published = mem[p].tgt
  /\ Advance(p, "DRAINING", "draining")
  /\ UNCHANGED <<history, releases, cancels, published, installed>>

StartMigration(p) ==
  /\ pc[p] = "draining"
  /\ Advance(p, "MIGRATING", "migrating")
  /\ UNCHANGED <<history, releases, cancels, published, installed>>

Migrate(p) ==
  /\ pc[p] = "migrating"
  /\ schema' = mem[p].tgt
  /\ \/ Advance(p, "DEPLOYING", "deploying app")
     \/ UNCHANGED job /\ Die
  /\ UNCHANGED <<history, releases, cancels, published, env, current, app, server>>

ActivateApp(p) ==
  /\ pc[p] = "deploying app"
  /\ app' = mem[p].tgt
  /\ Goto(p, "deploying server")
  /\ UNCHANGED <<lockVars, files, env, current, server, schema, mem>>

ActivateServer(p) ==
  /\ pc[p] = "deploying server"
  /\ server' = mem[p].tgt
  /\ \/ Advance(p, "VERIFYING", "verifying")
     \/ UNCHANGED job /\ Die
  /\ UNCHANGED <<history, releases, cancels, published, env, current, app, schema>>

(* Health and smoke verification passed: CommitEnvironment.                *)
CommitEnvironment(p) ==
  /\ pc[p] = "verifying"
  /\ env' = mem[p].tgt
  /\ Goto(p, "persisting")
  /\ UNCHANGED <<lockVars, files, current, app, server, schema, mem>>

PersistCurrentRelease(p) ==
  /\ pc[p] = "persisting"
  /\ current' = mem[p].tgt
  /\ Goto(p, "committing")
  /\ UNCHANGED <<lockVars, files, env, app, server, schema, mem>>

(* What a rollback of j would need, as the dashboard is told.              *)
Offered(tgt) == IF tgt \in Reversible \ NeedsRestore THEN "offered" ELSE "manual"

CommitJob(p) ==
  /\ pc[p] = "committing" /\ CanTransition(mem[p], "COMMITTED")
  /\ EndWith(p, [Transition(mem[p], "COMMITTED") EXCEPT !.recovery = Offered(mem[p].tgt)])
  /\ UNCHANGED <<history, releases, cancels, published, installed>>

(* failApply: FAILED, and then ROLLBACK_REQUIRED unless the manifest allows*)
(* no rollback of a release whose migration was complete.  release.json is *)
(* replaced before its signature is written, or fails to be.               *)
FailApply(p) ==
  LET m == mem[p]
      uncertain == pc[p] = "migrating"
      failed == Transition(m, "FAILED")
      required == [Transition(failed, "ROLLBACK_REQUIRED") EXCEPT
                    !.recovery = IF uncertain THEN "manual" ELSE Offered(m.tgt)]
  IN /\ pc[p] \in {"migrating", "deploying app", "deploying server", "verifying", "persisting"}
     /\ \/ job' = failed /\ Die
        \/ EndWith(p, IF uncertain \/ m.tgt \in Reversible THEN required ELSE failed)
     /\ schema' \in IF uncertain THEN {schema, m.tgt} ELSE {schema}
     /\ app' \in IF pc[p] = "deploying app" THEN {app, m.tgt} ELSE {app}
     /\ server' \in IF pc[p] = "deploying server" THEN {server, m.tgt} ELSE {server}
     /\ current' \in IF pc[p] = "persisting" THEN {current, m.tgt} ELSE {current}
     /\ UNCHANGED <<history, releases, cancels, published, env>>

-----------------------------------------------------------------------------
(* rollback and history.                                                   *)

(* The manifest decides; the backup is looked at after the phase is saved. *)
BeginRollback(p) ==
  /\ pc[p] = "entered" /\ job.phase \in {"COMMITTED", "ROLLBACK_REQUIRED"}
  /\ job.backup # NoBackup /\ releases[job.tgt] = "staged"
  /\ job.tgt \in Reversible \ NeedsRestore
  /\ Save(p, IF job.phase = "COMMITTED" THEN Transition(job, "ROLLBACK_REQUIRED") ELSE job)
  /\ Goto(p, "restoring app") /\ UNCHANGED lockVars
  /\ UNCHANGED <<history, releases, cancels, published, installed>>

RestoreApp(p) ==
  /\ pc[p] = "restoring app"
  /\ app' = mem[p].backup.env
  /\ Goto(p, "restoring server")
  /\ UNCHANGED <<lockVars, files, env, current, server, schema, mem>>

RestoreNoServer(p) ==
  /\ pc[p] = "restoring server"
  /\ Goto(p, "verifying restored")
  /\ UNCHANGED <<lockVars, files, env, current, app, server, schema, mem>>

RestoreServer(p) ==
  /\ pc[p] = "restoring server"
  /\ server' = mem[p].backup.env
  /\ Goto(p, "verifying restored")
  /\ UNCHANGED <<lockVars, files, env, current, app, schema, mem>>

(* CommitEnvironment; the metadata is restored as far as it can be read.   *)
RestoreEnvironment(p) ==
  /\ pc[p] = "verifying restored"
  /\ env' = mem[p].backup.env
  /\ current' \in {current, mem[p].backup.current}
  /\ Goto(p, "recording")
  /\ UNCHANGED <<lockVars, files, app, server, schema, mem>>

(* ROLLED_BACK is saved, then the record of the rollback is archived; the  *)
(* latter fails, and the command with it, when history was faster.         *)
RecordRollback(p) ==
  /\ pc[p] = "recording" /\ CanTransition(mem[p], "ROLLED_BACK")
  /\ \/ /\ EndWith(p, Transition(mem[p], "ROLLED_BACK"))
        /\ history' = history \cup {Record(mem[p].id, "rollback", mem[p].tgt)}
     \/ /\ job' = Transition(mem[p], "ROLLED_BACK") /\ Die
        /\ UNCHANGED history
  /\ UNCHANGED <<releases, cancels, published, installed>>

RollbackFails(p) ==
  /\ pc[p] \in {"restoring app", "restoring server", "verifying restored"}
  /\ End(p)
  /\ app' \in IF pc[p] = "restoring app" THEN {app, mem[p].backup.env} ELSE {app}
  /\ server' \in IF pc[p] = "restoring server" THEN {server, mem[p].backup.env} ELSE {server}
  /\ UNCHANGED <<files, env, current, schema>>

(* history archives a record that is missing.                              *)
ReadHistory ==
  /\ job.phase = "ROLLED_BACK"
  /\ history' = history \cup {Record(job.id, "rollback", job.tgt)}
  /\ history' # history
  /\ UNCHANGED <<lockVars, job, releases, cancels, published, installed, pc, mem>>

-----------------------------------------------------------------------------
(* The steps of a command that is running.                                 *)
CommandStep(p) ==
  \/ FetchArtifacts(p) \/ PullImages(p) \/ PauseDownload(p) \/ FailDownload(p)
  \/ BeginImport(p) \/ LoadImages(p) \/ TakeBackup(p) \/ FailBackup(p)
  \/ Drain(p) \/ StartMigration(p) \/ Migrate(p) \/ ActivateApp(p) \/ ActivateServer(p)
  \/ CommitEnvironment(p) \/ PersistCurrentRelease(p) \/ CommitJob(p) \/ FailApply(p)
  \/ RestoreApp(p) \/ RestoreServer(p) \/ RestoreEnvironment(p)
  \/ RecordRollback(p) \/ RollbackFails(p)
  \/ Unlock(p)

(* The installed version that the dashboard sends with a request: the one  *)
(* of its job, or the one the server reports.                              *)
Installed(id) == IF job.id = id /\ job.phase \notin Terminal THEN job.cur ELSE server

(* The commands an administrator may give at any time.                     *)
CommandBegins(p) ==
  \/ Enter(p) \/ Refuse(p) \/ Preflight(p) \/ BeginBackup(p) \/ BeginApply(p) \/ BeginRollback(p)
  \/ \E id \in Request, tgt \in Version :
       LET cur == Installed(id) IN
       cur < tgt /\ (BeginDownload(p, id, cur, tgt) \/ ImportRelease(p, id, cur, tgt))

UpdateJobNext ==
  \/ \E p \in Process : CommandStep(p) \/ CommandBegins(p)
  \/ \E id \in Request : Cancel(id)
  \/ ReadHistory \/ Publish \/ UpdaterCrash
  \/ LockAges /\ UNCHANGED jobVars

(* Where a command can be between two steps.                               *)
Place == {"idle", "entered", "imported", "artifacts", "images", "loading", "dumping",
          "checking", "draining", "migrating", "deploying app", "deploying server",
          "verifying", "persisting", "committing",
          "restoring app", "restoring server", "verifying restored", "recording"}

JobTypeOK ==
  /\ LockTypeOK
  /\ job \in Job /\ history \subseteq [id : Request, kind : {"update", "rollback"}, cur : Version]
  /\ releases \in [Version -> {"none", "metadata", "staged"}]
  /\ cancels \subseteq Request /\ published \in Version
  /\ env \in Version /\ current \in Version /\ app \in Version /\ server \in Version
  /\ schema \in Version
  /\ pc \in [Process -> Place] /\ mem \in [Process -> Job]

-----------------------------------------------------------------------------
(* A COMMITTED job means that .env, the metadata, the services and the     *)
(* database are all of its target; a ROLLED_BACK one, that .env and the    *)
(* services are what the backup recorded.  No crash comes in between       *)
(* (runApply and runRollback save the phase last).                         *)
InstallationAgrees ==
  /\ job.phase = "COMMITTED" => {env, current, app, server, schema} = {job.tgt}
  /\ job.phase = "ROLLED_BACK" => {env, app, server} = {job.backup.env}

(* From the first change of the database on, and as long as the services   *)
(* are of two releases, the job names a complete backup, and no service is *)
(* of a third release: the rollback the job offers puts back the release   *)
(* that every one of them came from.                                       *)
Recoverable ==
  (app # server \/ app # env \/ job.phase \in {"MIGRATING", "DEPLOYING", "VERIFYING",
                                               "ROLLBACK_REQUIRED", "COMMITTED"})
  => /\ job.backup # NoBackup
     /\ {app, server, env} \subseteq {job.backup.env, job.tgt}
=============================================================================
