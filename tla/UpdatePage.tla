------------------------------ MODULE UpdatePage ------------------------------
(***************************************************************************)
(* The update page of the dashboard, composed with the updater: it drains  *)
(* the server, holds maintenance mode, asks for the backup and then for    *)
(* the installation or the rollback, and polls the job until it can put    *)
(* the server back to normal.  The pending operation is in localStorage:   *)
(* the page may be closed and opened again.  A request passes through the  *)
(* server, which the installation replaces, so its answer may be lost      *)
(* while the updater goes on, and it may reach the updater late, when the  *)
(* job is another one: it names the request it is for, and is refused.     *)
(***************************************************************************)
EXTENDS UpdateAutomation

VARIABLES
  mode,    \* runtime-mode.json of the server
  work,    \* tasks are queued or processed
  page,    \* "ready", "draining", "backup", "watching", or "reopening"
  pending, \* the pending operation: "none", "install" or "rollback" ...
  asked,   \* ... and the request id it is for
  seen,    \* id, phase and recovery of the job as the page last read it
  posts    \* posts the updater has not taken up, each with its request id

pageVars == <<mode, work, page, pending, asked, seen, posts>>
updaterVars == <<lockVars, jobVars, autoVars>>
updateVars == <<updaterVars, pageVars>>

View(j) == [id |-> j.id, phase |-> j.phase, recovery |-> j.recovery]

PageInit ==
  /\ AutomationInit
  /\ mode = "normal" /\ work = FALSE
  /\ page = "ready" /\ pending = "none" /\ asked = NoRequest
  /\ seen = View(NoJob) /\ posts = {}

-----------------------------------------------------------------------------
(* The server: a task is accepted in normal mode only.                     *)
AcceptWork ==
  /\ mode = "normal" /\ ~work /\ work' = TRUE
  /\ UNCHANGED <<updaterVars, mode, page, pending, asked, seen, posts>>

FinishWork ==
  /\ work /\ work' = FALSE
  /\ UNCHANGED <<updaterVars, mode, page, pending, asked, seen, posts>>

-----------------------------------------------------------------------------
(* The page.                                                               *)

Post(what, id) == [what |-> what, id |-> id]

Dispatch(action) ==
  /\ pending' = action /\ asked' = seen.id
  /\ posts' = posts \cup {Post(action, seen.id)}
  /\ page' = "watching"

(* prepareAndApply, confirmed by the administrator.                        *)
BeginInstall ==
  /\ page = "ready" /\ pending = "none" /\ seen.phase \in {"PRECHECKED", "BACKED_UP"}
  /\ mode' = "draining" /\ page' = "draining"
  /\ UNCHANGED <<updaterVars, work, pending, asked, seen, posts>>

(* Tasks are left: the page says so and the server goes on draining.       *)
NotDrained ==
  /\ page = "draining" /\ work /\ page' = "ready"
  /\ UNCHANGED <<updaterVars, mode, work, pending, asked, seen, posts>>

EnterMaintenance ==
  /\ page = "draining" /\ ~work
  /\ mode' = "maintenance"
  /\ IF seen.phase = "BACKED_UP" THEN Dispatch("install")
     ELSE /\ page' = "backup" /\ posts' = posts \cup {Post("backup", seen.id)}
          /\ UNCHANGED <<pending, asked>>
  /\ UNCHANGED <<updaterVars, work, seen>>

BackupDone ==
  /\ page = "backup" /\ Post("backup", seen.id) \notin posts
  /\ job.id = seen.id /\ job.phase = "BACKED_UP"
  /\ Dispatch("install")
  /\ UNCHANGED <<updaterVars, mode, work, seen>>

(* An error, or no answer within two minutes: maintenance stays.           *)
BackupUnanswered ==
  /\ page = "backup" /\ page' = "ready" /\ seen' = View(job)
  /\ UNCHANGED <<updaterVars, mode, work, pending, asked, posts>>

BeginRollbackOperation ==
  /\ page = "ready" /\ pending = "none"
  /\ seen.phase \in {"COMMITTED", "ROLLBACK_REQUIRED"} /\ seen.recovery = "offered"
  /\ Dispatch("rollback")
  /\ UNCHANGED <<updaterVars, mode, work, seen>>

Succeeded == job.phase = IF pending = "install" THEN "COMMITTED" ELSE "ROLLED_BACK"
Failed == job.phase \in IF pending = "install"
                          THEN {"FAILED", "ROLLBACK_REQUIRED", "ROLLED_BACK"} ELSE {"FAILED"}

(* recoverPendingOperation reads the status of the job.                    *)
Poll ==
  /\ page = "watching"
  /\ seen' = IF job.id = asked THEN View(job) ELSE seen
  /\ \/ /\ job.id = asked /\ Succeeded
        /\ page' = "reopening" /\ UNCHANGED <<pending, asked, posts>>
     \/ /\ job.id = asked /\ Failed
        /\ page' = "ready" /\ pending' = "none" /\ asked' = NoRequest /\ UNCHANGED posts
     \/ /\ job.phase = IF pending = "install" THEN "BACKED_UP" ELSE "COMMITTED"
        /\ posts' = posts \cup {Post(pending, asked)} /\ UNCHANGED <<page, pending, asked>>
     \/ /\ ~(job.id = asked /\ (Succeeded \/ Failed))
        /\ UNCHANGED <<page, pending, asked, posts>>
  /\ UNCHANGED <<updaterVars, mode, work>>

Reopen ==
  /\ page = "reopening"
  /\ mode' = "normal"
  /\ page' = "ready" /\ pending' = "none" /\ asked' = NoRequest /\ seen' = View(job)
  /\ UNCHANGED <<updaterVars, work, posts>>

(* The server does not take the mode: the page polls once more.            *)
ReopenFails ==
  /\ page = "reopening" /\ page' = "watching"
  /\ UNCHANGED <<updaterVars, mode, work, pending, asked, seen, posts>>

(* Fifteen minutes have passed: the page stops polling.                    *)
Expire ==
  /\ page = "watching" /\ page' = "ready"
  /\ UNCHANGED <<updaterVars, mode, work, pending, asked, seen, posts>>

RetryRecovery ==
  /\ page = "ready" /\ pending # "none" /\ page' = "watching"
  /\ UNCHANGED <<updaterVars, mode, work, pending, asked, seen, posts>>

ResumeNormal ==
  /\ page = "ready" /\ mode # "normal" /\ seen.id # NoRequest
  /\ seen.phase \notin {"DOWNLOADING", "BACKING_UP", "DRAINING", "MIGRATING", "DEPLOYING", "VERIFYING"}
  /\ mode' = "normal"
  /\ UNCHANGED <<updaterVars, work, page, pending, asked, seen, posts>>

(* The page is opened again, or its status refreshed.                      *)
Reload ==
  /\ page' = IF pending = "none" THEN "ready" ELSE "watching"
  /\ seen' = View(job)
  /\ UNCHANGED <<updaterVars, mode, work, pending, asked, posts>>

PageNext ==
  \/ BeginInstall \/ NotDrained \/ EnterMaintenance \/ BackupDone \/ BackupUnanswered
  \/ BeginRollbackOperation \/ Poll \/ Reopen \/ ReopenFails \/ Expire \/ RetryRecovery
  \/ ResumeNormal \/ Reload

-----------------------------------------------------------------------------
(* The updater takes a post up that is for its job (the versions go with   *)
(* the id), or refuses it: the lock is held, or the job is another one.    *)
ServeAny(what) ==
  /\ \E post \in posts : post.what = what /\ posts' = posts \ {post}
  /\ UNCHANGED <<autoVars, mode, work, page, pending, asked, seen>>

Serve(what) ==
  /\ Post(what, job.id) \in posts /\ posts' = posts \ {Post(what, job.id)}
  /\ UNCHANGED <<autoVars, mode, work, page, pending, asked, seen>>

Reject ==
  /\ \E post \in posts : posts' = posts \ {post}
  /\ UNCHANGED <<updaterVars, mode, work, page, pending, asked, seen>>

ServePosts(p) ==
  /\ p # autoBy
  /\ \/ Serve("backup") /\ BeginBackup(p)
     \/ Serve("install") /\ BeginApply(p)
     \/ Serve("rollback") /\ BeginRollback(p)

(* Every other command of the page, which has no part in the maintenance.  *)
OtherCommands(p) ==
  /\ p # autoBy
  /\ \/ Enter(p) \/ Refuse(p) \/ Preflight(p)
     \/ \E id \in Request, tgt \in Version :
          LET cur == Installed(id) IN
          cur < tgt /\ (BeginDownload(p, id, cur, tgt) \/ ImportRelease(p, id, cur, tgt))

RunsOn == \E p \in Process \ {autoBy} : CommandStep(p)

UpdaterNext ==
  \/ /\ \/ AutomationNext \/ AutomationCrash
        \/ /\ \/ RunsOn \/ \E p \in Process : OtherCommands(p)
              \/ \E id \in Request : Cancel(id)
              \/ ReadHistory \/ Publish
              \/ LockAges /\ UNCHANGED jobVars
           /\ UNCHANGED autoVars
     /\ UNCHANGED pageVars
  \/ \E p \in Process : ServePosts(p)
  \/ Reject

UpdatesNext == PageNext \/ UpdaterNext \/ AcceptWork \/ FinishWork

UpdatesSpec == PageInit /\ [][UpdatesNext]_updateVars

(* A request id is used for one job: newRequestId makes it of the time and *)
(* a random number.  The scheduler's "automatic-<version>" comes back when *)
(* a version is downloaded again after its rollback by another job.        *)
OneJobEach ==
  (job = NoJob \/ job.phase \in Terminal) /\ job'.phase \in {"AVAILABLE", "DOWNLOADING"}
    => job'.id # job.id /\ ~Archived(job'.id)

-----------------------------------------------------------------------------
UpdatesTypeOK ==
  /\ AutomationTypeOK
  /\ mode \in {"normal", "draining", "maintenance"} /\ work \in BOOLEAN
  /\ page \in {"ready", "draining", "backup", "watching", "reopening"}
  /\ pending \in {"none", "install", "rollback"} /\ asked \in Request \cup {NoRequest}
  /\ seen \in [id : Request \cup {NoRequest}, phase : Phase, recovery : {"unset", "offered", "manual"}]
  /\ posts \subseteq [what : {"backup", "install", "rollback"}, id : Request \cup {NoRequest}]

Changing == {"draining", "migrating", "deploying app", "deploying server", "verifying",
             "persisting", "committing"}

(* The page answers for "new work is blocked and active tasks are drained" *)
(* when it asks for an installation: none runs while tasks do.             *)
QuietInstall == work => \A p \in Process : pc[p] \notin Changing

(* What the page itself puts back to normal is one whole release: services *)
(* and .env agree and no command is changing them.  The page looks once,   *)
(* and reopens later: a post that was on its way since an earlier update   *)
(* may arrive in between, and is refused for its request id (apply.go,     *)
(* rollback.go and backup.go).  Of a second page nothing is said: what it  *)
(* begins in between is not waited for.                                    *)
ReopensWhole ==
  [][page = "reopening" /\ page' = "ready" =>
       /\ app = server /\ server = env
       /\ \A p \in Process : pc[p] \notin Changing]_updateVars
=============================================================================
