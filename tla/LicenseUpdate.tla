---------------------------- MODULE LicenseUpdate ----------------------------
(***************************************************************************)
(* The replacement of the runtime license from end to end: the service of  *)
(* the server that drains the tasks, holds maintenance mode and asks the   *)
(* updater, composed with the updater's LicenseManager.                    *)
(*                                                                         *)
(* The two processes talk over HTTP: a request may be lost or arrive after *)
(* the server gave it up, an answer may be lost, and either process may    *)
(* die between any two steps.  Node runs a handler up to its next await    *)
(* without interleaving, so such a stretch is one action; when it writes   *)
(* two files, the action also has an outcome in which it dies in between.  *)
(***************************************************************************)
EXTENDS LicenseManager

CONSTANT Admin \* the request id of a mode change made on the dashboard

ASSUME AdminAssumption == Admin \notin Request \cup {NoRequest}

VARIABLES
  update,     \* LicenseUpdateService.job, always equal to its license-update.json
  mode,       \* runtime-mode.json: the mode and the requestId that set it
  run,        \* run(): "none", waiting in "drain", or waiting for its "post"
  posted,     \* the request whose answer run() awaits
  posts,      \* POST /v1/license requests the updater has not handled
  answer,     \* the answer to run(): "none", "rejected", or the phase reported
  query,      \* reconcile(): "none", "asked", or "told"
  told,       \* the status that GET /v1/license reported
  recovery,   \* recover(): "none", "sent", or "told"
  recovering, \* the request that recover() asked to restore
  recovers,   \* POST /v1/license/recover requests the updater has not handled
  drawn,      \* history: the request ids in use
  misfiled    \* history: recover() saved the status of an earlier request

start     == <<run, posted, posts, answer>>
reconcile == <<query, told>>
recover   == <<recovery, recovering, recovers>>
history   == <<drawn, misfiled>>
service   == <<update, mode, start, reconcile, recover, history>>
vars      == <<manager, service>>

Status(r, phase) == [id |-> r, phase |-> phase]
Untold == Status(NoRequest, "none")
Mode(m, r) == [mode |-> m, owner |-> r]

UpdateInit ==
  /\ Init
  /\ update = Untold
  /\ mode = Mode("normal", NoRequest)
  /\ run = "none" /\ posted = NoRequest /\ posts = {} /\ answer = "none"
  /\ query = "none" /\ told = Untold
  /\ recovery = "none" /\ recovering = NoRequest /\ recovers = {}
  /\ drawn = {} /\ misfiled = FALSE

-----------------------------------------------------------------------------
(* A restarted server has no call in progress; its requests may still be   *)
(* on their way.                                                           *)
Forget ==
  /\ run' = "none" /\ posted' = NoRequest /\ answer' = "none"
  /\ query' = "none" /\ told' = Untold
  /\ recovery' = "none" /\ recovering' = NoRequest
  /\ UNCHANGED <<posts, recovers>>

(* releaseMaintenance(), once the job j is recorded.                       *)
Released(j) ==
  IF j.phase \in Ended /\ mode.owner = j.id /\ mode.mode # "normal"
    THEN Mode("normal", j.id) ELSE mode

(* The job is saved and then the mode is set: both, or a crash in between. *)
UpdateThenMode(j, m, continue) ==
  /\ update' = j
  /\ \/ mode' = m /\ continue
     \/ UNCHANGED mode /\ Forget

Record(j, continue) == UpdateThenMode(j, Released(j), continue)

-----------------------------------------------------------------------------
(* start() and run().                                                      *)

BeginStart(r) ==
  /\ r \notin drawn
  /\ mode.mode = "normal" /\ update.phase \in Ended
  /\ UpdateThenMode(Status(r, "DRAINING"), Mode("draining", r),
       /\ run' = "drain"
       /\ UNCHANGED <<posted, posts, answer, reconcile, recover>>)
  /\ drawn' = drawn \cup {r}
  /\ UNCHANGED <<manager, misfiled>>

(* The tasks did not drain, or the mode has another owner by now.          *)
DrainFails ==
  /\ run = "drain"
  /\ Record([update EXCEPT !.phase = "FAILED"],
       /\ run' = "none"
       /\ UNCHANGED <<posted, posts, answer, reconcile, recover>>)
  /\ UNCHANGED <<manager, history>>

Dispatch ==
  /\ run = "drain" /\ mode.owner = update.id
  /\ mode' = Mode("maintenance", update.id)
  /\ \/ /\ update' = [update EXCEPT !.phase = "DISPATCHING"]
        /\ run' = "post" /\ posted' = update.id /\ posts' = posts \cup {update.id}
        /\ UNCHANGED <<answer, reconcile, recover>>
     \/ UNCHANGED update /\ Forget
  /\ UNCHANGED <<manager, history>>

(* The updater handles the request; run() may have given it up.            *)
Answer(r, a) == answer' = IF posted = r THEN a ELSE answer

HandlePost(r) ==
  /\ r \in posts /\ posts' = posts \ {r}
  /\ \/ StartAccepted(r) /\ Answer(r, "VALIDATING")
     \/ StartNotSaved(r) /\ Answer(r, "rejected")
     \/ UNCHANGED manager /\ Answer(r, "rejected")
  /\ UNCHANGED <<update, mode, run, posted, reconcile, recover, history>>

ReadAnswer ==
  /\ run = "post" /\ answer # "none"
  /\ Record(IF answer = "rejected" THEN [update EXCEPT !.phase = "FAILED"]
            ELSE Status(posted, answer),
       /\ run' = "none" /\ posted' = NoRequest /\ answer' = "none"
       /\ UNCHANGED <<posts, reconcile, recover>>)
  /\ UNCHANGED <<manager, history>>

(* Mutant: a lost answer is taken for a refusal. *)
GiveUpFails ==
  /\ run = "post"
  /\ Record([update EXCEPT !.phase = "FAILED"],
       /\ run' = "none" /\ posted' = NoRequest /\ answer' = "none"
       /\ UNCHANGED <<posts, reconcile, recover>>)
  /\ UNCHANGED <<manager, history>>

(* Mutant: the flag draining stays set when the answer is lost. *)
GiveUpDraining ==
  /\ run = "post"
  /\ answer' = "none"
  /\ UNCHANGED <<manager, update, mode, run, posted, posts, reconcile, recover, history>>

(* The answer is lost or late: reconciliation takes over.                  *)
GiveUp ==
  /\ run = "post"
  /\ run' = "none" /\ posted' = NoRequest /\ answer' = "none"
  /\ UNCHANGED <<manager, update, mode, posts, reconcile, recover, history>>

-----------------------------------------------------------------------------
(* reconcile(), called by a timer, by status() and by recover().           *)

(* recover(), once reconcile() has returned with the job j.  Bound: one    *)
(* request to recover a job is on its way.                                 *)
SendRecovery(j) ==
  /\ recovery = "none" /\ j.id \notin recovers
  /\ j.phase = "RECOVERY_REQUIRED" /\ mode.owner = j.id
  /\ recovery' = "sent" /\ recovering' = j.id /\ recovers' = recovers \cup {j.id}

(* Mutant: an ended job needs no more work. *)
ReleaseEndedSkipped ==
  /\ query = "none" /\ update.phase \in Ended
  /\ UNCHANGED vars

ReleaseEnded ==
  /\ query = "none" /\ update.phase \in Ended
  /\ mode' = Released(update)
  /\ UNCHANGED <<manager, update, start, reconcile, recover, history>>

(* DRAINING without a run(): the server was restarted.                     *)
EndInterrupted ==
  /\ query = "none" /\ run = "none" /\ update.phase = "DRAINING"
  /\ Record([update EXCEPT !.phase = "FAILED"], UNCHANGED <<start, reconcile, recover>>)
  /\ UNCHANGED <<manager, history>>

Ask ==
  /\ query = "none" /\ run = "none" /\ update.phase \notin Ended \cup {"DRAINING"}
  /\ query' = "asked"
  /\ UNCHANGED <<manager, update, mode, start, told, recover, history>>

(* The updater handles GET /v1/license.                                    *)
Tell ==
  /\ query = "asked"
  /\ query' = "told" /\ told' = Status(job.id, job.phase)
  /\ UNCHANGED <<manager, update, mode, start, recover, history>>

(* The call fails or times out, or the status is of another request, which *)
(* is no answer: maintenance remains.                                      *)
AskFails ==
  /\ query # "none"
  /\ query' = "none" /\ told' = Untold
  /\ UNCHANGED <<manager, update, mode, start, recover, history>>

(* Mutant: an updater that reports another request has lost this one. *)
ConcludeGuessing ==
  /\ query = "told"
  /\ Record(IF told.id = update.id THEN told ELSE [update EXCEPT !.phase = "FAILED"],
       /\ query' = "none" /\ told' = Untold
       /\ UNCHANGED <<start, recover>>)
  /\ UNCHANGED <<manager, history>>

(* When recover() awaits it, it goes on with the status just saved.        *)
Conclude ==
  /\ query = "told" /\ told.id = update.id
  /\ Record(told,
       /\ query' = "none" /\ told' = Untold
       /\ UNCHANGED start
       /\ UNCHANGED recover \/ SendRecovery(told))
  /\ UNCHANGED <<manager, history>>

-----------------------------------------------------------------------------
(* recover().                                                              *)

(* reconcile() does nothing while another call of it or run() is active.   *)
PostRecovery ==
  /\ query # "none" \/ run # "none"
  /\ SendRecovery(update)
  /\ UNCHANGED <<manager, update, mode, start, reconcile, history>>

HandleRecovery(r) ==
  /\ r \in recovers /\ recovers' = recovers \ {r}
  /\ \/ /\ RecoverAccepted(r)
        /\ UNCHANGED recovering
        /\ recovery' = IF recovering = r THEN "told" ELSE recovery
     \/ /\ UNCHANGED manager
        /\ recovery' = IF recovering = r THEN "none" ELSE recovery
        /\ recovering' = IF recovering = r THEN NoRequest ELSE recovering
  /\ UNCHANGED <<update, mode, start, reconcile, history>>

ReadRecovery ==
  /\ recovery = "told"
  /\ update' = Status(recovering, "RECOVERY_REQUIRED")
  /\ misfiled' = (misfiled \/ update.id # recovering)
  /\ recovery' = "none" /\ recovering' = NoRequest
  /\ UNCHANGED <<manager, mode, start, reconcile, recovers, drawn>>

GiveUpRecovery ==
  /\ recovery # "none"
  /\ recovery' = "none" /\ recovering' = NoRequest
  /\ UNCHANGED <<manager, update, mode, start, reconcile, recovers, history>>

-----------------------------------------------------------------------------
(* The rest of the world.                                                  *)

LosePost ==
  /\ \/ \E r \in posts : posts' = posts \ {r} /\ UNCHANGED recovers
     \/ \E r \in recovers : recovers' = recovers \ {r} /\ UNCHANGED posts
  /\ UNCHANGED <<manager, update, mode, run, posted, answer, reconcile, recovery, recovering, history>>

(* PUT /dashboard/runtime-mode; draining stops new work as maintenance does. *)
AdminSetsMode ==
  /\ mode' \in {Mode("normal", Admin), Mode("maintenance", Admin)}
  /\ UNCHANGED <<manager, update, start, reconcile, recover, history>>

CrashServer ==
  /\ Forget
  /\ UNCHANGED <<manager, update, mode, history>>

UpdaterStep == (WorkStep \/ LoseLock) /\ UNCHANGED service

(* Connections to a dead updater are closed.                               *)
UpdaterCrashes ==
  /\ CrashUpdater
  /\ posts' = {} /\ recovers' = {}
  /\ UNCHANGED <<update, mode, run, posted, answer, reconcile, recovery, recovering, history>>

Next ==
  \/ UpdaterStep \/ UpdaterCrashes
  \/ \E r \in Request : BeginStart(r) \/ HandlePost(r) \/ HandleRecovery(r)
  \/ DrainFails \/ Dispatch \/ ReadAnswer \/ GiveUp
  \/ ReleaseEnded \/ EndInterrupted \/ Ask \/ Tell \/ AskFails \/ Conclude
  \/ PostRecovery \/ ReadRecovery \/ GiveUpRecovery
  \/ LosePost \/ AdminSetsMode \/ CrashServer

Spec == UpdateInit /\ [][Next]_vars

-----------------------------------------------------------------------------
StatusType == [id : Request \cup {NoRequest}, phase : Phase \cup {"DRAINING", "DISPATCHING"}]

UpdateTypeOK ==
  /\ ManagerTypeOK
  /\ update \in StatusType /\ told \in StatusType
  /\ mode \in [mode : {"normal", "draining", "maintenance"}, owner : Request \cup {NoRequest, Admin}]
  /\ run \in {"none", "drain", "post"}
  /\ answer \in {"none", "rejected", "VALIDATING"}
  /\ query \in {"none", "asked", "told"} /\ recovery \in {"none", "sent", "told"}
  /\ posted \in Request \cup {NoRequest} /\ recovering \in Request \cup {NoRequest}
  /\ posts \subseteq Request /\ recovers \subseteq Request /\ drawn \subseteq Request

(* While the updater works on a license, the server is in maintenance for  *)
(* that request, or an administrator took the mode over.  Excused: a job   *)
(* that withLock declares unfinished after it had ended, and a late answer *)
(* to recover() that overwrites a newer job.                               *)
MaintenanceHeld ==
  work \notin {"none", "end"} /\ ~withdrawn /\ ~misfiled =>
    mode = Mode("maintenance", job.id) \/ mode.owner = Admin

(* The outcome the server shows is the one the application runs with.      *)
(* Excused: a late answer to recover() that overwrites a newer job.        *)
EndIsTrue ==
  ~misfiled =>
    /\ update.phase = "SUCCEEDED" => file = update.id /\ loaded = update.id
    /\ update.phase \in {"FAILED", "ROLLED_BACK"} => file # update.id /\ loaded # update.id

(* As the updater's messages promise and the test of the service expects,  *)
(* the server stays in maintenance for a job that asks for recovery.       *)
RecoveryKeepsMaintenance ==
  job.phase = "RECOVERY_REQUIRED" => mode = Mode("maintenance", job.id) \/ mode.owner = Admin

(* Fairness: every call of the server ends (answer, error or 30 s timeout), *)
(* the timer of reconcile() keeps firing, the drain is over after 60 s, and *)
(* an updater that runs goes on.  Answers are not lost for ever.            *)
FairSpec ==
  /\ Spec
  /\ WF_vars(WorkStep /\ UNCHANGED service)
  /\ WF_vars(DrainFails \/ Dispatch) /\ WF_vars(GiveUp)
  /\ WF_vars(EndInterrupted) /\ WF_vars(ReleaseEnded)
  /\ WF_vars(Ask) /\ WF_vars(AskFails) /\ SF_vars(Tell) /\ SF_vars(Conclude)

(* The updater refused the request or never had it and the answer is lost, *)
(* or it may still get it: the server fails closed, line 135.              *)
Unheard == update.phase # "DRAINING" /\ job.id # update.id

(* Start() could not save its journal, and the job has no work.            *)
Stranded == job.phase = "VALIDATING" /\ work = "none"

(* Whatever is lost and whoever restarts, the server learns the outcome of *)
(* a request, or that the operator must recover it.                        *)
UpdateEnds ==
  update.phase \notin Ended ~>
    update.phase \in Ended \cup {"RECOVERY_REQUIRED"} \/ Unheard \/ Stranded

(* When a request has ended, maintenance is released, even if the server   *)
(* died after it saved the outcome and before it set the mode.             *)
MaintenanceReleased ==
  update.phase \in Ended ~> mode.mode = "normal" \/ mode.owner # update.id

=============================================================================
