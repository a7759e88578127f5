-------------------------- MODULE UpdateAutomation --------------------------
(***************************************************************************)
(* The scheduler of the updater, a timer beside the commands of UpdateJob: *)
(* it checks the channel, downloads a newer release under a request id of  *)
(* its own, and removes staged releases that nothing protects.  The check  *)
(* and the removal take no lock.                                           *)
(***************************************************************************)
EXTENDS UpdateJob

CONSTANTS
  Automatic,    \* the request id "automatic-<version>" of each version
  RetainReleases

ASSUME AutomationAssumption ==
  /\ Automatic \in [Version -> Request]
  /\ RetainReleases \in Nat \ {0}

VARIABLES
  auto,    \* RunOnce: "idle", to "download", "downloading", to "prune", "pruning"
  autoBy,  \* the process whose command the scheduler waits for
  found,   \* the installed and the published version that the check saw
  status,  \* automation-status.json: AvailableVersion and Downloaded
  doomed   \* the directories that PruneReleases is going to remove

autoVars == <<auto, autoBy, found, status, doomed>>

AutomationInit ==
  /\ UpdateJobInit
  /\ auto = "idle" /\ autoBy = NoProcess /\ doomed = {}
  /\ found = [cur |-> 0, tgt |-> 0]
  /\ status = [available |-> 0, downloaded |-> FALSE]

(* recordSuccess and recordFailure: the round ends until the next attempt. *)
RoundEnds ==
  /\ auto' = "idle" /\ autoBy' = NoProcess /\ doomed' = {}
  /\ found' = [cur |-> 0, tgt |-> 0]

AutoCheck ==
  /\ auto = "idle"
  /\ status' = [available |-> published, downloaded |-> FALSE]
  /\ found' = [cur |-> current, tgt |-> published]
  /\ auto' = IF current < published THEN "download" ELSE "prune"
  /\ UNCHANGED <<lockVars, jobVars, autoBy, doomed>>

AutoEnter(p) ==
  /\ auto = "download" /\ Enter(p)
  /\ auto' = "downloading" /\ autoBy' = p
  /\ UNCHANGED <<found, status, doomed>>

(* The command exited 0: the release is verified, was so already, or the   *)
(* download was cancelled and is paused.                                   *)
Downloaded ==
  /\ auto' = "prune" /\ autoBy' = NoProcess
  /\ status' = [status EXCEPT !.downloaded = TRUE]
  /\ UNCHANGED <<found, doomed>>

AutoDownload(p) ==
  /\ autoBy = p
  /\ \/ FetchArtifacts(p) /\ UNCHANGED autoVars
     \/ PullImages(p) /\ Downloaded
     \/ PauseDownload(p) /\ Downloaded
     \/ FailDownload(p) /\ RoundEnds /\ UNCHANGED status
     \/ Refuse(p) /\ RoundEnds /\ UNCHANGED status
     \/ /\ BeginDownload(p, Automatic[found.tgt], found.cur, found.tgt)
        /\ CASE pc'[p] # "idle"        -> UNCHANGED autoVars
             [] job.phase = "VERIFIED" -> Downloaded
             [] OTHER                  -> RoundEnds /\ UNCHANGED status

(* PruneReleases: the releases directory, the installed version, the job   *)
(* and the newest record of the history (which one is left open) are read; *)
(* the newest RetainReleases releases stay.                                *)
PruneRead ==
  /\ auto = "prune"
  /\ \E newest \in IF history = {} THEN {0} ELSE {r.cur : r \in history} :
       LET present   == {v \in Version : releases[v] # "none"}
           protected == {current, job.cur, job.tgt, newest}
       IN doomed' = {v \in present \ protected :
                       Cardinality({w \in present : w > v}) >= RetainReleases}
  /\ auto' = "pruning"
  /\ UNCHANGED <<lockVars, jobVars, autoBy, found, status>>

PruneRemove ==
  /\ auto = "pruning"
  /\ releases' = [v \in Version |-> IF v \in doomed THEN "none" ELSE releases[v]]
  /\ RoundEnds
  /\ UNCHANGED <<lockVars, job, history, cancels, published, installed, pc, mem, status>>

(* The check fails, the lock is held, or a directory cannot be read.       *)
RoundFails ==
  /\ auto \in {"download", "prune"}
  /\ RoundEnds /\ UNCHANGED <<lockVars, jobVars, status>>

(* The updater dies with all its commands; its scheduler starts over.      *)
AutomationCrash == UpdaterCrash /\ RoundEnds /\ UNCHANGED status

-----------------------------------------------------------------------------
CommandsNext ==
  \/ \E p \in Process \ {autoBy} : CommandStep(p) \/ CommandBegins(p)
  \/ \E id \in Request : Cancel(id)
  \/ ReadHistory \/ Publish
  \/ LockAges /\ UNCHANGED jobVars

AutomationNext ==
  \/ AutoCheck \/ PruneRead \/ PruneRemove \/ RoundFails
  \/ \E p \in Process : AutoEnter(p) \/ AutoDownload(p)

AutomationTypeOK ==
  /\ JobTypeOK
  /\ auto \in {"idle", "download", "downloading", "prune", "pruning"}
  /\ autoBy \in Process \cup {NoProcess}
  /\ found \in [cur : 0..MaxVersion, tgt : 0..MaxVersion]
  /\ status \in [available : 0..MaxVersion, downloaded : BOOLEAN]
  /\ doomed \subseteq Version
=============================================================================
