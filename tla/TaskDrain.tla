----------------------------- MODULE TaskDrain -----------------------------
(***************************************************************************)
(* Admission of processing requests, the asynchronous tasks some of them   *)
(* create, and the drain that precedes maintenance.  A request of Tasks    *)
(* inserts a row and runs on after its answer; one of Direct ends with its *)
(* handler; one of Smokes is the updater's verification, which carries the *)
(* one-time capability.  The batch items that the drain also counts are in *)
(* BatchLifecycle.                                                         *)
(***************************************************************************)
EXTENDS Naturals, FiniteSets

CONSTANTS Tasks, Direct, Smokes,
          MaxFaults          \* bound: restarts and failed database or file calls

ASSUME TaskAssumption ==
    /\ IsFiniteSet(Tasks \cup Direct \cup Smokes) /\ Tasks \cap Smokes = {}
    /\ MaxFaults \in Nat

Requests == Tasks \cup Direct \cup Smokes
Modes == {"normal", "draining", "maintenance"}

VARIABLES mode,       \* RuntimeModeService.state.mode
          modeFile,   \* runtime-mode.json
          request,    \* progress of every request through the guard and its handler
          capability, \* .updater-smoke-token is on disk
          row,        \* tasks.status, "none" before the INSERT
          resultPath, \* tasks whose row has a result_path
          stored,     \* tasks whose result file is written
          run,        \* progress of runTask, which nobody awaits
          cancel,     \* progress of a cancel call
          drain,      \* the snapshot under way, whether the last one said "drained",
                      \* and the tasks inserted while it was under way
          faults
drainVars == <<mode, modeFile, request, capability, row, resultPath, stored, run, cancel, drain, faults>>

Live(t) == row[t] \in {"pending", "processing"}
LiveRows == {t \in Tasks : Live(t)}
ActiveRequests == {r \in Requests : request[r] = "counted"}

TaskDrainInit ==
    /\ mode = "normal" /\ modeFile = "normal"
    /\ request = [r \in Requests |-> "ready"]
    /\ capability = FALSE
    /\ row = [t \in Tasks |-> "none"]
    /\ resultPath = {} /\ stored = {}
    /\ run = [t \in Tasks |-> "none"]
    /\ cancel = [t \in Tasks |-> FALSE]
    /\ drain = [asked |-> FALSE, rows |-> 0, fresh |-> FALSE, drained |-> FALSE, late |-> {}]
    /\ faults = 0

Fault == faults < MaxFaults /\ faults' = faults + 1
---------------------------------------------------------------------------
(* ProcessingRequestGuard: the mode is read and the request counted without *)
(* an await in between.                                                     *)
Pass(r, how) ==
    /\ request[r] = "ready" /\ mode = "normal"
    /\ request' = [request EXCEPT ![r] = how]
    /\ UNCHANGED <<mode, modeFile, capability, row, resultPath, stored, run, cancel, drain, faults>>

AdmitUncounted(r) == Pass(r, "exempt")
Admit(r) == Pass(r, "counted")

ConsumesCapability(r) == r \in Smokes /\ mode = "maintenance" /\ capability

AdmitSmoke(r) ==
    /\ request[r] = "ready" /\ ConsumesCapability(r)
    /\ request' = [request EXCEPT ![r] = "exempt"]
    /\ capability' = FALSE
    /\ UNCHANGED <<mode, modeFile, row, resultPath, stored, run, cancel, drain, faults>>

RefuseRequest(r) ==
    /\ request[r] = "ready" /\ mode # "normal" /\ ~ConsumesCapability(r)
    /\ request' = [request EXCEPT ![r] = "ended"]
    /\ UNCHANGED <<mode, modeFile, capability, row, resultPath, stored, run, cancel, drain, faults>>

\* The handler ends: answered, refused by a later check, or its upload aborted.
FinishRequest(r) ==
    /\ request[r] \in {"counted", "exempt"}
    /\ request' = [request EXCEPT ![r] = "ended"]
    /\ UNCHANGED <<mode, modeFile, capability, row, resultPath, stored, run, cancel, drain, faults>>

\* The updater publishes a new capability, or removes the one it published.
PublishCapability ==
    /\ capability' \in BOOLEAN \ {capability}
    /\ UNCHANGED <<mode, modeFile, request, row, resultPath, stored, run, cancel, drain, faults>>
---------------------------------------------------------------------------
\* TaskService.create: the row, then runTask without awaiting it.
CreateTask(t) ==
    /\ request[t] \in {"counted", "exempt"} /\ row[t] = "none"
    /\ row' = [row EXCEPT ![t] = "pending"]
    /\ run' = [run EXCEPT ![t] = "start"]
    /\ drain' = IF drain.asked THEN [drain EXCEPT !.late = @ \cup {t}] ELSE drain
    /\ UNCHANGED <<mode, modeFile, request, capability, resultPath, stored, cancel, faults>>

Runs(t, next) == run' = [run EXCEPT ![t] = next]
Tables == <<row, resultPath>>
Around == <<mode, modeFile, request, capability, cancel, drain>>

\* runTask: UPDATE ... SET 'processing' WHERE status = 'pending'.
StartTask(t) ==
    /\ run[t] = "start" /\ Runs(t, "check")
    /\ row' = IF row[t] = "pending" THEN [row EXCEPT ![t] = "processing"] ELSE row
    /\ UNCHANGED <<Around, resultPath, stored, faults>>

ProcessThrows(t) ==
    /\ run[t] = "work"
    /\ \E end \in {"store", "ended"} : Runs(t, end)
    /\ UNCHANGED <<Around, Tables, stored, faults>>

\* currentStatus: a task canceled in the meantime is not processed.
CheckStarted(t) ==
    /\ run[t] = "check"
    /\ Runs(t, IF row[t] = "processing" THEN "work" ELSE "ended")
    /\ UNCHANGED <<Around, Tables, stored, faults>>

ProcessTask(t) ==
    /\ run[t] = "work"
    /\ \E end \in {"store", "fail"} : Runs(t, end)
    /\ UNCHANGED <<Around, Tables, stored, faults>>

StoreResult(t) ==
    /\ run[t] = "store" /\ Runs(t, "record")
    /\ stored' = stored \cup {t}
    /\ UNCHANGED <<Around, Tables, faults>>

\* UPDATE ... SET 'success', result_path WHERE status = 'processing'.
RecordSuccess(t) ==
    /\ run[t] = "record" /\ Runs(t, "ended")
    /\ IF row[t] = "processing"
       THEN row' = [row EXCEPT ![t] = "success"] /\ resultPath' = resultPath \cup {t}
       ELSE UNCHANGED Tables
    /\ UNCHANGED <<Around, stored, faults>>

MarkFailedAlways(t) ==
    /\ run[t] = "fail" /\ Runs(t, "ended")
    /\ row' = [row EXCEPT ![t] = "failed"]
    /\ UNCHANGED <<Around, resultPath, stored, faults>>

MarkFailed(t) ==
    /\ run[t] = "fail" /\ Runs(t, "ended")
    /\ row' = IF Live(t) THEN [row EXCEPT ![t] = "failed"] ELSE row
    /\ UNCHANGED <<Around, resultPath, stored, faults>>

\* A failed call inside the try ends in MarkFailed; outside it the run is lost.
RunFails(t) ==
    /\ run[t] \in {"start", "check", "store", "record", "fail"} /\ Fault
    /\ Runs(t, IF run[t] \in {"store", "record"} THEN "fail" ELSE "ended")
    /\ UNCHANGED <<Around, Tables, stored>>

\* cancel: the row is read, then updated if it is still live.
CancelRead(t) ==
    /\ ~cancel[t] /\ Live(t)
    /\ cancel' = [cancel EXCEPT ![t] = TRUE]
    /\ UNCHANGED <<mode, modeFile, request, capability, Tables, stored, run, drain, faults>>

CancelUpdate(t) ==
    /\ cancel[t] /\ cancel' = [cancel EXCEPT ![t] = FALSE]
    /\ row' = IF Live(t) THEN [row EXCEPT ![t] = "canceled"] ELSE row
    /\ UNCHANGED <<mode, modeFile, request, capability, resultPath, stored, run, drain, faults>>
---------------------------------------------------------------------------
\* RuntimeModeService.setMode: file first, then memory, without an await.
SetMode(m) ==
    /\ mode # m /\ mode' = m /\ modeFile' = m
    /\ drain' = IF m = "normal" THEN [drain EXCEPT !.fresh = FALSE, !.drained = FALSE, !.late = {}] ELSE drain
    /\ UNCHANGED <<request, capability, Tables, stored, run, cancel, faults>>

\* TaskDrainService.getSnapshot: the rows are counted by the database ...
CountRows ==
    /\ ~drain.asked
    /\ drain' = [drain EXCEPT !.asked = TRUE, !.rows = Cardinality(LiveRows),
                              !.fresh = mode # "normal"]
    /\ UNCHANGED <<mode, modeFile, request, capability, Tables, stored, run, cancel, faults>>

\* ... and the requests of this process when that answer arrives.
AnswerSnapshot ==
    /\ drain.asked
    /\ LET drained == drain.fresh /\ drain.rows + Cardinality(ActiveRequests) = 0
       IN  drain' = [asked |-> FALSE, rows |-> 0, fresh |-> FALSE, drained |-> drained,
                     late |-> IF drained THEN drain.late ELSE {}]
    /\ UNCHANGED <<mode, modeFile, request, capability, Tables, stored, run, cancel, faults>>

\* loadOrInitialize: an unreadable file fails closed.
Loaded(readable) == IF readable THEN modeFile ELSE "maintenance"

Restart ==
    /\ Fault
    /\ \E readable \in BOOLEAN : mode' = Loaded(readable)
    /\ request' = [r \in Requests |-> IF request[r] = "ready" THEN "ready" ELSE "ended"]
    /\ run' = [t \in Tasks |-> IF run[t] = "none" THEN "none" ELSE "ended"]
    /\ cancel' = [t \in Tasks |-> FALSE]
    /\ LET drained == drain.drained /\ mode' # "normal"
       IN  drain' = [asked |-> FALSE, rows |-> 0, fresh |-> FALSE, drained |-> drained,
                     late |-> IF drained THEN drain.late ELSE {}]
    /\ UNCHANGED <<modeFile, capability, Tables, stored>>

RunTask(t) ==
    \/ StartTask(t) \/ CheckStarted(t) \/ ProcessTask(t)
    \/ StoreResult(t) \/ RecordSuccess(t) \/ MarkFailed(t)

TaskDrainNext ==
    \/ \E r \in Requests : Admit(r) \/ RefuseRequest(r) \/ FinishRequest(r)
    \/ \E r \in Smokes : AdmitSmoke(r)
    \/ \E t \in Tasks : CreateTask(t) \/ RunTask(t) \/ RunFails(t) \/ CancelRead(t) \/ CancelUpdate(t)
    \/ \E m \in Modes : SetMode(m)
    \/ PublishCapability \/ CountRows \/ AnswerSnapshot \/ Restart

TaskDrainSpec == TaskDrainInit /\ [][TaskDrainNext]_drainVars

\* Node resumes every pending promise; nothing else is promised.
TaskFairness == \A t \in Tasks : WF_drainVars(RunTask(t))
---------------------------------------------------------------------------
TaskDrainTypeOK ==
    /\ mode \in Modes /\ modeFile \in Modes
    /\ request \in [Requests -> {"ready", "counted", "exempt", "ended"}]
    /\ row \in [Tasks -> {"none", "pending", "processing", "success", "failed", "canceled"}]
    /\ run \in [Tasks -> {"none", "start", "check", "work", "store", "record", "fail", "ended"}]
    /\ drain.rows \in 0 .. Cardinality(Tasks) /\ drain.late \subseteq Tasks

\* What the one snapshot that precedes maintenance is worth: the update page
\* tests "drained" once (Updates.vue:272), waitForDrain returns at the first
\* drained snapshot (task-drain.service.ts:65), and the updater takes none.  If
\* it was begun and answered outside normal mode and that mode was not resumed
\* since, no request is counted any more, and a task that is live was inserted
\* between the two halves of that very snapshot, by a request that had ended
\* when the requests were counted.  Such a task is left over: a drained
\* snapshot does not say that nothing runs.
DrainedOnce ==
    drain.drained => ActiveRequests = {} /\ LiveRows \subseteq drain.late

\* A task that succeeded has its result on disk, and no late step of the run,
\* no cancel and no restart takes a final status back.
ResultsKept ==
    /\ [](\A t \in Tasks : row[t] = "success" => t \in stored \cap resultPath)
    /\ [][\A t \in Tasks : row[t] \in {"success", "failed", "canceled"} => row'[t] = row[t]]_drainVars

\* Unless a call fails or the server stops, every accepted task ends.
TasksEnd == \A t \in Tasks : []<>(~Live(t) \/ faults > 0)
=============================================================================
