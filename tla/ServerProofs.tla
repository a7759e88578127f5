----------------------------- MODULE ServerProofs -----------------------------
(***************************************************************************)
(* The server beside its batches, component by component: the tasks and    *)
(* the drain, the sessions of its accounts, its settings, and what runs    *)
(* before it serves.  The components share no variable; each part has its  *)
(* own invariant, and none needs a bound on its constants.                 *)
(***************************************************************************)
EXTENDS TaskDrain, Accounts, ServerSettings, ServerStartup, FiniteSetTheorems, TLAPS

-----------------------------------------------------------------------------
(* The drain and the task rows, for any number of tasks and requests.       *)

Snapshot == [asked : BOOLEAN, rows : 0 .. Cardinality(Tasks), fresh : BOOLEAN, drained : BOOLEAN, late : SUBSET Tasks]

TypeInv ==
    /\ TaskDrainTypeOK
    /\ cancel \in [Tasks -> BOOLEAN] /\ capability \in BOOLEAN
    /\ drain \in Snapshot

\* Work of the updater's verification creates no task.
CountedTasks == \A t \in Tasks : request[t] # "exempt"

\* A drained snapshot, and the count of rows under way, were taken outside
\* normal mode; there no request is admitted, so after a drained snapshot none
\* is counted and no row inserted.  A row that is live although the count under
\* way found none was inserted since.
DrainInv ==
    /\ drain.fresh \/ drain.drained => mode # "normal"
    /\ drain.asked /\ drain.fresh /\ drain.rows = 0 => LiveRows \subseteq drain.late
    /\ DrainedOnce

StoredInv == \A t \in Tasks :
    /\ run[t] = "record" => t \in stored
    /\ row[t] = "success" => t \in stored \cap resultPath

TaskInv == TypeInv /\ CountedTasks /\ DrainInv /\ StoredInv

-----------------------------------------------------------------------------
(* Counting nothing means that there is nothing.                           *)
LEMMA NoneCounted ==
  ASSUME NEW S, S \subseteq Requests
  PROVE  Cardinality(S) \in Nat /\ (Cardinality(S) = 0 => S = {})
<1>1. IsFiniteSet(S)
  BY TaskAssumption, FS_Subset DEF Requests
<1> QED BY <1>1, FS_CardinalityType, FS_EmptySet

(* Counting fewer rows than there are tasks.                               *)
LEMMA FewerRows ==
  Cardinality(Tasks) \in Nat /\ Cardinality(LiveRows) \in 0 .. Cardinality(Tasks)
<1>1. IsFiniteSet(Tasks)
  BY TaskAssumption, FS_Subset
<1>2. LiveRows \subseteq Tasks
  BY DEF LiveRows
<1>3. Cardinality(LiveRows) <= Cardinality(Tasks) /\ Cardinality(LiveRows) \in Nat /\ Cardinality(Tasks) \in Nat
  BY <1>1, <1>2, FS_Subset, FS_CardinalityType
<1> QED BY <1>3

(* The server starts with nothing to do.                                   *)
LEMMA InitTasks == TaskDrainInit => TaskInv
<1>1. Cardinality(Tasks) \in Nat
  BY TaskAssumption, FS_Subset, FS_CardinalityType
<1> SUFFICES ASSUME TaskDrainInit PROVE TaskInv
  OBVIOUS
<1> USE DEF TaskDrainInit
<1>2. drain \in Snapshot
  BY <1>1 DEF Snapshot
<1>5. TypeInv
  BY <1>1, <1>2 DEF TypeInv, Snapshot, TaskDrainTypeOK, Modes
<1>3. CountedTasks /\ StoredInv
  BY DEF CountedTasks, StoredInv, Requests
<1>4. DrainInv
  BY DEF DrainInv, DrainedOnce
<1> QED BY <1>5, <1>3, <1>4 DEF TaskInv

(* A request that is admitted or ends.                                     *)
LEMMA RequestKeeps ==
  ASSUME TaskInv, NEW r \in Requests, Admit(r) \/ RefuseRequest(r) \/ FinishRequest(r) \/ (r \in Smokes /\ AdmitSmoke(r))
  PROVE  TaskInv'
<1> USE TaskAssumption DEF TaskInv, Requests
<1>1. TypeInv'
  BY DEF TypeInv, Snapshot, TaskDrainTypeOK, Admit, Pass, RefuseRequest, FinishRequest, AdmitSmoke
<1>2. CountedTasks'
  BY DEF CountedTasks, TypeInv, TaskDrainTypeOK, Admit, Pass, RefuseRequest, FinishRequest, AdmitSmoke
<1>3. StoredInv'
  BY DEF StoredInv, Admit, Pass, RefuseRequest, FinishRequest, AdmitSmoke
<1>4. ActiveRequests' \subseteq ActiveRequests \/ mode = "normal"
  BY DEF ActiveRequests, TypeInv, TaskDrainTypeOK, Admit, Pass, RefuseRequest, FinishRequest, AdmitSmoke
<1>5. LiveRows' = LiveRows /\ mode' = mode /\ drain' = drain
  BY DEF LiveRows, Live, Admit, Pass, RefuseRequest, FinishRequest, AdmitSmoke
<1>6. DrainInv'
  BY <1>4, <1>5 DEF DrainInv, DrainedOnce, TypeInv, Snapshot
<1> QED BY <1>1, <1>2, <1>3, <1>6

(* A task's row only becomes live when its request is under way, and while *)
(* a snapshot is, the task is then a late one.                             *)
LEMMA TaskKeeps ==
  ASSUME TaskInv, NEW t \in Tasks, CreateTask(t) \/ RunTask(t) \/ RunFails(t) \/ CancelRead(t) \/ CancelUpdate(t)
  PROVE  TaskInv'
<1> USE TaskAssumption DEF TaskInv, Requests, Around, Tables, Runs, RunTask, Live
<1>1. TypeInv'
  <2>1. CASE CreateTask(t)
    <3>1. drain' \in Snapshot
      BY <2>1 DEF CreateTask, TypeInv, Snapshot
    <3> QED BY <2>1, <3>1 DEF CreateTask, TypeInv, TaskDrainTypeOK, Snapshot
  <2>2. CASE ~CreateTask(t)
    BY <2>2 DEF TypeInv, Snapshot, TaskDrainTypeOK, StartTask, CheckStarted, ProcessTask, StoreResult,
                RecordSuccess, MarkFailed, RunFails, CancelRead, CancelUpdate
  <2> QED BY <2>1, <2>2
<1>2. CountedTasks' /\ ActiveRequests' = ActiveRequests /\ mode' = mode
  BY DEF CountedTasks, ActiveRequests, CreateTask, StartTask, CheckStarted, ProcessTask, StoreResult,
         RecordSuccess, MarkFailed, RunFails, CancelRead, CancelUpdate
<1>3. StoredInv'
  BY DEF StoredInv, TypeInv, TaskDrainTypeOK, CreateTask, StartTask, CheckStarted, ProcessTask, StoreResult,
         RecordSuccess, MarkFailed, RunFails, CancelRead, CancelUpdate
<1>4. DrainInv'
  <2>1. CASE CreateTask(t)
    <3>1. ActiveRequests # {} /\ ~drain.drained
      BY <2>1 DEF ActiveRequests, CreateTask, CountedTasks, DrainInv, DrainedOnce
    <3>2. LiveRows' \subseteq LiveRows \cup {t}
      BY <2>1 DEF CreateTask, LiveRows, TypeInv, TaskDrainTypeOK
    <3>3. /\ drain.asked => drain'.late = drain.late \cup {t}
          /\ drain'.asked = drain.asked /\ drain'.rows = drain.rows
          /\ drain'.fresh = drain.fresh /\ drain'.drained = drain.drained
      BY <2>1 DEF CreateTask, TypeInv, Snapshot
    <3> QED BY <1>2, <3>1, <3>2, <3>3 DEF DrainInv, DrainedOnce
  <2>2. CASE ~CreateTask(t)
    <3>1. LiveRows' \subseteq LiveRows /\ drain' = drain
      BY <2>2 DEF LiveRows, TypeInv, TaskDrainTypeOK, StartTask, CheckStarted, ProcessTask, StoreResult,
                  RecordSuccess, MarkFailed, RunFails, CancelRead, CancelUpdate
    <3> QED BY <1>2, <3>1 DEF DrainInv, DrainedOnce
  <2> QED BY <2>1, <2>2
<1> QED BY <1>1, <1>2, <1>3, <1>4

(* The drain and the mode: an answer joins the count of the rows, to which *)
(* the late ones are added, with the count of the requests.                *)
LEMMA DrainKeeps ==
  ASSUME TaskInv, (\E m \in Modes : SetMode(m)) \/ PublishCapability \/ CountRows \/ AnswerSnapshot \/ Restart
  PROVE  TaskInv'
<1> USE DEF TaskInv, Tables
<1>1. CASE \E m \in Modes : SetMode(m)
  <2>1. drain' \in Snapshot
    BY <1>1 DEF SetMode, TypeInv, Snapshot
  <2>2. TypeInv'
    BY <1>1, <2>1 DEF SetMode, TypeInv, TaskDrainTypeOK, Snapshot
  <2>3. LiveRows' = LiveRows /\ ActiveRequests' = ActiveRequests
    BY <1>1 DEF SetMode, LiveRows, Live, ActiveRequests
  <2>4. DrainInv'
    BY <1>1, <2>3 DEF SetMode, DrainInv, DrainedOnce, TypeInv, Snapshot
  <2> QED BY <1>1, <2>2, <2>4 DEF SetMode, CountedTasks, StoredInv
<1>2. CASE PublishCapability
  BY <1>2 DEF PublishCapability, TypeInv, TaskDrainTypeOK, CountedTasks, StoredInv, DrainInv, DrainedOnce,
              ActiveRequests, LiveRows, Live
<1>3. CASE CountRows
  <2>1. LiveRows \subseteq Requests /\ LiveRows' = LiveRows /\ ActiveRequests' = ActiveRequests
    BY <1>3 DEF CountRows, LiveRows, Live, Requests, ActiveRequests
  <2>2. DrainInv'
    BY <1>3, <2>1, NoneCounted DEF CountRows, DrainInv, DrainedOnce, TypeInv, Snapshot
  <2>4. drain' \in Snapshot
    BY <1>3, FewerRows DEF CountRows, TypeInv, Snapshot
  <2>3. TypeInv'
    BY <1>3, <2>4 DEF CountRows, TypeInv, TaskDrainTypeOK, Snapshot
  <2> QED BY <1>3, <2>2, <2>3 DEF CountRows, CountedTasks, StoredInv
<1>4. CASE AnswerSnapshot
  <2>1. ActiveRequests \subseteq Requests /\ LiveRows' = LiveRows /\ ActiveRequests' = ActiveRequests
    BY <1>4 DEF AnswerSnapshot, LiveRows, Live, ActiveRequests
  <2>2. DrainInv'
    <3>1. CASE drain.fresh /\ drain.rows + Cardinality(ActiveRequests) = 0
      <4>1. drain.rows = 0 /\ ActiveRequests = {}
        BY <2>1, <3>1, NoneCounted DEF TypeInv, Snapshot, TaskDrainTypeOK
      <4> QED BY <1>4, <2>1, <3>1, <4>1 DEF AnswerSnapshot, DrainInv, DrainedOnce
    <3>2. CASE ~(drain.fresh /\ drain.rows + Cardinality(ActiveRequests) = 0)
      BY <1>4, <2>1, <3>2 DEF AnswerSnapshot, DrainInv, DrainedOnce
    <3> QED BY <3>1, <3>2
  <2>4. drain' \in Snapshot
    BY <1>4, FewerRows DEF AnswerSnapshot, TypeInv, Snapshot
  <2>3. TypeInv'
    BY <1>4, <2>4 DEF AnswerSnapshot, TypeInv, TaskDrainTypeOK, Snapshot
  <2> QED BY <1>4, <2>2, <2>3 DEF AnswerSnapshot, CountedTasks, StoredInv
<1>5. CASE Restart
  <2>1. LiveRows' = LiveRows /\ ActiveRequests' = {}
    BY <1>5 DEF Restart, LiveRows, Live, ActiveRequests
  <2>4. drain' \in Snapshot
    BY <1>5, FewerRows DEF Restart, TypeInv, Snapshot
  <2>2. TypeInv'
    BY <1>5, <2>4 DEF Restart, Loaded, TypeInv, TaskDrainTypeOK, Modes, Snapshot
  <2>3. DrainInv'
    BY <1>5, <2>1 DEF Restart, DrainInv, DrainedOnce, TypeInv, Snapshot
  <2> QED BY <1>5, <2>2, <2>3, TaskAssumption DEF Restart, CountedTasks, StoredInv, Requests
<1> QED BY <1>1, <1>2, <1>3, <1>4, <1>5

(* Every step keeps the invariant.                                         *)
LEMMA NextTasks == TaskInv /\ [TaskDrainNext]_drainVars => TaskInv'
<1> SUFFICES ASSUME TaskInv, [TaskDrainNext]_drainVars PROVE TaskInv'
  OBVIOUS
<1>1. CASE UNCHANGED drainVars
  BY <1>1 DEF drainVars, TaskInv, TypeInv, TaskDrainTypeOK, CountedTasks, StoredInv, DrainInv, DrainedOnce,
              ActiveRequests, LiveRows, Live
<1>2. CASE TaskDrainNext
  BY <1>2, RequestKeeps, TaskKeeps, DrainKeeps DEF TaskDrainNext, Requests
<1> QED BY <1>1, <1>2

(* In every reachable state the invariant holds.                           *)
THEOREM TasksInvariant == TaskDrainSpec => []TaskInv
BY InitTasks, NextTasks, PTL DEF TaskDrainSpec

(* Mode, requests, rows and runs keep their types, for any number of them. *)
THEOREM TasksTyped == TaskDrainSpec => []TaskDrainTypeOK
<1>1. TaskInv => TaskDrainTypeOK
  BY DEF TaskInv, TypeInv
<1> QED BY <1>1, TasksInvariant, PTL

(* After the one drained snapshot that precedes maintenance no request is  *)
(* counted, and only a task inserted while it was taken can still run.     *)
THEOREM DrainSound == TaskDrainSpec => []DrainedOnce
<1>1. TaskInv => DrainedOnce
  BY DEF TaskInv, DrainInv
<1> QED BY <1>1, TasksInvariant, PTL

(* No step takes a final status back.                                      *)
LEMMA FinalStays ==
  ASSUME TaskInv, [TaskDrainNext]_drainVars
  PROVE  [\A t \in Tasks : row[t] \in {"success", "failed", "canceled"} => row'[t] = row[t]]_drainVars
BY DEF TaskDrainNext, drainVars, Admit, Pass, RefuseRequest, FinishRequest, AdmitSmoke, CreateTask, RunTask,
       StartTask, CheckStarted, ProcessTask, StoreResult, RecordSuccess, MarkFailed, RunFails, CancelRead,
       CancelUpdate, SetMode, PublishCapability, CountRows, AnswerSnapshot, Restart, Around, Tables, Live,
       TaskInv, TypeInv, TaskDrainTypeOK

(* A success has its result, and an end is final.                          *)
THEOREM ResultsFinal == TaskDrainSpec => ResultsKept
<1>1. TaskInv => \A t \in Tasks : row[t] = "success" => t \in stored \cap resultPath
  BY DEF TaskInv, StoredInv
<1>2. TaskInv /\ [TaskDrainNext]_drainVars =>
        [\A t \in Tasks : row[t] \in {"success", "failed", "canceled"} => row'[t] = row[t]]_drainVars
  BY FinalStays
<1> QED BY <1>1, <1>2, TasksInvariant, PTL DEF TaskDrainSpec, ResultsKept

-----------------------------------------------------------------------------
(* Sessions of the account, for any number of callers and passwords.        *)

UserRow == [password : Passwords, version : Nat, welcomed : BOOLEAN]
Token == [version : Nat, proved : Passwords]

Call ==
  [at : {"out", "expire"}]
    \cup [at : {"asked", "write"}, password : Passwords]
    \cup [at : {"compared", "proved", "signing"}, password : Passwords, row : UserRow]
    \cup [at : {"change", "logout", "account"}, session : Token]

AccountTypes == user \in UserRow /\ sessions \subseteq Token /\ call \in [Callers -> Call]

\* What was read or signed is as old as its version: no newer than the row,
\* and of the row's own password when it is not older.
AsOld(version, password) ==
  /\ version <= user.version
  /\ version = user.version => password = user.password

CallAsOld(k) ==
  /\ k.at \in {"compared", "proved", "signing"} => AsOld(k.row.version, k.row.password)
  /\ k.at \in {"proved", "signing"} => k.password = k.row.password
  /\ k.at \in {"change", "logout", "account"} => AsOld(k.session.version, k.session.proved)

VersionInv ==
  /\ \A s \in sessions : AsOld(s.version, s.proved)
  /\ \A c \in Callers : CallAsOld(call[c])

AccountInv == AccountTypes /\ VersionInv

-----------------------------------------------------------------------------
(* No session and no call at first.                                        *)
LEMMA InitAccounts == AccountsInit => AccountInv
<1> SUFFICES ASSUME AccountsInit PROVE AccountInv
  OBVIOUS
<1>1. user \in UserRow
  <2>1. PICK p \in Passwords : user = [password |-> p, version |-> 0, welcomed |-> TRUE]
    BY DEF AccountsInit
  <2> QED BY <2>1 DEF UserRow
<1>2. Out \in Call /\ CallAsOld(Out)
  BY DEF Out, Call, CallAsOld
<1> QED BY <1>1, <1>2 DEF AccountsInit, AccountInv, AccountTypes, VersionInv

(* A step that leaves password and version alone, adds only sessions as    *)
(* old as they say and puts a caller into a state as old as it says.       *)
LEMMA QuietStep ==
  ASSUME AccountInv, NEW c \in Callers, NEW k \in Call, CallAsOld(k), call' = [call EXCEPT ![c] = k],
         user' \in UserRow, user'.version = user.version, user'.password = user.password,
         sessions' \subseteq Token, \A s \in sessions' : AsOld(s.version, s.proved)
  PROVE  AccountInv'
<1> USE DEF AccountInv, AccountTypes
<1>1. AccountTypes'
  OBVIOUS
<1>2. \A v, p : AsOld(v, p)' <=> AsOld(v, p)
  BY DEF AsOld
<1>3. \A d \in Callers : call'[d] = k \/ call'[d] = call[d]
  OBVIOUS
<1>4. \A d \in Callers : CallAsOld(call[d])'
  BY <1>3 DEF CallAsOld, AsOld, VersionInv
<1>5. \A s \in sessions' : AsOld(s.version, s.proved)'
  BY DEF AsOld
<1> QED BY <1>1, <1>4, <1>5 DEF VersionInv

(* A step that raises the version: all that was read before is older now.  *)
LEMMA VersionStep ==
  ASSUME AccountInv, user' \in UserRow, user'.version = user.version + 1, UNCHANGED sessions,
         call' \in [Callers -> Call],
         \A c \in Callers : call'[c] = call[c] \/ call'[c].at = "out"
  PROVE  AccountInv'
<1> USE DEF AccountInv, AccountTypes
<1>1. AccountTypes'
  OBVIOUS
<1>2. \A v \in Nat : \A p : AsOld(v, p) => AsOld(v, p)'
  BY DEF AsOld, UserRow
<1>3. \A s \in sessions' : AsOld(s.version, s.proved)'
  BY <1>2 DEF VersionInv, Token
<1>4. ASSUME NEW c \in Callers PROVE CallAsOld(call[c])'
  BY <1>2, <1>4 DEF VersionInv, CallAsOld, Call, UserRow, Token
<1> QED BY <1>1, <1>3, <1>4 DEF VersionInv

(* Sign-in: the row is read, compared, and its version signed.             *)
LEMMA SignInKeeps ==
  ASSUME AccountInv, NEW c \in Callers, NEW password \in Passwords,
         TryLogin(c, password) \/ CallerStep(c)
  PROVE  AccountInv'
<1> USE DEF At, To, Out
<1> DEFINE k == call[c]
<1>0. k \in Call /\ CallAsOld(k) /\ user \in UserRow
  BY DEF AccountInv, AccountTypes, VersionInv
<1>1. CASE TryLogin(c, password)
  <2> DEFINE n == [at |-> "asked", password |-> password]
  <2>1. n \in Call /\ CallAsOld(n)
    BY DEF Call, CallAsOld
  <2> QED BY <1>1, <2>1, QuietStep DEF TryLogin, AccountInv, AccountTypes, VersionInv
<1>2. CASE ReadUser(c)
  <2> DEFINE n == [at |-> "compared", password |-> k.password, row |-> user]
  <2>1. k.password \in Passwords
    BY <1>0, <1>2 DEF ReadUser, Call
  <2>2. n \in Call /\ CallAsOld(n)
    BY <1>0, <2>1 DEF Call, CallAsOld, AsOld, UserRow
  <2> QED BY <1>2, <2>2, QuietStep DEF ReadUser, AccountInv, AccountTypes, VersionInv
<1>3. CASE RecordFailure(c) \/ ExpireCounter(c)
  <2>1. PICK n \in {Out, [at |-> "expire"]} : call' = [call EXCEPT ![c] = n]
    BY <1>3 DEF RecordFailure, ExpireCounter
  <2>2. n \in Call /\ CallAsOld(n)
    BY <2>1 DEF Call, CallAsOld
  <2> QED BY <1>3, <2>1, <2>2, QuietStep DEF RecordFailure, ExpireCounter, AccountInv, AccountTypes, VersionInv
<1>4. CASE ClearFailures(c)
  <2> DEFINE n == [k EXCEPT !.at = "proved"]
  <2>1. k \in [at : {"compared", "proved", "signing"}, password : Passwords, row : UserRow]
    BY <1>0, <1>4 DEF ClearFailures, Call
  <2>2. n \in Call /\ CallAsOld(n)
    BY <1>0, <1>4, <2>1 DEF ClearFailures, Call, CallAsOld
  <2> QED BY <1>4, <2>2, QuietStep DEF ClearFailures, AccountInv, AccountTypes, VersionInv
<1>5. CASE TouchLastLogin(c)
  <2> DEFINE n == [k EXCEPT !.at = "signing"]
  <2>1. k \in [at : {"compared", "proved", "signing"}, password : Passwords, row : UserRow]
    BY <1>0, <1>5 DEF TouchLastLogin, Call
  <2>2. n \in Call /\ CallAsOld(n)
    BY <1>0, <1>5, <2>1 DEF TouchLastLogin, Call, CallAsOld
  <2>3. user' \in UserRow /\ user'.version = user.version /\ user'.password = user.password
    BY <1>0, <1>5 DEF TouchLastLogin, UserRow
  <2> QED BY <1>5, <2>2, <2>3, QuietStep DEF TouchLastLogin, AccountInv, AccountTypes, VersionInv
<1>6. CASE SignSession(c)
  <2> DEFINE s == Session(k.row.version, k.password)
  <2>1. s \in Token /\ AsOld(s.version, s.proved)
    BY <1>0, <1>6 DEF SignSession, Call, CallAsOld, Session, Token, UserRow
  <2>2. Out \in Call /\ CallAsOld(Out)
    BY DEF Call, CallAsOld
  <2>3. sessions' \subseteq Token /\ \A t \in sessions' : AsOld(t.version, t.proved)
    BY <1>6, <2>1 DEF SignSession, AccountInv, AccountTypes, VersionInv
  <2> QED BY <1>0, <1>6, <2>2, <2>3, QuietStep DEF SignSession
<1> QED BY <1>1, <1>2, <1>3, <1>4, <1>5, <1>6 DEF CallerStep

(* The handlers behind the guard, and what ends by itself.                 *)
LEMMA HandlerKeeps ==
  ASSUME AccountInv, NEW c \in Callers,
         \/ CallFails(c) \/ RefuseChange(c) \/ RefreshSession(c)
         \/ \E s \in sessions, handler \in {"change", "logout", "account"} : PassGuard(c, s, handler)
         \/ \E old, new \in Passwords : ReadPassword(c, old, new)
  PROVE  AccountInv'
<1> USE DEF At, To, Out
<1>0. call[c] \in Call /\ CallAsOld(call[c]) /\ user \in UserRow
  BY DEF AccountInv, AccountTypes, VersionInv
<1>1. Out \in Call /\ CallAsOld(Out)
  BY DEF Call, CallAsOld
<1>2. CASE CallFails(c) \/ RefuseChange(c)
  BY <1>1, <1>2, QuietStep DEF CallFails, RefuseChange, AccountInv, AccountTypes, VersionInv
<1>3. CASE RefreshSession(c)
  <2>1. call[c].session \in Token /\ AsOld(call[c].session.version, call[c].session.proved)
    BY <1>0, <1>3 DEF RefreshSession, Call, CallAsOld
  <2>2. sessions' \subseteq Token /\ \A t \in sessions' : AsOld(t.version, t.proved)
    BY <1>3, <2>1 DEF RefreshSession, AccountInv, AccountTypes, VersionInv
  <2> QED BY <1>0, <1>1, <1>3, <2>2, QuietStep DEF RefreshSession
<1>4. ASSUME NEW s \in sessions, NEW handler \in {"change", "logout", "account"}, PassGuard(c, s, handler)
      PROVE  AccountInv'
  <2> DEFINE n == [at |-> handler, session |-> s]
  <2>1. s \in Token /\ AsOld(s.version, s.proved)
    BY DEF AccountInv, AccountTypes, VersionInv
  <2>2. n \in Call /\ CallAsOld(n)
    BY <2>1 DEF Call, CallAsOld
  <2> QED BY <1>4, <2>2, QuietStep DEF PassGuard, AccountInv, AccountTypes, VersionInv
<1>5. ASSUME NEW old \in Passwords, NEW new \in Passwords, ReadPassword(c, old, new)
      PROVE  AccountInv'
  <2> DEFINE n == [at |-> "write", password |-> new]
  <2>1. n \in Call /\ CallAsOld(n)
    BY DEF Call, CallAsOld
  <2> QED BY <1>5, <2>1, QuietStep DEF ReadPassword, AccountInv, AccountTypes, VersionInv
<1> QED BY <1>2, <1>3, <1>4, <1>5

(* Changes and sign-outs raise the version.                        *)
LEMMA ChangeKeeps ==
  ASSUME AccountInv, NEW c \in Callers, WritePassword(c) \/ Logout(c)
  PROVE  AccountInv'
<1> USE DEF At, To, Out
<1>1. Out \in Call
  BY DEF Call
<1>2. call' \in [Callers -> Call] /\ \A d \in Callers : call'[d] = call[d] \/ call'[d].at = "out"
  BY <1>1 DEF WritePassword, Logout, AccountInv, AccountTypes
<1>3. user' \in UserRow /\ user'.version = user.version + 1
  <2>1. CASE WritePassword(c)
    <3>1. call[c].password \in Passwords
      BY <2>1 DEF WritePassword, AccountInv, AccountTypes, Call
    <3> QED BY <2>1, <3>1 DEF WritePassword, AccountInv, AccountTypes, UserRow
  <2>2. CASE Logout(c)
    BY <2>2 DEF Logout, AccountInv, AccountTypes, UserRow
  <2> QED BY <2>1, <2>2
<1>4. UNCHANGED sessions
  BY DEF WritePassword, Logout
<1> QED BY <1>2, <1>3, <1>4, VersionStep

(* Every step keeps the invariant.                                         *)
LEMMA NextAccounts == AccountInv /\ [AccountsNext]_accountVars => AccountInv'
<1> SUFFICES ASSUME AccountInv, [AccountsNext]_accountVars PROVE AccountInv'
  OBVIOUS
<1>1. ASSUME NEW c \in Callers, \/ CallerStep(c) \/ \E p \in Passwords : TryLogin(c, p)
      PROVE  AccountInv'
  <2>1. user.password \in Passwords
    BY DEF AccountInv, AccountTypes, UserRow
  <2> QED BY <1>1, <2>1, SignInKeeps
<1>2. ASSUME NEW c \in Callers,
             \/ CallFails(c) \/ RefuseChange(c) \/ RefreshSession(c)
             \/ \E s \in sessions, handler \in {"change", "logout", "account"} : PassGuard(c, s, handler)
             \/ \E old, new \in Passwords : ReadPassword(c, old, new)
      PROVE  AccountInv'
  BY <1>2, HandlerKeeps
<1>3. ASSUME NEW c \in Callers, WritePassword(c) \/ Logout(c)
      PROVE  AccountInv'
  BY <1>3, ChangeKeeps
<1>4. ASSUME NEW password \in Passwords, ResetPassword(password)
      PROVE  AccountInv'
  <2>1. user' \in UserRow /\ user'.version = user.version + 1
    BY <1>4 DEF ResetPassword, AccountInv, AccountTypes, UserRow
  <2> QED BY <1>4, <2>1, VersionStep DEF ResetPassword, AccountInv, AccountTypes
<1>5. CASE (\E s \in sessions : SessionExpires(s)) \/ CounterExpires \/ UNCHANGED accountVars
  BY <1>5 DEF SessionExpires, CounterExpires, accountVars, AccountInv, AccountTypes, VersionInv, CallAsOld, AsOld
<1> QED BY <1>1, <1>2, <1>3, <1>4, <1>5 DEF AccountsNext

(* A session that the guard lets through was opened with the password that *)
(* is valid now.                                                           *)
THEOREM SessionsSound == AccountsSpec => []SessionsProved
<1>1. AccountInv => SessionsProved
  BY DEF AccountInv, VersionInv, AsOld, SessionsProved, Authorized
<1> QED BY <1>1, InitAccounts, NextAccounts, PTL DEF AccountsSpec

(* The bounds of the version and the counter.                              *)
LEMMA NextCounts == AccountInv /\ AccountsTypeOK /\ [AccountsNext]_accountVars => AccountsTypeOK'
<1> SUFFICES ASSUME AccountInv, AccountsTypeOK, [AccountsNext]_accountVars PROVE AccountsTypeOK'
  OBVIOUS
<1> DEFINE Versions == 0 .. MaxVersion
           Counts == 0 .. MaxFails
<1>0. /\ 0 \in Counts /\ 0 \in Versions
      /\ \A n \in Counts : n < MaxFails => n + 1 \in Counts
      /\ \A v \in Versions : v < MaxVersion => v + 1 \in Versions
  BY AccountsAssumption
<1> HIDE DEF Versions, Counts
<1>1. /\ user \in [password : Passwords, version : Versions, welcomed : BOOLEAN]
      /\ fails \in Counts /\ expires \in BOOLEAN
      /\ sessions \subseteq [version : Versions, proved : Passwords]
      /\ call \in [Callers -> Call]
  BY DEF AccountsTypeOK, AccountInv, AccountTypes, Versions, Counts
<1>2. \A c \in Callers :
        /\ At(c, "write") => call[c].password \in Passwords
        /\ At(c, "signing") => Session(call[c].row.version, call[c].password) \in [version : Versions, proved : Passwords]
        /\ At(c, "account") => call[c].session \in [version : Versions, proved : Passwords]
  <2> SUFFICES ASSUME NEW c \in Callers
               PROVE  /\ At(c, "write") => call[c].password \in Passwords
                      /\ At(c, "signing") => Session(call[c].row.version, call[c].password) \in [version : Versions, proved : Passwords]
                      /\ At(c, "account") => call[c].session \in [version : Versions, proved : Passwords]
    OBVIOUS
  <2>1. call[c] \in Call /\ CallAsOld(call[c])
    BY <1>1 DEF AccountInv, VersionInv
  <2>2. \A v \in Nat : v <= user.version => v \in Versions
    BY <1>1, AccountsAssumption DEF Versions
  <2>3. CASE At(c, "write")
    BY <2>1, <2>3 DEF At, Call
  <2>4. CASE At(c, "signing")
    <3>1. call[c].password \in Passwords /\ call[c].row \in UserRow
      BY <2>1, <2>4 DEF At, Call
    <3>2. call[c].row.version <= user.version /\ call[c].row.version \in Nat
      BY <2>1, <2>4, <3>1 DEF At, CallAsOld, AsOld, UserRow
    <3> QED BY <2>2, <2>4, <3>1, <3>2 DEF At, Session
  <2>5. CASE At(c, "account")
    <3>1. call[c].session \in Token
      BY <2>1, <2>5 DEF At, Call
    <3>2. call[c].session.version <= user.version /\ call[c].session.version \in Nat
      BY <2>1, <2>5, <3>1 DEF At, CallAsOld, AsOld, Token
    <3> QED BY <2>2, <2>5, <3>1, <3>2 DEF At, Token
  <2> QED BY <2>3, <2>4, <2>5
<1> DEFINE Typed == /\ user \in [password : Passwords, version : Versions, welcomed : BOOLEAN]
                    /\ fails \in Counts /\ expires \in BOOLEAN
                    /\ sessions \subseteq [version : Versions, proved : Passwords]
<1>3. ASSUME NEW c \in Callers, CallerStep(c) \/ CallFails(c)
      PROVE  Typed'
  <2>1. CASE ReadUser(c) \/ CallFails(c)
    BY <1>1, <2>1 DEF ReadUser, CallFails
  <2>2. CASE RecordFailure(c) \/ ExpireCounter(c) \/ ClearFailures(c)
    <3>0. expires' \in BOOLEAN
      <4>1. CASE ExpireCounter(c)
        <5>1. expires' = (fails > 0)
          BY <4>1 DEF ExpireCounter
        <5>2. expires' = TRUE \/ expires' = FALSE
          BY <5>1
        <5> QED BY <5>2
      <4>2. CASE RecordFailure(c) \/ ClearFailures(c)
        BY <1>1, <4>2, Zenon DEF RecordFailure, ClearFailures
      <4> QED BY <2>2, <4>1, <4>2
    <3>1. /\ UNCHANGED <<user, sessions>>
          /\ \/ fails' = fails
             \/ fails < MaxFails /\ fails' = fails + 1
             \/ fails' = 0
      BY <2>2, Zenon DEF RecordFailure, ExpireCounter, ClearFailures
    <3>2. fails' \in Counts
      BY <1>0, <1>1, <3>1
    <3> QED BY <1>1, <3>0, <3>1, <3>2
  <2>3. CASE TouchLastLogin(c)
    BY <1>1, <2>3 DEF TouchLastLogin
  <2>4. CASE SignSession(c)
    BY <1>1, <1>2, <2>4 DEF SignSession
  <2> QED BY <1>3, <2>1, <2>2, <2>3, <2>4 DEF CallerStep
<1>4. ASSUME NEW c \in Callers,
             \/ RefuseChange(c) \/ \E p \in Passwords : TryLogin(c, p)
             \/ \E s \in sessions, handler \in {"change", "logout", "account"} : PassGuard(c, s, handler)
             \/ \E old, new \in Passwords : ReadPassword(c, old, new)
      PROVE  Typed'
  BY <1>1, <1>4 DEF RefuseChange, TryLogin, PassGuard, ReadPassword
<1>5. ASSUME NEW c \in Callers, WritePassword(c) \/ Logout(c) \/ RefreshSession(c)
      PROVE  Typed'
  <2>1. CASE WritePassword(c) \/ Logout(c)
    <3>1. /\ UNCHANGED <<fails, expires, sessions>> /\ user.version + 1 \in Versions
          /\ \/ user' = [password |-> call[c].password, version |-> user.version + 1, welcomed |-> TRUE]
                /\ call[c].password \in Passwords
             \/ user' = [user EXCEPT !.version = user.version + 1]
      BY <1>0, <1>1, <1>2, <2>1 DEF WritePassword, Logout, NewVersion
    <3> DEFINE v == user.version + 1
    <3> HIDE DEF v
    <3>2. v \in Versions /\ \/ user' = [user EXCEPT !.version = v]
                            \/ \E p \in Passwords : user' = [password |-> p, version |-> v, welcomed |-> TRUE]
      BY <3>1 DEF v
    <3>3. user' \in [password : Passwords, version : Versions, welcomed : BOOLEAN]
      <4>1. CASE user' = [user EXCEPT !.version = v]
        <5>1. user \in [password : Passwords, version : Versions, welcomed : BOOLEAN] /\ v \in Versions
          BY <1>1, <3>2
        <5> QED BY <4>1, <5>1
      <4>2. CASE \E p \in Passwords : user' = [password |-> p, version |-> v, welcomed |-> TRUE]
        BY <3>2, <4>2
      <4> QED BY <3>2, <4>1, <4>2
    <3> QED BY <1>1, <3>1, <3>3
  <2>2. CASE RefreshSession(c)
    BY <1>1, <1>2, <2>2 DEF RefreshSession
  <2> QED BY <1>5, <2>1, <2>2
<1>6. ASSUME \E p \in Passwords : ResetPassword(p)
      PROVE  Typed'
  <2>1. UNCHANGED <<fails, expires, sessions>> /\ user.version + 1 \in Versions
    BY <1>0, <1>1, <1>6 DEF ResetPassword, NewVersion
  <2> DEFINE v == user.version + 1
  <2>2. v \in Versions /\ \E p \in Passwords : user' = [password |-> p, version |-> v, welcomed |-> FALSE]
    BY <1>6, <2>1 DEF ResetPassword
  <2> HIDE DEF v
  <2>3. user' \in [password : Passwords, version : Versions, welcomed : BOOLEAN]
    BY <2>2
  <2> QED BY <1>1, <2>1, <2>3
<1>7. ASSUME (\E s \in sessions : SessionExpires(s)) \/ CounterExpires \/ UNCHANGED accountVars
      PROVE  Typed'
  <2>1. UNCHANGED user /\ sessions' \subseteq sessions /\ fails' \in {fails, 0} /\ expires' \in {expires, FALSE}
    BY <1>7 DEF SessionExpires, CounterExpires, accountVars
  <2>2. fails' \in Counts /\ expires' \in BOOLEAN
    BY <1>0, <1>1, <2>1
  <2> QED BY <1>1, <2>1, <2>2
<1> HIDE DEF Typed
<1>8. Typed'
  BY <1>3, <1>4, <1>5, <1>6, <1>7 DEF AccountsNext
<1> QED BY <1>8 DEF Typed, AccountsTypeOK, Versions, Counts

(* Row, counter and sessions keep their types, and the bounds the code     *)
(* gives them, for any callers and passwords.                              *)
THEOREM AccountsTyped == AccountsSpec => []AccountsTypeOK
<1>1. AccountsInit => AccountsTypeOK
  <2>1. 0 \in 0 .. MaxVersion /\ 0 \in 0 .. MaxFails
    BY AccountsAssumption
  <2> QED BY <2>1 DEF AccountsInit, AccountsTypeOK
<1> QED BY <1>1, InitAccounts, NextAccounts, NextCounts, PTL DEF AccountsSpec

-----------------------------------------------------------------------------
(* Settings, settings.yml and the manifests in Redis, for any number of
   requests, fields and addresses.                                       *)

Visits == [at : {"away", "reading"}]
            \cup [at : {"read"}, fields : Fields]
            \cup [at : {"updated", "saving"}, alone : BOOLEAN]
            \cup [at : {"saved"}, fields : Fields, alone : BOOLEAN]

SettingsTypes ==
  /\ settings \in Fields /\ file \in SettingsFiles /\ checks \in Feeds \cup {"off"}
  /\ redis \in [Feeds -> SUBSET Feeds] /\ visit \in [Visitors -> Visits]

(* The row that a save read after its own UPDATE is still the row when it  *)
(* writes the file, unless another save has begun since.                   *)
RowKept == \A v \in Visitors : visit[v].at = "saved" /\ visit[v].alone => visit[v].fields = settings

(* A manifest is kept under the key of the address it is from.             *)
KeysKept == \A url \in Feeds : redis[url] \subseteq {url}

SettingsInv == SettingsTypes /\ RowKept /\ FileAgrees /\ KeysKept
-----------------------------------------------------------------------------
(* Applying a file twice is applying it once.                              *)
LEMMA NothingTwice ==
  ASSUME NEW fields \in Fields, NEW patch \in Patches
  PROVE  /\ Over(fields, patch) \in Fields
         /\ Over(Over(fields, patch), patch) = Over(fields, patch)
BY DEF Over, Fields, Patches

(* A file written from a row gives that row back.                        *)
LEMMA ItselfOver == ASSUME NEW fields \in Fields PROVE Over(fields, fields) = fields
BY DEF Over, Fields

(* What a start takes from the file is of the types it is applied to.    *)
LEMMA FileParts ==
  ASSUME NEW f \in SettingsFiles
  PROVE  f.fields \in Patches /\ Configured(f) \in Feeds \cup {"off"}
<1>1. CASE f = NoFile
  BY <1>1, SettingsAssumption DEF NoFile, Patches, Configured
<1>2. CASE f \in [readable : {TRUE}, fields : Patches, updates : Feeds \cup {"omitted", "off"}]
  BY <1>2, SettingsAssumption DEF Configured
<1> QED
  BY <1>1, <1>2 DEF SettingsFiles

(* A save writes a file that a start can read.                           *)
LEMMA MergedFile == ASSUME NEW fields \in Fields PROVE Merged(fields) \in SettingsFiles
BY DEF Merged, SettingsFiles, Fields, Patches

(* A start with any file.                                                *)
LEMMA SettingsBegin == SettingsInit => SettingsInv
<1> SUFFICES ASSUME SettingsInit PROVE SettingsInv
  OBVIOUS
<1>1. SettingsTypes
  BY FileParts DEF SettingsInit, SettingsTypes, Visits, Away
<1>2. RowKept /\ FileAgrees /\ KeysKept
  BY DEF SettingsInit, RowKept, FileAgrees, KeysKept, Away
<1> QED
  BY <1>1, <1>2 DEF SettingsInv

(* A request that moves without touching row, file and manifests, and that *)
(* is a save after the step if it was one before.                          *)
LEMMA MoveKeeps ==
  ASSUME SettingsInv, NEW v \in Visitors, NEW state \in Visits, Move(v, state),
         UNCHANGED <<settings, file, checks, redis, apart>>,
         Saving(v) => state.at \in {"updated", "saving", "saved"},
         state.at = "saved" => state.fields = settings
  PROVE  SettingsInv'
<1> USE DEF SettingsInv, SettingsTypes, Move
<1>1. SettingsTypes'
  OBVIOUS
<1>2. RowKept'
  BY DEF RowKept
<1>3. FileAgrees'
  BY DEF FileAgrees, Saving
<1> QED
  BY <1>1, <1>2, <1>3 DEF KeysKept

(* Requests that read, and the cache between them.                       *)
LEMMA ReadsKeep ==
  ASSUME SettingsInv, NEW v \in Visitors,
         MissCache(v) \/ SelectRow(v) \/ FillCache(v) \/ InvalidateCache(v)
  PROVE  SettingsInv'
<1> USE DEF Where, Away, storeVars, checkVars, counts
<1>0. visit[v] \in Visits /\ settings \in Fields
  BY DEF SettingsInv, SettingsTypes
<1>1. CASE MissCache(v)
  <2>1. [at |-> "reading"] \in Visits /\ ~Saving(v)
    BY <1>1 DEF MissCache, Visits, Saving
  <2> QED BY <1>1, <2>1, MoveKeeps DEF MissCache
<1>2. CASE FillCache(v)
  <2>1. Away \in Visits /\ ~Saving(v)
    BY <1>2 DEF FillCache, Visits, Saving
  <2> QED BY <1>2, <2>1, MoveKeeps DEF FillCache
<1>3. CASE InvalidateCache(v)
  <2>1. [visit[v] EXCEPT !.at = "saving"] \in Visits /\ [visit[v] EXCEPT !.at = "saving"].at = "saving"
    BY <1>0, <1>3 DEF InvalidateCache, Visits
  <2> QED BY <1>3, <2>1, MoveKeeps DEF InvalidateCache
<1>4. CASE SelectRow(v) /\ visit[v].at = "reading"
  <2>1. [at |-> "read", fields |-> settings] \in Visits /\ ~Saving(v)
    BY <1>0, <1>4 DEF Visits, Saving
  <2> QED BY <1>4, <2>1, MoveKeeps DEF SelectRow
<1>5. CASE SelectRow(v) /\ visit[v].at = "saving"
  <2>1. [at |-> "saved", fields |-> settings, alone |-> visit[v].alone] \in Visits
    BY <1>0, <1>5 DEF Visits
  <2> QED BY <1>5, <2>1, MoveKeeps DEF SelectRow
<1> QED
  BY <1>1, <1>2, <1>3, <1>4, <1>5 DEF SelectRow

(* A new save takes from every other that it is alone.                     *)
LEMMA UpdateKeeps ==
  ASSUME SettingsInv, NEW v \in Visitors, NEW patch \in Patches, UpdateRow(v, patch)
  PROVE  SettingsInv'
<1> USE DEF SettingsInv, SettingsTypes
<1>1. settings' \in Fields /\ UNCHANGED <<file, checks, redis>>
  BY NothingTwice DEF UpdateRow, checkVars
<1>2. \A w \in Visitors : Saving(w) =>
        /\ [visit[w] EXCEPT !.alone = FALSE] \in Visits
        /\ ~[visit[w] EXCEPT !.alone = FALSE].alone
  BY DEF Visits, Saving
<1>3. [at |-> "updated", alone |-> ~\E u \in Visitors : Saving(u)] \in Visits
  BY DEF Visits
<1>4. visit' \in [Visitors -> Visits] /\ visit'[v].at = "updated"
  BY <1>2, <1>3 DEF UpdateRow
<1>5. RowKept'
  BY <1>2, <1>4 DEF UpdateRow, RowKept, Saving
<1>6. FileAgrees'
  BY <1>4 DEF FileAgrees, Saving
<1> QED
  BY <1>1, <1>4, <1>5, <1>6 DEF KeysKept

(* The end of a save: the file is written, or the rest is not promised.    *)
LEMMA EndKeeps ==
  ASSUME SettingsInv, NEW v \in Visitors,
         WriteSettingsFile(v) \/ WriteRefused(v) \/ CallRefused(v)
  PROVE  SettingsInv'
<1> USE DEF SettingsInv, SettingsTypes, Move, Where, checkVars
<1>0. visit[v] \in Visits /\ Away \in Visits /\ Away.at = "away"
  BY DEF Visits, Away
<1>1. visit' = [visit EXCEPT ![v] = Away] /\ UNCHANGED <<settings, checks, redis>>
  BY DEF WriteSettingsFile, WriteRefused, CallRefused
<1>2. visit' \in [Visitors -> Visits] /\ RowKept' /\ KeysKept'
  BY <1>0, <1>1 DEF RowKept, KeysKept
<1>3. CASE WriteSettingsFile(v)
  <2>1. visit[v].fields \in Fields /\ visit[v].alone \in BOOLEAN
    BY <1>0, <1>3 DEF WriteSettingsFile, Visits
  <2>2. file' = Merged(visit[v].fields) /\ file' \in SettingsFiles /\ apart' = ~visit[v].alone
    BY <1>3, <2>1, MergedFile DEF WriteSettingsFile
  <2>3. visit[v].alone => settings' = Applied(file', settings')
    BY <1>1, <1>3, <2>1, <2>2, ItselfOver DEF WriteSettingsFile, RowKept, Applied, Merged
  <2> QED BY <1>1, <1>2, <2>1, <2>2, <2>3 DEF FileAgrees
<1>4. CASE WriteRefused(v) \/ CallRefused(v)
  <2>1. UNCHANGED file /\ (apart \/ Saving(v) => apart')
    BY <1>4 DEF WriteRefused, CallRefused, Saving
  <2>2. FileAgrees'
    BY <1>0, <1>1, <2>1 DEF FileAgrees, Saving
  <2> QED BY <1>1, <1>2, <2>1, <2>2
<1> QED
  BY <1>3, <1>4

(* A start, the operator, and the check for releases.                      *)
LEMMA StartKeeps ==
  ASSUME SettingsInv, RestartApplied \/ RestartUnapplied
  PROVE  SettingsInv'
<1> USE DEF SettingsInv, SettingsTypes
<1>1. PICK applied \in BOOLEAN : StartUp(applied)
  BY DEF RestartApplied, RestartUnapplied
<1>2. file.fields \in Patches /\ Configured(file) \in Feeds \cup {"off"}
  BY FileParts
<1>3. /\ Applied(file, settings) \in Fields
      /\ Applied(file, Applied(file, settings)) = Applied(file, settings)
  BY <1>2, NothingTwice DEF Applied
<1>4. SettingsTypes' /\ RowKept'
  BY <1>1, <1>2, <1>3 DEF StartUp, RowKept, Visits, Away
<1>5. FileAgrees'
  BY <1>1, <1>3 DEF StartUp, FileAgrees
<1> QED
  BY <1>1, <1>4, <1>5 DEF StartUp, KeysKept

(* The cache, the operator and the manifests.                            *)
LEMMA OthersKeep ==
  ASSUME SettingsInv,
         \/ CacheExpires \/ UNCHANGED settingsVars
         \/ \E f \in SettingsFiles : EditFile(f)
         \/ FetchLatest \/ \E key \in Feeds : ManifestExpires(key)
  PROVE  SettingsInv'
<1> USE DEF SettingsInv, SettingsTypes, storeVars, checkVars, counts
<1>1. UNCHANGED <<settings, visit, checks>> /\ file' \in SettingsFiles /\ RowKept'
  BY DEF CacheExpires, settingsVars, EditFile, FetchLatest, ManifestExpires, RowKept
<1>2. FileAgrees'
  BY DEF CacheExpires, settingsVars, EditFile, FetchLatest, ManifestExpires, FileAgrees, Saving
<1>3. redis' \in [Feeds -> SUBSET Feeds] /\ KeysKept'
  BY DEF CacheExpires, settingsVars, EditFile, FetchLatest, ManifestExpires, KeysKept, Cached, CacheKey
<1> QED
  BY <1>1, <1>2, <1>3

(* Every step keeps the invariant.                                       *)
LEMMA SettingsStep == SettingsInv /\ [SettingsNext]_settingsVars => SettingsInv'
BY ReadsKeep, UpdateKeeps, EndKeeps, StartKeeps, OthersKeep DEF SettingsNext
-----------------------------------------------------------------------------
\* Types, and what a save has read, hold in every reachable state.
THEOREM SettingsInvariant == SettingsSpec => []SettingsInv
BY SettingsBegin, SettingsStep, PTL DEF SettingsSpec

\* A restart takes nothing back that a save which was alone has left, for any
\* fields, values and number of requests.
THEOREM SavesSurvive == SettingsSpec => []FileAgrees
<1>1. SettingsInv => FileAgrees
  BY DEF SettingsInv
<1> QED
  BY <1>1, SettingsInvariant, PTL

\* Only releases of the configured address are announced.
THEOREM FeedSound == SettingsSpec => []FeedShown
<1>1. SettingsInv => FeedShown
  BY DEF SettingsInv, SettingsTypes, KeysKept, FeedShown, Cached, CacheKey
<1> QED
  BY <1>1, SettingsInvariant, PTL

\* Row, cache and file keep their types.
THEOREM SettingsTyped == SettingsSpec => []SettingsTypeOK
<1> DEFINE Copies == cache \subseteq Fields /\ apart \in BOOLEAN
<1>1. SettingsInit => Copies
  BY DEF SettingsInit
<1>2. ASSUME SettingsInv, Copies, [SettingsNext]_settingsVars
      PROVE  Copies'
  <2>1. \A v \in Visitors : visit[v].at \in {"read", "saved"} => visit[v].fields \in Fields
    BY <1>2 DEF SettingsInv, SettingsTypes, Visits
  <2>2. \A v \in Visitors : visit[v].at = "saved" => visit[v].alone \in BOOLEAN
    BY <1>2 DEF SettingsInv, SettingsTypes, Visits
  <2>3. ASSUME NEW v \in Visitors,
               \/ MissCache(v) \/ SelectRow(v) \/ FillCache(v)
               \/ InvalidateCache(v) \/ WriteSettingsFile(v) \/ WriteRefused(v) \/ CallRefused(v)
        PROVE  Copies'
    BY <1>2, <2>1, <2>2, <2>3
       DEF MissCache, SelectRow, FillCache, InvalidateCache, WriteSettingsFile, WriteRefused, CallRefused,
           Where, storeVars
  <2>4. ASSUME NEW v \in Visitors, NEW patch \in Patches, UpdateRow(v, patch)
        PROVE  Copies'
    BY <1>2, <2>4 DEF UpdateRow
  <2>5. CASE CacheExpires \/ RestartApplied \/ RestartUnapplied \/ \E f \in SettingsFiles : EditFile(f)
    BY <1>2, <2>5 DEF CacheExpires, RestartApplied, RestartUnapplied, StartUp, EditFile
  <2>6. CASE FetchLatest \/ (\E key \in Feeds : ManifestExpires(key)) \/ UNCHANGED settingsVars
    BY <1>2, <2>6 DEF FetchLatest, ManifestExpires, settingsVars, storeVars
  <2> QED BY <1>2, <2>3, <2>4, <2>5, <2>6 DEF SettingsNext
<1>3. SettingsInv /\ Copies => SettingsTypeOK
  BY DEF SettingsInv, SettingsTypes, SettingsTypeOK
<1> HIDE DEF Copies
<1> QED BY <1>1, <1>2, <1>3, SettingsInvariant, PTL DEF SettingsSpec

-----------------------------------------------------------------------------
(* What runs before the server, for any number of runs, versions,          *)
(* statements and faults.                                                  *)

InitPlaces == {"schema", "baseline", "recordBaseline", "admin", "seed", "key", "active", "write",
               "persist", "done"}
InitRun == [at : InitPlaces, tool : {"init"}, target : Schemas, env : ApiKey, id : Nat, alone : BOOLEAN]
MigrateRun == [at : {"lock", "version", "apply", "release"}, tool : {"migrate"}, target : Schemas,
               step : Nat, next : Nat]
Run == [at : {"out"}] \cup InitRun \cup MigrateRun

(* A run that has found no key and is about to insert one.                 *)
Inserting == {s \in Starters : Step(s, "write") /\ starter[s].id = 0}

(* Rows are numbered as they are inserted, at most one by each run: a run   *)
(* that finds a row inserts none.                                          *)
RowsCounted ==
  \E n \in Nat : DOMAIN keys = 1 .. n /\ n + Cardinality(Inserting) <= Cardinality(Starters)

(* A run that writes a row has found it, and it is still there.            *)
RowsChosen == \A s \in Starters : Step(s, "write") => starter[s].id \in DOMAIN keys \cup {0}

StartupTypes ==
  /\ objects \subseteq StatementsTo(MaxSchema) /\ recorded \subseteq Schemas
  /\ lock = {} \/ \E s \in Starters : lock = {s}
  /\ plaintext \in NoSecret .. MaxSecrets /\ issued \in PaddedSecret .. MaxSecrets
  /\ \A id \in DOMAIN keys : keys[id] \in EnvSecret .. MaxSecrets
  /\ settled \in {"unknown", "file", "env", "padded"}
  /\ starter \in [Starters -> Run]
  /\ \A s \in Starters : Step(s, "persist") => starter[s].id \in NoSecret .. MaxSecrets

(* What a run knows of the objects o.                                      *)
SchemaKnown(r, o) ==
  /\ r.at = "recordBaseline" => StatementsTo(r.target) \subseteq o
  /\ r.at = "apply" =>
       /\ 1 <= r.step /\ r.step <= r.target /\ 1 <= r.next
       /\ StatementsTo(r.step - 1) \subseteq o
       /\ \A i \in 1 .. Length : i < r.next => <<r.step, i>> \in o
  /\ r.at \in {"lock", "version"} => r.step = 0 /\ r.next = 1

SchemaInv == SchemaRecorded /\ \A s \in Starters : SchemaKnown(starter[s], objects)

(* What a run that is alone knows of the keys k and the file p.            *)
KeyKnown(r, k, p) ==
  /\ r.at = "persist" => r.env = NoSecret /\ \E id \in DOMAIN k : k[id] = r.id
  /\ r.at = "done" => \E id \in DOMAIN k : k[id] = IF r.env = NoSecret THEN p ELSE r.env

(* No init-db runs beside one that is alone, none beside a settled key.    *)
KeyInv ==
  /\ \A s, u \in Starters : Initialising(s) /\ starter[s].alone /\ Initialising(u) => u = s
  /\ settled # "unknown" => \A s \in Starters : ~Initialising(s)
  /\ \A s \in Starters : Initialising(s) /\ starter[s].alone => KeyKnown(starter[s], keys, plaintext)
  /\ KeyServes

StartupInv == StartupTypes /\ RowsCounted /\ RowsChosen /\ SchemaInv /\ KeyInv

-----------------------------------------------------------------------------
(* A set of versions that is not empty has a newest one.                   *)
LEMMA NewestExists ==
  ASSUME NEW V, V \subseteq Schemas, V # {}
  PROVE  \E v \in V : \A u \in V : u <= v
<1> DEFINE After(v) == {u \in V : v < u}
           Afters == {After(v) : v \in V}
<1>1. IsFiniteSet(Schemas) /\ \A v \in Schemas : v \in Nat
  BY StartupAssumption, FS_Interval DEF Schemas
<1>2. IsWellFoundedOn(StrictSubsetOrdering(Schemas), FiniteSubsetsOf(Schemas))
  BY FS_StrictSubsetOrderingWellFounded
<1>3. Afters \subseteq FiniteSubsetsOf(Schemas) /\ Afters # {}
  <2>1. ASSUME NEW v \in V PROVE After(v) \in FiniteSubsetsOf(Schemas)
    <3>1. After(v) \subseteq Schemas
      OBVIOUS
    <3>. QED BY <1>1, <3>1, FS_Subset DEF FiniteSubsetsOf
  <2>. QED BY <2>1
<1>4. PICK x \in Afters : \A y \in Afters : ~ (<<y, x>> \in StrictSubsetOrdering(Schemas))
  <2> HIDE DEF Afters
  <2>. QED BY <1>2, <1>3, WFMin
<1>5. PICK v \in V : x = After(v)
  BY <1>4
<1>6. ASSUME NEW w \in V, v < w PROVE FALSE
  <2>1. v \in Nat /\ w \in Nat
    BY <1>1
  <2>2. After(w) \subseteq After(v)
    <3>1. ASSUME NEW u \in After(w) PROVE u \in V /\ v < u
      <4>1. u \in Nat /\ u \in V /\ w < u
        BY <1>1
      <4>. QED BY <1>6, <2>1, <4>1
    <3>. QED BY <3>1
  <2>4. w \in After(v) /\ w \notin After(w)
    BY <1>6, <2>1
  <2>3. <<After(w), After(v)>> \in StrictSubsetOrdering(Schemas)
    BY <2>2, <2>4 DEF StrictSubsetOrdering
  <2>. QED BY <1>4, <1>5, <2>3
<1>. QED BY <1>1, <1>6

(* The newest recorded version is a recorded one.                        *)
LEMMA NewestRecorded ==
  ASSUME recorded \subseteq Schemas, recorded # {}
  PROVE  Newest \in recorded /\ Newest \in Nat
<1>1. \E v \in recorded : \A u \in recorded : u <= v
  BY NewestExists
<1>2. Newest \in recorded
  BY <1>1 DEF Newest
<1>. QED BY <1>2, StartupAssumption DEF Schemas
-----------------------------------------------------------------------------
(* What an init-db does next, and what a migration does.                   *)
LEMMA InitMoves ==
  ASSUME NEW r \in InitRun, NEW p \in InitPlaces
  PROVE  /\ [r EXCEPT !.at = p] \in InitRun /\ [r EXCEPT !.at = p].at = p
         /\ [r EXCEPT !.at = p].tool = "init" /\ [r EXCEPT !.at = p].target = r.target
         /\ [r EXCEPT !.at = p].env = r.env /\ [r EXCEPT !.at = p].alone = r.alone
         /\ [r EXCEPT !.at = p].id = r.id
BY DEF InitRun

(* The same of a migration.                                              *)
LEMMA MigrationMoves ==
  ASSUME NEW r \in MigrateRun, NEW p \in {"lock", "version", "apply", "release"}
  PROVE  /\ [r EXCEPT !.at = p] \in MigrateRun /\ [r EXCEPT !.at = p].at = p
         /\ [r EXCEPT !.at = p].tool = "migrate" /\ [r EXCEPT !.at = p].target = r.target
         /\ [r EXCEPT !.at = p].step = r.step /\ [r EXCEPT !.at = p].next = r.next
BY DEF MigrateRun

(* The tool of a run is that of its place.                                 *)
LEMMA ToolOfPlace ==
  ASSUME NEW r \in Run
  PROVE  /\ r.at \in InitPlaces => r \in InitRun
         /\ r.at \in {"lock", "version", "apply", "release"} => r \in MigrateRun
         /\ r.at # "out" /\ r.tool = "init" => r \in InitRun
         /\ r.at # "out" /\ r.tool # "init" => r \in MigrateRun
BY DEF Run, InitRun, MigrateRun, InitPlaces

(* A run that has not begun knows nothing.                               *)
LEMMA IdleRun == Idle \in Run /\ Idle.at = "out" /\ (\A o : SchemaKnown(Idle, o))
BY DEF Idle, Run, SchemaKnown

(* Objects and recorded versions only grow, so what the others know stays. *)
LEMMA SchemaGrows ==
  ASSUME SchemaInv, NEW s \in Starters, NEW r, starter \in [Starters -> Run],
         starter' = [starter EXCEPT ![s] = r],
         objects \subseteq objects', recorded \subseteq recorded',
         SchemaRecorded', SchemaKnown(r, objects')
  PROVE  SchemaInv'
BY DEF SchemaInv, SchemaKnown

(* A run inserts nothing more, or the table is empty.                      *)
LEMMA RowsRest ==
  ASSUME RowsCounted, DOMAIN keys' = DOMAIN keys, Inserting' \subseteq Inserting
  PROVE  RowsCounted'
<1>1. PICK n \in Nat : DOMAIN keys = 1 .. n /\ n + Cardinality(Inserting) <= Cardinality(Starters)
  BY DEF RowsCounted
<1>2. IsFiniteSet(Inserting)
  BY StartupAssumption, FS_Subset DEF Inserting
<1>3. IsFiniteSet(Inserting') /\ Cardinality(Inserting') <= Cardinality(Inserting)
  BY <1>2, FS_Subset
<1>4. Cardinality(Inserting) \in Nat /\ Cardinality(Inserting') \in Nat /\ Cardinality(Starters) \in Nat
  BY <1>2, <1>3, StartupAssumption, FS_CardinalityType
<1>5. n + Cardinality(Inserting') <= Cardinality(Starters)
  BY <1>1, <1>3, <1>4
<1>. QED BY <1>1, <1>5 DEF RowsCounted

(* In an empty table the count holds: each run inserts at most one row.  *)
LEMMA RowsNone ==
  ASSUME DOMAIN keys' = {}
  PROVE  RowsCounted'
<1>1. Inserting' \subseteq Starters
  BY DEF Inserting
<1>2. Cardinality(Inserting') <= Cardinality(Starters) /\ Cardinality(Inserting') \in Nat
  BY <1>1, StartupAssumption, FS_Subset, FS_CardinalityType
<1>3. 1 .. 0 = {} /\ 0 \in Nat /\ 0 + Cardinality(Inserting') = Cardinality(Inserting')
  BY <1>2
<1>. QED BY <1>2, <1>3 DEF RowsCounted

(* A run of init-db changes key and file only for itself: no other that is *)
(* alone runs.                                                             *)
LEMMA KeysKnown ==
  ASSUME KeyInv, NEW s \in Starters, NEW r, starter \in [Starters -> Run],
         starter' = [starter EXCEPT ![s] = r],
         r.at # "out" /\ r.tool = "init" =>
           /\ Initialising(s)
           /\ r.alone => starter[s].alone /\ KeyKnown(r, keys', plaintext'),
         Initialising(s) \/ UNCHANGED <<keys, plaintext>>,
         settled' = settled
  PROVE  KeyInv'
<1>1. \A t \in Starters : Initialising(t)' => Initialising(t) /\ (starter'[t].alone => starter[t].alone)
  BY DEF Initialising, Step
<1>2. \A t, u \in Starters : Initialising(t)' /\ starter'[t].alone /\ Initialising(u)' => u = t
  BY <1>1 DEF KeyInv
<1>3. settled' # "unknown" => \A t \in Starters : ~Initialising(t)'
  BY <1>1 DEF KeyInv
<1>4. ASSUME NEW t \in Starters, Initialising(t)', starter'[t].alone
      PROVE  KeyKnown(starter'[t], keys', plaintext')
  <2>1. CASE t = s
    BY <1>4, <2>1 DEF Initialising, Step
  <2>2. CASE t # s
    <3>1. starter'[t] = starter[t] /\ Initialising(t) /\ starter[t].alone
      BY <1>1, <1>4, <2>2
    <3>2. UNCHANGED <<keys, plaintext>>
      BY <2>2, <3>1 DEF KeyInv
    <3>. QED BY <3>1, <3>2 DEF KeyInv
  <2>. QED BY <2>1, <2>2
<1>5. KeyServes'
  <2>1. CASE settled = "unknown"
    BY <2>1 DEF KeyServes
  <2>2. CASE settled # "unknown"
    <3>1. UNCHANGED <<keys, plaintext>>
      BY <2>2 DEF KeyInv
    <3>. QED BY <3>1 DEF KeyInv, KeyServes, Holders
  <2>. QED BY <2>1, <2>2
<1>. QED BY <1>2, <1>3, <1>4, <1>5 DEF KeyInv

(* A step of one run that leaves keys and file alone.                      *)
LEMMA RunGoes ==
  ASSUME StartupInv, NEW s \in Starters, NEW r \in Run,
         starter' = [starter EXCEPT ![s] = r],
         objects \subseteq objects', objects' \subseteq StatementsTo(MaxSchema),
         recorded \subseteq recorded', recorded' \subseteq Schemas, SchemaRecorded',
         SchemaKnown(r, objects'),
         lock' = {} \/ \E t \in Starters : lock' = {t},
         UNCHANGED <<keys, plaintext, issued, settled>>,
         r.at # "persist",
         r.at = "write" => r.id \in DOMAIN keys \/ (r.id = 0 /\ DOMAIN keys = {}),
         r.at # "out" /\ r.tool = "init" =>
           /\ Initialising(s)
           /\ r.alone => starter[s].alone /\ KeyKnown(r, keys, plaintext)
  PROVE  StartupInv'
<1> USE DEF StartupInv
<1>1. StartupTypes'
  BY DEF StartupTypes, Step
<1>2. SchemaInv'
  BY SchemaGrows DEF StartupTypes
<1>3. KeyInv'
  BY KeysKnown DEF StartupTypes
<1>4. RowsCounted'
  <2>1. CASE r.at = "write" /\ r.id = 0
    <3>1. PICK n \in Nat : DOMAIN keys = 1 .. n
      BY DEF RowsCounted
    <3>2. DOMAIN keys' = {}
      BY <2>1, <3>1
    <3>. QED BY <3>2, RowsNone
  <2>2. CASE ~(r.at = "write" /\ r.id = 0)
    <3>1. Inserting' \subseteq Inserting
      BY <2>2 DEF Inserting, Step, StartupTypes
    <3>. QED BY <3>1, RowsRest
  <2>. QED BY <2>1, <2>2
<1>5. RowsChosen'
  BY DEF RowsChosen, Step, StartupTypes
<1>. QED BY <1>1, <1>2, <1>3, <1>4, <1>5

-----------------------------------------------------------------------------
(* A run that ends.                                                        *)
LEMMA RunStops ==
  ASSUME StartupInv, NEW s \in Starters, Stop(s), UNCHANGED <<Schema, Keys, settled>>,
         lock' = lock \/ lock' = lock \ {s}
  PROVE  StartupInv'
<1>1. starter' = [starter EXCEPT ![s] = Idle]
  BY DEF Stop
<1>2. lock' = {} \/ \E t \in Starters : lock' = {t}
  BY DEF StartupInv, StartupTypes
<1>3. SchemaRecorded' /\ objects' \subseteq StatementsTo(MaxSchema) /\ recorded' \subseteq Schemas
  BY DEF StartupInv, StartupTypes, SchemaInv, SchemaRecorded, Schema
<1>. QED BY <1>1, <1>2, <1>3, IdleRun, RunGoes DEF Schema, Keys

(* An init-db goes to a place where nothing is known yet.                  *)
LEMMA InitGoes ==
  ASSUME StartupInv, NEW s \in Starters, starter[s] \in InitRun,
         NEW p \in InitPlaces \ {"recordBaseline", "write", "persist", "done"},
         Go(s, p) \/ UNCHANGED starter,
         objects \subseteq objects', objects' \subseteq StatementsTo(MaxSchema),
         recorded \subseteq recorded', recorded' \subseteq Schemas, SchemaRecorded',
         UNCHANGED <<lock, keys, plaintext, issued, settled>>
  PROVE  StartupInv'
<1>0. starter \in [Starters -> Run] /\ starter[s].at # "out" /\ starter[s].tool = "init"
  BY DEF StartupInv, StartupTypes, InitRun, InitPlaces
<1>1. Initialising(s)
  BY <1>0 DEF Initialising, Step
<1>2. lock' = {} \/ \E t \in Starters : lock' = {t}
  BY DEF StartupInv, StartupTypes
<1>3. CASE Go(s, p)
  <2> DEFINE r == [starter[s] EXCEPT !.at = p]
  <2>1. r \in InitRun /\ r.at = p /\ r.alone = starter[s].alone
    BY InitMoves
  <2>2. starter' = [starter EXCEPT ![s] = r]
    BY <1>3 DEF Go
  <2>3. r \in Run
    BY <2>1 DEF Run
  <2>4. SchemaKnown(r, objects') /\ KeyKnown(r, keys, plaintext)
    BY <2>1 DEF SchemaKnown, KeyKnown, InitPlaces
  <2> HIDE DEF r
  <2>. QED BY <1>1, <1>2, <2>1, <2>2, <2>3, <2>4, RunGoes
<1>4. CASE UNCHANGED starter
  <2>1. starter' = [starter EXCEPT ![s] = starter[s]] /\ starter[s] \in Run
    BY <1>0, <1>4
  <2>2. SchemaKnown(starter[s], objects')
    BY DEF StartupInv, SchemaInv, SchemaKnown
  <2>3. starter[s].alone => KeyKnown(starter[s], keys, plaintext)
    BY <1>1 DEF StartupInv, KeyInv
  <2>5. SchemaInv' /\ KeyInv'
    BY <1>0, <1>1, <2>1, <2>2, <2>3, SchemaGrows, KeysKnown DEF StartupInv
  <2>6. RowsCounted'
    <3>1. Inserting' = Inserting
      BY <1>4 DEF Inserting, Step
    <3>. QED BY <3>1, RowsRest DEF StartupInv
  <2>7. StartupTypes' /\ RowsChosen'
    BY <1>4 DEF StartupInv, StartupTypes, RowsChosen, Step
  <2>. QED BY <2>5, <2>6, <2>7 DEF StartupInv
<1>. QED BY <1>3, <1>4

(* The schema's baseline.                                                  *)
LEMMA BaselineKeeps ==
  ASSUME StartupInv, NEW s \in Starters,
         InitializeSchema(s) \/ RunBaseline(s) \/ EnsureSchemaBaseline(s)
  PROVE  StartupInv'
<1>0. /\ starter \in [Starters -> Run] /\ SchemaRecorded /\ SchemaKnown(starter[s], objects)
      /\ objects \subseteq StatementsTo(MaxSchema) /\ recorded \subseteq Schemas
      /\ lock = {} \/ \E t \in Starters : lock = {t}
  BY DEF StartupInv, StartupTypes, SchemaInv
<1>1. starter[s] \in InitRun /\ starter[s].target \in Schemas /\ starter[s].at # "out"
  <2>1. starter[s].at \in InitPlaces
    BY DEF InitializeSchema, RunBaseline, EnsureSchemaBaseline, Step, InitPlaces
  <2>2. starter[s] \in InitRun
    BY <1>0, <2>1, ToolOfPlace
  <2>. QED BY <2>1, <2>2 DEF InitRun, InitPlaces
<1>2. StatementsTo(starter[s].target) \subseteq StatementsTo(MaxSchema)
  <2>1. starter[s].target \in Nat /\ starter[s].target <= MaxSchema
    BY <1>1, StartupAssumption DEF Schemas
  <2>2. 1 .. starter[s].target \subseteq 1 .. MaxSchema
    BY <2>1, StartupAssumption
  <2>. QED BY <2>2 DEF StatementsTo
<1>3. CASE InitializeSchema(s)
  <2>1. UNCHANGED <<objects, recorded, lock, keys, plaintext, issued, settled>> /\ SchemaRecorded'
    BY <1>0, <1>3 DEF InitializeSchema, Schema, Keys, SchemaRecorded
  <2>2. Go(s, "baseline") \/ Go(s, "admin") \/ Stop(s)
    BY <1>3 DEF InitializeSchema
  <2>3. CASE Stop(s)
    BY <1>3, <2>3, RunStops DEF InitializeSchema
  <2>4. CASE Go(s, "baseline") \/ Go(s, "admin")
    BY <1>0, <1>1, <2>1, <2>4, InitGoes DEF InitPlaces
  <2>. QED BY <2>2, <2>3, <2>4
<1>4. CASE RunBaseline(s)
  <2> DEFINE missing == StatementsTo(starter[s].target) \ objects
  <2>0. UNCHANGED <<recorded, lock, keys, plaintext, issued, settled>>
    BY <1>4 DEF RunBaseline, Keys
  <2>1. CASE missing = {}
    <3> DEFINE r == [starter[s] EXCEPT !.at = "recordBaseline"]
    <3>1. UNCHANGED objects /\ starter' = [starter EXCEPT ![s] = r] /\ SchemaRecorded'
      BY <1>0, <1>4, <2>0, <2>1 DEF RunBaseline, Go, SchemaRecorded
    <3>2. /\ r \in InitRun /\ r.at = "recordBaseline" /\ r.alone = starter[s].alone
          /\ r.target = starter[s].target
      BY <1>1, InitMoves DEF InitPlaces
    <3>3. SchemaKnown(r, objects') /\ KeyKnown(r, keys, plaintext) /\ r \in Run
      BY <2>1, <3>1, <3>2 DEF SchemaKnown, KeyKnown, Run
    <3>4. Initialising(s)
      BY <1>1 DEF Initialising, Step, InitRun
    <3> HIDE DEF r
    <3>. QED BY <1>0, <2>0, <3>1, <3>2, <3>3, <3>4, RunGoes
  <2>2. CASE missing # {}
    <3>1. UNCHANGED starter /\ \E m \in missing : objects' = objects \cup {m}
      BY <1>4, <2>2 DEF RunBaseline
    <3>2. objects \subseteq objects' /\ objects' \subseteq StatementsTo(MaxSchema) /\ SchemaRecorded'
      BY <1>0, <1>2, <2>0, <3>1 DEF SchemaRecorded
    <3>3. "baseline" \in InitPlaces \ {"recordBaseline", "write", "persist", "done"}
      BY DEF InitPlaces
    <3>. QED BY <1>0, <1>1, <2>0, <3>1, <3>2, <3>3, InitGoes
  <2>. QED BY <2>1, <2>2
<1>5. CASE EnsureSchemaBaseline(s)
  <2>1. /\ UNCHANGED <<objects, lock, keys, plaintext, issued, settled>> /\ Go(s, "admin")
        /\ recorded' = recorded \cup {starter[s].target} /\ starter[s].at = "recordBaseline"
    BY <1>5 DEF EnsureSchemaBaseline, Keys, Step
  <2>2. SchemaRecorded' /\ recorded' \subseteq Schemas
    BY <1>0, <1>1, <2>1 DEF SchemaRecorded, SchemaKnown
  <2>. QED BY <1>0, <1>1, <2>1, <2>2, InitGoes DEF InitPlaces
<1>. QED BY <1>3, <1>4, <1>5

(* The run at work, and what does not change in its step.                  *)
LEMMA InitAtWork ==
  ASSUME StartupInv, NEW s \in Starters, starter[s].at \in InitPlaces
  PROVE  /\ starter \in [Starters -> Run] /\ starter[s] \in InitRun /\ Initialising(s)
         /\ SchemaRecorded /\ objects \subseteq StatementsTo(MaxSchema) /\ recorded \subseteq Schemas
         /\ lock = {} \/ \E t \in Starters : lock = {t}
         /\ starter[s].alone => KeyKnown(starter[s], keys, plaintext)
<1>1. starter[s] \in InitRun
  BY ToolOfPlace DEF StartupInv, StartupTypes
<1>2. Initialising(s)
  BY <1>1 DEF Initialising, Step, InitRun, InitPlaces
<1>. QED BY <1>1, <1>2 DEF StartupInv, StartupTypes, SchemaInv, KeyInv

(* The first administrator.                                                *)
LEMMA AdminKeeps ==
  ASSUME StartupInv, NEW s \in Starters, CountAdmins(s) \/ SeedAdmin(s)
  PROVE  StartupInv'
<1>1. /\ starter[s].at \in InitPlaces
      /\ UNCHANGED <<objects, recorded, lock, keys, plaintext, issued, settled>>
  BY DEF CountAdmins, SeedAdmin, Step, InitPlaces, Schema, Keys
<1>2. SchemaRecorded'
  BY <1>1, InitAtWork DEF SchemaRecorded
<1>3. CASE Go(s, "key") \/ Go(s, "seed")
  BY <1>1, <1>2, <1>3, InitAtWork, InitGoes DEF InitPlaces
<1>4. CASE Stop(s)
  <2>1. starter' = [starter EXCEPT ![s] = Idle]
    BY <1>4 DEF Stop
  <2>. QED BY <1>1, <1>2, <2>1, InitAtWork, IdleRun, RunGoes
<1>. QED BY <1>3, <1>4 DEF CountAdmins, SeedAdmin

(* A run that has chosen the row to write, or found that none is there.    *)
LEMMA ChosenKeeps ==
  ASSUME StartupInv, NEW s \in Starters, starter[s].at \in InitPlaces, NEW id \in Nat, Chosen(s, id),
         id \in DOMAIN keys \/ (id = 0 /\ DOMAIN keys = {}),
         UNCHANGED <<objects, recorded, lock, keys, plaintext, issued, settled>>
  PROVE  StartupInv'
<1> DEFINE r == [starter[s] EXCEPT !.at = "write", !.id = id]
<1>1. starter[s] \in InitRun /\ starter \in [Starters -> Run]
  BY InitAtWork
<1>2. r \in InitRun /\ r.at = "write" /\ r.id = id /\ r.alone = starter[s].alone
  BY <1>1 DEF InitRun, InitPlaces
<1>3. starter' = [starter EXCEPT ![s] = r]
  BY DEF Chosen
<1>4. SchemaKnown(r, objects') /\ KeyKnown(r, keys, plaintext) /\ r \in Run
  BY <1>2 DEF SchemaKnown, KeyKnown, Run
<1>5. SchemaRecorded'
  BY InitAtWork DEF SchemaRecorded
<1> HIDE DEF r
<1>. QED BY <1>2, <1>3, <1>4, <1>5, InitAtWork, RunGoes

(* A run that has found the key in order.                                  *)
LEMMA KeyFound ==
  ASSUME StartupInv, NEW s \in Starters, starter[s].at \in InitPlaces, Go(s, "done"),
         \E id \in DOMAIN keys : keys[id] = IF starter[s].env = NoSecret THEN plaintext ELSE starter[s].env,
         UNCHANGED <<objects, recorded, lock, keys, plaintext, issued, settled>>
  PROVE  StartupInv'
<1> DEFINE r == [starter[s] EXCEPT !.at = "done"]
<1>1. starter[s] \in InitRun /\ starter \in [Starters -> Run]
  BY InitAtWork
<1>2. r \in InitRun /\ r.at = "done" /\ r.env = starter[s].env /\ r.alone = starter[s].alone
  BY <1>1, InitMoves DEF InitPlaces
<1>3. starter' = [starter EXCEPT ![s] = r]
  BY DEF Go
<1>4. SchemaKnown(r, objects') /\ KeyKnown(r, keys, plaintext) /\ r \in Run
  BY <1>2 DEF SchemaKnown, KeyKnown, Run
<1>5. SchemaRecorded'
  BY InitAtWork DEF SchemaRecorded
<1> HIDE DEF r
<1>. QED BY <1>2, <1>3, <1>4, <1>5, InitAtWork, RunGoes

(* Looking for the key.                                                    *)
LEMMA FindKeeps ==
  ASSUME StartupInv, NEW s \in Starters, FindKeyForEnv(s) \/ FindActiveForEnv(s) \/ FindKey(s)
  PROVE  StartupInv'
<1>1. /\ starter[s].at \in InitPlaces
      /\ UNCHANGED <<objects, recorded, lock, keys, plaintext, issued, settled>>
  BY DEF FindKeyForEnv, FindActiveForEnv, FindKey, Step, InitPlaces, Schema, Keys
<1>2. PICK n \in Nat : DOMAIN keys = 1 .. n
  BY DEF StartupInv, RowsCounted
<1>3. \A id \in DOMAIN keys : id \in Nat /\ id # 0
  BY <1>2
<1>4. CASE FindKeyForEnv(s)
  <2>1. CASE Holders(starter[s].env) # {}
    <3>1. \E id \in DOMAIN keys : keys[id] = IF starter[s].env = NoSecret THEN plaintext ELSE starter[s].env
      BY <1>4, <2>1 DEF Holders, FindKeyForEnv
    <3>2. Go(s, "done")
      BY <1>4, <2>1 DEF FindKeyForEnv
    <3>. QED BY <1>1, <3>1, <3>2, KeyFound
  <2>2. CASE Holders(starter[s].env) = {}
    <3>1. Go(s, "active") /\ SchemaRecorded'
      BY <1>1, <1>4, <2>2, InitAtWork DEF FindKeyForEnv, SchemaRecorded
    <3>. QED BY <1>1, <3>1, InitAtWork, InitGoes DEF InitPlaces
  <2>. QED BY <2>1, <2>2
<1>5. CASE FindActiveForEnv(s)
  <2>1. DOMAIN keys # {} => Oldest \in DOMAIN keys
    <3>1. ASSUME DOMAIN keys # {} PROVE \E id \in DOMAIN keys : \A other \in DOMAIN keys : id <= other
      <4>1. 1 \in DOMAIN keys /\ \A other \in DOMAIN keys : 1 <= other
        BY <1>2, <3>1
      <4>. QED BY <4>1
    <3>. QED BY <3>1 DEF Oldest
  <2>2. ASSUME NEW id, id = IF DOMAIN keys = {} THEN 0 ELSE Oldest
        PROVE  id \in Nat /\ (id \in DOMAIN keys \/ (id = 0 /\ DOMAIN keys = {}))
    <3>1. CASE DOMAIN keys = {}
      BY <2>2, <3>1
    <3>2. CASE DOMAIN keys # {}
      BY <1>3, <2>1, <2>2, <3>2
    <3>. QED BY <3>1, <3>2
  <2>3. PICK id : id = (IF DOMAIN keys = {} THEN 0 ELSE Oldest) /\ Chosen(s, id)
    BY <1>5 DEF FindActiveForEnv
  <2>4. id \in Nat /\ (id \in DOMAIN keys \/ (id = 0 /\ DOMAIN keys = {}))
    BY <2>2, <2>3
  <2>. QED BY <1>1, <2>3, <2>4, ChosenKeeps
<1>6. CASE FindKey(s)
  <2>1. CASE DOMAIN keys = {} /\ Chosen(s, 0)
    BY <1>1, <2>1, ChosenKeeps
  <2>2. ASSUME NEW id \in DOMAIN keys, KeepKey(s, id), Go(s, "done") PROVE StartupInv'
    <3>1. starter[s].env = NoSecret
      BY <1>6 DEF FindKey
    <3>2. \E k \in DOMAIN keys : keys[k] = IF starter[s].env = NoSecret THEN plaintext ELSE starter[s].env
      BY <2>2, <3>1 DEF KeepKey
    <3>. QED BY <1>1, <2>2, <3>2, KeyFound
  <2>3. ASSUME NEW id \in DOMAIN keys, Chosen(s, id) PROVE StartupInv'
    <3>1. id \in Nat
      BY <1>3
    <3>2. id \in DOMAIN keys \/ (id = 0 /\ DOMAIN keys = {})
      BY <2>3
    <3>. QED BY <1>1, <2>3, <3>1, <3>2, ChosenKeeps
  <2>. QED BY <1>6, <2>1, <2>2, <2>3 DEF FindKey
<1>. QED BY <1>4, <1>5, <1>6

(* A row that is updated or inserted.                                      *)
LEMMA RowWritten ==
  ASSUME RowsCounted, RowsChosen, NEW s \in Starters, Step(s, "write"), starter'[s].at # "write",
         \A t \in Starters \ {s} : starter'[t] = starter[t],
         DOMAIN keys' = DOMAIN keys \cup
           {IF starter[s].id # 0 THEN starter[s].id ELSE Cardinality(DOMAIN keys) + 1}
  PROVE  RowsCounted' /\ RowsChosen'
<1>1. PICK n \in Nat : DOMAIN keys = 1 .. n /\ n + Cardinality(Inserting) <= Cardinality(Starters)
  BY DEF RowsCounted
<1>2. RowsChosen'
  BY DEF RowsChosen, Step
<1>3. CASE starter[s].id # 0
  <2>1. DOMAIN keys' = DOMAIN keys
    BY <1>3 DEF RowsChosen
  <2>2. Inserting' \subseteq Inserting
    BY DEF Inserting, Step
  <2>. QED BY <1>2, <2>1, <2>2, RowsRest
<1>4. CASE starter[s].id = 0
  <2>1. Cardinality(DOMAIN keys) = n
    <3>1. Cardinality(1 .. n) = n
      BY FS_Interval
    <3>. QED BY <1>1, <3>1
  <2>2. DOMAIN keys' = 1 .. n + 1
    BY <1>1, <1>4, <2>1
  <2>3. s \in Inserting /\ Inserting' \subseteq Inserting \ {s}
    BY <1>4 DEF Inserting, Step
  <2>4. IsFiniteSet(Inserting)
    BY StartupAssumption, FS_Subset DEF Inserting
  <2>5. IsFiniteSet(Inserting \ {s}) /\ Cardinality(Inserting \ {s}) = Cardinality(Inserting) - 1
    BY <2>3, <2>4, FS_RemoveElement
  <2>6. Cardinality(Inserting') <= Cardinality(Inserting) - 1 /\ IsFiniteSet(Inserting')
    BY <2>3, <2>5, FS_Subset
  <2>7. Cardinality(Inserting) \in Nat /\ Cardinality(Inserting') \in Nat /\ Cardinality(Starters) \in Nat
    BY <2>4, <2>6, StartupAssumption, FS_CardinalityType
  <2>8. n + 1 + Cardinality(Inserting') <= Cardinality(Starters)
    BY <1>1, <2>6, <2>7
  <2>. QED BY <1>2, <2>2, <2>8 DEF RowsCounted
<1>. QED BY <1>3, <1>4

(* UPDATE or INSERT of the row.                                            *)
LEMMA WriteKeeps ==
  ASSUME StartupInv, NEW s \in Starters, WriteKey(s)
  PROVE  StartupInv'
<1> DEFINE env == starter[s].env # NoSecret
           id == IF starter[s].id # 0 THEN starter[s].id ELSE Cardinality(DOMAIN keys) + 1
           secret == IF env THEN starter[s].env ELSE issued + 1
           r == [starter[s] EXCEPT !.at = IF env THEN "done" ELSE "persist", !.id = secret]
<1>0. UNCHANGED <<objects, recorded, lock, admin, plaintext, settled>> /\ Step(s, "write")
  BY DEF WriteKey, Schema
<1>1. starter[s].at \in InitPlaces
  BY <1>0 DEF Step, InitPlaces
<1>2. CASE Stop(s) /\ UNCHANGED <<keys, issued>>
  BY <1>0, <1>2, RunStops DEF Schema, Keys
<1>3. CASE ~(Stop(s) /\ UNCHANGED <<keys, issued>>)
  <2>1. /\ issued < MaxSecrets \/ env
        /\ issued' = IF env THEN issued ELSE secret
        /\ keys' = [k \in DOMAIN keys \cup {id} |-> IF k = id THEN secret ELSE keys[k]]
        /\ starter' = [starter EXCEPT ![s] = r]
    BY <1>3 DEF WriteKey
  <2>2. issued \in PaddedSecret .. MaxSecrets /\ starter[s] \in InitRun /\ starter \in [Starters -> Run]
    BY <1>1, InitAtWork DEF StartupInv, StartupTypes
  <2>3. secret \in EnvSecret .. MaxSecrets /\ issued' \in PaddedSecret .. MaxSecrets /\ secret \in Nat
    <3>1. starter[s].env \in ApiKey
      BY <2>2 DEF InitRun
    <3>. QED BY <2>1, <2>2, <3>1, StartupAssumption DEF NoSecret, EnvSecret, PaddedSecret, ApiKey
  <2>4. /\ r \in InitRun /\ r.at = (IF env THEN "done" ELSE "persist") /\ r.id = secret /\ r.env = starter[s].env
        /\ r.alone = starter[s].alone
    <3> HIDE DEF secret
    <3>. QED BY <2>2, <2>3 DEF InitRun, InitPlaces
  <2>5. \E k \in DOMAIN keys' : keys'[k] = secret
    <3> HIDE DEF secret, id
    <3>. QED BY <2>1
  <2>6. KeyKnown(r, keys', plaintext')
    <3>1. env => secret = starter[s].env
      OBVIOUS
    <3> HIDE DEF r, secret
    <3>. QED BY <2>4, <2>5, <3>1 DEF KeyKnown
  <2>7. r \in Run /\ SchemaKnown(r, objects')
    <3> HIDE DEF r, secret
    <3>. QED BY <2>4 DEF Run, SchemaKnown
  <2>8. SchemaInv'
    <3>1. SchemaRecorded'
      BY <1>0, <1>1, InitAtWork DEF SchemaRecorded
    <3> HIDE DEF r
    <3>. QED BY <1>0, <2>1, <2>2, <2>7, <3>1, SchemaGrows DEF StartupInv
  <2>9. KeyInv'
    <3> HIDE DEF r
    <3>. QED BY <1>0, <1>1, <2>1, <2>2, <2>4, <2>6, InitAtWork, KeysKnown DEF StartupInv
  <2>10. StartupTypes'
    <3> HIDE DEF r, secret, id
    <3>1. r.id \in NoSecret .. MaxSecrets
      BY <2>3, <2>4 DEF NoSecret, EnvSecret
    <3>. QED BY <1>0, <2>1, <2>2, <2>3, <2>7, <3>1 DEF StartupInv, StartupTypes, Step
  <2>11. RowsCounted' /\ RowsChosen'
    <3>1. DOMAIN keys' = DOMAIN keys \cup {id}
      BY <2>1
    <3>2. starter'[s].at # "write" /\ \A t \in Starters \ {s} : starter'[t] = starter[t]
      <4> HIDE DEF r
      <4>. QED BY <2>1, <2>2, <2>4
    <3>. QED BY <1>0, <3>1, <3>2, RowWritten DEF StartupInv
  <2>. QED BY <2>8, <2>9, <2>10, <2>11 DEF StartupInv
<1>. QED BY <1>2, <1>3

(* The key's file, and the end of an init-db.                              *)
LEMMA PersistKeeps ==
  ASSUME StartupInv, NEW s \in Starters, PersistPlaintext(s)
  PROVE  StartupInv'
<1>0. UNCHANGED <<objects, recorded, lock, keys, issued, settled>> /\ starter[s].at = "persist"
  BY DEF PersistPlaintext, Schema, Step
<1>1. starter[s].at \in InitPlaces
  BY <1>0 DEF InitPlaces
<1>2. starter[s] \in InitRun /\ starter \in [Starters -> Run] /\ Initialising(s)
  BY <1>1, InitAtWork
<1>3. PICK r \in InitRun :
        /\ starter' = [starter EXCEPT ![s] = r] /\ r.at = "done" /\ r.env = starter[s].env
        /\ \/ plaintext' = starter[s].id /\ r.alone = starter[s].alone
           \/ UNCHANGED plaintext /\ r.alone = FALSE
  <2>1. CASE plaintext' = starter[s].id /\ Go(s, "done")
    <3> DEFINE r == [starter[s] EXCEPT !.at = "done"]
    <3>1. r \in InitRun /\ r.at = "done" /\ r.env = starter[s].env /\ r.alone = starter[s].alone
      BY <1>2, InitMoves DEF InitPlaces
    <3>. QED BY <2>1, <3>1 DEF Go
  <2>2. CASE starter' = [starter EXCEPT ![s].at = "done", ![s].alone = FALSE] /\ UNCHANGED plaintext
    <3> DEFINE r == [starter[s] EXCEPT !.at = "done", !.alone = FALSE]
    <3>1. r \in InitRun /\ r.at = "done" /\ r.env = starter[s].env /\ r.alone = FALSE
      BY <1>2 DEF InitRun, InitPlaces
    <3>2. starter' = [starter EXCEPT ![s] = r]
      BY <1>2, <2>2
    <3>. QED BY <2>2, <3>1, <3>2
  <2>. QED BY <2>1, <2>2 DEF PersistPlaintext
<1>4. r.alone => starter[s].alone /\ KeyKnown(r, keys', plaintext')
  <2>1. starter[s].alone => starter[s].env = NoSecret /\ \E id \in DOMAIN keys : keys[id] = starter[s].id
    BY <1>0, <1>1, InitAtWork DEF KeyKnown
  <2>. QED BY <1>0, <1>3, <2>1 DEF KeyKnown
<1>5. r \in Run /\ SchemaKnown(r, objects')
  BY <1>3 DEF Run, SchemaKnown
<1>6. SchemaInv'
  <2>1. SchemaRecorded'
    BY <1>0, <1>1, InitAtWork DEF SchemaRecorded
  <2>. QED BY <1>0, <1>2, <1>3, <1>5, <2>1, SchemaGrows DEF StartupInv
<1>7. KeyInv'
  BY <1>0, <1>2, <1>3, <1>4, KeysKnown DEF StartupInv
<1>8. RowsCounted' /\ RowsChosen'
  <2>1. Inserting' \subseteq Inserting
    BY <1>2, <1>3 DEF Inserting, Step
  <2>2. RowsChosen'
    BY <1>0, <1>2, <1>3 DEF RowsChosen, Step, StartupInv
  <2>. QED BY <1>0, <2>1, <2>2, RowsRest DEF StartupInv
<1>9. plaintext' \in NoSecret .. MaxSecrets
  <2>1. CASE UNCHANGED plaintext
    BY <2>1 DEF StartupInv, StartupTypes
  <2>2. CASE plaintext' = starter[s].id
    <3>1. starter[s].id \in NoSecret .. MaxSecrets
      BY <1>0 DEF StartupInv, StartupTypes, Step
    <3>. QED BY <2>2, <3>1
  <2>. QED BY <1>3, <2>1, <2>2
<1>10. StartupTypes'
  BY <1>0, <1>2, <1>3, <1>5, <1>9 DEF StartupInv, StartupTypes, Step
<1>. QED BY <1>6, <1>7, <1>8, <1>10 DEF StartupInv

(* The end of an init-db: a key is settled only if it ran alone.         *)
LEMMA EndKeepsKey ==
  ASSUME StartupInv, NEW s \in Starters, EndInit(s)
  PROVE  StartupInv'
<1>0. UNCHANGED <<objects, recorded, lock, keys, plaintext, issued>> /\ starter[s].at = "done"
  BY DEF EndInit, Schema, Keys, Step
<1>1. starter[s].at \in InitPlaces
  BY <1>0 DEF InitPlaces
<1>2. starter[s] \in InitRun /\ starter \in [Starters -> Run] /\ Initialising(s)
  BY <1>1, InitAtWork
<1>3. starter' = [starter EXCEPT ![s] = Idle] /\ Idle \in Run /\ Idle.at = "out"
  BY IdleRun DEF EndInit, Stop
<1>4. SchemaInv'
  <2>1. SchemaRecorded'
    BY <1>0, <1>1, InitAtWork DEF SchemaRecorded
  <2>. QED BY <1>0, <1>2, <1>3, <2>1, IdleRun, SchemaGrows DEF StartupInv
<1>5. KeyInv'
  <2>1. \A t \in Starters : Initialising(t)' => Initialising(t) /\ t # s /\ starter'[t] = starter[t]
    BY <1>2, <1>3 DEF Initialising, Step
  <2>2. CASE ~starter[s].alone
    <3>1. settled' = "unknown"
      BY <2>2 DEF EndInit
    <3>. QED BY <1>0, <2>1, <3>1 DEF StartupInv, KeyInv, KeyServes
  <2>3. CASE starter[s].alone
    <3>1. \A t \in Starters : ~Initialising(t)'
      BY <1>2, <2>1, <2>3 DEF StartupInv, KeyInv
    <3>2. \E id \in DOMAIN keys : keys[id] = IF starter[s].env = NoSecret THEN plaintext ELSE starter[s].env
      BY <1>0, <1>1, <2>3, InitAtWork DEF KeyKnown
    <3>3. /\ settled' = "env" => starter[s].env = EnvSecret
          /\ settled' = "file" => starter[s].env = NoSecret
      <4>1. starter[s].env \in ApiKey /\ settled' = Source(starter[s].env)
        BY <1>2, <2>3 DEF EndInit, InitRun
      <4>. QED BY <4>1, StartupAssumption DEF ApiKey, Source, NoSecret, EnvSecret, PaddedSecret
    <3>4. KeyServes'
      BY <1>0, <3>2, <3>3 DEF KeyServes, Holders, NoSecret, EnvSecret
    <3>. QED BY <3>1, <3>4 DEF KeyInv
  <2>. QED BY <2>2, <2>3
<1>6. RowsCounted' /\ RowsChosen'
  <2>1. Inserting' \subseteq Inserting
    BY <1>2, <1>3 DEF Inserting, Step
  <2>2. RowsChosen'
    BY <1>0, <1>2, <1>3 DEF RowsChosen, Step, StartupInv
  <2>. QED BY <1>0, <2>1, <2>2, RowsRest DEF StartupInv
<1>7. StartupTypes'
  <2>1. settled' \in {"unknown", "file", "env", "padded"}
    <3>1. starter[s].env \in ApiKey /\ (settled' = Source(starter[s].env) \/ settled' = "unknown")
      BY <1>2 DEF EndInit, InitRun
    <3>. QED BY <3>1, StartupAssumption DEF ApiKey, Source, NoSecret, EnvSecret, PaddedSecret
  <2>. QED BY <1>0, <1>2, <1>3, <2>1 DEF StartupInv, StartupTypes, Step
<1>. QED BY <1>4, <1>5, <1>6, <1>7 DEF StartupInv

(* An init-db begins: no other is alone any more, and nothing is settled.  *)
LEMMA BeginKeeps ==
  ASSUME StartupInv, NEW s \in Starters, NEW target \in Schemas, NEW env \in ApiKey,
         BeginInit(s, target, env)
  PROVE  StartupInv'
<1> DEFINE r == [at |-> "schema", tool |-> "init", target |-> target, env |-> env,
                 id |-> 0, alone |-> \A u \in Starters : ~Initialising(u)]
           other(t) == [starter[t] EXCEPT !.alone = FALSE]
<1>0. /\ UNCHANGED <<objects, recorded, lock, keys, plaintext, issued>> /\ settled' = "unknown"
      /\ starter \in [Starters -> Run]
  BY DEF BeginInit, Schema, Keys, StartupInv, StartupTypes
<1>1. r \in InitRun /\ r.at = "schema" /\ r.alone = \A u \in Starters : ~Initialising(u)
  BY DEF InitRun, InitPlaces
<1>2. ASSUME NEW t \in Starters, Initialising(t)
      PROVE  /\ other(t) \in InitRun /\ other(t).at = starter[t].at /\ other(t).target = starter[t].target
             /\ other(t).id = starter[t].id /\ other(t).alone = FALSE
  <2>1. starter[t] \in InitRun
    BY <1>0, <1>2, ToolOfPlace DEF Initialising, Step
  <2>. QED BY <2>1 DEF InitRun
<1>3. ASSUME NEW t \in Starters
      PROVE  starter'[t] = IF t = s THEN r ELSE IF Initialising(t) THEN other(t) ELSE starter[t]
  <2>1. starter' = [u \in Starters |-> IF u = s THEN r ELSE IF Initialising(u) THEN other(u) ELSE starter[u]]
    BY DEF BeginInit
  <2> HIDE DEF r, other
  <2>. QED BY <2>1
<1>4. starter' \in [Starters -> Run]
  <2>1. starter' = [u \in Starters |-> IF u = s THEN r ELSE IF Initialising(u) THEN other(u) ELSE starter[u]]
    BY DEF BeginInit
  <2> HIDE DEF r, other
  <2>. QED BY <1>0, <1>1, <1>2, <2>1 DEF Run
<1> HIDE DEF r, other
<1>6. SchemaInv'
  <2>1. ASSUME NEW t \in Starters PROVE SchemaKnown(starter'[t], objects')
    <3>1. CASE t = s
      BY <1>1, <1>3, <3>1 DEF SchemaKnown
    <3>2. CASE t # s /\ Initialising(t)
      <4>1. starter'[t] = other(t) /\ other(t) \in InitRun
        BY <1>2, <1>3, <3>2
      <4>2. starter'[t].at \notin {"lock", "version", "apply", "release"}
        BY <4>1 DEF InitRun, InitPlaces
      <4>. QED BY <1>0, <1>2, <3>2, <4>1, <4>2 DEF StartupInv, SchemaInv, SchemaKnown
    <3>3. CASE t # s /\ ~Initialising(t)
      BY <1>0, <1>3, <3>3 DEF StartupInv, SchemaInv, SchemaKnown
    <3>. QED BY <3>1, <3>2, <3>3
  <2>. QED BY <1>0, <2>1 DEF StartupInv, SchemaInv, SchemaRecorded
<1>7. KeyInv'
  <2>1. ASSUME NEW t \in Starters, Initialising(t)', starter'[t].alone
        PROVE  t = s /\ \A u \in Starters : ~Initialising(u)
    BY <1>1, <1>2, <1>3, <2>1 DEF Initialising, Step
  <2>2. ASSUME NEW t \in Starters, Initialising(t)' PROVE t = s \/ Initialising(t)
    BY <1>3, <2>2 DEF Initialising, Step
  <2>3. KeyKnown(r, keys', plaintext')
    BY <1>1 DEF KeyKnown
  <2>. QED BY <1>0, <1>3, <2>1, <2>2, <2>3 DEF KeyInv, KeyServes
<1>8. \A t \in Starters : starter'[t].at \in {"write", "persist"} =>
        starter'[t].at = starter[t].at /\ starter'[t].id = starter[t].id
  BY <1>1, <1>2, <1>3
<1>9. RowsCounted' /\ RowsChosen'
  <2>1. Inserting' \subseteq Inserting
    BY <1>8 DEF Inserting, Step
  <2>2. RowsChosen'
    BY <1>0, <1>8 DEF RowsChosen, Step, StartupInv
  <2>. QED BY <1>0, <2>1, <2>2, RowsRest DEF StartupInv
<1>10. StartupTypes'
  BY <1>0, <1>4, <1>8 DEF StartupInv, StartupTypes, Step
<1>. QED BY <1>6, <1>7, <1>9, <1>10 DEF StartupInv

-----------------------------------------------------------------------------
(* A migration: what it has applied and recorded.                          *)
LEMMA MigrationGoes ==
  ASSUME StartupInv, NEW s \in Starters, NEW r \in MigrateRun,
         starter' = [starter EXCEPT ![s] = r],
         objects \subseteq objects', objects' \subseteq StatementsTo(MaxSchema),
         recorded \subseteq recorded', recorded' \subseteq Schemas, SchemaRecorded',
         SchemaKnown(r, objects'),
         lock' = lock \/ lock' = {s},
         UNCHANGED <<keys, plaintext, issued, settled>>
  PROVE  StartupInv'
<1>1. r \in Run /\ r.at \notin {"write", "persist"} /\ r.tool # "init"
  BY DEF Run, MigrateRun
<1>2. lock' = {} \/ \E t \in Starters : lock' = {t}
  BY DEF StartupInv, StartupTypes
<1>. QED BY <1>1, <1>2, RunGoes

(* A migration at work, and what it knows.                               *)
LEMMA MigrationAtWork ==
  ASSUME StartupInv, NEW s \in Starters, starter[s].at \in {"lock", "version", "apply", "release"}
  PROVE  /\ starter[s] \in MigrateRun /\ starter \in [Starters -> Run]
         /\ SchemaRecorded /\ objects \subseteq StatementsTo(MaxSchema) /\ recorded \subseteq Schemas
         /\ SchemaKnown(starter[s], objects)
BY ToolOfPlace DEF StartupInv, StartupTypes, SchemaInv

(* A migration begins, gets the lock, and plans.                           *)
LEMMA PlanKeeps ==
  ASSUME StartupInv, NEW s \in Starters,
         AcquireMigrationLock(s) \/ PlanMigration(s) \/ \E target \in Schemas : BeginMigration(s, target)
  PROVE  StartupInv'
<1>0. UNCHANGED <<objects, recorded, keys, plaintext, issued, settled>>
  BY DEF AcquireMigrationLock, PlanMigration, BeginMigration, Schema, Keys
<1>1. objects' \subseteq StatementsTo(MaxSchema) /\ recorded' \subseteq Schemas /\ SchemaRecorded'
  BY <1>0 DEF StartupInv, StartupTypes, SchemaInv, SchemaRecorded
<1>2. ASSUME NEW target \in Schemas, BeginMigration(s, target) PROVE StartupInv'
  <2> DEFINE r == [at |-> "lock", tool |-> "migrate", target |-> target, step |-> 0, next |-> 1]
  <2>1. r \in MigrateRun /\ SchemaKnown(r, objects')
    BY DEF MigrateRun, SchemaKnown
  <2>2. starter' = [starter EXCEPT ![s] = r] /\ lock' = lock
    BY <1>2 DEF BeginMigration
  <2> HIDE DEF r
  <2>. QED BY <1>0, <1>1, <2>1, <2>2, MigrationGoes
<1>3. CASE AcquireMigrationLock(s) \/ PlanMigration(s)
  <2>0. starter[s] \in MigrateRun /\ starter[s].at \in {"lock", "version"}
    BY <1>3, MigrationAtWork DEF AcquireMigrationLock, PlanMigration, Step
  <2>1. CASE Stop(s) /\ UNCHANGED lock
    BY <1>0, <1>3, <2>1, RunStops DEF AcquireMigrationLock, PlanMigration, Schema, Keys
  <2>2. CASE Go(s, "version") /\ lock' = {s}
    <3> DEFINE r == [starter[s] EXCEPT !.at = "version"]
    <3>1. r \in MigrateRun /\ r.at = "version" /\ r.step = starter[s].step /\ r.next = starter[s].next
      BY <2>0, MigrationMoves
    <3>2. SchemaKnown(r, objects')
      BY <2>0, <3>1, MigrationAtWork DEF SchemaKnown
    <3>3. starter' = [starter EXCEPT ![s] = r]
      BY <2>2 DEF Go
    <3> HIDE DEF r
    <3>. QED BY <1>0, <1>1, <2>2, <3>1, <3>2, <3>3, MigrationGoes
  <2>3. CASE /\ starter[s].at = "version" /\ recorded # {} /\ Newest < starter[s].target /\ UNCHANGED lock
             /\ starter' = [starter EXCEPT ![s].at = "apply", ![s].step = Newest + 1]
    <3> DEFINE r == [starter[s] EXCEPT !.at = "apply", !.step = Newest + 1]
    <3>1. Newest \in recorded /\ Newest \in Nat
      BY <2>3, NewestRecorded DEF StartupInv, StartupTypes
    <3>2. /\ r \in MigrateRun /\ r.at = "apply" /\ r.step = Newest + 1 /\ r.next = starter[s].next
          /\ r.target = starter[s].target
      <4>1. Newest + 1 \in Nat
        BY <3>1
      <4>. QED BY <2>0, <4>1 DEF MigrateRun
    <3>3. starter[s].next = 1 /\ starter[s].at = "version"
      BY <2>3, MigrationAtWork DEF SchemaKnown
    <3>7. starter' = [starter EXCEPT ![s] = r]
      BY <2>3, MigrationAtWork
    <3>4. 1 <= r.step /\ r.step <= r.target /\ r.step - 1 = Newest
      <4>1. r.target \in Nat
        BY <2>0, <3>2, StartupAssumption DEF MigrateRun, Schemas
      <4> HIDE DEF r
      <4>. QED BY <2>3, <3>1, <3>2, <4>1
    <3>5. StatementsTo(Newest) \subseteq objects'
      BY <1>0, <3>1 DEF StartupInv, SchemaInv, SchemaRecorded
    <3>6. SchemaKnown(r, objects')
      <4> HIDE DEF r
      <4>. QED BY <3>2, <3>3, <3>4, <3>5 DEF SchemaKnown
    <3> HIDE DEF r
    <3>. QED BY <1>0, <1>1, <2>3, <3>2, <3>6, <3>7, MigrationGoes
  <2>4. CASE Go(s, "release") /\ UNCHANGED lock /\ starter[s].at = "version"
    <3> DEFINE r == [starter[s] EXCEPT !.at = "release"]
    <3>1. r \in MigrateRun /\ r.at = "release"
      BY <2>0, MigrationMoves
    <3>3. SchemaKnown(r, objects')
      BY <3>1 DEF SchemaKnown
    <3>4. starter' = [starter EXCEPT ![s] = r]
      BY <2>4 DEF Go
    <3> HIDE DEF r
    <3>. QED BY <1>0, <1>1, <2>4, <3>1, <3>3, <3>4, MigrationGoes
  <2>. QED BY <1>3, <2>1, <2>2, <2>3, <2>4 DEF AcquireMigrationLock, PlanMigration, Step
<1>. QED BY <1>2, <1>3

(* A statement of a step, and the record at its end.                       *)
LEMMA ApplyKeeps ==
  ASSUME StartupInv, NEW s \in Starters, ApplyStatement(s)
  PROVE  StartupInv'
<1> DEFINE r == [starter[s] EXCEPT !.next = @ + 1]
           new == <<starter[s].step, starter[s].next>>
<1>0. /\ UNCHANGED <<recorded, lock, keys, plaintext, issued, settled>>
      /\ starter[s].at = "apply" /\ starter[s].next <= Length
      /\ objects' = objects \cup {new}
      /\ starter' = [starter EXCEPT ![s].next = @ + 1]
  BY DEF ApplyStatement, Step, Keys
<1>1. /\ starter[s] \in MigrateRun /\ starter \in [Starters -> Run] /\ SchemaRecorded
      /\ objects \subseteq StatementsTo(MaxSchema) /\ recorded \subseteq Schemas
      /\ SchemaKnown(starter[s], objects)
  BY <1>0, MigrationAtWork
<1>2. starter[s].step \in Nat /\ starter[s].next \in Nat /\ starter[s].target \in Schemas
  BY <1>1 DEF MigrateRun
<1>3. 1 <= starter[s].step /\ starter[s].step <= starter[s].target /\ 1 <= starter[s].next
  BY <1>0, <1>1 DEF SchemaKnown
<1>4. /\ r \in MigrateRun /\ r.at = "apply" /\ r.step = starter[s].step
      /\ r.next = starter[s].next + 1 /\ r.target = starter[s].target
  <2>1. starter[s].next + 1 \in Nat
    BY <1>2
  <2>. QED BY <1>0, <1>1, <2>1 DEF MigrateRun
<1>5. starter' = [starter EXCEPT ![s] = r]
  BY <1>0, <1>1
<1>6. new \in StatementsTo(MaxSchema)
  <2>1. starter[s].step \in 1 .. MaxSchema /\ starter[s].next \in 1 .. Length
    BY <1>0, <1>2, <1>3, StartupAssumption DEF Schemas
  <2>. QED BY <2>1 DEF StatementsTo
<1> HIDE DEF r
<1>7. SchemaKnown(r, objects')
  <2>1. StatementsTo(r.step - 1) \subseteq objects'
    BY <1>0, <1>1, <1>4 DEF SchemaKnown
  <2>2. ASSUME NEW i \in 1 .. Length, i < r.next PROVE <<r.step, i>> \in objects'
    <3>1. i < starter[s].next \/ i = starter[s].next
      BY <1>2, <1>4, <2>2, StartupAssumption
    <3>. QED BY <1>0, <1>1, <1>4, <3>1 DEF SchemaKnown
  <2>3. 1 <= r.next
    BY <1>2, <1>4
  <2>. QED BY <1>3, <1>4, <2>1, <2>2, <2>3 DEF SchemaKnown
<1>8. SchemaRecorded'
  BY <1>0, <1>1 DEF SchemaRecorded
<1>9. objects \subseteq objects' /\ objects' \subseteq StatementsTo(MaxSchema) /\ recorded' \subseteq Schemas
  BY <1>0, <1>1, <1>6
<1>. QED BY <1>0, <1>4, <1>5, <1>7, <1>8, <1>9, MigrationGoes

(* The record of a step, when its last statement has run.                *)
LEMMA RecordKeeps ==
  ASSUME StartupInv, NEW s \in Starters, RecordMigration(s)
  PROVE  StartupInv'
<1> DEFINE step == starter[s].step
<1>0. /\ UNCHANGED <<objects, lock, keys, plaintext, issued, settled>>
      /\ starter[s].at = "apply" /\ starter[s].next > Length
      /\ recorded' = recorded \cup {step}
      /\ starter' = IF step = starter[s].target THEN [starter EXCEPT ![s].at = "release"]
                    ELSE [starter EXCEPT ![s].step = @ + 1, ![s].next = 1]
  BY DEF RecordMigration, Step, Keys
<1>1. /\ starter[s] \in MigrateRun /\ starter \in [Starters -> Run] /\ SchemaRecorded
      /\ objects \subseteq StatementsTo(MaxSchema) /\ recorded \subseteq Schemas
      /\ SchemaKnown(starter[s], objects)
  BY <1>0, MigrationAtWork
<1>2. /\ step \in Nat /\ starter[s].next \in Nat /\ starter[s].target \in Schemas
      /\ starter[s].target \in Nat /\ starter[s].target <= MaxSchema
  BY <1>1, StartupAssumption DEF MigrateRun, Schemas
<1>3. /\ 1 <= step /\ step <= starter[s].target /\ StatementsTo(step - 1) \subseteq objects
      /\ \A i \in 1 .. Length : i < starter[s].next => <<step, i>> \in objects
  BY <1>0, <1>1 DEF SchemaKnown
<1> HIDE DEF step
<1>4. StatementsTo(step) \subseteq objects
  <2>1. ASSUME NEW v \in 1 .. step, NEW i \in 1 .. Length PROVE <<v, i>> \in objects
    <3>1. CASE v = step
      <4>1. i < starter[s].next
        BY <1>0, <1>2, StartupAssumption
      <4>. QED BY <1>3, <3>1, <4>1
    <3>2. CASE v # step
      <4>1. v \in 1 .. step - 1
        BY <1>2, <3>2
      <4>. QED BY <1>3, <4>1 DEF StatementsTo
    <3>. QED BY <3>1, <3>2
  <2>. QED BY <2>1 DEF StatementsTo
<1>5. SchemaRecorded' /\ recorded' \subseteq Schemas
  <2>1. step \in Schemas
    BY <1>2, <1>3, StartupAssumption DEF Schemas
  <2>. QED BY <1>0, <1>1, <1>4, <2>1 DEF SchemaRecorded
<1>6. CASE step = starter[s].target
  <2> DEFINE r == [starter[s] EXCEPT !.at = "release"]
  <2>1. r \in MigrateRun /\ r.at = "release" /\ r.target = starter[s].target
    BY <1>1, MigrationMoves
  <2>2. SchemaKnown(r, objects')
    BY <1>0, <1>6, <2>1 DEF SchemaKnown
  <2>3. starter' = [starter EXCEPT ![s] = r]
    BY <1>0, <1>1, <1>6
  <2> HIDE DEF r
  <2>. QED BY <1>0, <1>1, <1>5, <2>1, <2>2, <2>3, MigrationGoes
<1>7. CASE step # starter[s].target
  <2> DEFINE r == [starter[s] EXCEPT !.step = @ + 1, !.next = 1]
  <2>1. r \in MigrateRun /\ r.at = "apply" /\ r.target = starter[s].target /\ r.step = step + 1 /\ r.next = 1
    <3>1. step + 1 \in Nat /\ 1 \in Nat
      BY <1>2
    <3>. QED BY <1>0, <1>1, <3>1 DEF MigrateRun, step
  <2>2. 1 <= step + 1 /\ step + 1 <= starter[s].target /\ (step + 1) - 1 = step
    BY <1>2, <1>3, <1>7
  <2>3. starter' = [starter EXCEPT ![s] = r]
    BY <1>0, <1>1, <1>7
  <2> HIDE DEF r
  <2>4. \A i \in 1 .. Length : ~(i < r.next)
    BY <2>1, StartupAssumption
  <2>5. SchemaKnown(r, objects')
    BY <1>0, <1>4, <2>1, <2>2, <2>4 DEF SchemaKnown
  <2>. QED BY <1>0, <1>1, <1>5, <2>1, <2>3, <2>5, MigrationGoes
<1>. QED BY <1>6, <1>7

-----------------------------------------------------------------------------
(* An empty database at first.                                             *)
LEMMA StartupBegins == StartupInit => StartupInv
<1> SUFFICES ASSUME StartupInit PROVE StartupInv
  OBVIOUS
<1> USE DEF StartupInit
<1>1. \A s \in Starters : starter[s] = Idle /\ starter[s].at = "out" /\ ~Initialising(s)
  BY IdleRun DEF Initialising, Step
<1>2. DOMAIN keys = {}
  OBVIOUS
<1>3. StartupTypes
  BY <1>1, <1>2, IdleRun, StartupAssumption DEF StartupTypes, NoSecret, PaddedSecret, Step
<1>4. RowsCounted /\ RowsChosen
  <2>1. Inserting = {}
    BY <1>1 DEF Inserting, Step
  <2>2. Cardinality(Inserting) = 0 /\ Cardinality(Starters) \in Nat
    BY <2>1, FS_EmptySet, FS_CardinalityType, StartupAssumption
  <2>3. 0 \in Nat /\ 1 .. 0 = {} /\ 0 + Cardinality(Inserting) <= Cardinality(Starters)
    BY <2>2
  <2>. QED BY <1>1, <1>2, <2>3 DEF RowsCounted, RowsChosen, Step
<1>5. SchemaInv
  BY <1>1, IdleRun DEF SchemaInv, SchemaRecorded
<1>6. KeyInv
  BY <1>1 DEF KeyInv, KeyServes
<1>. QED BY <1>3, <1>4, <1>5, <1>6 DEF StartupInv

(* Every step of every run keeps the invariant.                            *)
LEMMA StartupSteps == StartupInv /\ [StartupNext]_startVars => StartupInv'
<1> SUFFICES ASSUME StartupInv, [StartupNext]_startVars PROVE StartupInv'
  OBVIOUS
<1>1. CASE UNCHANGED startVars
  <2>1. UNCHANGED <<objects, recorded, lock, keys, plaintext, issued, settled, starter>>
    BY <1>1 DEF startVars
  <2>2. StartupTypes' /\ RowsChosen' /\ Inserting' = Inserting
    BY <2>1 DEF StartupInv, StartupTypes, RowsChosen, Inserting, Step
  <2>3. SchemaInv' /\ KeyInv'
    BY <2>1 DEF StartupInv, SchemaInv, SchemaRecorded, KeyInv, KeyServes, Initialising, Step, Holders
  <2>4. RowsCounted'
    BY <2>1, <2>2, RowsRest DEF StartupInv
  <2>. QED BY <2>2, <2>3, <2>4 DEF StartupInv
<1>2. ASSUME NEW s \in Starters,
             MigrationStep(s) \/ \E target \in Schemas : BeginMigration(s, target)
      PROVE  StartupInv'
  <2>1. CASE ReleaseMigrationLock(s)
    BY <2>1, RunStops DEF ReleaseMigrationLock
  <2>. QED BY <1>2, <2>1, PlanKeeps, ApplyKeeps, RecordKeeps DEF MigrationStep
<1>3. ASSUME NEW s \in Starters, InitStep(s)
      PROVE  StartupInv'
  BY <1>3, BaselineKeeps, AdminKeeps, FindKeeps, WriteKeeps, PersistKeeps, EndKeepsKey DEF InitStep
<1>4. ASSUME NEW s \in Starters, StarterFails(s) \/ \E target \in Schemas, env \in ApiKey : BeginInit(s, target, env)
      PROVE  StartupInv'
  <2>1. CASE StarterFails(s)
    BY <2>1, RunStops DEF StarterFails
  <2>. QED BY <1>4, <2>1, BeginKeeps
<1>. QED BY <1>1, <1>2, <1>3, <1>4 DEF StartupNext

(* Types, what each run knows, and the rows hold in every reachable state, *)
(* for any number of runs, versions, statements, faults and keys.          *)
THEOREM StartupInvariant == StartupSpec => []StartupInv
BY StartupBegins, StartupSteps, PTL DEF StartupSpec

(* At most one run holds the migration lock, and no run inserts a second   *)
(* key beside its own.                                                     *)
THEOREM StartupTyped == StartupSpec => []StartupTypeOK
<1>1. StartupInv => StartupTypeOK
  <2> SUFFICES ASSUME StartupInv PROVE StartupTypeOK
    OBVIOUS
  <2>1. Cardinality(lock) <= 1
    <3>1. CASE lock = {}
      BY <3>1, FS_EmptySet
    <3>2. ASSUME NEW s \in Starters, lock = {s} PROVE Cardinality(lock) <= 1
      <4>1. Cardinality({s}) = 1
        BY FS_Singleton
      <4>. QED BY <3>2, <4>1
    <3>. QED BY <3>1, <3>2 DEF StartupInv, StartupTypes
  <2>2. DOMAIN keys \subseteq KeyIds
    <3>1. PICK n \in Nat : DOMAIN keys = 1 .. n /\ n + Cardinality(Inserting) <= Cardinality(Starters)
      BY DEF StartupInv, RowsCounted
    <3>2. IsFiniteSet(Inserting)
      BY StartupAssumption, FS_Subset DEF Inserting
    <3>3. Cardinality(Inserting) \in Nat /\ Cardinality(Starters) \in Nat
      BY <3>2, StartupAssumption, FS_CardinalityType
    <3>4. n <= Cardinality(Starters)
      BY <3>1, <3>3
    <3>. QED BY <3>1, <3>3, <3>4 DEF KeyIds
  <2>. QED BY <2>1, <2>2 DEF StartupInv, StartupTypes, StartupTypeOK
<1>. QED BY <1>1, StartupInvariant, PTL

(* A version that is recorded has all the objects that its baseline and    *)
(* the migrations up to it create, wherever runs overlap or stop.          *)
THEOREM RecordedIsBuilt == StartupSpec => []SchemaRecorded
<1>1. StartupInv => SchemaRecorded
  BY DEF StartupInv, SchemaInv
<1>. QED BY <1>1, StartupInvariant, PTL

(* Once an init-db that was alone has ended and no other has begun, the    *)
(* key in the file, or the one in API_KEY, is that of an active row.       *)
THEOREM KeyIsActive == StartupSpec => []KeyServes
<1>1. StartupInv => KeyServes
  BY DEF StartupInv, KeyInv
<1>. QED BY <1>1, StartupInvariant, PTL
=============================================================================
