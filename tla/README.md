# Verification of compdf-self-hosted

TLA+ models of the parts of this repository where order, failure and concurrency decide
whether the program is correct, the TLC configurations that check them on small instances,
and TLAPS proofs of what matters most for instances of any size. Every definition is
translated from the source; `PROJECT.json` maps each one to the lines it stands for.

    tlc -workers 2 -config batch_workers.cfg MCBatchLifecycle.tla   # the runs of PROJECT.json
    tlc -workers 2 -config license_update.cfg MCLicense.tla
    tlc -workers 2 -config updates.cfg MCUpdates.tla
    tlc -workers 2 -config application.cfg MCApplication.tla
    tlapm BatchLifecycleProofs.tla                                  # and the other *Proofs.tla

## 1. The system

The product is a self-hosted PDF service: a NestJS **server** (`server/src`) in front of the
SDK containers, a MySQL database and a storage directory, and a Go **updater**
(`updater/internal`) that replaces licenses and releases from outside the containers. A Vue
dashboard (`frontend/`) and deployment files (`deploy/`, `helm/`) surround them.

| component | state it keeps | operations | how it interacts | what must be right |
|---|---|---|---|---|
| Batch processing (`server/src/batch`) | rows of `batches`, `batch_items`, `batch_item_outputs`, `batch_attempts`; files under `<storage>/batches`; per-instance worker flags | create, upload, commit, cancel, retry, download, claim, process, cleanup | several server instances share the database and the storage; the SDK is called between two transactions | one live attempt per item, a result published once and kept, no row without its file, a status that agrees with the items, cleanup only of what expired, every item settled |
| Asynchronous tasks (`server/src/task`) and runtime mode with its drain (`server/src/runtime`) | rows of `tasks`, `<storage>/<id>.bin`; `runtime-mode.json`, the count of active requests, the smoke capability | admit, create, run, cancel; set mode, snapshot | a task runs fire-and-forget in the process of its request; the guard stands in front of every processing route; the drain reads tables and the counter at two moments | a terminal status is final, maintenance begins when no request is counted and at most a task that the count missed runs |
| Runtime license replacement (`server/src/dashboard/license-update.service.ts`, `updater/internal/licenseupdate`) | `license-update.json` on both sides, the mounted `license.xml` and its backup | start, drain, dispatch, reconcile, recover, replace, restart, restore | HTTP over a unix socket between two processes that both restart | the file matches the recorded outcome, maintenance covers the restart, the two sides agree, an operator can always recover |
| Updater lock (`updater/internal/singlelock`) | a lock file with a token | acquire, take over when stale, release | every updater command and the daemon | one holder at a time, which the code ensures for short commands only |
| Update jobs (`updater/internal/state`, `cli`, `deploy`) | `state.json`, `history/`, `releases/`, cancellation files, `.env`, the services, the schema | download, import, preflight, backup, apply, roll back, cancel, history | commands under the lock, each with its own copy of the job | only legal phase changes; what is recorded is what is installed; there is a backup to return to |
| Update scheduler (`updater/internal/scheduler`) | its round, `automation-status.json` | check, download, prune | a timer beside the commands, partly without the lock | never prunes a release in use |
| Update page (`frontend/.../views/Updates.vue`, `server/src/dashboard`) | the pending operation in the browser, what it last saw of the job | drain, back up, install, roll back, watch, resume | calls the updater through the server that is being replaced | nothing is installed while tasks run; service resumes on one whole release |
| Releases (`updater/internal/release`, `download`, `offline`, `publisher`) | release directories, `.part` files | build, fetch, resume, verify, import | a channel that changes between two requests | what was verified stays, an interrupted download can be completed |
| Backups (`updater/internal/backup`) | `backups/<id>`, hidden partial directories | create, verify | a dump that outlives the lock | a visible backup is whole |
| Schema and installation (`server/src/scripts`) | tables, `schema_migrations`, the API key's file and row | init-db, migrate-db | containers start them again after any failure, sometimes at once | each step once and completed, the key in the file works |
| Accounts (`server/src/auth`) | the user's row, the failure counter in Redis, signed sessions | sign in, change password, sign out, rename, reset | handlers interleave at every await; tokens outlive the row they were signed from | a revoked session stays revoked, a lockout ends |
| Upload page and forms (`UploadPanel.vue`, `ParamForm.vue`, `param-schema.ts`; `server/src/pdf`, `batch`) | the page's rows, the request on its way to the SDK | add, run, poll, cancel, retry; validate and rewrite | the page and the server check the same request twice | the page shows what the server did; other pages than the user chose are never processed |
| Dashboard settings (`brand-settings`, `settings-file-sync`, `update-check` in `server/src/dashboard`) | the row of `system_settings`, its copy in memory, `settings.yml`, manifests in Redis | read, save, apply at the start, check for a release | requests share row, copy and file; the operator edits the file | a restart does not take a save back; the announced release is of the configured address; the operator's settings survive |
| Dashboard statistics, license display, MCP, shared infrastructure, other pages, packaging | logs, statistics | requests and pages | - | single-step operations, I/O and presentation |

Hard behaviours, by component, with their lines, are the `hazards` of `PROJECT.json`.

## 2. What is modelled now: batch processing

| module | role |
|---|---|
| `BatchLifecycle` | the batch subsystem: rows, files, workers, downloads, cleanup |
| `ItemLedger` | the abstract specification: what one item is promised |
| `MCBatchLifecycle` | the instances TLC checks: one batch, symmetric sets |
| `BatchLifecycleProofs` | the inductive invariant, the theorems and the refinement proof |

### State and actions

The rows are variables named after the columns; `leaseExpired` holds the items whose
`lease_until` has passed. The files are four sets: `sources` (`sources/<item>.bin`), `staged`
(`outputs/<item>/<lease>/`), `zips` (`archives/<version>.zip`) and `purged` (batch directories
that a cleanup deleted). `worker[w]` is the batch worker of a server instance: what it polled
or holds and how far `process` has come. `client[c]` is one `batchDownload` request.

| action | code |
|---|---|
| `Create`, `Upload`, `Commit`, `Cancel`, `Retry` | the requests of the same names in `batch.service.ts`, each with the `refreshBatch` that ends its transaction |
| `Poll` | the timer of `batch.worker.ts` and the unlocked candidate query of `claimNext` |
| `ClaimNext`, `ClaimNothing`, `ClaimError` | its transaction: the recheck under the batch lock, the settlement of the attempt that lost the lease, the new lease; or no result; or an exception |
| `ReadSource`, `StageOutput`, `DispatchFails` | `process` up to the SDK's answer and the output files |
| `Publish`, `PublishFenced`, `PublishError` | the publishing transaction: committed (with or without an acknowledgement), fenced off by another lease, or thrown |
| `RecordFailure`, `FailureLost` | the failure transaction and the `finally` block |
| `Crash`, `LeaseExpires` | an instance dies between any two steps; a lease runs out at any time |
| `Snapshot`, `BuildArchive`, `FinishDownload` | the three parts of `batchDownload`, which holds no lock in between |
| `RetentionPasses`, `ListExpired`, `RemoveFiles`, `SkipRemoval`, `RemoveRows`, `RemovalRolledBack` | `cleanupExpired`: the list, the recheck, `rm -r`, the `DELETE` and its failure |

Every writer takes the row lock of its batch first (`claimNext` says so at line 346), so a
transaction without file work is one action. The transaction of `cleanupExpired` deletes
files while it holds the lock; it is two actions, and `removing` is the lock.

Abstractions, each named: `rm -r` of a batch directory is all or nothing; the `rm` of the
`finally` block happens with the step that settled the item (a crash in between leaves a
directory no row points to, as a crash before it does); a failed upload that never reached
the `INSERT` changes nothing; `sequence_no`, `attempt_count`, sizes, names and passwords are
left out; the order in which candidates are offered is nondeterministic; the clock behind a
lease is replaced by `LeaseExpires` at any moment, which includes a Node clock that disagrees
with MySQL's; `expiring` is the union of the lists of all instances. One idempotency key used
by two creates at once is not modelled: the unique key makes the second fail.

### Properties and runs

| property | says | run |
|---|---|---|
| `TypeOK` | types | `batch_workers` |
| `OneLiveAttempt` | an item's attempt in progress is the lease owner, and there is no other | `batch_workers` |
| `PublishedOnce` | an item's successful attempt is the one its output is from, and there is no other | `batch_workers` |
| `FilesKept` | every file a row points to exists until retention deletes its directory | `batch_workers` |
| `StatusAgrees` | `batches.status`, `finished_at` and the counters say what the items say | `batch_workers` |
| `ResultFinal` | a published result stays until its batch is removed | `batch_workers` |
| `CanceledStartsNothing` | a canceled batch only recovers attempts that were in progress | `batch_workers` |
| `PurgeOnlyExpired` | no file a row points to is deleted unless its batch expired and has nothing open | `batch_workers` |
| `ImplementsLedger` | the rows change only as `ItemLedger` allows | `batch_workers` |
| `ArchiveCurrent` | a recorded archive is that of the current results, and exists | `batch_workers` |
| `QueuedItemSettles` | every committed item is settled | `batch_liveness` |
| `EndedBatchRemoved` | every ended batch is deleted in the end, unless a retry reopens it | `batch_liveness` |

Bounds. One batch: batches share nothing but the workers, which `Poll` lets choose any item.
Two items: enough for every mixed outcome (`partial_success`, one item retried while the
other runs). Two instances: a stale worker and the one that took over. Three attempts: an
item claimed, taken over and taken over again, or two items and one takeover. Two downloads,
which may hold snapshots of different versions while both workers publish. `batch_liveness` has one item
and no symmetry, since symmetry is not sound for liveness. `MaxFiles` is 2. The supply of
attempt ids ends in the model and not in the code; the liveness properties excuse the states
where it is used up.

Fairness (`FairSpec`): weak fairness of the poll (a timer that fires for as long as the
instance lives), of every step of `process` (Node runs its continuations, the SDK client has a
timeout), of lease expiry (time passes), of the cleanup's listing (every 24 hours) and of the
walk through its list; strong fairness of the claim and of the final `DELETE`, since a
database that fails them may be asked again and again and does not fail for ever. No client
is obliged to do anything, and a crash is never obliged to happen: it may happen at every
step, as often as it likes.

### Proofs

`BatchLifecycleProofs` proves, for any finite number of items, any sets of batches, attempts,
instances and requests (`BatchAssumption`):

| theorem | conclusion |
|---|---|
| `Invariance` | `Spec => []IInv` |
| `TypeCorrect`, `LeaseExclusive`, `PublishOnce`, `FilesSafe` | `[]TypeOK`, `[]OneLiveAttempt`, `[]PublishedOnce`, `[]FilesKept` |
| `ResultsFinal` | `ResultFinal` |
| `Refinement` | `ImplementsLedger` |
| `StatusTruthful`, `ArchiveFresh` | `[]StatusAgrees`, `[]ArchiveCurrent` |
| `CanceledRests`, `OnlyExpiredPurged` | `CanceledStartsNothing`, `PurgeOnlyExpired` |

None of the properties is inductive alone. `IInv` adds what the code relies on without saying
so: an attempt in progress belongs to the item that names it as lease owner (`LeaseInv`); a
successful item's output is a successful attempt of that item, and an item that is not
successful has none (`ResultInv`); what a worker holds is an attempt that was claimed for that
item, and no two workers hold the same one (`WorkerInv`); the directory of an attempt that may
still be published or was published is on disk (`StagedInv`), which is what makes the deletion
in the `finally` block safe; a batch whose row a cleanup has locked is expired with nothing
open (`CleanupInv`). There is one lemma per group of steps, a lemma for the transaction that
settles an item and one for the claim, and frame lemmas for steps that leave a part alone.
The refinement maps each step to a step of the ledger or to a stutter.

Its second part goes on from `IInv`. `StatusAgrees` is taken batch by batch (`AgreesAt`). The
code counts the items of each status and derives the batch's from the counts, so the proof needs
to know that a count is zero exactly when the set is empty and that the counts of disjoint
statuses add up to the rows (`CountZero`, `CountSplits`, `TotalSplits`); then every action owes
only what it does to the items before the refresh that ends it. `ArchiveCurrent` is not inductive:
what a finished download records depends on what it built and did not lose meanwhile, so the
invariant adds what each download holds. The two action properties follow from `IInv` and
`StatusAgrees`, action by action.

Only model-checked: the liveness properties (fairness is out of the prover's reach).

## 3. What is modelled now: runtime license replacement

| module | role |
|---|---|
| `LicenseManager` | the updater's side: `manager.go`, its journal, its goroutine, its crashes |
| `LicenseUpdate` | end to end: the server's `license-update.service.ts` composed with `LicenseManager` (it extends it), the calls between them, the runtime mode |
| `MCLicense` | the instances TLC checks |
| `LicenseProofs` | the manager's inductive invariant, that of the protocol, and the theorems end to end |

### State and actions

`LicenseManager` has the job in memory (`job`), the job on disk (`journal`), the mounted file
(`file`), what the running application has loaded (`loaded`), the next step of the goroutine
(`work`) and whether `withLock` has lost the updater lock (`lockLost`). `LicenseUpdate` adds
the server's job (`update`), `runtime-mode.json` (`mode`), the three calls the service may be
waiting for (`run`, `query`, `recovery`), and the requests on their way (`posts`, `recovers`).

| action | code |
|---|---|
| `StartAccepted`, `StartNotSaved`, `RecoverAccepted` | `Start` and `Recover` of `manager.go`, by what they answer |
| `Validate`, `BackUp`, `BackUpFails`, `Fail` | `apply` before anything changes |
| `AnnounceReplace`, `Replace`, `AnnounceRestart`, `Restart`, `Succeed` | the rest of `apply`; each `Announce` is a call of `phase` that may fail to save |
| `AnnounceRestore`, `PutBack`, `RestartOld`, `RollBack`, `RestoreFails` | `restore` |
| `LoseLock`, `End` | `withLock`: the failed refresh, and the epilogue that overwrites the phase |
| `CrashUpdater` (`UpdaterCrashes`) | the process dies at any step; `New` reads the journal |
| `BeginStart`, `DrainFails`, `Dispatch`, `ReadAnswer`, `GiveUp` | `start` and `run`, up to each `await` |
| `ReleaseEnded`, `EndInterrupted`, `Ask`, `Tell`, `AskFails`, `Conclude` | `reconcile` |
| `PostRecovery` (and `SendRecovery` in `Conclude`), `HandleRecovery`, `ReadRecovery`, `GiveUpRecovery` | `recover` |
| `HandlePost`, `LosePost` | a POST reaches the updater, however late, or never does |
| `AdminSetsMode`, `CrashServer` | a mode change on the dashboard; the server restarts |

Node runs a handler up to its next `await` alone, so such a stretch is one action; a stretch
that writes two files (the job, then the mode, or the reverse) also has the outcome in which
the process dies between them (`UpdateThenMode`, `Dispatch`).

Abstractions, each named. A request id stands for its upload, because the server draws a fresh
id for each. A repeated POST of one id changes nothing and is not sent by this server. XML and
SDK validation, the container lookup, docker's answers, another holder of the updater lock and
the drain of the tasks are nondeterministic outcomes. `Original` stands for the installed file
or, when there was none, for the environment of the application; removing the file restores
it. A restart that fails, or during which the updater dies, leaves the application with the
old license, with the file's, or stopped. A write of the updater fails as a whole; a write of
the server that throws is not modelled apart from a crash. An administrator's `draining` is
his `maintenance`: both stop new work. One request to recover a given job is on its way at a
time. Audit records are left out.

### Properties and runs

| property | says | run |
|---|---|---|
| `UpdateTypeOK` | types | `license_update` |
| `OutcomeHolds` | a job that ended names the license that is installed and loaded | `license_update` |
| `CrashRestorable` | the journal is ahead of the file: a crash at any step leaves the truth, or what to put back | `license_update` |
| `MaintenanceHeld` | the updater works on a license only while the server is in maintenance for that request, or an administrator took over | `license_update` |
| `EndIsTrue` | the outcome the server shows is the one the application runs with | `license_update` |
| `UpdateEnds` | the server learns how a request ended, or that it needs recovery | `license_liveness` |
| `MaintenanceReleased` | once a request has ended, its maintenance is released | `license_liveness` |

Three runs end in a violation; they are the `findings` of `PROJECT.json`.

| run | property | what TLC finds |
|---|---|---|
| `license_refused` | `RefusedForCause` | a `Start` whose journal cannot be saved leaves `VALIDATING` without any work: every later upload is refused until the updater is restarted |
| `license_recovery` | `RecoveryRecorded` | a validation whose result cannot be saved, or that lost the lock, asks for a recovery that compares the container with the empty string and can never succeed |
| `license_withdrawn` | `RecoveryKeepsMaintenance` | `withLock` turns a job that ended, and for which the server has left maintenance, into one that requires recovery, which the server then refuses |

Excuses, each a definition or a history variable of the model. `withdrawn` is the third finding:
`MaintenanceHeld` is asked of jobs it has not happened to. `misfiled` is a hazard without a
finding: `recover()` saves the answer it awaited without comparing its request id (line 118),
so an answer that is delayed past the end of the recovery overwrites the job of a newer
request; `MaintenanceHeld` and `EndIsTrue` are asked of histories without it. `Unheard` is the
state in which the server fails closed by intention (the comment at line 135). `Stranded` is
the first finding.

Bounds. `license_update` has three requests: with the late answer above it takes two to
misfile a job and a third to break maintenance, so two would have hidden the case. Everything
else is unbounded: crashes, lost locks, lost answers and mode changes occur as often as they
like. The finding runs need two requests at most. `license_liveness` has one request, without
symmetry: a request that is not the updater's own falls under `Unheard`.

Fairness (`FairSpec`): weak fairness of the goroutine, of the end of the drain (it times out
after 60 s), of the end of a call (the client gives up after 30 s) and of the reconcile timer;
strong fairness of the answer to `GET /v1/license` and of its use, since a query that is
repeated every two seconds is not lost for ever. No POST is obliged to arrive, no
administrator to act, and crashes are never obliged to stop.

### Proofs

`LicenseProofs` proves, for any set of requests (`LicenseAssumption`):

| theorem | conclusion |
|---|---|
| `ManagerInvariance` | `ManagerSpec => []ManagerInv` |
| `UpdaterImplements` | `Spec => ManagerSpec` |
| `OutcomeTrue`, `JournalAhead` | `Spec => []OutcomeHolds`, `Spec => []CrashRestorable` |
| `UpdateInvariance`, `UpdateTyped` | `Spec => []SystemInv`, `Spec => []UpdateTypeOK` |
| `MaintenanceKept`, `ShownIsTrue` | `Spec => []MaintenanceHeld`, `Spec => []EndIsTrue` |

Neither outcome is inductive: both speak of the moment a job has ended or a crash occurs.
`ManagerInv` says what holds in between: what each phase on disk implies about the file
(`JournalInv`), that job and journal agree while the file is being replaced or put back
(`ReplaceInv`, `RestoreInv`), that they may disagree, and how, around a phase that could not
be saved (`ValidateInv`, `EndInv`). The invariant is proved of the manager alone;
`UpdaterImplements` shows that the server, the messages and the crashes make the updater take
no other step, which carries both results to the whole protocol.

`MaintenanceHeld` and `EndIsTrue` relate the two sides and the messages between them. Their
invariant is `SystemInv == TypeInv /\ (~misfiled => ServerInv)`: the types, the manager's
invariant and what the goroutine leaves behind (`IdleInv`) hold always; what the server relies on
holds until it files an answer under another request, which is the hazard named above and ends
the argument, as it ends the promise. `ServerInv` says what each process and each message knows of
a request: one that is on its way or being drained is unknown to the updater (`FreshInv`) and is
covered by maintenance (`PostInv`); recovery is only asked for a job that goes forward no more
(`RecoverInv`); a job that has not ended is the one the server shows, with maintenance held
(`ActiveInv`); a shown failure is of a license that is nowhere installed and cannot be any more
(`Discarded`), a shown success of one that no message undoes (`Installed`, `OutcomeInv`).

Only model-checked: the liveness properties.

## 4. What is modelled now: product updates

| module | role |
|---|---|
| `UpdaterLock` | `updater.lock`: exclusive creation, aging, take-over, release, each file operation a step |
| `UpdateJob` | the job in `state.json`, the commands that move it, what they do to the installation; extends the lock |
| `UpdateAutomation` | the scheduler's rounds and the pruning of releases, beside the commands |
| `UpdatePage` | the whole composition: the dashboard's page, the runtime mode, the requests on their way, the updater |
| `MCUpdates` | the instance TLC checks |
| `UpdateProofs` | the inductive invariant of the job and the installation, for the whole composition |
| `UpdateTypeProofs` | the types of the whole composition, also for commands that overlap; when the lock excludes |

### State and actions

A release is its version. `job` is `state.json`, `mem[p]` the copy the command `p` works on and
`pc[p]` how far it has come; `env`, `current`, `app`, `server` and `schema` are what the
installation consists of: `.env`, `current/release.json`, the two services and the database.
Every command is cut wherever it saves the job or changes the installation, and the updater may
die in each gap (`UpdaterCrash`, and the `Die` outcomes of steps that save twice). Such a step is
`Prepare`: it archives the ended job, saves the new one and saves that as downloading. After a
crash behind the first of the three, the ended job is in the history and still in `state.json`,
and every later download or import is refused, because it would archive it again
(`state/store.go:74`); no outcome becomes false, so this is a hazard without a property.
`FailApply` may leave `release.json` replaced and its signature not (`apply.go` 267-270).

| action | code |
|---|---|
| `Acquire`, `FindStale`, `RenameAway`, `AcquireFails`, `BeginRelease`, `Remove`, `LockAges` | `lock.go`; no command calls `Refresh` |
| `BeginDownload`, `FetchArtifacts`, `PullImages`, `PauseDownload`, `FailDownload`, `Cancel` | `cli/download.go` with `prepareDownloadJob` (`Prepare`) |
| `ImportRelease`, `BeginImport`, `LoadImages` | `cli/import.go`, `offline` |
| `Preflight`, `BeginBackup`, `TakeBackup`, `FailBackup` | `cli/preflight.go`, `cli/backup.go` |
| `BeginApply`, `Drain`, `StartMigration`, `Migrate`, `ActivateApp`, `ActivateServer`, `CommitEnvironment`, `PersistCurrentRelease`, `CommitJob`, `FailApply` | `cli/apply.go` and the deploy executor |
| `BeginRollback`, `RestoreApp`, `RestoreServer`, `RestoreEnvironment`, `RecordRollback`, `RollbackFails`, `ReadHistory` | `cli/rollback.go`, `cli/status.go` |
| `AutoCheck`, `AutoEnter`, `AutoDownload`, `PruneRead`, `PruneRemove`, `RoundFails` | `scheduler.go` |
| `BeginInstall` ... `ResumeNormal`, `Reload` | the functions of `Updates.vue` that `map` names |
| `Post`, `Serve`, `Reject`, `OtherCommands` | the server's routes and its client of the updater; a post names its request, and `apply.go`, `rollback.go` and `cli/backup.go` refuse one that is not the job's |

`Transition` and `CanTransition` are `state.go`'s, `ResumePhase` included.

### Properties, runs, bounds

| property | says | run |
|---|---|---|
| `UpdatesTypeOK` | types | `updates` |
| `InstallationAgrees` | a COMMITTED or ROLLED_BACK job is what is installed | `updates` |
| `Recoverable` | from the first change on, and while services of two releases run, the job names a backup and no service is of a third release | `updates` |
| `ReopensWhole` | the page puts the server back to normal on one whole release that no command is changing | `updates` |
| `QuietInstall` | no installation runs while tasks do; **violated** | `updates_quiet` |

`updates_quiet` is a finding. The page confirms "new work is blocked and active tasks are
drained" with every install it sends. A page that gave up after fifteen minutes no longer
covers the button that resumes normal service, and its *Try again* repeats the request without
draining.

The composition with everything at once is out of reach, so a behaviour of `updates` chooses its
`scope`: `"page"` is the whole composition for one request; `"requests"` is the page with two
requests, so that a backup, an install or a rollback that was posted for the first may arrive
during the second, with the scheduler, cancellations and tasks at work left out; `"commands"` is
two requests and the scheduler without the page. `"requests"` keeps to `OneJobEach`: a request id
begins one job. The page makes its ids of the time and a random number; the scheduler's
`automatic-<version>` does come back when a version is downloaded again after its rollback and a
job of another id, and of that case `ReopensWhole` says nothing. There are two releases, so that every
update is one from the first to the second, again and again after a rollback; `UpdateProofs`
covers any number of them. `AgedWhenDead` leaves out the aging of a lock whose owner is alive:
with one process it changes nothing but the variable. One process: two at once break every
invariant of the job as soon as the lock lets both in (the hazard at `lock.go:63`); when it does
is below. The run has 2.2 million states; in one of its mutants the updater serves a post
whatever its request, and `ReopensWhole` is violated.
Crashes, cancellations, lost requests and reloads are not bounded. The system may stop, so
deadlock is not checked.

### Proofs

`UpdateProofs` proves, of `UpdatesSpec` (page, server, scheduler, commands, crashes), for any
number of releases, requests and processes:

| theorem | conclusion |
|---|---|
| `UpdateInvariant` | `UpdatesSpec /\ []Alone => []UpdateInv` |
| `InstallationTrue` | `UpdatesSpec /\ []Alone => []InstallationAgrees` |
| `AlwaysRecoverable` | `UpdatesSpec /\ []Alone => []Recoverable` |
| `ReopenedWhole` | `UpdatesSpec /\ []Alone /\ [][OneJobEach]_updateVars => ReopensWhole` |
| `UpdatesTyped` (`UpdateTypeProofs`) | `UpdatesSpec => []UpdatesTypeOK` |
| `LockExcludes` (`UpdateTypeProofs`) | `UpdatesSpec /\ []Fresh /\ []OneTakeover => [](OneHolder /\ Alone)` |

`Alone` says that no two processes are inside a command. With it a second process may wait, take
the stale lock of a dead command, die at any point and start again. `Alone` is what the lock is
for, and `LockExcludes` says when the lock achieves it: while no command outlives the five
minutes of its lock (`Fresh`), and no two processes that have seen the same stale file are both
about to rename it (`OneTakeover`). The code ensures neither: a backup or an installation has
time-outs of thirty minutes, and an installation with a migration outlives five minutes easily.
`LockExcludes` is therefore a statement about the lock alone, what it takes to exclude; the
theorems about jobs have `Alone` as a premise and are not combined with it into one that would
read as if the code had it. Both premises are needed. Nobody
refreshes a lock, so without `Fresh` a waiting process takes over that of a live command. And
`Acquire` decides on the age of the file it has looked at, then renames whatever is at the path:
of two processes that find the stale lock of a dead updater, one renames it and creates its own,
then the other renames that fresh lock and creates its own too, and both are inside. No run has
two processes; these two ways are the hazard at `lock.go:63`, and the theorem says that there is
no third. With one process, as in `updates`, `OneTakeover` is trivially true, and `Fresh` is what
`AgedWhenDead` says there. The argument is `LockInv`: a command runs only inside the lock, the
file's token is that of the process inside, and what a process is about to rename is a stale file
that is still there. Every step of the composition is one of few moves of the lock (`AllMove`),
and each of those keeps `LockInv` (`LockMoveKeeps`).

Neither property is inductive. `UpdateInv` adds: the copy of a running command is the job on
disk (`CommandInv`, this is where `Alone` is needed); the phase a command has saved at each
place, and what of the installation is already of the target or of the backup there
(`PlaceInv`); and what each phase on disk, or the phase that a failed or paused job resumes,
says about the installation when the command that saved it has died (`DiskInv`). Every command
ends in `EndKeeps` or goes on in `MoveKeeps`, so each action owes only its `DiskInv` and
`PlaceInv`.

`UpdatesTyped` needs no `Alone`. A command saves its own copy whole, so the types hold while two
commands run; what makes them inductive is that the copy of a command says in which phase the
command is (`At`), since a rollback may only begin with a backup.

`ReopenedWhole` is about the page, which reads the job once and does not look again before it
reopens the server (`recoverPendingOperation` in `Updates.vue`). When it reads that its operation
succeeded, `UpdateInv` gives one whole release with no command at work (`SucceededRests`). Until it
reopens, a post of an earlier update may still arrive. `AskedInv` says what the posts on their way
are: each is for a job that the page has seen. `ReopenInv` says of a reopening page that none of
them can be served: its own job is COMMITTED or ROLLED_BACK, so that an install, which needs
BACKED_UP, is refused, and a rollback was not asked for while the installation was pending; a job
that has taken its place is one for which no post is on its way. The premise `OneJobEach` makes
"another request" mean another job. What someone else begins in between, a download or a check,
changes neither services nor `.env`.

## 5. What is modelled now: tasks, accounts, startup, releases, backups, pages

`MCApplication` extends eight components that share nothing. Each behaviour of the run
`application` is one of them (`part`), the others stay as they began; this is one run instead
of eight, with the state space the sum of theirs. `OneFair` and `OtherFair` are the fairness of
whichever component runs: of the components with fairness each has one condition, the upload
page two.

| module | models | properties |
|---|---|---|
| `TaskDrain` | the guard that admits requests, the rows and runs of tasks, cancel, restart, the mode, the drain's two-step snapshot, the smoke capability | `DrainedOnce`, `ResultsKept`, `TasksEnd` |
| `Accounts` | sign-in with its counter of failures, sessions and their version, password change, sign-out, rename, reset, each cut at its awaits | `SessionsProved`, `LockEnds` |
| `ServerStartup` | overlapping and interrupted runs of init-db and migrate-db, the advisory lock, the schema's baseline, the API key in file and row | `SchemaRecorded`, `KeyServes` |
| `UploadPanel` | the page's rows against the batch on the server, with refused calls and lost answers | `ResultsShown`, `RunsEnd` |
| `RequestForm` | what a form accepts, the request it composes, what the server checks on each road and hands to the SDK | `FormAccepted`, `MeantIsSent` |
| `ReleaseRules` | version order, manifest validation, compatibility, signatures and bundles, as operators | used by `ReleaseDownload` |
| `ReleaseDownload` | build, republication, download with partial files, resumption, verification, import | `VerifiedStays`; `DownloadCompletes` is **violated** in `release_resume` |
| `BackupStore` | the backup directory while commands overlap, fail and die | `BackupsWhole` |
| `ServerSettings` | the row of settings with its cache, `settings.yml` between saves, edits and restarts, the manifests that Redis keeps for the release check | `FileAgrees`, `FeedShown`; `OperatorKeysKept` is **violated** in `settings_operator` |

What they say, where the name does not:

- `DrainedOnce`: one drained snapshot precedes an installation or a license replacement. The page
  tests it once (`Updates.vue:272`), `waitForDrain` returns at the first one
  (`task-drain.service.ts:65`), and the updater takes none, it is only told
  `--maintenance-confirmed`. After it, and as long as normal mode is not resumed, no request is
  counted, and a task that is live was inserted between the two halves of that snapshot: rows are
  counted before the requests in memory, and a request may insert its row and end in between. Such
  a task does run on into maintenance (a hazard of `PROJECT.json`); the property says that it is
  the only kind that does.
- `ResultsKept`: a task that succeeded has its result on disk, and nothing takes a final status
  back. `TasksEnd`: every accepted task ends unless a call fails or the server stops; nothing in
  the code takes such a row up again, so it does not cover that hazard.
- `SessionsProved`: a session the guard lets through was opened with the password that is valid
  now. A sign-in signs the version it read with the password's hash, not the one at signing.
- `LockEnds`: an account that is locked opens again. INCR and EXPIRE are two calls; the property
  excuses the loss of the second, a hazard that no property covers.
- `SchemaRecorded`: a recorded version has all its objects, whoever was interrupted.
- `KeyServes`: after an init-db that ran alone, the key that the server hands to its pages, from
  `API_KEY` or the file, is that of an active row. While runs overlap nothing is claimed, and
  nothing of an `API_KEY` with blanks around it (`PaddedSecret`): init-db hashes it as it is
  (`init-db.ts:221`), the server trims it (`api-key.service.ts:44`), and the two are not one key.
- `ResultsShown`: a page that shows results shows the end of every file, and what it shows of an
  item is what the server has. A cancel is the exception, and the property names it
  (`LeftProcessing`): it ends the batch at once while workers go on with what they have begun
  (`batch.service.ts` 259-267; `refreshBatch` leaves a canceled batch as it is, 553), so the
  page's poll ends with those rows at `processing` (`UploadPanel.vue:294`) and does not ask again.
  `RunsEnd`: the page never stays busy.
- `FormAccepted`: a form that may be started is not refused, and passes the checks of the
  synchronous road also on the batch's, where only the page looked.
- `MeantIsSent`: pages typed like the field's example, `1,2,3-5`, reach the SDK as those pages;
  typed in any other way they never become other pages; presets keep their name, and parts cover
  the document. The second clause is as much as the code gives. The fields of `delete`, `rotate` and
  `watermark/remove` are sent as text; the page's own parser of such a text, `parsePages`, also
  takes the wide commas `、` and `，` (`batch-files.ts:45`), the server's `toPageNumbers` divides at
  `,` and `;` and drops what is no number (`pdf-sdk.client.ts:493`), so that `1、3` arrives as an
  empty list and `1、3,5` as page 5. `watermark/remove` takes a
  blank field and `all` to the letter (458-468), the other tools trimmed and in any case (477).
  `Typing` is the ways of typing that the two parsers tell apart; `Divided`, `ToPageNumbers` and
  `MeansAll` are the server's reading.
- `VerifiedStays`: a verified directory stays what its publisher signed, whatever the channel
  serves later. `BackupsWhole`: a visible backup is complete and a BACKED_UP job names one.
- `FileAgrees`: after a save the row is what `settings.yml` makes of it, so that the next start,
  at which the file wins, changes nothing. A save updates the row, empties the cache, reads the
  row back and writes the file, and other requests fill the cache in between. `apart` is a
  history variable: it excuses an edit of the file, a refused call or write, and two saves that
  overlap. The last is a gap of the code: nothing orders their reads and writes, so the file may
  end with the older row (a hazard of `PROJECT.json`).
- `FeedShown`: a manifest that Redis still holds is shown only for the address it came from.

`release_resume` is a finding: a partial file that is already complete makes every further
attempt ask for an empty range, which a server answers with 416.

`settings_operator` is a finding: a save on the dashboard writes four sections of `settings.yml`
and drops the others. A release check that the operator switched off in `updates` runs again
after the next restart; the comment above the code says that such keys are preserved.

Abstractions of `ServerSettings`, each named: a column stands for every field that both the page
and the file set; `logo_path`, which the file does not hold, the avatar and the defaults for a
missing row are left out; `updates` is one value, an address or `"off"`; a manifest is the address
it came from, and one that expires by its own date is one that Redis drops; checks that overlap
store the same manifest and are one action; an unreadable file is a missing one.

Bounds. Tasks: one task, one direct request, one smoke, one fault. Accounts: two callers, two
passwords, one change of the version, a threshold of two and one failure beyond it. Startup: two
runs, two versions of two statements, one fault, `API_KEY` set trimmed or unset, four secrets (with
the padded `API_KEY` too the run takes twice as long; `KeyIsActive` covers both). Page: two files,
two lost calls. Download: two publishers' keys of which one is trusted, four releases of one
version, one interruption. Backups: two commands, two seconds. Forms: each limit from both sides (a
page beyond the largest too), every way of typing, documents of one to seven pages. Settings: two
requests, two values of one field (two fields in `settings_operator`), two addresses, one edit and
one fault; saves, restarts and expiries occur as often as they like. The counters `faults`, `lost`,
`failures`, `second` and the versions are bounded by the constants that say so; the proofs hold for
any value of them. A finished page, an exhausted download and a sent form have nothing left to do,
so deadlock is not checked.

Fairness. Node resumes every pending promise (`TaskFairness`, `AccountsFairness`), Redis drops a
key whose time is up, the browser resumes a page's calls and the server works a batch off
(`PanelFairness`). No user is obliged to act. `ResumeSpec` has a scheduler that tries again and
a network that works.

### Proofs

| module | theorem | conclusion |
|---|---|---|
| `ServerProofs` | `TasksInvariant`, `TasksTyped`, `DrainSound`, `ResultsFinal` | `[]TaskInv`, `[]TaskDrainTypeOK`, `[]DrainedOnce`, `ResultsKept`, for any finite sets of requests |
| `ServerProofs` | `SessionsSound`, `AccountsTyped` | `[]SessionsProved`, `[]AccountsTypeOK`, for any callers and passwords |
| `ServerProofs` | `SettingsInvariant`, `SettingsTyped`, `SavesSurvive`, `FeedSound` | `[]SettingsInv`, `[]SettingsTypeOK`, `[]FileAgrees`, `[]FeedShown`, for any requests, fields and addresses |
| `ServerProofs` | `StartupInvariant`, `StartupTyped` | `[]StartupInv`, `[]StartupTypeOK`, for any finite set of runs |
| `ServerProofs` | `RecordedIsBuilt`, `KeyIsActive` | `[]SchemaRecorded`, `[]KeyServes`, for any number of versions and statements |
| `ReleaseProofs` | `BackupsSound` | `[]BackupsWhole`, for any number of commands |
| `ReleaseProofs` | `DownloadInvariant`, `VerifiedKept`, `PartialsBounded` | `[]DownloadInv`, `[]VerifiedStays`, `[]DownloadTypeOK`, for any releases, keys and contents |
| `PageProofs` | `PanelInvariant`, `PanelTyped`, `ResultsTrue` | `[](PanelInv /\ MergeAlone)`, `[]PanelTypeOK`, `[]ResultsShown`, for any files and any number of lost calls |
| `PageProofs` | `FormInvariant`, `FormSound`, `MeaningKept` | `[]FormInv`, `[]FormAccepted`, `[]MeantIsSent`, for any forms of the given shapes and documents of any size |
| `ApplicationProofs` | `PartsKept` | `ApplicationSpec` implements the specification of each component but the form's |
| `ApplicationProofs` | `ApplicationTyped`, `ApplicationSafe` | `[]ApplicationTypeOK` and every other invariant of the run, of `ApplicationSpec` |

The theorems are of the components' own specifications (`TaskDrainSpec`, `StartupSpec`, ...).
`ApplicationProofs` carries them over to the composition that the run `application` checks: a step
of it is a step of the component that runs and leaves the others as they are (`PartsStep`), so
each behaviour is one of every component, for any constants. The form is treated apart
(`FormTurn`), because a form that is not being filled need not be one of `Forms`.

*Tasks.* `DrainInv` carries the argument of the drain: a snapshot that was begun outside normal mode
stays good until that mode is resumed, since no request is admitted; a row that is live although the
first half counted none was inserted since (`drain.late`), and once the second half counts no
request nothing inserts another. It rests on `CountedTasks`: a request that creates a task is a
counted one (`TaskAssumption` keeps the updater's smoke requests apart). `TasksTyped` adds that a
snapshot counts no more rows than there are tasks.

*Accounts.* `VersionInv` says of everything a caller has read or a token holds that it is no newer
than the row and agrees with it when it is as old; every change of the password raises the version.
`AccountsTyped` adds the bounds of the counters (`AccountsAssumption`: the model's bounds are
numbers).

*Settings.* `RowKept` says that what a save has read is still the row when it writes the file, if
no other save has begun; applying a file to the row it was written from changes nothing
(`ItselfOver`). `KeysKept` says that each key in Redis holds what came from its address.
`SettingsAssumption` is that the default address is an address.

*Backups.* `ManifestLast` and `RenamedStays` say that the manifest is written after everything else
and that nothing removes a visible backup.

*Releases.* Once a directory is verified, `WriteMetadata` lets no other bundle pass than the one
that is there, so what a later download holds is what was verified (`HeldInv`), every artifact it
names is already valid, and none is requested again: a directory that is being received was not
verified yet. `DownloadAssumption` says of what publishers sign that no artifact is named
`release.json` or `release.json.sig`. The code does not check this (`manifest.go` 280-288 looks at
the pattern only, and `publisher.go` writes the manifest over such an artifact); such a release,
imported and then downloaded, would have its manifest replaced by the artifact.
`PartialsBounded` says that a partial file never has more than one chunk beyond what the signed
manifest declares, whatever the channel serves and however often the download is resumed: what is
held while artifacts are missing is a published bundle, and a file of that name in the directory is
the partial one and nothing else (`PartialInv`). `PartialAssumption` is what the latter needs: no
published artifact, nor the metadata, has the name of another's partial file (and sizes are
numbers). The code derives that name by appending `.part` to the path and does not check for the
collision either.

*Startup.* `StartupInv` rests on what only grows: objects are never dropped and versions never
unrecorded, so what a run has made or read stays true whatever the others do (`SchemaKnown`), and
a run that dies takes nothing with it. The key is another matter, since rows are deactivated and
the file is replaced: `KeyInv` promises something only of a run that is alone (`KeyKnown`), and no
run is beside one that is. `RowsCounted` counts the rows against the runs that still may insert
one. `StartupAssumption` is that there are finitely many runs and that the bounds are numbers.

*Upload page.* `ResultsShown` is a promise about the moment the page stops; `PanelInv` says what
holds on the way: what the flags say of each other (`FlagsAgree`), and at each place of the loops
what is known of the rows they have reached and of those they have not (`RowsAgree`). A row that has
an item is followed on the server or was left processing by a cancel, any other has its end. A page
that reads the batch as ended has just applied it, and an item that has ended changes only by a
retry, which the page must be at work to ask for. A merge is the one loop that leaves rows untouched
when fewer than two inputs are left, hence `MergeAlone`.

*Forms.* `FormAssumption` says which fields a form of each tool has and what is in them: page
selections of any length, numbers of any size, blank or not. The theorem `FormSound` compares, per
tool, the bounds of the page with those of the server (`PageAsStrict`), through the rewritings in
between: the scaling computed from a resolution, the digits of a colour's opacity, an offset that
is left out. `MeaningKept` needs two things. `PagesAsTyped` and `DividedOrDropped` compare the two
parsers: the example's typing divides alike, and what another typing leaves undivided is dropped. And it
needs the cut of a document. `SplitRanges` adds up the sizes of the parts
in a recursive function, and no backend can apply the library's induction; `SplitClosed` shows
instead that it equals its closed form `Done`, because otherwise there would be a least part at
which they differ (`Least`, from the well-foundedness of inclusion on finite sets) and the
recursion gives that part the value of the closed form. `DoneGrows` is the arithmetic: no part is
empty, and the last one ends with the document.

Only model-checked: the liveness properties (fairness is out of the prover's reach).

## 6. Not modelled

The dashboard's statistics, logs and uploads of logo and avatar, the license token's display (a
function of its input, and cryptography), the MCP adapters, wiring, error mapping and static files,
the other pages, the updater's configuration and diagnostics, packaging. Of the components that
`PROJECT.json` calls *partly* modelled: API-key requests and audit records; checksum comparison of
migrations and the restoring of avatar paths; downloads of results and the layout of the page; the
SDK's answers and office conversion's options; preflight, health and smoke probes, which are
outcomes; docker and mysqldump, which are outcomes too; `ApplyRetention`, which nothing calls
outside its tests.

## 7. Plan

1. API-key requests beside the revocation of keys; checksum comparison in `migrate-db`.
2. Proofs: that the page's own ids begin one job each, so that `ReopenedWhole` needs `OneJobEach`
   of the scheduler's only; the license manager's run as an implementation of an abstract
   replacement.
3. The order of two saves of the settings that overlap, once the code has one.
4. Two tasks and two files more in `application`, where the state space allows it.
