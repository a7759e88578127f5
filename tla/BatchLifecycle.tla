--------------------------- MODULE BatchLifecycle ---------------------------
(***************************************************************************)
(* The batch subsystem of the server: BatchService, the BatchWorker of     *)
(* every server instance, BatchCleanup and the clients that call           *)
(* BatchController.  The database rows (tables batches, batch_items,       *)
(* batch_item_outputs, batch_attempts) and the files under                 *)
(* <storageDir>/batches are separate state: a transaction changes the rows *)
(* atomically, a file operation is a step of its own, and a process can    *)
(* die between any two steps.                                              *)
(*                                                                         *)
(* Every writer locks the parent row of its batch (SELECT ... FOR UPDATE)  *)
(* before it touches anything else, so a transaction without file work in  *)
(* it is one action.  The transaction of cleanupExpired deletes files      *)
(* while it holds the lock: it is two actions, and `removing` is the set   *)
(* of batches whose row it has locked meanwhile.                           *)
(*                                                                         *)
(* The lease clock is abstract: a lease may be seen expired by a claimer   *)
(* at any moment after it was granted, which covers slow workers, dead     *)
(* workers and a Node clock that disagrees with the clock of MySQL.        *)
(***************************************************************************)
EXTENDS Naturals, FiniteSets

CONSTANTS
  Batch,       \* batch ids
  Item,        \* item ids: the UUIDs upload() may draw
  Attempt,     \* attempt ids: the UUIDs claimNext() may draw as lease owner
  Worker,      \* the batch worker of each server instance
  Client,      \* requests that download the archive of a batch
  BatchOf,     \* the batch an item id is uploaded to
  MaxFiles,    \* batch.maxFiles
  NoItem, NoAttempt, NoBatch   \* NULL in a column of that kind

ASSUME BatchAssumption ==
  /\ BatchOf \in [Item -> Batch]
  /\ IsFiniteSet(Item)
  /\ MaxFiles \in Nat \ {0}
  /\ NoItem \notin Item /\ NoAttempt \notin Attempt /\ NoBatch \notin Batch

VARIABLES
  batchStatus,   \* batches.status; "absent" before create, "removed" once deleted
  finished,      \* batches.finished_at: null, recent, or older than the retention
  tally,         \* the *_count columns of batches
  archive,       \* batches.archive_path: the version of the recorded archive;
                 \* {} is NULL, since an archive of no results is never built
  itemStatus,    \* batch_items.status; "absent" when there is no row
  leaseOwner,    \* batch_items.lease_owner
  leaseExpired,  \* the items whose lease_until is in the past
  output,        \* batch_items.output_path and its batch_item_outputs rows
  attemptStatus, \* batch_attempts.status; "unused" before, "deleted" after
  attemptOf,     \* batch_attempts.item_id
  sources,       \* items whose source file is on disk
  staged,        \* attempts whose output directory is on disk
  zips,          \* versions whose archive file is on disk
  purged,        \* batches whose directory a cleanup has deleted
  worker,        \* BatchWorker and BatchService.process, per instance
  client,        \* BatchService.batchDownload, per request
  expiring,      \* batches listed by a cleanup and not yet looked at
  removing       \* batches locked by a cleanup transaction

batchRow == <<batchStatus, finished, tally>>
itemRow  == <<itemStatus, leaseOwner, leaseExpired, output>>
attempts == <<attemptStatus, attemptOf>>
files    == <<sources, staged, zips, purged>>
cleanup  == <<expiring, removing>>
vars == <<batchRow, archive, itemRow, attempts, files, worker, client, cleanup>>

Open         == {"queued", "processing"}
Downloadable == {"success", "partial_success", "failed"}
Terminal     == Downloadable \cup {"canceled"}
BatchStatus  == {"absent", "draft", "removed"} \cup Open \cup Terminal
ItemStatus   == {"absent", "uploaded", "queued", "processing", "success", "failed", "canceled"}
Counted      == {"queued", "processing", "success", "failed", "canceled"}
Busy         == {"claimed", "dispatching", "staged", "failing", "uncertain"}

ItemsOf(b) == {i \in Item : BatchOf[i] = b}
In(its, b, statuses) == {i \in ItemsOf(b) : its[i] \in statuses}
Rows(its, b) == In(its, b, ItemStatus \ {"absent"})
RowExists(b) == batchStatus[b] \notin {"absent", "removed"}
Unlocked(b) == b \notin removing
UnusedAttempts == {a \in Attempt : attemptStatus[a] = "unused"}

(* What the version hash of archiveSnapshot() identifies: the successful   *)
(* items of a batch, each with the attempt that produced its output.       *)
Version(b) == {<<i, output[i]>> : i \in In(itemStatus, b, {"success"})}

Idle == [pc |-> "idle", item |-> NoItem, attempt |-> NoAttempt]
Polled(i) == [pc |-> "polled", item |-> i, attempt |-> NoAttempt]
Holding(pc, i, a) == [pc |-> pc, item |-> i, attempt |-> a]
NoRequest == [pc |-> "idle", batch |-> NoBatch, version |-> {}]
Request(pc, b, v) == [pc |-> pc, batch |-> b, version |-> v]

Init ==
  /\ batchStatus = [b \in Batch |-> "absent"]
  /\ finished = [b \in Batch |-> "null"]
  /\ tally = [b \in Batch |-> [s \in Counted |-> 0]]
  /\ archive = [b \in Batch |-> {}]
  /\ itemStatus = [i \in Item |-> "absent"]
  /\ leaseOwner = [i \in Item |-> NoAttempt]
  /\ leaseExpired = {}
  /\ output = [i \in Item |-> NoAttempt]
  /\ attemptStatus = [a \in Attempt |-> "unused"]
  /\ attemptOf = [a \in Attempt |-> NoItem]
  /\ sources = {} /\ staged = {} /\ zips = {} /\ purged = {}
  /\ worker = [w \in Worker |-> Idle]
  /\ client = [c \in Client |-> NoRequest]
  /\ expiring = {} /\ removing = {}

-----------------------------------------------------------------------------
(* refreshBatch(): recount the items, then derive status and finished_at.  *)

Tally(its, b) == [s \in Counted |-> Cardinality(In(its, b, {s}))]
Total(its, b) == Cardinality(Rows(its, b))

(* Mutant: canceled items do not count as ended. *)
IsTerminalNotCanceled(t, total) ==
  /\ t["queued"] = 0 /\ t["processing"] = 0
  /\ t["success"] + t["failed"] = total

IsTerminal(t, total) ==
  /\ t["queued"] = 0 /\ t["processing"] = 0
  /\ t["success"] + t["failed"] + t["canceled"] = total

DerivedStatus(t, total) ==
  CASE IsTerminal(t, total) /\ t["success"] = total -> "success"
    [] IsTerminal(t, total) /\ t["success"] # total /\ t["success"] > 0 -> "partial_success"
    [] IsTerminal(t, total) /\ t["success"] # total /\ t["success"] = 0 -> "failed"
    [] ~IsTerminal(t, total) /\ t["processing"] > 0 -> "processing"
    [] OTHER -> "queued"

(* The early return of refreshBatch: the status is left as it is.          *)
KeepsStatus(st, its, b) ==
  \/ st = "canceled"
  \/ Total(its, b) = 0
  \/ st = "draft" /\ In(its, b, {"uploaded"}) # {}

(* The refresh that ends a transaction which has set the items to its and  *)
(* the status and finished_at of batch b to st and fin.                    *)
RefreshBatch(b, its, st, fin) ==
  LET t  == Tally(its, b)
      ns == IF KeepsStatus(st, its, b) THEN st ELSE DerivedStatus(t, Total(its, b))
      nf == IF KeepsStatus(st, its, b) THEN fin
            ELSE IF ns \notin Downloadable THEN "null"
            ELSE IF fin = "null" THEN "recent" ELSE fin
  IN  /\ itemStatus' = its
      /\ tally' = [tally EXCEPT ![b] = t]
      /\ batchStatus' = [batchStatus EXCEPT ![b] = ns]
      /\ finished' = [finished EXCEPT ![b] = nf]

-----------------------------------------------------------------------------
(* The operations of BatchController.                                      *)

Create(b) ==
  /\ batchStatus[b] = "absent"
  /\ batchStatus' = [batchStatus EXCEPT ![b] = "draft"]
  /\ UNCHANGED <<finished, tally, archive, itemRow, attempts, files, worker, client, cleanup>>

(* upload() writes the source file inside the transaction, before the      *)
(* INSERT.  Once the INSERT was attempted the file stays, whether the      *)
(* transaction committed (its acknowledgement may be lost) or rolled back. *)
Upload(i) ==
  LET b == BatchOf[i] IN
  /\ batchStatus[b] = "draft" /\ Unlocked(b)
  /\ itemStatus[i] = "absent" /\ i \notin sources
  /\ Total(itemStatus, b) < MaxFiles
  /\ sources' = sources \cup {i}
  /\ \/ RefreshBatch(b, [itemStatus EXCEPT ![i] = "uploaded"], "draft", finished[b])
     \/ UNCHANGED <<batchRow, itemStatus>>
  /\ UNCHANGED <<archive, leaseOwner, leaseExpired, output, attempts,
                 staged, zips, purged, worker, client, cleanup>>

Commit(b) ==
  LET draft == batchStatus[b] = "draft"
      its == [i \in Item |-> IF draft /\ i \in In(itemStatus, b, {"uploaded"})
                             THEN "queued" ELSE itemStatus[i]]
  IN
  /\ RowExists(b) /\ Unlocked(b)
  /\ Rows(itemStatus, b) # {}
  /\ RefreshBatch(b, its, IF draft THEN "queued" ELSE batchStatus[b], finished[b])
  /\ UNCHANGED <<archive, leaseOwner, leaseExpired, output, attempts, files, worker, client, cleanup>>

(* Mutant: a cancel also stops the items in progress. *)
CancelProcessing(b) ==
  LET its == [i \in Item |-> IF i \in In(itemStatus, b, {"uploaded", "queued", "processing"})
                             THEN "canceled" ELSE itemStatus[i]]
  IN
  /\ RowExists(b) /\ Unlocked(b) /\ batchStatus[b] \in {"draft", "queued", "processing"}
  /\ RefreshBatch(b, its, "canceled", "recent")
  /\ UNCHANGED <<archive, leaseOwner, leaseExpired, output, attempts, files, worker, client, cleanup>>

Cancel(b) ==
  LET its == [i \in Item |-> IF i \in In(itemStatus, b, {"uploaded", "queued"})
                             THEN "canceled" ELSE itemStatus[i]]
      live == batchStatus[b] \in {"draft", "queued", "processing"}
  IN
  /\ RowExists(b) /\ Unlocked(b)
  /\ RefreshBatch(b, its, IF live THEN "canceled" ELSE batchStatus[b],
                          IF live THEN "recent" ELSE finished[b])
  /\ UNCHANGED <<archive, leaseOwner, leaseExpired, output, attempts, files, worker, client, cleanup>>

Retry(i) ==
  LET b == BatchOf[i] IN
  /\ itemStatus[i] = "failed" /\ Unlocked(b)
  /\ RefreshBatch(b, [itemStatus EXCEPT ![i] = "queued"], "queued", "null")
  /\ leaseOwner' = [leaseOwner EXCEPT ![i] = NoAttempt]
  /\ leaseExpired' = leaseExpired \ {i}
  /\ output' = [output EXCEPT ![i] = NoAttempt]
  /\ archive' = [archive EXCEPT ![b] = {}]
  /\ UNCHANGED <<attempts, files, worker, client, cleanup>>

-----------------------------------------------------------------------------
(* The worker of a server instance: poll, claimNext, process.              *)

(* Mutant: a dead worker's item is never offered again. *)
CandidateQueuedOnly(i) == itemStatus[i] = "queued" /\ batchStatus[BatchOf[i]] \in Open

(* The candidate query of claimNext, which takes no lock: by the time the  *)
(* claim transaction runs, what it saw may no longer hold.                 *)
Candidate(i) ==
  LET st == batchStatus[BatchOf[i]] IN
  \/ itemStatus[i] = "queued" /\ st \in Open
  \/ itemStatus[i] = "processing" /\ st \in Open \cup {"canceled"} /\ i \in leaseExpired

Poll(w) ==
  /\ worker[w].pc = "idle" /\ UnusedAttempts # {}
  /\ \E i \in Item : Candidate(i) /\ worker' = [worker EXCEPT ![w] = Polled(i)]
  /\ UNCHANGED <<batchRow, archive, itemRow, attempts, files, client, cleanup>>

(* Mutant: the lease seen expired by the candidate query is not rechecked. *)
ClaimableUnchecked(i) ==
  LET st == batchStatus[BatchOf[i]] IN
  \/ itemStatus[i] = "queued" /\ st \in Open
  \/ itemStatus[i] = "processing" /\ st \in Open \cup {"canceled"}

(* What the claim transaction checks again under the batch lock.           *)
Claimable(i) ==
  LET st == batchStatus[BatchOf[i]] IN
  /\ st \in Open \cup {"canceled"}
  /\ \/ itemStatus[i] = "queued" /\ st # "canceled"
     \/ itemStatus[i] = "processing" /\ i \in leaseExpired

(* Mutant: the attempt that loses its lease is not settled. *)
AttemptsKept(i, a) == [attemptStatus EXCEPT ![a] = "processing"]

(* Mutant: the failure code is written to the status column. *)
AttemptsMislabelled(i, a) ==
  [x \in Attempt |-> IF x = a THEN "processing"
                     ELSE IF x = leaseOwner[i] THEN "lease_expired" ELSE attemptStatus[x]]

(* The attempt that loses its lease to a claim is recorded as failed.      *)
AttemptsAfterClaim(i, a) ==
  [x \in Attempt |-> IF x = a THEN "processing"
                     ELSE IF x = leaseOwner[i] /\ attemptStatus[x] = "processing" THEN "failed"
                     ELSE attemptStatus[x]]

ClaimNext(w) ==
  LET i == worker[w].item
      b == BatchOf[i]
  IN
  /\ worker[w].pc = "polled" /\ Unlocked(b) /\ Claimable(i)
  /\ \E a \in UnusedAttempts :
       /\ attemptStatus' = AttemptsAfterClaim(i, a)
       /\ attemptOf' = [attemptOf EXCEPT ![a] = i]
       /\ leaseOwner' = [leaseOwner EXCEPT ![i] = a]
       /\ leaseExpired' = leaseExpired \ {i}
       /\ RefreshBatch(b, [itemStatus EXCEPT ![i] = "processing"], batchStatus[b], finished[b])
       \* Idle: the commit succeeded but its acknowledgement was lost.
       /\ \E next \in {Holding("claimed", i, a), Idle} : worker' = [worker EXCEPT ![w] = next]
  /\ UNCHANGED <<archive, output, files, client, cleanup>>

(* The recheck fails.                                                      *)
ClaimNothing(w) ==
  /\ worker[w].pc = "polled"
  /\ Unlocked(BatchOf[worker[w].item]) /\ ~Claimable(worker[w].item)
  /\ worker' = [worker EXCEPT ![w] = Idle]
  /\ UNCHANGED <<batchRow, archive, itemRow, attempts, files, client, cleanup>>

(* The claim transaction throws and has changed nothing.                   *)
ClaimError(w) ==
  /\ worker[w].pc = "polled"
  /\ worker' = [worker EXCEPT ![w] = Idle]
  /\ UNCHANGED <<batchRow, archive, itemRow, attempts, files, client, cleanup>>

(* process() reads the batch row and the source file; either may fail.     *)
ReadSource(w) ==
  LET i == worker[w].item
      a == worker[w].attempt
  IN
  /\ worker[w].pc = "claimed"
  /\ \/ ~RowExists(BatchOf[i]) /\ worker' = [worker EXCEPT ![w] = Idle]
     \/ RowExists(BatchOf[i]) /\ i \in sources
          /\ worker' = [worker EXCEPT ![w] = Holding("dispatching", i, a)]
     \/ worker' = [worker EXCEPT ![w] = Holding("failing", i, a)]
  /\ UNCHANGED <<batchRow, archive, itemRow, attempts, files, client, cleanup>>

(* The SDK returned a result: create the output directory and write to it. *)
StageOutput(w) ==
  /\ worker[w].pc = "dispatching"
  /\ staged' = staged \cup {worker[w].attempt}
  /\ worker' = [worker EXCEPT ![w].pc = "staged"]
  /\ UNCHANGED <<batchRow, archive, itemRow, attempts, sources, zips, purged, client, cleanup>>

(* The SDK call fails, or writing the outputs fails half way.              *)
DispatchFails(w) ==
  /\ worker[w].pc = "dispatching"
  /\ staged' \in {staged, staged \cup {worker[w].attempt}}
  /\ worker' = [worker EXCEPT ![w].pc = "failing"]
  /\ UNCHANGED <<batchRow, archive, itemRow, attempts, sources, zips, purged, client, cleanup>>

(* Mutant: the fence forgets the owner. *)
HoldsAnyLease(i, a) == itemStatus[i] = "processing"

(* Mutant: the fence is only the item id. *)
HoldsRow(i, a) == itemStatus[i] # "absent"

(* The fence of the two transactions that settle an item.                  *)
HoldsLease(i, a) == itemStatus[i] = "processing" /\ leaseOwner[i] = a

Settle(i, a, outcome, result) ==
  LET b == BatchOf[i] IN
  /\ leaseOwner' = [leaseOwner EXCEPT ![i] = NoAttempt]
  /\ leaseExpired' = leaseExpired \ {i}
  /\ output' = [output EXCEPT ![i] = result]
  /\ attemptStatus' = [attemptStatus EXCEPT ![a] = IF @ = "processing" THEN outcome ELSE @]
  /\ RefreshBatch(b, [itemStatus EXCEPT ![i] = outcome], batchStatus[b], finished[b])

Publish(w) ==
  LET i == worker[w].item
      a == worker[w].attempt
      b == BatchOf[i]
  IN
  /\ worker[w].pc = "staged" /\ Unlocked(b) /\ HoldsLease(i, a)
  /\ Settle(i, a, "success", a)
  /\ archive' = [archive EXCEPT ![b] = {}]
  \* uncertain: the commit succeeded but its acknowledgement was lost.
  /\ \E next \in {Idle, Holding("uncertain", i, a)} : worker' = [worker EXCEPT ![w] = next]
  /\ UNCHANGED <<attemptOf, files, client, cleanup>>

(* Another claim holds the lease: the result is dropped.                   *)
PublishFenced(w) ==
  /\ worker[w].pc = "staged"
  /\ Unlocked(BatchOf[worker[w].item])
  /\ ~HoldsLease(worker[w].item, worker[w].attempt)
  /\ staged' = staged \ {worker[w].attempt}
  /\ worker' = [worker EXCEPT ![w] = Idle]
  /\ UNCHANGED <<batchRow, archive, itemRow, attempts, sources, zips, purged, client, cleanup>>

(* The publishing transaction throws and has changed nothing.              *)
PublishError(w) ==
  /\ worker[w].pc = "staged"
  /\ worker' = [worker EXCEPT ![w].pc = "uncertain"]
  /\ UNCHANGED <<batchRow, archive, itemRow, attempts, files, client, cleanup>>

(* Mutant: the finally block trusts an unknown commit to have failed. *)
ReleaseAlways(w) ==
  /\ staged' = staged \ {worker[w].attempt}
  /\ worker' = [worker EXCEPT ![w] = Idle]
  /\ UNCHANGED <<sources, zips, purged>>

(* The finally block of process(): the staged files go unless a commit may *)
(* have published them.                                                    *)
ReleaseStaged(w) ==
  /\ staged' = IF worker[w].pc = "uncertain" THEN staged ELSE staged \ {worker[w].attempt}
  /\ worker' = [worker EXCEPT ![w] = Idle]
  /\ UNCHANGED <<sources, zips, purged>>

RecordFailure(w) ==
  LET i == worker[w].item
      a == worker[w].attempt
  IN
  /\ worker[w].pc \in {"failing", "uncertain"}
  /\ Unlocked(BatchOf[i])
  /\ IF HoldsLease(i, a) THEN Settle(i, a, "failed", output[i])
     ELSE UNCHANGED <<batchRow, itemRow, attemptStatus>>
  /\ ReleaseStaged(w)
  /\ UNCHANGED <<archive, attemptOf, client, cleanup>>

(* The failure transaction throws as well: the item waits for its lease.   *)
FailureLost(w) ==
  /\ worker[w].pc \in {"failing", "uncertain"}
  /\ ReleaseStaged(w)
  /\ UNCHANGED <<batchRow, archive, itemRow, attempts, client, cleanup>>

Crash(w) ==
  /\ worker[w].pc \in Busy
  /\ worker' = [worker EXCEPT ![w] = Idle]
  /\ UNCHANGED <<batchRow, archive, itemRow, attempts, files, client, cleanup>>

LeaseExpires(i) ==
  /\ itemStatus[i] = "processing" /\ i \notin leaseExpired
  /\ leaseExpired' = leaseExpired \cup {i}
  /\ UNCHANGED <<batchRow, archive, itemStatus, leaseOwner, output, attempts, files,
                 worker, client, cleanup>>

-----------------------------------------------------------------------------
(* batchDownload().                                                        *)

Snapshot(c, b) ==
  /\ client[c].pc = "idle"
  /\ batchStatus[b] \in Downloadable /\ Version(b) # {}
  /\ client' = [client EXCEPT ![c] = Request("snapshot", b, Version(b))]
  /\ UNCHANGED <<batchRow, archive, itemRow, attempts, files, worker, cleanup>>

(* Use the archive of this version or build it (createArchive renames a    *)
(* temporary file into place), then read it.  A missing output aborts.     *)
BuildArchive(c) ==
  LET v == client[c].version
      present == v \in zips \/ \A out \in v : out[2] \in staged
  IN
  /\ client[c].pc = "snapshot"
  /\ zips' = IF present THEN zips \cup {v} ELSE zips
  /\ client' = [client EXCEPT ![c] = IF present THEN Request("built", client[c].batch, v)
                                     ELSE NoRequest]
  /\ UNCHANGED <<batchRow, archive, itemRow, attempts, sources, staged, purged, worker, cleanup>>

(* Mutant: a download that was overtaken records its archive. *)
FinishUnchecked(c) ==
  LET b == client[c].batch IN
  /\ client[c].pc = "built" /\ Unlocked(b)
  /\ archive' = IF batchStatus[b] \in Downloadable
                THEN [archive EXCEPT ![b] = client[c].version] ELSE archive
  /\ client' = [client EXCEPT ![c] = NoRequest]
  /\ UNCHANGED <<batchRow, itemRow, attempts, files, worker, cleanup>>

(* Check that the results have not changed meanwhile, and record the       *)
(* archive.  Otherwise the client gets 409 or 404.                         *)
FinishDownload(c) ==
  LET b == client[c].batch
      current == batchStatus[b] \in Downloadable /\ Version(b) = client[c].version
  IN
  /\ client[c].pc = "built" /\ Unlocked(b)
  /\ archive' = IF current THEN [archive EXCEPT ![b] = client[c].version] ELSE archive
  /\ client' = [client EXCEPT ![c] = NoRequest]
  /\ UNCHANGED <<batchRow, itemRow, attempts, files, worker, cleanup>>

-----------------------------------------------------------------------------
(* cleanupExpired().                                                       *)

Expired(b) == batchStatus[b] \in Terminal /\ finished[b] = "expired"

RetentionPasses(b) ==
  /\ finished[b] = "recent"
  /\ finished' = [finished EXCEPT ![b] = "expired"]
  /\ UNCHANGED <<batchStatus, tally, archive, itemRow, attempts, files, worker, client, cleanup>>

ListExpired ==
  /\ expiring' = expiring \cup {b \in Batch : Expired(b)}
  /\ UNCHANGED <<batchRow, archive, itemRow, attempts, files, worker, client, removing>>

(* Mutant: the list is trusted, retention is not rechecked. *)
RemovableListed(b) == RowExists(b) /\ In(itemStatus, b, Open) = {}

(* Mutant: a batch whose directory is gone is taken for removed. *)
RemovableOnce(b) == Expired(b) /\ In(itemStatus, b, Open) = {} /\ b \notin purged

Removable(b) == Expired(b) /\ In(itemStatus, b, Open) = {}

AttemptsOf(b) == {a \in Attempt : attemptOf[a] \in ItemsOf(b)}

(* The recheck under the lock, then rm -r of the batch directory.          *)
RemoveFiles(b) ==
  /\ b \in expiring /\ Unlocked(b) /\ Removable(b)
  /\ sources' = sources \ ItemsOf(b)
  /\ staged' = staged \ AttemptsOf(b)
  /\ zips' = {v \in zips : \A out \in v : out[1] \notin ItemsOf(b)}
  /\ purged' = purged \cup {b}
  /\ expiring' = expiring \ {b}
  /\ removing' = removing \cup {b}
  /\ UNCHANGED <<batchRow, archive, itemRow, attempts, worker, client>>

SkipRemoval(b) ==
  /\ b \in expiring /\ Unlocked(b) /\ ~Removable(b)
  /\ expiring' = expiring \ {b}
  /\ UNCHANGED <<batchRow, archive, itemRow, attempts, files, worker, client, removing>>

(* DELETE FROM batches commits; the foreign keys cascade.                  *)
RemoveRows(b) ==
  /\ b \in removing
  /\ batchStatus' = [batchStatus EXCEPT ![b] = "removed"]
  /\ finished' = [finished EXCEPT ![b] = "null"]
  /\ tally' = [tally EXCEPT ![b] = [s \in Counted |-> 0]]
  /\ archive' = [archive EXCEPT ![b] = {}]
  /\ itemStatus' = [i \in Item |-> IF i \in ItemsOf(b) THEN "absent" ELSE itemStatus[i]]
  /\ leaseOwner' = [i \in Item |-> IF i \in ItemsOf(b) THEN NoAttempt ELSE leaseOwner[i]]
  /\ leaseExpired' = leaseExpired \ ItemsOf(b)
  /\ output' = [i \in Item |-> IF i \in ItemsOf(b) THEN NoAttempt ELSE output[i]]
  /\ attemptStatus' = [a \in Attempt |-> IF a \in AttemptsOf(b) THEN "deleted" ELSE attemptStatus[a]]
  /\ removing' = removing \ {b}
  /\ UNCHANGED <<attemptOf, files, worker, client, expiring>>

(* The DELETE or the commit fails, or the process dies: the rows survive,  *)
(* and that cleanup drops the rest of its list.                            *)
RemovalRolledBack(b) ==
  /\ b \in removing
  /\ removing' = removing \ {b}
  /\ expiring' \in SUBSET expiring
  /\ UNCHANGED <<batchRow, archive, itemRow, attempts, files, worker, client>>

-----------------------------------------------------------------------------
BatchStep(b) ==
  \/ Create(b) \/ Commit(b) \/ Cancel(b)
  \/ RetentionPasses(b) \/ RemoveFiles(b) \/ SkipRemoval(b)
  \/ RemoveRows(b) \/ RemovalRolledBack(b)

ItemStep(i) == Upload(i) \/ Retry(i) \/ LeaseExpires(i)

WorkerStep(w) ==
  \/ Poll(w) \/ ClaimNext(w) \/ ClaimNothing(w) \/ ClaimError(w)
  \/ ReadSource(w) \/ StageOutput(w) \/ DispatchFails(w)
  \/ Publish(w) \/ PublishFenced(w) \/ PublishError(w)
  \/ RecordFailure(w) \/ FailureLost(w) \/ Crash(w)

ClientStep(c) == BuildArchive(c) \/ FinishDownload(c) \/ \E b \in Batch : Snapshot(c, b)

Next ==
  \/ \E b \in Batch : BatchStep(b)
  \/ \E i \in Item : ItemStep(i)
  \/ \E w \in Worker : WorkerStep(w)
  \/ \E c \in Client : ClientStep(c)
  \/ ListExpired

Spec == Init /\ [][Next]_vars

(* The poll timer of every live instance keeps firing, a claimed item is   *)
(* worked on until the SDK answers or times out, time passes, cleanup runs *)
(* every day and goes through its list, and the database does not fail     *)
(* every claim and every removal for ever.                                 *)
(* Clients promise nothing, a crash is never obliged to happen.            *)
Fairness ==
  /\ \A w \in Worker :
       /\ WF_vars(Poll(w))
       /\ SF_vars(ClaimNext(w)) /\ WF_vars(ClaimNothing(w))
       /\ WF_vars(ReadSource(w))
       /\ WF_vars(StageOutput(w) \/ DispatchFails(w))
       /\ WF_vars(Publish(w) \/ PublishFenced(w) \/ PublishError(w))
       /\ WF_vars(RecordFailure(w) \/ FailureLost(w))
  /\ \A i \in Item : WF_vars(LeaseExpires(i))
  /\ WF_vars(ListExpired)
  /\ \A b \in Batch :
       /\ WF_vars(RetentionPasses(b))
       /\ WF_vars(RemoveFiles(b) \/ SkipRemoval(b))
       /\ WF_vars(RemoveRows(b) \/ RemovalRolledBack(b)) /\ SF_vars(RemoveRows(b))

FairSpec == Spec /\ Fairness

-----------------------------------------------------------------------------
TypeOK ==
  /\ batchStatus \in [Batch -> BatchStatus]
  /\ finished \in [Batch -> {"null", "recent", "expired"}]
  /\ tally \in [Batch -> [Counted -> Nat]]
  /\ archive \in [Batch -> SUBSET (Item \X Attempt) ]
  /\ itemStatus \in [Item -> ItemStatus]
  /\ leaseOwner \in [Item -> Attempt \cup {NoAttempt}]
  /\ leaseExpired \subseteq Item
  /\ output \in [Item -> Attempt \cup {NoAttempt}]
  /\ attemptStatus \in [Attempt -> {"unused", "processing", "success", "failed", "deleted"}]
  /\ attemptOf \in [Attempt -> Item \cup {NoItem}]
  /\ sources \subseteq Item
  /\ staged \subseteq Attempt
  /\ zips \subseteq SUBSET (Item \X Attempt)
  /\ purged \subseteq Batch
  /\ worker \in [Worker -> [pc : {"idle", "polled"} \cup Busy,
                            item : Item \cup {NoItem}, attempt : Attempt \cup {NoAttempt}]]
  /\ client \in [Client -> [pc : {"idle", "snapshot", "built"},
                            batch : Batch \cup {NoBatch}, version : SUBSET (Item \X Attempt)]]
  /\ expiring \subseteq Batch
  /\ removing \subseteq Batch

(* At most one attempt of an item is ever in progress, and it is the one   *)
(* that owns the lease: claimNext settles the attempt it takes the lease   *)
(* from, and process settles its own attempt together with the item.       *)
OneLiveAttempt ==
  \A i \in Item :
    {a \in Attempt : attemptOf[a] = i /\ attemptStatus[a] = "processing"}
      = IF itemStatus[i] = "processing" THEN {leaseOwner[i]} ELSE {}

(* A result is published once: the successful attempt of an item is the    *)
(* one its output comes from, and nothing else of the item succeeded.      *)
PublishedOnce ==
  \A i \in Item :
    {a \in Attempt : attemptOf[a] = i /\ attemptStatus[a] = "success"}
      = IF itemStatus[i] = "success" THEN {output[i]} ELSE {}

(* Until retention deletes the directory of a batch, every file a row      *)
(* points to is there: the source of every item, whoever lost which        *)
(* acknowledgement, and the output of every successful item, whichever     *)
(* stale worker cleaned up after itself.                                   *)
FilesKept ==
  \A i \in Item :
    BatchOf[i] \notin purged =>
      /\ itemStatus[i] # "absent" => i \in sources
      /\ itemStatus[i] = "success" => output[i] \in staged

(* What batches.status says of the items, in every state a reader can see  *)
(* (the purpose of refreshBatch), and finished_at is set exactly on the    *)
(* batches whose retention runs.                                           *)
StatusAgrees ==
  \A b \in Batch :
    LET some(st) == In(itemStatus, b, {st}) # {}
        active == some("uploaded") \/ some("queued") \/ some("processing")
        all(st) == Rows(itemStatus, b) = In(itemStatus, b, {st})
    IN
    /\ batchStatus[b] = "draft" => all("uploaded")
    /\ batchStatus[b] = "queued" => some("queued") /\ ~some("processing") /\ ~some("uploaded")
    /\ batchStatus[b] = "processing" => some("processing") /\ ~some("uploaded")
    /\ batchStatus[b] = "success" => some("success") /\ all("success")
    /\ batchStatus[b] = "partial_success" => some("success") /\ ~all("success") /\ ~active
    /\ batchStatus[b] = "failed" => ~some("success") /\ ~active
    /\ batchStatus[b] = "canceled" => ~some("uploaded") /\ ~some("queued")
    /\ finished[b] # "null" <=> batchStatus[b] \in Terminal
    /\ \A st \in Counted : tally[b][st] = Cardinality(In(itemStatus, b, {st}))

(* The archive recorded for a batch holds exactly its current results and  *)
(* is on disk: publishing and retrying drop the record, and a download     *)
(* that was overtaken by either does not restore it.                       *)
ArchiveCurrent ==
  \A b \in Batch :
    archive[b] # {} =>
      /\ archive[b] = Version(b)
      /\ batchStatus[b] \in Downloadable
      /\ b \notin purged => archive[b] \in zips

(* A successful item keeps its result until its batch is removed: no       *)
(* retry, cancel, late worker or lost acknowledgement takes it back.       *)
ResultFinal ==
  [][\A i \in Item :
       itemStatus[i] = "success" =>
         \/ itemStatus'[i] = "success" /\ output'[i] = output[i]
         \/ batchStatus'[BatchOf[i]] = "removed"]_vars

(* An attempt begins in a canceled batch only to recover one that was in   *)
(* progress when the batch was canceled.                                   *)
CanceledStartsNothing ==
  [][\A i \in Item :
       batchStatus[BatchOf[i]] = "canceled" /\ leaseOwner'[i] \notin {leaseOwner[i], NoAttempt}
         => itemStatus[i] = "processing" /\ i \in leaseExpired]_vars

(* A file that a row points to is deleted only when the retention of its   *)
(* batch has passed and nothing of the batch is queued or being processed: *)
(* not by a cleanup that listed the batch before a retry reopened it, nor  *)
(* by a worker that releases what it staged.                               *)
PurgeOnlyExpired ==
  [][\A i \in Item :
       \/ itemStatus[i] # "absent" /\ i \in sources \ sources'
       \/ output[i] \in staged \ staged'
       => /\ finished[BatchOf[i]] = "expired"
          /\ In(itemStatus, BatchOf[i], Open) = {}]_vars

(* Every committed item is worked on until it is settled, and an attempt   *)
(* whose worker died is taken over, in a canceled batch too.  (The supply  *)
(* of attempt ids is a bound of the model, not of the code.)               *)
QueuedItemSettles ==
  \A i \in Item :
    itemStatus[i] \in Open ~> (itemStatus[i] \notin Open \/ UnusedAttempts = {})

(* A batch that has ended is deleted once its retention has passed, unless *)
(* a retry reopens it: a removal that was rolled back after the files were *)
(* gone is tried again.                                                    *)
EndedBatchRemoved ==
  \A b \in Batch :
    batchStatus[b] \in Terminal ~>
      \/ batchStatus[b] \in {"removed"} \cup Open
      \/ UnusedAttempts = {}

-----------------------------------------------------------------------------
Ledger == INSTANCE ItemLedger WITH
  Grant <- Attempt, NoGrant <- NoAttempt, phase <- itemStatus, holder <- leaseOwner,
  result <- output, granted <- Attempt \ UnusedAttempts

(* The batch subsystem implements the ledger of items: whatever the        *)
(* workers, the clients, the crashes and the cleanup do, the rows of the   *)
(* items change only as the ledger allows.                                 *)
ImplementsLedger == Ledger!Spec

=============================================================================
