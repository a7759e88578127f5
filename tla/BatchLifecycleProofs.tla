------------------------ MODULE BatchLifecycleProofs ------------------------
(***************************************************************************)
(* What holds of the batch subsystem for any number of batches, items,     *)
(* attempts, server instances and download requests.                       *)
(***************************************************************************)
EXTENDS BatchLifecycle, FiniteSetTheorems, TLAPS

-----------------------------------------------------------------------------
(* The inductive invariant.  OneLiveAttempt and PublishedOnce speak of     *)
(* rows only; FilesKept also depends on what every worker in flight still  *)
(* believes, so the invariant ties the workers to the rows.                *)

(* lease_owner is set exactly while the item is processing, and the lease  *)
(* and the processing attempt point at each other.                         *)
LeaseInv ==
  /\ \A i \in Item : itemStatus[i] = "processing" <=> leaseOwner[i] # NoAttempt
  /\ \A i \in Item : leaseOwner[i] # NoAttempt =>
       attemptStatus[leaseOwner[i]] = "processing" /\ attemptOf[leaseOwner[i]] = i
  /\ \A a \in Attempt : attemptStatus[a] = "processing" =>
       attemptOf[a] \in Item /\ leaseOwner[attemptOf[a]] = a
  /\ \A a \in Attempt : attemptStatus[a] = "unused" => attemptOf[a] = NoItem

(* The same of the published output and the successful attempt.            *)
ResultInv ==
  /\ \A i \in Item : itemStatus[i] = "success" <=> output[i] # NoAttempt
  /\ \A i \in Item : output[i] # NoAttempt =>
       attemptStatus[output[i]] = "success" /\ attemptOf[output[i]] = i
  /\ \A a \in Attempt : attemptStatus[a] = "success" =>
       attemptOf[a] \in Item /\ output[attemptOf[a]] = a

(* A worker holds an attempt that was granted to it alone, for the item it *)
(* thinks; until it has tried to publish, that attempt has not succeeded.  *)
WorkerInv ==
  /\ \A w \in Worker : worker[w].pc # "idle" => worker[w].item \in Item
  /\ \A w \in Worker : worker[w].pc \in Busy =>
       /\ worker[w].attempt \in Attempt
       /\ attemptOf[worker[w].attempt] = worker[w].item
       /\ attemptStatus[worker[w].attempt] # "unused"
       /\ worker[w].pc # "uncertain" => attemptStatus[worker[w].attempt] # "success"
  /\ \A v, w \in Worker :
       v # w /\ worker[v].pc \in Busy /\ worker[w].pc \in Busy =>
         worker[v].attempt # worker[w].attempt

(* A worker about to publish under a live lease has its output on disk.    *)
StagedInv ==
  \A w \in Worker :
    /\ worker[w].pc = "staged"
    /\ HoldsLease(worker[w].item, worker[w].attempt)
    /\ BatchOf[worker[w].item] \notin purged
    => worker[w].attempt \in staged

(* A batch whose rows a cleanup is about to delete has nothing in flight,  *)
(* and its directory is gone; a download is about an existing batch.       *)
CleanupInv ==
  /\ \A b \in removing : b \in purged /\ In(itemStatus, b, Open) = {}
  /\ \A c \in Client : client[c].pc # "idle" => client[c].batch \in Batch
  /\ \A i \in Item : itemStatus[i] # "absent" => RowExists(BatchOf[i])

IInv ==
  TypeOK /\ LeaseInv /\ ResultInv /\ WorkerInv /\ StagedInv /\ FilesKept /\ CleanupInv

-----------------------------------------------------------------------------
(* Facts about refreshBatch.                                               *)

Stamps == {"null", "recent", "expired"}

(* Counting the items of a batch gives a natural number: the sets are finite. *)
LEMMA CountIsNat ==
  ASSUME NEW its, NEW b, NEW S
  PROVE  Cardinality(In(its, b, S)) \in Nat
<1>1. In(its, b, S) \subseteq Item
  BY DEF In, ItemsOf
<1>2. IsFiniteSet(In(its, b, S))
  BY <1>1, FS_Subset, BatchAssumption
<1>. QED BY <1>2, FS_CardinalityType

(* The status refreshBatch derives is never draft or canceled.             *)
LEMMA DerivedIsOpenOrTerminal ==
  ASSUME NEW t, NEW n
  PROVE  DerivedStatus(t, n) \in Open \cup Downloadable
BY DEF DerivedStatus, Open, Downloadable

(* A refresh sets the items it is told to.                                 *)
LEMMA RefreshSetsItems ==
  ASSUME NEW its, NEW b, NEW st, NEW fin, RefreshBatch(b, its, st, fin)
  PROVE  itemStatus' = its
BY DEF RefreshBatch

(* What a refresh does to the derived columns: those of one batch change,  *)
(* and its row stays.                                                      *)
Refreshed(b) ==
  /\ tally' \in [Batch -> [Counted -> Nat]]
  /\ batchStatus' \in [Batch -> BatchStatus]
  /\ finished' \in [Batch -> Stamps]
  /\ batchStatus'[b] \notin {"absent", "removed"}
  /\ \A x \in Batch : x # b => batchStatus'[x] = batchStatus[x]

(* A refresh keeps the batch columns well typed and settles the row of b.  *)
LEMMA RefreshFacts ==
  ASSUME TypeOK, NEW b \in Batch, NEW its \in [Item -> ItemStatus],
         NEW st \in BatchStatus \ {"absent", "removed"}, NEW fin \in Stamps,
         RefreshBatch(b, its, st, fin)
  PROVE  itemStatus' = its /\ Refreshed(b)
<1> DEFINE t == Tally(its, b)
           ns == IF KeepsStatus(st, its, b) THEN st ELSE DerivedStatus(t, Total(its, b))
           nf == IF KeepsStatus(st, its, b) THEN fin
                 ELSE IF ns \notin Downloadable THEN "null"
                 ELSE IF fin = "null" THEN "recent" ELSE fin
<1>1. /\ itemStatus' = its
      /\ tally' = [tally EXCEPT ![b] = t]
      /\ batchStatus' = [batchStatus EXCEPT ![b] = ns]
      /\ finished' = [finished EXCEPT ![b] = nf]
  BY DEF RefreshBatch
<1>2. t \in [Counted -> Nat]
  BY CountIsNat DEF Tally
<1>3. DerivedStatus(t, Total(its, b)) \in Open \cup Downloadable
  BY DerivedIsOpenOrTerminal
<1> HIDE DEF t
<1>4. ns \in BatchStatus /\ ns \notin {"absent", "removed"}
  BY <1>3 DEF BatchStatus, Open, Downloadable, Terminal
<1>5. nf \in Stamps
  BY DEF Stamps
<1> HIDE DEF ns, nf
<1>. QED BY <1>1, <1>2, <1>4, <1>5 DEF TypeOK, Stamps, Refreshed

-----------------------------------------------------------------------------
(* Frame lemmas: a step that leaves these variables alone keeps the part.  *)

(* The lease and result parts depend on the item and attempt rows alone.   *)
LEMMA RowsFrame ==
  ASSUME LeaseInv, ResultInv,
         UNCHANGED <<itemStatus, leaseOwner, output, attemptStatus, attemptOf>>
  PROVE  LeaseInv' /\ ResultInv'
BY DEF LeaseInv, ResultInv

(* The worker part depends on the workers and the attempts alone.          *)
LEMMA WorkerFrame ==
  ASSUME WorkerInv, UNCHANGED <<attemptStatus, attemptOf, worker>>
  PROVE  WorkerInv'
BY DEF WorkerInv

(* The file part depends on the item rows, the outputs and the files alone. *)
LEMMA FilesFrame ==
  ASSUME FilesKept, UNCHANGED <<itemStatus, output, sources, staged, purged>>
  PROVE  FilesKept'
BY DEF FilesKept

(* The staged-output part depends on leases, workers and directories alone. *)
LEMMA StagedFrame ==
  ASSUME StagedInv, UNCHANGED <<itemStatus, leaseOwner, staged, purged, worker>>
  PROVE  StagedInv'
BY DEF StagedInv, HoldsLease

(* The cleanup part depends on the locked batches and their rows alone.    *)
LEMMA CleanupFrame ==
  ASSUME CleanupInv, UNCHANGED <<batchStatus, itemStatus, purged, removing, client>>
  PROVE  CleanupInv'
BY DEF CleanupInv, In, RowExists

(* The requests that move waiting items of a batch (commit, cancel, retry) *)
(* touch no lease, no result and no file.                                  *)
LEMMA WaitingMovesKeep ==
  ASSUME IInv, NEW b \in Batch, b \notin removing, Refreshed(b),
         itemStatus' \in [Item -> ItemStatus],
         \A i \in Item : itemStatus'[i] # itemStatus[i] =>
           /\ BatchOf[i] = b
           /\ itemStatus[i] \in {"uploaded", "queued", "failed"}
           /\ itemStatus'[i] \in {"queued", "canceled"},
         archive' \in [Batch -> SUBSET (Item \X Attempt)], leaseExpired' \subseteq Item,
         UNCHANGED <<leaseOwner, output, attempts, files, worker, client, cleanup>>
  PROVE  IInv'
<1> USE DEF attempts, files, cleanup
<1>1. TypeOK'
  BY DEF IInv, TypeOK, Refreshed, Stamps
<1>2. LeaseInv'
  BY DEF IInv, LeaseInv
<1>3. ResultInv'
  BY DEF IInv, ResultInv
<1>4. StagedInv'
  BY DEF IInv, WorkerInv, StagedInv, HoldsLease, Busy
<1>5. FilesKept'
  BY DEF IInv, FilesKept
<1>6. ASSUME NEW x \in removing
      PROVE  x \in purged /\ In(itemStatus', x, Open) = {}
  <2>1. In(itemStatus', x, Open) = In(itemStatus, x, Open)
    BY DEF In, ItemsOf
  <2>. QED BY <2>1 DEF IInv, CleanupInv
<1>7. ASSUME NEW i \in Item, itemStatus'[i] # "absent"
      PROVE  batchStatus'[BatchOf[i]] \notin {"absent", "removed"}
  BY <1>7, BatchAssumption DEF IInv, CleanupInv, RowExists, Refreshed
<1>8. CleanupInv'
  BY <1>6, <1>7 DEF IInv, CleanupInv, RowExists
<1>. QED BY <1>1, <1>2, <1>3, <1>4, <1>5, <1>8, WorkerFrame DEF IInv

-----------------------------------------------------------------------------
(* Each step keeps the invariant.                                          *)

(* The requests and cleanup steps of a batch keep the invariant.           *)
LEMMA BatchStepKeeps ==
  ASSUME IInv, NEW b \in Batch, BatchStep(b)
  PROVE  IInv'
<1> USE DEF batchRow, itemRow, attempts, files, cleanup
<1>1. CASE Create(b)
  <2>1. TypeOK'
    BY <1>1 DEF IInv, TypeOK, Create, BatchStatus
  <2>2. CleanupInv'
    BY <1>1 DEF IInv, TypeOK, CleanupInv, Create, In, RowExists
  <2>. QED BY <1>1, <2>1, <2>2, RowsFrame, WorkerFrame, FilesFrame, StagedFrame DEF IInv, Create
<1>2. CASE Commit(b)
  <2> DEFINE draft == batchStatus[b] = "draft"
             its == [i \in Item |-> IF draft /\ i \in In(itemStatus, b, {"uploaded"})
                                    THEN "queued" ELSE itemStatus[i]]
             st == IF draft THEN "queued" ELSE batchStatus[b]
  <2>1. /\ its \in [Item -> ItemStatus] /\ st \in BatchStatus \ {"absent", "removed"}
        /\ finished[b] \in Stamps /\ b \notin removing
    BY <1>2 DEF IInv, TypeOK, Commit, BatchStatus, Open, ItemStatus, RowExists, Unlocked, Stamps
  <2>2. RefreshBatch(b, its, st, finished[b])
    BY <1>2 DEF Commit
  <2>3. itemStatus' = its /\ Refreshed(b)
    BY <2>1, <2>2, RefreshFacts DEF IInv
  <2>. QED BY <1>2, <2>1, <2>3, WaitingMovesKeep DEF Commit, In, ItemsOf, IInv, TypeOK
<1>3. CASE Cancel(b)
  <2> DEFINE its == [i \in Item |-> IF i \in In(itemStatus, b, {"uploaded", "queued"})
                                    THEN "canceled" ELSE itemStatus[i]]
             live == batchStatus[b] \in {"draft", "queued", "processing"}
             st == IF live THEN "canceled" ELSE batchStatus[b]
             fin == IF live THEN "recent" ELSE finished[b]
  <2>1. /\ its \in [Item -> ItemStatus] /\ st \in BatchStatus \ {"absent", "removed"}
        /\ fin \in Stamps /\ b \notin removing
    BY <1>3 DEF IInv, TypeOK, Cancel, BatchStatus, Terminal, ItemStatus, RowExists, Unlocked, Stamps
  <2>2. RefreshBatch(b, its, st, fin)
    BY <1>3 DEF Cancel
  <2>3. itemStatus' = its /\ Refreshed(b)
    BY <2>1, <2>2, RefreshFacts DEF IInv
  <2>. QED BY <1>3, <2>1, <2>3, WaitingMovesKeep DEF Cancel, In, ItemsOf, IInv, TypeOK
<1>4. CASE RetentionPasses(b)
  <2>1. TypeOK'
    BY <1>4 DEF IInv, TypeOK, RetentionPasses
  <2>. QED BY <1>4, <2>1, RowsFrame, WorkerFrame, FilesFrame, StagedFrame, CleanupFrame
           DEF IInv, RetentionPasses
<1>5. CASE RemoveFiles(b)
  <2>1. TypeOK'
    BY <1>5 DEF IInv, TypeOK, RemoveFiles
  <2>2. StagedInv'
    BY <1>5 DEF IInv, WorkerInv, StagedInv, HoldsLease, RemoveFiles, AttemptsOf, ItemsOf, Busy
  <2>3. FilesKept'
    BY <1>5 DEF IInv, ResultInv, FilesKept, RemoveFiles, AttemptsOf, ItemsOf
  <2>4. CleanupInv'
    BY <1>5 DEF IInv, CleanupInv, RemoveFiles, Removable, In, RowExists
  <2>. QED BY <1>5, <2>1, <2>2, <2>3, <2>4, RowsFrame, WorkerFrame DEF IInv, RemoveFiles
<1>6. CASE SkipRemoval(b)
  <2>1. TypeOK'
    BY <1>6 DEF IInv, TypeOK, SkipRemoval
  <2>. QED BY <1>6, <2>1, RowsFrame, WorkerFrame, FilesFrame, StagedFrame, CleanupFrame
           DEF IInv, SkipRemoval
<1>7. CASE RemoveRows(b)
  <2>1. TypeOK'
    BY <1>7 DEF IInv, TypeOK, RemoveRows, BatchStatus, ItemStatus
  <2>2. LeaseInv' /\ ResultInv'
    BY <1>7 DEF IInv, TypeOK, LeaseInv, ResultInv, CleanupInv, RemoveRows, AttemptsOf, ItemsOf, In, Open
  <2>3. WorkerInv'
    BY <1>7 DEF IInv, TypeOK, WorkerInv, RemoveRows, AttemptsOf
  <2>4. StagedInv'
    BY <1>7 DEF IInv, TypeOK, WorkerInv, StagedInv, HoldsLease, RemoveRows, ItemsOf, Busy
  <2>5. FilesKept'
    BY <1>7 DEF IInv, TypeOK, FilesKept, RemoveRows, ItemsOf
  <2>6. CleanupInv'
    BY <1>7 DEF IInv, TypeOK, CleanupInv, RemoveRows, In, ItemsOf, RowExists, Open
  <2>. QED BY <2>1, <2>2, <2>3, <2>4, <2>5, <2>6 DEF IInv
<1>8. CASE RemovalRolledBack(b)
  <2>1. TypeOK'
    BY <1>8 DEF IInv, TypeOK, RemovalRolledBack
  <2>2. CleanupInv'
    BY <1>8 DEF IInv, CleanupInv, RemovalRolledBack, In, RowExists
  <2>. QED BY <1>8, <2>1, <2>2, RowsFrame, WorkerFrame, FilesFrame, StagedFrame
           DEF IInv, RemovalRolledBack
<1>. QED BY <1>1, <1>2, <1>3, <1>4, <1>5, <1>6, <1>7, <1>8 DEF BatchStep

(* An upload, a retry and a lease running out keep the invariant.          *)
LEMMA ItemStepKeeps ==
  ASSUME IInv, NEW i \in Item, ItemStep(i)
  PROVE  IInv'
<1> DEFINE b == BatchOf[i]
<1> USE DEF batchRow, itemRow, attempts, files, cleanup
<1>0. b \in Batch
  BY BatchAssumption
<1>1. CASE Upload(i)
  <2>1. \/ itemStatus' = [itemStatus EXCEPT ![i] = "uploaded"] /\ Refreshed(b)
        \/ UNCHANGED <<batchRow, itemStatus>>
    <3> DEFINE its == [itemStatus EXCEPT ![i] = "uploaded"]
    <3>1. /\ its \in [Item -> ItemStatus] /\ "draft" \in BatchStatus \ {"absent", "removed"}
          /\ finished[b] \in Stamps
      BY <1>0 DEF IInv, TypeOK, ItemStatus, BatchStatus, Stamps
    <3>2. CASE RefreshBatch(b, its, "draft", finished[b])
      BY <1>0, <3>1, <3>2, RefreshFacts DEF IInv
    <3>. QED BY <1>1, <3>2 DEF Upload
  <2>2. /\ itemStatus[i] = "absent" /\ sources' = sources \cup {i}
        /\ batchStatus[b] = "draft" /\ b \notin removing
        /\ UNCHANGED <<archive, leaseOwner, leaseExpired, output, attempts,
                       staged, zips, purged, worker, client, cleanup>>
    BY <1>1 DEF Upload, Unlocked
  <2>3. \A x \in Item : x # i => itemStatus'[x] = itemStatus[x]
    BY <2>1 DEF IInv, TypeOK
  <2>4. itemStatus' \in [Item -> ItemStatus] /\ itemStatus'[i] \in {"absent", "uploaded"}
    BY <2>1, <2>2 DEF IInv, TypeOK, ItemStatus
  <2>5. TypeOK'
    BY <2>1, <2>2, <2>4 DEF IInv, TypeOK, Refreshed, Stamps
  <2>6. LeaseInv' /\ ResultInv'
    <3>1. LeaseInv'
      BY <2>2, <2>3, <2>4 DEF IInv, LeaseInv
    <3>2. ResultInv'
      BY <2>2, <2>3, <2>4 DEF IInv, ResultInv
    <3>. QED BY <3>1, <3>2
  <2>7. StagedInv'
    BY <2>2, <2>3, <2>4 DEF IInv, WorkerInv, StagedInv, HoldsLease, Busy
  <2>8. FilesKept'
    BY <2>2, <2>3, <2>4 DEF IInv, FilesKept
  <2>9. CleanupInv'
    <3>1. ASSUME NEW x \in removing
          PROVE  In(itemStatus', x, Open) = In(itemStatus, x, Open)
      BY <2>2, <2>3 DEF In, ItemsOf
    <3>2. ASSUME NEW j \in Item, itemStatus'[j] # "absent"
          PROVE  batchStatus'[BatchOf[j]] \notin {"absent", "removed"}
      BY <2>1, <2>2, <2>3, <3>2, BatchAssumption DEF IInv, CleanupInv, RowExists, Refreshed
    <3>. QED BY <2>2, <3>1, <3>2 DEF IInv, CleanupInv, RowExists
  <2>. QED BY <2>2, <2>5, <2>6, <2>7, <2>8, <2>9, WorkerFrame DEF IInv
<1>2. CASE Retry(i)
  <2> DEFINE its == [itemStatus EXCEPT ![i] = "queued"]
  <2>1. /\ its \in [Item -> ItemStatus] /\ "queued" \in BatchStatus \ {"absent", "removed"}
        /\ "null" \in Stamps /\ b \notin removing
    BY <1>2 DEF IInv, TypeOK, Retry, ItemStatus, BatchStatus, Open, Stamps, Unlocked
  <2>2. itemStatus' = its /\ Refreshed(b)
    BY <1>0, <1>2, <2>1, RefreshFacts DEF Retry, IInv
  <2>3. UNCHANGED <<leaseOwner, output>>
    BY <1>2 DEF Retry, IInv, TypeOK, LeaseInv, ResultInv
  <2>4. archive' \in [Batch -> SUBSET (Item \X Attempt)] /\ leaseExpired' \subseteq Item
    BY <1>2 DEF Retry, IInv, TypeOK
  <2>5. \A x \in Item : itemStatus'[x] # itemStatus[x] =>
          BatchOf[x] = b /\ itemStatus[x] = "failed" /\ itemStatus'[x] = "queued"
    BY <1>2, <2>2 DEF Retry, IInv, TypeOK
  <2>6. UNCHANGED <<attempts, files, worker, client, cleanup>>
    BY <1>2 DEF Retry
  <2>. QED BY <1>0, <2>1, <2>2, <2>3, <2>4, <2>5, <2>6, WaitingMovesKeep
<1>3. CASE LeaseExpires(i)
  <2>1. TypeOK'
    BY <1>3 DEF IInv, TypeOK, LeaseExpires
  <2>. QED BY <1>3, <2>1, RowsFrame, WorkerFrame, FilesFrame, StagedFrame, CleanupFrame
           DEF IInv, LeaseExpires
<1>. QED BY <1>1, <1>2, <1>3 DEF ItemStep

(* A download keeps the invariant.                                         *)
LEMMA ClientStepKeeps ==
  ASSUME IInv, NEW c \in Client, ClientStep(c)
  PROVE  IInv'
<1> USE DEF batchRow, itemRow, attempts, files, cleanup, NoRequest, Request
<1>1. CASE BuildArchive(c)
  <2>1. TypeOK'
    BY <1>1 DEF IInv, TypeOK, BuildArchive
  <2>2. CleanupInv'
    BY <1>1 DEF IInv, TypeOK, CleanupInv, BuildArchive, In, RowExists
  <2>. QED BY <1>1, <2>1, <2>2, RowsFrame, WorkerFrame, FilesFrame, StagedFrame
           DEF IInv, BuildArchive
<1>2. CASE FinishDownload(c)
  <2>1. TypeOK'
    BY <1>2 DEF IInv, TypeOK, FinishDownload
  <2>2. CleanupInv'
    BY <1>2 DEF IInv, TypeOK, CleanupInv, FinishDownload, In, RowExists
  <2>. QED BY <1>2, <2>1, <2>2, RowsFrame, WorkerFrame, FilesFrame, StagedFrame
           DEF IInv, FinishDownload
<1>3. ASSUME NEW b \in Batch, Snapshot(c, b)
      PROVE  IInv'
  <2>1. Version(b) \in SUBSET (Item \X Attempt)
    BY DEF IInv, TypeOK, ResultInv, Version, In, ItemsOf
  <2>2. TypeOK'
    BY <1>3, <2>1 DEF IInv, TypeOK, Snapshot
  <2>3. CleanupInv'
    BY <1>3 DEF IInv, TypeOK, CleanupInv, Snapshot, In, RowExists
  <2>. QED BY <1>3, <2>2, <2>3, RowsFrame, WorkerFrame, FilesFrame, StagedFrame
           DEF IInv, Snapshot
<1>. QED BY <1>1, <1>2, <1>3 DEF ClientStep

(* The transaction that settles an item under its lease, for both outcomes. *)
LEMMA SettleKeeps ==
  ASSUME IInv, NEW i \in Item, NEW a \in Attempt, BatchOf[i] \notin removing,
         HoldsLease(i, a), NEW outcome, NEW result, Settle(i, a, outcome, result),
         \/ outcome = "success" /\ result = a
         \/ outcome = "failed" /\ result = output[i],
         UNCHANGED <<attemptOf, removing, purged, client>>
  PROVE  /\ itemStatus' = [itemStatus EXCEPT ![i] = outcome] /\ Refreshed(BatchOf[i])
         /\ attemptStatus' = [attemptStatus EXCEPT ![a] = outcome]
         /\ leaseOwner' = [leaseOwner EXCEPT ![i] = NoAttempt]
         /\ leaseExpired' = leaseExpired \ {i}
         /\ output' = [output EXCEPT ![i] = result]
         /\ LeaseInv' /\ ResultInv' /\ CleanupInv'
<1> DEFINE b == BatchOf[i]
           its == [itemStatus EXCEPT ![i] = outcome]
<1>1. b \in Batch /\ itemStatus[i] = "processing" /\ leaseOwner[i] = a
  BY BatchAssumption DEF HoldsLease
<1>2. batchStatus[b] \in BatchStatus \ {"absent", "removed"}
  BY <1>1 DEF IInv, TypeOK, CleanupInv, RowExists
<1>3. its \in [Item -> ItemStatus] /\ finished[b] \in Stamps
  BY <1>1 DEF IInv, TypeOK, ItemStatus, Stamps
<1>4. itemStatus' = its /\ Refreshed(b)
  BY <1>1, <1>2, <1>3, RefreshFacts DEF IInv, Settle
<1>5. attemptStatus[a] = "processing" /\ attemptOf[a] = i /\ output[i] = NoAttempt
  BY <1>1, BatchAssumption DEF IInv, LeaseInv, ResultInv
<1>6. attemptStatus' = [attemptStatus EXCEPT ![a] = outcome]
  BY <1>5 DEF Settle
<1>7. /\ leaseOwner' = [leaseOwner EXCEPT ![i] = NoAttempt]
      /\ leaseExpired' = leaseExpired \ {i}
      /\ output' = [output EXCEPT ![i] = result]
  BY DEF Settle
<1>8. LeaseInv'
  BY <1>1, <1>4, <1>5, <1>6, <1>7 DEF IInv, TypeOK, LeaseInv
<1>9. ResultInv'
  BY <1>1, <1>4, <1>5, <1>6, <1>7, BatchAssumption DEF IInv, TypeOK, ResultInv
<1>10. CleanupInv'
  <2>1. ASSUME NEW x \in removing
        PROVE  In(itemStatus', x, Open) = In(itemStatus, x, Open)
    BY <1>4 DEF In, ItemsOf, IInv, TypeOK
  <2>2. ASSUME NEW j \in Item, itemStatus'[j] # "absent"
        PROVE  batchStatus'[BatchOf[j]] \notin {"absent", "removed"}
    BY <1>1, <1>4, <2>2, BatchAssumption DEF IInv, TypeOK, CleanupInv, RowExists, Refreshed
  <2>. QED BY <2>1, <2>2 DEF IInv, CleanupInv, RowExists
<1>. QED BY <1>4, <1>6, <1>7, <1>8, <1>9, <1>10

(* A new lease: the attempt it is taken from stops being in progress.      *)
LEMMA ClaimKeeps ==
  ASSUME IInv, NEW w \in Worker, ClaimNext(w)
  PROVE  IInv'
<1> DEFINE i == worker[w].item
           b == BatchOf[i]
           its == [itemStatus EXCEPT ![i] = "processing"]
<1> USE DEF attempts, files, cleanup
<1>1. i \in Item /\ b \in Batch /\ b \notin removing /\ Claimable(i)
  BY BatchAssumption DEF IInv, WorkerInv, ClaimNext, Unlocked
<1>2. PICK a \in UnusedAttempts :
        /\ attemptStatus' = AttemptsAfterClaim(i, a)
        /\ attemptOf' = [attemptOf EXCEPT ![a] = i]
        /\ leaseOwner' = [leaseOwner EXCEPT ![i] = a]
        /\ leaseExpired' = leaseExpired \ {i}
        /\ RefreshBatch(b, its, batchStatus[b], finished[b])
        /\ \E next \in {Holding("claimed", i, a), Idle} : worker' = [worker EXCEPT ![w] = next]
  BY DEF ClaimNext
<1>3. UNCHANGED <<archive, output, files, client, cleanup>>
  BY DEF ClaimNext
<1>4. /\ its \in [Item -> ItemStatus] /\ finished[b] \in Stamps
      /\ batchStatus[b] \in BatchStatus \ {"absent", "removed"}
  BY <1>1 DEF IInv, TypeOK, ItemStatus, BatchStatus, Stamps, Claimable, Open
<1>5. itemStatus' = its /\ Refreshed(b)
  BY <1>1, <1>2, <1>4, RefreshFacts DEF IInv
<1>6. /\ a \in Attempt /\ a # NoAttempt /\ attemptStatus[a] = "unused"
      /\ itemStatus[i] \in {"queued", "processing"}
      /\ attemptStatus'[a] = "processing"
      /\ \A x \in Attempt : x # a /\ x # leaseOwner[i] => attemptStatus'[x] = attemptStatus[x]
      /\ leaseOwner[i] \in Attempt => attemptStatus'[leaseOwner[i]] = "failed"
  BY <1>1, <1>2, BatchAssumption
     DEF IInv, TypeOK, LeaseInv, AttemptsAfterClaim, UnusedAttempts, Claimable
<1>7. TypeOK'
  <2>1. attemptStatus' \in [Attempt -> {"unused", "processing", "success", "failed", "deleted"}]
    BY <1>2 DEF IInv, TypeOK, AttemptsAfterClaim
  <2>2. worker' \in [Worker -> [pc : {"idle", "polled"} \cup Busy,
                       item : Item \cup {NoItem}, attempt : Attempt \cup {NoAttempt}]]
    BY <1>1, <1>2, <1>6 DEF IInv, TypeOK, Holding, Idle, Busy
  <2>3. /\ attemptOf' \in [Attempt -> Item \cup {NoItem}]
        /\ leaseOwner' \in [Item -> Attempt \cup {NoAttempt}] /\ leaseExpired' \subseteq Item
    BY <1>1, <1>2, <1>6 DEF IInv, TypeOK
  <2>4. /\ itemStatus' \in [Item -> ItemStatus] /\ batchStatus' \in [Batch -> BatchStatus]
        /\ finished' \in [Batch -> {"null", "recent", "expired"}]
        /\ tally' \in [Batch -> [Counted -> Nat]]
    BY <1>4, <1>5 DEF Refreshed, Stamps
  <2>. QED BY <1>3, <2>1, <2>2, <2>3, <2>4 DEF IInv, TypeOK
<1>8. LeaseInv'
  BY <1>1, <1>2, <1>5, <1>6 DEF IInv, TypeOK, LeaseInv
<1>9. ResultInv'
  BY <1>1, <1>2, <1>3, <1>5, <1>6 DEF IInv, TypeOK, LeaseInv, ResultInv
<1>10. WorkerInv'
  BY <1>1, <1>2, <1>6 DEF IInv, TypeOK, LeaseInv, WorkerInv, Holding, Idle, Busy
<1>11. StagedInv'
  BY <1>1, <1>2, <1>3, <1>5, <1>6 DEF IInv, TypeOK, WorkerInv, StagedInv, HoldsLease, Holding, Idle, Busy
<1>12. FilesKept'
  BY <1>1, <1>3, <1>5, <1>6 DEF IInv, TypeOK, FilesKept
<1>13. CleanupInv'
  <2>1. ASSUME NEW x \in removing
        PROVE  In(itemStatus', x, Open) = In(itemStatus, x, Open)
    BY <1>1, <1>5 DEF In, ItemsOf, IInv, TypeOK
  <2>2. ASSUME NEW j \in Item, itemStatus'[j] # "absent"
        PROVE  batchStatus'[BatchOf[j]] \notin {"absent", "removed"}
    BY <1>1, <1>4, <1>5, <2>2, BatchAssumption DEF IInv, TypeOK, CleanupInv, RowExists, Refreshed
  <2>. QED BY <1>3, <2>1, <2>2 DEF IInv, CleanupInv, RowExists
<1>. QED BY <1>7, <1>8, <1>9, <1>10, <1>11, <1>12, <1>13 DEF IInv

(* A step of a worker that holds an attempt: it keeps it or becomes idle.  *)
Moved(w, pc) ==
  /\ worker' \in [Worker -> [pc : {"idle", "polled"} \cup Busy,
                             item : Item \cup {NoItem}, attempt : Attempt \cup {NoAttempt}]]
  /\ \A v \in Worker : v # w => worker'[v] = worker[v]
  /\ worker'[w].pc = pc
  /\ pc # "idle" => /\ worker[w].pc \in Busy
                    /\ worker'[w].item = worker[w].item
                    /\ worker'[w].attempt = worker[w].attempt

(* A worker that only changes its program counter keeps its type and work. *)
LEMMA MoveFacts ==
  ASSUME TypeOK, NEW w \in Worker, NEW pc \in Busy \cup {"idle"},
         \/ pc = "idle" /\ worker' = [worker EXCEPT ![w] = Idle]
         \/ /\ pc # "idle" /\ worker[w].pc \in Busy
            /\ \/ worker' = [worker EXCEPT ![w].pc = pc]
               \/ worker' = [worker EXCEPT ![w] = Holding(pc, worker[w].item, worker[w].attempt)]
  PROVE  Moved(w, pc)
<1>1. CASE pc = "idle"
  BY <1>1 DEF TypeOK, Moved, Idle, Busy
<1>2. CASE pc # "idle" /\ worker' = [worker EXCEPT ![w].pc = pc]
  BY <1>2 DEF TypeOK, Moved, Busy
<1>3. CASE pc # "idle" /\ worker' = [worker EXCEPT ![w] = Holding(pc, worker[w].item, worker[w].attempt)]
  BY <1>3 DEF TypeOK, Moved, Holding, Busy
<1>. QED BY <1>1, <1>2, <1>3

(* Every step of a worker keeps the invariant, a crash included.           *)
LEMMA WorkerStepKeeps ==
  ASSUME IInv, NEW w \in Worker, WorkerStep(w)
  PROVE  IInv'
<1> DEFINE i == worker[w].item
           a == worker[w].attempt
<1> USE DEF batchRow, itemRow, attempts, files, cleanup
<1>1. CASE Poll(w)
  <2>1. TypeOK'
    BY <1>1 DEF IInv, TypeOK, Poll, Polled
  <2>2. WorkerInv'
    BY <1>1 DEF IInv, TypeOK, WorkerInv, Poll, Polled, Busy
  <2>3. StagedInv'
    BY <1>1 DEF IInv, TypeOK, StagedInv, HoldsLease, Poll, Polled
  <2>. QED BY <1>1, <2>1, <2>2, <2>3, RowsFrame, FilesFrame, CleanupFrame DEF IInv, Poll
<1>2. CASE ClaimNext(w)
  BY <1>2, ClaimKeeps
\* The steps that only move the worker on.
<1>3. CASE ClaimNothing(w) \/ ClaimError(w) \/ Crash(w) \/ ReadSource(w) \/ PublishError(w)
  <2>1. UNCHANGED <<batchRow, archive, itemRow, attempts, files, client, cleanup>>
    BY <1>3 DEF ClaimNothing, ClaimError, Crash, ReadSource, PublishError
  <2>2. PICK pc \in {"idle", "dispatching", "failing", "uncertain"} :
        Moved(w, pc) /\ (pc # "idle" => worker[w].pc # "uncertain")
    <3>1. CASE ClaimNothing(w) \/ ClaimError(w) \/ Crash(w)
      BY <3>1, MoveFacts DEF IInv, ClaimNothing, ClaimError, Crash
    <3>2. CASE ReadSource(w)
      BY <3>2, MoveFacts DEF IInv, ReadSource, Busy
    <3>3. CASE PublishError(w)
      BY <3>3, MoveFacts DEF IInv, PublishError, Busy
    <3>. QED BY <1>3, <3>1, <3>2, <3>3
  <2>3. TypeOK'
    BY <2>1, <2>2 DEF IInv, TypeOK, Moved
  <2>4. WorkerInv'
    BY <2>1, <2>2 DEF IInv, WorkerInv, Moved, Busy
  <2>5. StagedInv'
    BY <2>1, <2>2 DEF IInv, StagedInv, HoldsLease, Moved
  <2>. QED BY <2>1, <2>3, <2>4, <2>5, RowsFrame, FilesFrame, CleanupFrame DEF IInv
<1>4. CASE StageOutput(w) \/ DispatchFails(w)
  <2>1. /\ worker[w].pc = "dispatching" /\ a \in Attempt
        /\ staged \subseteq staged' /\ staged' \subseteq staged \cup {a}
        /\ UNCHANGED <<batchRow, archive, itemRow, attempts, sources, zips, purged, client, cleanup>>
    BY <1>4 DEF StageOutput, DispatchFails, IInv, WorkerInv, Busy
  <2>2. \/ Moved(w, "staged") /\ a \in staged'
        \/ Moved(w, "failing")
    BY <1>4, MoveFacts DEF IInv, StageOutput, DispatchFails, Busy
  <2>3. TypeOK'
    BY <2>1, <2>2 DEF IInv, TypeOK, Moved
  <2>4. WorkerInv'
    BY <2>1, <2>2 DEF IInv, WorkerInv, Moved, Busy
  <2>5. StagedInv'
    BY <2>1, <2>2 DEF IInv, StagedInv, HoldsLease, Moved
  <2>6. FilesKept'
    BY <2>1 DEF IInv, FilesKept
  <2>. QED BY <2>1, <2>3, <2>4, <2>5, <2>6, RowsFrame, CleanupFrame DEF IInv
<1>5. CASE Publish(w)
  <2>1. /\ worker[w].pc = "staged" /\ i \in Item /\ a \in Attempt /\ a # NoAttempt
        /\ BatchOf[i] \notin removing /\ HoldsLease(i, a) /\ Settle(i, a, "success", a)
        /\ archive' = [archive EXCEPT ![BatchOf[i]] = {}]
        /\ UNCHANGED <<attemptOf, files, client, cleanup>>
    BY <1>5, BatchAssumption DEF Publish, IInv, WorkerInv, Busy, Unlocked
  <2>2. Moved(w, "idle") \/ Moved(w, "uncertain")
    BY <1>5, MoveFacts DEF Publish, IInv, Busy
  <2>3. /\ itemStatus' = [itemStatus EXCEPT ![i] = "success"] /\ Refreshed(BatchOf[i])
        /\ attemptStatus' = [attemptStatus EXCEPT ![a] = "success"]
        /\ leaseOwner' = [leaseOwner EXCEPT ![i] = NoAttempt]
        /\ leaseExpired' = leaseExpired \ {i}
        /\ output' = [output EXCEPT ![i] = a]
        /\ LeaseInv' /\ ResultInv' /\ CleanupInv'
    BY <2>1, SettleKeeps
  <2>4. TypeOK'
    BY <2>1, <2>2, <2>3 DEF IInv, TypeOK, Refreshed, Stamps, ItemStatus, Moved
  <2>5. WorkerInv'
    <3>1. ASSUME NEW v \in Worker, v # w, worker[v].pc \in Busy
          PROVE  attemptStatus'[worker[v].attempt] = attemptStatus[worker[v].attempt]
      BY <2>1, <2>3, <3>1 DEF IInv, TypeOK, WorkerInv, Busy
    <3>2. attemptStatus'[a] = "success" /\ attemptOf[a] = i
      BY <2>1, <2>3 DEF IInv, TypeOK, WorkerInv, Busy
    <3>. QED BY <2>1, <2>2, <3>1, <3>2 DEF IInv, WorkerInv, Moved, Busy
  <2>6. StagedInv'
    BY <2>1, <2>2, <2>3 DEF IInv, TypeOK, WorkerInv, StagedInv, HoldsLease, Moved, Busy
  <2>7. FilesKept'
    BY <2>1, <2>3 DEF IInv, TypeOK, StagedInv, FilesKept, HoldsLease
  <2>. QED BY <2>3, <2>4, <2>5, <2>6, <2>7 DEF IInv
<1>6. CASE PublishFenced(w)
  <2>1. /\ worker[w].pc = "staged" /\ a \in Attempt /\ attemptStatus[a] # "success"
        /\ staged' = staged \ {a} /\ worker' = [worker EXCEPT ![w] = Idle]
        /\ UNCHANGED <<batchRow, archive, itemRow, attempts, sources, zips, purged, client, cleanup>>
    BY <1>6 DEF PublishFenced, IInv, WorkerInv, Busy
  <2>2. TypeOK'
    BY <2>1 DEF IInv, TypeOK, Idle
  <2>3. WorkerInv'
    BY <2>1 DEF IInv, TypeOK, WorkerInv, Idle, Busy
  <2>4. StagedInv'
    BY <2>1 DEF IInv, TypeOK, WorkerInv, StagedInv, HoldsLease, Idle, Busy
  <2>5. FilesKept'
    BY <2>1 DEF IInv, ResultInv, FilesKept
  <2>. QED BY <2>1, <2>2, <2>3, <2>4, <2>5, RowsFrame, CleanupFrame DEF IInv
<1>7. CASE RecordFailure(w) \/ FailureLost(w)
  <2>1. /\ worker[w].pc \in {"failing", "uncertain"} /\ i \in Item /\ a \in Attempt /\ a # NoAttempt
        /\ worker[w].pc # "uncertain" => attemptStatus[a] # "success"
        /\ staged' = IF worker[w].pc = "uncertain" THEN staged ELSE staged \ {a}
        /\ worker' = [worker EXCEPT ![w] = Idle]
        /\ UNCHANGED <<archive, attemptOf, sources, zips, purged, client, cleanup>>
    BY <1>7, BatchAssumption
       DEF RecordFailure, FailureLost, ReleaseStaged, IInv, WorkerInv, Busy
  <2>2. \/ UNCHANGED <<batchRow, itemRow, attemptStatus>>
        \/ /\ itemStatus[i] = "processing" /\ leaseOwner[i] = a
           /\ itemStatus' = [itemStatus EXCEPT ![i] = "failed"] /\ Refreshed(BatchOf[i])
           /\ attemptStatus' = [attemptStatus EXCEPT ![a] = "failed"]
           /\ leaseOwner' = [leaseOwner EXCEPT ![i] = NoAttempt]
           /\ leaseExpired' = leaseExpired \ {i}
           /\ output' = output
           /\ LeaseInv' /\ ResultInv' /\ CleanupInv'
    <3>1. CASE RecordFailure(w) /\ HoldsLease(i, a)
      <4>1. BatchOf[i] \notin removing /\ Settle(i, a, "failed", output[i])
        BY <3>1 DEF RecordFailure, Unlocked
      <4>. QED BY <2>1, <3>1, <4>1, SettleKeeps DEF HoldsLease, IInv, TypeOK
    <3>. QED BY <1>7, <3>1 DEF RecordFailure, FailureLost
  <2>3. TypeOK'
    BY <2>1, <2>2 DEF IInv, TypeOK, Refreshed, Stamps, ItemStatus, Idle
  <2>4. LeaseInv' /\ ResultInv' /\ CleanupInv'
    BY <2>1, <2>2, RowsFrame, CleanupFrame DEF IInv
  <2>5. WorkerInv'
    BY <2>1, <2>2 DEF IInv, TypeOK, WorkerInv, Idle, Busy
  <2>6. StagedInv'
    BY <2>1, <2>2 DEF IInv, TypeOK, WorkerInv, StagedInv, HoldsLease, Idle, Busy
  <2>7. FilesKept'
    BY <2>1, <2>2 DEF IInv, TypeOK, ResultInv, FilesKept
  <2>. QED BY <2>3, <2>4, <2>5, <2>6, <2>7 DEF IInv
<1>. QED BY <1>1, <1>2, <1>3, <1>4, <1>5, <1>6, <1>7 DEF WorkerStep

(* The invariant holds before anything is created.                         *)
LEMMA InitHolds == Init => IInv
<1> SUFFICES ASSUME Init PROVE IInv
  OBVIOUS
<1>1. TypeOK
  BY DEF Init, TypeOK, BatchStatus, ItemStatus, Idle, NoRequest
<1>2. LeaseInv /\ ResultInv /\ FilesKept
  BY BatchAssumption DEF Init, LeaseInv, ResultInv, FilesKept
<1>3. WorkerInv /\ StagedInv /\ CleanupInv
  BY DEF Init, WorkerInv, StagedInv, CleanupInv, Idle, NoRequest, Busy
<1>. QED BY <1>1, <1>2, <1>3 DEF IInv

(* Every step keeps the invariant.                                         *)
LEMMA NextKeeps == IInv /\ [Next]_vars => IInv'
<1> SUFFICES ASSUME IInv, [Next]_vars PROVE IInv'
  OBVIOUS
<1>1. CASE ListExpired
  <2>1. TypeOK'
    BY <1>1 DEF IInv, TypeOK, ListExpired, batchRow, itemRow, attempts, files
  <2>. QED BY <1>1, <2>1, RowsFrame, WorkerFrame, FilesFrame, StagedFrame, CleanupFrame
           DEF IInv, ListExpired, batchRow, itemRow, attempts, files
<1>2. CASE UNCHANGED vars
  <2>1. TypeOK'
    BY <1>2 DEF IInv, TypeOK, vars, batchRow, itemRow, attempts, files, cleanup
  <2>. QED BY <1>2, <2>1, RowsFrame, WorkerFrame, FilesFrame, StagedFrame, CleanupFrame
           DEF IInv, vars, batchRow, itemRow, attempts, files, cleanup
<1>. QED BY <1>1, <1>2, BatchStepKeeps, ItemStepKeeps, WorkerStepKeeps, ClientStepKeeps DEF Next

(* The invariant holds in every reachable state, whatever the interleaving *)
(* of requests, workers, crashes, lost acknowledgements and cleanups.      *)
THEOREM Invariance == Spec => []IInv
BY InitHolds, NextKeeps, PTL DEF Spec

(* Every column keeps its range and every file set its kind.               *)
THEOREM TypeCorrect == Spec => []TypeOK
<1>1. IInv => TypeOK
  BY DEF IInv
<1>. QED BY <1>1, Invariance, PTL

(* An item never has two attempts in progress, and the one it has owns the *)
(* lease: no interleaving of claims lets two workers settle it.            *)
THEOREM LeaseExclusive == Spec => []OneLiveAttempt
<1>1. IInv => OneLiveAttempt
  BY BatchAssumption DEF IInv, TypeOK, LeaseInv, OneLiveAttempt
<1>. QED BY <1>1, Invariance, PTL

(* An item has at most one successful attempt, the one its output is from. *)
THEOREM PublishOnce == Spec => []PublishedOnce
<1>1. IInv => PublishedOnce
  BY BatchAssumption DEF IInv, TypeOK, ResultInv, PublishedOnce
<1>. QED BY <1>1, Invariance, PTL

(* No file a row points to is lost before retention deletes the directory: *)
(* neither to a lost acknowledgement nor to a stale worker.                *)
THEOREM FilesSafe == Spec => []FilesKept
<1>1. IInv => FilesKept
  BY DEF IInv
<1>. QED BY <1>1, Invariance, PTL

-----------------------------------------------------------------------------
(* What no step may do.                                                    *)

(* A published result stays until the rows of its batch are deleted.       *)
THEOREM ResultsFinal == Spec => ResultFinal
<1> DEFINE Kept == \A i \in Item :
       itemStatus[i] = "success" =>
         \/ itemStatus'[i] = "success" /\ output'[i] = output[i]
         \/ batchStatus'[BatchOf[i]] = "removed"
<1> USE DEF batchRow, itemRow, attempts, files, cleanup
<1>1. ASSUME IInv, [Next]_vars PROVE Kept
  <2>1. CASE UNCHANGED itemRow
    BY <2>1
  <2>2. ASSUME NEW b \in Batch, BatchStep(b) PROVE Kept
    <3>1. CASE Commit(b)
      BY <3>1, RefreshSetsItems DEF Commit, In
    <3>2. CASE Cancel(b)
      BY <3>2, RefreshSetsItems DEF Cancel, In
    <3>3. CASE RemoveRows(b)
      <4>1. batchStatus'[b] = "removed"
        BY <1>1, <3>3 DEF IInv, TypeOK, RemoveRows
      <4>2. \A i \in Item : i \notin ItemsOf(b) =>
              itemStatus'[i] = itemStatus[i] /\ output'[i] = output[i]
        BY <3>3 DEF RemoveRows
      <4>. QED BY <4>1, <4>2 DEF ItemsOf
    <3>4. CASE Create(b) \/ RetentionPasses(b) \/ RemoveFiles(b) \/ SkipRemoval(b) \/ RemovalRolledBack(b)
      BY <2>1, <3>4 DEF Create, RetentionPasses, RemoveFiles, SkipRemoval, RemovalRolledBack
    <3>. QED BY <2>2, <3>1, <3>2, <3>3, <3>4 DEF BatchStep
  <2>3. ASSUME NEW i \in Item, ItemStep(i) PROVE Kept
    <3>1. CASE Upload(i)
      <4>1. /\ itemStatus[i] = "absent" /\ output' = output
            /\ itemStatus' = itemStatus \/ itemStatus' = [itemStatus EXCEPT ![i] = "uploaded"]
        BY <3>1, RefreshSetsItems DEF Upload
      <4>. QED BY <1>1, <4>1 DEF IInv, TypeOK
    <3>2. CASE Retry(i)
      BY <1>1, <3>2, RefreshSetsItems DEF IInv, TypeOK, Retry
    <3>3. CASE LeaseExpires(i)
      BY <3>3 DEF LeaseExpires
    <3>. QED BY <2>3, <3>1, <3>2, <3>3 DEF ItemStep
  <2>4. ASSUME NEW w \in Worker, WorkerStep(w) PROVE Kept
    <3>1. CASE ClaimNext(w)
      <4>1. /\ itemStatus[worker[w].item] # "success" /\ output' = output
            /\ itemStatus' = [itemStatus EXCEPT ![worker[w].item] = "processing"]
        BY <3>1, RefreshSetsItems DEF ClaimNext, Claimable
      <4>. QED BY <1>1, <4>1 DEF IInv, TypeOK
    <3>2. CASE Publish(w)
      <4>1. /\ itemStatus[worker[w].item] = "processing"
            /\ itemStatus' = [itemStatus EXCEPT ![worker[w].item] = "success"]
            /\ output' = [output EXCEPT ![worker[w].item] = worker[w].attempt]
        BY <3>2, RefreshSetsItems DEF Publish, HoldsLease, Settle
      <4>. QED BY <1>1, <4>1 DEF IInv, TypeOK
    <3>3. CASE RecordFailure(w)
      <4>1. \/ UNCHANGED itemRow
            \/ /\ itemStatus[worker[w].item] = "processing"
               /\ itemStatus' = [itemStatus EXCEPT ![worker[w].item] = "failed"]
               /\ output' = [output EXCEPT ![worker[w].item] = output[worker[w].item]]
        BY <3>3, RefreshSetsItems DEF RecordFailure, HoldsLease, Settle
      <4>. QED BY <1>1, <4>1 DEF IInv, TypeOK
    <3>4. CASE \/ Poll(w) \/ ClaimNothing(w) \/ ClaimError(w) \/ ReadSource(w)
               \/ StageOutput(w) \/ DispatchFails(w)
               \/ PublishFenced(w) \/ PublishError(w) \/ FailureLost(w) \/ Crash(w)
      BY <2>1, <3>4 DEF Poll, ClaimNothing, ClaimError, ReadSource, StageOutput, DispatchFails,
                        PublishFenced, PublishError, FailureLost, Crash
    <3>. QED BY <2>4, <3>1, <3>2, <3>3, <3>4 DEF WorkerStep
  <2>5. ASSUME NEW c \in Client, ClientStep(c) PROVE Kept
    BY <2>1, <2>5 DEF ClientStep, Snapshot, BuildArchive, FinishDownload
  <2>. QED BY <1>1, <2>1, <2>2, <2>3, <2>4, <2>5 DEF Next, ListExpired, vars
<1>2. IInv /\ [Next]_vars => [Kept]_vars
  BY <1>1
<1>. QED BY <1>2, Invariance, PTL DEF Spec, ResultFinal

-----------------------------------------------------------------------------
(* Every step of the batch subsystem is a step of the ledger, or leaves    *)
(* the ledger as it is.                                                    *)

(* A step that leaves the item rows and the attempts alone is a stutter.   *)
LEMMA LedgerStutters ==
  ASSUME UNCHANGED <<itemRow, attemptStatus>>
  PROVE  UNCHANGED Ledger!ledger
BY DEF itemRow, UnusedAttempts, Ledger!ledger

(* Requests and cleanups enqueue, withdraw or forget items of the ledger.  *)
LEMMA BatchStepRefines ==
  ASSUME IInv, NEW b \in Batch, BatchStep(b)
  PROVE  [Ledger!Next]_(Ledger!ledger)
<1> USE DEF batchRow, itemRow, attempts, files, cleanup
<1> DEFINE S == {i \in Item : itemStatus'[i] # itemStatus[i]}
<1>1. CASE Commit(b)
  <2>1. itemStatus' = [i \in Item |-> IF batchStatus[b] = "draft" /\ i \in In(itemStatus, b, {"uploaded"})
                                      THEN "queued" ELSE itemStatus[i]]
    BY <1>1, RefreshSetsItems DEF Commit
  <2>2. /\ \A i \in S : itemStatus[i] = "uploaded"
        /\ itemStatus' = [i \in Item |-> IF i \in S THEN "queued" ELSE itemStatus[i]]
    BY <2>1 DEF In
  <2>3. UNCHANGED <<leaseOwner, output, attemptStatus>>
    BY <1>1 DEF Commit
  <2>4. Ledger!Enqueue(S)
    BY <2>2, <2>3 DEF Ledger!Enqueue, Ledger!All, Ledger!Move, UnusedAttempts
  <2>. QED BY <2>4 DEF Ledger!Next
<1>2. CASE Cancel(b)
  <2>1. itemStatus' = [i \in Item |-> IF i \in In(itemStatus, b, {"uploaded", "queued"})
                                      THEN "canceled" ELSE itemStatus[i]]
    BY <1>2, RefreshSetsItems DEF Cancel
  <2>2. /\ \A i \in S : itemStatus[i] \in {"uploaded", "queued"}
        /\ itemStatus' = [i \in Item |-> IF i \in S THEN "canceled" ELSE itemStatus[i]]
    BY <2>1 DEF In
  <2>3. UNCHANGED <<leaseOwner, output, attemptStatus>>
    BY <1>2 DEF Cancel
  <2>4. Ledger!Withdraw(S)
    BY <2>2, <2>3 DEF Ledger!Withdraw, Ledger!All, Ledger!Move, UnusedAttempts
  <2>. QED BY <2>4 DEF Ledger!Next
<1>3. CASE RemoveRows(b)
  <2>1. \A i \in ItemsOf(b) :
          /\ itemStatus[i] \in {"absent", "uploaded", "success", "failed", "canceled"}
          /\ leaseOwner[i] = NoAttempt
    BY <1>3 DEF IInv, TypeOK, LeaseInv, CleanupInv, RemoveRows, In, ItemsOf, Open, ItemStatus
  <2>2. leaseOwner' = leaseOwner
    BY <1>3, <2>1 DEF IInv, TypeOK, RemoveRows
  <2>3. \A a \in AttemptsOf(b) : attemptStatus[a] # "unused"
    BY BatchAssumption DEF IInv, LeaseInv, AttemptsOf, ItemsOf
  <2>4. UnusedAttempts' = UnusedAttempts
    BY <1>3, <2>3 DEF RemoveRows, UnusedAttempts
  <2>5. Ledger!Forget(ItemsOf(b))
    BY <1>3, <2>1, <2>2, <2>4 DEF RemoveRows, Ledger!Forget, Ledger!All, Ledger!Move
  <2>6. ItemsOf(b) \in SUBSET Item
    BY DEF ItemsOf
  <2>. QED BY <2>5, <2>6 DEF Ledger!Next
<1>4. CASE Create(b) \/ RetentionPasses(b) \/ RemoveFiles(b) \/ SkipRemoval(b) \/ RemovalRolledBack(b)
  BY <1>4, LedgerStutters DEF Create, RetentionPasses, RemoveFiles, SkipRemoval, RemovalRolledBack
<1>. QED BY <1>1, <1>2, <1>3, <1>4 DEF BatchStep

(* An upload accepts an item, a retry reopens it.                          *)
LEMMA ItemStepRefines ==
  ASSUME IInv, NEW i \in Item, ItemStep(i)
  PROVE  [Ledger!Next]_(Ledger!ledger)
<1> USE DEF itemRow, attempts
<1>1. CASE Upload(i)
  <2>1. /\ itemStatus[i] = "absent" /\ UNCHANGED <<leaseOwner, leaseExpired, output, attemptStatus>>
        /\ itemStatus' = itemStatus \/ itemStatus' = [itemStatus EXCEPT ![i] = "uploaded"]
    BY <1>1, RefreshSetsItems DEF Upload
  <2>2. CASE itemStatus' = itemStatus
    BY <2>1, <2>2, LedgerStutters
  <2>3. CASE itemStatus' = [itemStatus EXCEPT ![i] = "uploaded"]
    <3>1. Ledger!Accept(i)
      BY <2>1, <2>3 DEF IInv, TypeOK, Ledger!Accept, Ledger!Move, UnusedAttempts
    <3>. QED BY <3>1 DEF Ledger!Next
  <2>. QED BY <2>1, <2>2, <2>3
<1>2. CASE Retry(i)
  <2>1. /\ itemStatus[i] = "failed" /\ itemStatus' = [itemStatus EXCEPT ![i] = "queued"]
        /\ UNCHANGED attemptStatus
    BY <1>2, RefreshSetsItems DEF Retry
  <2>2. UNCHANGED <<leaseOwner, output>>
    BY <1>2 DEF Retry, IInv, TypeOK, LeaseInv, ResultInv
  <2>3. Ledger!Reopen(i)
    BY <2>1, <2>2 DEF IInv, TypeOK, Ledger!Reopen, Ledger!Move, UnusedAttempts
  <2>. QED BY <2>3 DEF Ledger!Next
<1>3. CASE LeaseExpires(i)
  BY <1>3 DEF LeaseExpires, Ledger!ledger, UnusedAttempts
<1>. QED BY <1>1, <1>2, <1>3 DEF ItemStep

(* A claim gives a grant, a settlement publishes or gives up.              *)
LEMMA WorkerStepRefines ==
  ASSUME IInv, NEW w \in Worker, WorkerStep(w)
  PROVE  [Ledger!Next]_(Ledger!ledger)
<1> DEFINE i == worker[w].item
           a == worker[w].attempt
<1> USE DEF itemRow, attempts
<1>1. CASE ClaimNext(w)
  <2>1. PICK g \in UnusedAttempts :
          /\ attemptStatus' = AttemptsAfterClaim(i, g)
          /\ leaseOwner' = [leaseOwner EXCEPT ![i] = g]
          /\ itemStatus' = [itemStatus EXCEPT ![i] = "processing"]
    BY <1>1, RefreshSetsItems DEF ClaimNext
  <2>2. i \in Item /\ itemStatus[i] \in {"queued", "processing"} /\ output' = output
    BY <1>1 DEF IInv, WorkerInv, ClaimNext, Claimable
  <2>3. Attempt \ UnusedAttempts' = (Attempt \ UnusedAttempts) \cup {g}
    BY <2>1 DEF UnusedAttempts, AttemptsAfterClaim
  <2>4. g \in Attempt /\ Ledger!Give(i, g)
    BY <2>1, <2>2, <2>3 DEF IInv, TypeOK, UnusedAttempts, Ledger!Give, Ledger!Move
  <2>. QED BY <2>2, <2>4 DEF Ledger!Next
<1>2. CASE Publish(w)
  <2>1. /\ i \in Item /\ a \in Attempt /\ BatchOf[i] \notin removing /\ HoldsLease(i, a)
        /\ Settle(i, a, "success", a) /\ UNCHANGED <<attemptOf, files, client, cleanup>>
    BY <1>2 DEF Publish, IInv, WorkerInv, Busy, Unlocked
  <2>2. /\ itemStatus' = [itemStatus EXCEPT ![i] = "success"]
        /\ leaseOwner' = [leaseOwner EXCEPT ![i] = NoAttempt]
        /\ output' = [output EXCEPT ![i] = a]
        /\ attemptStatus' = [attemptStatus EXCEPT ![a] = "success"]
    BY <2>1, SettleKeeps DEF files, cleanup
  <2>3. itemStatus[i] = "processing" /\ leaseOwner[i] = a /\ attemptStatus[a] # "unused"
    BY <1>2, <2>1 DEF HoldsLease, Publish, IInv, WorkerInv, Busy
  <2>4. UnusedAttempts' = UnusedAttempts
    BY <2>1, <2>2, <2>3 DEF UnusedAttempts, IInv, TypeOK
  <2>5. Ledger!Publish(i)
    BY <2>1, <2>2, <2>3, <2>4 DEF IInv, TypeOK, Ledger!Publish, Ledger!Move
  <2>. QED BY <2>1, <2>5 DEF Ledger!Next
<1>3. CASE RecordFailure(w) /\ HoldsLease(i, a)
  <2>1. /\ i \in Item /\ a \in Attempt /\ BatchOf[i] \notin removing
        /\ Settle(i, a, "failed", output[i]) /\ UNCHANGED <<attemptOf, purged, client, cleanup>>
    BY <1>3 DEF RecordFailure, ReleaseStaged, IInv, WorkerInv, Busy, Unlocked
  <2>2. /\ itemStatus' = [itemStatus EXCEPT ![i] = "failed"]
        /\ leaseOwner' = [leaseOwner EXCEPT ![i] = NoAttempt]
        /\ output' = [output EXCEPT ![i] = output[i]]
        /\ attemptStatus' = [attemptStatus EXCEPT ![a] = "failed"]
    BY <1>3, <2>1, SettleKeeps DEF cleanup
  <2>3. itemStatus[i] = "processing" /\ attemptStatus[a] # "unused"
    BY <1>3, <2>1 DEF HoldsLease, RecordFailure, IInv, WorkerInv, Busy
  <2>4. UnusedAttempts' = UnusedAttempts
    BY <2>1, <2>2, <2>3 DEF UnusedAttempts, IInv, TypeOK
  <2>5. Ledger!GiveUp(i)
    BY <2>1, <2>2, <2>3, <2>4 DEF IInv, TypeOK, Ledger!GiveUp, Ledger!Move
  <2>. QED BY <2>1, <2>5 DEF Ledger!Next
<1>4. CASE RecordFailure(w) /\ ~HoldsLease(i, a)
  BY <1>4, LedgerStutters DEF RecordFailure
<1>5. CASE \/ Poll(w) \/ ClaimNothing(w) \/ ClaimError(w) \/ ReadSource(w)
           \/ StageOutput(w) \/ DispatchFails(w)
           \/ PublishFenced(w) \/ PublishError(w) \/ FailureLost(w) \/ Crash(w)
  BY <1>5, LedgerStutters
     DEF Poll, ClaimNothing, ClaimError, ReadSource, StageOutput, DispatchFails,
         PublishFenced, PublishError, FailureLost, Crash
<1>. QED BY <1>1, <1>2, <1>3, <1>4, <1>5 DEF WorkerStep

(* The batch subsystem implements the ledger of items.                     *)
THEOREM Refinement == Spec => ImplementsLedger
<1>1. Init => Ledger!Init
  BY DEF Init, Ledger!Init, UnusedAttempts
<1>2. IInv /\ [Next]_vars => [Ledger!Next]_(Ledger!ledger)
  <2> SUFFICES ASSUME IInv, [Next]_vars PROVE [Ledger!Next]_(Ledger!ledger)
    OBVIOUS
  <2>1. CASE ListExpired \/ UNCHANGED vars
    BY <2>1, LedgerStutters DEF ListExpired, vars, attempts
  <2>2. ASSUME NEW c \in Client, ClientStep(c) PROVE [Ledger!Next]_(Ledger!ledger)
    BY <2>2, LedgerStutters DEF ClientStep, Snapshot, BuildArchive, FinishDownload, attempts
  <2>. QED BY <2>1, <2>2, BatchStepRefines, ItemStepRefines, WorkerStepRefines DEF Next
<1>. QED BY <1>1, <1>2, Invariance, PTL DEF Spec, ImplementsLedger, Ledger!Spec

-----------------------------------------------------------------------------
(***************************************************************************)
(* What a reader of the batch tables may rely on, for any number of        *)
(* batches, items, attempts, server instances and download requests: the   *)
(* status and the counters of a batch say what its items say, the recorded *)
(* archive is the current one, a canceled batch starts nothing, and files  *)
(* that rows point to go with their expired batch only.                    *)
(***************************************************************************)

(* What batches.status, finished_at and the counters say of the items.     *)

(* StatusAgrees of one batch b, with the items its, the status st, the time
   finished fin and the counters t.                                      *)
AgreesAt(its, st, fin, t, b) ==
  LET some(s) == In(its, b, {s}) # {}
      active == some("uploaded") \/ some("queued") \/ some("processing")
      all(s) == Rows(its, b) = In(its, b, {s})
  IN
  /\ st = "draft" => all("uploaded")
  /\ st = "queued" => some("queued") /\ ~some("processing") /\ ~some("uploaded")
  /\ st = "processing" => some("processing") /\ ~some("uploaded")
  /\ st = "success" => some("success") /\ all("success")
  /\ st = "partial_success" => some("success") /\ ~all("success") /\ ~active
  /\ st = "failed" => ~some("success") /\ ~active
  /\ st = "canceled" => ~some("uploaded") /\ ~some("queued")
  /\ fin # "null" <=> st \in Terminal
  /\ \A s \in Counted : t[s] = Cardinality(In(its, b, {s}))

(* The invariant is this of every batch.                                 *)
LEMMA AgreesEverywhere ==
  StatusAgrees <=> \A b \in Batch : AgreesAt(itemStatus, batchStatus[b], finished[b], tally[b], b)
BY DEF StatusAgrees, AgreesAt

(* The same after a step.                                                  *)
LEMMA AgreesEverywhereNext ==
  StatusAgrees' <=> \A b \in Batch : AgreesAt(itemStatus', batchStatus'[b], finished'[b], tally'[b], b)
BY DEF StatusAgrees, AgreesAt, In, Rows, ItemsOf

(* The agreement depends on the items and the batch columns alone.         *)
LEMMA AgreementFrame ==
  ASSUME StatusAgrees, UNCHANGED <<batchRow, itemStatus>>
  PROVE  StatusAgrees'
BY AgreesEverywhere, AgreesEverywhereNext DEF batchRow

(* A count is zero exactly when nothing is counted.                        *)
LEMMA CountZero ==
  ASSUME NEW its, NEW b, NEW S
  PROVE  Cardinality(In(its, b, S)) = 0 <=> In(its, b, S) = {}
<1>1. In(its, b, S) \subseteq Item
  BY DEF In, ItemsOf
<1>2. IsFiniteSet(In(its, b, S))
  BY <1>1, FS_Subset, BatchAssumption
<1>. QED BY <1>2, FS_EmptySet

(* Counting by disjoint sets of statuses adds up.                          *)
LEMMA CountSplits ==
  ASSUME NEW its, NEW b, NEW S, NEW T, S \cap T = {}
  PROVE  Cardinality(In(its, b, S \cup T)) = Cardinality(In(its, b, S)) + Cardinality(In(its, b, T))
<1>1. IsFiniteSet(In(its, b, S)) /\ IsFiniteSet(In(its, b, T))
  <2>1. In(its, b, S) \subseteq Item /\ In(its, b, T) \subseteq Item
    BY DEF In, ItemsOf
  <2>. QED BY <2>1, FS_Subset, BatchAssumption
<1>2. In(its, b, S \cup T) = In(its, b, S) \cup In(its, b, T) /\ In(its, b, S) \cap In(its, b, T) = {}
  BY DEF In
<1>3. Cardinality({}) = 0
  BY FS_EmptySet
<1>4. Cardinality(In(its, b, S \cup T)) =
        Cardinality(In(its, b, S)) + Cardinality(In(its, b, T)) - Cardinality(In(its, b, S) \cap In(its, b, T))
  BY <1>1, <1>2, FS_Union
<1>5. /\ Cardinality(In(its, b, S)) \in Nat /\ Cardinality(In(its, b, T)) \in Nat
      /\ Cardinality(In(its, b, S) \cap In(its, b, T)) = 0
  BY <1>2, <1>3, CountIsNat
<1>. QED BY <1>4, <1>5

(* The rows of a batch are the uploaded ones and the counted ones.         *)
LEMMA TotalSplits ==
  ASSUME NEW its, NEW b
  PROVE  LET n(s) == Cardinality(In(its, b, {s})) IN
         Total(its, b) = n("uploaded") + n("queued") + n("processing")
                           + n("success") + n("failed") + n("canceled")
<1> DEFINE n(s) == Cardinality(In(its, b, {s}))
           m(S) == Cardinality(In(its, b, S))
<1>1. ItemStatus \ {"absent"} =
        {"uploaded"} \cup ({"queued"} \cup ({"processing"} \cup ({"success"} \cup ({"failed"} \cup {"canceled"}))))
  BY DEF ItemStatus
<1>2. m({"failed"} \cup {"canceled"}) = n("failed") + n("canceled")
  BY CountSplits
<1>3. m({"success"} \cup ({"failed"} \cup {"canceled"})) = n("success") + m({"failed"} \cup {"canceled"})
  BY CountSplits
<1>4. m({"processing"} \cup ({"success"} \cup ({"failed"} \cup {"canceled"}))) =
        n("processing") + m({"success"} \cup ({"failed"} \cup {"canceled"}))
  BY CountSplits
<1>5. m({"queued"} \cup ({"processing"} \cup ({"success"} \cup ({"failed"} \cup {"canceled"})))) =
        n("queued") + m({"processing"} \cup ({"success"} \cup ({"failed"} \cup {"canceled"})))
  BY CountSplits
<1>6. Total(its, b) =
        n("uploaded") + m({"queued"} \cup ({"processing"} \cup ({"success"} \cup ({"failed"} \cup {"canceled"}))))
  BY <1>1, CountSplits DEF Total, Rows
<1>7. \A s : n(s) \in Nat
  BY CountIsNat
<1> HIDE DEF n, m
<1>8. /\ n("uploaded") \in Nat /\ n("queued") \in Nat /\ n("processing") \in Nat
      /\ n("success") \in Nat /\ n("failed") \in Nat /\ n("canceled") \in Nat
  BY <1>7
<1>9. Total(its, b) = n("uploaded") + n("queued") + n("processing")
                           + n("success") + n("failed") + n("canceled")
  BY <1>2, <1>3, <1>4, <1>5, <1>6, <1>8
<1>. QED BY <1>9 DEF n

(* A refresh makes the row of its batch agree with the items it sets: the  *)
(* early returns are harmless for what the callers pass.                   *)
LEMMA RefreshAgrees ==
  ASSUME TypeOK, NEW b \in Batch, NEW its \in [Item -> ItemStatus], NEW st, NEW fin \in Stamps,
         RefreshBatch(b, its, st, fin),
         st = "draft" => fin = "null" /\ Rows(its, b) = In(its, b, {"uploaded"}),
         st # "draft" => In(its, b, {"uploaded"}) = {},
         st = "canceled" => fin # "null" /\ In(its, b, {"queued"}) = {},
         Rows(its, b) = {} => st \in {"draft", "canceled", "failed"},
         st = "failed" => fin # "null"
  PROVE  AgreesAt(its, batchStatus'[b], finished'[b], tally'[b], b)
<1> DEFINE n(s) == Cardinality(In(its, b, {s}))
           t == Tally(its, b)
           total == Total(its, b)
           keeps == KeepsStatus(st, its, b)
           ns == IF keeps THEN st ELSE DerivedStatus(t, total)
           nf == IF keeps THEN fin
                 ELSE IF ns \notin Downloadable THEN "null"
                 ELSE IF fin = "null" THEN "recent" ELSE fin
<1>1. batchStatus'[b] = ns /\ finished'[b] = nf /\ tally'[b] = t
  BY DEF RefreshBatch, TypeOK
<1>2. \A s \in Counted : t[s] = n(s)
  BY DEF Tally
<1>3. /\ t["queued"] = n("queued") /\ t["processing"] = n("processing") /\ t["success"] = n("success")
      /\ t["failed"] = n("failed") /\ t["canceled"] = n("canceled")
  BY <1>2 DEF Counted
<1>4. total = n("uploaded") + n("queued") + n("processing") + n("success") + n("failed") + n("canceled")
  BY TotalSplits
<1>5. /\ n("uploaded") \in Nat /\ n("queued") \in Nat /\ n("processing") \in Nat
      /\ n("success") \in Nat /\ n("failed") \in Nat /\ n("canceled") \in Nat
  BY CountIsNat
<1>6. total = 0 <=> Rows(its, b) = {}
  BY CountZero DEF Total, Rows
<1>7. \A s : n(s) = 0 <=> In(its, b, {s}) = {}
  BY CountZero
<1>8. CASE keeps
  <2>1. nf = fin /\ ns = st
    BY <1>8
  <2>2. st = "canceled" \/ Rows(its, b) = {} \/ (st = "draft" /\ In(its, b, {"uploaded"}) # {})
    BY <1>6, <1>8 DEF KeepsStatus
  <2>3. st \in {"draft", "canceled", "failed"}
    BY <2>2
  <2>4. st = "failed" => \A s \in ItemStatus \ {"absent"} : In(its, b, {s}) = {}
    BY <2>2 DEF Rows, In
  <2>5. fin # "null" <=> st \in Terminal
    BY <2>3 DEF Terminal, Downloadable
  <2> HIDE DEF t, ns, nf
  <2>. QED BY <1>1, <1>2, <2>1, <2>3, <2>4, <2>5 DEF AgreesAt, ItemStatus
<1>9. CASE ~keeps
  <2>1. n("uploaded") = 0 /\ total # 0
    BY <1>6, <1>7, <1>9 DEF KeepsStatus
  <2>2. IsTerminal(t, total) <=> n("queued") = 0 /\ n("processing") = 0
    BY <1>3, <1>4, <1>5, <2>1 DEF IsTerminal
  <2>3. In(its, b, {"success"}) = Rows(its, b) => n("success") = total
    BY DEF Total
  <2>4. n("success") = total =>
          In(its, b, {"queued"}) = {} /\ In(its, b, {"processing"}) = {} /\ In(its, b, {"failed"}) = {}
            /\ In(its, b, {"canceled"}) = {}
    <3>1. ASSUME NEW u \in Nat, NEW q \in Nat, NEW p \in Nat, NEW x \in Nat, NEW f \in Nat, NEW c \in Nat,
                 x = u + q + p + x + f + c
          PROVE  q = 0 /\ p = 0 /\ f = 0 /\ c = 0
      BY <3>1
    <3>2. n("success") = total => n("queued") = 0 /\ n("processing") = 0 /\ n("failed") = 0 /\ n("canceled") = 0
      <4> DEFINE u == n("uploaded")  q == n("queued")  p == n("processing")
                 x == n("success")   f == n("failed")  c == n("canceled")  z == total
      <4>1. z = u + q + p + x + f + c
        BY <1>4
      <4>2. u \in Nat /\ q \in Nat /\ p \in Nat /\ x \in Nat /\ f \in Nat /\ c \in Nat
        BY <1>5
      <4> HIDE DEF u, q, p, x, f, c, z
      <4>3. x = z => q = 0 /\ p = 0 /\ f = 0 /\ c = 0
        BY <3>1, <4>1, <4>2
      <4>. QED BY <4>3 DEF u, q, p, x, f, c, z
    <3>. QED BY <3>2, <1>7
  <2>5. n("success") = total => In(its, b, {"success"}) = Rows(its, b)
    BY <2>1, <2>4, <1>7 DEF Rows, In, ItemStatus
  <2>6. ns = DerivedStatus(t, total)
    BY <1>9
  <2>7. /\ ns = "success" => n("success") = total /\ n("success") > 0
        /\ ns = "partial_success" =>
             n("queued") = 0 /\ n("processing") = 0 /\ n("success") # total /\ n("success") > 0
        /\ ns = "failed" => n("queued") = 0 /\ n("processing") = 0 /\ n("success") = 0
        /\ ns = "processing" => n("processing") > 0
        /\ ns = "queued" => n("queued") > 0 /\ n("processing") = 0
        /\ ns \in Downloadable \cup Open
    BY <1>3, <1>5, <2>1, <2>2, <2>6 DEF DerivedStatus, Downloadable, Open
  <2>8. nf # "null" <=> ns \in Terminal
    BY <1>9, <2>7 DEF Terminal, Downloadable, Open
  <2>9. ns \notin {"draft", "canceled"}
    BY <2>7 DEF Downloadable, Open
  <2> HIDE DEF t, ns, nf
  <2>10. /\ ns = "success" => In(its, b, {"success"}) # {} /\ Rows(its, b) = In(its, b, {"success"})
         /\ ns = "partial_success" => /\ In(its, b, {"success"}) # {} /\ Rows(its, b) # In(its, b, {"success"})
                                      /\ In(its, b, {"queued"}) = {} /\ In(its, b, {"processing"}) = {}
         /\ ns = "failed" => /\ In(its, b, {"success"}) = {}
                             /\ In(its, b, {"queued"}) = {} /\ In(its, b, {"processing"}) = {}
         /\ ns = "processing" => In(its, b, {"processing"}) # {}
         /\ ns = "queued" => In(its, b, {"queued"}) # {} /\ In(its, b, {"processing"}) = {}
    <3>1. ASSUME NEW s PROVE n(s) > 0 => In(its, b, {s}) # {}
      <4>1. n(s) \in Nat /\ (n(s) = 0 <=> In(its, b, {s}) = {})
        BY <1>7, CountIsNat
      <4> HIDE DEF n
      <4>. QED BY <4>1
    <3>2. ASSUME NEW s PROVE n(s) = 0 => In(its, b, {s}) = {}
      BY <1>7
    <3> HIDE DEF n, total
    <3>. QED BY <2>3, <2>5, <2>7, <3>1, <3>2
  <2>11. In(its, b, {"uploaded"}) = {}
    BY <1>7, <2>1
  <2>. QED BY <1>1, <1>2, <2>8, <2>9, <2>10, <2>11 DEF AgreesAt
<1>. QED BY <1>8, <1>9
(* The row of a batch whose items and columns a step leaves alone.         *)
LEMMA OthersAgree ==
  ASSUME NEW b \in Batch, NEW x \in Batch, x # b,
         \A i \in Item : itemStatus'[i] # itemStatus[i] => BatchOf[i] = b,
         batchStatus'[x] = batchStatus[x], finished'[x] = finished[x], tally'[x] = tally[x],
         AgreesAt(itemStatus, batchStatus[x], finished[x], tally[x], x)
  PROVE  AgreesAt(itemStatus', batchStatus'[x], finished'[x], tally'[x], x)
<1>1. \A S : In(itemStatus', x, S) = In(itemStatus, x, S)
  BY DEF In, ItemsOf
<1>2. Rows(itemStatus', x) = Rows(itemStatus, x)
  BY <1>1 DEF Rows
<1>. QED BY <1>1, <1>2 DEF AgreesAt

(* A refresh keeps every row in agreement with the items.                  *)
LEMMA RefreshKeepsAgreement ==
  ASSUME TypeOK, StatusAgrees, NEW b \in Batch, NEW its \in [Item -> ItemStatus], NEW st, NEW fin \in Stamps,
         RefreshBatch(b, its, st, fin),
         \A i \in Item : its[i] # itemStatus[i] => BatchOf[i] = b,
         st = "draft" => fin = "null" /\ Rows(its, b) = In(its, b, {"uploaded"}),
         st # "draft" => In(its, b, {"uploaded"}) = {},
         st = "canceled" => fin # "null" /\ In(its, b, {"queued"}) = {},
         Rows(its, b) = {} => st \in {"draft", "canceled", "failed"},
         st = "failed" => fin # "null"
  PROVE  StatusAgrees'
<1>1. AgreesAt(itemStatus', batchStatus'[b], finished'[b], tally'[b], b)
  BY RefreshAgrees, RefreshSetsItems
<1>2. ASSUME NEW x \in Batch, x # b
      PROVE  AgreesAt(itemStatus', batchStatus'[x], finished'[x], tally'[x], x)
  <2>1. batchStatus'[x] = batchStatus[x] /\ finished'[x] = finished[x] /\ tally'[x] = tally[x]
    BY <1>2 DEF RefreshBatch, TypeOK
  <2>2. \A i \in Item : itemStatus'[i] # itemStatus[i] => BatchOf[i] = b
    BY RefreshSetsItems
  <2>3. AgreesAt(itemStatus, batchStatus[x], finished[x], tally[x], x)
    BY AgreesEverywhere
  <2>. QED BY <1>2, <2>1, <2>2, <2>3, OthersAgree
<1>. QED BY <1>1, <1>2, AgreesEverywhereNext

(* Only a draft has uploaded items.                                        *)
LEMMA UploadedOnlyInDraft ==
  ASSUME IInv, StatusAgrees, NEW b \in Batch, batchStatus[b] # "draft"
  PROVE  In(itemStatus, b, {"uploaded"}) = {}
<1>1. AgreesAt(itemStatus, batchStatus[b], finished[b], tally[b], b)
  BY AgreesEverywhere
<1>2. CASE ~RowExists(b)
  BY <1>2 DEF IInv, CleanupInv, In, ItemsOf
<1>3. CASE batchStatus[b] = "success"
  BY <1>1, <1>3 DEF AgreesAt, Rows, In, ItemStatus
<1>4. CASE batchStatus[b] \in {"queued", "processing", "partial_success", "failed", "canceled"}
  BY <1>1, <1>4 DEF AgreesAt
<1>. QED BY <1>2, <1>3, <1>4 DEF IInv, TypeOK, BatchStatus, RowExists, Open, Terminal, Downloadable

(* An item that has left the upload has a batch that was committed.        *)
LEMMA CommittedItem ==
  ASSUME IInv, StatusAgrees, NEW i \in Item, itemStatus[i] \notin {"absent", "uploaded"}
  PROVE  batchStatus[BatchOf[i]] # "draft" /\ In(itemStatus, BatchOf[i], {"uploaded"}) = {}
<1>1. BatchOf[i] \in Batch
  BY BatchAssumption
<1>2. AgreesAt(itemStatus, batchStatus[BatchOf[i]], finished[BatchOf[i]], tally[BatchOf[i]], BatchOf[i])
  BY <1>1, AgreesEverywhere
<1>3. i \in Rows(itemStatus, BatchOf[i]) /\ i \notin In(itemStatus, BatchOf[i], {"uploaded"})
  BY DEF IInv, TypeOK, Rows, In, ItemsOf
<1>4. batchStatus[BatchOf[i]] # "draft"
  BY <1>2, <1>3 DEF AgreesAt
<1>. QED BY <1>1, <1>4, UploadedOnlyInDraft

(* A committed item moves to another status and its batch is refreshed     *)
(* (retry, claim, publication, failure).                                   *)
LEMMA ItemMoveAgrees ==
  ASSUME IInv, StatusAgrees, NEW i \in Item, itemStatus[i] \notin {"absent", "uploaded"},
         NEW s \in ItemStatus \ {"absent", "uploaded"}, NEW st, NEW fin \in Stamps,
         RefreshBatch(BatchOf[i], [itemStatus EXCEPT ![i] = s], st, fin),
         st # "draft",
         st = "canceled" => fin # "null" /\ In(itemStatus, BatchOf[i], {"queued"}) = {} /\ s # "queued",
         st = "failed" => fin # "null"
  PROVE  StatusAgrees'
<1> DEFINE b == BatchOf[i]
           its == [itemStatus EXCEPT ![i] = s]
<1>1. b \in Batch /\ its \in [Item -> ItemStatus]
  BY BatchAssumption DEF IInv, TypeOK
<1>2. In(itemStatus, b, {"uploaded"}) = {}
  BY CommittedItem
<1>3. i \in Rows(its, b) /\ In(its, b, {"uploaded"}) = {}
  BY <1>2 DEF IInv, TypeOK, Rows, In, ItemsOf
<1>4. st = "canceled" => In(its, b, {"queued"}) = {}
  BY DEF IInv, TypeOK, In, ItemsOf
<1>5. \A j \in Item : its[j] # itemStatus[j] => BatchOf[j] = b
  BY DEF IInv, TypeOK
<1> HIDE DEF its, b
<1>6. TypeOK /\ RefreshBatch(b, its, st, fin)
  BY DEF IInv, its, b
<1>7. Rows(its, b) # {}
  BY <1>3
<1>8. st = "canceled" => fin # "null"
  BY DEF its, b
<1>. QED BY <1>1, <1>3, <1>4, <1>5, <1>6, <1>7, <1>8, RefreshKeepsAgreement

(* Every request and cleanup of a batch keeps its row in agreement.        *)
LEMMA BatchStepAgrees ==
  ASSUME IInv, StatusAgrees, NEW b \in Batch, BatchStep(b)
  PROVE  StatusAgrees'
<1> USE DEF batchRow, itemRow
<1>0. AgreesAt(itemStatus, batchStatus[b], finished[b], tally[b], b)
  BY AgreesEverywhere
<1>1. CASE Create(b)
  <2>1. Rows(itemStatus, b) = {}
    BY <1>1 DEF Create, IInv, CleanupInv, RowExists, Rows, In, ItemsOf
  <2>2. AgreesAt(itemStatus, "draft", finished[b], tally[b], b)
    <3>1. In(itemStatus, b, {"uploaded"}) = {}
      BY <2>1 DEF Rows, In, ItemStatus
    <3>. QED BY <1>0, <1>1, <2>1, <3>1 DEF AgreesAt, Create, Terminal, Downloadable
  <2>3. AgreesAt(itemStatus', batchStatus'[b], finished'[b], tally'[b], b)
    BY <1>1, <2>2 DEF Create, IInv, TypeOK
  <2>4. ASSUME NEW x \in Batch, x # b
        PROVE  AgreesAt(itemStatus', batchStatus'[x], finished'[x], tally'[x], x)
    BY <1>1, <2>4, AgreesEverywhere DEF Create, IInv, TypeOK
  <2>. QED BY <2>3, <2>4, AgreesEverywhereNext
<1>2. CASE Commit(b)
  <2> DEFINE draft == batchStatus[b] = "draft"
             its == [i \in Item |-> IF draft /\ i \in In(itemStatus, b, {"uploaded"})
                                    THEN "queued" ELSE itemStatus[i]]
             st == IF draft THEN "queued" ELSE batchStatus[b]
  <2>1. its \in [Item -> ItemStatus] /\ finished[b] \in Stamps
    BY DEF IInv, TypeOK, ItemStatus, Stamps
  <2>2. RefreshBatch(b, its, st, finished[b]) /\ Rows(itemStatus, b) # {}
    BY <1>2 DEF Commit
  <2>3. \A j \in Item : its[j] # itemStatus[j] => BatchOf[j] = b
    BY DEF In, ItemsOf
  <2>4. In(its, b, {"uploaded"}) = {}
    <3>1. CASE draft
      BY <3>1 DEF In, ItemsOf
    <3>2. CASE ~draft
      <4>1. In(itemStatus, b, {"uploaded"}) = {}
        BY <3>2, UploadedOnlyInDraft
      <4>. QED BY <3>2, <4>1 DEF In, ItemsOf
    <3>. QED BY <3>1, <3>2
  <2>5. Rows(its, b) # {}
    BY <2>2 DEF Rows, In, ItemsOf, ItemStatus
  <2>6. st = "canceled" => In(its, b, {"queued"}) = {}
    <3>1. st = "canceled" => ~draft /\ In(itemStatus, b, {"queued"}) = {}
      BY <1>0 DEF AgreesAt
    <3>. QED BY <3>1 DEF In, ItemsOf
  <2>7. st # "draft" /\ (st \in {"canceled", "failed"} => finished[b] # "null")
    BY <1>0 DEF AgreesAt, Terminal, Downloadable
  <2> HIDE DEF st, its
  <2>8. TypeOK
    BY DEF IInv
  <2>. QED BY <2>1, <2>2, <2>3, <2>4, <2>5, <2>6, <2>7, <2>8, RefreshKeepsAgreement
<1>3. CASE Cancel(b)
  <2> DEFINE its == [i \in Item |-> IF i \in In(itemStatus, b, {"uploaded", "queued"})
                                    THEN "canceled" ELSE itemStatus[i]]
             live == batchStatus[b] \in {"draft", "queued", "processing"}
             st == IF live THEN "canceled" ELSE batchStatus[b]
             fin == IF live THEN "recent" ELSE finished[b]
  <2>1. its \in [Item -> ItemStatus] /\ fin \in Stamps
    BY DEF IInv, TypeOK, ItemStatus, Stamps
  <2>2. RefreshBatch(b, its, st, fin) /\ RowExists(b)
    BY <1>3 DEF Cancel
  <2>3. \A j \in Item : its[j] # itemStatus[j] => BatchOf[j] = b
    BY DEF In, ItemsOf
  <2>4. In(its, b, {"uploaded"}) = {} /\ In(its, b, {"queued"}) = {}
    BY DEF In, ItemsOf
  <2>5. Rows(its, b) = {} => Rows(itemStatus, b) = {}
    BY DEF Rows, In, ItemsOf, ItemStatus
  <2>6. Rows(itemStatus, b) = {} => st \in {"canceled", "failed"}
    <3>1. ASSUME Rows(itemStatus, b) = {} PROVE In(itemStatus, b, {"success"}) = {}
      BY <3>1 DEF Rows, In, ItemStatus
    <3>2. batchStatus[b] \in {"success", "partial_success"} => In(itemStatus, b, {"success"}) # {}
      BY <1>0 DEF AgreesAt
    <3>. QED BY <2>2, <3>1, <3>2 DEF IInv, TypeOK, RowExists, BatchStatus, Open, Terminal, Downloadable
  <2>7. st # "draft" /\ (st \in {"canceled", "failed"} => fin # "null")
    BY <1>0 DEF AgreesAt, Terminal, Downloadable
  <2> HIDE DEF st, its, fin
  <2>8. TypeOK
    BY DEF IInv
  <2>. QED BY <2>1, <2>2, <2>3, <2>4, <2>5, <2>6, <2>7, <2>8, RefreshKeepsAgreement
<1>4. CASE RetentionPasses(b)
  <2>1. AgreesAt(itemStatus', batchStatus'[b], finished'[b], tally'[b], b)
    BY <1>0, <1>4 DEF AgreesAt, RetentionPasses, IInv, TypeOK
  <2>2. ASSUME NEW x \in Batch, x # b
        PROVE  AgreesAt(itemStatus', batchStatus'[x], finished'[x], tally'[x], x)
    BY <1>4, <2>2, AgreesEverywhere DEF RetentionPasses, IInv, TypeOK
  <2>. QED BY <2>1, <2>2, AgreesEverywhereNext
<1>5. CASE RemoveRows(b)
  <2>1. /\ batchStatus'[b] = "removed" /\ finished'[b] = "null"
        /\ tally'[b] = [s \in Counted |-> 0]
    BY <1>5 DEF RemoveRows, IInv, TypeOK
  <2>2. \A s \in Counted : In(itemStatus', b, {s}) = {}
    <3>1. \A i \in ItemsOf(b) : itemStatus'[i] = "absent"
      BY <1>5 DEF RemoveRows, ItemsOf
    <3>. QED BY <3>1 DEF In, Counted
  <2>3. AgreesAt(itemStatus', batchStatus'[b], finished'[b], tally'[b], b)
    BY <2>1, <2>2, FS_EmptySet DEF AgreesAt, Terminal, Downloadable
  <2>4. ASSUME NEW x \in Batch, x # b
        PROVE  AgreesAt(itemStatus', batchStatus'[x], finished'[x], tally'[x], x)
    <3>1. batchStatus'[x] = batchStatus[x] /\ finished'[x] = finished[x] /\ tally'[x] = tally[x]
      BY <1>5, <2>4 DEF RemoveRows, IInv, TypeOK
    <3>2. \A i \in Item : itemStatus'[i] # itemStatus[i] => BatchOf[i] = b
      BY <1>5 DEF RemoveRows, ItemsOf
    <3>. QED BY <2>4, <3>1, <3>2, OthersAgree, AgreesEverywhere
  <2>. QED BY <2>3, <2>4, AgreesEverywhereNext
<1>6. CASE RemoveFiles(b) \/ SkipRemoval(b) \/ RemovalRolledBack(b)
  BY <1>6, AgreementFrame DEF RemoveFiles, SkipRemoval, RemovalRolledBack
<1>. QED BY <1>1, <1>2, <1>3, <1>4, <1>5, <1>6 DEF BatchStep

(* So do uploads, retries and every step of a worker.                      *)
LEMMA ItemStepAgrees ==
  ASSUME IInv, StatusAgrees, NEW i \in Item, ItemStep(i)
  PROVE  StatusAgrees'
<1> USE DEF batchRow, itemRow
<1>1. CASE Upload(i) /\ UNCHANGED <<batchRow, itemStatus>>
  BY <1>1, AgreementFrame
<1>2. CASE Upload(i) /\ RefreshBatch(BatchOf[i], [itemStatus EXCEPT ![i] = "uploaded"], "draft", finished[BatchOf[i]])
  <2> DEFINE b == BatchOf[i]
             its == [itemStatus EXCEPT ![i] = "uploaded"]
  <2>1. b \in Batch /\ its \in [Item -> ItemStatus] /\ finished[b] \in Stamps
    BY BatchAssumption DEF IInv, TypeOK, ItemStatus, Stamps
  <2>2. batchStatus[b] = "draft"
    BY <1>2 DEF Upload
  <2>3. finished[b] = "null" /\ Rows(itemStatus, b) = In(itemStatus, b, {"uploaded"})
    BY <2>1, <2>2, AgreesEverywhere DEF AgreesAt, Terminal, Downloadable
  <2>4. Rows(its, b) = In(its, b, {"uploaded"})
    BY <2>3 DEF Rows, In, ItemsOf, IInv, TypeOK, ItemStatus
  <2>5. \A j \in Item : its[j] # itemStatus[j] => BatchOf[j] = b
    BY DEF IInv, TypeOK
  <2> HIDE DEF its, b
  <2>6. TypeOK /\ RefreshBatch(b, its, "draft", finished[b])
    BY <1>2 DEF IInv, its, b
  <2>. QED BY <2>1, <2>3, <2>4, <2>5, <2>6, RefreshKeepsAgreement
<1>3. CASE Retry(i)
  <2>1. /\ itemStatus[i] = "failed" /\ "queued" \in ItemStatus \ {"absent", "uploaded"} /\ "null" \in Stamps
        /\ RefreshBatch(BatchOf[i], [itemStatus EXCEPT ![i] = "queued"], "queued", "null")
    BY <1>3 DEF Retry, ItemStatus, Stamps
  <2>. QED BY <2>1, ItemMoveAgrees
<1>4. CASE LeaseExpires(i)
  BY <1>4, AgreementFrame DEF LeaseExpires
<1>. QED BY <1>1, <1>2, <1>3, <1>4 DEF ItemStep, Upload

(* An item in progress is settled: its batch is refreshed with its status. *)
LEMMA SettleAgrees ==
  ASSUME IInv, StatusAgrees, NEW i \in Item, NEW a, NEW outcome \in {"success", "failed"}, NEW result,
         HoldsLease(i, a), Settle(i, a, outcome, result)
  PROVE  StatusAgrees'
<1> DEFINE b == BatchOf[i]
<1>1. b \in Batch /\ itemStatus[i] = "processing"
  BY BatchAssumption DEF HoldsLease
<1>2. AgreesAt(itemStatus, batchStatus[b], finished[b], tally[b], b)
  BY <1>1, AgreesEverywhere
<1>3. batchStatus[b] # "draft"
  BY <1>1, CommittedItem
<1>4. batchStatus[b] \in {"canceled", "failed"} => finished[b] # "null"
  BY <1>2 DEF AgreesAt, Terminal, Downloadable
<1>5. batchStatus[b] = "canceled" => In(itemStatus, b, {"queued"}) = {}
  BY <1>2 DEF AgreesAt
<1>6. outcome \in ItemStatus \ {"absent", "uploaded"} /\ outcome # "queued" /\ finished[b] \in Stamps
  BY <1>1 DEF ItemStatus, IInv, TypeOK, Stamps
<1>7. RefreshBatch(b, [itemStatus EXCEPT ![i] = outcome], batchStatus[b], finished[b])
  BY DEF Settle
<1>. QED BY <1>1, <1>3, <1>4, <1>5, <1>6, <1>7, ItemMoveAgrees

(* Every step of a worker keeps the rows in agreement with the items.      *)
LEMMA WorkerStepAgrees ==
  ASSUME IInv, StatusAgrees, NEW w \in Worker, WorkerStep(w)
  PROVE  StatusAgrees'
<1> DEFINE i == worker[w].item
           a == worker[w].attempt
           b == BatchOf[i]
<1> USE DEF batchRow, itemRow
<1>1. CASE ClaimNext(w)
  <2>1. /\ i \in Item /\ b \in Batch
        /\ Claimable(i)
        /\ RefreshBatch(b, [itemStatus EXCEPT ![i] = "processing"], batchStatus[b], finished[b])
    BY <1>1, BatchAssumption DEF ClaimNext, IInv, WorkerInv
  <2>2. AgreesAt(itemStatus, batchStatus[b], finished[b], tally[b], b)
    BY <2>1, AgreesEverywhere
  <2>3. /\ batchStatus[b] \notin {"draft", "failed"}
        /\ itemStatus[i] \notin {"absent", "uploaded"}
        /\ batchStatus[b] = "canceled" => finished[b] # "null" /\ In(itemStatus, b, {"queued"}) = {}
        /\ "processing" \in ItemStatus \ {"absent", "uploaded"} /\ finished[b] \in Stamps
    BY <2>1, <2>2 DEF Claimable, Open, AgreesAt, Terminal, Downloadable, ItemStatus, IInv, TypeOK, Stamps
  <2>. QED BY <2>1, <2>3, ItemMoveAgrees
<1>2. CASE Publish(w)
  <2>1. i \in Item /\ HoldsLease(i, a) /\ Settle(i, a, "success", a)
    BY <1>2 DEF Publish, IInv, WorkerInv
  <2>. QED BY <2>1, SettleAgrees
<1>3. CASE RecordFailure(w) /\ HoldsLease(i, a)
  <2>1. i \in Item /\ Settle(i, a, "failed", output[i])
    BY <1>3 DEF RecordFailure, IInv, WorkerInv
  <2>. QED BY <1>3, <2>1, SettleAgrees
<1>4. CASE RecordFailure(w) /\ ~HoldsLease(i, a)
  BY <1>4, AgreementFrame DEF RecordFailure
<1>5. CASE \/ Poll(w) \/ ClaimNothing(w) \/ ClaimError(w) \/ ReadSource(w)
           \/ StageOutput(w) \/ DispatchFails(w)
           \/ PublishFenced(w) \/ PublishError(w) \/ FailureLost(w) \/ Crash(w)
  BY <1>5, AgreementFrame
     DEF Poll, ClaimNothing, ClaimError, ReadSource, StageOutput, DispatchFails,
         PublishFenced, PublishError, FailureLost, Crash
<1>. QED BY <1>1, <1>2, <1>3, <1>4, <1>5 DEF WorkerStep

(* In every state a reader can see, the status, the finish time and the    *)
(* counters of a batch say what its items say.                             *)
THEOREM StatusTruthful == Spec => []StatusAgrees
<1>1. Init => StatusAgrees
  <2> SUFFICES ASSUME Init PROVE StatusAgrees
    OBVIOUS
  <2>1. \A b \in Batch : \A s \in Counted : In(itemStatus, b, {s}) = {}
    BY DEF Init, In, ItemsOf, Counted
  <2>2. \A b \in Batch : AgreesAt(itemStatus, batchStatus[b], finished[b], tally[b], b)
    BY <2>1, FS_EmptySet DEF Init, AgreesAt, Terminal, Downloadable
  <2>. QED BY <2>2, AgreesEverywhere
<1>2. IInv /\ StatusAgrees /\ [Next]_vars => StatusAgrees'
  <2> SUFFICES ASSUME IInv, StatusAgrees, [Next]_vars PROVE StatusAgrees'
    OBVIOUS
  <2>1. CASE ListExpired \/ UNCHANGED vars
    BY <2>1, AgreementFrame DEF ListExpired, vars, batchRow, itemRow
  <2>2. ASSUME NEW c \in Client, ClientStep(c) PROVE StatusAgrees'
    BY <2>2, AgreementFrame DEF ClientStep, Snapshot, BuildArchive, FinishDownload, batchRow, itemRow
  <2>. QED BY <2>1, <2>2, BatchStepAgrees, ItemStepAgrees, WorkerStepAgrees DEF Next
<1>. QED BY <1>1, <1>2, Invariance, PTL DEF Spec

-----------------------------------------------------------------------------
(* The recorded archive.  ArchiveCurrent is not inductive: what a download *)
(* records depends on what it has built and has not lost meanwhile.        *)

(* A download asks for a non-empty version of its own batch, and once it   *)
(* has built the archive the file is there unless cleanup took it.         *)
DownloadInv ==
  \A c \in Client : client[c].pc # "idle" =>
    /\ client[c].version # {}
    /\ \A out \in client[c].version : out[1] \in ItemsOf(client[c].batch)
    /\ client[c].pc = "built" => client[c].version \in zips \/ client[c].batch \in purged

ArchiveAt(b) ==
  archive[b] # {} =>
    /\ archive[b] = Version(b)
    /\ batchStatus[b] \in Downloadable
    /\ b \notin purged => archive[b] \in zips

ArchiveInv == ArchiveCurrent /\ DownloadInv

(* ArchiveCurrent is this of every batch.                                *)
LEMMA ArchiveEverywhere == ArchiveCurrent <=> \A b \in Batch : ArchiveAt(b)
BY DEF ArchiveCurrent, ArchiveAt

(* The same after a step.                                                *)
LEMMA ArchiveEverywhereNext == (\A b \in Batch : ArchiveAt(b)') => ArchiveCurrent'
BY DEF ArchiveCurrent, ArchiveAt

(* Downloads depend on the requests and the archive files alone.           *)
LEMMA DownloadFrame ==
  ASSUME DownloadInv, UNCHANGED <<client, zips, purged>>
  PROVE  DownloadInv'
BY DEF DownloadInv

(* The version of a batch depends on its own items alone.                  *)
LEMMA VersionFrame ==
  ASSUME NEW b \in Batch,
         \A i \in Item : BatchOf[i] = b =>
           /\ itemStatus'[i] = "success" <=> itemStatus[i] = "success"
           /\ output'[i] = output[i]
  PROVE  Version(b)' = Version(b)
<1>1. In(itemStatus', b, {"success"}) = In(itemStatus, b, {"success"})
  BY DEF In, ItemsOf
<1>2. \A i \in In(itemStatus, b, {"success"}) : output'[i] = output[i]
  BY DEF In, ItemsOf
<1>. QED BY <1>1, <1>2 DEF Version, In, ItemsOf

(* A step that leaves the archive files alone and changes the rows of one  *)
(* batch has only that batch to answer for.                                *)
LEMMA ArchiveElsewhere ==
  ASSUME ArchiveCurrent, NEW b \in Batch,
         \A i \in Item : BatchOf[i] # b => itemStatus'[i] = itemStatus[i] /\ output'[i] = output[i],
         \A x \in Batch : x # b => archive'[x] = archive[x] /\ batchStatus'[x] = batchStatus[x],
         UNCHANGED <<zips, purged>>,
         ArchiveAt(b)'
  PROVE  ArchiveCurrent'
<1>1. ASSUME NEW x \in Batch, x # b PROVE ArchiveAt(x)'
  <2>1. Version(x)' = Version(x)
    BY <1>1, VersionFrame
  <2>. QED BY <1>1, <2>1 DEF ArchiveCurrent, ArchiveAt
<1>. QED BY <1>1 DEF ArchiveCurrent, ArchiveAt

(* A step that leaves the rows and the files alone.                        *)
LEMMA ArchiveFrame ==
  ASSUME ArchiveCurrent, UNCHANGED <<itemStatus, output, archive, batchStatus, zips, purged>>
  PROVE  ArchiveCurrent'
BY DEF ArchiveCurrent, Version, In, ItemsOf

(* The status a refresh leaves is the one it was given or a derived one.   *)
LEMMA RefreshStatus ==
  ASSUME TypeOK, NEW b \in Batch, NEW its, NEW st, NEW fin, RefreshBatch(b, its, st, fin)
  PROVE  /\ batchStatus'[b] \in {st} \cup Open \cup Downloadable
         /\ \A x \in Batch : x # b => batchStatus'[x] = batchStatus[x]
BY DerivedIsOpenOrTerminal DEF RefreshBatch, TypeOK

(* Nothing of a downloadable batch waits or is in progress.                *)
LEMMA DownloadableRests ==
  ASSUME StatusAgrees, NEW b \in Batch, batchStatus[b] \in Downloadable
  PROVE  In(itemStatus, b, {"uploaded", "queued", "processing"}) = {}
<1>1. AgreesAt(itemStatus, batchStatus[b], finished[b], tally[b], b)
  BY AgreesEverywhere
<1>2. CASE batchStatus[b] = "success"
  BY <1>1, <1>2 DEF AgreesAt, Rows, In, ItemStatus
<1>3. CASE batchStatus[b] \in {"partial_success", "failed"}
  BY <1>1, <1>3 DEF AgreesAt, In
<1>. QED BY <1>2, <1>3 DEF Downloadable

(* A request that leaves the items of a batch as they rest (a commit, a    *)
(* cancel) leaves its recorded archive current.                            *)
LEMMA RestingKeepsArchive ==
  ASSUME IInv, StatusAgrees, StatusAgrees', ArchiveCurrent,
         NEW b \in Batch, NEW its, NEW st, NEW fin, RefreshBatch(b, its, st, fin),
         \A i \in Item : i \notin In(itemStatus, b, {"uploaded", "queued"}) => its[i] = itemStatus[i],
         batchStatus[b] \in Downloadable => st = batchStatus[b],
         UNCHANGED <<archive, output, zips, purged>>
  PROVE  ArchiveCurrent'
<1>1. /\ itemStatus' = its /\ batchStatus'[b] \in {st} \cup Open \cup Downloadable
      /\ \A x \in Batch : x # b => batchStatus'[x] = batchStatus[x]
  BY RefreshStatus DEF IInv, RefreshBatch
<1>2. ArchiveAt(b)'
  <2> SUFFICES ASSUME archive[b] # {} PROVE ArchiveAt(b)'
    BY DEF ArchiveAt
  <2>1. /\ batchStatus[b] \in Downloadable /\ archive[b] = Version(b)
        /\ b \notin purged => archive[b] \in zips
    BY DEF ArchiveCurrent
  <2>2. In(itemStatus, b, {"uploaded", "queued", "processing"}) = {}
    BY <2>1, DownloadableRests
  <2>3. \A i \in Item : BatchOf[i] = b => itemStatus'[i] = itemStatus[i]
    BY <1>1, <2>2 DEF In, ItemsOf
  <2>4. Version(b)' = Version(b)
    BY <2>3, VersionFrame
  <2>5. In(itemStatus', b, {"queued"}) = {} /\ In(itemStatus', b, {"processing"}) = {}
    BY <2>2, <2>3 DEF In, ItemsOf
  <2>6. batchStatus'[b] \notin Open
    <3>1. AgreesAt(itemStatus', batchStatus'[b], finished'[b], tally'[b], b)
      BY AgreesEverywhereNext
    <3>. QED BY <2>5, <3>1 DEF AgreesAt, Open
  <2>7. batchStatus'[b] \in Downloadable
    BY <1>1, <2>1, <2>6
  <2>. QED BY <2>1, <2>4, <2>7 DEF ArchiveAt
<1>3. \A i \in Item : BatchOf[i] # b => itemStatus'[i] = itemStatus[i]
  BY <1>1 DEF In, ItemsOf
<1>. QED BY <1>1, <1>2, <1>3, ArchiveElsewhere

(* A step on a batch without a recorded archive, or that drops the record. *)
LEMMA UnrecordedKeepsArchive ==
  ASSUME IInv, ArchiveCurrent, NEW b \in Batch, NEW i \in Item, BatchOf[i] = b,
         \A j \in Item : j # i => itemStatus'[j] = itemStatus[j] /\ output'[j] = output[j],
         \A x \in Batch : x # b => batchStatus'[x] = batchStatus[x],
         \/ archive' = [archive EXCEPT ![b] = {}]
         \/ archive' = archive /\ batchStatus[b] \notin Downloadable,
         UNCHANGED <<zips, purged>>
  PROVE  ArchiveCurrent'
<1>1. archive'[b] = {} /\ \A x \in Batch : x # b => archive'[x] = archive[x]
  BY DEF IInv, TypeOK, ArchiveCurrent
<1>2. ArchiveAt(b)'
  BY <1>1 DEF ArchiveAt
<1>. QED BY <1>1, <1>2, ArchiveElsewhere

(* Requests and cleanups of a batch keep the recorded archives current.    *)
LEMMA BatchStepArchive ==
  ASSUME IInv, StatusAgrees, StatusAgrees', ArchiveInv, NEW b \in Batch, BatchStep(b)
  PROVE  ArchiveInv'
<1> USE DEF batchRow, itemRow, files
<1>1. CASE Create(b)
  <2>1. archive[b] = {} /\ UNCHANGED <<archive, itemStatus, output, zips, purged, client>>
    BY <1>1 DEF Create, ArchiveInv, ArchiveCurrent, Downloadable
  <2>2. ArchiveAt(b)'
    BY <2>1 DEF ArchiveAt
  <2>3. \A x \in Batch : x # b => batchStatus'[x] = batchStatus[x]
    BY <1>1 DEF Create, IInv, TypeOK
  <2>. QED BY <2>1, <2>2, <2>3, ArchiveElsewhere, DownloadFrame DEF ArchiveInv
<1>2. CASE Commit(b)
  <2> DEFINE draft == batchStatus[b] = "draft"
             its == [i \in Item |-> IF draft /\ i \in In(itemStatus, b, {"uploaded"})
                                    THEN "queued" ELSE itemStatus[i]]
             st == IF draft THEN "queued" ELSE batchStatus[b]
  <2>1. /\ RefreshBatch(b, its, st, finished[b])
        /\ UNCHANGED <<archive, output, zips, purged, client>>
    BY <1>2 DEF Commit
  <2>2. \A i \in Item : i \notin In(itemStatus, b, {"uploaded", "queued"}) => its[i] = itemStatus[i]
    BY DEF In
  <2>3. batchStatus[b] \in Downloadable => st = batchStatus[b]
    BY DEF Downloadable
  <2> HIDE DEF its, st
  <2>. QED BY <2>1, <2>2, <2>3, RestingKeepsArchive, DownloadFrame DEF ArchiveInv
<1>3. CASE Cancel(b)
  <2> DEFINE its == [i \in Item |-> IF i \in In(itemStatus, b, {"uploaded", "queued"})
                                    THEN "canceled" ELSE itemStatus[i]]
             live == batchStatus[b] \in {"draft", "queued", "processing"}
             st == IF live THEN "canceled" ELSE batchStatus[b]
             fin == IF live THEN "recent" ELSE finished[b]
  <2>1. /\ RefreshBatch(b, its, st, fin)
        /\ UNCHANGED <<archive, output, zips, purged, client>>
    BY <1>3 DEF Cancel
  <2>2. \A i \in Item : i \notin In(itemStatus, b, {"uploaded", "queued"}) => its[i] = itemStatus[i]
    OBVIOUS
  <2>3. batchStatus[b] \in Downloadable => st = batchStatus[b]
    BY DEF Downloadable
  <2> HIDE DEF its, st, fin
  <2>. QED BY <2>1, <2>2, <2>3, RestingKeepsArchive, DownloadFrame DEF ArchiveInv
<1>4. CASE RemoveFiles(b)
  <2>1. /\ zips' = {v \in zips : \A out \in v : out[1] \notin ItemsOf(b)}
        /\ purged' = purged \cup {b}
        /\ UNCHANGED <<batchStatus, itemStatus, output, archive, client>>
    BY <1>4 DEF RemoveFiles
  <2>2. ASSUME NEW x \in Batch PROVE ArchiveAt(x)'
    <3>1. Version(x)' = Version(x)
      BY <2>1, VersionFrame
    <3>2. x # b => \A out \in Version(x) : out[1] \notin ItemsOf(b)
      BY DEF Version, In, ItemsOf
    <3>. QED BY <2>1, <3>1, <3>2 DEF ArchiveInv, ArchiveCurrent, ArchiveAt
  <2>3. DownloadInv'
    <3>1. ASSUME NEW c \in Client, client[c].pc = "built"
          PROVE  client[c].version \in zips' \/ client[c].batch \in purged'
      <4>1. /\ client[c].version \in zips \/ client[c].batch \in purged
            /\ \A out \in client[c].version : out[1] \in ItemsOf(client[c].batch)
        BY <3>1 DEF ArchiveInv, DownloadInv
      <4>2. client[c].batch # b => \A out \in client[c].version : out[1] \notin ItemsOf(b)
        BY <4>1 DEF ItemsOf
      <4>. QED BY <2>1, <4>1, <4>2
    <3>. QED BY <2>1, <3>1 DEF ArchiveInv, DownloadInv
  <2>. QED BY <2>2, <2>3, ArchiveEverywhereNext DEF ArchiveInv
<1>5. CASE RemoveRows(b)
  <2>1. /\ archive'[b] = {}
        /\ \A x \in Batch : x # b => archive'[x] = archive[x] /\ batchStatus'[x] = batchStatus[x]
        /\ \A i \in Item : BatchOf[i] # b => itemStatus'[i] = itemStatus[i] /\ output'[i] = output[i]
        /\ UNCHANGED <<zips, purged, client>>
    BY <1>5 DEF RemoveRows, IInv, TypeOK, ItemsOf
  <2>2. ArchiveAt(b)'
    BY <2>1 DEF ArchiveAt
  <2>. QED BY <2>1, <2>2, ArchiveElsewhere, DownloadFrame DEF ArchiveInv
<1>6. CASE RetentionPasses(b) \/ SkipRemoval(b) \/ RemovalRolledBack(b)
  BY <1>6, ArchiveFrame, DownloadFrame DEF ArchiveInv, RetentionPasses, SkipRemoval, RemovalRolledBack
<1>. QED BY <1>1, <1>2, <1>3, <1>4, <1>5, <1>6 DEF BatchStep

(* So do uploads and retries.                                              *)
LEMMA ItemStepArchive ==
  ASSUME IInv, ArchiveInv, NEW i \in Item, ItemStep(i)
  PROVE  ArchiveInv'
<1> USE DEF batchRow, itemRow, files
<1> DEFINE b == BatchOf[i]
<1>0. b \in Batch
  BY BatchAssumption
<1>1. CASE Upload(i) /\ UNCHANGED <<batchRow, itemStatus>>
  BY <1>1, ArchiveFrame, DownloadFrame DEF ArchiveInv, Upload
<1>2. CASE Upload(i) /\ RefreshBatch(b, [itemStatus EXCEPT ![i] = "uploaded"], "draft", finished[b])
  <2>1. /\ batchStatus[b] \notin Downloadable
        /\ UNCHANGED <<archive, output, zips, purged, client>>
    BY <1>2 DEF Upload, Downloadable
  <2>2. \A j \in Item : j # i => itemStatus'[j] = itemStatus[j]
    BY <1>2, RefreshSetsItems DEF IInv, TypeOK
  <2>3. \A x \in Batch : x # b => batchStatus'[x] = batchStatus[x]
    BY <1>0, <1>2, RefreshStatus DEF IInv
  <2>. QED BY <1>0, <2>1, <2>2, <2>3, UnrecordedKeepsArchive, DownloadFrame DEF ArchiveInv
<1>3. CASE Retry(i)
  <2>1. /\ RefreshBatch(b, [itemStatus EXCEPT ![i] = "queued"], "queued", "null")
        /\ output' = [output EXCEPT ![i] = NoAttempt]
        /\ archive' = [archive EXCEPT ![b] = {}]
        /\ UNCHANGED <<zips, purged, client>>
    BY <1>3 DEF Retry
  <2>2. \A j \in Item : j # i => itemStatus'[j] = itemStatus[j] /\ output'[j] = output[j]
    BY <2>1, RefreshSetsItems DEF IInv, TypeOK
  <2>3. \A x \in Batch : x # b => batchStatus'[x] = batchStatus[x]
    BY <1>0, <2>1, RefreshStatus DEF IInv
  <2>. QED BY <1>0, <2>1, <2>2, <2>3, UnrecordedKeepsArchive, DownloadFrame DEF ArchiveInv
<1>4. CASE LeaseExpires(i)
  BY <1>4, ArchiveFrame, DownloadFrame DEF ArchiveInv, LeaseExpires
<1>. QED BY <1>1, <1>2, <1>3, <1>4 DEF ItemStep, Upload

(* So does every step of a worker: a claim finds no record, a publication  *)
(* drops it, a failure has none to drop.                                   *)
LEMMA WorkerStepArchive ==
  ASSUME IInv, StatusAgrees, ArchiveInv, NEW w \in Worker, WorkerStep(w)
  PROVE  ArchiveInv'
<1> DEFINE i == worker[w].item
           a == worker[w].attempt
           b == BatchOf[i]
<1> USE DEF batchRow, itemRow, files
<1>1. CASE ClaimNext(w)
  <2>1. /\ i \in Item /\ b \in Batch /\ batchStatus[b] \notin Downloadable
        /\ RefreshBatch(b, [itemStatus EXCEPT ![i] = "processing"], batchStatus[b], finished[b])
        /\ UNCHANGED <<archive, output, zips, purged, client>>
    BY <1>1, BatchAssumption DEF ClaimNext, IInv, WorkerInv, Claimable, Open, Downloadable
  <2>2. \A j \in Item : j # i => itemStatus'[j] = itemStatus[j]
    BY <2>1, RefreshSetsItems DEF IInv, TypeOK
  <2>3. \A x \in Batch : x # b => batchStatus'[x] = batchStatus[x]
    BY <2>1, RefreshStatus DEF IInv
  <2>. QED BY <2>1, <2>2, <2>3, UnrecordedKeepsArchive, DownloadFrame DEF ArchiveInv
<1>2. CASE Publish(w) \/ (RecordFailure(w) /\ HoldsLease(i, a))
  <2>1. /\ i \in Item /\ b \in Batch /\ itemStatus[i] = "processing"
    BY <1>2, BatchAssumption DEF Publish, RecordFailure, HoldsLease, IInv, WorkerInv
  <2>2. /\ zips' = zips /\ purged' = purged /\ client' = client
        /\ archive' = [archive EXCEPT ![b] = {}] \/ archive' = archive
    BY <1>2 DEF Publish, RecordFailure, ReleaseStaged
  <2>3. PICK outcome, result : Settle(i, a, outcome, result)
    BY <1>2 DEF Publish, RecordFailure
  <2>4. \A j \in Item : j # i => itemStatus'[j] = itemStatus[j] /\ output'[j] = output[j]
    BY <2>3, RefreshSetsItems DEF Settle, IInv, TypeOK
  <2>5. \A x \in Batch : x # b => batchStatus'[x] = batchStatus[x]
    BY <2>1, <2>3, RefreshStatus DEF Settle, IInv
  <2>6. batchStatus[b] \notin Downloadable
    BY <2>1, DownloadableRests DEF In, ItemsOf
  <2>. QED BY <2>1, <2>2, <2>4, <2>5, <2>6, UnrecordedKeepsArchive, DownloadFrame DEF ArchiveInv
<1>3. CASE RecordFailure(w) /\ ~HoldsLease(i, a)
  BY <1>3, ArchiveFrame, DownloadFrame DEF ArchiveInv, RecordFailure, ReleaseStaged
<1>4. CASE \/ Poll(w) \/ ClaimNothing(w) \/ ClaimError(w) \/ ReadSource(w)
           \/ StageOutput(w) \/ DispatchFails(w)
           \/ PublishFenced(w) \/ PublishError(w) \/ FailureLost(w) \/ Crash(w)
  BY <1>4, ArchiveFrame, DownloadFrame
     DEF ArchiveInv, Poll, ClaimNothing, ClaimError, ReadSource, StageOutput, DispatchFails,
         PublishFenced, PublishError, FailureLost, ReleaseStaged, Crash
<1>. QED BY <1>1, <1>2, <1>3, <1>4 DEF WorkerStep

(* So does a download: what it records it has just compared and built.     *)
LEMMA ClientStepArchive ==
  ASSUME IInv, ArchiveInv, NEW c \in Client, ClientStep(c)
  PROVE  ArchiveInv'
<1> USE DEF batchRow, itemRow, files
<1>1. ASSUME NEW b \in Batch, Snapshot(c, b) PROVE ArchiveInv'
  <2>1. \A out \in Version(b) : out[1] \in ItemsOf(b)
    BY DEF Version, In
  <2>2. DownloadInv'
    BY <1>1, <2>1 DEF Snapshot, Request, ArchiveInv, DownloadInv, IInv, TypeOK
  <2>. QED BY <1>1, <2>2, ArchiveFrame DEF ArchiveInv, Snapshot
<1>2. CASE BuildArchive(c)
  <2>1. zips \subseteq zips' /\ UNCHANGED <<itemStatus, output, archive, batchStatus, purged>>
    BY <1>2 DEF BuildArchive
  <2>2. ArchiveCurrent'
    BY <2>1 DEF ArchiveInv, ArchiveCurrent, Version, In, ItemsOf
  <2>3. DownloadInv'
    BY <1>2, <2>1 DEF BuildArchive, Request, NoRequest, ArchiveInv, DownloadInv, IInv, TypeOK
  <2>. QED BY <2>2, <2>3 DEF ArchiveInv
<1>3. CASE FinishDownload(c)
  <2>0. PICK b \in Batch : b = client[c].batch
    BY <1>3 DEF FinishDownload, IInv, CleanupInv
  <2>1. /\ client[c].pc = "built" /\ client' = [client EXCEPT ![c] = NoRequest]
        /\ UNCHANGED <<itemStatus, output, batchStatus, zips, purged>>
    BY <1>3 DEF FinishDownload
  <2>2. DownloadInv'
    BY <2>1 DEF NoRequest, ArchiveInv, DownloadInv, IInv, TypeOK
  <2>3. CASE archive' = archive
    BY <2>1, <2>2, <2>3, ArchiveFrame DEF ArchiveInv
  <2>4. CASE archive' = [archive EXCEPT ![b] = client[c].version] /\ batchStatus[b] \in Downloadable
             /\ Version(b) = client[c].version
    <3>1. Version(b)' = Version(b)
      BY <2>1, VersionFrame
    <3>2. client[c].version \in zips \/ b \in purged
      BY <2>0, <2>1 DEF ArchiveInv, DownloadInv
    <3>3. archive'[b] = client[c].version /\ \A x \in Batch : x # b => archive'[x] = archive[x]
      BY <2>1, <2>4 DEF IInv, TypeOK
    <3>4. ArchiveAt(b)'
      BY <2>1, <2>4, <3>1, <3>2, <3>3 DEF ArchiveAt
    <3>. QED BY <2>1, <2>2, <3>3, <3>4, ArchiveElsewhere DEF ArchiveInv
  <2>. QED BY <1>3, <2>0, <2>3, <2>4 DEF FinishDownload
<1>. QED BY <1>1, <1>2, <1>3 DEF ClientStep

(* The archive recorded for a batch is never stale and never missing.      *)
THEOREM ArchiveFresh == Spec => []ArchiveCurrent
<1>1. Init => ArchiveInv
  BY DEF Init, ArchiveInv, ArchiveCurrent, DownloadInv, NoRequest
<1>2. IInv /\ StatusAgrees /\ StatusAgrees' /\ ArchiveInv /\ [Next]_vars => ArchiveInv'
  <2> SUFFICES ASSUME IInv, StatusAgrees, StatusAgrees', ArchiveInv, [Next]_vars PROVE ArchiveInv'
    OBVIOUS
  <2>1. CASE ListExpired \/ UNCHANGED vars
    BY <2>1, ArchiveFrame, DownloadFrame DEF ArchiveInv, ListExpired, vars, batchRow, itemRow, files
  <2>. QED BY <2>1, BatchStepArchive, ItemStepArchive, WorkerStepArchive, ClientStepArchive DEF Next
<1>3. ArchiveInv => ArchiveCurrent
  BY DEF ArchiveInv
<1>. QED BY <1>1, <1>2, <1>3, Invariance, StatusTruthful, PTL DEF Spec

-----------------------------------------------------------------------------
(* In a canceled batch an attempt only takes over one in progress.         *)
THEOREM CanceledRests == Spec => CanceledStartsNothing
<1> DEFINE Rests == \A i \in Item :
       batchStatus[BatchOf[i]] = "canceled" /\ leaseOwner'[i] \notin {leaseOwner[i], NoAttempt}
         => itemStatus[i] = "processing" /\ i \in leaseExpired
<1> USE DEF itemRow
<1>1. ASSUME IInv, [Next]_vars PROVE Rests
  <2>1. CASE UNCHANGED leaseOwner
    BY <2>1
  <2>2. ASSUME NEW b \in Batch, RemoveRows(b) PROVE Rests
    BY <2>2 DEF RemoveRows
  <2>3. ASSUME NEW i \in Item, Retry(i) PROVE Rests
    BY <1>1, <2>3 DEF Retry, IInv, TypeOK
  <2>4. ASSUME NEW w \in Worker, WorkerStep(w), ~UNCHANGED leaseOwner PROVE Rests
    <3> DEFINE i == worker[w].item
    <3>1. CASE ClaimNext(w)
      <4>1. Claimable(i) /\ \A j \in Item : j # i => leaseOwner'[j] = leaseOwner[j]
        BY <1>1, <3>1 DEF ClaimNext, IInv, TypeOK
      <4>. QED BY <4>1 DEF Claimable
    <3>2. CASE Publish(w) \/ RecordFailure(w)
      <4>1. leaseOwner' = [leaseOwner EXCEPT ![i] = NoAttempt]
        BY <2>4, <3>2 DEF Publish, RecordFailure, Settle
      <4>. QED BY <1>1, <4>1 DEF IInv, TypeOK
    <3>. QED BY <2>4, <3>1, <3>2
         DEF WorkerStep, Poll, ClaimNothing, ClaimError, ReadSource, StageOutput, DispatchFails,
             PublishFenced, PublishError, FailureLost, Crash
  <2>5. ASSUME NEW b \in Batch, BatchStep(b), ~RemoveRows(b) PROVE UNCHANGED leaseOwner
    BY <2>5 DEF BatchStep, Create, Commit, Cancel, RetentionPasses, RemoveFiles, SkipRemoval,
                RemovalRolledBack
  <2>6. ASSUME NEW i \in Item, ItemStep(i), ~Retry(i) PROVE UNCHANGED leaseOwner
    BY <2>6 DEF ItemStep, Upload, LeaseExpires
  <2>7. ASSUME NEW c \in Client, ClientStep(c) PROVE UNCHANGED leaseOwner
    BY <2>7 DEF ClientStep, Snapshot, BuildArchive, FinishDownload
  <2>8. ListExpired \/ UNCHANGED vars => UNCHANGED leaseOwner
    BY DEF ListExpired, vars
  <2>. QED BY <1>1, <2>1, <2>2, <2>3, <2>4, <2>5, <2>6, <2>7, <2>8 DEF Next
<1>2. IInv /\ [Next]_vars => [Rests]_vars
  BY <1>1
<1>. QED BY <1>2, Invariance, PTL DEF Spec, CanceledStartsNothing

(* Files that rows point to go with their expired batch and in no other    *)
(* way: a cleanup looks again, and a worker releases only what it staged   *)
(* and never published.                                                    *)
THEOREM OnlyExpiredPurged == Spec => PurgeOnlyExpired
<1> DEFINE Keeps == \A i \in Item :
       \/ itemStatus[i] # "absent" /\ i \in sources \ sources'
       \/ output[i] \in staged \ staged'
       => /\ finished[BatchOf[i]] = "expired"
          /\ In(itemStatus, BatchOf[i], Open) = {}
<1> USE DEF files
<1>1. ASSUME IInv, [Next]_vars PROVE Keeps
  <2>1. CASE sources \subseteq sources' /\ staged \subseteq staged'
    BY <2>1
  <2>2. ASSUME NEW b \in Batch, RemoveFiles(b) PROVE Keeps
    <3>1. finished[b] = "expired" /\ In(itemStatus, b, Open) = {}
      BY <2>2 DEF RemoveFiles, Removable, Expired
    <3>2. \A i \in Item : i \in sources \ sources' => BatchOf[i] = b
      BY <2>2 DEF RemoveFiles, ItemsOf
    <3>3. \A i \in Item : output[i] \in staged \ staged' => BatchOf[i] = b
      <4>1. ASSUME NEW i \in Item, output[i] \in staged \ staged' PROVE BatchOf[i] = b
        <5>1. output[i] \in AttemptsOf(b) /\ output[i] # NoAttempt
          BY <2>2, <4>1, BatchAssumption DEF RemoveFiles, AttemptsOf
        <5>2. attemptOf[output[i]] = i
          BY <1>1, <5>1 DEF IInv, ResultInv
        <5>. QED BY <5>1, <5>2 DEF AttemptsOf, ItemsOf
      <4>. QED BY <4>1
    <3>. QED BY <3>1, <3>2, <3>3
  <2>3. ASSUME NEW w \in Worker, WorkerStep(w) PROVE Keeps
    <3>1. CASE \/ PublishFenced(w)
               \/ (RecordFailure(w) \/ FailureLost(w)) /\ worker[w].pc = "failing"
      <4>1. sources' = sources /\ staged' = staged \ {worker[w].attempt}
        BY <3>1 DEF PublishFenced, RecordFailure, FailureLost, ReleaseStaged
      <4>2. worker[w].attempt \in Attempt /\ attemptStatus[worker[w].attempt] # "success"
        BY <1>1, <3>1 DEF PublishFenced, IInv, WorkerInv, Busy
      <4>3. \A i \in Item : output[i] # worker[w].attempt
        BY <1>1, <4>2, BatchAssumption DEF IInv, ResultInv
      <4>. QED BY <4>1, <4>3
    <3>2. CASE (RecordFailure(w) \/ FailureLost(w)) /\ worker[w].pc # "failing"
      BY <2>1, <3>2 DEF RecordFailure, FailureLost, ReleaseStaged
    <3>3. CASE \/ Poll(w) \/ ClaimNext(w) \/ ClaimNothing(w) \/ ClaimError(w) \/ ReadSource(w)
               \/ StageOutput(w) \/ DispatchFails(w) \/ Publish(w) \/ PublishError(w) \/ Crash(w)
      BY <2>1, <3>3 DEF Poll, ClaimNext, ClaimNothing, ClaimError, ReadSource, StageOutput,
                        DispatchFails, Publish, PublishError, Crash
    <3>. QED BY <2>3, <3>1, <3>2, <3>3 DEF WorkerStep
  <2>4. ASSUME NEW b \in Batch, BatchStep(b), ~RemoveFiles(b) PROVE Keeps
    BY <2>1, <2>4 DEF BatchStep, Create, Commit, Cancel, RetentionPasses, RemoveRows, SkipRemoval,
                      RemovalRolledBack
  <2>5. ASSUME NEW i \in Item, ItemStep(i) PROVE Keeps
    BY <2>1, <2>5 DEF ItemStep, Upload, Retry, LeaseExpires
  <2>6. ASSUME NEW c \in Client, ClientStep(c) PROVE Keeps
    BY <2>1, <2>6 DEF ClientStep, Snapshot, BuildArchive, FinishDownload
  <2>7. CASE ListExpired \/ UNCHANGED vars
    BY <2>1, <2>7 DEF ListExpired, vars
  <2>. QED BY <1>1, <2>2, <2>3, <2>4, <2>5, <2>6, <2>7 DEF Next
<1>2. IInv /\ [Next]_vars => [Keeps]_vars
  BY <1>1
<1>. QED BY <1>2, Invariance, PTL DEF Spec, PurgeOnlyExpired
=============================================================================
