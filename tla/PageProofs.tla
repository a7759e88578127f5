----------------------------- MODULE PageProofs -----------------------------
(***************************************************************************)
(* The page.  A page that shows results shows the end of every file, for   *)
(* any set of files and any number of lost calls; and a form it lets start *)
(* is accepted by the server and sent as it was meant, for any forms of    *)
(* the shapes of FormShapes and documents of any size.                     *)
(***************************************************************************)
EXTENDS UploadPanel, RequestForm, FiniteSetTheorems, SequenceTheorems, TLAPS

Marks == Ended \cup {"uploaded", "queued", "processing"}
RowOf == [status : Marks \cup {"ready", "invalid"}, item : BOOLEAN, asked : BOOLEAN]

PanelTypes ==
  /\ DOMAIN rows \subseteq Files /\ rows \in [DOMAIN rows -> RowOf]
  /\ DOMAIN items \subseteq Files /\ items \in [DOMAIN items -> Marks]
  /\ committed \in BOOLEAN /\ canceled \in BOOLEAN
  /\ canceled => committed /\ \A f \in DOMAIN items : items[f] \in Ended \cup {"processing"}
  /\ running \in BOOLEAN /\ started \in BOOLEAN /\ pollFailed \in BOOLEAN /\ remote \in BOOLEAN
  /\ place \in {"idle", "create", "upload", "submit", "poll", "sync", "merge", "retry"}
  /\ todo \subseteq DOMAIN rows

Fresh(r) == r.status \in {"ready", "invalid"} /\ ~r.item
Closed(r) == r.status \in Ended \cup {"invalid"}
\* A row of the batch is followed there, another one has its end.
Followed(f) == IF rows[f].item THEN f \in DOMAIN items ELSE Closed(rows[f])
\* A row shows its end, or that of its item, or what a canceled batch works on.
Shown(f) ==
  \/ Closed(rows[f]) /\ (rows[f].item => f \in DOMAIN items /\ rows[f].status = items[f])
  \/ f \in DOMAIN items /\ LeftProcessing(f)

\* What the flags say of each other and of the list.
FlagsAgree ==
  /\ running <=> place # "idle"
  /\ running \/ pollFailed => started
  /\ pollFailed => ~running
  /\ ~running \/ place \in {"submit", "poll"} => todo = {}
  /\ ~started => \A f \in DOMAIN rows : Fresh(rows[f])

\* What each place knows of the rows its loop has not reached, and of the others.
RowsAgree ==
  /\ Completed => \A f \in DOMAIN rows : Shown(f)
  /\ pollFailed \/ place \in {"submit", "poll", "retry"} => \A f \in DOMAIN rows : Followed(f)
  /\ place = "create" => todo = Ready /\ \A f \in DOMAIN rows : Fresh(rows[f])
  /\ place = "upload" => \A f \in DOMAIN rows : IF f \in todo THEN ~rows[f].item ELSE Followed(f)
  /\ place \in {"sync", "merge"} => ~remote /\ \A f \in DOMAIN rows : ~rows[f].item /\ (f \notin todo => Closed(rows[f]))
  /\ place = "retry" /\ ~remote => \A f \in DOMAIN rows : Shown(f)

\* Files that are merged have no items.
MergeAlone ==
  /\ how = "merge" => \A f \in DOMAIN rows : ~rows[f].item
  /\ place \in {"create", "upload"} => how # "merge"

PanelInv == PanelTypes /\ FlagsAgree /\ RowsAgree

-----------------------------------------------------------------------------
(* The page is empty at first.                                             *)
LEMMA PanelStarts == PanelInit => PanelInv
BY DEF PanelInit, NoRows, PanelInv, PanelTypes, FlagsAgree, RowsAgree, Completed
(* Nothing is merged at first.                                           *)
LEMMA MergeStarts == PanelInit => MergeAlone
BY DEF PanelInit, NoRows, MergeAlone

(* Rows that are made anew.                                                *)
LEMMA RenewedRows ==
  ASSUME PanelTypes
  PROVE  /\ DOMAIN Renewed = DOMAIN rows /\ Renewed \in [DOMAIN rows -> RowOf]
         /\ \A f \in DOMAIN rows : Fresh(Renewed[f])
BY DEF PanelTypes, Renewed, Row, RowOf, Fresh

(* Rows whose status is set.                                               *)
LEMMA MarkedRows ==
  ASSUME PanelTypes, NEW S, NEW st \in Marks, Mark(S, st)
  PROVE  /\ DOMAIN rows' = DOMAIN rows /\ rows' \in [DOMAIN rows -> RowOf]
         /\ \A f \in DOMAIN rows : /\ rows'[f].item = rows[f].item
                                   /\ rows'[f].status = IF f \in S THEN st ELSE rows[f].status
                                   /\ f \notin S => rows'[f] = rows[f]
<1>1. DOMAIN rows' = DOMAIN rows /\ \A f \in DOMAIN rows : rows'[f] = IF f \in S THEN [rows[f] EXCEPT !.status = st] ELSE rows[f]
  BY DEF Mark
<1>2. ASSUME NEW f \in DOMAIN rows
      PROVE  /\ rows'[f] \in RowOf /\ rows'[f].item = rows[f].item
             /\ rows'[f].status = IF f \in S THEN st ELSE rows[f].status
             /\ f \notin S => rows'[f] = rows[f]
  <2>1. rows[f] \in RowOf
    BY DEF PanelTypes
  <2> QED BY <1>1, <2>1 DEF RowOf
<1>3. rows' \in [DOMAIN rows -> RowOf]
  BY <1>1, <1>2 DEF Mark
<1> QED BY <1>1, <1>2, <1>3

(* An item of the batch that is set.                                       *)
LEMMA PutItem ==
  ASSUME PanelTypes, NEW f \in Files, NEW st \in Marks, Put(f, st)
  PROVE  /\ DOMAIN items' = DOMAIN items \cup {f} /\ DOMAIN items' \subseteq Files /\ items' \in [DOMAIN items' -> Marks]
         /\ items'[f] = st /\ \A g \in DOMAIN items \ {f} : items'[g] = items[g]
BY DEF PanelTypes, Put

-----------------------------------------------------------------------------
(* The list is changed while nothing runs.                                 *)
LEMMA ListKeeps ==
  ASSUME PanelInv,
         \/ \E f \in Files : RemoveRow(f) \/ \E st \in {"ready", "invalid"} : AddFile(f, st)
         \/ EditAgain \/ LeavePage
  PROVE  PanelInv'
<1> USE DEF PanelInv
<1>1. ASSUME NEW f \in Files, NEW st \in {"ready", "invalid"}, AddFile(f, st)
      PROVE  PanelInv'
  <2>1. DOMAIN rows' = DOMAIN rows \cup {f} /\ \A g \in DOMAIN rows' : rows'[g] \in RowOf /\ Fresh(rows'[g])
    BY <1>1, RenewedRows DEF AddFile, PanelTypes, FlagsAgree, Row, RowOf, Fresh
  <2>2. rows' \in [DOMAIN rows' -> RowOf]
    BY <1>1, <2>1 DEF AddFile
  <2>3. PanelTypes'
    BY <1>1, <2>1, <2>2 DEF AddFile, PanelTypes, Server
  <2>4. FlagsAgree'
    BY <1>1, <2>1 DEF AddFile, PanelTypes, FlagsAgree, Server
  <2>5. RowsAgree'
    BY <1>1, <2>4 DEF AddFile, FlagsAgree, RowsAgree, Completed
  <2> QED BY <2>3, <2>4, <2>5
<1>2. ASSUME NEW f \in Files, RemoveRow(f)
      PROVE  PanelInv'
  <2>1. DOMAIN rows' = DOMAIN rows \ {f} /\ \A g \in DOMAIN rows' : rows'[g] = rows[g]
    BY <1>2 DEF RemoveRow
  <2>2. rows' \in [DOMAIN rows' -> RowOf]
    BY <1>2, <2>1 DEF RemoveRow, PanelTypes
  <2>3. PanelTypes'
    BY <1>2, <2>1, <2>2 DEF RemoveRow, PanelTypes, FlagsAgree, Server
  <2>4. FlagsAgree'
    BY <1>2, <2>1 DEF RemoveRow, PanelTypes, FlagsAgree, Server, Fresh
  <2>5. RowsAgree'
    BY <1>2, <2>1 DEF RemoveRow, FlagsAgree, RowsAgree, Completed, Shown, LeftProcessing, Closed, Server
  <2> QED BY <2>3, <2>4, <2>5
<1>3. CASE EditAgain
  <2>1. PanelTypes'
    BY <1>3, RenewedRows DEF EditAgain, PanelTypes, Server
  <2>2. FlagsAgree' /\ RowsAgree'
    BY <1>3, RenewedRows DEF EditAgain, FlagsAgree, RowsAgree, Completed, Fresh
  <2> QED BY <2>1, <2>2
<1>4. CASE LeavePage
  BY <1>4 DEF LeavePage, Goes, NoRows, Server, PanelTypes, FlagsAgree, RowsAgree, Completed
<1> QED BY <1>1, <1>2, <1>3, <1>4

(* The start of a run.                                                     *)
LEMMA PanelStartKeeps ==
  ASSUME PanelInv, NEW kind \in {"batch", "sync", "merge"}, Start(kind)
  PROVE  PanelInv'
<1> USE DEF PanelInv
<1>1. /\ DOMAIN rows' = DOMAIN rows /\ rows' \in [DOMAIN rows -> RowOf]
      /\ \A f \in DOMAIN rows : rows'[f].status = rows[f].status /\ rows'[f].item = rows[f].item
  <2>1. \A f \in DOMAIN rows : rows[f] \in RowOf /\ (f \in Ready) \in BOOLEAN
    BY DEF PanelTypes
  <2>2. \A f \in DOMAIN rows : rows'[f] = [rows[f] EXCEPT !.asked = f \in Ready]
    BY DEF Start
  <2>3. \A f \in DOMAIN rows : rows'[f] \in RowOf /\ rows'[f].status = rows[f].status /\ rows'[f].item = rows[f].item
    BY <2>1, <2>2 DEF RowOf
  <2> QED BY <2>3 DEF Start
<1>2. Ready' = Ready /\ Ready \subseteq DOMAIN rows
  BY <1>1 DEF Ready
<1>3. PanelTypes'
  BY <1>1, <1>2 DEF Start, Goes, PanelTypes, Server
<1>4. ~pollFailed /\ \A f \in DOMAIN rows : Fresh(rows[f])'
  BY <1>1 DEF Start, FlagsAgree, Fresh
<1>5. FlagsAgree'
  BY <1>1, <1>4 DEF Start, Goes, PanelTypes, FlagsAgree
<1>6. RowsAgree'
  BY <1>1, <1>2, <1>4 DEF Start, Goes, RowsAgree, Completed, Fresh, Closed, Ready
<1> QED BY <1>3, <1>5, <1>6

(* The creation of the batch and the uploads.                              *)
LEMMA UploadsKeep ==
  ASSUME PanelInv, CreateBatch \/ EndUploads \/ \E f \in Files : UploadFile(f)
  PROVE  PanelInv'
<1> USE DEF PanelInv
<1>1. CASE CreateBatch
  <2>1. CASE /\ Answered /\ committed' = FALSE /\ canceled' = FALSE /\ items' = [f \in {} |-> "uploaded"]
             /\ place' = "upload" /\ UNCHANGED <<rows, running, todo>>
    <3>1. PanelTypes' /\ FlagsAgree'
      BY <1>1, <2>1 DEF CreateBatch, PanelTypes, FlagsAgree
    <3>2. RowsAgree'
      BY <1>1, <2>1 DEF CreateBatch, PanelTypes, FlagsAgree, RowsAgree, Completed, Fresh, Closed, Followed, Ready
    <3> QED BY <3>1, <3>2
  <2>2. CASE Unanswered /\ Mark(todo, "failed") /\ todo' = {} /\ Goes("idle", FALSE) /\ UNCHANGED Server
    <3>1. "failed" \in Marks
      BY DEF Marks, Ended
    <3>2. PanelTypes'
      BY <1>1, <2>2, <3>1, MarkedRows DEF CreateBatch, PanelTypes, Goes, Server
    <3>3. FlagsAgree'
      BY <1>1, <2>2 DEF CreateBatch, PanelTypes, FlagsAgree, Goes
    <3>4. ASSUME NEW f \in DOMAIN rows
          PROVE  Closed(rows'[f]) /\ ~rows'[f].item
      BY <1>1, <2>2, <3>1, MarkedRows DEF CreateBatch, RowsAgree, Fresh, Closed, Ended, Ready
    <3>5. RowsAgree'
      BY <1>1, <2>2, <3>1, <3>4, MarkedRows DEF CreateBatch, RowsAgree, Goes, Shown, LeftProcessing, Followed
    <3> QED BY <3>2, <3>3, <3>5
  <2> QED BY <1>1, <2>1, <2>2 DEF CreateBatch
<1>2. CASE EndUploads
  <2>1. PanelTypes' /\ FlagsAgree'
    BY <1>2 DEF EndUploads, Goes, Server, PanelTypes, FlagsAgree
  <2>2. RowsAgree'
    BY <1>2 DEF EndUploads, Goes, Server, RowsAgree, Completed, Followed, Shown, LeftProcessing, Closed
  <2> QED BY <2>1, <2>2
<1>3. ASSUME NEW f \in Files, UploadFile(f)
      PROVE  PanelInv'
  <2>1. "uploaded" \in Marks /\ "failed" \in Marks /\ f \in DOMAIN rows /\ rows[f] \in RowOf
    BY <1>3 DEF Marks, Ended, UploadFile, PanelTypes
  <2>2. DOMAIN items \subseteq DOMAIN items' /\ DOMAIN items' \subseteq Files /\ items' \in [DOMAIN items' -> Marks]
    BY <1>3, <2>1, PutItem DEF UploadFile, PanelTypes
  <2>9. UNCHANGED <<committed, canceled>> /\ (canceled => items' = items)
    BY <1>3 DEF UploadFile, PanelTypes
  <2>3. /\ DOMAIN rows' = DOMAIN rows /\ rows' \in [DOMAIN rows -> RowOf]
        /\ \A g \in DOMAIN rows \ {f} : rows'[g] = rows[g]
        /\ IF rows'[f].item THEN f \in DOMAIN items' ELSE Closed(rows'[f])
    <3>1. CASE Put(f, "uploaded") /\ rows' = [rows EXCEPT ![f].item = TRUE, ![f].status = "uploaded"]
      BY <2>1, <3>1, PutItem DEF PanelTypes, RowOf
    <3>2. CASE Mark({f}, "failed")
      <4>1. ~rows[f].item
        BY <1>3, <2>1 DEF UploadFile, RowsAgree
      <4>2. rows'[f].status = "failed" /\ rows'[f].item = rows[f].item
        BY <2>1, <3>2, MarkedRows
      <4> QED BY <2>1, <3>2, <4>1, <4>2, MarkedRows DEF Closed, Ended
    <3> QED BY <1>3, <3>1, <3>2 DEF UploadFile
  <2>4. PanelTypes' /\ FlagsAgree'
    BY <1>3, <2>1, <2>2, <2>3, <2>9 DEF UploadFile, Flags, PanelTypes, FlagsAgree
  <2>5. place = "upload" /\ place' = "upload" /\ todo' = todo \ {f}
    BY <1>3 DEF UploadFile
  <2>6. \A g \in DOMAIN rows : IF g \in todo' THEN ~rows'[g].item ELSE Followed(g)'
    BY <2>2, <2>3, <2>5 DEF RowsAgree, Followed, Closed
  <2>7. running' /\ ~pollFailed'
    BY <1>3 DEF UploadFile, FlagsAgree, Flags
  <2>8. RowsAgree'
    BY <2>3, <2>5, <2>6, <2>7 DEF RowsAgree, Completed
  <2> QED BY <2>4, <2>8
<1> QED BY <1>1, <1>2, <1>3

(* The batch is submitted and followed.                                    *)
LEMMA FollowKeeps ==
  ASSUME PanelInv, Submit \/ Poll \/ ResumePolling
  PROVE  PanelInv'
<1> USE DEF PanelInv
<1>1. CASE Submit
  <2>1. /\ DOMAIN items' = DOMAIN items /\ items' \in [DOMAIN items -> Marks]
        /\ committed' \in BOOLEAN /\ canceled' = canceled /\ (committed => committed' /\ items' = items)
    BY <1>1 DEF Submit, Commits, Server, PanelTypes, Marks
  <2>2. /\ UNCHANGED <<rows, started, how, todo, remote>> /\ place = "submit"
        /\ \/ place' = "poll" /\ UNCHANGED <<running, pollFailed>>
           \/ place' = "idle" /\ running' = FALSE /\ pollFailed' = TRUE
    BY <1>1 DEF Submit, PollFails, Goes
  <2>3. PanelTypes' /\ FlagsAgree'
    <3>1. PanelTypes'
      BY <2>1, <2>2 DEF PanelTypes
    <3>2. FlagsAgree'
      <4>1. running /\ started /\ ~pollFailed /\ todo = {}
        BY <2>2 DEF FlagsAgree
      <4>2. started' /\ todo' = {}
        BY <2>2, <4>1
      <4>3. \/ place' = "poll" /\ running' /\ ~pollFailed'
            \/ place' = "idle" /\ ~running' /\ pollFailed'
        BY <2>2, <4>1
      <4> QED BY <4>2, <4>3 DEF FlagsAgree
    <3> QED BY <3>1, <3>2
  <2>4. RowsAgree'
    BY <2>1, <2>2 DEF RowsAgree, FlagsAgree, Completed, Followed, Closed
  <2> QED BY <2>3, <2>4
<1>2. CASE Poll
  <2>1. CASE PollAnswer
    <3>1. UNCHANGED <<started, todo, remote, items, committed, canceled, pollFailed>> /\ ~pollFailed /\ started /\ todo = {}
      BY <1>2, <2>1 DEF Poll, PollAnswer, Server, FlagsAgree
    <3>2. /\ DOMAIN rows' = DOMAIN rows /\ rows' \in [DOMAIN rows -> RowOf]
          /\ \A f \in DOMAIN rows : /\ ~rows[f].item => rows'[f] = rows[f]
                                    /\ rows[f].item => rows'[f].item /\ f \in DOMAIN items /\ rows'[f].status = items[f]
      <4>1. \A f \in DOMAIN rows : rows[f].item => f \in DOMAIN items /\ items[f] \in Marks
        BY <1>2 DEF Poll, RowsAgree, Followed, PanelTypes
      <4> QED BY <2>1, <4>1 DEF PollAnswer, ApplyBatch, PanelTypes, RowOf
    <3>3. \A f \in DOMAIN rows : Followed(f)'
      BY <1>2, <3>1, <3>2 DEF Poll, RowsAgree, Followed, Closed
    <3>4. BatchEnded => \A f \in DOMAIN rows : Shown(f)'
      BY <1>2, <3>1, <3>2, <3>3 DEF BatchEnded, Settled, LeftProcessing, PanelTypes, Followed, Shown, Closed
    <3>5. \/ BatchEnded /\ place' = "idle" /\ running' = FALSE
          \/ place' \in {"poll", "submit"} /\ running' = TRUE
      BY <2>1 DEF PollAnswer, Follow, Goes
    <3>6. PanelTypes' /\ FlagsAgree'
      BY <3>1, <3>2, <3>5 DEF PanelTypes, FlagsAgree
    <3>7. RowsAgree'
      BY <3>1, <3>2, <3>3, <3>4, <3>5 DEF RowsAgree, Completed
    <3> QED BY <3>6, <3>7
  <2>2. CASE PollError
    <3>1. PanelTypes' /\ FlagsAgree'
      BY <1>2, <2>2 DEF Poll, PollError, PollFails, Goes, Server, PanelTypes, FlagsAgree
    <3>2. RowsAgree'
      BY <1>2, <2>2 DEF Poll, PollError, PollFails, Goes, Server, RowsAgree, Completed, Followed, Closed
    <3> QED BY <3>1, <3>2
  <2> QED BY <1>2, <2>1, <2>2 DEF Poll
<1>3. CASE ResumePolling
  <2>1. PanelTypes' /\ FlagsAgree'
    BY <1>3 DEF ResumePolling, Goes, Server, PanelTypes, FlagsAgree
  <2>2. RowsAgree'
    BY <1>3 DEF ResumePolling, Goes, Server, RowsAgree, Completed, Followed, Closed
  <2> QED BY <2>1, <2>2
<1> QED BY <1>1, <1>2, <1>3

(* Files one by one, merged, or tried again.                               *)
LEMMA LoopsKeep ==
  ASSUME PanelInv,
         \/ \E st \in {"success", "failed"} : RunMerge(st) \/ \E f \in Files : RunSync(f, st) \/ RetrySync(f, st)
         \/ EndLoop
  PROVE  PanelInv'
<1> USE DEF PanelInv
<1>0. {"success", "failed"} \subseteq Marks \cap Ended
  BY DEF Marks, Ended
<1>1. ASSUME NEW st \in {"success", "failed"}, NEW S, S \subseteq todo, Mark(S, st), todo' = todo \ S, \A g \in S : ~rows[g].item,
             place \in {"sync", "merge", "retry"}, UNCHANGED <<running, started, pollFailed, place, remote, committed, canceled, items>>
      PROVE  PanelInv'
  <2>1. PanelTypes' /\ FlagsAgree'
    BY <1>0, <1>1, MarkedRows DEF PanelTypes, FlagsAgree
  <2>2. ASSUME NEW g \in DOMAIN rows
        PROVE  /\ rows'[g].item = rows[g].item
               /\ g \in S => Closed(rows'[g]) /\ ~rows'[g].item
               /\ g \notin S => rows'[g] = rows[g]
    BY <1>0, <1>1, MarkedRows DEF Closed
  <2>3. ~Completed' /\ ~pollFailed' /\ DOMAIN rows' = DOMAIN rows
    BY <1>0, <1>1, MarkedRows DEF Completed, FlagsAgree
  <2>4. place = "retry" => \A g \in DOMAIN rows : Followed(g)'
    BY <1>1, <2>2 DEF RowsAgree, Followed, Closed
  <2>5. place = "retry" /\ ~remote => \A g \in DOMAIN rows : Shown(g)'
    BY <1>1, <2>2 DEF RowsAgree, Shown, LeftProcessing, Closed
  <2>6. place \in {"sync", "merge"} => \A g \in DOMAIN rows : ~rows'[g].item /\ (g \notin todo' => Closed(rows'[g]))
    BY <1>1, <2>2 DEF RowsAgree
  <2>7. RowsAgree'
    BY <1>1, <2>3, <2>4, <2>5, <2>6 DEF RowsAgree
  <2> QED BY <2>1, <2>7
<1>2. ASSUME NEW f \in Files, NEW st \in {"success", "failed"}, RunSync(f, st)
      PROVE  PanelInv'
  BY <1>1, <1>2 DEF RunSync, Flags, Server, RowsAgree, PanelTypes
<1>3. ASSUME NEW st \in {"success", "failed"}, RunMerge(st)
      PROVE  PanelInv'
  <2>1. \A g \in todo : ~rows[g].item
    BY <1>3 DEF RunMerge, RowsAgree, PanelTypes
  <2>2. todo' = todo \ todo
    BY <1>3 DEF RunMerge
  <2> QED BY <1>1, <1>3, <2>1, <2>2 DEF RunMerge, Flags, Server
<1>4. ASSUME NEW f \in Files, NEW st \in {"success", "failed"}, RetrySync(f, st)
      PROVE  PanelInv'
  BY <1>1, <1>4 DEF RetrySync, Flags, Server, PanelTypes
<1>5. CASE EndLoop
  <2>1. PanelTypes' /\ FlagsAgree'
    BY <1>5 DEF EndLoop, Goes, Server, PanelTypes, FlagsAgree
  <2>2. RowsAgree'
    BY <1>5 DEF EndLoop, Goes, Server, FlagsAgree, RowsAgree, Completed, Followed, Shown, LeftProcessing, Closed
  <2> QED BY <2>1, <2>2
<1> QED BY <1>2, <1>3, <1>4, <1>5

(* A retry begins, and asks the batch for an item again.                   *)
LEMMA RetryKeeps ==
  ASSUME PanelInv, MergeAlone, (\E S \in SUBSET Files : RetryRows(S)) \/ \E f \in Files : RetryItem(f)
  PROVE  PanelInv'
<1> USE DEF PanelInv
<1>1. ASSUME NEW S \in SUBSET Files, RetryRows(S)
      PROVE  PanelInv'
  <2>1. Completed /\ \A f \in DOMAIN rows : Shown(f)
    BY <1>1 DEF RetryRows, Retryable, FlagsAgree, RowsAgree, Completed, Fresh
  <2>2. todo' \subseteq DOMAIN rows
    BY <1>1 DEF RetryRows, Retryable
  <2>3. /\ UNCHANGED <<rows, started, pollFailed, committed, canceled, items>> /\ remote' = FALSE /\ running'
        /\ place' \in {"merge", "retry"} /\ started /\ ~pollFailed
    BY <1>1, <2>1 DEF RetryRows, Goes, Server, Completed
  <2>4. PanelTypes' /\ FlagsAgree'
    BY <2>2, <2>3 DEF PanelTypes, FlagsAgree
  <2>5. place' = "merge" => \A f \in DOMAIN rows : ~rows[f].item
    BY <1>1 DEF RetryRows, Goes, MergeAlone
  <2>6. RowsAgree'
    BY <2>1, <2>3, <2>5 DEF RowsAgree, Completed, Shown, LeftProcessing, Followed, Closed
  <2> QED BY <2>4, <2>6
<1>2. ASSUME NEW f \in Files, RetryItem(f)
      PROVE  PanelInv'
  <2>1. "queued" \in Marks /\ f \in DOMAIN rows /\ rows[f] \in RowOf /\ rows[f].item /\ f \in DOMAIN items
    BY <1>2 DEF Marks, RetryItem, PanelTypes, RowsAgree, Followed
  <2>2. DOMAIN items = DOMAIN items' /\ items' \in [DOMAIN items' -> Marks]
    <3>1. CASE Put(f, "queued")
      BY <2>1, <3>1, PutItem
    <3>2. CASE UNCHANGED items
      BY <3>2 DEF PanelTypes
    <3> QED BY <1>2, <3>1, <3>2 DEF RetryItem, Requeue
  <2>8. committed' = committed /\ (canceled' = FALSE \/ UNCHANGED <<canceled, items>>)
    BY <1>2 DEF RetryItem, Requeue
  <2>3. /\ DOMAIN rows' = DOMAIN rows /\ rows' \in [DOMAIN rows -> RowOf]
        /\ \A g \in DOMAIN rows : rows'[g].item = rows[g].item /\ (g # f => rows'[g] = rows[g])
    BY <1>2, <2>1, MarkedRows DEF RetryItem, PanelTypes
  <2>4. /\ UNCHANGED <<running, started, pollFailed, place>> /\ place = "retry" /\ remote' = TRUE
        /\ todo' = todo \ {f}
    BY <1>2 DEF RetryItem, Flags
  <2>5. PanelTypes' /\ FlagsAgree'
    <3>1. canceled' \in BOOLEAN /\ (canceled' => UNCHANGED <<canceled, items>>)
      BY <2>8 DEF PanelTypes
    <3>2. canceled' => committed' /\ \A g \in DOMAIN items' : items'[g] \in Ended \cup {"processing"}
      BY <2>8, <3>1 DEF PanelTypes
    <3>3. DOMAIN items' \subseteq Files /\ todo' \subseteq DOMAIN rows' /\ committed' \in BOOLEAN
      BY <2>2, <2>3, <2>4, <2>8 DEF PanelTypes
    <3>4. PanelTypes'
      BY <2>2, <2>3, <2>4, <3>1, <3>2, <3>3 DEF PanelTypes
    <3>5. FlagsAgree'
      BY <2>3, <2>4 DEF FlagsAgree
    <3> QED BY <3>4, <3>5
  <2>6. \A g \in DOMAIN rows : Followed(g)'
    BY <2>1, <2>2, <2>3, <2>4 DEF RowsAgree, Followed, Closed
  <2>7. RowsAgree'
    BY <2>3, <2>4, <2>6 DEF RowsAgree, FlagsAgree, Completed
  <2> QED BY <2>5, <2>7
<1> QED BY <1>1, <1>2

(* The workers and a client that cancels touch no item that has ended, and *)
(* an item that is processed only ends.                                    *)
ItemsGo ==
  /\ DOMAIN items' = DOMAIN items /\ items' \in [DOMAIN items -> Marks]
  /\ committed' \in BOOLEAN /\ canceled' \in BOOLEAN /\ (canceled => canceled')
  /\ canceled' => committed' /\ \A g \in DOMAIN items : items'[g] \in Ended \cup {"processing"}
  /\ \A g \in DOMAIN items : items[g] \in Ended => items'[g] = items[g]
  /\ \A g \in DOMAIN items : items[g] = "processing" => items'[g] \in {"processing", "success", "failed"}

LEMMA WorkersKeep ==
  ASSUME PanelInv, CancelBatch \/ \E f \in Files : WorkOn(f)
  PROVE  PanelInv'
<1> USE DEF PanelInv
<1>1. UNCHANGED <<rows, running, started, pollFailed, place, todo, remote>>
  BY DEF WorkOn, Claim, FinishItem, CancelBatch, Flags
<1>2. ItemsGo
  <2>1. ASSUME NEW f \in Files, WorkOn(f)
        PROVE  ItemsGo
    <3>1. /\ f \in DOMAIN items /\ items[f] \notin Ended /\ UNCHANGED <<committed, canceled>>
          /\ canceled => items[f] = "processing"
      BY <2>1 DEF WorkOn, Claim, FinishItem, Ended, PanelTypes
    <3>2. PICK st \in {"processing", "success", "failed"} :
            Put(f, st) /\ (items[f] = "processing" => st # "processing")
      BY <2>1 DEF WorkOn, Claim, FinishItem
    <3>3. st \in Marks /\ st \in Ended \cup {"processing"}
      BY DEF Marks, Ended
    <3>4. /\ DOMAIN items' = DOMAIN items /\ items' \in [DOMAIN items -> Marks]
          /\ items'[f] = st /\ \A g \in DOMAIN items \ {f} : items'[g] = items[g]
      BY <3>1, <3>2, <3>3, PutItem DEF PanelTypes
    <3> QED BY <3>1, <3>2, <3>3, <3>4 DEF PanelTypes, ItemsGo
  <2>2. CASE CancelBatch
    BY <2>2 DEF CancelBatch, PanelTypes, Marks, Ended, ItemsGo
  <2> QED BY <2>1, <2>2
<1>3. PanelTypes' /\ FlagsAgree'
  BY <1>1, <1>2 DEF ItemsGo, PanelTypes, FlagsAgree
<1>4. ASSUME NEW g \in DOMAIN rows, Shown(g)
      PROVE  Shown(g)'
  <2>1. CASE Closed(rows[g]) /\ (rows[g].item => g \in DOMAIN items /\ rows[g].status = items[g])
    <3>1. rows[g].item => g \in DOMAIN items /\ items'[g] = items[g]
      BY <1>2, <2>1 DEF ItemsGo, Closed, PanelTypes, Marks, Ended
    <3> QED BY <1>1, <1>2, <2>1, <3>1 DEF ItemsGo, Shown, Closed
  <2>2. CASE g \in DOMAIN items /\ LeftProcessing(g)
    <3>1. items'[g] \in {"processing", "success", "failed"}
      BY <1>2, <2>2 DEF ItemsGo, LeftProcessing, Ended
    <3> QED BY <1>1, <1>2, <2>2, <3>1 DEF ItemsGo, Shown, LeftProcessing
  <2> QED BY <1>4, <2>1, <2>2 DEF Shown
<1>5. \A g \in DOMAIN rows : Followed(g)' <=> Followed(g)
  BY <1>1, <1>2 DEF ItemsGo, Followed, Closed
<1>6. RowsAgree'
  BY <1>1, <1>4, <1>5 DEF RowsAgree, Completed, Ready
<1> QED BY <1>3, <1>6

(* No step of a merge makes an item.                                       *)
LEMMA MergeKeeps ==
  ASSUME PanelInv, MergeAlone, [PanelNext]_panelVars
  PROVE  MergeAlone'
<1> USE DEF PanelInv
<1>1. ASSUME \A f \in DOMAIN rows' : f \in DOMAIN rows /\ rows'[f].item = rows[f].item,
             how' = how, place' \in {"create", "upload"} => place \in {"create", "upload"}
      PROVE  MergeAlone'
  BY <1>1 DEF MergeAlone
<1>2. CASE PageStep
  <2>1. CASE CreateBatch
    <3>1. how # "merge" /\ how' = how
      BY <2>1 DEF CreateBatch, MergeAlone
    <3> QED BY <3>1 DEF MergeAlone
  <2>2. ASSUME NEW f \in Files, UploadFile(f)
        PROVE  MergeAlone'
    BY <2>2 DEF UploadFile, MergeAlone
  <2>3. CASE EndUploads \/ EndLoop
    BY <1>1, <2>3 DEF EndUploads, EndLoop, Goes
  <2>4. CASE Submit
    BY <1>1, <2>4 DEF Submit, PollFails, Goes
  <2>5. CASE Poll
    <3>1. CASE PollAnswer
      <4>1. \A f \in DOMAIN rows' : f \in DOMAIN rows /\ rows'[f].item = rows[f].item
        BY <3>1 DEF PollAnswer, ApplyBatch, PanelTypes, RowOf
      <4> QED BY <1>1, <2>5, <3>1, <4>1 DEF Poll, PollAnswer, Follow, Goes
    <3> QED BY <1>1, <2>5, <3>1 DEF Poll, PollError, PollFails, Goes
  <2>6. ASSUME NEW S, NEW st \in Marks, Mark(S, st) \/ UNCHANGED rows, how' = how, place' = place
        PROVE  MergeAlone'
    BY <1>1, <2>6, MarkedRows
  <2>7. {"success", "failed", "queued"} \subseteq Marks
    BY DEF Marks, Ended
  <2>8. ASSUME NEW f \in Files, NEW st \in {"success", "failed"}, RunSync(f, st) \/ RetrySync(f, st)
        PROVE  MergeAlone'
    BY <2>6, <2>7, <2>8 DEF RunSync, RetrySync
  <2>9. ASSUME NEW st \in {"success", "failed"}, RunMerge(st)
        PROVE  MergeAlone'
    BY <2>6, <2>7, <2>9 DEF RunMerge
  <2>10. ASSUME NEW f \in Files, RetryItem(f)
         PROVE  MergeAlone'
    BY <2>6, <2>7, <2>10 DEF RetryItem
  <2> QED BY <1>2, <2>1, <2>2, <2>3, <2>4, <2>5, <2>8, <2>9, <2>10 DEF PageStep
<1>3. CASE EditAgain
  BY <1>3, RenewedRows DEF EditAgain, MergeAlone, Fresh
<1>4. CASE LeavePage
  BY <1>4 DEF LeavePage, NoRows, Goes, MergeAlone
<1>5. CASE ResumePolling
  BY <1>1, <1>5 DEF ResumePolling, Goes
<1>6. ASSUME NEW kind \in {"batch", "sync", "merge"}, Start(kind)
      PROVE  MergeAlone'
  <2>1. \A f \in DOMAIN rows' : f \in DOMAIN rows /\ rows'[f].item = rows[f].item
    BY <1>6 DEF Start, PanelTypes, RowOf
  <2>2. \A f \in DOMAIN rows : ~rows[f].item
    BY <1>6 DEF Start, FlagsAgree, Fresh
  <2>3. place' \in {"create", "upload"} => how' # "merge"
    BY <1>6 DEF Start, Goes
  <2> QED BY <2>1, <2>2, <2>3 DEF MergeAlone
<1>7. ASSUME NEW S \in SUBSET Files, RetryRows(S)
      PROVE  MergeAlone'
  BY <1>1, <1>7 DEF RetryRows, Goes
<1>8. CASE CancelBatch \/ \E f \in Files : WorkOn(f)
  BY <1>1, <1>8 DEF WorkOn, Claim, FinishItem, CancelBatch
<1>9. ASSUME NEW f \in Files, RemoveRow(f)
      PROVE  MergeAlone'
  BY <1>1, <1>9 DEF RemoveRow
<1>10. ASSUME NEW f \in Files, NEW st \in {"ready", "invalid"}, AddFile(f, st)
       PROVE  MergeAlone'
  BY <1>10, RenewedRows DEF AddFile, MergeAlone, Fresh, Row, FlagsAgree
<1>11. CASE UNCHANGED panelVars
  BY <1>11 DEF panelVars, MergeAlone
<1> QED BY <1>2, <1>3, <1>4, <1>5, <1>6, <1>7, <1>8, <1>9, <1>10, <1>11 DEF PanelNext

(* Every step keeps the invariant.                                         *)
LEMMA PanelStep == PanelInv /\ MergeAlone /\ [PanelNext]_panelVars => PanelInv'
<1> SUFFICES ASSUME PanelInv, MergeAlone, [PanelNext]_panelVars PROVE PanelInv'
  OBVIOUS
<1>1. CASE PageStep
  BY <1>1, UploadsKeep, FollowKeeps, LoopsKeep, RetryKeeps DEF PageStep
<1>2. CASE UNCHANGED panelVars
  BY <1>2 DEF panelVars, PanelInv, PanelTypes, FlagsAgree, RowsAgree, Completed, Fresh, Closed, Followed, Shown, LeftProcessing, Ready
<1> QED BY <1>1, <1>2, ListKeeps, PanelStartKeeps, FollowKeeps, RetryKeeps, WorkersKeep DEF PanelNext

(* The inductive invariant holds.                                          *)
THEOREM PanelInvariant == PanelSpec => [](PanelInv /\ MergeAlone)
<1>1. PanelInit => PanelInv /\ MergeAlone
  BY PanelStarts, MergeStarts
<1>2. PanelInv /\ MergeAlone /\ [PanelNext]_panelVars => (PanelInv /\ MergeAlone)'
  BY PanelStep, MergeKeeps
<1> QED BY <1>1, <1>2, PTL DEF PanelSpec

(* The variables of the page have their types.                             *)
THEOREM PanelTyped == PanelSpec => []PanelTypeOK
<1>1. PanelInv => PanelTypeOK
  BY DEF PanelInv, PanelTypes, PanelTypeOK, RowOf, Marks, Ended
<1> QED BY <1>1, PanelInvariant, PTL

(* A page that shows results shows the end of every file.                  *)
THEOREM ResultsTrue == PanelSpec => []ResultsShown
<1>1. PanelInv => ResultsShown
  BY DEF PanelInv, RowsAgree, ResultsShown, LeftProcessing, Shown, Closed
<1> QED BY <1>1, PanelInvariant, PTL

-----------------------------------------------------------------------------
(* Forms: the checks of the page and of the server.                        *)

(* The checks of the synchronous road pass whatever the page lets start.   *)
LEMMA PagesAccepted ==
  ASSUME NEW f \in [tool : {"delete", "rotate", "watermark/remove"}, pages : Seq(PageRange), typed : Typing], FormValid(f)
  PROVE  SyncAccepts(Payload(f))
<1>1. Payload(f).op = f.tool /\ Payload(f).pages = f.pages
  BY DEF Payload, Spread
<1>2. f.tool = "delete" => ~Blank(f.pages)
  BY DEF FormValid
<1> QED BY <1>1, <1>2 DEF SyncAccepts, Blank

(* A compression the page lets start passes the check of the quality.    *)
LEMMA CompressAccepted ==
  ASSUME NEW f \in [tool : {"compress"}, quality : {"low", "medium", "high", "custom"}, image : Number], FormValid(f)
  PROVE  SyncAccepts(Payload(f))
<1>1. Payload(f) = [op |-> "compress", profile |-> f.quality # "custom", quality |-> Quality(f)]
  BY DEF Payload
<1>2. Within(Quality(f), 0, 1000) /\ \A n \in Quality(f) : n % 10 = 0
  BY DEF Quality, Within, FormValid, QualityValid
<1> QED BY <1>1, <1>2 DEF SyncAccepts

(* An encryption that has a password passes.                             *)
LEMMA EncryptAccepted ==
  ASSUME NEW f \in [tool : {"encrypt"}, password : Text], FormValid(f)
  PROVE  SyncAccepts(Payload(f))
<1>1. Payload(f).op = "encrypt" /\ Payload(f).password = f.password
  BY DEF Payload, Spread
<1> QED BY <1>1 DEF SyncAccepts, FormValid

(* Pages of another document: the page knows fewer selections.           *)
LEMMA InsertPagesAccepted ==
  ASSUME NEW f \in [tool : {"insert-from-pdf"}, pages : Seq(PageRange), file : {"none", "empty", "some"}], FormValid(f)
  PROVE  SyncAccepts(Payload(f))
<1>1. Payload(f).op = "insert-from-pdf" /\ Payload(f).pages = f.pages /\ Payload(f).file = f.file
  BY DEF Payload, Spread
<1>2. f.file = "some" /\ (Blank(f.pages) \/ All(f.pages) \/ AllOneBased(f.pages))
  BY DEF FormValid
<1>3. InsertAccepted(Payload(f))
  BY <1>1, <1>2 DEF InsertAccepted, Blank, All, AllOneBased
<1> QED BY <1>1, <1>3 DEF SyncAccepts

(* The scaling of every resolution the page offers is in the server's range. *)
LEMMA ImagesAccepted ==
  ASSUME NEW f \in [tool : {"pdf/png"}, dpi : Int], FormValid(f)
  PROVE  SyncAccepts(Payload(f))
<1>1. Payload(f) = [op |-> "pdf/png", scaling |-> Scaling(f.dpi)]
  BY DEF Payload
<1>2. f.dpi \in 72 .. 1500
  BY DEF FormValid
<1>3. ASSUME NEW d \in 72 .. 1500
      PROVE  100 <= Scaling(d) /\ 72 * Scaling(d) <= 100 * 1500
  <2>1. 144 * Scaling(d) <= 200 * d + 72 /\ 200 * d + 72 < 144 * Scaling(d) + 144 /\ Scaling(d) \in Int
    BY SMT DEF Scaling, Rounded
  <2> QED BY <2>1
<1>4. ImageAccepted(Payload(f))
  BY <1>1, <1>2, <1>3 DEF ImageAccepted
<1> QED BY <1>1, <1>4 DEF SyncAccepts

(* A watermark: each limit of the page is one of the server.             *)
LEMMA WatermarkRequestAccepted ==
  ASSUME NEW f \in [tool : {"watermark/add"}, pages : Seq(PageRange), type : {"text", "image"}, text : Text,
                    file : {"none", "empty", "some"}, opacity : Number, fontSize : Number, spacing : Number],
         FormValid(f)
  PROVE  SyncAccepts(Payload(f))
<1>1. Payload(f) = [op |-> "watermark/add", type |-> f.type, text |-> f.text, file |-> f.file, opacity |-> f.opacity,
                    fontSize |-> IF f.type = "text" THEN f.fontSize ELSE {}, spacing |-> f.spacing]
  BY DEF Payload
<1>2. WatermarkValid(f)
  BY DEF FormValid
<1>3. WatermarkAccepted(Payload(f))
  BY <1>1, <1>2 DEF WatermarkValid, WatermarkAccepted
<1> QED BY <1>1, <1>3 DEF SyncAccepts

(* A document that is cut: the count is at least one.                    *)
LEMMA SplitRequestAccepted ==
  ASSUME NEW f \in [tool : {"split"}, mode : {"custom", "every", "equal"}, ranges : Seq(Seq(PageRange)), count : Int],
         FormValid(f)
  PROVE  SyncAccepts(Payload(f))
<1>1. Payload(f) = IF f.mode = "custom" THEN [op |-> "split", ranges |-> f.ranges]
                   ELSE [op |-> "split", splitMode |-> f.mode, splitCount |-> f.count]
  BY DEF Payload
<1>2. f.mode # "custom" => f.count >= 1
  BY DEF FormValid
<1>3. SplitAccepted(Payload(f)) /\ Payload(f).op = "split"
  BY <1>1, <1>2 DEF SplitAccepted
<1> QED BY <1>3 DEF SyncAccepts

(* What headers, footers and Bates numbers have in common.                 *)
LEMMA StampAccepted ==
  ASSUME NEW f, f.opacity \in Number, f.fontSize \in Number, StampValid(f)
  PROVE  /\ \A n \in f.fontSize : n > 0
         /\ {ColorDigits(n) : n \in f.opacity} \subseteq {6, 8}
         /\ \A n \in f.margin : n >= 0
         /\ f.pages = <<Every>> \/ (f.pages # <<>> /\ AllOneBased(f.pages))
<1>1. ASSUME NEW n \in f.opacity
      PROVE  ColorDigits(n) \in {6, 8}
  <2>1. n \in Int /\ 0 <= n /\ n <= 10
    BY DEF StampValid, Within, Number
  <2>2. n # 10 => Rounded(n * 255, 10) < 256
    BY <2>1 DEF Rounded
  <2> QED BY <2>2 DEF ColorDigits
<1>2. \A n \in f.fontSize : n >= 10
  BY DEF StampValid, Within
<1>3. f.pages = <<Every>> \/ (f.pages # <<>> /\ AllOneBased(f.pages))
  BY DEF StampValid
<1>4. \A n \in f.margin : n >= 0
  BY DEF StampValid
<1>5. \A n \in f.fontSize : n > 0
  BY <1>2 DEF StampValid, Number
<1> QED BY <1>1, <1>3, <1>4, <1>5

(* Headers and footers: an offset that is not sent is the default.       *)
LEMMA HeaderAccepted ==
  ASSUME NEW f \in [tool : {"headers-footers/add"}, pages : Seq(PageRange), fontSize : Number, opacity : Number, margin : Number,
                    region : {"blank", "text", "page_number", "unknown_variable"}, offset : Number], FormValid(f)
  PROVE  SyncAccepts(Payload(f))
<1>1. /\ Payload(f).op = "headers-footers/add" /\ Payload(f).pages = f.pages
      /\ Payload(f).fontSize = f.fontSize /\ Payload(f).margin = f.margin
      /\ Payload(f).color = {ColorDigits(n) : n \in f.opacity} /\ Payload(f).region = f.region
      /\ Payload(f).offset = IF f.region = "page_number" THEN f.offset ELSE {10}
  BY DEF Payload, Spread, StampRequest
<1>2. StampValid(f) /\ HeaderValid(f)
  <2>1. f.tool = "headers-footers/add"
    OBVIOUS
  <2> QED BY <2>1, ZenonT(60) DEF FormValid
<1> DEFINE r == Payload(f)
<1> HIDE DEF r
<1>3. \A n \in r.offset : n >= 0 /\ n % 10 = 0
  <2>1. f.offset \in Number
    OBVIOUS
  <2>2. \A n \in f.offset : f.region = "page_number" => n >= 10 /\ n % 10 = 0
    BY <1>2 DEF HeaderValid
  <2>3. \A n \in f.offset : n \in Int
    BY <2>1 DEF Number
  <2>4. (r.offset = f.offset /\ f.region = "page_number") \/ r.offset = {10}
    BY <1>1 DEF r
  <2> QED BY <2>2, <2>3, <2>4
<1>4. /\ \A n \in r.fontSize : n > 0
      /\ r.color \subseteq {6, 8}
      /\ \A n \in r.margin : n >= 0
      /\ r.pages = <<Every>> \/ (r.pages # <<>> /\ AllOneBased(r.pages))
  BY <1>1, <1>2, StampAccepted DEF r
<1>5. r.op = "headers-footers/add" /\ r.region # "blank"
  BY <1>1, <1>2 DEF HeaderValid, r
<1>6. DecorationAccepted(r)
  BY <1>3, <1>4, <1>5 DEF DecorationAccepted
<1> QED BY <1>1, <1>6 DEF SyncAccepts, r

(* Bates numbers: the prefix has no sign of the server's syntax.         *)
LEMMA BatesAccepted ==
  ASSUME NEW f \in [tool : {"bates/add"}, pages : Seq(PageRange), fontSize : Number, opacity : Number, margin : Number,
                    start : Int, digits : Int, prefix : SUBSET {"letter", "digit", "space", "underscore", "hyphen", "hash", "open", "close"}],
         FormValid(f)
  PROVE  SyncAccepts(Payload(f))
<1>1. /\ Payload(f).op = "bates/add" /\ Payload(f).pages = f.pages
      /\ Payload(f).fontSize = f.fontSize /\ Payload(f).margin = f.margin
      /\ Payload(f).color = {ColorDigits(n) : n \in f.opacity} /\ Payload(f).offset = {0}
      /\ Payload(f).start = f.start /\ Payload(f).digits = f.digits /\ Payload(f).prefix = f.prefix
  BY DEF Payload, Spread, StampRequest
<1>2. StampValid(f) /\ BatesValid(f)
  <2>1. f.tool = "bates/add"
    OBVIOUS
  <2> QED BY <2>1, ZenonT(60) DEF FormValid
<1> DEFINE r == Payload(f)
<1> HIDE DEF r
<1>3. \A n \in r.offset : n >= 0 /\ n % 10 = 0
  <2>1. r.offset = {0}
    BY <1>1 DEF r
  <2> QED BY <2>1
<1>4. /\ \A n \in r.fontSize : n > 0
      /\ r.color \subseteq {6, 8}
      /\ \A n \in r.margin : n >= 0
      /\ r.pages = <<Every>> \/ (r.pages # <<>> /\ AllOneBased(r.pages))
  BY <1>1, <1>2, StampAccepted DEF r
<1>5. r.start \in 0 .. LargestNumber /\ r.digits \in 1 .. 32 /\ r.prefix \cap {"hash", "open", "close"} = {}
  <2>1. f.start \in 1 .. LargestNumber /\ f.digits \in 1 .. 32
    BY <1>2 DEF BatesValid
  <2>2. f.prefix \cap {"hash", "open", "close"} = {}
    <3>1. f.prefix \subseteq {"letter", "digit", "space", "underscore", "hyphen"}
      BY <1>2 DEF BatesValid
    <3> QED BY <3>1
  <2>3. f.start \in 0 .. LargestNumber
    <3>1. f.start \in 1 .. LargestNumber
      BY <2>1
    <3> QED BY <3>1
  <2> QED BY <1>1, <2>1, <2>2, <2>3 DEF r
<1>6. r.op = "bates/add"
  BY <1>1 DEF r
<1>7. DecorationAccepted(r)
  BY <1>3, <1>4, <1>5, <1>6 DEF DecorationAccepted
<1> QED BY <1>1, <1>7 DEF SyncAccepts, r

(* A form the page lets start composes a request that the server accepts.  *)
LEMMA PageAsStrict ==
  ASSUME NEW f \in Forms, FormValid(f)
  PROVE  SyncAccepts(Payload(f)) /\ BatchAccepts(Payload(f))
<1>1. f \in FormShapes
  BY FormAssumption
<1>2. SyncAccepts(Payload(f))
  BY <1>1, PagesAccepted, CompressAccepted, EncryptAccepted, InsertPagesAccepted, ImagesAccepted,
     WatermarkRequestAccepted, SplitRequestAccepted, HeaderAccepted, BatesAccepted DEF FormShapes
<1> QED BY <1>2 DEF BatchAccepts

-----------------------------------------------------------------------------
(* Forms: a document cut in parts.                                         *)

(* How much is cut off after part i: a closed form of consumed.            *)
Done(r, n, i) ==
  IF r.splitMode = "every" THEN IF i * r.splitCount < n THEN i * r.splitCount ELSE n
  ELSE i * (n \div r.splitCount) + (IF i <= n % r.splitCount THEN i ELSE n % r.splitCount)
Size(r, n, i, done) ==
  IF r.splitMode = "every" THEN IF r.splitCount < n - done THEN r.splitCount ELSE n - done
  ELSE n \div r.splitCount + (IF i <= n % r.splitCount THEN 1 ELSE 0)
Split(r, n) ==
  /\ n \in Nat \ {0} /\ r.splitCount \in Nat \ {0} /\ r.splitMode \in {"every", "equal"}
  /\ r.splitMode = "equal" => r.splitCount <= n

(* The quotient and the remainder.                                         *)
LEMMA Division ==
  ASSUME NEW n \in Nat, NEW c \in Nat \ {0}
  PROVE  n \div c \in Nat /\ n % c \in Nat /\ n = c * (n \div c) + (n % c) /\ n % c < c
<1>1. n = c * (n \div c) + (n % c)
  BY Z3
<1>2. 0 <= (n % c) /\ (n % c) < c /\ (n \div c) \in Int /\ (n % c) \in Int
  BY Z3
<1>3. n \div c >= 0
  BY Z3
<1> QED BY <1>1, <1>2, <1>3

(* The parts are as many as are needed, and no more.                     *)
LEMMA NumberOfParts ==
  ASSUME NEW r, NEW n, Split(r, n)
  PROVE  /\ Parts(r, n) \in Nat \ {0}
         /\ r.splitMode = "every" => /\ (Parts(r, n) - 1) * r.splitCount < n
                                     /\ n <= Parts(r, n) * r.splitCount
         /\ r.splitMode = "equal" => Parts(r, n) = r.splitCount
<1> DEFINE c == r.splitCount
<1>1. n \in Nat \ {0} /\ c \in Nat \ {0}
  BY DEF Split
<1>2. CASE r.splitMode = "equal"
  BY <1>1, <1>2 DEF Parts
<1>3. CASE r.splitMode = "every"
  <2>1. Parts(r, n) = (n + c - 1) \div c
    BY <1>3 DEF Parts
  <2> DEFINE m == n + c - 1
  <2> HIDE DEF c, m
  <2>2. m \in Nat
    BY <1>1 DEF m
  <2> DEFINE P == m \div c
  <2>3. P \in Nat /\ m = c * P + (m % c) /\ m % c < c /\ m % c \in Nat
    BY <1>1, <2>2, Division
  <2> HIDE DEF P
  <2>4. c * P <= n + c - 1 /\ n + c - 1 < c * P + c
    BY <1>1, <2>3 DEF m
  <2>5. P # 0
    BY <1>1, <2>3, <2>4
  <2>6. (P - 1) * c < n /\ n <= P * c
    BY <1>1, <2>3, <2>4
  <2> QED BY <1>3, <2>1, <2>3, <2>5, <2>6 DEF c, P, m
<1> QED BY <1>2, <1>3 DEF Split

(* A part takes what the closed form says.                               *)
LEMMA DoneStep ==
  ASSUME NEW r, NEW n, Split(r, n), NEW i \in Nat \ {0}
  PROVE  Done(r, n, i - 1) + Size(r, n, i, Done(r, n, i - 1)) = Done(r, n, i)
<1> DEFINE c == r.splitCount  q == n \div r.splitCount  m == n % r.splitCount
<1>1. n \in Nat \ {0} /\ c \in Nat \ {0} /\ q \in Nat /\ m \in Nat
  BY Division DEF Split
<1>2. CASE r.splitMode = "every"
  <2> HIDE DEF c
  <2>1. i * c = (i - 1) * c + c /\ (i - 1) * c \in Nat /\ i * c \in Nat
    BY <1>1
  <2> DEFINE d == (i - 1) * c  e == i * c
  <2>2. Done(r, n, i - 1) = IF d < n THEN d ELSE n
    BY <1>2 DEF Done, c
  <2>3. Done(r, n, i) = IF e < n THEN e ELSE n
    BY <1>2 DEF Done, c
  <2>4. \A x : Size(r, n, i, x) = IF c < n - x THEN c ELSE n - x
    BY <1>2 DEF Size, c
  <2> HIDE DEF d, e
  <2>5. d \in Nat /\ e \in Nat /\ e = d + c
    BY <2>1 DEF d, e
  <2> QED BY <1>1, <2>2, <2>3, <2>4, <2>5
<1>3. CASE r.splitMode = "equal"
  <2>1. Done(r, n, i - 1) = (i - 1) * q + (IF i - 1 <= m THEN i - 1 ELSE m)
    BY <1>3 DEF Done
  <2>2. Done(r, n, i) = i * q + (IF i <= m THEN i ELSE m)
    BY <1>3 DEF Done
  <2>3. \A x : Size(r, n, i, x) = q + (IF i <= m THEN 1 ELSE 0)
    BY <1>3 DEF Size
  <2> HIDE DEF q, m
  <2>4. i * q = (i - 1) * q + q /\ (i - 1) * q \in Nat /\ i * q \in Nat
    BY <1>1
  <2> DEFINE d == (i - 1) * q  e == i * q
  <2>5. d \in Nat /\ e = d + q /\ e \in Nat
    BY <2>4
  <2>6. /\ Done(r, n, i - 1) = d + (IF i - 1 <= m THEN i - 1 ELSE m)
        /\ Done(r, n, i) = e + (IF i <= m THEN i ELSE m)
    BY <2>1, <2>2
  <2> HIDE DEF d, e
  <2> QED BY <1>1, <2>3, <2>5, <2>6
<1> QED BY <1>2, <1>3 DEF Split

(* A set of natural numbers that is not empty has a least element.         *)
LEMMA Least ==
  ASSUME NEW S, S \subseteq Nat, S # {}
  PROVE  \E k \in S : \A j \in S : k <= j
<1> DEFINE T == {0 .. k : k \in S}
<1>1. T # {} /\ T \subseteq FiniteSubsetsOf(Nat)
  <2>1. ASSUME NEW k \in S
        PROVE  0 .. k \in FiniteSubsetsOf(Nat)
    <3>1. k \in Nat /\ 0 .. k \subseteq Nat
      OBVIOUS
    <3>2. IsFiniteSet(0 .. k)
      BY <3>1, FS_Interval
    <3> QED BY <3>1, <3>2 DEF FiniteSubsetsOf
  <2> QED BY <2>1
<1>2. IsWellFoundedOn(StrictSubsetOrdering(Nat), FiniteSubsetsOf(Nat))
  BY FS_StrictSubsetOrderingWellFounded
<1>3. PICK x \in T : \A y \in T : ~ (<<y, x>> \in StrictSubsetOrdering(Nat))
  <2> HIDE DEF T
  <2> QED BY <1>1, <1>2, WFMin
<1>4. PICK k \in S : x = 0 .. k
  BY <1>3
<1>5. ASSUME NEW j \in S, j < k
      PROVE  FALSE
  <2>1. j \in Nat /\ k \in Nat
    OBVIOUS
  <2>2. 0 .. j \subseteq 0 .. k /\ k \notin 0 .. j /\ k \in 0 .. k /\ 0 .. k \subseteq Nat
    BY <1>5, <2>1
  <2>3. <<0 .. j, 0 .. k>> \in StrictSubsetOrdering(Nat)
    BY <2>2 DEF StrictSubsetOrdering
  <2> QED BY <1>3, <1>4, <2>3
<1>6. \A j \in S : j \in Nat /\ k \in Nat
  OBVIOUS
<1> QED BY <1>5, <1>6

(* consumed is the closed form.                                            *)
LEMMA SplitClosed ==
  ASSUME NEW r, NEW n, Split(r, n)
  PROVE  SplitRanges(r, n) = [i \in 1 .. Parts(r, n) |-> Span(Done(r, n, i - 1) + 1, Done(r, n, i))]
<1> DEFINE P == Parts(r, n)
           Rec(g) == g = [i \in 0 .. P |-> IF i = 0 THEN 0 ELSE g[i - 1] + Size(r, n, i, g[i - 1])]
           con == CHOOSE g : Rec(g)
           closed == [i \in 0 .. P |-> Done(r, n, i)]
<1>0. P \in Nat \ {0}
  BY NumberOfParts
<1>1. SplitRanges(r, n) = [i \in 1 .. P |-> Span(con[i - 1] + 1, con[i])]
  BY DEF SplitRanges, Size
<1> HIDE DEF P
<1>2. Done(r, n, 0) = 0
  <2>1. CASE r.splitMode = "every"
    BY <2>1 DEF Done, Split
  <2>2. CASE r.splitMode = "equal"
    <3> DEFINE q == n \div r.splitCount  m == n % r.splitCount
    <3>1. q \in Nat /\ m \in Nat
      BY Division DEF Split
    <3>2. Done(r, n, 0) = 0 * q + (IF 0 <= m THEN 0 ELSE m)
      BY <2>2 DEF Done
    <3> HIDE DEF q, m
    <3> QED BY <3>1, <3>2
  <2> QED BY <2>1, <2>2 DEF Split
<1>3. Rec(closed)
  <2>1. \A i \in 0 .. P : closed[i] = IF i = 0 THEN 0 ELSE closed[i - 1] + Size(r, n, i, closed[i - 1])
    <3>1. ASSUME NEW i \in 0 .. P, i # 0
          PROVE  closed[i] = closed[i - 1] + Size(r, n, i, closed[i - 1])
      <4>1. i - 1 \in 0 .. P /\ i \in Nat \ {0}
        BY <1>0, <3>1
      <4>2. closed[i] = Done(r, n, i) /\ closed[i - 1] = Done(r, n, i - 1)
        BY <4>1
      <4> QED BY <4>1, <4>2, DoneStep
    <3> QED BY <1>0, <1>2, <3>1
  <2> QED BY <2>1
<1> HIDE DEF closed
<1>4. Rec(con)
  BY <1>3
<1> HIDE DEF con
<1>5. \A i \in 0 .. P : con[i] = Done(r, n, i)
  <2> DEFINE S == {i \in 0 .. P : con[i] # Done(r, n, i)}
  <2>1. SUFFICES ASSUME S # {} PROVE FALSE
    OBVIOUS
  <2>2. S \subseteq Nat
    BY <1>0
  <2>3. PICK k \in S : \A j \in S : k <= j
    BY <2>1, <2>2, Least
  <2>4. k # 0
    BY <1>0, <1>2, <1>4
  <2>5. k \in Nat \ {0} /\ k - 1 \in 0 .. P /\ k - 1 \notin S
    BY <1>0, <2>3, <2>4
  <2>6. con[k - 1] = Done(r, n, k - 1)
    BY <2>5
  <2>7. con[k] = con[k - 1] + Size(r, n, k, con[k - 1])
    BY <1>4, <2>4
  <2>8. con[k] = Done(r, n, k)
    BY <2>5, <2>6, <2>7, DoneStep
  <2> QED BY <2>8
<1>6. \A i \in 1 .. P : con[i] = Done(r, n, i) /\ con[i - 1] = Done(r, n, i - 1)
  <2>1. \A i \in 1 .. P : i \in 0 .. P /\ i - 1 \in 0 .. P
    BY <1>0
  <2> QED BY <1>5, <2>1
<1> QED BY <1>1, <1>6 DEF P

(* The parts are consecutive, none is empty, and they cover the document.  *)
Covers(parts, n) ==
  /\ Len(parts) >= 1 /\ parts[1].from = 1 /\ parts[Len(parts)].to = n
  /\ \A i \in 1 .. Len(parts) : parts[i].from <= parts[i].to
  /\ \A i \in 1 .. Len(parts) - 1 : parts[i + 1].from = parts[i].to + 1

(* What is cut off grows with every part, up to the whole document.        *)
LEMMA DoneGrows ==
  ASSUME NEW r, NEW n, Split(r, n)
  PROVE  /\ Done(r, n, 0) = 0 /\ Done(r, n, Parts(r, n)) = n
         /\ \A i \in 0 .. Parts(r, n) : Done(r, n, i) \in Nat
         /\ \A i \in 1 .. Parts(r, n) : Done(r, n, i - 1) < Done(r, n, i)
         /\ r.splitMode = "every" =>
              \A i \in 1 .. Parts(r, n) - 1 : Done(r, n, i) - Done(r, n, i - 1) = r.splitCount
         /\ r.splitMode = "equal" => \A i \in 1 .. Parts(r, n) :
              Done(r, n, i) - Done(r, n, i - 1) \in {n \div r.splitCount, (n \div r.splitCount) + 1}
<1> DEFINE P == Parts(r, n)  c == r.splitCount  q == n \div r.splitCount  m == n % r.splitCount
<1>1. /\ n \in Nat \ {0} /\ c \in Nat \ {0} /\ q \in Nat /\ m \in Nat /\ P \in Nat \ {0}
      /\ n = c * q + m /\ m < c
  BY Division, NumberOfParts DEF Split
<1>2. CASE r.splitMode = "every"
  <2>1. \A i : Done(r, n, i) = IF i * c < n THEN i * c ELSE n
    BY <1>2 DEF Done
  <2>2. (P - 1) * c < n /\ n <= P * c
    BY <1>2, NumberOfParts
  <2> HIDE DEF P, c
  <2>3. ASSUME NEW i \in 1 .. P
        PROVE  (i - 1) * c \in Nat /\ (i - 1) * c <= (P - 1) * c /\ i * c = (i - 1) * c + c
    <3>1. i \in Nat /\ i - 1 \in Nat /\ i - 1 <= P - 1
      BY <1>1
    <3> QED BY <1>1, <3>1
  <2>4. ASSUME NEW i \in 1 .. P
        PROVE  /\ Done(r, n, i - 1) = (i - 1) * c
               /\ Done(r, n, i - 1) < Done(r, n, i) /\ Done(r, n, i) \in Nat
    <3> DEFINE d == (i - 1) * c  e == i * c  g == (P - 1) * c
    <3>1. d \in Nat /\ d <= g /\ e = d + c /\ g < n /\ g \in Int
      BY <1>1, <2>2, <2>3
    <3>2. Done(r, n, i - 1) = (IF d < n THEN d ELSE n) /\ Done(r, n, i) = (IF e < n THEN e ELSE n)
      BY <2>1
    <3> HIDE DEF d, e, g
    <3>3. Done(r, n, i - 1) = d /\ Done(r, n, i - 1) < Done(r, n, i) /\ Done(r, n, i) \in Nat
      BY <1>1, <3>1, <3>2
    <3> QED BY <3>3 DEF d
  <2>5. Done(r, n, 0) = 0 /\ Done(r, n, P) = n
    <3>1. 0 * c = 0 /\ P * c \in Nat
      BY <1>1
    <3> QED BY <1>1, <2>1, <2>2, <3>1
  <2>6. ASSUME NEW i \in 1 .. P - 1
        PROVE  Done(r, n, i) - Done(r, n, i - 1) = c
    <3>1. i \in 1 .. P /\ i + 1 \in 1 .. P /\ (i + 1) - 1 = i
      BY <1>1
    <3>2. Done(r, n, i) = i * c
      BY <2>4, <3>1
    <3>3. Done(r, n, i - 1) = (i - 1) * c
      BY <2>4, <3>1
    <3>4. i * c = (i - 1) * c + c /\ (i - 1) * c \in Nat
      BY <2>3, <3>1
    <3> QED BY <1>1, <3>2, <3>3, <3>4
  <2>7. \A i \in 0 .. P : Done(r, n, i) \in Nat
    <3>1. \A i \in 0 .. P : i = 0 \/ i \in 1 .. P
      BY <1>1
    <3> QED BY <2>4, <2>5, <3>1
  <2> QED BY <1>2, <2>4, <2>5, <2>6, <2>7 DEF P, c
<1>3. CASE r.splitMode = "equal"
  <2>1. \A i : Done(r, n, i) = i * q + (IF i <= m THEN i ELSE m)
    BY <1>3 DEF Done
  <2>2. P = c /\ c <= n
    BY <1>3, NumberOfParts DEF Split
  <2> HIDE DEF P, c, q, m
  <2>3. q >= 1
    <3>1. q = 0 => c * q = 0
      BY <1>1
    <3> QED BY <1>1, <2>2, <3>1
  <2>4. ASSUME NEW i \in 1 .. P
        PROVE  /\ Done(r, n, i - 1) \in Nat /\ Done(r, n, i) \in Nat
               /\ Done(r, n, i) - Done(r, n, i - 1) \in {q, q + 1}
    <3>1. i \in Nat /\ i - 1 \in Nat
      BY <1>1
    <3>2. i * q = (i - 1) * q + q /\ (i - 1) * q \in Nat
      BY <1>1, <3>1
    <3> DEFINE d == (i - 1) * q  e == i * q
    <3>3. d \in Nat /\ e = d + q
      BY <3>2
    <3>4. Done(r, n, i - 1) = d + (IF i - 1 <= m THEN i - 1 ELSE m) /\ Done(r, n, i) = e + (IF i <= m THEN i ELSE m)
      BY <2>1
    <3> HIDE DEF d, e
    <3> QED BY <1>1, <3>1, <3>3, <3>4
  <2>5. Done(r, n, 0) = 0 /\ Done(r, n, P) = n
    <3>1. 0 * q = 0
      BY <1>1
    <3>2. Done(r, n, 0) = 0
      BY <1>1, <2>1, <3>1
    <3>3. Done(r, n, c) = c * q + m
      BY <1>1, <2>1
    <3> QED BY <1>1, <2>2, <3>2, <3>3
  <2>6. \A i \in 1 .. P : Done(r, n, i - 1) < Done(r, n, i)
    BY <1>1, <2>3, <2>4
  <2>7. \A i \in 0 .. P : Done(r, n, i) \in Nat
    <3>1. \A i \in 0 .. P : i = 0 \/ i \in 1 .. P
      BY <1>1
    <3> QED BY <2>4, <2>5, <3>1
  <2> QED BY <1>3, <2>4, <2>5, <2>6, <2>7 DEF P, c, q
<1> QED BY <1>2, <1>3 DEF Split

(* A document is cut as it was asked, whatever its size and the count.     *)
LEMMA SplitCovers ==
  ASSUME NEW r, NEW n, Split(r, n)
  PROVE  LET parts == SplitRanges(r, n) IN
         /\ Covers(parts, n)
         /\ r.splitMode = "every" => \A i \in 1 .. Len(parts) - 1 : parts[i].to - parts[i].from + 1 = r.splitCount
         /\ r.splitMode = "equal" => \A i, j \in 1 .. Len(parts) :
              parts[i].to - parts[i].from <= parts[j].to - parts[j].from + 1
<1> DEFINE P == Parts(r, n)  parts == SplitRanges(r, n)  D(i) == Done(r, n, i)
<1>1. P \in Nat \ {0}
  BY NumberOfParts
<1>2. parts = [i \in 1 .. P |-> Span(D(i - 1) + 1, D(i))]
  BY SplitClosed
<1>3. /\ D(0) = 0 /\ D(P) = n
      /\ \A i \in 0 .. P : D(i) \in Nat
      /\ \A i \in 1 .. P : D(i - 1) < D(i)
      /\ r.splitMode = "every" => \A i \in 1 .. P - 1 : D(i) - D(i - 1) = r.splitCount
      /\ r.splitMode = "equal" => \A i \in 1 .. P : D(i) - D(i - 1) \in {n \div r.splitCount, (n \div r.splitCount) + 1}
  BY DoneGrows
<1>4. n \div r.splitCount \in Nat /\ r.splitCount \in Nat
  BY Division DEF Split
<1> HIDE DEF P, parts, D
<1>5. Len(parts) = P
  <2> DEFINE S == {Span(D(i - 1) + 1, D(i)) : i \in 1 .. P}
  <2>2. parts \in [1 .. P -> S]
    BY <1>2
  <2> HIDE DEF S
  <2>1. parts \in Seq(S)
    BY <1>1, <2>2, SeqDef
  <2> QED BY <1>1, <1>2, <2>1, LenProperties
<1>6. \A i \in 1 .. P : /\ parts[i].from = D(i - 1) + 1 /\ parts[i].to = D(i)
                        /\ D(i - 1) \in Nat /\ D(i) \in Nat /\ D(i - 1) < D(i)
  BY <1>1, <1>2, <1>3 DEF Span
<1>7. Covers(parts, n)
  <2>1. parts[1].from = 1
    <3>1. 1 \in 1 .. P /\ 1 - 1 = 0
      BY <1>1
    <3>2. parts[1].from = D(1 - 1) + 1
      BY <1>6, <3>1
    <3> QED BY <1>3, <3>1, <3>2
  <2>2. parts[P].to = n
    BY <1>1, <1>3, <1>6
  <2>3. \A i \in 1 .. P : parts[i].from <= parts[i].to
    BY <1>6
  <2>4. ASSUME NEW i \in 1 .. P - 1
        PROVE  parts[i + 1].from = parts[i].to + 1
    <3>1. i \in 1 .. P /\ i + 1 \in 1 .. P /\ (i + 1) - 1 = i
      BY <1>1
    <3>2. parts[i + 1].from = D((i + 1) - 1) + 1 /\ parts[i].to = D(i)
      BY <1>6, <3>1
    <3> QED BY <3>1, <3>2
  <2> QED BY <1>1, <1>5, <2>1, <2>2, <2>3, <2>4 DEF Covers
<1>8. ASSUME r.splitMode = "every", NEW i \in 1 .. P - 1
      PROVE  parts[i].to - parts[i].from + 1 = r.splitCount
  <2>1. i \in 1 .. P
    BY <1>1
  <2>2. D(i) - D(i - 1) = r.splitCount
    BY <1>3, <1>8
  <2> QED BY <1>4, <1>6, <2>1, <2>2
<1>9. ASSUME r.splitMode = "equal", NEW i \in 1 .. P, NEW j \in 1 .. P
      PROVE  parts[i].to - parts[i].from <= parts[j].to - parts[j].from + 1
  <2> DEFINE q == n \div r.splitCount
  <2>1. D(i) - D(i - 1) \in {q, q + 1} /\ D(j) - D(j - 1) \in {q, q + 1}
    BY <1>3, <1>9
  <2>2. q \in Nat
    BY <1>4
  <2>3. /\ parts[i].from = D(i - 1) + 1 /\ parts[i].to = D(i) /\ D(i - 1) \in Nat /\ D(i) \in Nat
        /\ parts[j].from = D(j - 1) + 1 /\ parts[j].to = D(j) /\ D(j - 1) \in Nat /\ D(j) \in Nat
    BY <1>6
  <2> HIDE DEF q
  <2> QED BY <2>1, <2>2, <2>3
<1> QED BY <1>5, <1>7, <1>8, <1>9 DEF parts

-----------------------------------------------------------------------------
(* Forms: what was meant.                                                  *)

(* MeantIsSent of a form f and a document of n pages that is sent as s.  *)
Meant(f, n, s) ==
  /\ s.op \in {"delete", "rotate", "watermark/remove"} =>
       /\ f.typed = "commas" /\ ParsePages(f.pages) =>
            IF Blank(f.pages) \/ All(f.pages) THEN s.all ELSE ~s.all /\ s.pages = PageSet(f.pages)
       /\ ~Blank(f.pages) /\ AllOneBased(f.pages) => ~s.all /\ s.pages \subseteq PageSet(f.pages)
  /\ s.op = "compress" /\ f.quality # "custom" => s.flags = f.quality
  /\ "parts" \in DOMAIN s =>
       /\ Covers(s.parts, n)
       /\ f.mode = "every" => \A i \in 1 .. Len(s.parts) - 1 : s.parts[i].to - s.parts[i].from + 1 = f.count
       /\ f.mode = "equal" => \A i, j \in 1 .. Len(s.parts) :
            s.parts[i].to - s.parts[i].from <= s.parts[j].to - s.parts[j].from + 1

(* Pages in the syntax of the page fields are those pages.                 *)
LEMMA PagesAsTyped ==
  ASSUME NEW pages \in Seq(PageRange), AllOneBased(pages)
  PROVE  ToPageNumbers(pages) = PageSet(pages)
<1>1. ASSUME NEW i \in DOMAIN pages
      PROVE  /\ pages[i] \notin {Every, Junk}
             /\ (pages[i].from .. pages[i].to) \cup (pages[i].to .. pages[i].from) = pages[i].from .. pages[i].to
  <2>1. pages[i] \in PageRange
    OBVIOUS
  <2>2. pages[i].from \in Int /\ pages[i].to \in Int /\ pages[i].from >= 1 /\ pages[i].to >= pages[i].from
    BY <2>1 DEF PageRange, AllOneBased, OneBased
  <2>3. pages[i] \notin {Every, Junk}
    BY <2>2 DEF Every, Junk, Span
  <2>4. \A k \in pages[i].to .. pages[i].from : k \in pages[i].from .. pages[i].to
    BY <2>2
  <2> QED BY <2>3, <2>4
<1> QED BY <1>1 DEF ToPageNumbers, PageSet

(* Pages that are typed otherwise are those pages, but for what is dropped. *)
LEMMA DividedOrDropped ==
  ASSUME NEW f, f.pages \in Seq(PageRange), AllOneBased(f.pages)
  PROVE  ToPageNumbers(Divided(f)) \subseteq PageSet(f.pages)
<1> DEFINE Pages(s, i) == IF s[i] \in {Every, Junk} THEN {} ELSE (s[i].from .. s[i].to) \cup (s[i].to .. s[i].from)
<1>1. DOMAIN Divided(f) = DOMAIN f.pages
      /\ \A i \in DOMAIN f.pages : Divided(f)[i] \in {Junk, f.pages[i]}
  BY DEF Divided
<1>2. \A i \in DOMAIN f.pages : Pages(Divided(f), i) \subseteq Pages(f.pages, i)
  BY <1>1
<1>3. ToPageNumbers(Divided(f)) \subseteq ToPageNumbers(f.pages)
  BY <1>1, <1>2 DEF ToPageNumbers
<1> QED BY <1>3, PagesAsTyped

(* A selection of pages is sent as pages that were typed.                  *)
LEMMA SelectionMeant ==
  ASSUME NEW f \in [tool : {"delete", "rotate", "watermark/remove"}, pages : Seq(PageRange), typed : Typing], NEW n
  PROVE  Meant(f, n, Normalized(Payload(f), n))
<1> DEFINE r == Payload(f)  s == Normalized(r, n)
<1>1. r.op = f.tool /\ r.pages = f.pages /\ r.typed = f.typed
  BY DEF Payload, Spread
<1> HIDE DEF r
<1>2. s = Selected(r)
  <2>1. r.op \in {"delete", "rotate", "watermark/remove"} /\ r.op # "compress" /\ ~Dynamic(r)
    BY <1>1 DEF Dynamic
  <2> QED BY <2>1, ZenonT(60) DEF Normalized
<1> HIDE DEF s
<1>3. MeansAll(r) => Blank(f.pages) \/ All(f.pages)
  BY <1>1 DEF MeansAll
<1>4. Divided(r) = Divided(f)
  BY <1>1 DEF Divided, Undivided
<1>5. s = [op |-> f.tool, all |-> MeansAll(r), pages |-> ToPageNumbers(Divided(f))]
  BY <1>1, <1>2, <1>4 DEF Selected
<1>6. "parts" \notin DOMAIN s /\ s.op # "compress" /\ (s.all <=> MeansAll(r)) /\ s.pages = ToPageNumbers(Divided(f))
  <2>1. MeansAll(r) \in BOOLEAN
    BY DEF MeansAll
  <2> QED BY <1>5, <2>1
<1>7. ASSUME f.typed = "commas", ParsePages(f.pages)
      PROVE  IF Blank(f.pages) \/ All(f.pages) THEN s.all ELSE ~s.all /\ s.pages = PageSet(f.pages)
  <2>1. CASE Blank(f.pages) \/ All(f.pages)
    BY <1>1, <1>6, <1>7, <2>1 DEF MeansAll
  <2>2. CASE ~Blank(f.pages) /\ ~All(f.pages)
    <3>1. Divided(f) = f.pages /\ AllOneBased(f.pages)
      BY <1>7, <2>2 DEF Divided, Undivided, ParsePages
    <3> QED BY <1>3, <1>6, <2>2, <3>1, PagesAsTyped
  <2> QED BY <2>1, <2>2
<1>8. ASSUME ~Blank(f.pages), AllOneBased(f.pages)
      PROVE  ~s.all /\ s.pages \subseteq PageSet(f.pages)
  <2>1. ~All(f.pages)
    BY <1>8 DEF AllOneBased, OneBased, All, Every, Span
  <2> QED BY <1>3, <1>6, <1>8, <2>1, DividedOrDropped
<1> QED BY <1>6, <1>7, <1>8 DEF Meant, r, s

(* A preset keeps its name through the number it is sent as.             *)
LEMMA CompressionMeant ==
  ASSUME NEW f \in [tool : {"compress"}, quality : {"low", "medium", "high", "custom"}, image : Number], NEW n
  PROVE  Meant(f, n, Normalized(Payload(f), n))
<1> DEFINE r == Payload(f)  s == Normalized(r, n)
<1>1. r = [op |-> "compress", profile |-> f.quality # "custom", quality |-> Quality(f)]
  BY DEF Payload
<1> HIDE DEF r
<1>2. s = Compressed(r)
  <2>1. r.op \notin {"delete", "rotate", "watermark/remove"} /\ r.op = "compress" /\ ~Dynamic(r)
    BY <1>1 DEF Dynamic
  <2> QED BY <2>1, ZenonT(60) DEF Normalized
<1> HIDE DEF s
<1>3. "parts" \notin DOMAIN s /\ s.op = "compress"
  BY <1>1, <1>2 DEF Compressed
<1>4. ASSUME f.quality # "custom"
      PROVE  s.flags = f.quality
  <2>1. s.flags = IF Within(r.quality, 0, 300) THEN "low" ELSE IF Within(r.quality, 0, 600) THEN "medium" ELSE "high"
    BY <1>1, <1>2, <1>4 DEF Compressed
  <2>2. r.quality = IF f.quality = "low" THEN {300} ELSE IF f.quality = "medium" THEN {600} ELSE {800}
    BY <1>1, <1>4 DEF Quality
  <2> QED BY <1>4, <2>1, <2>2 DEF Within
<1> QED BY <1>3, <1>4 DEF Meant, r, s

(* A document is cut as it was asked.                                    *)
LEMMA SplitMeant ==
  ASSUME NEW f \in [tool : {"split"}, mode : {"custom", "every", "equal"}, ranges : Seq(Seq(PageRange)), count : Int],
         NEW n \in Nat \ {0}, SyncAccepts(Payload(f)),
         Dynamic(Payload(f)) /\ Payload(f).splitMode = "equal" => Payload(f).splitCount <= n
  PROVE  Meant(f, n, Normalized(Payload(f), n))
<1> DEFINE r == Payload(f)  s == Normalized(r, n)
<1>1. r = IF f.mode = "custom" THEN [op |-> "split", ranges |-> f.ranges]
          ELSE [op |-> "split", splitMode |-> f.mode, splitCount |-> f.count]
  BY DEF Payload
<1>2. SplitAccepted(r)
  <2>1. r.op = "split"
    BY <1>1
  <2> QED BY <2>1 DEF SyncAccepts
<1>3. Dynamic(r) /\ r.splitMode = "equal" => r.splitCount <= n
  OBVIOUS
<1> HIDE DEF r
<1>4. CASE f.mode = "custom"
  <2>1. r.op = "split" /\ ~Dynamic(r) /\ "parts" \notin DOMAIN r
    BY <1>1, <1>4 DEF Dynamic
  <2>2. s = r
    BY <2>1 DEF Normalized
  <2> QED BY <2>1, <2>2 DEF Meant, r, s
<1>5. CASE f.mode # "custom"
  <2>1. /\ r.op = "split" /\ Dynamic(r) /\ r.splitMode = f.mode /\ r.splitCount = f.count
        /\ f.mode \in {"every", "equal"} /\ {"splitMode", "splitCount"} \cap DOMAIN r # {}
    BY <1>1, <1>5 DEF Dynamic
  <2>2. s = [op |-> "split", parts |-> SplitRanges(r, n)]
    BY <2>1 DEF Normalized
  <2>3. Split(r, n)
    BY <1>2, <1>3, <2>1 DEF Split, SplitAccepted
  <2> HIDE DEF s
  <2>4. s.parts = SplitRanges(r, n) /\ s.op = "split"
    BY <2>2
  <2> QED BY <2>1, <2>3, <2>4, SplitCovers DEF Meant, r, s
<1> QED BY <1>4, <1>5

(* What goes as it is says nothing of parts, presets or selections.        *)
LEMMA PlainMeant ==
  ASSUME NEW f, NEW n, NEW r, r = Payload(f),
         r.op \notin {"delete", "rotate", "watermark/remove", "compress", "split"}, "parts" \notin DOMAIN r
  PROVE  Meant(f, n, Normalized(r, n))
<1>1. Normalized(r, n) = r
  BY DEF Normalized, Dynamic
<1> QED BY <1>1 DEF Meant

(* So it is with every other tool.                                       *)
LEMMA OthersMeant ==
  ASSUME NEW f \in FormShapes, f.tool \notin {"delete", "rotate", "watermark/remove", "compress", "split"}, NEW n
  PROVE  Meant(f, n, Normalized(Payload(f), n))
<1>1. ASSUME NEW r, r = Payload(f), r.op = f.tool, "parts" \notin DOMAIN r
      PROVE  Meant(f, n, Normalized(Payload(f), n))
  BY <1>1, PlainMeant
<1>2. CASE f.tool = "pdf/png"
  <2>1. Payload(f) = [op |-> f.tool, scaling |-> Scaling(f.dpi)]
    BY <1>2 DEF Payload
  <2> QED BY <1>1, <2>1
<1>3. CASE f.tool = "watermark/add"
  <2>1. Payload(f) = [op |-> f.tool, type |-> f.type, text |-> f.text, file |-> f.file, opacity |-> f.opacity,
                      fontSize |-> IF f.type = "text" THEN f.fontSize ELSE {}, spacing |-> f.spacing]
    BY <1>3 DEF Payload
  <2> QED BY <1>1, <2>1
<1>4. CASE f.tool \in {"encrypt", "insert-from-pdf"}
  <2>1. Payload(f) = Spread([op |-> f.tool], f)
    BY <1>4 DEF Payload
  <2>2. "parts" \notin DOMAIN f
    BY <1>4 DEF FormShapes
  <2>3. Payload(f).op = f.tool /\ "parts" \notin DOMAIN Payload(f)
    BY <2>1, <2>2 DEF Spread
  <2> QED BY <1>1, <2>3
<1>5. CASE f.tool \in {"headers-footers/add", "bates/add"}
  <2>1. Payload(f) = Spread(StampRequest(f), f)
    BY <1>5 DEF Payload
  <2>2. "parts" \notin DOMAIN f
    BY <1>5 DEF FormShapes
  <2>3. "parts" \notin DOMAIN StampRequest(f) /\ StampRequest(f).op = f.tool /\ "op" \in DOMAIN StampRequest(f)
    BY DEF StampRequest
  <2>4. Payload(f).op = f.tool /\ "parts" \notin DOMAIN Payload(f)
    BY <2>1, <2>2, <2>3 DEF Spread
  <2> QED BY <1>1, <2>4
<1> QED BY <1>2, <1>3, <1>4, <1>5 DEF FormShapes

(* What is sent is what was meant, whatever the form.                    *)
LEMMA AllMeant ==
  ASSUME NEW f \in Forms, NEW n \in Nat \ {0}, SyncAccepts(Payload(f)),
         Dynamic(Payload(f)) /\ Payload(f).splitMode = "equal" => Payload(f).splitCount <= n
  PROVE  Meant(f, n, Normalized(Payload(f), n))
<1>1. f \in FormShapes
  BY FormAssumption
<1>2. CASE f.tool = "split"
  <2>1. f \in [tool : {"split"}, mode : {"custom", "every", "equal"}, ranges : Seq(Seq(PageRange)), count : Int]
    BY <1>1, <1>2 DEF FormShapes
  <2> QED BY <2>1, SplitMeant
<1>3. CASE f.tool \in {"delete", "rotate", "watermark/remove"}
  <2>1. f \in [tool : {"delete", "rotate", "watermark/remove"}, pages : Seq(PageRange), typed : Typing]
    BY <1>1, <1>3 DEF FormShapes
  <2> QED BY <2>1, SelectionMeant
<1>4. CASE f.tool = "compress"
  <2>1. f \in [tool : {"compress"}, quality : {"low", "medium", "high", "custom"}, image : Number]
    BY <1>1, <1>4 DEF FormShapes
  <2> QED BY <2>1, CompressionMeant
<1> QED BY <1>1, <1>2, <1>3, <1>4, OthersMeant

(* A request names the tool it is for.                                     *)
LEMMA PayloadNames ==
  ASSUME NEW f \in FormShapes
  PROVE  Payload(f).op = f.tool
<1>1. CASE f.tool \in {"headers-footers/add", "bates/add"}
  <2>1. Payload(f) = Spread(StampRequest(f), f)
    BY <1>1 DEF Payload
  <2>2. StampRequest(f).op = f.tool /\ "op" \in DOMAIN StampRequest(f)
    BY DEF StampRequest
  <2> QED BY <2>1, <2>2 DEF Spread
<1>2. CASE f.tool \in {"compress", "pdf/png", "watermark/add", "split"}
  BY <1>2 DEF Payload
<1>3. CASE f.tool \in {"delete", "rotate", "watermark/remove", "encrypt", "insert-from-pdf"}
  <2>1. Payload(f) = Spread([op |-> f.tool], f)
    BY <1>3 DEF Payload
  <2> QED BY <2>1 DEF Spread
<1> QED BY <1>1, <1>2, <1>3 DEF FormShapes

(* A request to cut a document by a number has that number.                *)
LEMMA DynamicCount ==
  ASSUME NEW f \in Forms, Dynamic(Payload(f))
  PROVE  Payload(f).splitCount \in Int
<1>1. f \in FormShapes
  BY FormAssumption
<1>2. CASE f.tool = "split"
  <2>1. f \in [tool : {"split"}, mode : {"custom", "every", "equal"}, ranges : Seq(Seq(PageRange)), count : Int]
    BY <1>1, <1>2 DEF FormShapes
  <2>2. Payload(f) = IF f.mode = "custom" THEN [op |-> "split", ranges |-> f.ranges]
                     ELSE [op |-> "split", splitMode |-> f.mode, splitCount |-> f.count]
    BY <1>2 DEF Payload
  <2> QED BY <2>1, <2>2 DEF Dynamic
<1>3. CASE f.tool # "split"
  <2>1. Payload(f).op = f.tool
    BY <1>1, <1>3, PayloadNames
  <2> QED BY <1>3, <2>1 DEF Dynamic
<1> QED BY <1>2, <1>3

(* Every behaviour of a form: what each stage knows.                       *)
FormInv ==
  /\ form \in Forms /\ document \in Nat \ {0}
  /\ stage \in {"form", "sync", "batch", "refused", "too_many", "sent"}
  /\ stage = "batch" => FormValid(form)
  /\ FormValid(form) => stage # "refused"
  /\ stage = "sent" => /\ SyncAccepts(Payload(form)) /\ ~TooManyParts(Payload(form))
                       /\ sent = Normalized(Payload(form), document)

(* A form that is filled is at its first stage.                          *)
LEMMA FormStarts == FormInit => FormInv
<1> SUFFICES ASSUME FormInit PROVE FormInv
  OBVIOUS
<1>1. (CHOOSE n \in PageCounts : TRUE) \in PageCounts
  BY FormAssumption
<1>2. document \in PageCounts
  BY <1>1 DEF FormInit
<1>3. document \in Nat \ {0}
  BY <1>2, FormAssumption
<1> QED BY <1>3 DEF FormInit, FormInv

(* Every step of a form keeps what the stages know.                      *)
LEMMA FormStep == FormInv /\ [FormNext]_formVars => FormInv'
<1> SUFFICES ASSUME FormInv, [FormNext]_formVars PROVE FormInv'
  OBVIOUS
<1>1. ASSUME UNCHANGED <<form, document>>
      PROVE  /\ form' \in Forms /\ document' \in Nat \ {0} /\ Payload(form)' = Payload(form)
             /\ FormValid(form)' = FormValid(form)
  BY <1>1 DEF FormInv
<1>2. CASE SubmitForm
  BY <1>1, <1>2 DEF SubmitForm, FormInv
<1>3. CASE PostDirectly
  BY <1>1, <1>3 DEF PostDirectly, FormInv
<1>4. CASE RefuseForm
  <2>1. ~FormValid(form)
    <3>1. ~Accepts(Payload(form)) /\ stage \in {"sync", "batch"}
      BY <1>4 DEF RefuseForm
    <3> QED BY <3>1, PageAsStrict DEF Accepts, FormInv
  <2> QED BY <1>1, <1>4, <2>1 DEF RefuseForm, FormInv
<1>5. CASE RefuseParts
  BY <1>1, <1>5 DEF RefuseParts, FormInv
<1>6. CASE PassOn
  <2>1. SyncAccepts(Payload(form))
    <3>1. Accepts(Payload(form))
      BY <1>6 DEF PassOn
    <3> QED BY <3>1, PageAsStrict DEF Accepts, FormInv
  <2>2. ~TooManyParts(Payload(form))' /\ SyncAccepts(Payload(form))' /\ (sent = Normalized(Payload(form), document))'
    BY <1>6, <2>1 DEF PassOn, TooManyParts
  <2> QED BY <1>1, <1>6, <2>2 DEF PassOn, FormInv
<1>7. CASE UNCHANGED formVars
  BY <1>7 DEF formVars, FormInv, TooManyParts
<1> QED BY <1>2, <1>3, <1>4, <1>5, <1>6, <1>7 DEF FormNext

(* The inductive invariant of a form holds.                                *)
THEOREM FormInvariant == FormSpec => []FormInv
BY FormStarts, FormStep, PTL DEF FormSpec

(* No request of a form that the page lets start is refused for what it    *)
(* says, whichever road it takes.                                          *)
THEOREM FormSound == FormSpec => []FormAccepted
<1>1. FormInv => FormAccepted
  BY DEF FormInv, FormAccepted
<1> QED BY <1>1, FormInvariant, PTL

(* A form that was sent was sent as it was meant.                         *)
LEMMA SentAsMeant == FormInv => MeantIsSent
<1>1. ASSUME FormInv, stage = "sent"
      PROVE  Meant(form, document, sent)
  <2>1. Dynamic(Payload(form)) /\ Payload(form).splitMode = "equal" => Payload(form).splitCount <= document
    <3>1. form \in Forms /\ document \in Nat \ {0} /\ ~TooManyParts(Payload(form))
      BY <1>1 DEF FormInv
    <3>2. ASSUME Dynamic(Payload(form))
          PROVE  Payload(form).splitCount \in Int
      BY <3>1, <3>2, DynamicCount
    <3> QED BY <3>1, <3>2 DEF TooManyParts
  <2> QED BY <1>1, <2>1, AllMeant DEF FormInv
<1> QED BY <1>1 DEF MeantIsSent, Meant, Covers

(* What is sent is what was meant: the pages, the preset, the parts.       *)
THEOREM MeaningKept == FormSpec => []MeantIsSent
BY SentAsMeant, FormInvariant, PTL
=============================================================================
