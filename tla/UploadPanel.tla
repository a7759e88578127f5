----------------------------- MODULE UploadPanel -----------------------------
(***************************************************************************)
(* The page that uploads files, processes them in a batch or one by one,   *)
(* follows the batch and offers retries.  The batch on the server goes on  *)
(* by itself (BatchLifecycle); any call may be refused, or be carried out  *)
(* and its answer lost.                                                    *)
(***************************************************************************)
EXTENDS Naturals, FiniteSets

CONSTANTS
  Files,
  MaxLost   \* bounds the calls without an answer

VARIABLES
  rows,     \* file -> status, whether it has an item of the batch and a request
  running, started, pollFailed,
  place,    \* where start, retryRows or poll is
  how,      \* "batch", "sync" or "merge"
  todo,     \* files its loop has not reached
  remote,   \* remoteRetry
  committed, canceled, items,  \* on the server: the batch has left its draft, its
                               \* status is canceled; its items
  lost
panelVars == <<rows, running, started, pollFailed, place, how, todo, remote, committed, canceled, items, lost>>
Server == <<committed, canceled, items>>
Flags == <<running, started, pollFailed>>

Ended == {"success", "failed", "canceled"}
NoRows == [f \in {} |-> {}]
Row(status) == [status |-> status, item |-> FALSE, asked |-> FALSE]
Completed == started /\ ~running /\ ~pollFailed

PanelInit ==
  /\ rows = NoRows /\ running = FALSE /\ started = FALSE /\ pollFailed = FALSE
  /\ place = "idle" /\ how = "batch" /\ todo = {} /\ remote = FALSE
  /\ committed = FALSE /\ canceled = FALSE /\ items = [f \in {} |-> "uploaded"] /\ lost = 0

Goes(next, flag) == place' = next /\ running' = flag
Mark(files, status) ==
  rows' = [f \in DOMAIN rows |-> IF f \in files THEN [rows[f] EXCEPT !.status = status] ELSE rows[f]]
Put(f, item) == items' = [g \in DOMAIN items \cup {f} |-> IF g = f THEN item ELSE items[g]]

(* A call that has no answer has an effect or none.                        *)
Unanswered == lost < MaxLost /\ lost' = lost + 1
Answered == lost' = lost
---------------------------------------------------------------------------
(* addFiles starts over when the list shows results; a file of the wrong   *)
(* type or size is listed as invalid.                                      *)
Renewed == [f \in DOMAIN rows |-> Row(IF rows[f].status = "invalid" THEN "invalid" ELSE "ready")]

AddFile(f, status) ==
  /\ ~running /\ ~pollFailed /\ f \notin DOMAIN rows
  /\ rows' = [g \in DOMAIN rows \cup {f} |->
                IF g = f THEN Row(status) ELSE IF started THEN Renewed[g] ELSE rows[g]]
  /\ started' = FALSE
  /\ UNCHANGED <<running, pollFailed, place, how, todo, remote, Server, lost>>

RemoveRow(f) ==
  /\ ~running /\ ~pollFailed /\ f \in DOMAIN rows /\ ~(how = "merge" /\ started)
  /\ rows' = [g \in DOMAIN rows \ {f} |-> rows[g]]
  /\ started' = (started /\ DOMAIN rows # {f})
  /\ UNCHANGED <<running, pollFailed, place, how, todo, remote, Server, lost>>

EditAgain ==
  /\ Completed
  /\ rows' = Renewed /\ started' = FALSE
  /\ UNCHANGED <<running, pollFailed, place, how, todo, remote, Server, lost>>

(* The page is left or loaded again.                                       *)
LeavePage ==
  /\ rows' = NoRows /\ started' = FALSE /\ pollFailed' = FALSE
  /\ Goes("idle", FALSE) /\ todo' = {} /\ remote' = FALSE
  /\ UNCHANGED <<how, Server, lost>>
---------------------------------------------------------------------------
Ready == {f \in DOMAIN rows : rows[f].status = "ready"}

Start(kind) ==
  /\ ~running /\ ~started /\ Ready # {}
  /\ kind = "merge" => Cardinality(Ready) > 1
  /\ rows' = [f \in DOMAIN rows |-> [rows[f] EXCEPT !.asked = f \in Ready]]
  /\ started' = TRUE /\ how' = kind /\ todo' = Ready /\ remote' = FALSE
  /\ Goes(IF kind = "batch" THEN "create" ELSE kind, TRUE)
  /\ UNCHANGED <<pollFailed, Server, lost>>

CreateBatch ==
  /\ place = "create"
  /\ \/ /\ Answered /\ committed' = FALSE /\ canceled' = FALSE /\ items' = [f \in {} |-> "uploaded"]
        /\ place' = "upload" /\ UNCHANGED <<rows, running, todo>>
     \/ /\ Unanswered /\ Mark(todo, "failed") /\ todo' = {}
        /\ Goes("idle", FALSE) /\ UNCHANGED Server
  /\ UNCHANGED <<started, pollFailed, how, remote>>

(* A batch that is no longer a draft, because a client canceled it, takes  *)
(* no file.                                                                *)
UploadFile(f) ==
  /\ place = "upload" /\ f \in todo /\ todo' = todo \ {f}
  /\ \/ /\ Answered /\ ~committed /\ Put(f, "uploaded")
        /\ rows' = [rows EXCEPT ![f].item = TRUE, ![f].status = "uploaded"]
     \/ Answered /\ committed /\ UNCHANGED items /\ Mark({f}, "failed")
     \/ /\ Unanswered /\ ((~committed /\ Put(f, "uploaded")) \/ UNCHANGED items)
        /\ Mark({f}, "failed")
  /\ UNCHANGED <<Flags, place, how, remote, committed, canceled>>

EndUploads ==
  /\ place = "upload" /\ todo = {}
  /\ IF \E f \in DOMAIN rows : rows[f].item THEN Goes("submit", TRUE) ELSE Goes("idle", FALSE)
  /\ UNCHANGED <<rows, started, pollFailed, how, todo, remote, Server, lost>>

(* The commit queues what was uploaded; repeating it does no harm.         *)
Commits ==
  /\ committed' = TRUE /\ UNCHANGED canceled
  /\ items' = [f \in DOMAIN items |-> IF committed THEN items[f] ELSE "queued"]

PollFails == pollFailed' = TRUE /\ Goes("idle", FALSE)

Submit ==
  /\ place = "submit"
  /\ \/ Answered /\ Commits /\ place' = "poll" /\ UNCHANGED <<running, pollFailed>>
     \/ Unanswered /\ (Commits \/ UNCHANGED Server) /\ PollFails
  /\ UNCHANGED <<rows, started, how, todo, remote>>
---------------------------------------------------------------------------
(* poll: the answer is applied before its status ends the loop.            *)
Settled == committed /\ \A f \in DOMAIN items : items[f] \in Ended
BatchEnded == canceled \/ Settled
ApplyBatch ==
  rows' = [f \in DOMAIN rows |-> IF rows[f].item THEN [rows[f] EXCEPT !.status = items[f]] ELSE rows[f]]
Follow ==
  IF BatchEnded THEN Goes("idle", FALSE) ELSE Goes(IF committed THEN "poll" ELSE "submit", TRUE)

EndsFirst == IF BatchEnded THEN UNCHANGED rows ELSE ApplyBatch
PollAnswerLate ==
  /\ Answered /\ EndsFirst /\ Follow /\ UNCHANGED pollFailed
PollAnswer ==
  /\ Answered /\ ApplyBatch /\ Follow /\ UNCHANGED pollFailed

PollErrorIgnored == Unanswered /\ UNCHANGED <<rows, running, pollFailed>> /\ place' = "idle"
PollError == Unanswered /\ UNCHANGED rows /\ PollFails

Poll ==
  /\ place = "poll" /\ (PollAnswer \/ PollError)
  /\ UNCHANGED <<started, how, todo, remote, Server>>

ResumePolling ==
  /\ pollFailed /\ ~running
  /\ Goes("poll", TRUE) /\ pollFailed' = FALSE
  /\ UNCHANGED <<rows, started, how, todo, remote, Server, lost>>
---------------------------------------------------------------------------
(* runSync: one file after the other, or all of them merged.               *)
RunSync(f, status) ==
  /\ place = "sync" /\ f \in todo
  /\ todo' = todo \ {f} /\ Mark({f}, status)
  /\ UNCHANGED <<Flags, place, how, remote, Server, lost>>

RunMerge(status) ==
  /\ place = "merge" /\ todo # {}
  /\ todo' = {} /\ Mark(todo, status)
  /\ UNCHANGED <<Flags, place, how, remote, Server, lost>>

Retryable == {f \in DOMAIN rows : rows[f].status = "failed" /\ (rows[f].item \/ rows[f].asked)}
RetryRows(targets) ==
  /\ ~running /\ ~pollFailed /\ targets # {} /\ targets \subseteq Retryable
  /\ remote' = FALSE
  /\ IF how = "merge"
     THEN /\ todo' = LET inputs == {f \in DOMAIN rows : rows[f].asked}
                     IN  IF Cardinality(inputs) > 1 THEN inputs ELSE {}
          /\ Goes("merge", TRUE)
     ELSE todo' = targets /\ Goes("retry", TRUE)
  /\ UNCHANGED <<rows, started, pollFailed, how, Server, lost>>

(* The retry may have been accepted before its response was lost.          *)
Requeue(f) == items[f] = "failed" /\ Put(f, "queued") /\ canceled' = FALSE
RetryItem(f) ==
  /\ place = "retry" /\ f \in todo /\ rows[f].item
  /\ todo' = todo \ {f} /\ remote' = TRUE
  /\ \/ Answered /\ Requeue(f) /\ Mark({f}, "queued")
     \/ Unanswered /\ (Requeue(f) \/ UNCHANGED <<canceled, items>>) /\ UNCHANGED rows
  /\ UNCHANGED <<Flags, place, how, committed>>

RetrySync(f, status) ==
  /\ place = "retry" /\ f \in todo /\ ~rows[f].item
  /\ todo' = todo \ {f} /\ Mark({f}, status)
  /\ UNCHANGED <<Flags, place, how, remote, Server, lost>>

EndLoop ==
  /\ place \in {"sync", "merge", "retry"} /\ todo = {}
  /\ IF remote THEN Goes("poll", TRUE) ELSE Goes("idle", FALSE)
  /\ UNCHANGED <<rows, started, pollFailed, how, todo, remote, Server, lost>>
---------------------------------------------------------------------------
(* The server's workers: an item that was begun is ended, also when its    *)
(* batch is canceled meanwhile.                                            *)
Claim(f) ==
  /\ committed /\ ~canceled /\ f \in DOMAIN items /\ items[f] = "queued" /\ Put(f, "processing")
  /\ UNCHANGED <<rows, Flags, place, how, todo, remote, committed, canceled, lost>>

FinishItem(f) ==
  /\ f \in DOMAIN items /\ items[f] = "processing"
  /\ \E status \in {"success", "failed"} : Put(f, status)
  /\ UNCHANGED <<rows, Flags, place, how, todo, remote, committed, canceled, lost>>

WorkOn(f) == Claim(f) \/ FinishItem(f)

(* cancel, by another client: the batch is canceled at once, with what no  *)
(* worker has begun.                                                       *)
CancelBatch ==
  /\ (place = "upload" \/ DOMAIN items # {}) /\ ~BatchEnded
  /\ items' = [f \in DOMAIN items |->
                 IF items[f] \in {"uploaded", "queued"} THEN "canceled" ELSE items[f]]
  /\ committed' = TRUE /\ canceled' = TRUE
  /\ UNCHANGED <<rows, Flags, place, how, todo, remote, lost>>

PageStep ==
  \/ CreateBatch \/ EndUploads \/ Submit \/ Poll \/ EndLoop
  \/ \E f \in Files :
       \/ UploadFile(f) \/ RetryItem(f)
       \/ \E status \in {"success", "failed"} : RunSync(f, status) \/ RetrySync(f, status)
  \/ \E status \in {"success", "failed"} : RunMerge(status)

PanelNext ==
  \/ PageStep \/ EditAgain \/ LeavePage \/ ResumePolling \/ CancelBatch
  \/ \E kind \in {"batch", "sync", "merge"} : Start(kind)
  \/ \E targets \in SUBSET Files : RetryRows(targets)
  \/ \E f \in Files :
       WorkOn(f) \/ RemoveRow(f) \/ \E s \in {"ready", "invalid"} : AddFile(f, s)

PanelSpec == PanelInit /\ [][PanelNext]_panelVars

(* The browser resumes each call, and the server works the batch off.      *)
PanelFairness == WF_panelVars(PageStep) /\ WF_panelVars(\E f \in Files : WorkOn(f))
---------------------------------------------------------------------------
PanelTypeOK ==
  /\ DOMAIN rows \subseteq Files /\ todo \subseteq DOMAIN rows /\ DOMAIN items \subseteq Files
  /\ \A f \in DOMAIN rows :
       rows[f].status \in Ended \cup {"ready", "invalid", "uploaded", "queued", "processing"}
  /\ place \in {"idle", "create", "upload", "submit", "poll", "sync", "merge", "retry"}

\* A file that was being processed when a client canceled the batch: the page
\* stops polling at the status of the batch (UploadPanel.vue:294), the worker
\* goes on, and its row says "processing" until the page is loaded again.
LeftProcessing(f) ==
  /\ canceled /\ rows[f].item /\ rows[f].status = "processing"
  /\ items[f] \in {"processing", "success", "failed"}

\* A page that shows results shows the end of every file, and what it shows
\* of an item of the batch is what the server has, whatever calls were lost;
\* but for the files that a canceled batch was at work on, which are shown so.
ResultsShown == Completed => \A f \in DOMAIN rows :
  \/ LeftProcessing(f)
  \/ /\ rows[f].status \in Ended \cup {"invalid"}
     /\ rows[f].item => rows[f].status = items[f]

\* The page never stays busy: every run ends with results or with the button
\* that resumes the polling.
RunsEnd == []<>~running
=============================================================================
