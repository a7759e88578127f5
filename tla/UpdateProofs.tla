---------------------------- MODULE UpdateProofs ----------------------------
(***************************************************************************)
(* What a recorded update says of the installation, for any number of      *)
(* releases, requests and processes, in the whole composition of page,     *)
(* server, scheduler and commands, as long as the lock does what it is for *)
(* (it fails to when a command outlives its freshness).                    *)
(***************************************************************************)
EXTENDS UpdatePage, TLAPS

\* No two commands at once.
Alone == \A p, q \in Process : pc[p] # "idle" /\ pc[q] # "idle" => p = q

Versions == 0 .. MaxVersion
Applying == {"checking", "draining", "migrating", "deploying app", "deploying server",
             "verifying", "persisting", "committing"}
Restoring == {"restoring app", "restoring server", "verifying restored", "recording"}
Working == Applying \cup Restoring \cup {"artifacts", "images", "loading", "dumping"}

\* The phase whose work a failed or paused job was in.
WorkPhase(j) == IF j.phase \in {"FAILED", "PAUSED"} THEN j.resume ELSE j.phase

\* What the job j on disk says, whatever is still running, of the services a
\* and s, the environment e, the metadata c and the database d.
DiskInv(j, a, s, e, c, d) ==
  /\ WorkPhase(j) \in {"NONE", "AVAILABLE", "DOWNLOADING", "VERIFIED", "PRECHECKED", "BACKING_UP"}
       => a = e /\ s = e
  /\ WorkPhase(j) \in {"BACKED_UP", "DRAINING"} => e = j.backup.env /\ a = e /\ s = e
  /\ WorkPhase(j) \in {"BACKED_UP", "DRAINING", "MIGRATING", "DEPLOYING", "VERIFYING",
                       "ROLLBACK_REQUIRED", "COMMITTED", "ROLLED_BACK"}
       => /\ j.backup.env \in Version
          /\ e \in {j.backup.env, j.tgt}
          /\ a \in {j.backup.env, j.tgt} /\ s \in {j.backup.env, j.tgt}
  /\ j.phase = "COMMITTED" => a = j.tgt /\ s = j.tgt /\ e = j.tgt /\ c = j.tgt /\ d = j.tgt
  /\ j.phase = "ROLLED_BACK" => a = j.backup.env /\ s = j.backup.env /\ e = j.backup.env
  /\ j.phase # "NONE" => j.tgt \in Version

\* What a command that has come to place k has saved and changed.
PlaceInv(k, j, a, s, e, c, d) ==
  /\ k \in {"artifacts", "images", "loading"} => j.phase = "DOWNLOADING"
  /\ k = "dumping" => j.phase = "BACKING_UP"
  /\ k = "checking" => j.phase = "BACKED_UP"
  /\ k = "draining" => j.phase = "DRAINING"
  /\ k = "migrating" => j.phase = "MIGRATING"
  /\ k \in {"deploying app", "deploying server"} => j.phase = "DEPLOYING"
  /\ k \in {"verifying", "persisting", "committing"} => j.phase = "VERIFYING" /\ s = j.tgt
  /\ k \in {"deploying server", "verifying", "persisting", "committing"} => a = j.tgt
  /\ k \in {"deploying app", "deploying server", "verifying", "persisting", "committing"} => d = j.tgt
  /\ k \in {"persisting", "committing"} => e = j.tgt
  /\ k = "committing" => c = j.tgt
  /\ k \in Restoring => j.phase = "ROLLBACK_REQUIRED"
  /\ k \in {"restoring server", "verifying restored", "recording"} => a = j.backup.env
  /\ k \in {"verifying restored", "recording"} => s = j.backup.env
  /\ k = "recording" => e = j.backup.env

JobTypes ==
  /\ job \in Job /\ mem \in [Process -> Job]
  /\ pc \in [Process -> Working \cup {"idle", "entered", "imported"}]
  /\ published \in Version /\ env \in Version
  /\ app \in Versions /\ server \in Versions /\ current \in Versions /\ schema \in Versions

CommandInv == \A p \in Process :
  /\ pc[p] = "imported" => mem[p].tgt \in Version
  /\ pc[p] \in Working => mem[p] = job /\ PlaceInv(pc[p], job, app, server, env, current, schema)

JobInv == JobTypes /\ DiskInv(job, app, server, env, current, schema) /\ CommandInv

UpdateInv == JobInv /\ found \in [cur : Versions, tgt : Versions]

-----------------------------------------------------------------------------
(* Records of jobs.                                                        *)

(* A job that is changed in a field that says nothing of the installation. *)
LEMMA Recovered ==
  ASSUME NEW j \in Job, NEW r \in {"unset", "offered", "manual"}
  PROVE  /\ [j EXCEPT !.recovery = r] \in Job
         /\ [j EXCEPT !.recovery = r].phase = j.phase /\ [j EXCEPT !.recovery = r].resume = j.resume
         /\ [j EXCEPT !.recovery = r].tgt = j.tgt /\ [j EXCEPT !.recovery = r].backup = j.backup
         /\ [j EXCEPT !.recovery = r].id = j.id /\ [j EXCEPT !.recovery = r].cur = j.cur
BY DEF Job

(* ... or its delivery.                                                    *)
LEMMA DeliveredFacts ==
  ASSUME NEW j \in Job, NEW d \in {"online", "offline"}
  PROVE  /\ Delivered(j, d) \in Job
         /\ Delivered(j, d).phase = j.phase /\ Delivered(j, d).resume = j.resume
         /\ Delivered(j, d).tgt = j.tgt /\ Delivered(j, d).backup = j.backup
         /\ Delivered(j, d).id = j.id /\ Delivered(j, d).cur = j.cur
BY DEF Job, Delivered

(* A job that gets its backup.                                             *)
LEMMA BackedUp ==
  ASSUME NEW j \in Job, NEW b \in Backup
  PROVE  /\ [j EXCEPT !.backup = b] \in Job
         /\ [j EXCEPT !.backup = b].phase = j.phase /\ [j EXCEPT !.backup = b].resume = j.resume
         /\ [j EXCEPT !.backup = b].tgt = j.tgt /\ [j EXCEPT !.backup = b].backup = b
         /\ [j EXCEPT !.backup = b].id = j.id /\ [j EXCEPT !.backup = b].cur = j.cur
BY DEF Job

(* A transition leaves the versions and the backup; only a failure or a    *)
(* pause remembers the phase it came from.                                 *)
LEMMA TransitionFacts ==
  ASSUME NEW j \in Job, NEW next \in Phase, next = "FAILED" => j.phase \in Active
  PROVE  /\ Transition(j, next) \in Job
         /\ Transition(j, next).phase = next
         /\ Transition(j, next).tgt = j.tgt /\ Transition(j, next).backup = j.backup
         /\ Transition(j, next).id = j.id /\ Transition(j, next).cur = j.cur
         /\ next = "FAILED" \/ (next = "PAUSED" /\ j.phase \in Active) => Transition(j, next).resume = j.phase
         /\ next = "PAUSED" /\ j.phase = "FAILED" => Transition(j, next).resume = j.resume
<1> DEFINE r == CASE next = "FAILED" \/ (next = "PAUSED" /\ j.phase \in Active) -> j.phase
                  [] j.phase = "PAUSED" /\ next = j.resume -> "NONE"
                  [] OTHER -> j.resume
<1>1. j.phase \in Phase /\ j.resume \in Active \cup {"NONE"}
  BY DEF Job
<1>2. r \in Active \cup {"NONE"}
  BY <1>1
<1>3. Transition(j, next) = [j EXCEPT !.phase = next, !.resume = r]
  BY DEF Transition
<1>4. /\ next = "FAILED" \/ (next = "PAUSED" /\ j.phase \in Active) => r = j.phase
      /\ next = "PAUSED" /\ j.phase = "FAILED" => r = j.resume
  BY DEF Active
<1> HIDE DEF r
<1> QED BY <1>2, <1>3, <1>4 DEF Job

(* A new job.                                                              *)
LEMMA NewJobFacts ==
  ASSUME NEW id \in Request \cup {NoRequest}, NEW cur \in Versions, NEW tgt \in Versions
  PROVE  /\ NewJob(id, cur, tgt) \in Job
         /\ NewJob(id, cur, tgt).phase = "AVAILABLE" /\ NewJob(id, cur, tgt).tgt = tgt
         /\ NewJob(id, cur, tgt).id = id /\ NewJob(id, cur, tgt).cur = cur
         /\ NewJob(id, cur, tgt).backup = NoBackup /\ NoJob.backup = NoBackup
         /\ NoJob \in Job /\ NoJob.phase = "NONE"
<1>1. NoBackup \in Backup /\ 0 \in Versions
  BY UpdateAssumption DEF NoBackup, Backup, Versions
<1>2. {"AVAILABLE", "NONE"} \subseteq Phase
  BY DEF Phase, Active
<1> QED BY <1>1, <1>2 DEF NewJob, NoJob, Job, Versions

(* A resumed job is back in the phase it was in.                           *)
LEMMA ResumedFacts ==
  ASSUME NEW j \in Job, NEW phase \in Active, Resumable(j, phase)
  PROVE  /\ Resumed(j) \in Job /\ Resumed(j).phase = phase
         /\ Resumed(j).tgt = j.tgt /\ Resumed(j).backup = j.backup
         /\ Resumed(j).id = j.id /\ Resumed(j).cur = j.cur
<1> DEFINE k == IF j.phase = "FAILED" THEN Transition(j, "PAUSED") ELSE j
<1>1. "PAUSED" \in Phase /\ phase \in Phase /\ "FAILED" \notin Active /\ "PAUSED" \notin Active
  BY DEF Phase, Active
<1>2. /\ k \in Job /\ k.phase = "PAUSED" /\ k.resume = phase /\ k.tgt = j.tgt /\ k.backup = j.backup
      /\ k.id = j.id /\ k.cur = j.cur
  BY <1>1, TransitionFacts DEF Resumable
<1>3. Resumed(j) = Transition(k, phase)
  BY <1>2, <1>1, TransitionFacts DEF Resumed, Resumable
<1> HIDE DEF k
<1> QED BY <1>1, <1>2, <1>3, TransitionFacts

-----------------------------------------------------------------------------
(* How a step of the one command keeps the invariant.                      *)

(* No command is at work after it.                                         *)
LEMMA Stops ==
  ASSUME JobTypes', DiskInv(job, app, server, env, current, schema)',
         \A q \in Process : pc'[q] \in {"idle", "entered"}
  PROVE  JobInv'
BY DEF JobInv, CommandInv, Working, Applying, Restoring

(* The command at work has saved its copy and is where it says.            *)
LEMMA GoesOn ==
  ASSUME Alone', NEW p \in Process, JobTypes', DiskInv(job, app, server, env, current, schema)',
         pc'[p] \in Working, mem'[p] = job', PlaceInv(pc[p], job, app, server, env, current, schema)'
  PROVE  JobInv'
<1>1. "imported" \notin Working /\ "idle" \notin Working
  BY DEF Working, Applying, Restoring
<1>2. \A q \in Process : q = p \/ pc'[q] = "idle"
  BY <1>1 DEF Alone
<1> QED BY <1>1, <1>2 DEF JobInv, CommandInv

(* A job before its backup, on an installation that is whole.              *)
LEMMA Untouched ==
  ASSUME NEW j \in Job, NEW e, NEW c, NEW d, j.tgt \in Version,
         WorkPhase(j) \in {"AVAILABLE", "DOWNLOADING", "VERIFIED", "PRECHECKED", "BACKING_UP"},
         j.phase \notin Terminal
  PROVE  DiskInv(j, e, e, e, c, d)
BY DEF DiskInv, WorkPhase, Terminal

(* The services a job before its backup, or one that ended, was found with. *)
LEMMA WholeBefore ==
  ASSUME JobInv, \/ job.phase = "NONE" \/ job.phase \in Terminal
                 \/ WorkPhase(job) \in {"DOWNLOADING", "VERIFIED", "PRECHECKED", "BACKING_UP", "BACKED_UP"}
  PROVE  app = env /\ server = env
BY DEF JobInv, DiskInv, WorkPhase, Terminal

(* A new job, one that is taken up again, or the old one when the updater  *)
(* dies after it has archived it.                                          *)
LEMMA PreparedJob ==
  ASSUME JobInv, NEW p \in Process, NEW id \in Request \cup {NoRequest}, NEW cur \in Versions, NEW tgt \in Version,
         NEW delivery \in {"online", "offline"}, NEW place \in {"artifacts", "loading"},
         Prepare(p, id, cur, tgt, delivery, place)
  PROVE  /\ app = env /\ server = env
         /\ \/ job' = job /\ Die
            \/ \E j \in Job :
                 /\ j.tgt \in Version /\ j.phase \notin Terminal /\ WorkPhase(j) \in {"AVAILABLE", "DOWNLOADING"}
                 /\ \/ j.phase = "DOWNLOADING" /\ Proceed(p, j, delivery, place)
                    \/ job' = j /\ Die
<1> DEFINE Good(j) == /\ j \in Job /\ j.tgt \in Version /\ j.phase \notin Terminal
                      /\ WorkPhase(j) \in {"AVAILABLE", "DOWNLOADING"}
<1>0. /\ job \in Job /\ tgt \in Versions /\ {"DOWNLOADING", "PAUSED"} \subseteq Phase /\ "DOWNLOADING" \in Active
      /\ "FAILED" \notin Active
      /\ job.phase # "NONE" => job.tgt \in Version
  BY DEF JobInv, JobTypes, DiskInv, Phase, Active, Version, Versions
<1>1. CASE job = NoJob \/ job.phase \in Terminal
  <2> DEFINE new == NewJob(id, cur, tgt)
  <2>1. new \in Job /\ new.phase = "AVAILABLE" /\ new.tgt = tgt /\ NoJob.phase = "NONE"
    BY <1>0, NewJobFacts
  <2>2. Good(new) /\ Good(Transition(new, "DOWNLOADING")) /\ Transition(new, "DOWNLOADING").phase = "DOWNLOADING"
    <3>1. /\ Transition(new, "DOWNLOADING") \in Job /\ Transition(new, "DOWNLOADING").phase = "DOWNLOADING"
          /\ Transition(new, "DOWNLOADING").tgt = tgt
      BY <1>0, <2>1, TransitionFacts
    <3> HIDE DEF new
    <3> QED BY <2>1, <3>1 DEF WorkPhase, Terminal
  <2>3. Proceed(p, Transition(new, "DOWNLOADING"), delivery, place) \/ (job' \in {job, new} /\ Die)
    BY <1>1, <2>1 DEF Prepare, Terminal, Resumable
  <2>4. app = env /\ server = env
    BY <1>1, <2>1, WholeBefore
  <2> HIDE DEF new
  <2> QED BY <2>2, <2>3, <2>4
<1>2. CASE job.phase = "DOWNLOADING"
  <2>1. Good(job)
    BY <1>0, <1>2 DEF WorkPhase, Terminal
  <2>2. NoJob.phase = "NONE"
    BY <1>0, NewJobFacts
  <2>3. Proceed(p, job, delivery, place)
    BY <1>2, <2>2 DEF Prepare, Terminal, Resumable
  <2>5. WorkPhase(job) = "DOWNLOADING"
    BY <1>2 DEF WorkPhase
  <2>4. app = env /\ server = env
    BY <2>5, WholeBefore
  <2> QED BY <1>2, <2>1, <2>3, <2>4
<1>3. CASE Resumable(job, "DOWNLOADING")
  <2>1. /\ Resumed(job) \in Job /\ Resumed(job).phase = "DOWNLOADING" /\ Resumed(job).tgt = job.tgt
        /\ NoJob.phase = "NONE" /\ job.phase # "NONE"
    BY <1>0, <1>3, ResumedFacts, NewJobFacts DEF Resumable
  <2>2. Good(Resumed(job))
    BY <1>0, <2>1 DEF WorkPhase, Terminal
  <2>3. \/ Proceed(p, Resumed(job), delivery, place)
        \/ job.phase = "FAILED" /\ job' = Transition(job, "PAUSED") /\ Die
    BY <1>3, <2>1 DEF Prepare, Terminal, Resumable
  <2>6. WorkPhase(job) = "DOWNLOADING"
    BY <1>3 DEF WorkPhase, Resumable
  <2>4. app = env /\ server = env
    BY <2>6, WholeBefore
  <2>5. job.phase = "FAILED" => Good(Transition(job, "PAUSED"))
    BY <1>0, <1>3, <2>1, TransitionFacts DEF WorkPhase, Terminal, Resumable
  <2> QED BY <2>1, <2>2, <2>3, <2>4, <2>5
<1>4. \/ job = NoJob \/ job.phase \in Terminal
      \/ job.phase = "DOWNLOADING" \/ Resumable(job, "DOWNLOADING")
  BY DEF Prepare, Resumable
<1> QED BY <1>1, <1>2, <1>3, <1>4

(* The first save of a download and of an import keeps the invariant.      *)
LEMMA PrepareKeeps ==
  ASSUME Alone, Alone', JobInv, NEW p \in Process, NEW id \in Request \cup {NoRequest}, NEW cur \in Versions, NEW tgt \in Version,
         NEW delivery \in {"online", "offline"}, NEW place \in {"artifacts", "loading"},
         Prepare(p, id, cur, tgt, delivery, place), UNCHANGED <<published, installed>>
  PROVE  JobInv'
<1>0. NoJob \in Job /\ {"artifacts", "loading"} \subseteq Working
  BY NewJobFacts, UpdateAssumption DEF Versions, Working
<1>5. CASE job' = job /\ Die
  <2>1. JobTypes' /\ \A q \in Process : pc'[q] = "idle"
    BY <1>0, <1>5 DEF JobInv, JobTypes, Die, installed
  <2>2. DiskInv(job, app, server, env, current, schema)'
    BY <1>5 DEF JobInv, installed
  <2> QED BY <2>1, <2>2, Stops
<1> SUFFICES ASSUME ~(job' = job /\ Die) PROVE JobInv'
  BY <1>5
<1>1. PICK j \in Job :
         /\ j.tgt \in Version /\ j.phase \notin Terminal /\ WorkPhase(j) \in {"AVAILABLE", "DOWNLOADING"}
         /\ \/ j.phase = "DOWNLOADING" /\ Proceed(p, j, delivery, place)
            \/ job' = j /\ Die
  BY PreparedJob
<1>2. app = env /\ server = env
  BY PreparedJob
<1>3. CASE j.phase = "DOWNLOADING" /\ Save(p, Delivered(j, delivery)) /\ Goto(p, place)
  <2> DEFINE k == Delivered(j, delivery)
  <2>1. k \in Job /\ Save(p, k) /\ k.phase = "DOWNLOADING" /\ k.tgt = j.tgt
    BY <1>3, DeliveredFacts
  <2> HIDE DEF k
  <2>2. JobTypes' /\ mem'[p] = job' /\ pc'[p] = place
    BY <1>0, <1>3, <2>1 DEF JobInv, JobTypes, Save, Goto, installed
  <2>3. DiskInv(k, app, server, env, current, schema)
    BY <1>1, <1>2, <2>1, Untouched DEF WorkPhase, Terminal
  <2>4. DiskInv(job, app, server, env, current, schema)'
    BY <2>1, <2>3 DEF Save, installed
  <2>5. PlaceInv(pc[p], job, app, server, env, current, schema)'
    BY <2>1, <2>2 DEF Save, PlaceInv, Restoring
  <2> QED BY <1>0, <2>2, <2>4, <2>5, GoesOn
<1>4. CASE job' = j /\ Die
  <2>1. JobTypes' /\ \A q \in Process : pc'[q] = "idle"
    BY <1>0, <1>4 DEF JobInv, JobTypes, Die, installed
  <2>2. DiskInv(j, app, server, env, current, schema)
    BY <1>1, <1>2, Untouched
  <2>3. DiskInv(job, app, server, env, current, schema)'
    BY <1>4, <2>2 DEF installed
  <2> QED BY <2>1, <2>3, Stops
<1> QED BY <1>1, <1>3, <1>4 DEF Proceed

-----------------------------------------------------------------------------
(* The steps of a command.                                                 *)

(* What the invariant says of the command at work.                         *)
LEMMA AtWork ==
  ASSUME JobInv, NEW p \in Process, pc[p] \in Working
  PROVE  /\ mem[p] = job /\ job \in Job
         /\ DiskInv(job, app, server, env, current, schema)
         /\ PlaceInv(pc[p], job, app, server, env, current, schema)
BY DEF JobInv, JobTypes, CommandInv

(* The other variables keep their types.                                   *)
InstalledTypes ==
  /\ published \in Version /\ env \in Version
  /\ app \in Versions /\ server \in Versions /\ current \in Versions /\ schema \in Versions

(* A command ends, or the updater dies, with k as the job.                 *)
LEMMA EndKeeps ==
  ASSUME Alone, JobInv, NEW p \in Process, NEW k \in Job,
         (EndWith(p, k) /\ pc[p] # "idle") \/ (job' = k /\ Die),
         InstalledTypes', DiskInv(k, app', server', env', current', schema')
  PROVE  JobInv'
<1>1. NoJob \in Job
  BY NewJobFacts, UpdateAssumption DEF Versions
<1>2. job' = k /\ JobTypes'
  BY <1>1 DEF EndWith, End, Die, JobInv, JobTypes, InstalledTypes
<1>3. \A q \in Process : pc'[q] = "idle"
  BY DEF EndWith, End, Die, Alone, JobInv, JobTypes
<1>4. DiskInv(job, app, server, env, current, schema)'
  BY <1>2
<1> QED BY <1>2, <1>3, <1>4, Stops

(* A command saves k and goes on at place.                                 *)
LEMMA MoveKeeps ==
  ASSUME Alone, Alone', JobInv, NEW p \in Process, NEW k \in Job, NEW place \in Working,
         Goto(p, place), Save(p, k) \/ (UNCHANGED <<job, mem>> /\ job = k /\ mem[p] = k),
         InstalledTypes', DiskInv(k, app', server', env', current', schema'),
         PlaceInv(place, k, app', server', env', current', schema')
  PROVE  JobInv'
<1>1. job' = k /\ mem'[p] = k /\ pc'[p] = place /\ JobTypes'
  BY DEF Goto, Save, JobInv, JobTypes, InstalledTypes
<1>2. DiskInv(job, app, server, env, current, schema)' /\ PlaceInv(pc[p], job, app, server, env, current, schema)'
  BY <1>1
<1> QED BY <1>1, <1>2, GoesOn

(* download and import.                                                    *)
LEMMA DownloadKeeps ==
  ASSUME Alone, Alone', JobInv, NEW p \in Process,
         FetchArtifacts(p) \/ PullImages(p) \/ PauseDownload(p) \/ FailDownload(p) \/ LoadImages(p)
  PROVE  JobInv'
<1>0. /\ pc[p] \in {"artifacts", "images", "loading"}
      /\ pc[p] \in Working /\ {"images"} \subseteq Working /\ InstalledTypes'
      /\ {"VERIFIED", "PAUSED", "FAILED"} \subseteq Phase /\ "DOWNLOADING" \in Active
  BY DEF FetchArtifacts, PullImages, PauseDownload, FailDownload, LoadImages, Working, InstalledTypes,
         installed, JobInv, JobTypes, Phase, Active
<1>1. /\ mem[p] = job /\ job \in Job /\ job.phase = "DOWNLOADING" /\ job.tgt \in Version
      /\ app = env /\ server = env /\ UNCHANGED installed
  <2>1. mem[p] = job /\ job \in Job /\ job.phase = "DOWNLOADING"
    BY <1>0, AtWork DEF PlaceInv
  <2>2. WorkPhase(job) = "DOWNLOADING"
    BY <2>1 DEF WorkPhase
  <2> QED BY <2>1, <2>2, WholeBefore DEF JobInv, DiskInv, FetchArtifacts, PullImages, PauseDownload, FailDownload, LoadImages
<1>2. DiskInv(job, app', server', env', current', schema')
  BY <1>1, Untouched DEF WorkPhase, Terminal, installed
<1>3. CASE FetchArtifacts(p)
  <2>1. PlaceInv("images", job, app', server', env', current', schema')
    BY <1>1 DEF PlaceInv, Restoring
  <2> QED BY <1>0, <1>1, <1>2, <1>3, <2>1, MoveKeeps DEF FetchArtifacts
<1>4. ASSUME NEW next \in {"VERIFIED", "PAUSED", "FAILED"}, EndWith(p, Transition(mem[p], next))
      PROVE  JobInv'
  <2> DEFINE k == Transition(mem[p], next)
  <2>1. /\ k \in Job /\ k.phase = next /\ k.tgt = job.tgt
        /\ next \in {"FAILED", "PAUSED"} => k.resume = "DOWNLOADING"
    BY <1>0, <1>1, TransitionFacts
  <2> HIDE DEF k
  <2>2. DiskInv(k, app', server', env', current', schema')
    BY <1>1, <2>1, Untouched DEF WorkPhase, Terminal, installed
  <2> QED BY <1>0, <1>4, <2>1, <2>2, EndKeeps DEF k
<1> QED BY <1>3, <1>4 DEF PullImages, PauseDownload, FailDownload, LoadImages

(* The first step of a download.                                           *)
LEMMA BeginDownloadKeeps ==
  ASSUME Alone, Alone', JobInv, NEW p \in Process, NEW id \in Request, NEW cur \in Versions, NEW tgt,
         BeginDownload(p, id, cur, tgt)
  PROVE  JobInv'
<1>1. tgt \in Version /\ UNCHANGED <<published, installed>>
  BY DEF BeginDownload, JobInv, JobTypes
<1>2. CASE Prepare(p, id, cur, tgt, "online", "artifacts")
  BY <1>1, <1>2, PrepareKeeps
<1>3. CASE End(p) /\ UNCHANGED job
  <2>1. job \in Job /\ EndWith(p, job) /\ InstalledTypes'
    BY <1>1, <1>3 DEF EndWith, JobInv, JobTypes, InstalledTypes, installed
  <2>2. DiskInv(job, app', server', env', current', schema')
    BY <1>1 DEF JobInv, installed
  <2> QED BY <2>1, <2>2, EndKeeps DEF BeginDownload
<1> QED BY <1>2, <1>3 DEF BeginDownload

(* The steps of an import.                                                 *)
LEMMA ImportKeeps ==
  ASSUME Alone, Alone', JobInv, NEW p \in Process,
         \/ \E id \in Request, cur \in Versions, tgt \in Version : ImportRelease(p, id, cur, tgt)
         \/ BeginImport(p)
  PROVE  JobInv'
<1>1. ASSUME NEW id \in Request, NEW cur \in Versions, NEW tgt \in Version, ImportRelease(p, id, cur, tgt)
      PROVE  JobInv'
  <2> DEFINE k == NewJob(id, cur, tgt)
  <2>1. k \in Job /\ k.tgt = tgt
    BY NewJobFacts DEF Version, Versions
  <2>2. UNCHANGED <<job, published, installed>> /\ mem' = [mem EXCEPT ![p] = k] /\ pc' = [pc EXCEPT ![p] = "imported"]
    BY <1>1 DEF ImportRelease, Goto
  <2> HIDE DEF k
  <2>3. JobTypes' /\ pc'[p] = "imported" /\ mem'[p] = k
    BY <2>1, <2>2 DEF JobInv, JobTypes, installed
  <2>4. DiskInv(job, app, server, env, current, schema)'
    BY <2>2 DEF JobInv, installed
  <2>5. \A q \in Process : q = p \/ pc'[q] = "idle"
    BY <2>3 DEF Alone
  <2> QED BY <2>1, <2>3, <2>4, <2>5 DEF JobInv, CommandInv, Working, Applying, Restoring
<1>2. CASE BeginImport(p)
  <2> DEFINE m == mem[p]
  <2>1. m \in Job /\ m.tgt \in Version /\ UNCHANGED <<published, installed>>
    BY <1>2 DEF BeginImport, JobInv, JobTypes, CommandInv
  <2>2. CASE Prepare(p, m.id, m.cur, m.tgt, "offline", "loading")
    <3>1. m.id \in Request \cup {NoRequest} /\ m.cur \in Versions
      BY <2>1 DEF Job, Versions
    <3> QED BY <2>1, <2>2, <3>1, PrepareKeeps
  <2>3. CASE EndWith(p, [job EXCEPT !.delivery = "offline"]) /\ job.phase = "VERIFIED"
    <3> DEFINE k == [job EXCEPT !.delivery = "offline"]
    <3>1. /\ k \in Job /\ k.phase = job.phase /\ k.resume = job.resume
          /\ k.tgt = job.tgt /\ k.backup = job.backup
      BY DEF JobInv, JobTypes, Job
    <3> HIDE DEF k
    <3>2. DiskInv(k, app', server', env', current', schema')
      BY <2>1, <3>1 DEF JobInv, installed, DiskInv, WorkPhase
    <3>3. InstalledTypes'
      BY <2>1 DEF JobInv, JobTypes, InstalledTypes, installed
    <3> QED BY <1>2, <2>3, <3>1, <3>2, <3>3, EndKeeps DEF k, BeginImport
  <2> QED BY <1>2, <2>2, <2>3 DEF BeginImport
<1> QED BY <1>1, <1>2

(* preflight and backup.                                                   *)
LEMMA BackupKeeps ==
  ASSUME Alone, Alone', JobInv, NEW p \in Process,
         Preflight(p) \/ BeginBackup(p) \/ TakeBackup(p) \/ FailBackup(p)
  PROVE  JobInv'
<1>0. /\ "dumping" \in Working /\ InstalledTypes' /\ UNCHANGED installed /\ job \in Job
      /\ {"PRECHECKED", "BACKING_UP", "BACKED_UP", "PAUSED", "FAILED"} \subseteq Phase
      /\ "BACKING_UP" \in Active /\ "FAILED" \notin Active
      /\ job.phase # "NONE" => job.tgt \in Version
  BY DEF Preflight, BeginBackup, TakeBackup, FailBackup, Working, InstalledTypes, installed, JobInv, JobTypes,
         DiskInv, Phase, Active
<1>1. ASSUME NEW k \in Job, app = env, server = env, k.tgt \in Version,
             WorkPhase(k) \in {"PRECHECKED", "BACKING_UP", "VERIFIED"}, k.phase \notin Terminal
      PROVE  DiskInv(k, app', server', env', current', schema')
  BY <1>0, <1>1, Untouched DEF installed
<1>2. CASE Preflight(p)
  <2>1. PICK k \in Job : EndWith(p, k) /\ k.phase \in {"PRECHECKED", "VERIFIED"} /\ k.tgt = job.tgt
    BY <1>0, <1>2, TransitionFacts DEF Preflight
  <2>2. app = env /\ server = env /\ job.phase # "NONE"
    BY <1>2, WholeBefore DEF Preflight, WorkPhase
  <2> QED BY <1>0, <1>1, <1>2, <2>1, <2>2, EndKeeps DEF WorkPhase, Terminal, Preflight
<1>3. CASE BeginBackup(p)
  <2>1. app = env /\ server = env /\ job.phase # "NONE"
    BY <1>3, WholeBefore DEF BeginBackup, WorkPhase, Resumable
  <2>2. \/ \E k \in Job : k.phase = "BACKING_UP" /\ k.tgt = job.tgt /\ Save(p, k) /\ Goto(p, "dumping")
        \/ \E k \in Job : k.phase = "PAUSED" /\ k.resume = "BACKING_UP" /\ k.tgt = job.tgt /\ job' = k /\ Die
    <3>1. CASE job.phase = "PRECHECKED" /\ Save(p, Transition(job, "BACKING_UP")) /\ Goto(p, "dumping")
      BY <1>0, <3>1, TransitionFacts
    <3>2. CASE job.phase = "BACKING_UP" /\ Save(p, job) /\ Goto(p, "dumping")
      BY <1>0, <3>2
    <3>3. CASE Resumable(job, "BACKING_UP") /\ Save(p, Resumed(job)) /\ Goto(p, "dumping")
      BY <1>0, <3>3, ResumedFacts
    <3>4. CASE job.phase = "FAILED" /\ job.resume = "BACKING_UP" /\ job' = Transition(job, "PAUSED") /\ Die
      BY <1>0, <3>4, TransitionFacts
    <3> QED BY <1>3, <3>1, <3>2, <3>3, <3>4 DEF BeginBackup
  <2>3. ASSUME NEW k \in Job, k.phase = "BACKING_UP", k.tgt = job.tgt, Save(p, k), Goto(p, "dumping")
        PROVE  JobInv'
    <3>1. PlaceInv("dumping", k, app', server', env', current', schema')
      BY <2>3 DEF PlaceInv, Restoring
    <3> QED BY <1>0, <1>1, <2>1, <2>3, <3>1, MoveKeeps DEF WorkPhase, Terminal
  <2>4. ASSUME NEW k \in Job, k.phase = "PAUSED", k.resume = "BACKING_UP", k.tgt = job.tgt, job' = k, Die
        PROVE  JobInv'
    BY <1>0, <1>1, <2>1, <2>4, EndKeeps DEF WorkPhase, Terminal
  <2> QED BY <2>2, <2>3, <2>4
<1>4. CASE TakeBackup(p) \/ FailBackup(p)
  <2>1. mem[p] = job /\ job.phase = "BACKING_UP" /\ job.tgt \in Version
    BY <1>0, <1>4, AtWork DEF TakeBackup, FailBackup, PlaceInv
  <2>2. app = env /\ server = env
    BY <2>1, WholeBefore DEF WorkPhase
  <2>3. CASE TakeBackup(p)
    <3> DEFINE b == [env |-> env, current |-> current, schema |-> schema]
               j == Transition(mem[p], "BACKED_UP")
               k == [j EXCEPT !.backup = b]
    <3>1. b \in Backup /\ b.env = env /\ env \in Version
      BY DEF JobInv, JobTypes, Backup, Version, Versions
    <3>2. j \in Job /\ j.phase = "BACKED_UP" /\ j.tgt = job.tgt
      BY <1>0, <2>1, TransitionFacts
    <3>3. EndWith(p, k)
      BY <2>3 DEF TakeBackup
    <3> HIDE DEF b, j
    <3>4. k \in Job /\ k.phase = "BACKED_UP" /\ k.tgt = job.tgt /\ k.backup = b
      BY <3>1, <3>2, BackedUp
    <3> HIDE DEF k
    <3>5. DiskInv(k, app', server', env', current', schema')
      BY <1>0, <2>1, <2>2, <3>1, <3>4 DEF DiskInv, WorkPhase, installed
    <3> QED BY <1>0, <2>3, <3>3, <3>4, <3>5, EndKeeps DEF TakeBackup
  <2>4. CASE FailBackup(p)
    <3>1. PICK k \in Job : EndWith(p, k) /\ k.phase = "FAILED" /\ k.resume = "BACKING_UP" /\ k.tgt = job.tgt
      BY <1>0, <2>1, <2>4, TransitionFacts DEF FailBackup
    <3> QED BY <1>0, <1>1, <2>1, <2>2, <2>4, <3>1, EndKeeps DEF WorkPhase, Terminal, FailBackup
  <2> QED BY <1>4, <2>3, <2>4
<1> QED BY <1>2, <1>3, <1>4

(* apply and rollback, between the backup and the end.                     *)
Between(j, a, s, e) ==
  /\ j.tgt \in Version /\ j.backup.env \in Version
  /\ {a, s, e} \subseteq {j.backup.env, j.tgt}

(* An installation that is made of the backup and of the target is no
   contradiction to a job in one of the phases after the backup.         *)
LEMMA BetweenDisk ==
  ASSUME NEW j \in Job, NEW a, NEW s, NEW e, NEW c, NEW d, Between(j, a, s, e),
         WorkPhase(j) \in {"MIGRATING", "DEPLOYING", "VERIFYING", "ROLLBACK_REQUIRED"}, j.phase \notin Terminal
  PROVE  DiskInv(j, a, s, e, c, d)
BY DEF DiskInv, WorkPhase, Terminal, Between

(* Its versions are versions.                                            *)
LEMMA BetweenTypes ==
  ASSUME NEW j, Between(j, app', server', env'), published' \in Version, current' \in Versions, schema' \in Versions
  PROVE  InstalledTypes'
BY DEF Between, InstalledTypes, Version, Versions

(* What is known at the places after the backup.                           *)
LEMMA AfterBackup ==
  ASSUME JobInv, NEW p \in Process, pc[p] \in (Applying \cup Restoring)
  PROVE  /\ mem[p] = job /\ job \in Job /\ Between(job, app, server, env)
         /\ DiskInv(job, app, server, env, current, schema)
         /\ PlaceInv(pc[p], job, app, server, env, current, schema)
         /\ published \in Version /\ current \in Versions /\ schema \in Versions /\ job.tgt \in Versions
         /\ job.phase \in {"BACKED_UP", "DRAINING", "MIGRATING", "DEPLOYING", "VERIFYING", "ROLLBACK_REQUIRED"}
<1>1. mem[p] = job /\ job \in Job /\ DiskInv(job, app, server, env, current, schema)
      /\ PlaceInv(pc[p], job, app, server, env, current, schema)
  BY AtWork DEF Working
<1>2. job.phase \in {"BACKED_UP", "DRAINING", "MIGRATING", "DEPLOYING", "VERIFYING", "ROLLBACK_REQUIRED"}
  BY <1>1 DEF PlaceInv, Applying, Restoring
<1>3. Between(job, app, server, env)
  BY <1>1, <1>2 DEF DiskInv, WorkPhase, Between
<1> QED BY <1>1, <1>2, <1>3 DEF Between, JobInv, JobTypes, Version, Versions

(* The job that a command saves on its way.                                *)
LEMMA AdvanceFacts ==
  ASSUME JobInv, NEW p \in Process, NEW next \in {"DRAINING", "MIGRATING", "DEPLOYING", "VERIFYING", "COMMITTED"},
         mem[p] = job, job \in Job
  PROVE  /\ Transition(mem[p], next) \in Job /\ Transition(mem[p], next).phase = next
         /\ Transition(mem[p], next).tgt = job.tgt /\ Transition(mem[p], next).backup = job.backup
         /\ WorkPhase(Transition(mem[p], next)) = next
         /\ \A a, s, e : Between(job, a, s, e) => Between(Transition(mem[p], next), a, s, e)
<1>1. next \in Phase /\ next # "FAILED" /\ next # "PAUSED"
  BY DEF Phase, Active, Terminal
<1>2. /\ Transition(mem[p], next) \in Job /\ Transition(mem[p], next).phase = next
      /\ Transition(mem[p], next).tgt = job.tgt /\ Transition(mem[p], next).backup = job.backup
  BY <1>1, TransitionFacts
<1>3. /\ WorkPhase(Transition(mem[p], next)) = next
      /\ \A a, s, e : Between(job, a, s, e) => Between(Transition(mem[p], next), a, s, e)
  BY <1>1, <1>2 DEF WorkPhase, Between
<1> QED BY <1>2, <1>3

(* apply, up to the migration of the database.                             *)
LEMMA DrainKeeps ==
  ASSUME Alone, Alone', JobInv, NEW p \in Process, BeginApply(p) \/ Drain(p) \/ StartMigration(p)
  PROVE  JobInv'
<1>0. /\ {"checking", "draining", "migrating"} \subseteq Working /\ InstalledTypes' /\ UNCHANGED installed
  BY DEF BeginApply, Drain, StartMigration, Working, Applying, InstalledTypes, installed, files, JobInv, JobTypes
<1>1. CASE BeginApply(p)
  <2>1. job \in Job /\ job.phase = "BACKED_UP" /\ DiskInv(job, app, server, env, current, schema)
        /\ Save(p, job) /\ Goto(p, "checking")
    BY <1>1 DEF BeginApply, Save, files, JobInv, JobTypes
  <2>2. /\ DiskInv(job, app', server', env', current', schema')
        /\ PlaceInv("checking", job, app', server', env', current', schema')
    BY <1>0, <2>1 DEF installed, PlaceInv, Restoring
  <2> QED BY <1>0, <2>1, <2>2, MoveKeeps
<1>2. CASE Drain(p)
  <2> DEFINE k == Transition(mem[p], "DRAINING")
  <2>1. /\ mem[p] = job /\ job \in Job /\ Between(job, app, server, env)
        /\ DiskInv(job, app, server, env, current, schema) /\ job.phase = "BACKED_UP"
    BY <1>2, AfterBackup DEF Drain, Applying, PlaceInv
  <2>2. /\ k \in Job /\ k.phase = "DRAINING" /\ k.tgt = job.tgt /\ k.backup = job.backup /\ WorkPhase(k) = "DRAINING"
    BY <2>1, AdvanceFacts
  <2>3. Save(p, k) /\ Goto(p, "draining")
    BY <1>2 DEF Drain, Advance
  <2> HIDE DEF k
  <2>4. /\ DiskInv(k, app', server', env', current', schema')
        /\ PlaceInv("draining", k, app', server', env', current', schema')
    BY <1>0, <2>1, <2>2 DEF installed, DiskInv, WorkPhase, PlaceInv, Restoring
  <2> QED BY <1>0, <2>2, <2>3, <2>4, MoveKeeps
<1>3. CASE StartMigration(p)
  <2> DEFINE k == Transition(mem[p], "MIGRATING")
  <2>1. mem[p] = job /\ job \in Job /\ Between(job, app, server, env)
    BY <1>3, AfterBackup DEF StartMigration, Applying
  <2>2. /\ k \in Job /\ k.phase = "MIGRATING" /\ WorkPhase(k) = "MIGRATING" /\ Between(k, app, server, env)
    BY <2>1, AdvanceFacts
  <2>3. Save(p, k) /\ Goto(p, "migrating")
    BY <1>3 DEF StartMigration, Advance
  <2> HIDE DEF k
  <2>4. DiskInv(k, app', server', env', current', schema')
    BY <1>0, <2>2, BetweenDisk DEF installed, Terminal
  <2>5. PlaceInv("migrating", k, app', server', env', current', schema')
    BY <2>2 DEF PlaceInv, Restoring
  <2> QED BY <1>0, <2>2, <2>3, <2>4, <2>5, MoveKeeps
<1> QED BY <1>1, <1>2, <1>3

(* The migration and the two deployments.                                  *)
LEMMA DeployKeeps ==
  ASSUME Alone, Alone', JobInv, NEW p \in Process, Migrate(p) \/ ActivateApp(p) \/ ActivateServer(p)
  PROVE  JobInv'
<1>0. /\ mem[p] = job /\ job \in Job /\ Between(job, app, server, env)
      /\ PlaceInv(pc[p], job, app, server, env, current, schema)
      /\ published \in Version /\ current \in Versions /\ schema \in Versions /\ job.tgt \in Versions
      /\ {"deploying app", "deploying server", "verifying"} \subseteq Working
  BY AfterBackup DEF Migrate, ActivateApp, ActivateServer, Applying, Working
<1>1. CASE Migrate(p)
  <2> DEFINE k == Transition(mem[p], "DEPLOYING")
  <2>1. /\ schema' = job.tgt /\ UNCHANGED <<published, env, current, app, server>> /\ job.phase = "MIGRATING"
    BY <1>0, <1>1 DEF Migrate, PlaceInv
  <2>2. /\ k \in Job /\ k.phase = "DEPLOYING" /\ WorkPhase(k) = "DEPLOYING" /\ Between(k, app, server, env)
        /\ k.tgt = job.tgt
    BY <1>0, AdvanceFacts
  <2>3. (Save(p, k) /\ Goto(p, "deploying app")) \/ (UNCHANGED job /\ Die)
    BY <1>1 DEF Migrate, Advance
  <2> HIDE DEF k
  <2>4. InstalledTypes'
    BY <1>0, <2>1, BetweenTypes
  <2>5. DiskInv(k, app', server', env', current', schema') /\ DiskInv(job, app', server', env', current', schema')
    BY <1>0, <2>1, <2>2, BetweenDisk DEF Terminal, WorkPhase
  <2>6. PlaceInv("deploying app", k, app', server', env', current', schema')
    BY <2>1, <2>2 DEF PlaceInv, Restoring
  <2>7. CASE Save(p, k) /\ Goto(p, "deploying app")
    BY <1>0, <2>2, <2>4, <2>5, <2>6, <2>7, MoveKeeps
  <2>8. CASE job' = job /\ Die
    BY <1>0, <2>4, <2>5, <2>8, EndKeeps
  <2> QED BY <2>3, <2>7, <2>8
<1>2. CASE ActivateApp(p)
  <2>1. /\ app' = job.tgt /\ UNCHANGED <<published, env, current, server, schema, job, mem>>
        /\ Goto(p, "deploying server") /\ job.phase = "DEPLOYING" /\ schema = job.tgt
    BY <1>0, <1>2 DEF ActivateApp, PlaceInv, files
  <2>2. Between(job, app', server', env')
    BY <1>0, <2>1 DEF Between
  <2>3. InstalledTypes' /\ DiskInv(job, app', server', env', current', schema')
    BY <1>0, <2>1, <2>2, BetweenTypes, BetweenDisk DEF Terminal, WorkPhase
  <2>4. PlaceInv("deploying server", job, app', server', env', current', schema')
    BY <2>1 DEF PlaceInv, Restoring
  <2> QED BY <1>0, <2>1, <2>3, <2>4, MoveKeeps
<1>3. CASE ActivateServer(p)
  <2> DEFINE k == Transition(mem[p], "VERIFYING")
  <2>1. /\ server' = job.tgt /\ UNCHANGED <<published, env, current, app, schema>>
        /\ job.phase = "DEPLOYING" /\ schema = job.tgt /\ app = job.tgt
    BY <1>0, <1>3 DEF ActivateServer, PlaceInv
  <2>2. Between(job, app', server', env')
    BY <1>0, <2>1 DEF Between
  <2>3. /\ k \in Job /\ k.phase = "VERIFYING" /\ WorkPhase(k) = "VERIFYING" /\ Between(k, app', server', env')
        /\ k.tgt = job.tgt
    <3>1. /\ k \in Job /\ k.phase = "VERIFYING" /\ WorkPhase(k) = "VERIFYING"
          /\ k.tgt = job.tgt /\ k.backup = job.backup
      BY <1>0, AdvanceFacts
    <3> QED BY <2>2, <3>1 DEF Between
  <2>4. (Save(p, k) /\ Goto(p, "verifying")) \/ (UNCHANGED job /\ Die)
    BY <1>3 DEF ActivateServer, Advance
  <2> HIDE DEF k
  <2>5. InstalledTypes'
    BY <1>0, <2>1, <2>2, BetweenTypes
  <2>6. DiskInv(k, app', server', env', current', schema') /\ DiskInv(job, app', server', env', current', schema')
    BY <1>0, <2>1, <2>2, <2>3, BetweenDisk DEF Terminal, WorkPhase
  <2>7. PlaceInv("verifying", k, app', server', env', current', schema')
    BY <2>1, <2>3 DEF PlaceInv, Restoring
  <2>8. CASE Save(p, k) /\ Goto(p, "verifying")
    BY <1>0, <2>3, <2>5, <2>6, <2>7, <2>8, MoveKeeps
  <2>9. CASE job' = job /\ Die
    BY <1>0, <2>5, <2>6, <2>9, EndKeeps
  <2> QED BY <2>4, <2>8, <2>9
<1> QED BY <1>1, <1>2, <1>3

(* After the verification: the environment, the metadata, and the end.     *)
LEMMA CommitKeeps ==
  ASSUME Alone, Alone', JobInv, NEW p \in Process, CommitEnvironment(p) \/ PersistCurrentRelease(p) \/ CommitJob(p)
  PROVE  JobInv'
<1>0. /\ mem[p] = job /\ job \in Job /\ Between(job, app, server, env)
      /\ PlaceInv(pc[p], job, app, server, env, current, schema)
      /\ published \in Version /\ current \in Versions /\ schema \in Versions /\ job.tgt \in Versions
      /\ {"persisting", "committing"} \subseteq Working
  BY AfterBackup DEF CommitEnvironment, PersistCurrentRelease, CommitJob, Applying, Working
<1>1. job.phase = "VERIFYING" /\ server = job.tgt /\ app = job.tgt /\ schema = job.tgt
  BY <1>0 DEF PlaceInv, CommitEnvironment, PersistCurrentRelease, CommitJob
<1>2. CASE CommitEnvironment(p)
  <2>1. env' = job.tgt /\ UNCHANGED <<published, current, app, server, schema, job, mem>> /\ Goto(p, "persisting")
    BY <1>0, <1>2 DEF CommitEnvironment, files
  <2>2. Between(job, app', server', env')
    BY <1>0, <2>1 DEF Between
  <2>3. InstalledTypes' /\ DiskInv(job, app', server', env', current', schema')
    BY <1>0, <1>1, <2>1, <2>2, BetweenTypes, BetweenDisk DEF Terminal, WorkPhase
  <2>4. PlaceInv("persisting", job, app', server', env', current', schema')
    BY <1>1, <2>1 DEF PlaceInv, Restoring
  <2> QED BY <1>0, <2>1, <2>3, <2>4, MoveKeeps
<1>3. CASE PersistCurrentRelease(p)
  <2>1. /\ current' = job.tgt /\ UNCHANGED <<published, env, app, server, schema, job, mem>> /\ Goto(p, "committing")
        /\ env = job.tgt
    BY <1>0, <1>3 DEF PersistCurrentRelease, files, PlaceInv
  <2>2. InstalledTypes' /\ DiskInv(job, app', server', env', current', schema')
    BY <1>0, <1>1, <2>1, BetweenTypes, BetweenDisk DEF Terminal, WorkPhase
  <2>3. PlaceInv("committing", job, app', server', env', current', schema')
    BY <1>1, <2>1 DEF PlaceInv, Restoring
  <2> QED BY <1>0, <2>1, <2>2, <2>3, MoveKeeps
<1>4. CASE CommitJob(p)
  <2> DEFINE t == Transition(mem[p], "COMMITTED")
             k == [t EXCEPT !.recovery = Offered(mem[p].tgt)]
  <2>1. EndWith(p, k) /\ UNCHANGED <<published, installed>> /\ env = job.tgt /\ current = job.tgt
    BY <1>0, <1>4 DEF CommitJob, PlaceInv
  <2>2. t \in Job /\ t.phase = "COMMITTED" /\ t.tgt = job.tgt /\ t.backup = job.backup
    BY <1>0, AdvanceFacts
  <2> HIDE DEF t
  <2>3. k \in Job /\ k.phase = "COMMITTED" /\ k.tgt = job.tgt /\ k.backup = job.backup
    BY <2>2, Recovered DEF Offered
  <2> HIDE DEF k
  <2>4. InstalledTypes'
    BY <1>0, <2>1, BetweenTypes DEF installed
  <2>5. DiskInv(k, app', server', env', current', schema')
    BY <1>0, <1>1, <2>1, <2>3 DEF DiskInv, WorkPhase, installed, Between
  <2> QED BY <1>4, <2>1, <2>3, <2>4, <2>5, EndKeeps DEF CommitJob
<1> QED BY <1>2, <1>3, <1>4

(* An apply that fails, at any of its steps.                               *)
LEMMA FailApplyKeeps ==
  ASSUME Alone, Alone', JobInv, NEW p \in Process, FailApply(p)
  PROVE  JobInv'
<1> DEFINE failed == Transition(mem[p], "FAILED")
           back == Transition(failed, "ROLLBACK_REQUIRED")
<1>0. /\ mem[p] = job /\ job \in Job /\ Between(job, app, server, env)
      /\ PlaceInv(pc[p], job, app, server, env, current, schema)
      /\ published \in Version /\ current \in Versions /\ schema \in Versions /\ job.tgt \in Versions
  BY AfterBackup DEF FailApply, Applying
<1>1. job.phase \in {"MIGRATING", "DEPLOYING", "VERIFYING"}
  BY <1>0 DEF FailApply, PlaceInv
<1>2. /\ UNCHANGED <<published, env>> /\ schema' \in {schema, job.tgt} /\ current' \in {current, job.tgt}
      /\ app' \in {app, job.tgt} /\ server' \in {server, job.tgt}
  BY <1>0 DEF FailApply
<1>3. Between(job, app', server', env') /\ InstalledTypes'
  BY <1>0, <1>2, BetweenTypes DEF Between
<1>4. /\ failed \in Job /\ failed.phase = "FAILED" /\ failed.resume = job.phase
      /\ failed.tgt = job.tgt /\ failed.backup = job.backup
  <2>1. "FAILED" \in Phase /\ job.phase \in Active
    BY <1>1 DEF Phase, Active
  <2> QED BY <1>0, <2>1, TransitionFacts
<1> HIDE DEF failed
<1>5. /\ back \in Job /\ back.phase = "ROLLBACK_REQUIRED" /\ back.tgt = job.tgt /\ back.backup = job.backup
  <2>1. "ROLLBACK_REQUIRED" \in Phase
    BY DEF Phase
  <2> QED BY <1>4, <2>1, TransitionFacts
<1> HIDE DEF back
<1>6. DiskInv(failed, app', server', env', current', schema')
  BY <1>1, <1>3, <1>4, BetweenDisk DEF Between, WorkPhase, Terminal
<1>7. ASSUME NEW r \in {"unset", "offered", "manual"}
      PROVE  /\ [back EXCEPT !.recovery = r] \in Job
             /\ DiskInv([back EXCEPT !.recovery = r], app', server', env', current', schema')
  <2> DEFINE k == [back EXCEPT !.recovery = r]
  <2>1. k \in Job /\ k.phase = "ROLLBACK_REQUIRED" /\ k.tgt = job.tgt /\ k.backup = job.backup
    BY <1>5, Recovered
  <2> HIDE DEF k
  <2>2. DiskInv(k, app', server', env', current', schema')
    BY <1>3, <2>1, BetweenDisk DEF Between, WorkPhase, Terminal
  <2> QED BY <2>1, <2>2 DEF k
<1>8. \/ (job' = failed /\ Die) \/ EndWith(p, failed)
      \/ \E r \in {"unset", "offered", "manual"} : EndWith(p, [back EXCEPT !.recovery = r])
  BY DEF FailApply, Offered, failed, back
<1> QED BY <1>3, <1>4, <1>6, <1>7, <1>8, EndKeeps DEF FailApply

(* The steps of a rollback.                                                *)
LEMMA BeginRollbackKeeps ==
  ASSUME Alone, Alone', JobInv, NEW p \in Process, BeginRollback(p)
  PROVE  JobInv'
<1> DEFINE t == Transition(job, "ROLLBACK_REQUIRED")
<1>1. /\ job \in Job /\ Between(job, app, server, env) /\ UNCHANGED <<published, installed>>
      /\ job.phase \in {"COMMITTED", "ROLLBACK_REQUIRED"} /\ Goto(p, "restoring app")
  BY DEF BeginRollback, JobInv, JobTypes, DiskInv, WorkPhase, Between
<1>2. t \in Job /\ t.phase = "ROLLBACK_REQUIRED" /\ t.tgt = job.tgt /\ t.backup = job.backup
  <2>1. "ROLLBACK_REQUIRED" \in Phase
    BY DEF Phase
  <2> QED BY <1>1, <2>1, TransitionFacts
<1>3. Save(p, t) \/ (job.phase = "ROLLBACK_REQUIRED" /\ Save(p, job))
  BY DEF BeginRollback
<1> HIDE DEF t
<1>4. ASSUME NEW k \in Job, k.phase = "ROLLBACK_REQUIRED", k.tgt = job.tgt, k.backup = job.backup, Save(p, k)
      PROVE  JobInv'
  <2>1. Between(k, app', server', env')
    BY <1>1, <1>4 DEF Between, installed
  <2>2. DiskInv(k, app', server', env', current', schema')
    BY <1>4, <2>1, BetweenDisk DEF WorkPhase, Terminal
  <2>3. PlaceInv("restoring app", k, app', server', env', current', schema')
    BY <1>4 DEF PlaceInv
  <2>4. InstalledTypes' /\ "restoring app" \in Working
    BY <1>1 DEF JobInv, JobTypes, InstalledTypes, installed, Working, Restoring
  <2> QED BY <1>1, <1>4, <2>2, <2>3, <2>4, MoveKeeps
<1> QED BY <1>1, <1>2, <1>3, <1>4

(* The steps of a rollback that put back the files, the server and .env. *)
LEMMA RestoreKeeps ==
  ASSUME Alone, Alone', JobInv, NEW p \in Process, RestoreApp(p) \/ RestoreServer(p) \/ RestoreEnvironment(p)
  PROVE  JobInv'
<1>0. /\ mem[p] = job /\ job \in Job /\ Between(job, app, server, env)
      /\ PlaceInv(pc[p], job, app, server, env, current, schema)
      /\ published \in Version /\ current \in Versions /\ schema \in Versions
      /\ {"restoring server", "verifying restored", "recording"} \subseteq Working
      /\ job.phase = "ROLLBACK_REQUIRED" /\ job.backup.current \in Versions
  <2>1. pc[p] \in Restoring
    BY DEF RestoreApp, RestoreServer, RestoreEnvironment, Restoring
  <2>2. mem[p] = job /\ job \in Job /\ PlaceInv(pc[p], job, app, server, env, current, schema)
    BY <2>1, AfterBackup
  <2>3. job.phase = "ROLLBACK_REQUIRED" /\ job.backup.current \in Versions
    BY <2>1, <2>2 DEF PlaceInv, Job, Backup, Versions
  <2> QED BY <2>1, <2>2, <2>3, AfterBackup DEF Working, Restoring
<1>1. ASSUME Between(job, app', server', env'), published' \in Version, current' \in Versions, schema' \in Versions
      PROVE  InstalledTypes' /\ DiskInv(job, app', server', env', current', schema')
  BY <1>0, <1>1, BetweenTypes, BetweenDisk DEF WorkPhase, Terminal
<1>2. CASE RestoreApp(p)
  <2>1. /\ app' = job.backup.env /\ UNCHANGED <<published, env, current, server, schema, job, mem>>
        /\ Goto(p, "restoring server")
    BY <1>0, <1>2 DEF RestoreApp, files
  <2>2. Between(job, app', server', env')
    BY <1>0, <2>1 DEF Between
  <2>3. InstalledTypes' /\ DiskInv(job, app', server', env', current', schema')
    BY <1>0, <1>1, <2>1, <2>2
  <2>4. PlaceInv("restoring server", job, app', server', env', current', schema')
    BY <1>0, <2>1 DEF PlaceInv
  <2> QED BY <1>0, <2>1, <2>3, <2>4, MoveKeeps
<1>3. CASE RestoreServer(p)
  <2>1. /\ server' = job.backup.env /\ UNCHANGED <<published, env, current, app, schema, job, mem>>
        /\ Goto(p, "verifying restored") /\ app = job.backup.env
    BY <1>0, <1>3 DEF RestoreServer, files, PlaceInv
  <2>2. Between(job, app', server', env')
    BY <1>0, <2>1 DEF Between
  <2>3. InstalledTypes' /\ DiskInv(job, app', server', env', current', schema')
    BY <1>0, <1>1, <2>1, <2>2
  <2>4. PlaceInv("verifying restored", job, app', server', env', current', schema')
    BY <1>0, <2>1 DEF PlaceInv
  <2> QED BY <1>0, <2>1, <2>3, <2>4, MoveKeeps
<1>4. CASE RestoreEnvironment(p)
  <2>1. /\ env' = job.backup.env /\ UNCHANGED <<published, app, server, schema, job, mem>>
        /\ current' \in Versions /\ Goto(p, "recording") /\ app = job.backup.env /\ server = job.backup.env
    BY <1>0, <1>4 DEF RestoreEnvironment, files, PlaceInv
  <2>2. Between(job, app', server', env')
    BY <1>0, <2>1 DEF Between
  <2>3. InstalledTypes' /\ DiskInv(job, app', server', env', current', schema')
    BY <1>0, <1>1, <2>1, <2>2
  <2>4. PlaceInv("recording", job, app', server', env', current', schema')
    BY <1>0, <2>1 DEF PlaceInv
  <2> QED BY <1>0, <2>1, <2>3, <2>4, MoveKeeps
<1> QED BY <1>2, <1>3, <1>4

(* A rollback that is complete, and one that fails at any of its steps.  *)
LEMMA RollbackEndKeeps ==
  ASSUME Alone, Alone', JobInv, NEW p \in Process, RecordRollback(p) \/ RollbackFails(p)
  PROVE  JobInv'
<1>0. /\ mem[p] = job /\ job \in Job /\ Between(job, app, server, env)
      /\ PlaceInv(pc[p], job, app, server, env, current, schema)
      /\ published \in Version /\ current \in Versions /\ schema \in Versions
      /\ job.phase = "ROLLBACK_REQUIRED"
  <2>1. pc[p] \in Restoring
    BY DEF RecordRollback, RollbackFails, Restoring
  <2>2. mem[p] = job /\ job \in Job /\ PlaceInv(pc[p], job, app, server, env, current, schema)
    BY <2>1, AfterBackup
  <2> QED BY <2>1, <2>2, AfterBackup DEF PlaceInv
<1>1. CASE RecordRollback(p)
  <2> DEFINE k == Transition(mem[p], "ROLLED_BACK")
  <2>1. k \in Job /\ k.phase = "ROLLED_BACK" /\ k.tgt = job.tgt /\ k.backup = job.backup
    <3>1. "ROLLED_BACK" \in Phase
      BY DEF Phase, Terminal
    <3> QED BY <1>0, <3>1, TransitionFacts
  <2>2. EndWith(p, k) \/ (job' = k /\ Die)
    BY <1>1 DEF RecordRollback
  <2> HIDE DEF k
  <2>3. /\ UNCHANGED <<published, installed>>
        /\ app = job.backup.env /\ server = job.backup.env /\ env = job.backup.env
    BY <1>0, <1>1 DEF RecordRollback, PlaceInv
  <2>4. InstalledTypes'
    BY <1>0, <2>3, BetweenTypes DEF installed
  <2>5. DiskInv(k, app', server', env', current', schema')
    BY <1>0, <2>1, <2>3 DEF DiskInv, WorkPhase, installed, Between
  <2> QED BY <1>1, <2>1, <2>2, <2>4, <2>5, EndKeeps DEF RecordRollback
<1>2. CASE RollbackFails(p)
  <2>1. /\ UNCHANGED <<published, env, current, schema, job>> /\ End(p)
        /\ app' \in {app, job.backup.env} /\ server' \in {server, job.backup.env}
    BY <1>0, <1>2 DEF RollbackFails, files
  <2>2. Between(job, app', server', env')
    BY <1>0, <2>1 DEF Between
  <2>3. InstalledTypes' /\ DiskInv(job, app', server', env', current', schema')
    BY <1>0, <2>1, <2>2, BetweenTypes, BetweenDisk DEF WorkPhase, Terminal
  <2>4. EndWith(p, job)
    BY <2>1 DEF EndWith
  <2> QED BY <1>0, <1>2, <2>3, <2>4, EndKeeps DEF RollbackFails
<1> QED BY <1>1, <1>2

-----------------------------------------------------------------------------
(* Everything else leaves the job and the installation alone.              *)

Kept == UNCHANGED <<job, mem, pc, published, installed>>

(* What touches neither the job nor the installation keeps the invariant. *)
LEMMA KeptKeeps ==
  ASSUME JobInv, Kept
  PROVE  JobInv'
BY DEF JobInv, JobTypes, CommandInv, Kept, installed

(* A process that takes the lock has read nothing yet.                   *)
LEMMA EnterKeeps ==
  ASSUME Alone, Alone', JobInv, NEW p \in Process, Enter(p)
  PROVE  JobInv'
<1>1. UNCHANGED <<job, mem, published, installed>> /\ pc' = [pc EXCEPT ![p] = "entered"]
  BY DEF Enter, Goto, files
<1>2. JobTypes' /\ pc'[p] = "entered"
  BY <1>1 DEF JobInv, JobTypes, installed
<1>3. \A q \in Process : pc'[q] \in {"idle", "entered"}
  BY <1>2 DEF Alone
<1>4. DiskInv(job, app, server, env, current, schema)'
  BY <1>1 DEF JobInv, installed
<1> QED BY <1>2, <1>3, <1>4, Stops

(* A command that refuses leaves everything as it is.                    *)
LEMMA RefuseKeeps ==
  ASSUME Alone, Alone', JobInv, NEW p \in Process, Refuse(p)
  PROVE  JobInv'
<1>1. EndWith(p, job) /\ job \in Job /\ UNCHANGED <<published, installed>>
  BY DEF Refuse, EndWith, files, JobInv, JobTypes
<1>2. InstalledTypes' /\ DiskInv(job, app', server', env', current', schema')
  BY <1>1 DEF JobInv, JobTypes, InstalledTypes, installed
<1> QED BY <1>1, <1>2, EndKeeps DEF Refuse

(* The updater may die although no command runs, or there is no process.   *)
LEMMA CrashKeeps ==
  ASSUME JobInv, UpdaterCrash
  PROVE  JobInv'
<1>1. NoJob \in Job
  BY NewJobFacts, UpdateAssumption DEF Versions
<1>2. UNCHANGED <<job, published, installed>> /\ pc' = [p \in Process |-> "idle"] /\ mem' = [p \in Process |-> NoJob]
  BY DEF UpdaterCrash, Die, files
<1>3. JobTypes' /\ DiskInv(job, app, server, env, current, schema)'
  BY <1>1, <1>2 DEF JobInv, JobTypes, installed
<1>4. CommandInv'
  BY <1>2 DEF CommandInv, Working, Applying, Restoring
<1> QED BY <1>3, <1>4 DEF JobInv

(* A release that is published changes nothing here.                     *)
LEMMA PublishKeeps ==
  ASSUME JobInv, Publish
  PROVE  JobInv'
<1>1. UNCHANGED <<job, mem, pc, installed>> /\ published' = published + 1 /\ published < MaxVersion
  BY DEF Publish
<1>2. published' \in Version
  BY <1>1, UpdateAssumption DEF JobInv, JobTypes, Version
<1> QED BY <1>1, <1>2 DEF JobInv, JobTypes, CommandInv, installed

(* What any administrator may have the updater do, at any time.            *)
LEMMA StepKeeps ==
  ASSUME Alone, Alone', JobInv, NEW p \in Process, CommandStep(p)
  PROVE  JobInv'
<1>1. Unlock(p) => Kept
  BY DEF Unlock, jobVars, files, Kept
<1> QED BY <1>1, KeptKeeps, DownloadKeeps, ImportKeeps, BackupKeeps, DrainKeeps, DeployKeeps, CommitKeeps,
           FailApplyKeeps, RestoreKeeps, RollbackEndKeeps DEF CommandStep

(* The commands that any administrator may give at any time.             *)
LEMMA OtherKeeps ==
  ASSUME Alone, Alone', JobInv, NEW p \in Process, OtherCommands(p)
  PROVE  JobInv'
<1>1. \A id \in Request : Installed(id) \in Versions
  BY DEF Installed, JobInv, JobTypes, Job, Versions
<1>2. ASSUME NEW id \in Request, NEW tgt \in Version, BeginDownload(p, id, Installed(id), tgt)
      PROVE  JobInv'
  BY <1>1, <1>2, BeginDownloadKeeps
<1>3. ASSUME NEW id \in Request, NEW tgt \in Version, ImportRelease(p, id, Installed(id), tgt)
      PROVE  JobInv'
  BY <1>1, <1>3, ImportKeeps
<1> QED BY <1>2, <1>3, EnterKeeps, RefuseKeeps, BackupKeeps DEF OtherCommands

(* The scheduler.                                                          *)
LEMMA AutoDownloadKeeps ==
  ASSUME Alone, Alone', UpdateInv, NEW p \in Process, AutoDownload(p)
  PROVE  UpdateInv'
<1>1. JobInv /\ found \in [cur : Versions, tgt : Versions] /\ 0 \in Versions
  BY UpdateAssumption DEF UpdateInv, Versions
<1>2. UNCHANGED found \/ RoundEnds
  BY DEF AutoDownload, autoVars, Downloaded
<1>3. found' \in [cur : Versions, tgt : Versions]
  BY <1>1, <1>2 DEF RoundEnds
<1>4. CASE BeginDownload(p, Automatic[found.tgt], found.cur, found.tgt)
  <2>1. found.tgt \in Version /\ found.cur \in Versions
    BY <1>1, <1>4 DEF BeginDownload, JobInv, JobTypes
  <2>2. Automatic[found.tgt] \in Request
    BY <2>1, AutomationAssumption
  <2>3. JobInv'
    BY <1>1, <1>4, <2>1, <2>2, BeginDownloadKeeps
  <2> QED BY <1>3, <2>3 DEF UpdateInv
<1>5. CASE FetchArtifacts(p) \/ PullImages(p) \/ PauseDownload(p) \/ FailDownload(p) \/ Refuse(p)
  BY <1>1, <1>3, <1>5, DownloadKeeps, RefuseKeeps DEF UpdateInv
<1> QED BY <1>4, <1>5 DEF AutoDownload

(* A step of the scheduler, and its crash.                               *)
LEMMA AutomationKeeps ==
  ASSUME Alone, Alone', UpdateInv, AutomationNext \/ AutomationCrash
  PROVE  UpdateInv'
<1>1. JobInv /\ found \in [cur : Versions, tgt : Versions] /\ 0 \in Versions
      /\ current \in Versions /\ published \in Versions
  BY UpdateAssumption DEF UpdateInv, Versions, Version, JobInv, JobTypes
<1>2. CASE AutoCheck \/ PruneRead \/ PruneRemove \/ RoundFails
  <2>1. Kept
    BY <1>2 DEF AutoCheck, PruneRead, PruneRemove, RoundFails, Kept, jobVars, files
  <2>2. found' \in [cur : Versions, tgt : Versions]
    BY <1>1, <1>2 DEF AutoCheck, PruneRead, PruneRemove, RoundFails, RoundEnds
  <2> QED BY <1>1, <2>1, <2>2, KeptKeeps DEF UpdateInv
<1>3. ASSUME NEW p \in Process, AutoEnter(p)
      PROVE  UpdateInv'
  BY <1>1, <1>3, EnterKeeps DEF AutoEnter, UpdateInv
<1>4. CASE AutomationCrash
  BY <1>1, <1>4, CrashKeeps DEF AutomationCrash, RoundEnds, UpdateInv
<1> QED BY <1>2, <1>3, <1>4, AutoDownloadKeeps DEF AutomationNext

-----------------------------------------------------------------------------
(* The whole composition.                                                  *)

(* The invariant holds of a new installation.                            *)
LEMMA UpdateInit == PageInit => UpdateInv
<1> SUFFICES ASSUME PageInit PROVE UpdateInv
  OBVIOUS
<1>1. /\ job = NoJob /\ pc = [p \in Process |-> "idle"] /\ mem = [p \in Process |-> NoJob]
      /\ published = 1 /\ env = 1 /\ current = 1 /\ app = 1 /\ server = 1 /\ schema = 1
      /\ found = [cur |-> 0, tgt |-> 0]
  BY DEF PageInit, AutomationInit, UpdateJobInit
<1>2. 0 \in Versions /\ 1 \in Versions /\ 1 \in Version
  BY UpdateAssumption DEF Versions, Version
<1>3. NoJob \in Job /\ NoJob.phase = "NONE"
  BY <1>2, NewJobFacts
<1>4. JobTypes
  BY <1>1, <1>2, <1>3 DEF JobTypes
<1>5. DiskInv(job, app, server, env, current, schema)
  BY <1>1, <1>3 DEF DiskInv, WorkPhase
<1>6. CommandInv
  BY <1>1 DEF CommandInv, Working, Applying, Restoring
<1> QED BY <1>1, <1>2, <1>4, <1>5, <1>6 DEF UpdateInv, JobInv

(* While no two commands run, every step keeps it.                       *)
LEMMA UpdateStep ==
  ASSUME Alone, Alone', UpdateInv, [UpdatesNext]_updateVars
  PROVE  UpdateInv'
<1>0. JobInv /\ found \in [cur : Versions, tgt : Versions]
  BY DEF UpdateInv
<1>1. CASE UNCHANGED updaterVars
  <2>1. Kept /\ UNCHANGED found
    BY <1>1 DEF updaterVars, jobVars, files, autoVars, Kept
  <2> QED BY <1>0, <2>1, KeptKeeps DEF UpdateInv
<1>2. CASE AutomationNext \/ AutomationCrash
  BY <1>2, AutomationKeeps
<1>3. ASSUME UNCHANGED autoVars,
             \/ RunsOn \/ \E p \in Process : OtherCommands(p)
             \/ \E id \in Request : Cancel(id)
             \/ ReadHistory \/ Publish
             \/ LockAges /\ UNCHANGED jobVars
      PROVE  UpdateInv'
  <2>1. (\E id \in Request : Cancel(id)) \/ ReadHistory \/ (LockAges /\ UNCHANGED jobVars) => Kept
    BY DEF Cancel, ReadHistory, jobVars, files, Kept
  <2>2. RunsOn \/ (\E p \in Process : OtherCommands(p)) => JobInv'
    BY <1>0, StepKeeps, OtherKeeps DEF RunsOn
  <2>3. JobInv'
    BY <1>0, <1>3, <2>1, <2>2, KeptKeeps, PublishKeeps
  <2> QED BY <1>0, <1>3, <2>3 DEF UpdateInv, autoVars
<1>4. ASSUME NEW p \in Process, ServePosts(p)
      PROVE  UpdateInv'
  <2>1. UNCHANGED found
    BY <1>4 DEF ServePosts, Serve, autoVars
  <2>2. JobInv'
    BY <1>0, <1>4, BackupKeeps, DrainKeeps, BeginRollbackKeeps DEF ServePosts
  <2> QED BY <1>0, <2>1, <2>2 DEF UpdateInv
<1>5. PageNext \/ AcceptWork \/ FinishWork \/ Reject \/ UNCHANGED updateVars => UNCHANGED updaterVars
  BY DEF PageNext, BeginInstall, NotDrained, EnterMaintenance, BackupDone, BackupUnanswered,
         BeginRollbackOperation, Poll, Reopen, ReopenFails, Expire, RetryRecovery, ResumeNormal, Reload,
         AcceptWork, FinishWork, Reject, updateVars
<1> QED BY <1>1, <1>2, <1>3, <1>4, <1>5 DEF UpdatesNext, UpdaterNext

-----------------------------------------------------------------------------
(* The invariant of the update: the job on disk says how much of an        *)
(* installation may have been changed, and the command at work how much of *)
(* it has been, through any number of crashes.                             *)
THEOREM UpdateInvariant ==
  UpdatesSpec /\ []Alone => []UpdateInv
<1>1. UpdateInv /\ Alone /\ Alone' /\ [UpdatesNext]_updateVars => UpdateInv'
  BY UpdateStep
<1> QED BY UpdateInit, <1>1, PTL DEF UpdatesSpec

(* A job recorded as committed or rolled back is true of .env, the         *)
(* services and the database (runApply and runRollback save the phase      *)
(* after everything it stands for).                                        *)
THEOREM InstallationTrue ==
  UpdatesSpec /\ []Alone => []InstallationAgrees
<1>1. UpdateInv => InstallationAgrees
  BY DEF UpdateInv, JobInv, DiskInv, InstallationAgrees
<1> QED BY <1>1, UpdateInvariant, PTL

(* The services are never of two releases without a complete backup and    *)
(* the release they came from in the job (runApply and runRollback).       *)
THEOREM AlwaysRecoverable ==
  UpdatesSpec /\ []Alone => []Recoverable
<1>1. ASSUME UpdateInv PROVE Recoverable
  <2>1. job \in Job /\ DiskInv(job, app, server, env, current, schema)
    BY <1>1 DEF UpdateInv, JobInv, JobTypes
  <2>2. NoBackup.env \notin Version
    BY DEF NoBackup, Version
  <2>3. ASSUME app # server \/ app # env \/ job.phase \in {"MIGRATING", "DEPLOYING", "VERIFYING",
                                               "ROLLBACK_REQUIRED", "COMMITTED"}
        PROVE  job.backup.env \in Version /\ {app, server, env} \subseteq {job.backup.env, job.tgt}
    <3>1. \/ WorkPhase(job) \in {"NONE", "AVAILABLE", "DOWNLOADING", "VERIFIED", "PRECHECKED", "BACKING_UP"}
          \/ WorkPhase(job) \in {"BACKED_UP", "DRAINING", "MIGRATING", "DEPLOYING", "VERIFYING",
                                 "ROLLBACK_REQUIRED", "COMMITTED", "ROLLED_BACK"}
      BY <2>1 DEF Job, Phase, Active, Terminal, WorkPhase
    <3>2. CASE WorkPhase(job) \in {"NONE", "AVAILABLE", "DOWNLOADING", "VERIFIED", "PRECHECKED", "BACKING_UP"}
      BY <2>1, <2>3, <3>2 DEF DiskInv, WorkPhase
    <3>3. CASE WorkPhase(job) \in {"BACKED_UP", "DRAINING", "MIGRATING", "DEPLOYING", "VERIFYING",
                                 "ROLLBACK_REQUIRED", "COMMITTED", "ROLLED_BACK"}
      BY <2>1, <3>3 DEF DiskInv
    <3> QED BY <3>1, <3>2, <3>3
  <2> QED BY <2>2, <2>3 DEF Recoverable
<1> QED BY <1>1, UpdateInvariant, PTL

-----------------------------------------------------------------------------
(* The page that puts the server back to normal.                           *)

\* Where a command changes the installation, or is about to.
Touching == Applying \cup Restoring

\* What the page has read of the end of its operation stays so.
Resting == app = env /\ server = env /\ \A p \in Process : pc[p] \notin Touching

(* A job that succeeded is a whole release, and no command is at work.     *)
LEMMA SucceededRests ==
  ASSUME UpdateInv, job.phase \in Terminal
  PROVE  Resting
<1>1. app = env /\ server = env
  BY WholeBefore DEF UpdateInv
<1>2. ASSUME NEW p \in Process, pc[p] \in Touching
      PROVE  FALSE
  <2>1. PlaceInv(pc[p], job, app, server, env, current, schema)
    BY <1>2 DEF UpdateInv, JobInv, CommandInv, Working, Touching
  <2>2. \/ pc[p] \in Restoring \cup {"checking", "draining", "migrating"}
        \/ pc[p] \in {"deploying app", "deploying server"} \/ pc[p] \in {"verifying", "persisting", "committing"}
    BY <1>2 DEF Touching, Applying
  <2>3. job.phase \in {"ROLLBACK_REQUIRED", "BACKED_UP", "DRAINING", "MIGRATING", "DEPLOYING", "VERIFYING"}
    BY <2>1, <2>2 DEF PlaceInv
  <2> QED BY <2>3 DEF Terminal
<1> QED BY <1>1, <1>2 DEF Resting

\* A step that leaves the services and .env, and moves commands elsewhere.
Elsewhere ==
  /\ UNCHANGED <<app, server, env>>
  /\ \/ UNCHANGED pc
     \/ \E p \in Process, place \in Place \ Touching : pc' = [pc EXCEPT ![p] = place]
     \/ pc' = [p \in Process |-> "idle"]

LEMMA ElsewhereRests ==
  ASSUME JobTypes, Resting, Elsewhere
  PROVE  Resting'
<1>1. "idle" \notin Touching
  BY DEF Touching, Applying, Restoring
<1> QED BY <1>1 DEF JobTypes, Resting, Elsewhere

\* The places that are not at work.
LEMMA QuietPlaces ==
  {"idle", "entered", "imported", "artifacts", "images", "loading", "dumping"} \subseteq Place \ Touching
BY DEF Place, Touching, Applying, Restoring

(* The first save of a download or an import.                              *)
LEMMA PrepareElsewhere ==
  ASSUME NEW p \in Process, NEW id, NEW cur, NEW tgt, NEW delivery, NEW place \in {"artifacts", "loading"},
         Prepare(p, id, cur, tgt, delivery, place), UNCHANGED <<app, server, env>>
  PROVE  Elsewhere
<1>1. (\E j : Proceed(p, j, delivery, place)) \/ Die
  BY DEF Prepare
<1> QED BY <1>1, QuietPlaces DEF Proceed, Goto, Die, Elsewhere

(* The commands that begin, but for apply and rollback.                    *)
LEMMA BeginsElsewhere ==
  ASSUME NEW p \in Process, NEW id, NEW cur, NEW tgt,
         \/ Enter(p) \/ Refuse(p) \/ Preflight(p) \/ BeginBackup(p)
         \/ BeginDownload(p, id, cur, tgt) \/ ImportRelease(p, id, cur, tgt)
  PROVE  Elsewhere
<1>1. CASE BeginDownload(p, id, cur, tgt)
  <2>1. Prepare(p, id, cur, tgt, "online", "artifacts") \/ End(p)
    BY <1>1 DEF BeginDownload
  <2>2. UNCHANGED <<app, server, env>>
    BY <1>1 DEF BeginDownload, installed
  <2> QED BY <2>1, <2>2, PrepareElsewhere, QuietPlaces DEF End, Elsewhere
<1>2. CASE Enter(p) \/ Refuse(p) \/ Preflight(p) \/ BeginBackup(p) \/ ImportRelease(p, id, cur, tgt)
  BY <1>2, QuietPlaces
     DEF Enter, Refuse, Preflight, BeginBackup, ImportRelease, EndWith, End, Goto, Die, installed, Elsewhere
<1> QED BY <1>1, <1>2

(* A command that is running, and is not at work, stays away from it.      *)
LEMMA RunsElsewhere ==
  ASSUME Resting, NEW p \in Process, CommandStep(p)
  PROVE  Elsewhere
<1>1. pc[p] \notin Touching
  BY DEF Resting
<1>2. CASE BeginImport(p)
  <2> DEFINE m == mem[p]
  <2>1. Prepare(p, m.id, m.cur, m.tgt, "offline", "loading") \/ End(p)
    BY <1>2 DEF BeginImport, EndWith
  <2>2. UNCHANGED <<app, server, env>>
    BY <1>2 DEF BeginImport, installed
  <2> QED BY <2>1, <2>2, PrepareElsewhere, QuietPlaces DEF End, Elsewhere
<1>3. CASE \/ FetchArtifacts(p) \/ PullImages(p) \/ PauseDownload(p) \/ FailDownload(p)
           \/ LoadImages(p) \/ TakeBackup(p) \/ FailBackup(p)
  BY <1>3, QuietPlaces
     DEF FetchArtifacts, PullImages, PauseDownload, FailDownload, LoadImages, TakeBackup, FailBackup,
         EndWith, End, Goto, installed, Elsewhere
<1>4. CASE Unlock(p)
  BY <1>4 DEF Unlock, jobVars, installed, Elsewhere
<1>5. CASE \/ Drain(p) \/ StartMigration(p) \/ Migrate(p) \/ ActivateApp(p) \/ ActivateServer(p)
           \/ CommitEnvironment(p) \/ PersistCurrentRelease(p) \/ CommitJob(p) \/ FailApply(p)
           \/ RestoreApp(p) \/ RestoreServer(p) \/ RestoreEnvironment(p)
           \/ RecordRollback(p) \/ RollbackFails(p)
  <2>1. pc[p] \in Touching
    BY <1>5 DEF Drain, StartMigration, Migrate, ActivateApp, ActivateServer, CommitEnvironment,
         PersistCurrentRelease, CommitJob, FailApply, RestoreApp, RestoreServer, RestoreEnvironment,
         RecordRollback, RollbackFails, Touching, Applying, Restoring
  <2> QED BY <1>1, <2>1
<1> QED BY <1>2, <1>3, <1>4, <1>5 DEF CommandStep

(* The scheduler.                                                          *)
LEMMA SchedulerElsewhere ==
  ASSUME Resting, AutomationNext \/ AutomationCrash
  PROVE  Elsewhere
<1>1. CASE AutoCheck \/ PruneRead \/ PruneRemove \/ RoundFails
  BY <1>1 DEF AutoCheck, PruneRead, PruneRemove, RoundFails, jobVars, installed, Elsewhere
<1>2. ASSUME NEW p \in Process, AutoEnter(p)
      PROVE  Elsewhere
  BY <1>2, BeginsElsewhere DEF AutoEnter
<1>3. ASSUME NEW p \in Process, AutoDownload(p)
      PROVE  Elsewhere
  BY <1>3, BeginsElsewhere, RunsElsewhere DEF AutoDownload, CommandStep
<1>4. CASE AutomationCrash
  BY <1>4 DEF AutomationCrash, UpdaterCrash, Die, installed, Elsewhere
<1> QED BY <1>1, <1>2, <1>3, <1>4 DEF AutomationNext

(* What the updater does while it takes no post up but that of a backup.   *)
LEMMA UpdaterElsewhere ==
  ASSUME Resting, UpdaterNext, \A p \in Process : ServePosts(p) => BeginBackup(p)
  PROVE  Elsewhere
<1>1. CASE AutomationNext \/ AutomationCrash
  BY <1>1, SchedulerElsewhere
<1>2. CASE RunsOn \/ \E p \in Process : OtherCommands(p)
  BY <1>2, RunsElsewhere, BeginsElsewhere DEF RunsOn, OtherCommands
<1>3. CASE (\E id \in Request : Cancel(id)) \/ ReadHistory \/ Publish \/ (LockAges /\ UNCHANGED jobVars)
  BY <1>3 DEF Cancel, ReadHistory, Publish, jobVars, installed, Elsewhere
<1>4. ASSUME NEW p \in Process, ServePosts(p)
      PROVE  Elsewhere
  BY <1>4, BeginsElsewhere
<1>5. CASE Reject
  BY <1>5 DEF Reject, updaterVars, jobVars, installed, Elsewhere
<1> QED BY <1>1, <1>2, <1>3, <1>4, <1>5 DEF UpdaterNext

\* From the end of an installation on a job keeps to these phases.
Late == {"COMMITTED", "ROLLBACK_REQUIRED", "ROLLED_BACK"}

\* How the job on disk moves: a new one takes the place of one that ended and
\* is archived; else it is the same one, which leaves an end only by a rollback.
Filed(id, records) == \E record \in records : record.id = id /\ record.kind = "update"
NewBegins ==
  /\ job'.phase \in {"AVAILABLE", "DOWNLOADING"}
  /\ job.phase = "NONE" \/ (job.phase \in Terminal /\ Filed(job.id, history'))
SameMoves ==
  /\ job'.id = job.id /\ job.phase # "NONE" /\ job'.phase # "NONE"
  /\ job.phase \in Late => job'.phase \in Late
  /\ job.phase \in Terminal => \E p \in Process : BeginRollback(p)
JobMove == history \subseteq history' /\ (job' = job \/ NewBegins \/ SameMoves)

(* The first save of a download or an import.                              *)
LEMMA PrepareMovesJob ==
  ASSUME JobInv, NEW p \in Process, NEW id \in Request \cup {NoRequest}, NEW cur \in Versions, NEW tgt \in Version,
         NEW delivery \in {"online", "offline"}, NEW place \in {"artifacts", "loading"},
         Prepare(p, id, cur, tgt, delivery, place)
  PROVE  JobMove
<1>0. /\ job \in Job /\ tgt \in Versions /\ {"DOWNLOADING", "PAUSED"} \subseteq Phase /\ "DOWNLOADING" \in Active
      /\ "FAILED" \notin Active /\ NoJob.phase = "NONE"
  BY NewJobFacts, UpdateAssumption DEF JobInv, JobTypes, Phase, Active, Version, Versions
<1>1. ASSUME NEW j \in Job, Proceed(p, j, delivery, place)
      PROVE  job' = j \/ (job'.id = j.id /\ job'.phase = j.phase)
  BY <1>1 DEF Proceed, Save, Delivered, Job
<1>2. CASE job = NoJob \/ job.phase \in Terminal
  <2> DEFINE new == NewJob(id, cur, tgt)
  <2>1. new \in Job /\ new.phase = "AVAILABLE"
    BY <1>0, NewJobFacts
  <2>2. Transition(new, "DOWNLOADING") \in Job /\ Transition(new, "DOWNLOADING").phase = "DOWNLOADING"
    BY <1>0, <2>1, TransitionFacts
  <2>3. /\ Proceed(p, Transition(new, "DOWNLOADING"), delivery, place) \/ (job' \in {job, new} /\ Die)
        /\ history \subseteq history' /\ (job = NoJob \/ Filed(job.id, history'))
    <3>1. job.phase # "DOWNLOADING" /\ ~Resumable(job, "DOWNLOADING") /\ job.phase # "FAILED"
      BY <1>0, <1>2 DEF Terminal, Resumable
    <3>2. /\ history' = IF job = NoJob THEN history ELSE history \cup {Record(job.id, "update", job.cur)}
          /\ Proceed(p, Transition(new, "DOWNLOADING"), delivery, place) \/ (job' \in {job, new} /\ Die)
      BY <3>1 DEF Prepare
    <3>3. Record(job.id, "update", job.cur).id = job.id /\ Record(job.id, "update", job.cur).kind = "update"
      BY DEF Record
    <3>4. job # NoJob => Record(job.id, "update", job.cur) \in history'
      BY <3>2
    <3>5. job # NoJob => Filed(job.id, history')
      BY <3>3, <3>4 DEF Filed
    <3> QED BY <3>2, <3>5
  <2> HIDE DEF new
  <2> QED BY <1>0, <1>1, <1>2, <2>1, <2>2, <2>3 DEF JobMove, NewBegins
<1>3. CASE job # NoJob /\ job.phase \notin Terminal
  <2>1. /\ history' = history
        /\ \/ job.phase = "DOWNLOADING" /\ Proceed(p, job, delivery, place)
           \/ Resumable(job, "DOWNLOADING") /\ Proceed(p, Resumed(job), delivery, place)
           \/ job.phase = "FAILED" /\ job.resume = "DOWNLOADING" /\ job' = Transition(job, "PAUSED")
    BY <1>3 DEF Prepare
  <2>2. Resumable(job, "DOWNLOADING") =>
          Resumed(job) \in Job /\ Resumed(job).phase = "DOWNLOADING" /\ Resumed(job).id = job.id
    BY <1>0, ResumedFacts DEF Resumable
  <2>3. Transition(job, "PAUSED").phase = "PAUSED" /\ Transition(job, "PAUSED").id = job.id
    BY <1>0, TransitionFacts
  <2>4. job.phase \in {"DOWNLOADING", "FAILED", "PAUSED"} /\ job'.id = job.id
        /\ job'.phase \in {"DOWNLOADING", "PAUSED"}
    BY <1>0, <1>1, <2>1, <2>2, <2>3 DEF Resumable
  <2> QED BY <1>3, <2>1, <2>4 DEF JobMove, SameMoves, Late
<1> QED BY <1>2, <1>3

(* A command that is running changes its own job, and ends none before its *)
(* time.                                                                   *)
LEMMA StepMovesJob ==
  ASSUME JobInv, NEW p \in Process, CommandStep(p)
  PROVE  JobMove
<1>0. job \in Job /\ {"VERIFIED", "PAUSED", "FAILED", "BACKED_UP", "DRAINING", "MIGRATING", "DEPLOYING", "VERIFYING",
                      "COMMITTED", "ROLLBACK_REQUIRED", "ROLLED_BACK"} \subseteq Phase
  BY DEF JobInv, JobTypes, Phase, Active, Terminal
<1>1. CASE BeginImport(p)
  <2> DEFINE m == mem[p]
  <2>1. /\ m.id \in Request \cup {NoRequest} /\ m.cur \in Versions /\ m.tgt \in Version
    BY <1>1 DEF BeginImport, JobInv, JobTypes, CommandInv, Job, Versions
  <2>2. CASE Prepare(p, m.id, m.cur, m.tgt, "offline", "loading")
    BY <2>1, <2>2, PrepareMovesJob
  <2>3. CASE job.phase = "VERIFIED" /\ EndWith(p, [job EXCEPT !.delivery = "offline"]) /\ UNCHANGED history
    <3>1. job'.id = job.id /\ job'.phase = job.phase
      BY <1>0, <2>3 DEF EndWith, Job
    <3> QED BY <2>3, <3>1 DEF JobMove, SameMoves, Late, Terminal
  <2> QED BY <1>1, <2>2, <2>3 DEF BeginImport
<1>2. CASE Unlock(p)
  BY <1>2 DEF Unlock, jobVars, files, JobMove
<1>3. CASE ~BeginImport(p) /\ ~Unlock(p)
  <2> DEFINE to(next) == job'.id = job.id /\ job'.phase = next
  <2>1. /\ mem[p] = job /\ PlaceInv(pc[p], job, app, server, env, current, schema)
    BY <1>3 DEF JobInv, CommandInv, CommandStep, Working, Applying, Restoring,
       FetchArtifacts, PullImages, PauseDownload, FailDownload, LoadImages, TakeBackup, FailBackup,
       Drain, StartMigration, Migrate, ActivateApp, ActivateServer, CommitEnvironment, PersistCurrentRelease,
       CommitJob, FailApply, RestoreApp, RestoreServer, RestoreEnvironment, RecordRollback, RollbackFails
  <2>2. ASSUME NEW next \in Phase, next = "FAILED" => job.phase \in Active
        PROVE  Transition(job, next).id = job.id /\ Transition(job, next).phase = next
    BY <1>0, <2>2, TransitionFacts
  <2>3. CASE FetchArtifacts(p) \/ ActivateApp(p) \/ CommitEnvironment(p) \/ PersistCurrentRelease(p)
             \/ RestoreApp(p) \/ RestoreServer(p) \/ RestoreEnvironment(p) \/ RollbackFails(p)
    BY <2>1, <2>3 DEF FetchArtifacts, ActivateApp, CommitEnvironment, PersistCurrentRelease, RestoreApp,
       RestoreServer, RestoreEnvironment, RollbackFails, Save, files, JobMove
  <2>4. CASE PullImages(p) \/ PauseDownload(p) \/ FailDownload(p) \/ LoadImages(p) \/ TakeBackup(p) \/ FailBackup(p)
    <3>1. job.phase \in {"DOWNLOADING", "BACKING_UP"} /\ job.phase \in Active /\ UNCHANGED history
      BY <2>1, <2>4 DEF PlaceInv, Active, PullImages, PauseDownload, FailDownload, LoadImages, TakeBackup, FailBackup
    <3>2. CASE PullImages(p) \/ PauseDownload(p) \/ FailDownload(p) \/ LoadImages(p) \/ FailBackup(p)
      <4>1. job' \in {Transition(job, "VERIFIED"), Transition(job, "PAUSED"), Transition(job, "FAILED")}
        BY <2>1, <3>2 DEF PullImages, PauseDownload, FailDownload, LoadImages, FailBackup, EndWith
      <4>2. to("VERIFIED") \/ to("PAUSED") \/ to("FAILED")
        BY <1>0, <2>2, <3>1, <4>1
      <4> QED BY <3>1, <4>2 DEF JobMove, SameMoves, Late, Terminal
    <3>3. CASE TakeBackup(p)
      <4>1. \E b : job' = [Transition(job, "BACKED_UP") EXCEPT !.backup = b]
        BY <2>1, <3>3 DEF TakeBackup, EndWith
      <4>2. Transition(job, "BACKED_UP") \in Job
        BY <1>0, TransitionFacts
      <4>3. to("BACKED_UP")
        BY <1>0, <2>2, <4>1, <4>2 DEF Job
      <4> QED BY <3>1, <4>3 DEF JobMove, SameMoves, Late, Terminal
    <3> QED BY <2>4, <3>2, <3>3
  <2>5. CASE Drain(p) \/ StartMigration(p) \/ Migrate(p) \/ ActivateServer(p) \/ CommitJob(p)
    <3>1. job.phase \in {"BACKED_UP", "DRAINING", "MIGRATING", "DEPLOYING", "VERIFYING"} /\ UNCHANGED history
      BY <2>1, <2>5 DEF PlaceInv, Drain, StartMigration, Migrate, ActivateServer, CommitJob
    <3>2. CASE Drain(p) \/ StartMigration(p) \/ Migrate(p) \/ ActivateServer(p)
      <4>1. job' \in {job, Transition(job, "DRAINING"), Transition(job, "MIGRATING"), Transition(job, "DEPLOYING"),
                      Transition(job, "VERIFYING")}
        BY <2>1, <3>2 DEF Drain, StartMigration, Migrate, ActivateServer, Advance, Save
      <4>2. job' = job \/ to("DRAINING") \/ to("MIGRATING") \/ to("DEPLOYING") \/ to("VERIFYING")
        BY <1>0, <2>2, <4>1
      <4> QED BY <3>1, <4>2 DEF JobMove, SameMoves, Late, Terminal
    <3>3. CASE CommitJob(p)
      <4>1. job' = [Transition(job, "COMMITTED") EXCEPT !.recovery = Offered(job.tgt)]
        BY <2>1, <3>3 DEF CommitJob, EndWith
      <4>2. Transition(job, "COMMITTED") \in Job
        BY <1>0, TransitionFacts
      <4>3. to("COMMITTED")
        BY <1>0, <2>2, <4>1, <4>2 DEF Job
      <4> QED BY <3>1, <4>3 DEF JobMove, SameMoves, Late, Terminal
    <3> QED BY <2>5, <3>2, <3>3
  <2>6. CASE FailApply(p)
    <3>1. job.phase \in {"MIGRATING", "DEPLOYING", "VERIFYING"} /\ job.phase \in Active /\ UNCHANGED history
      BY <2>1, <2>6 DEF PlaceInv, FailApply, Active
    <3> DEFINE failed == Transition(job, "FAILED")
    <3>2. failed \in Job /\ failed.phase = "FAILED" /\ failed.id = job.id
      BY <1>0, <3>1, TransitionFacts
    <3>3. PICK r \in {"unset", "offered", "manual"} :
             job' \in {failed, [Transition(failed, "ROLLBACK_REQUIRED") EXCEPT !.recovery = r]}
      BY <2>1, <2>6 DEF FailApply, Offered, EndWith
    <3> HIDE DEF failed
    <3>4. Transition(failed, "ROLLBACK_REQUIRED") \in Job /\ Transition(failed, "ROLLBACK_REQUIRED").id = job.id
          /\ Transition(failed, "ROLLBACK_REQUIRED").phase = "ROLLBACK_REQUIRED"
      BY <1>0, <3>2, TransitionFacts
    <3>5. job'.id = job.id /\ job'.phase \in {"FAILED", "ROLLBACK_REQUIRED"}
      BY <3>2, <3>3, <3>4 DEF Job
    <3> QED BY <3>1, <3>5 DEF JobMove, SameMoves, Late, Terminal
  <2>7. CASE RecordRollback(p)
    <3>1. job.phase = "ROLLBACK_REQUIRED" /\ history \subseteq history'
      BY <2>1, <2>7 DEF PlaceInv, RecordRollback, Restoring
    <3>2. to("ROLLED_BACK")
      BY <1>0, <2>1, <2>2, <2>7 DEF RecordRollback, EndWith
    <3> QED BY <3>1, <3>2 DEF JobMove, SameMoves, Late, Terminal
  <2> QED BY <1>3, <2>3, <2>4, <2>5, <2>6, <2>7 DEF CommandStep
<1> QED BY <1>1, <1>2, <1>3

(* The commands that begin.                                                *)
LEMMA BeginsMoveJob ==
  ASSUME JobInv, NEW p \in Process, NEW id \in Request \cup {NoRequest}, NEW cur \in Versions, NEW tgt \in Version,
         \/ Enter(p) \/ Refuse(p) \/ Preflight(p) \/ BeginBackup(p) \/ BeginApply(p) \/ BeginRollback(p)
         \/ BeginDownload(p, id, cur, tgt) \/ ImportRelease(p, id, cur, tgt)
  PROVE  JobMove
<1>0. job \in Job /\ {"PRECHECKED", "BACKING_UP", "PAUSED", "ROLLBACK_REQUIRED"} \subseteq Phase
      /\ "BACKING_UP" \in Active /\ "FAILED" \notin Active
  BY DEF JobInv, JobTypes, Phase, Active
<1>1. CASE Enter(p) \/ Refuse(p) \/ BeginApply(p) \/ ImportRelease(p, id, cur, tgt)
  BY <1>1 DEF Enter, Refuse, BeginApply, ImportRelease, files, JobMove
<1>2. CASE BeginDownload(p, id, cur, tgt)
  <2>1. CASE Prepare(p, id, cur, tgt, "online", "artifacts")
    BY <2>1, PrepareMovesJob
  <2>2. CASE UNCHANGED <<job, history>>
    BY <2>2 DEF JobMove
  <2> QED BY <1>2, <2>1, <2>2 DEF BeginDownload
<1>3. CASE Preflight(p)
  <2>1. /\ job.phase \in {"VERIFIED", "PRECHECKED"} /\ job' \in {job, Transition(job, "PRECHECKED")} /\ UNCHANGED history
    BY <1>3 DEF Preflight, EndWith
  <2>2. Transition(job, "PRECHECKED").id = job.id /\ Transition(job, "PRECHECKED").phase = "PRECHECKED"
    BY <1>0, TransitionFacts
  <2> QED BY <2>1, <2>2 DEF JobMove, SameMoves, Late, Terminal
<1>4. CASE BeginBackup(p)
  <2>1. /\ UNCHANGED history
        /\ \/ job.phase = "PRECHECKED" /\ job' = Transition(job, "BACKING_UP")
           \/ job.phase = "BACKING_UP" /\ job' = job
           \/ Resumable(job, "BACKING_UP") /\ job' = Resumed(job)
           \/ job.phase = "FAILED" /\ job' = Transition(job, "PAUSED")
    BY <1>4 DEF BeginBackup, Save
  <2>2. /\ Transition(job, "BACKING_UP").id = job.id /\ Transition(job, "BACKING_UP").phase = "BACKING_UP"
        /\ Transition(job, "PAUSED").id = job.id /\ Transition(job, "PAUSED").phase = "PAUSED"
    BY <1>0, TransitionFacts
  <2>3. Resumable(job, "BACKING_UP") => Resumed(job).id = job.id /\ Resumed(job).phase = "BACKING_UP"
    BY <1>0, ResumedFacts
  <2> QED BY <2>1, <2>2, <2>3 DEF JobMove, SameMoves, Late, Terminal, Resumable
<1>5. CASE BeginRollback(p)
  <2>1. /\ job.phase \in {"COMMITTED", "ROLLBACK_REQUIRED"} /\ UNCHANGED history
        /\ job' \in {job, Transition(job, "ROLLBACK_REQUIRED")}
    BY <1>5 DEF BeginRollback, Save
  <2>2. /\ Transition(job, "ROLLBACK_REQUIRED").id = job.id
        /\ Transition(job, "ROLLBACK_REQUIRED").phase = "ROLLBACK_REQUIRED"
    BY <1>0, TransitionFacts
  <2> QED BY <1>5, <2>1, <2>2 DEF JobMove, SameMoves, Late
<1> QED BY <1>1, <1>2, <1>3, <1>4, <1>5

(* Whatever the updater does.                                              *)
LEMMA UpdaterMovesJob ==
  ASSUME UpdateInv, UpdaterNext
  PROVE  JobMove
<1>0. JobInv /\ found \in [cur : Versions, tgt : Versions] /\ job \in Job /\ server \in Versions
  BY DEF UpdateInv, JobInv, JobTypes
<1>1. 1 \in Versions /\ 1 \in Version /\ \A id \in Request : Installed(id) \in Versions
  BY <1>0, UpdateAssumption DEF Installed, Job, Versions, Version
<1>2. CASE RunsOn \/ \E p \in Process : OtherCommands(p)
  <2>1. ASSUME NEW p \in Process, CommandStep(p) PROVE JobMove
    BY <1>0, <2>1, StepMovesJob
  <2>2. ASSUME NEW p \in Process, Enter(p) \/ Refuse(p) \/ Preflight(p) PROVE JobMove
    BY <1>0, <1>1, <2>2, BeginsMoveJob
  <2>3. ASSUME NEW p \in Process, NEW id \in Request, NEW tgt \in Version,
               BeginDownload(p, id, Installed(id), tgt) \/ ImportRelease(p, id, Installed(id), tgt)
        PROVE  JobMove
    BY <1>0, <1>1, <2>3, BeginsMoveJob
  <2> QED BY <1>2, <2>1, <2>2, <2>3 DEF RunsOn, OtherCommands
<1>3. CASE (\E id \in Request : Cancel(id)) \/ ReadHistory \/ Publish \/ (LockAges /\ UNCHANGED jobVars)
           \/ Reject
  BY <1>3 DEF Cancel, ReadHistory, Publish, Reject, updaterVars, jobVars, files, JobMove
<1>4. ASSUME NEW p \in Process, ServePosts(p)
      PROVE  JobMove
  <2>1. BeginBackup(p) \/ BeginApply(p) \/ BeginRollback(p)
    BY <1>4 DEF ServePosts
  <2> QED BY <1>0, <1>1, <2>1, BeginsMoveJob
<1>5. ASSUME NEW p \in Process, AutoEnter(p) \/ AutoDownload(p)
      PROVE  JobMove
  <2>1. ASSUME BeginDownload(p, Automatic[found.tgt], found.cur, found.tgt)
        PROVE  JobMove
    <3>1. found.tgt \in Version /\ found.cur \in Versions
      BY <1>0, <2>1 DEF BeginDownload, JobInv, JobTypes
    <3>2. Automatic[found.tgt] \in Request
      BY <3>1, AutomationAssumption
    <3> QED BY <1>0, <2>1, <3>1, <3>2, BeginsMoveJob
  <2>2. Enter(p) \/ Refuse(p) => JobMove
    BY <1>0, <1>1, BeginsMoveJob
  <2>3. FetchArtifacts(p) \/ PullImages(p) \/ PauseDownload(p) \/ FailDownload(p) => JobMove
    BY <1>0, StepMovesJob DEF CommandStep
  <2> QED BY <1>5, <2>1, <2>2, <2>3 DEF AutoEnter, AutoDownload
<1>6. CASE AutoCheck \/ PruneRead \/ PruneRemove \/ RoundFails \/ AutomationCrash
  BY <1>6 DEF AutoCheck, PruneRead, PruneRemove, RoundFails, AutomationCrash, UpdaterCrash, jobVars, files, JobMove
<1> QED BY <1>2, <1>3, <1>4, <1>5, <1>6 DEF UpdaterNext, AutomationNext

-----------------------------------------------------------------------------
(* What the page knows, has asked for and has read.                        *)

\* The id of the job or of one that was archived.
Known(id) == job.phase # "NONE" /\ (id = job.id \/ Filed(id, history))

\* As far as the job and the page's reading are about id, it was installed.
Installable(id) ==
  /\ id = job.id => job.phase \in Late
  /\ id = seen.id => seen.phase \in Late

\* Every id is a known one, and nothing is asked of an update before its time:
\* a rollback is posted or pending only for a job that was installed, and
\* not while the page waits for that installation.
AskedInv ==
  /\ page \in {"watching", "reopening"} => pending # "none"
  /\ page = "draining" => seen.phase # "NONE"
  /\ seen.phase # "NONE" => Known(seen.id)
  /\ pending # "none" => Known(asked)
  /\ \A post \in posts : Known(post.id) /\ (post.what = "rollback" => Installable(post.id))
  /\ seen.id = job.id /\ seen.phase \in Late => job.phase \in Late
  /\ pending = "rollback" => Installable(asked)
  /\ pending = "install" => \A post \in posts : ~(post.what = "rollback" /\ post.id = asked)

\* The page reopens a job that is at its end, or one that it has not asked for
\* and that no post is for.
ReopenInv ==
  page = "reopening" =>
    /\ Resting
    /\ IF job.id = asked THEN job.phase = IF pending = "install" THEN "COMMITTED" ELSE "ROLLED_BACK"
       ELSE \A post \in posts : post.id # job.id

(* A new job has an id of its own.                                         *)
LEMMA NewIsUnknown ==
  ASSUME NewBegins, OneJobEach, NEW id, Known(id)
  PROVE  job'.id # id
BY DEF NewBegins, OneJobEach, Known, Filed, Archived, Terminal

(* What the page knows stays known.                                        *)
LEMMA KnownStays ==
  ASSUME JobMove, NEW id, Known(id)
  PROVE  job'.phase # "NONE" /\ (id = job'.id \/ Filed(id, history'))
BY DEF JobMove, NewBegins, SameMoves, Known, Filed

(* The updater leaves what the page knows of its jobs true.                *)
LEMMA UpdaterKeepsAsked ==
  ASSUME UpdateInv, AskedInv, OneJobEach, UpdaterNext
  PROVE  AskedInv'
<1>1. JobMove
  BY UpdaterMovesJob
<1>2. UNCHANGED <<page, pending, asked, seen>> /\ posts' \subseteq posts
  BY DEF UpdaterNext, ServePosts, Serve, Reject, pageVars
<1>3. ASSUME NEW id, Known(id), id = job.id => job.phase \in Late
      PROVE  id = job'.id => job'.phase \in Late
  BY <1>1, <1>3, NewIsUnknown DEF JobMove, SameMoves
<1>4. ASSUME NEW id, Known(id), Installable(id)
      PROVE  (id = job'.id => job'.phase \in Late) /\ (id = seen.id => seen.phase \in Late)
  BY <1>3, <1>4 DEF Installable
<1>5. ASSUME NEW id, Known(id)
      PROVE  job'.phase # "NONE" /\ (id = job'.id \/ Filed(id, history'))
  BY <1>1, <1>5, KnownStays
<1>6. seen.id = job'.id /\ seen.phase \in Late => job'.phase \in Late
  BY <1>3 DEF AskedInv, Late
<1> QED BY <1>2, <1>4, <1>5, <1>6 DEF AskedInv, Known, Installable

(* So does the page: it names the job that it has read, and posts again    *)
(* only what is pending.                                                   *)
LEMMA PageKeepsAsked ==
  ASSUME AskedInv, PageNext
  PROVE  AskedInv'
<1>1. UNCHANGED <<job, history>>
  BY DEF PageNext, BeginInstall, NotDrained, EnterMaintenance, BackupDone, BackupUnanswered,
         BeginRollbackOperation, Poll, Reopen, ReopenFails, Expire, RetryRecovery, ResumeNormal, Reload,
         updaterVars, jobVars, files
<1>2. CASE BeginInstall \/ NotDrained \/ Reopen \/ ReopenFails \/ Expire \/ RetryRecovery \/ ResumeNormal
           \/ Reload \/ BackupUnanswered
  BY <1>1, <1>2 DEF BeginInstall, NotDrained, Reopen, ReopenFails, Expire, RetryRecovery, ResumeNormal, Reload,
       BackupUnanswered, View, AskedInv, Known, Installable, Late
<1>3. CASE BeginRollbackOperation
  BY <1>1, <1>3 DEF BeginRollbackOperation, Dispatch, Post, AskedInv, Known, Installable, Late
<1>4. CASE EnterMaintenance \/ BackupDone
  BY <1>1, <1>4 DEF EnterMaintenance, BackupDone, Dispatch, Post, AskedInv, Known, Installable, Late
<1>5. CASE Poll
  <2>1. seen' \in {seen, View(job)} /\ pending # "none"
    BY <1>5 DEF Poll, AskedInv
  <2>2. \/ UNCHANGED <<pending, asked>> /\ posts' \in {posts, posts \cup {Post(pending, asked)}}
        \/ pending' = "none" /\ UNCHANGED posts
    BY <1>5 DEF Poll
  <2>3. page' # "draining" /\ (page' \in {"watching", "reopening"} => pending' # "none")
    BY <1>5, <2>1 DEF Poll
  <2>4. ASSUME NEW id, Installable(id) PROVE Installable(id)'
    BY <1>1, <2>1, <2>4 DEF Installable, View
  <2>5. ASSUME NEW id, Known(id) PROVE Known(id)'
    BY <1>1, <2>5 DEF Known
  <2>6. (seen.phase # "NONE" => Known(seen.id))' /\ (seen.id = job.id /\ seen.phase \in Late => job.phase \in Late)'
    BY <1>1, <2>1 DEF AskedInv, Known, View
  <2>7. ASSUME NEW post \in posts'
        PROVE  post \in posts \/ (post.what = pending /\ post.id = asked /\ pending' = pending /\ asked' = asked)
    BY <2>2 DEF Post
  <2>8. ASSUME NEW post \in posts'
        PROVE  Known(post.id) /\ (post.what = "rollback" => Installable(post.id))
    BY <2>1, <2>7 DEF AskedInv
  <2>9. \A post \in posts' : Known(post.id)' /\ (post.what = "rollback" => Installable(post.id)')
    BY <2>4, <2>5, <2>8
  <2>10. pending' # "none" => pending' = pending /\ asked' = asked
    BY <2>2
  <2>11. (pending # "none" => Known(asked))' /\ (pending = "rollback" => Installable(asked))'
    BY <1>1, <2>1, <2>4, <2>5, <2>10 DEF AskedInv, Known, Installable, View
  <2>12. pending' = "install" => \A post \in posts' : ~(post.what = "rollback" /\ post.id = asked')
    BY <2>7, <2>10 DEF AskedInv
  <2> QED BY <2>3, <2>6, <2>9, <2>11, <2>12 DEF AskedInv
<1> QED BY <1>2, <1>3, <1>4, <1>5 DEF PageNext

LEMMA AskedStep ==
  ASSUME UpdateInv, AskedInv, [OneJobEach]_updateVars, [UpdatesNext]_updateVars
  PROVE  AskedInv'
<1>1. CASE UNCHANGED updateVars
  BY <1>1 DEF updateVars, updaterVars, jobVars, files, pageVars, AskedInv, Known, Installable
<1>2. CASE AcceptWork \/ FinishWork
  BY <1>2 DEF AcceptWork, FinishWork, updaterVars, jobVars, files, AskedInv, Known, Installable
<1>3. CASE PageNext
  BY <1>3, PageKeepsAsked
<1>4. CASE UpdaterNext /\ OneJobEach
  BY <1>4, UpdaterKeepsAsked
<1> QED BY <1>1, <1>2, <1>3, <1>4 DEF UpdatesNext

(* What the updater does before the page reopens leaves a whole release.   *)
LEMMA ReopenUpdater ==
  ASSUME UpdateInv, AskedInv, ReopenInv, OneJobEach, UpdaterNext
  PROVE  ReopenInv'
<1>1. JobMove
  BY UpdaterMovesJob
<1>2. UNCHANGED <<page, pending, asked>> /\ posts' \subseteq posts
  BY DEF UpdaterNext, ServePosts, Serve, Reject, pageVars
<1> SUFFICES ASSUME page = "reopening" PROVE ReopenInv'
  BY <1>2 DEF ReopenInv
<1>4. ASSUME NEW p \in Process, ServePosts(p)
      PROVE  FALSE
  <2>1. PICK post \in posts : post.id = job.id /\ \/ post.what = "backup" /\ BeginBackup(p)
                                                  \/ post.what = "install" /\ BeginApply(p)
                                                  \/ post.what = "rollback" /\ BeginRollback(p)
    BY <1>4 DEF ServePosts, Serve, Post
  <2>2. job.id = asked /\ job.phase = IF pending = "install" THEN "COMMITTED" ELSE "ROLLED_BACK"
    BY <2>1 DEF ReopenInv
  <2>3. post.what = "rollback" /\ BeginRollback(p) /\ pending = "install"
    BY <2>1, <2>2 DEF BeginBackup, BeginApply, BeginRollback, Resumable
  <2> QED BY <2>1, <2>2, <2>3 DEF AskedInv
<1>5. Elsewhere
  BY <1>4, UpdaterElsewhere DEF ReopenInv
<1>6. Resting'
  BY <1>5, ElsewhereRests DEF ReopenInv, UpdateInv, JobInv
<1>7. ASSUME NEW p \in Process, BeginRollback(p)
      PROVE  FALSE
  <2>1. pc[p] = "entered" /\ pc' = [pc EXCEPT ![p] = "restoring app"] /\ pc'[p] = "restoring app"
    BY <1>7 DEF BeginRollback, Goto, UpdateInv, JobInv, JobTypes
  <2>2. "restoring app" \in Touching
    BY DEF Touching, Restoring
  <2> QED BY <1>5, <2>1, <2>2 DEF Elsewhere, UpdateInv, JobInv, JobTypes
<1>8. CASE job' = job
  BY <1>2, <1>6, <1>8 DEF ReopenInv
<1>9. CASE NewBegins
  <2>1. job'.id # asked
    BY <1>9, NewIsUnknown DEF AskedInv
  <2>2. \A post \in posts : post.id # job'.id
    BY <1>9, NewIsUnknown DEF AskedInv
  <2> QED BY <1>2, <1>6, <2>1, <2>2 DEF ReopenInv
<1>10. CASE SameMoves
  <2>1. job.phase \notin Terminal
    BY <1>7, <1>10 DEF SameMoves
  <2>2. job.id # asked /\ \A post \in posts : post.id # job.id
    BY <2>1 DEF ReopenInv, Terminal
  <2> QED BY <1>2, <1>6, <1>10, <2>2 DEF SameMoves, ReopenInv
<1> QED BY <1>1, <1>8, <1>9, <1>10 DEF JobMove

(* Every step keeps what the page has read.                                *)
LEMMA ReopenStep ==
  ASSUME UpdateInv, AskedInv, ReopenInv, [OneJobEach]_updateVars, [UpdatesNext]_updateVars
  PROVE  ReopenInv'
<1>1. CASE UNCHANGED updateVars
  BY <1>1 DEF updateVars, updaterVars, jobVars, installed, files, pageVars, ReopenInv, Resting
<1>2. CASE AcceptWork \/ FinishWork
  BY <1>2 DEF AcceptWork, FinishWork, updaterVars, jobVars, installed, files, ReopenInv, Resting
<1>3. CASE Poll
  <2>1. UNCHANGED <<job, app, server, env, pc>> /\ page = "watching"
    BY <1>3 DEF Poll, updaterVars, jobVars, installed, files
  <2>2. page' = "reopening" => job.id = asked /\ Succeeded /\ UNCHANGED <<pending, asked>>
    BY <1>3, <2>1 DEF Poll
  <2>3. page' = "reopening" => Resting
    BY <2>2, SucceededRests DEF Succeeded, Terminal
  <2> QED BY <2>1, <2>2, <2>3 DEF ReopenInv, Resting, Succeeded
<1>4. CASE PageNext /\ ~Poll
  <2>1. page' # "reopening"
    BY <1>4 DEF PageNext, BeginInstall, NotDrained, EnterMaintenance, Dispatch, BackupDone,
       BackupUnanswered, BeginRollbackOperation, Reopen, ReopenFails, Expire, RetryRecovery, ResumeNormal, Reload
  <2> QED BY <2>1 DEF ReopenInv
<1>5. CASE UpdaterNext /\ OneJobEach
  BY <1>5, ReopenUpdater
<1> QED BY <1>1, <1>2, <1>3, <1>4, <1>5 DEF UpdatesNext

(* What the page itself puts back to normal is one whole release, and no   *)
(* command is changing it (Updates.vue: recoverPendingOperation), however  *)
(* many updates there were, whatever is downloaded or checked in between,  *)
(* and whichever posts of the page arrive late: as long as one command     *)
(* runs at a time and a request id is used for one job.                    *)
THEOREM ReopenedWhole ==
  UpdatesSpec /\ []Alone /\ [][OneJobEach]_updateVars => ReopensWhole
<1>1. PageInit => AskedInv /\ ReopenInv
  <2>1. PageInit => job = NoJob /\ seen = View(NoJob) /\ posts = {} /\ page = "ready" /\ pending = "none"
    BY DEF PageInit, AutomationInit, UpdateJobInit
  <2>2. NoJob.phase = "NONE"
    BY NewJobFacts, UpdateAssumption DEF NoJob, NewJob
  <2> QED BY <2>1, <2>2 DEF View, AskedInv, ReopenInv, Late
<1>2. UpdateInv /\ AskedInv /\ ReopenInv /\ [UpdatesNext]_updateVars /\ [OneJobEach]_updateVars
      => AskedInv' /\ ReopenInv'
  BY AskedStep, ReopenStep
<1>3. ReopenInv =>
      [page = "reopening" /\ page' = "ready" =>
         /\ app = server /\ server = env
         /\ \A p \in Process : pc[p] \notin Changing]_updateVars
  <2>1. Changing \subseteq Touching
    BY DEF Changing, Touching, Applying
  <2> QED BY <2>1 DEF ReopenInv, Resting
<1> QED BY <1>1, <1>2, <1>3, UpdateInvariant, PTL DEF UpdatesSpec, ReopensWhole
=============================================================================
