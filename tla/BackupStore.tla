------------------------------ MODULE BackupStore ------------------------------
(***************************************************************************)
(* backup create: a backup is written into a hidden partial directory and  *)
(* renamed when its manifest is written, then the job is saved with its    *)
(* id.  A dump takes longer than the lock stays fresh, so a second command *)
(* may take the lock over and run beside the first one; each works on its  *)
(* own copy of the job.  Ids have the second they were created in.         *)
(***************************************************************************)
EXTENDS Integers

CONSTANTS
  Backuper,   \* commands that may run at once
  MaxSecond   \* bounds the clock

ASSUME BackupAssumption == MaxSecond \in Nat

VARIABLES
  backups,    \* the visible directories: id -> the files in it
  partial,    \* per command: the files in its partial directory
  backupId,   \* per command: the id it has chosen, or NoId
  writing,    \* per command: "out", "dumping", "checked", "renamed"
  second,     \* the clock
  left,       \* a partial directory was left behind
  jobPhase, jobBackup \* state.json

backupVars == <<backups, partial, backupId, writing, second, left, jobPhase, jobBackup>>

NoId == 0 - 1
Volumes == {"volume-rustfs-data.tar.gz", "volume-pdf-data.tar.gz", "volume-output.tar.gz"}
DatabaseDump == "database.sql"
FilesArchive == "files.tar.gz"
BackupManifest == "manifest.json"
BackupFiles == Volumes \cup {DatabaseDump, FilesArchive, BackupManifest}

(* Verify: the manifest is there and so is every artifact that it lists.   *)
VerifiedBackup(files) == BackupManifest \in files /\ {DatabaseDump, FilesArchive} \subseteq files
CompleteBackup(files) == Volumes \subseteq files

BackupInit ==
  /\ backups = [id \in {} |-> {}]
  /\ partial = [b \in Backuper |-> {}] /\ backupId = [b \in Backuper |-> NoId]
  /\ writing = [b \in Backuper |-> "out"]
  /\ second = 0 /\ left = FALSE
  /\ jobPhase = "PRECHECKED" /\ jobBackup = NoId

Ends(b) ==
  /\ writing' = [writing EXCEPT ![b] = "out"]
  /\ backupId' = [backupId EXCEPT ![b] = NoId]
  /\ partial' = [partial EXCEPT ![b] = {}]

(* prepareBackupJob, and the choice of the id.                             *)
StartBackup(b) ==
  /\ writing[b] = "out" /\ jobPhase \in {"PRECHECKED", "BACKING_UP", "FAILED"}
  /\ jobPhase' = "BACKING_UP"
  /\ writing' = [writing EXCEPT ![b] = "dumping"]
  /\ backupId' = [backupId EXCEPT ![b] = second]
  /\ UNCHANGED <<backups, partial, second, left, jobBackup>>

(* The database, then the files, then the volumes, then the manifest.      *)
Following(files) ==
  CASE DatabaseDump \notin files -> {DatabaseDump}
    [] DatabaseDump \in files /\ FilesArchive \notin files -> {FilesArchive}
    [] FilesArchive \in files /\ ~CompleteBackup(files) -> Volumes \ files
    [] OTHER -> {BackupManifest} \ files

WriteFile(b, name) ==
  /\ writing[b] = "dumping" /\ name \in Following(partial[b])
  /\ partial' = [partial EXCEPT ![b] = @ \cup {name}]
  /\ UNCHANGED <<backups, backupId, writing, second, left, jobPhase, jobBackup>>

CheckNothing(b) ==
  /\ writing[b] = "dumping" /\ backupId[b] \notin DOMAIN backups
  /\ writing' = [writing EXCEPT ![b] = "checked"]
  /\ UNCHANGED <<backups, partial, backupId, second, left, jobPhase, jobBackup>>

(* os.Stat of the final directory, then os.Rename, which does not replace  *)
(* a directory that has files.                                             *)
CheckFinal(b) ==
  /\ writing[b] = "dumping" /\ BackupManifest \in partial[b] /\ backupId[b] \notin DOMAIN backups
  /\ writing' = [writing EXCEPT ![b] = "checked"]
  /\ UNCHANGED <<backups, partial, backupId, second, left, jobPhase, jobBackup>>

RenameFinal(b) ==
  /\ writing[b] = "checked" /\ backupId[b] \notin DOMAIN backups
  /\ backups' = [id \in DOMAIN backups \cup {backupId[b]} |->
                   IF id = backupId[b] THEN partial[b] ELSE backups[id]]
  /\ partial' = [partial EXCEPT ![b] = {}]
  /\ writing' = [writing EXCEPT ![b] = "renamed"]
  /\ UNCHANGED <<backupId, second, left, jobPhase, jobBackup>>

(* A failure before the rename removes the partial directory; an id that   *)
(* is taken, or a backup that cannot be verified, is a failure too.        *)
BackupFails(b) ==
  /\ writing[b] # "out"
  /\ jobPhase' = "FAILED" /\ Ends(b)
  /\ UNCHANGED <<backups, second, left, jobBackup>>

FinishBackup(b) ==
  /\ writing[b] = "renamed"
  /\ VerifiedBackup(backups[backupId[b]]) /\ CompleteBackup(backups[backupId[b]])
  /\ jobPhase' = "BACKED_UP" /\ jobBackup' = backupId[b]
  /\ Ends(b)
  /\ UNCHANGED <<backups, second, left>>

CrashBackups ==
  /\ left' = (left \/ \E b \in Backuper : partial[b] # {})
  /\ writing' = [b \in Backuper |-> "out"] /\ backupId' = [b \in Backuper |-> NoId]
  /\ partial' = [b \in Backuper |-> {}]
  /\ UNCHANGED <<backups, second, jobPhase, jobBackup>>

SecondPasses ==
  /\ second < MaxSecond /\ second' = second + 1
  /\ UNCHANGED <<backups, partial, backupId, writing, left, jobPhase, jobBackup>>

BackupNext ==
  \/ \E b \in Backuper : StartBackup(b) \/ CheckFinal(b) \/ RenameFinal(b) \/ BackupFails(b)
                         \/ FinishBackup(b) \/ \E name \in BackupFiles : WriteFile(b, name)
  \/ CrashBackups \/ SecondPasses

BackupSpec == BackupInit /\ [][BackupNext]_backupVars

(* Whatever fails, crashes or runs twice, a directory that is visible is a *)
(* whole backup, and a job that is BACKED_UP names one that exists.        *)
BackupsWhole ==
  /\ \A id \in DOMAIN backups : VerifiedBackup(backups[id]) /\ CompleteBackup(backups[id])
  /\ jobPhase = "BACKED_UP" => jobBackup \in DOMAIN backups
=============================================================================
