---------------------------- MODULE ReleaseProofs ----------------------------
(***************************************************************************)
(* What the updater keeps on disk.  A visible backup is a whole one, for   *)
(* any number of commands that run at once, fail or die; and a release     *)
(* directory that was verified stays what its publisher signed, for any    *)
(* releases and keys, whatever the channel serves and wherever a command   *)
(* is interrupted.                                                         *)
(***************************************************************************)
EXTENDS ReleaseDownload, BackupStore, TLAPS

Whole(files) == VerifiedBackup(files) /\ CompleteBackup(files)

BackupTypes ==
  /\ partial \in [Backuper -> SUBSET BackupFiles]
  /\ backupId \in [Backuper -> Int]
  /\ writing \in [Backuper -> {"out", "dumping", "checked", "renamed"}]

\* The manifest is written last, and the final name is looked up after it.
ManifestLast == \A b \in Backuper :
  /\ BackupManifest \in partial[b] => Whole(partial[b])
  /\ writing[b] = "checked" => BackupManifest \in partial[b]

\* Nothing removes a directory once it is visible.
RenamedStays ==
  /\ \A b \in Backuper : writing[b] = "renamed" => backupId[b] \in DOMAIN backups
  /\ \A id \in DOMAIN backups : Whole(backups[id])
  /\ jobPhase = "BACKED_UP" => jobBackup \in DOMAIN backups

BackupInv == BackupTypes /\ second \in Int /\ ManifestLast /\ RenamedStays

-----------------------------------------------------------------------------
(* There is no backup at first.                                            *)
LEMMA InitBackups == BackupInit => BackupInv
BY DEF BackupInit, BackupInv, BackupTypes, ManifestLast, RenamedStays, NoId, BackupManifest

(* The file that follows is the manifest only when every other is there.   *)
LEMMA FollowingWhole ==
  ASSUME NEW files \in SUBSET BackupFiles, NEW name \in Following(files),
         BackupManifest \in files => Whole(files)
  PROVE  BackupManifest \in files \cup {name} => Whole(files \cup {name})
<1> USE DEF Whole, VerifiedBackup, CompleteBackup
<1>1. CASE BackupManifest \in files
  BY <1>1
<1>2. CASE BackupManifest \notin files /\ name = BackupManifest
  <2>1. DatabaseDump \in files
    BY <1>2 DEF Following, DatabaseDump, FilesArchive, BackupManifest, Volumes
  <2>2. FilesArchive \in files
    BY <1>2, <2>1 DEF Following, DatabaseDump, FilesArchive, BackupManifest, Volumes
  <2>3. Volumes \subseteq files
    BY <1>2, <2>1, <2>2 DEF Following, DatabaseDump, FilesArchive, BackupManifest, Volumes
  <2> QED BY <1>2, <2>1, <2>2, <2>3
<1> QED BY <1>1, <1>2

(* A command's steps before its backup is visible.                         *)
LEMMA WritingKeeps ==
  ASSUME BackupInv, NEW b \in Backuper, NEW name \in BackupFiles,
         StartBackup(b) \/ WriteFile(b, name) \/ CheckFinal(b) \/ BackupFails(b)
  PROVE  BackupInv'
<1> USE DEF BackupInv
<1>1. CASE StartBackup(b)
  BY <1>1 DEF StartBackup, BackupTypes, ManifestLast, RenamedStays
<1>2. CASE WriteFile(b, name)
  <2>1. BackupTypes' /\ RenamedStays' /\ second' \in Int
    BY <1>2 DEF WriteFile, BackupTypes, RenamedStays
  <2>2. partial'[b] = partial[b] \cup {name} /\ \A c \in Backuper \ {b} : partial'[c] = partial[c]
    BY <1>2 DEF WriteFile, BackupTypes
  <2>3. BackupManifest \in partial'[b] => Whole(partial'[b])
    BY <1>2, <2>2, FollowingWhole DEF WriteFile, BackupTypes, ManifestLast
  <2>4. ManifestLast'
    BY <1>2, <2>2, <2>3 DEF WriteFile, ManifestLast
  <2> QED BY <2>1, <2>4
<1>3. CASE CheckFinal(b)
  BY <1>3 DEF CheckFinal, BackupTypes, ManifestLast, RenamedStays
<1>4. CASE BackupFails(b)
  BY <1>4 DEF BackupFails, Ends, BackupTypes, ManifestLast, RenamedStays, NoId, BackupManifest
<1> QED BY <1>1, <1>2, <1>3, <1>4

(* The rename makes a whole backup visible, and the job names it after.    *)
LEMMA VisibleKeeps ==
  ASSUME BackupInv, NEW b \in Backuper, RenameFinal(b) \/ FinishBackup(b)
  PROVE  BackupInv'
<1> USE DEF BackupInv
<1>1. CASE RenameFinal(b)
  <2>1. Whole(partial[b])
    BY <1>1 DEF RenameFinal, ManifestLast
  <2>2. BackupTypes' /\ second' \in Int
    BY <1>1 DEF RenameFinal, BackupTypes
  <2>3. DOMAIN backups' = DOMAIN backups \cup {backupId[b]}
    BY <1>1 DEF RenameFinal
  <2>4. \A id \in DOMAIN backups' : Whole(backups'[id])
    BY <1>1, <2>1, <2>3 DEF RenameFinal, RenamedStays
  <2>5. ManifestLast'
    BY <1>1 DEF RenameFinal, BackupTypes, ManifestLast, BackupManifest
  <2>6. RenamedStays'
    BY <1>1, <2>3, <2>4 DEF RenameFinal, BackupTypes, RenamedStays
  <2> QED BY <2>2, <2>5, <2>6
<1>2. CASE FinishBackup(b)
  BY <1>2 DEF FinishBackup, Ends, BackupTypes, ManifestLast, RenamedStays, NoId, BackupManifest
<1> QED BY <1>1, <1>2

(* Every step keeps the invariant.                                         *)
LEMMA NextBackups == BackupInv /\ [BackupNext]_backupVars => BackupInv'
<1> SUFFICES ASSUME BackupInv, [BackupNext]_backupVars PROVE BackupInv'
  OBVIOUS
<1>1. CASE \E b \in Backuper : \/ StartBackup(b) \/ CheckFinal(b) \/ BackupFails(b)
                               \/ \E name \in BackupFiles : WriteFile(b, name)
  <2>1. BackupManifest \in BackupFiles
    BY DEF BackupFiles
  <2> QED BY <1>1, <2>1, WritingKeeps
<1>2. CASE \E b \in Backuper : RenameFinal(b) \/ FinishBackup(b)
  BY <1>2, VisibleKeeps
<1>3. CASE CrashBackups
  BY <1>3 DEF CrashBackups, BackupInv, BackupTypes, ManifestLast, RenamedStays, NoId, BackupManifest
<1>4. CASE SecondPasses
  BY <1>4 DEF SecondPasses, BackupInv, BackupTypes, ManifestLast, RenamedStays
<1>5. CASE UNCHANGED backupVars
  BY <1>5 DEF backupVars, BackupInv, BackupTypes, ManifestLast, RenamedStays
<1> QED BY <1>1, <1>2, <1>3, <1>4, <1>5 DEF BackupNext

(* Whatever fails, crashes or runs twice, a visible directory is a whole   *)
(* backup and the job's backup exists.                                     *)
THEOREM BackupsSound == BackupSpec => []BackupsWhole
<1>1. BackupInv => BackupsWhole
  BY DEF BackupInv, RenamedStays, BackupsWhole, Whole
<1> QED BY <1>1, InitBackups, NextBackups, PTL DEF BackupSpec

-----------------------------------------------------------------------------
(* Release directories.                                                    *)

(* No artifact has the name of the manifest or of the signature.           *)
Named(m) == \A a \in Artifacts(m) : a.path \notin {ManifestFile, SignatureFile}

\* What the command holds at each place; once a directory is verified, a
\* command that got past its metadata holds the bundle that is there.
HeldInv ==
  /\ at # "idle" => Named(held.manifest) /\ DOMAIN held = {"manifest", "signature"}
  /\ at \in {"metadata", "artifacts", "receiving"} => VerifySignature(held.manifest, held.signature, Trusted)
  /\ at = "artifacts" => missing \subseteq Artifacts(held.manifest)
  /\ at = "receiving" => missing \subseteq Artifacts(held.manifest) /\ verified = NoBundle
  /\ at = "artifacts" /\ verified # NoBundle =>
       held.manifest = verified.manifest /\ held.signature = verified.signature

DownloadInv ==
  /\ Named(site.manifest) /\ HeldInv
  /\ verified # NoBundle => Named(verified.manifest)
  /\ VerifiedStays

(* Three names.                                                            *)
LEMMA MetadataNames == ManifestFile # SignatureFile /\ "checksums.txt" \notin {ManifestFile, SignatureFile}
BY Zenon DEF ManifestFile, SignatureFile

(* What the publisher builds names its artifacts as its spec does.         *)
LEMMA BuiltNamed ==
  ASSUME NEW spec \in Spec
  PROVE  Named(BuiltManifest(spec))
<1>1. "files" \in DOMAIN spec /\ \A s \in DOMAIN spec.files : spec.files[s].path \notin {ManifestFile, SignatureFile}
  BY DownloadAssumption
<1>2. CASE DOMAIN spec.files = {}
  BY <1>1, <1>2 DEF BuiltManifest, Named, Artifacts
<1>3. CASE DOMAIN spec.files # {}
  <2> DEFINE listed == Describe("checksums.txt", Checksums(Artifacts(spec)))
             files == [s \in DOMAIN spec.files \cup {"checksums"} |-> IF s = "checksums" THEN listed ELSE spec.files[s]]
  <2>1. BuiltManifest(spec) = [spec EXCEPT !.files = files]
    BY <1>3 DEF BuiltManifest
  <2>2. listed.path = "checksums.txt"
    BY DEF Describe
  <2> HIDE DEF listed
  <2>3. \A s \in DOMAIN files : files[s].path \notin {ManifestFile, SignatureFile}
    BY <1>1, <2>2, MetadataNames
  <2> HIDE DEF files
  <2>4. BuiltManifest(spec).files = files
    BY <1>1, <2>1
  <2> QED BY <2>3, <2>4 DEF Named, Artifacts
<1> QED BY <1>2, <1>3

(* The files of a release directory, each with its content.                *)
LEMMA DeclaredFiles ==
  ASSUME NEW m, NEW signature, ArtifactsAgree(m), Named(m)
  PROVE  LET declared == Declared(m, signature) IN
         /\ {ManifestFile, SignatureFile} \subseteq DOMAIN declared
         /\ declared[ManifestFile] = m /\ declared[SignatureFile] = signature
         /\ \A a \in Artifacts(m) : a.path \in DOMAIN declared /\ declared[a.path] = a.content
<1> DEFINE D == Declared(m, signature)
           names == {ManifestFile, SignatureFile} \cup {a.path : a \in Artifacts(m)}
           picked(p) == CHOOSE a \in Artifacts(m) : a.path = p
           entry(p) == CASE p = ManifestFile -> m [] p = SignatureFile -> signature [] OTHER -> picked(p).content
<1>1. D = [p \in names |-> entry(p)]
  BY Zenon DEF Declared
<1>2. entry(ManifestFile) = m /\ entry(SignatureFile) = signature
  BY MetadataNames, ZenonT(60)
<1>3. ASSUME NEW a \in Artifacts(m)
      PROVE  entry(a.path) = a.content
  <2>1. a.path # ManifestFile /\ a.path # SignatureFile
    BY DEF Named
  <2>2. entry(a.path) = picked(a.path).content
    BY <2>1, ZenonT(60)
  <2> DEFINE b == picked(a.path)
  <2>3. b \in Artifacts(m) /\ b.path = a.path
    OBVIOUS
  <2> HIDE DEF b
  <2>4. b = a
    BY <2>3 DEF Artifacts, ArtifactsAgree
  <2> QED BY <2>2, <2>4 DEF b
<1> HIDE DEF entry
<1> QED BY <1>1, <1>2, <1>3

(* In a verified directory are the manifest, the signature, and every      *)
(* artifact with its content.                                              *)
LEMMA VerifiedFiles ==
  ASSUME NEW d, NEW m, NEW signature, VerifyBundle(d, m, signature), Named(m)
  PROVE  /\ ArtifactsAgree(m)
         /\ ManifestFile \in DOMAIN d /\ d[ManifestFile] = m
         /\ SignatureFile \in DOMAIN d /\ d[SignatureFile] = signature
         /\ \A a \in Artifacts(m) : a.path \in DOMAIN d /\ d[a.path] = a.content
<1>1. ArtifactsAgree(m)
  BY DEF VerifyBundle
<1>2. \A p \in DOMAIN Declared(m, signature) : p \in DOMAIN d /\ d[p] = Declared(m, signature)[p]
  BY DEF VerifyBundle
<1> QED BY <1>1, <1>2, DeclaredFiles

(* What is written again as it is leaves a verified directory verified.    *)
LEMMA WrittenAgain ==
  ASSUME NEW d, NEW m, NEW signature, VerifyBundle(d, m, signature), NEW p \in DOMAIN d
  PROVE  VerifyBundle(With(d, p, d[p]), m, signature)
<1>1. DOMAIN With(d, p, d[p]) = DOMAIN d /\ \A q \in DOMAIN d : With(d, p, d[p])[q] = d[q]
  BY DEF With
<1> QED BY <1>1 DEF VerifyBundle

(* The publisher has built a release whose artifacts are named.            *)
LEMMA DownloadStarts == DownloadInit => DownloadInv
<1> SUFFICES ASSUME DownloadInit PROVE DownloadInv
  OBVIOUS
<1>1. PICK spec \in Spec, key \in Key : site = Build(spec, key)
  BY DEF DownloadInit
<1>2. Named(site.manifest)
  BY <1>1, BuiltNamed DEF Build
<1> QED BY <1>2 DEF DownloadInit, DownloadInv, HeldInv, VerifiedStays


(* A step that leaves the command, the directory and the bundle last       *)
(* verified alone, or ends the command.                                    *)
LEMMA DownloadRests ==
  ASSUME DownloadInv, Named(site.manifest)', UNCHANGED <<dir, verified>>,
         Fail \/ UNCHANGED <<at, held, missing>>
  PROVE  DownloadInv'
BY DEF DownloadInv, HeldInv, VerifiedStays, Fail

(* The channel changes, and the bundle is fetched.                         *)
LEMMA FetchKeeps ==
  ASSUME DownloadInv, Republish \/ FetchManifest \/ FetchSignature \/ Interrupt
  PROVE  DownloadInv'
<1>1. CASE Republish
  <2>1. Named(site.manifest)'
    BY <1>1, BuiltNamed DEF Republish, Build
  <2> QED BY <1>1, <2>1, DownloadRests DEF Republish
<1>2. CASE FetchManifest
  <2>1. held'.manifest = site.manifest /\ DOMAIN held' = {"manifest", "signature"}
    BY <1>2 DEF FetchManifest, NoBundle
  <2> QED BY <1>2, <2>1 DEF FetchManifest, DownloadInv, HeldInv, VerifiedStays
<1>3. CASE FetchSignature
  <2> DEFINE bundle == [held EXCEPT !.signature = site.signature]
  <2>1. DOMAIN held = {"manifest", "signature"} /\ Named(held.manifest) /\ at = "signature"
    BY <1>3 DEF FetchSignature, DownloadInv, HeldInv
  <2>2. bundle.manifest = held.manifest /\ DOMAIN bundle = {"manifest", "signature"}
    BY <2>1
  <2>3. UNCHANGED <<site, dir, missing, verified>>
    BY <1>3 DEF FetchSignature
  <2>4. CASE Accepted(bundle) /\ at' = "metadata" /\ held' = bundle
    <3>1. VerifySignature(bundle.manifest, bundle.signature, Trusted)
      BY <2>4 DEF Accepted
    <3> HIDE DEF bundle
    <3> QED BY <2>1, <2>2, <2>3, <2>4, <3>1 DEF DownloadInv, HeldInv, VerifiedStays
  <2>5. CASE at' = "idle" /\ held' = NoBundle
    <3> QED BY <2>1, <2>3, <2>5 DEF DownloadInv, HeldInv, VerifiedStays
  <2> QED BY <1>3, <2>4, <2>5 DEF FetchSignature
<1>4. CASE Interrupt
  BY <1>4, DownloadRests DEF Interrupt, DownloadInv
<1> QED BY <1>1, <1>2, <1>3, <1>4

(* The metadata is written.  In a verified directory only the bundle that  *)
(* is there gets past it, and it changes nothing.                          *)
LEMMA MetadataKeeps ==
  ASSUME DownloadInv, WriteMetadata \/ CrashInMetadata
  PROVE  DownloadInv'
<1> DEFINE v == verified
<1>0. at = "metadata" /\ Named(held.manifest) /\ VerifySignature(held.manifest, held.signature, Trusted)
      /\ UNCHANGED <<site, verified>> /\ DOMAIN held = {"manifest", "signature"}
  BY DEF WriteMetadata, CrashInMetadata, DownloadInv, HeldInv
<1>1. v # NoBundle => /\ VerifyBundle(dir, v.manifest, v.signature)
                      /\ VerifySignature(v.manifest, v.signature, Trusted) /\ Named(v.manifest)
                      /\ ManifestFile \in DOMAIN dir /\ dir[ManifestFile] = v.manifest
                      /\ SignatureFile \in DOMAIN dir /\ dir[SignatureFile] = v.signature
  BY VerifiedFiles DEF DownloadInv, VerifiedStays
<1>2. CASE CrashInMetadata
  <2>1. v = NoBundle /\ Fail
    BY <1>1, <1>2 DEF CrashInMetadata
  <2> QED BY <1>0, <2>1 DEF Fail, DownloadInv, HeldInv, VerifiedStays
<1>3. CASE WriteMetadata /\ (Differs(ManifestFile, held.manifest) \/ Differs(SignatureFile, held.signature))
  <2>1. Fail /\ dir' = IF Differs(ManifestFile, held.manifest) THEN dir ELSE With(dir, ManifestFile, held.manifest)
    BY <1>3 DEF WriteMetadata
  <2>2. v # NoBundle => VerifyBundle(dir', v.manifest, v.signature)
    <3>1. CASE Differs(ManifestFile, held.manifest)
      BY <1>1, <2>1, <3>1
    <3>2. CASE ~Differs(ManifestFile, held.manifest)
      BY <1>1, <2>1, <3>2, WrittenAgain DEF Differs
    <3> QED BY <3>1, <3>2
  <2> QED BY <1>0, <1>1, <2>1, <2>2 DEF Fail, DownloadInv, HeldInv, VerifiedStays
<1>4. CASE WriteMetadata /\ ~Differs(ManifestFile, held.manifest) /\ ~Differs(SignatureFile, held.signature)
  <2>1. /\ dir' = With(With(dir, ManifestFile, held.manifest), SignatureFile, held.signature)
        /\ at' = "artifacts" /\ missing' = Artifacts(held.manifest) /\ UNCHANGED held
    BY <1>4 DEF WriteMetadata
  <2>2. v # NoBundle => held.manifest = v.manifest /\ held.signature = v.signature
    BY <1>1, <1>4 DEF Differs
  <2>3. ASSUME v # NoBundle
        PROVE  VerifyBundle(dir', v.manifest, v.signature)
    <3> DEFINE first == With(dir, ManifestFile, dir[ManifestFile])
    <3>1. VerifyBundle(first, v.manifest, v.signature)
      BY <1>1, <2>3, WrittenAgain
    <3>2. dir' = With(first, SignatureFile, v.signature)
      BY <1>1, <2>1, <2>2, <2>3
    <3> HIDE DEF first
    <3>3. SignatureFile \in DOMAIN first /\ first[SignatureFile] = v.signature
      BY <1>1, <2>3, <3>1, VerifiedFiles
    <3> QED BY <3>1, <3>2, <3>3, WrittenAgain
  <2> QED BY <1>0, <1>1, <2>1, <2>2, <2>3 DEF DownloadInv, HeldInv, VerifiedStays
<1> QED BY <1>2, <1>3, <1>4

(* The artifacts.  In a verified directory none is asked for.              *)
LEMMA ArtifactsKeep ==
  ASSUME DownloadInv,
         \/ \E a \in missing : SkipArtifact(a) \/ Request(a)
         \/ Receive \/ CommitArtifact
  PROVE  DownloadInv'
<1>1. ASSUME NEW a \in missing, SkipArtifact(a)
      PROVE  DownloadInv'
  BY <1>1 DEF SkipArtifact, DownloadInv, HeldInv, VerifiedStays
<1>2. ASSUME NEW a \in missing, Request(a)
      PROVE  DownloadInv'
  <2>1. verified = NoBundle
    <3> SUFFICES ASSUME verified # NoBundle PROVE FALSE
      OBVIOUS
    <3>1. at = "artifacts" /\ ~Valid(a.path, a)
      BY <1>2 DEF Request
    <3>2. a \in Artifacts(verified.manifest)
      BY <3>1 DEF DownloadInv, HeldInv
    <3>3. a.path \in DOMAIN dir /\ dir[a.path] = a.content
      BY <3>2, VerifiedFiles DEF DownloadInv, VerifiedStays
    <3> QED BY <3>1, <3>3 DEF Valid
  <2>2. /\ UNCHANGED <<site, verified>> /\ at = "artifacts"
        /\ Fail \/ (at' = "receiving" /\ UNCHANGED <<held, missing>>)
    BY <1>2 DEF Request
  <2> QED BY <2>1, <2>2 DEF Fail, DownloadInv, HeldInv, VerifiedStays
<1>3. CASE Receive
  BY <1>3 DEF Receive, DownloadInv, HeldInv, VerifiedStays
<1>4. CASE CommitArtifact
  <2> DEFINE a == body.artifact
  <2>1. /\ UNCHANGED <<site, verified>> /\ at = "receiving"
        /\ Fail \/ (at' = "artifacts" /\ missing' = missing \ {a} /\ UNCHANGED held)
    BY <1>4, ZenonT(60) DEF CommitArtifact
  <2> QED BY <2>1 DEF Fail, DownloadInv, HeldInv, VerifiedStays
<1> QED BY <1>1, <1>2, <1>3, <1>4

(* A directory is verified, after a download or an import.                 *)
LEMMA VerifyKeeps ==
  ASSUME DownloadInv, VerifyDownload \/ Import
  PROVE  DownloadInv'
<1>1. CASE VerifyDownload
  <2>1. /\ Fail /\ UNCHANGED <<site, dir>> /\ at = "artifacts"
        /\ verified' = IF VerifyBundle(dir, held.manifest, held.signature) THEN held ELSE verified
    BY <1>1 DEF VerifyDownload
  <2>2. CASE VerifyBundle(dir, held.manifest, held.signature)
    BY <2>1, <2>2 DEF Fail, DownloadInv, HeldInv, VerifiedStays
  <2>3. CASE ~VerifyBundle(dir, held.manifest, held.signature)
    BY <2>1, <2>3 DEF Fail, DownloadInv, HeldInv, VerifiedStays
  <2> QED BY <2>2, <2>3
<1>2. CASE Import
  <2>1. PICK spec \in Spec, key \in Key :
          LET bundle == Build(spec, key)
              m == bundle.manifest
          IN /\ Buildable(spec) /\ Packable(bundle)
             /\ VerifySignature(m, bundle.signature, Trusted)
             /\ \/ dir = Empty /\ dir' = Unpacked(bundle)
                \/ dir # Empty /\ VerifyBundle(dir, m, bundle.signature) /\ UNCHANGED dir
             /\ verified' = bundle
    BY <1>2 DEF Import
  <2>2. UNCHANGED <<site, at, held, missing>> /\ at = "idle"
    BY <1>2 DEF Import
  <2> DEFINE bundle == Build(spec, key)
  <2>3. bundle.manifest = BuiltManifest(spec) /\ Named(bundle.manifest)
    BY BuiltNamed DEF Build
  <2>4. VerifyBundle(dir', bundle.manifest, bundle.signature)
    <3>1. CASE dir' = Unpacked(bundle)
      <4>1. ArtifactsAgree(bundle.manifest)
        BY <2>1, <2>3 DEF Buildable, Validate
      <4> QED BY <3>1, <4>1 DEF VerifyBundle, Unpacked
    <3> QED BY <2>1, <3>1
  <2>5. verified' = bundle /\ VerifySignature(bundle.manifest, bundle.signature, Trusted)
    BY <2>1
  <2> HIDE DEF bundle
  <2> QED BY <2>2, <2>3, <2>4, <2>5 DEF DownloadInv, HeldInv, VerifiedStays
<1> QED BY <1>1, <1>2

(* Every step keeps the invariant.                                         *)
LEMMA DownloadKeeps == DownloadInv /\ [DownloadNext]_downloadVars => DownloadInv'
<1> SUFFICES ASSUME DownloadInv, [DownloadNext]_downloadVars PROVE DownloadInv'
  OBVIOUS
<1>1. CASE UNCHANGED downloadVars
  BY <1>1, DownloadRests DEF downloadVars, DownloadInv
<1> QED BY <1>1, FetchKeeps, MetadataKeeps, ArtifactsKeep, VerifyKeeps DEF DownloadNext, DownloadStep

(* The inductive invariant of a release directory holds.                   *)
THEOREM DownloadInvariant == DownloadSpec => []DownloadInv
BY DownloadStarts, DownloadKeeps, PTL DEF DownloadSpec

(* A verified directory stays what its publisher signed.                   *)
THEOREM VerifiedKept == DownloadSpec => []VerifiedStays
<1>1. DownloadInv => VerifiedStays
  BY DEF DownloadInv
<1> QED BY <1>1, DownloadInvariant, PTL

-----------------------------------------------------------------------------
(* Partial files.                                                          *)

\* A partial file is what has come of a content.
PartialFile(x) == x = [content |-> x.content, size |-> x.size] /\ x.size \in Nat
Partials(d) == \A a \in Published : Part(a.path) \in DOMAIN d => PartialFile(d[Part(a.path)])

\* The artifact that is being received is one of the bundle, its body one
\* that somebody published, and its partial file is there and not too large.
PartialInv ==
  /\ site.manifest \in Built /\ (at # "idle" => held.manifest \in Built)
  /\ Partials(dir)
  /\ at \in {"signature", "metadata"} => missing = {}
  /\ at = "receiving" => /\ body.artifact \in Published /\ SizeOf(body.content) \in Nat
                         /\ Part(body.artifact.path) \in DOMAIN dir
  /\ DownloadTypeOK

(* Writing a file of another name, or a partial file.                      *)
LEMMA WithPartials ==
  ASSUME NEW d, NEW p, NEW v, Partials(d), PartialFile(v) \/ \A a \in Published : Part(a.path) # p
  PROVE  Partials(With(d, p, v))
BY DEF Partials, With

(* Removing a file.                                                        *)
LEMMA WithoutPartials ==
  ASSUME NEW d, NEW p, Partials(d)
  PROVE  Partials(Without(d, p))
BY DEF Partials, Without

(* The other names of a release directory.                                 *)
LEMMA OtherNames ==
  ASSUME NEW a \in Published
  PROVE  /\ SizeOf(a.content) \in Nat
         /\ Part(a.path) # ManifestFile /\ Part(a.path) # SignatureFile /\ Part(a.path) # Temporary
         /\ \A b \in Published : Part(a.path) # b.path
BY PartialAssumption

(* What is built is of a spec, and its artifacts are published.            *)
LEMMA BuiltPublished ==
  /\ \A spec \in Spec : \A key : Build(spec, key).manifest \in Built
  /\ \A m \in Built : Artifacts(m) \subseteq Published
BY DEF Built, Build, Published

(* A command that has ended, whatever is left in the directory.            *)
LEMMA EndedPartials ==
  ASSUME (site.manifest \in Built)', Partials(dir'), at' = "idle", held' = NoBundle, missing' = {}
  PROVE  PartialInv'
BY DEF PartialInv, DownloadTypeOK

(* A command at a place where nothing is received.                         *)
LEMMA MovedPartials ==
  ASSUME (site.manifest \in Built)', Partials(dir'), at' \in {"signature", "metadata", "artifacts"},
         (held.manifest \in Built)', at' # "artifacts" => missing' = {}
  PROVE  PartialInv'
BY DEF PartialInv, DownloadTypeOK

(* The channel is built by a publisher.                                    *)
LEMMA PartialStarts == DownloadInit => PartialInv
<1> SUFFICES ASSUME DownloadInit PROVE PartialInv
  OBVIOUS
<1>1. site.manifest \in Built
  BY BuiltPublished DEF DownloadInit
<1> QED BY <1>1 DEF DownloadInit, PartialInv, Partials, Empty, DownloadTypeOK

(* The channel changes, and the bundle is fetched.                         *)
LEMMA FetchPartials ==
  ASSUME DownloadInv, PartialInv, Republish \/ FetchManifest \/ FetchSignature \/ Interrupt
  PROVE  PartialInv'
<1>1. CASE Republish
  <2>1. (site.manifest \in Built)'
    BY <1>1, BuiltPublished DEF Republish
  <2> QED BY <1>1, <2>1 DEF Republish, PartialInv, DownloadTypeOK, Received
<1>2. CASE FetchManifest
  <2>1. held'.manifest = site.manifest
    BY <1>2 DEF FetchManifest, NoBundle
  <2> QED BY <1>2, <2>1, MovedPartials DEF FetchManifest, PartialInv, DownloadTypeOK
<1>3. CASE FetchSignature
  <2> DEFINE bundle == [held EXCEPT !.signature = site.signature]
  <2>1. bundle.manifest = held.manifest /\ held.manifest \in Built
    BY <1>3 DEF FetchSignature, DownloadInv, HeldInv, PartialInv
  <2>2. /\ UNCHANGED <<site, dir, missing>>
        /\ (at' = "metadata" /\ held' = bundle) \/ (at' = "idle" /\ held' = NoBundle)
    BY <1>3 DEF FetchSignature
  <2>3. missing' = {}
    BY <1>3, <2>2 DEF FetchSignature, PartialInv
  <2> HIDE DEF bundle
  <2> QED BY <2>1, <2>2, <2>3, MovedPartials, EndedPartials DEF PartialInv
<1>4. CASE Interrupt
  BY <1>4, EndedPartials DEF Interrupt, Fail, PartialInv
<1> QED BY <1>1, <1>2, <1>3, <1>4

(* The metadata is written, and a directory verified or imported.          *)
LEMMA WholePartials ==
  ASSUME DownloadInv, PartialInv, WriteMetadata \/ CrashInMetadata \/ VerifyDownload \/ Import
  PROVE  PartialInv'
<1>1. \A v : Partials(With(dir, ManifestFile, v)) /\ \A w : Partials(With(With(dir, ManifestFile, v), SignatureFile, w))
  BY WithPartials, OtherNames DEF PartialInv
<1>2. CASE WriteMetadata
  <2>1. UNCHANGED site /\ Partials(dir')
    BY <1>1, <1>2 DEF WriteMetadata, PartialInv
  <2>2. Fail \/ (at' = "artifacts" /\ UNCHANGED held /\ at # "idle")
    BY <1>2 DEF WriteMetadata
  <2> QED BY <2>1, <2>2, MovedPartials, EndedPartials DEF Fail, PartialInv
<1>3. CASE CrashInMetadata
  <2>1. Fail /\ UNCHANGED site
    BY <1>3 DEF CrashInMetadata
  <2>2. \A d : Partials(d) => Partials(With(d, Temporary, "part"))
    BY WithPartials, OtherNames
  <2>3. Partials(dir')
    BY <1>1, <1>3, <2>2 DEF CrashInMetadata, PartialInv
  <2> QED BY <2>1, <2>3, EndedPartials DEF Fail, PartialInv
<1>4. CASE VerifyDownload
  BY <1>4, EndedPartials DEF VerifyDownload, Fail, PartialInv
<1>5. CASE Import
  <2>1. UNCHANGED <<site, at, held, missing>> /\ at = "idle"
    BY <1>5 DEF Import
  <2>2. \/ UNCHANGED dir
        \/ \E spec \in Spec, key \in Key : dir' = Unpacked(Build(spec, key))
    BY <1>5 DEF Import
  <2>3. ASSUME NEW spec \in Spec, NEW key \in Key, NEW a \in Published
        PROVE  Part(a.path) \notin DOMAIN Unpacked(Build(spec, key))
    <3> DEFINE m == Build(spec, key).manifest
    <3>1. DOMAIN Unpacked(Build(spec, key)) = {ManifestFile, SignatureFile} \cup {b.path : b \in Artifacts(m)}
      BY DEF Unpacked, Declared
    <3>2. Artifacts(m) \subseteq Published
      BY BuiltPublished
    <3> HIDE DEF m
    <3> QED BY <3>1, <3>2, OtherNames
  <2>4. Partials(dir')
    BY <2>2, <2>3 DEF Partials, PartialInv
  <2> QED BY <2>1, <2>4, EndedPartials DEF PartialInv, DownloadTypeOK
<1> QED BY <1>2, <1>3, <1>4, <1>5

(* An artifact is requested: what there is of it stays, or is removed, and *)
(* a new partial file begins with nothing.                                 *)
LEMMA RequestPartials ==
  ASSUME DownloadInv, PartialInv, NEW a \in missing, Request(a)
  PROVE  PartialInv'
<1> DEFINE p == Part(a.path)
           offset == Offset(a)
           ranged == offset > 0 /\ Ranges
<1>1. /\ at = "artifacts" /\ UNCHANGED site /\ held.manifest \in Built /\ Partials(dir)
      /\ site.manifest \in Built
  BY DEF Request, PartialInv
<1>2. a \in Published
  BY <1>1, BuiltPublished DEF DownloadInv, HeldInv
<1>3. SizeOf(a.content) \in Nat /\ offset \in Nat /\ offset <= SizeOf(a.content)
      /\ (offset > 0 => p \in DOMAIN dir /\ dir[p].size = offset /\ PartialFile(dir[p]))
  <2>1. SizeOf(a.content) \in Nat
    BY <1>2, OtherNames
  <2>2. p \in DOMAIN dir => PartialFile(dir[p])
    BY <1>1, <1>2 DEF Partials
  <2> HIDE DEF p
  <2>3. offset = IF p \in DOMAIN dir /\ dir[p].size <= SizeOf(a.content) THEN dir[p].size ELSE 0
    BY DEF Offset, p
  <2> HIDE DEF offset
  <2> QED BY <2>1, <2>2, <2>3 DEF PartialFile
<1>4. CASE Fail /\ dir' = IF offset = 0 THEN Without(dir, p) ELSE dir
  <2>1. Partials(dir')
    BY <1>1, <1>4, WithoutPartials
  <2> QED BY <1>1, <1>4, <2>1, EndedPartials DEF Fail
<1>5. ASSUME NEW content \in Sent(a.path),
             dir' = With(dir, p, IF ranged THEN [dir[p] EXCEPT !.content = IF @ = content THEN @ ELSE "mixed"]
                                 ELSE [content |-> content, size |-> 0]),
             body' = [artifact |-> a, content |-> content], at' = "receiving", UNCHANGED <<held, missing>>
      PROVE  PartialInv'
  <2> DEFINE new == IF ranged THEN [dir[p] EXCEPT !.content = IF @ = content THEN @ ELSE "mixed"]
                    ELSE [content |-> content, size |-> 0]
  <2>1. PartialFile(new) /\ new.size <= SizeOf(a.content)
    <3>1. CASE ranged
      <4> DEFINE old == dir[p]
                 c == IF old.content = content THEN old.content ELSE "mixed"
      <4>1. new = [old EXCEPT !.content = c]
        BY <3>1
      <4>2. old = [content |-> old.content, size |-> old.size] /\ old.size = offset
        BY <1>3, <3>1 DEF PartialFile
      <4> HIDE DEF old, c, new, offset
      <4>3. new = [content |-> c, size |-> offset]
        BY <4>1, <4>2
      <4> QED BY <1>3, <4>3 DEF PartialFile
    <3>2. CASE ~ranged
      <4>1. new = [content |-> content, size |-> 0]
        BY <3>2
      <4> HIDE DEF new, offset
      <4> QED BY <1>3, <4>1 DEF PartialFile
    <3> QED BY <3>1, <3>2
  <2>2. dir' = With(dir, p, new)
    BY <1>5
  <2> HIDE DEF new, offset, ranged
  <2>3. Partials(dir') /\ p \in DOMAIN dir' /\ dir'[p] = new
    <3> HIDE DEF p
    <3>1. Partials(With(dir, p, new))
      BY <1>1, <2>1, WithPartials
    <3> QED BY <2>2, <3>1 DEF With
  <2>4. SizeOf(content) \in Nat
    <3>1. PICK b \in Artifacts(site.manifest) : content = b.content
      BY DEF Sent
    <3>2. b \in Published
      BY <1>1, <3>1, BuiltPublished
    <3> QED BY <3>1, <3>2, OtherNames
  <2>5. body'.artifact = a /\ body'.content = content
    BY <1>5
  <2>6. (Received.size <= SizeOf(body.artifact.content) + 1)'
    <3>1. Received' = new
      BY <2>3, <2>5 DEF Received
    <3> QED BY <1>3, <2>1, <2>5, <3>1 DEF PartialFile
  <2> QED BY <1>1, <1>2, <1>5, <2>3, <2>4, <2>5, <2>6 DEF PartialInv, DownloadTypeOK
<1> QED BY <1>4, <1>5 DEF Request

(* A chunk comes, and the whole body has come.                             *)
LEMMA ReceivePartials ==
  ASSUME DownloadInv, PartialInv, Receive \/ CommitArtifact
  PROVE  PartialInv'
<1> DEFINE a == body.artifact
           p == Part(a.path)
           expected == SizeOf(a.content)
<1>1. /\ at = "receiving" /\ a \in Published /\ p \in DOMAIN dir /\ Partials(dir) /\ PartialFile(Received)
      /\ SizeOf(body.content) \in Nat /\ expected \in Nat
      /\ held.manifest \in Built /\ site.manifest \in Built /\ UNCHANGED site
  <2>1. at = "receiving" /\ UNCHANGED site
    BY DEF Receive, CommitArtifact
  <2>2. a \in Published /\ p \in DOMAIN dir /\ Partials(dir) /\ SizeOf(body.content) \in Nat
    BY <2>1 DEF PartialInv
  <2>3. expected \in Nat
    BY <2>2, OtherNames
  <2> QED BY <2>1, <2>2, <2>3 DEF PartialInv, Partials, Received
<1>2. CASE Receive
  <2> DEFINE more == [Received EXCEPT !.size = @ + 1]
  <2>1. /\ dir' = With(dir, p, more) /\ UNCHANGED <<at, held, missing, body>>
        /\ Received.size < Limit(a)
    BY <1>2 DEF Receive
  <2>2. Limit(a) <= expected + 1
    <3> DEFINE whole == SizeOf(body.content)
    <3>1. Limit(a) = IF whole < expected THEN whole ELSE IF whole = expected THEN expected ELSE expected + 1
      BY DEF Limit
    <3>2. whole \in Nat /\ expected \in Nat
      BY <1>1
    <3> HIDE DEF whole, expected
    <3> QED BY <3>1, <3>2
  <2>3. PartialFile(more) /\ more.size = Received.size + 1
    BY <1>1 DEF PartialFile
  <2> HIDE DEF more
  <2>4. Partials(dir') /\ p \in DOMAIN dir' /\ dir'[p] = more
    BY <1>1, <2>1, <2>3, WithPartials DEF With
  <2>5. Received' = more
    BY <2>1, <2>4 DEF Received
  <2>6. Received.size \in Nat /\ Limit(a) \in Nat
    <3>1. Received.size \in Nat
      BY <1>1 DEF PartialFile
    <3> QED BY <1>1, <3>1 DEF Limit
  <2>7. (Received.size <= SizeOf(body.artifact.content) + 1)'
    <3>1. more.size <= expected + 1
      <4> HIDE DEF expected
      <4> QED BY <1>1, <2>1, <2>2, <2>3, <2>6
    <3> QED BY <2>1, <2>5, <3>1
  <2> QED BY <1>1, <2>1, <2>4, <2>7 DEF PartialInv, DownloadTypeOK
<1>3. CASE CommitArtifact
  <2>1. \/ Fail /\ dir' \in {dir, Without(dir, p)}
        \/ at' = "artifacts" /\ UNCHANGED held /\ dir' = With(Without(dir, p), a.path, a.content)
    BY <1>3, ZenonT(60) DEF CommitArtifact
  <2>2. Partials(Without(dir, p)) /\ \A b \in Published : Part(b.path) # a.path
    BY <1>1, WithoutPartials, OtherNames
  <2>3. Partials(dir')
    BY <1>1, <2>1, <2>2, WithPartials
  <2> QED BY <1>1, <2>1, <2>3, EndedPartials, MovedPartials DEF Fail
<1> QED BY <1>2, <1>3

(* Every step keeps the partial files.                                     *)
LEMMA PartialStep == DownloadInv /\ PartialInv /\ [DownloadNext]_downloadVars => PartialInv'
<1> SUFFICES ASSUME DownloadInv, PartialInv, [DownloadNext]_downloadVars PROVE PartialInv'
  OBVIOUS
<1>1. CASE UNCHANGED downloadVars
  BY <1>1 DEF downloadVars, PartialInv, DownloadTypeOK, Received
<1>2. ASSUME NEW a \in missing, SkipArtifact(a)
      PROVE  PartialInv'
  BY <1>2, MovedPartials DEF SkipArtifact, PartialInv
<1> QED BY <1>1, <1>2, FetchPartials, WholePartials, RequestPartials, ReceivePartials DEF DownloadNext, DownloadStep

(* A partial file never holds more than one chunk beyond what its manifest *)
(* declares, whatever the channel sends and whoever left the file.         *)
THEOREM PartialsBounded == DownloadSpec => []DownloadTypeOK
<1>1. PartialInv => DownloadTypeOK
  BY DEF PartialInv
<1> QED BY <1>1, DownloadInvariant, PartialStarts, PartialStep, PTL DEF DownloadSpec
=============================================================================
