---------------------------- MODULE ReleaseDownload ----------------------------
(***************************************************************************)
(* How a release gets from its publisher into releases/<version>: the      *)
(* publisher builds and signs it, the channel serves it and may be changed *)
(* between two requests, the updater checks it, downloads its artifacts    *)
(* through partial files that outlive a cancellation or a crash, and       *)
(* verifies the directory; or an offline package is imported whole.        *)
(* All releases here have one version, that of the directory.              *)
(***************************************************************************)
EXTENDS ReleaseRules

CONSTANTS
  Spec,        \* release specs: manifests without checksums and signature
  Key, Trusted, \* signing keys, and those the updater trusts
  Installation, \* the installed version, the updater's, the channel, the time
  SizeOf(_),   \* the size of a content, in chunks
  Checksums(_), \* the content of checksums.txt for a set of artifacts
  Ranges,      \* the server answers range requests
  MaxFailures  \* cancellations, lost connections and crashes together

ASSUME DownloadAssumption ==
  /\ Trusted \subseteq Key /\ Ranges \in BOOLEAN /\ MaxFailures \in Nat
  /\ \A spec \in Spec : /\ "files" \in DOMAIN spec
                         /\ \A s \in DOMAIN spec.files : spec.files[s].path \notin {ManifestFile, SignatureFile}

VARIABLES
  site,     \* the bundle the channel serves
  dir,      \* releases/<version>: path -> content; a partial file is [content, size]
  at,       \* where the download command is
  held,     \* the bundle it has fetched
  missing,  \* the artifacts it has yet to download
  body,     \* the artifact it is receiving, and the content that is sent
  verified, \* the bundle last verified
  failures

downloadVars == <<site, dir, at, held, missing, body, verified, failures>>

-----------------------------------------------------------------------------
(* The publisher: Build.                                                   *)

(* describe: what the manifest says of a file.                             *)
Describe(path, content) == [path |-> path, content |-> content]

(* Payload artifacts are listed in checksums.txt, if there are any.        *)
BuiltManifest(spec) ==
  IF DOMAIN spec.files = {} THEN spec
  ELSE [spec EXCEPT !.files =
         [s \in DOMAIN spec.files \cup {"checksums"} |->
            IF s = "checksums" THEN Describe("checksums.txt", Checksums(Artifacts(spec)))
            ELSE spec.files[s]]]

Build(spec, key) ==
  LET m == BuiltManifest(spec)
  IN [manifest |-> m, signature |-> [key |-> key, covers |-> m]]

Buildable(spec) == Validate(BuiltManifest(spec))

Empty == [p \in {} |-> p]
NoBundle == [manifest |-> Empty, signature |-> Empty]

(* What the channel sends for a path: the artifact of the bundle it serves.*)
Sent(p) == {a.content : a \in {b \in Artifacts(site.manifest) : b.path = p}}

-----------------------------------------------------------------------------
Part(p) == p \o ".part"
Without(f, p) == [q \in DOMAIN f \ {p} |-> f[q]]
With(f, p, content) == [q \in DOMAIN f \cup {p} |-> IF q = p THEN content ELSE f[q]]
Temporary == ".release-1.tmp"

(* What the publishers describe in their releases.                         *)
Built == {BuiltManifest(spec) : spec \in Spec}
Published == UNION {Artifacts(m) : m \in Built}

(* No published file has the name of another one's partial file.           *)
ASSUME PartialAssumption ==
  \A a, b \in Published :
    SizeOf(a.content) \in Nat /\ Part(a.path) \notin {b.path, ManifestFile, SignatureFile, Temporary}

DownloadInit ==
  /\ site \in {Build(spec, key) : spec \in {s \in Spec : Buildable(s)}, key \in Key}
  /\ dir = Empty
  /\ at = "idle" /\ held = NoBundle /\ missing = {} /\ body = Empty
  /\ verified = NoBundle
  /\ failures = 0

Republish ==
  /\ \E spec \in Spec, key \in Key : Buildable(spec) /\ site' = Build(spec, key)
  /\ UNCHANGED <<dir, at, held, missing, body, verified, failures>>

-----------------------------------------------------------------------------
(* CheckBundle: two requests, between which the channel may change.        *)
FetchManifest ==
  /\ at = "idle" /\ at' = "signature"
  /\ held' = [NoBundle EXCEPT !.manifest = site.manifest]
  /\ UNCHANGED <<site, dir, missing, body, verified, failures>>

Accepted(bundle) ==
  /\ VerifySignature(bundle.manifest, bundle.signature, Trusted)
  /\ Validate(bundle.manifest)
  /\ CheckCompatibility(bundle.manifest, Installation.current, Installation.updater,
                        Installation.channel, Installation.now) = "none"

FetchSignature ==
  LET bundle == [held EXCEPT !.signature = site.signature]
  IN /\ at = "signature"
     /\ IF Accepted(bundle) THEN at' = "metadata" /\ held' = bundle
        ELSE at' = "idle" /\ held' = NoBundle
     /\ UNCHANGED <<site, dir, missing, body, verified, failures>>

Fail == at' = "idle" /\ held' = NoBundle /\ missing' = {} /\ body' = Empty

-----------------------------------------------------------------------------
(* writeAtomic: other bytes under the name are refused; a crash between    *)
(* CreateTemp and Rename leaves the temporary file.                        *)
DiffersNever(p, content) == FALSE
Differs(p, content) == p \in DOMAIN dir /\ dir[p] # content

WriteMetadata ==
  /\ at = "metadata"
  /\ IF Differs(ManifestFile, held.manifest) \/ Differs(SignatureFile, held.signature)
       THEN Fail /\ dir' = IF Differs(ManifestFile, held.manifest) THEN dir
                           ELSE With(dir, ManifestFile, held.manifest)
       ELSE /\ dir' = With(With(dir, ManifestFile, held.manifest), SignatureFile, held.signature)
            /\ at' = "artifacts" /\ missing' = Artifacts(held.manifest)
            /\ UNCHANGED <<held, body>>
  /\ UNCHANGED <<site, verified, failures>>

CrashInMetadata ==
  /\ at = "metadata" /\ failures < MaxFailures /\ failures' = failures + 1
  /\ \/ ManifestFile \notin DOMAIN dir /\ dir' = With(dir, Temporary, "part")
     \/ /\ ~Differs(ManifestFile, held.manifest) /\ SignatureFile \notin DOMAIN dir
        /\ dir' = With(With(dir, ManifestFile, held.manifest), Temporary, "part")
  /\ Fail /\ UNCHANGED <<site, verified>>

-----------------------------------------------------------------------------
(* Download of one artifact.                                               *)
Valid(p, a) == p \in DOMAIN dir /\ dir[p] = a.content

SkipArtifact(a) ==
  /\ at = "artifacts" /\ a \in missing /\ Valid(a.path, a)
  /\ missing' = missing \ {a}
  /\ UNCHANGED <<site, dir, at, held, body, verified, failures>>

(* partialSize: a partial file that is too large is removed.               *)
Offset(a) ==
  IF Part(a.path) \in DOMAIN dir /\ dir[Part(a.path)].size <= SizeOf(a.content)
    THEN dir[Part(a.path)].size ELSE 0

(* The answer to a request from the offset on: 206 and the rest, 200 and   *)
(* the whole, or an error, such as 416 when nothing is left.               *)
Request(a) ==
  LET offset == Offset(a)
      ranged == offset > 0 /\ Ranges
      kept   == IF offset = 0 THEN Without(dir, Part(a.path)) ELSE dir
  IN /\ at = "artifacts" /\ a \in missing /\ ~Valid(a.path, a)
     /\ \/ \E content \in Sent(a.path) :
             /\ ranged => offset < SizeOf(content) /\ SizeOf(content) = SizeOf(a.content)
             /\ dir' = With(dir, Part(a.path),
                  IF ranged
                    THEN [dir[Part(a.path)] EXCEPT !.content = IF @ = content THEN @ ELSE "mixed"]
                    ELSE [content |-> content, size |-> 0])
             /\ body' = [artifact |-> a, content |-> content]
             /\ at' = "receiving" /\ UNCHANGED <<held, missing>>
        \/ /\ \A content \in Sent(a.path) :
                ranged /\ ~(offset < SizeOf(content) /\ SizeOf(content) = SizeOf(a.content))
           /\ dir' = kept /\ Fail
     /\ UNCHANGED <<site, verified, failures>>

(* The reader is limited to one byte more than the artifact has.           *)
Unlimited(a) == SizeOf(body.content)
Limit(a) == LET expected == SizeOf(body.artifact.content)
            IN IF SizeOf(body.content) < expected THEN SizeOf(body.content)
               ELSE IF SizeOf(body.content) = expected THEN expected ELSE expected + 1

Received == dir[Part(body.artifact.path)]

Receive ==
  /\ at = "receiving" /\ Received.size < Limit(body.artifact)
  /\ dir' = With(dir, Part(body.artifact.path), [Received EXCEPT !.size = @ + 1])
  /\ UNCHANGED <<site, at, held, missing, body, verified, failures>>

(* The connection is lost, the administrator cancels (the callback after a *)
(* chunk says so), or the updater dies: the partial file stays.            *)
Interrupt ==
  /\ at # "idle" /\ failures < MaxFailures /\ failures' = failures + 1
  /\ Fail /\ UNCHANGED <<site, dir, verified>>

(* The whole body has come: checked, and renamed or removed.               *)
CommitArtifact ==
  LET a == body.artifact
  IN /\ at = "receiving" /\ Received.size = Limit(a)
     /\ CASE Received.size # SizeOf(a.content) -> Fail /\ UNCHANGED dir
          [] Received.content # a.content -> Fail /\ dir' = Without(dir, Part(a.path))
          [] OTHER -> /\ dir' = With(Without(dir, Part(a.path)), a.path, a.content)
                      /\ missing' = missing \ {a} /\ body' = Empty /\ at' = "artifacts"
                      /\ UNCHANGED held
     /\ UNCHANGED <<site, verified, failures>>

VerifyDownload ==
  /\ at = "artifacts" /\ missing = {}
  /\ Fail
  /\ verified' = IF VerifyBundle(dir, held.manifest, held.signature) THEN held ELSE verified
  /\ UNCHANGED <<site, dir, failures>>

-----------------------------------------------------------------------------
(* An offline package holds the files of a release directory, and needs    *)
(* both image archives.                                                    *)
Packable(bundle) == OfflineSlots \subseteq DOMAIN bundle.manifest.files
Unpacked(bundle) == Declared(bundle.manifest, bundle.signature)

(* offline.Import: the package is unpacked beside the directory, verified, *)
(* and renamed to it; an existing directory must hold the same release.    *)
Import ==
  /\ at = "idle"
  /\ \E spec \in Spec, key \in Key :
       LET bundle == Build(spec, key)
           m == bundle.manifest
       IN /\ Buildable(spec) /\ Packable(bundle)
          /\ VerifySignature(m, bundle.signature, Trusted)
          /\ \/ dir = Empty /\ dir' = Unpacked(bundle)
             \/ dir # Empty /\ VerifyBundle(dir, m, bundle.signature) /\ UNCHANGED dir
          /\ verified' = bundle
  /\ UNCHANGED <<site, at, held, missing, body, failures>>

DownloadStep ==
  \/ FetchManifest \/ FetchSignature \/ WriteMetadata
  \/ \E a \in missing : SkipArtifact(a) \/ Request(a)
  \/ Receive \/ CommitArtifact \/ VerifyDownload

DownloadNext ==
  DownloadStep \/ Republish \/ CrashInMetadata \/ Interrupt \/ Import

DownloadSpec == DownloadInit /\ [][DownloadNext]_downloadVars

(* The scheduler and the administrator try again, and the network works.   *)
ResumeSpec ==
  DownloadInit /\ [][DownloadStep \/ Interrupt]_downloadVars /\ WF_downloadVars(DownloadStep)

-----------------------------------------------------------------------------
DownloadTypeOK ==
  /\ at \in {"idle", "signature", "metadata", "artifacts", "receiving"}
  /\ at = "idle" => held = NoBundle /\ missing = {}
  /\ at = "receiving" => Received.size <= SizeOf(body.artifact.content) + 1

(* A directory that was verified stays what its publisher signed, whatever *)
(* the channel serves later: runDownload and Import refuse to change it.   *)
VerifiedStays ==
  verified # NoBundle =>
    /\ VerifySignature(verified.manifest, verified.signature, Trusted)
    /\ VerifyBundle(dir, verified.manifest, verified.signature)

(* A download that was interrupted ends verified when it is tried again    *)
(* and nothing fails any more (TestDownloadResumesAndVerifies).            *)
DownloadCompletes == <>(verified # NoBundle)
=============================================================================
