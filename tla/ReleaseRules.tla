----------------------------- MODULE ReleaseRules -----------------------------
(***************************************************************************)
(* What makes a release acceptable: the order of versions, the contract of *)
(* a manifest, its signature, and the files of a release directory.  These *)
(* are the pure functions of package release.                              *)
(***************************************************************************)
EXTENDS Integers, Sequences, FiniteSets

(* A version: three numbers and the identifiers of a prerelease.  An       *)
(* identifier is a number or a text; a text is its rank in ASCII order.    *)
Identifier(numeric, value) == [numeric |-> numeric, value |-> value]
SemanticVersion(core, prerelease) == [core |-> core, prerelease |-> prerelease]

Sign(a, b) == IF a < b THEN -1 ELSE IF a > b THEN 1 ELSE 0

ComparePrereleaseIdentifier(left, right) ==
  IF left.numeric = right.numeric THEN Sign(left.value, right.value)
  ELSE IF left.numeric THEN -1 ELSE 1

(* The comparison at the first index where two sequences differ, else 0.   *)
AtFirstDifference(s, t, Op(_, _)) ==
  LET indices == {i \in 1..Len(s) : i <= Len(t) /\ s[i] # t[i]}
  IN IF indices = {} THEN 0
     ELSE LET i == CHOOSE i \in indices : \A k \in indices : i <= k IN Op(s[i], t[i])

ComparePrerelease(left, right) ==
  LET found == AtFirstDifference(left, right, ComparePrereleaseIdentifier)
  IN CASE left = <<>> \/ right = <<>> -> Sign(Len(right), Len(left)) \* a release is the greater
       [] found # 0 -> found
       [] OTHER -> Sign(Len(left), Len(right))

LongerFirst(left, right) ==
  LET found == AtFirstDifference(left, right, ComparePrereleaseIdentifier)
  IN IF found # 0 THEN found ELSE Sign(Len(left), Len(right))

CompareVersions(left, right) ==
  LET core == AtFirstDifference(left.core, right.core, Sign)
  IN IF core # 0 THEN core ELSE ComparePrerelease(left.prerelease, right.prerelease)

-----------------------------------------------------------------------------
(* A manifest.  files maps the slots a release declares to the path and    *)
(* the content (digest and size) of their artifacts; wellFormed stands for *)
(* the fields that are only looked at one by one (schema version, channel, *)
(* status reason, timestamps, notes, images).                              *)
Slot == {"compose", "migration", "checksums", "app image", "server image"}
OfflineSlots == {"app image", "server image"}

(* Artifacts: both image archives or none, and no path twice.              *)
ArtifactsAgree(m) ==
  /\ OfflineSlots \subseteq DOMAIN m.files \/ OfflineSlots \cap DOMAIN m.files = {}
  /\ \A s, t \in DOMAIN m.files : m.files[s].path = m.files[t].path => s = t

Artifacts(m) == {m.files[s] : s \in DOMAIN m.files}

ValidMigration(m) ==
  /\ CompareVersions(m.migration.from, m.migration.to) <= 0
  /\ m.migration.required => "migration" \in DOMAIN m.files

Validate(m) ==
  /\ m.wellFormed
  /\ CompareVersions(m.minimum, m.version) <= 0
  /\ ValidMigration(m)
  /\ ArtifactsAgree(m)

(* The reason a manifest is refused, or "none"; the first that applies.    *)
CheckCompatibility(m, current, updater, channel, now) ==
  CASE now >= m.expires -> "expired"
    [] m.status \notin {"", "active"} -> m.status
    [] channel # m.channel -> "channel"
    [] CompareVersions(current, m.minimum) < 0 -> "current version"
    [] CompareVersions(updater, m.minimumUpdater) < 0 -> "updater version"
    [] m.infraUpgrade -> "infrastructure"
    [] OTHER -> "none"

(* A signature names a key and covers one manifest.                        *)
VerifySignature(m, signature, trusted) ==
  /\ signature.key \in trusted
  /\ signature.covers = m

(* A directory maps paths to contents; the manifest and the signature are  *)
(* files in it.                                                            *)
ManifestFile == "release.json"
SignatureFile == "release.json.sig"

Declared(m, signature) ==
  [p \in {ManifestFile, SignatureFile} \cup {a.path : a \in Artifacts(m)} |->
     CASE p = ManifestFile  -> m
       [] p = SignatureFile -> signature
       [] OTHER -> (CHOOSE a \in Artifacts(m) : a.path = p).content]

(* Every file is declared and as declared, and every declared file exists. *)
VerifyBundle(directory, m, signature) ==
  LET declared == Declared(m, signature)
  IN /\ ArtifactsAgree(m)
     /\ \A p \in DOMAIN directory : p \in DOMAIN declared /\ directory[p] = declared[p]
     /\ DOMAIN declared \subseteq DOMAIN directory
=============================================================================
