------------------------------ MODULE MCRelease ------------------------------
(* The releases of one version that the instances publish.                      *)
EXTENDS ReleaseDownload

(* Releases: one version, a bundle with its compose file or another one, one    *)
(* that carries its images, and one that is withdrawn.                          *)
V(major) == SemanticVersion(<<major, 0, 0>>, <<>>)
Manifest(files) ==
    [version |-> V(2), minimum |-> V(1), minimumUpdater |-> V(1), wellFormed |-> TRUE, expires |-> 2,
     status |-> "active", channel |-> "stable", infraUpgrade |-> FALSE,
     migration |-> [from |-> V(1), to |-> V(2), required |-> FALSE], files |-> files]
Online(content) == [slot \in {"compose"} |-> Describe("compose.yml", content)]
Offline == [slot \in OfflineSlots |-> IF slot = "app image" THEN Describe("app.tar", "c1") ELSE Describe("server.tar", "c2")]
ReleaseSpecs == {Manifest(Online("c1")), Manifest(Online("c2")), Manifest(Offline),
                 [Manifest(Online("c1")) EXCEPT !.status = "paused"]}
OneRelease == {Manifest(Online("c1"))}
Sizes(content) == IF content = "c2" THEN 4 ELSE IF content = "c1" THEN 2 ELSE 1
Sums(artifacts) == "sums"
Installed == [current |-> V(1), updater |-> V(1), channel |-> "stable", now |-> 1]
=============================================================================
