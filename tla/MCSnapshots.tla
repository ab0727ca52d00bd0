---------------------------- MODULE MCSnapshots ----------------------------
(* Instances of Snapshots for TLC. *)
EXTENDS Snapshots, TLC

\* Two volumes, on two nodes.
MCLocOf == "v1" :> "n1vg" @@ "v2" :> "n2vg"
MCVolumes == DOMAIN MCLocOf
MCLocations == {"n1vg", "n2vg"}

\* One is striped, one thin.
MCThick == {"v1"}

BothFates == {"absent", "broken"}
BothImports == {"imported", "annotated"}
Absent == {"absent"}
Annotated == {"annotated"}
Imported == {"imported"}
=============================================================================
