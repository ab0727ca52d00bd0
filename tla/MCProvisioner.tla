---------------------------- MODULE MCProvisioner ----------------------------
(* Instances of Provisioner for TLC. *)
EXTENDS Provisioner, TLC

Volume(g, type, size, source) ==
    [kind |-> "volume", vg |-> g, type |-> type, size |-> size, source |-> source]
Snapshot(g, type, source) ==
    [kind |-> "snapshot", vg |-> g, type |-> type, size |-> 1, source |-> source]

MCSizes == {1, 2}

\* Two thin volumes, a snapshot of the first and a fast clone of the snapshot.
ThinInfo ==
    "v1" :> Volume("vg1", "dm-thin", 1, None) @@
    "v2" :> Volume("vg1", "dm-thin", 1, None) @@
    "s1" :> Snapshot("vg1", "dm-thin", "v1") @@
    "c1" :> Volume("vg1", "dm-thin", 1, "s1")

\* A striped volume, its thick snapshot, and copies of both: a larger, thin one of
\* the snapshot in another volume group, and one of the volume beside it.
CopyInfo ==
    "v1" :> Volume("vg1", "striped", 1, None) @@
    "s1" :> Snapshot("vg1", "striped", "v1") @@
    "c1" :> Volume("vg2", "dm-thin", 2, "s1") @@
    "v2" :> Volume("vg1", "striped", 1, "v1")

ThinAndCopy == {ThinInfo, CopyInfo}

\* Two thin volumes in one volume group.
PairInfo ==
    "v1" :> Volume("vg1", "dm-thin", 1, None) @@
    "v2" :> Volume("vg1", "dm-thin", 1, None)

Pair == {PairInfo}
=============================================================================
