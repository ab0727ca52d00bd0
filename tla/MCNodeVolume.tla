---------------------------- MODULE MCNodeVolume ----------------------------
(* Instances of NodeVolume for TLC. *)
EXTENDS NodeVolume

Raw(readers) == [access |-> "block", fs |-> "ext4", pods |-> {"t1"}, ro |-> readers]
Files(fs, pods, readers) == [access |-> "mount", fs |-> fs, pods |-> pods, ro |-> readers]

New == [size |-> 1, fs |-> "none", fsSize |-> 0, data |-> FALSE]
Cloned(fs) == [size |-> 1, fs |-> fs, fsSize |-> 1, data |-> TRUE]

\* New block volumes, new and cloned filesystems of two pods, and a clone of a volume
\* with another filesystem.
MCVolumes ==
    {<<Raw({}), New>>, <<Raw({"t1"}), New>>,
     <<Files("ext4", {"t1", "t2"}, {}), New>>, <<Files("xfs", {"t1"}, {}), New>>,
     <<Files("ext4", {"t1", "t2"}, {"t2"}), Cloned("ext4")>>,
     <<Files("ext4", {"t1"}, {}), Cloned("xfs")>>}

\* For block volumes, enough for a remount and each of the three umounts to fail.
MCMaxFaults == [access \in {"block", "mount"} |-> IF access = "block" THEN 4 ELSE 1]
=============================================================================
