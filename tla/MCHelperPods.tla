---------------------------- MODULE MCHelperPods ----------------------------
(* Instances of HelperPods for TLC. *)
EXTENDS HelperPods, TLC

CONSTANTS r1, r2, d1, d2

Vol(action, name, vg, srcVG, args) ==
    [resource |-> "volume", action |-> action, name |-> name, node |-> "n1",
     vg |-> vg, srcVG |-> srcVG, args |-> args]

MCVGs == {"vg1", "vg2"}
MCNodes == {"n1"}

\* A create, the same create after an upgrade changed the helper's arguments,
\* and a clone between two volume groups.
UpgradeOps ==
    {Vol("create", "v1", "vg1", "vg1", "old"),
     Vol("create", "v1", "vg1", "vg1", "new"),
     Vol("clone", "v2", "vg2", "vg1", "old")}

\* Two helpers that compete for one volume group, one spec for each name.
TwoOps ==
    {Vol("create", "v1", "vg1", "vg1", "old"),
     Vol("clone", "v2", "vg2", "vg1", "old")}

\* One helper name, asked for with two specs.
SharedNameOps ==
    {Vol("create", "v1", "vg1", "vg1", "old"),
     Vol("create", "v1", "vg1", "vg1", "new")}

AllOnOne == [r \in Requests |-> d1]
Split == [r \in Requests |-> IF r = r1 THEN d1 ELSE d2]

\* A deadline may strike anywhere; where the call has, or may have, changed something by
\* then (elsewhere it only makes the next API call of ensureHelper fail: the mutex is
\* released and no pod was touched); or only while a call waits for its helper.
Anywhere == InCall
WhereItMatters == {"create", "poll", "cleanup"}
AtPoll == {"poll"}

\* Slots of one process are interchangeable.
Slots == Permutations({r1, r2})
=============================================================================
