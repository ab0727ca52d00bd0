----------------------------- MODULE MCVolumes -----------------------------
(* Instances of Volumes for TLC. *)
EXTENDS Volumes, TLC

Block == {[access |-> "block", single |-> TRUE]}
Shared == {[access |-> "block", single |-> FALSE]}
Mixed == {[access |-> a, single |-> TRUE] : a \in {"block", "mount"}}

Ask(requisite, preferred, type, size, source) ==
    [requisite |-> requisite, preferred |-> preferred, caps |-> Block,
     vg |-> "vg1", type |-> type, size |-> size, source |-> source]

MCSnapOf == "s1" :> "v1"

\* v1 is a plain volume on the preferred node, or asked for with a topology or
\* capabilities that are refused.
PlainAsks ==
    {Ask({"n1", "n2"}, <<None, "n2", "n1">>, "dm-thin", 2, None),
     Ask({"n1", "n2"}, <<>>, "dm-thin", 2, None),
     Ask({"n2"}, <<"n1">>, "dm-thin", 2, None),
     [Ask({"n2", None}, <<>>, "dm-thin", 2, None) EXCEPT !.caps = Shared],
     [Ask({"n2", None}, <<>>, "dm-thin", 2, None) EXCEPT !.caps = Mixed]}

\* v2 is a clone of v1 or of its snapshot; too small, or on another node.
CloneAsks ==
    {Ask({"n2"}, <<>>, "dm-thin", 2, "s1"),
     Ask({"n2"}, <<>>, "striped", 2, "v1"),
     Ask({"n2"}, <<>>, "striped", 1, "v1"),
     Ask({"n1"}, <<>>, "striped", 2, "v1")}

MCAsks == "v1" :> PlainAsks @@ "v2" :> CloneAsks

\* Imported without annotations, with both, and with one.
MCImports ==
    {[sized |-> TRUE, node |-> FALSE, vg |-> FALSE],
     [sized |-> FALSE, node |-> TRUE, vg |-> TRUE],
     [sized |-> FALSE, node |-> TRUE, vg |-> FALSE]}

\* A striped volume that is grown, and its snapshot restored.
GrownAsks ==
    "v1" :> {Ask({"n1"}, <<>>, "striped", 1, None)} @@ "v2" :> {Ask({"n1"}, <<>>, "striped", 1, "s1")}
=============================================================================
