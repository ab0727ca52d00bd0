----------------------- MODULE MCStorageClassWebhook -----------------------
(* Instances of StorageClassWebhook for TLC. *)
EXTENDS StorageClassWebhook, TLC

CONSTANTS a, b

On(values) == [key |-> "node", values |-> values]
Zone == [key |-> "other", values |-> <<"n1">>]

\* One node, two nodes by one or by two terms, a node under a second expression,
\* a term without expressions, none.
Single == <<<<On(<<"n1">>)>>>>
TwoTerms == <<<<On(<<"n2">>)>>, <<On(<<"n1">>)>>>>
TwoValues == <<<<On(<<"n1", "n2">>)>>>>
Second == <<<<Zone>>, <<Zone, On(<<"n1">>)>>>>
MCTopologies == {Single, TwoTerms, TwoValues, Second, <<<<Zone>>>>, <<<<>>>>, <<>>}

Class(topologies, type) ==
    [provisioner |-> Provisioner, topologies |-> topologies, vg |-> "vg1", type |-> type]

\* What is admitted, and one class for each reason to refuse it.
MCClasses ==
    {Class(Single, "striped"), Class(Single, "dm-thin"), Class(Second, "dm-thin"),
     Class(TwoTerms, "dm-thin")}
    \cup {Class(topologies, "striped") : topologies \in {TwoValues, <<<<Zone>>>>, <<<<>>>>, <<>>}}
    \cup {Class(Single, None), [Class(<<>>, "striped") EXCEPT !.provisioner = Other]}

Swap == Permutations(Names)
=============================================================================
