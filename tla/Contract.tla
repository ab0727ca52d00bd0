------------------------------ MODULE Contract ------------------------------
(***************************************************************************)
(* What the controller promises a CO about the volumes and snapshots it    *)
(* asks for, whatever helpers, retries, faults and stored objects are      *)
(* behind it.  Volumes and Snapshots are shown to implement it.            *)
(*                                                                         *)
(* A resource comes into being only while its creation is wanted and goes  *)
(* only while its deletion is; it is reported ready only when it exists    *)
(* and gone only when it does not.  A fragile one, which is part of        *)
(* another resource, perishes with it.  A resource the CO has lost track   *)
(* of may come or go once more; nothing is said about it.                  *)
(***************************************************************************)
CONSTANT Resources

VARIABLES
    told,    \* what the CO was told, or wants, of a resource
    exists,  \* the resources that exist on some node
    fragile  \* the resources that are part of another one

vars == <<told, exists, fragile>>

Tells == {"none", "wanted", "ready", "perished", "unwanted", "gone", "lost"}

Becomes(r, from, to) ==
    /\ told[r] \in from
    /\ told' = [told EXCEPT ![r] = to]
    /\ UNCHANGED exists

Turns(r, from, to) == Becomes(r, from, to) /\ UNCHANGED fragile

Want(r) ==
    /\ Becomes(r, {"none", "gone"}, "wanted")
    /\ fragile' \in {fragile \cup {r}, fragile \ {r}}
Ready(r) == r \in exists /\ Turns(r, {"wanted"}, "ready")
Unwant(r) == Turns(r, {"ready", "perished"}, "unwanted")
Gone(r) == r \notin exists /\ Turns(r, {"unwanted"}, "gone")
Lose(r) == Turns(r, {"wanted", "ready", "unwanted"}, "lost")

Appear(r) ==
    /\ told[r] \in {"wanted", "lost"}
    /\ exists' = exists \cup {r}
    /\ UNCHANGED <<told, fragile>>

Vanish(r) ==
    /\ told[r] \in {"unwanted", "lost"}
    /\ exists' = exists \ {r}
    /\ UNCHANGED <<told, fragile>>

\* What S is part of is deleted, and S with it, of which none is being made.
Perish(S) ==
    /\ S \subseteq fragile
    /\ \A r \in S : told[r] # "wanted"
    /\ told' = [r \in Resources |-> IF r \in S /\ told[r] = "ready" THEN "perished" ELSE told[r]]
    /\ exists' = exists \ S
    /\ UNCHANGED fragile

Init ==
    /\ told = [r \in Resources |-> "none"]
    /\ exists = {}
    /\ fragile \subseteq Resources

Next ==
    \/ \E r \in Resources :
        Want(r) \/ Ready(r) \/ Unwant(r) \/ Gone(r) \/ Lose(r) \/ Appear(r) \/ Vanish(r)
    \/ \E S \in SUBSET Resources : Perish(S)

Spec == Init /\ [][Next]_vars

=============================================================================
