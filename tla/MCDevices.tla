------------------------------ MODULE MCDevices ------------------------------
(***************************************************************************)
(* Small instances of Devices, for TLC: a name that is given out again,    *)
(* and another one whose port is next to that of the name's first owner    *)
(* and the same as that of the second.                                     *)
(***************************************************************************)
EXTENDS Devices, TLC

CONSTANTS a1, a2, b, na, nb

\* Handlers are interchangeable.
SlotSymmetry == Permutations(Slots)

MCNameOf == [g \in Gens |-> IF g = b THEN nb ELSE na]
MCRange == [g \in Gens |-> IF g = a1 THEN [s |-> 1, e |-> 1] ELSE [s |-> 2, e |-> 2]]

\* A profile that limits nothing, and one that an administrator has put limits on.
MCCards == {[base |-> "br0", limits |-> "none"], [base |-> "br0", limits |-> "plan"]}
=============================================================================
