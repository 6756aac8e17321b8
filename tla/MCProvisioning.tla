--------------------------- MODULE MCProvisioning ---------------------------
(***************************************************************************)
(* Small instances of Provisioning, for TLC: requests that want one name.  *)
(***************************************************************************)
EXTENDS Provisioning, TLC

CONSTANTS n1

\* Requests for the same name are interchangeable, and so are the deletes.
HandlerSymmetry == Permutations(Requests) \union Permutations(Deletes)

MCNameOf == [r \in Requests |-> n1]
=============================================================================
