--------------------------- MODULE MCRegistration ---------------------------
(***************************************************************************)
(* Small instances of Registration, for TLC.  Ports are small numbers; a   *)
(* plan sells segments of one to three ports or falls back to the pool's   *)
(* own length.                                                             *)
(***************************************************************************)
EXTENDS Registration, TLC

\* Calls are interchangeable: nothing orders ids.
IdSymmetry == Permutations(Ids)

\* One unit of two ports, three units on the pool's own number of ports, and a
\* plan that was sold without a limit and is off sale.
MCTerms ==
  { [stock |-> 1, ports |-> 2, enabled |-> TRUE],
    [stock |-> 3, ports |-> 0, enabled |-> TRUE],
    [stock |-> NoStock, ports |-> 2, enabled |-> FALSE] }

\* A plan without a limit that goes on and off sale.
MCOpenTerms ==
  { [stock |-> NoStock, ports |-> 1, enabled |-> TRUE],
    [stock |-> NoStock, ports |-> 1, enabled |-> FALSE] }

\* One plan without a limit, on segments of three ports.
MCLongTerms == { [stock |-> NoStock, ports |-> 3, enabled |-> TRUE] }

\* The pool an environment starts with and a shorter one it may come back with.
MCPools ==
  { [start |-> 1, end |-> 4, per |-> 1],
    [start |-> 2, end |-> 3, per |-> 2] }

\* Room for two of three calls.
MCTightPool == { [start |-> 1, end |-> 2, per |-> 1] }

\* A pool that is moved: rows of the high one survive into the low one.
MCMovedPools ==
  { [start |-> 1, end |-> 2, per |-> 1],
    [start |-> 5, end |-> 7, per |-> 1] }
=============================================================================
