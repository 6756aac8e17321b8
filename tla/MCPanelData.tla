---------------------------- MODULE MCPanelData ----------------------------
(***************************************************************************)
(* Instances of PanelData for TLC: every mutation, together with another   *)
(* one of the same data.                                                   *)
(***************************************************************************)
EXTENDS PanelData

MCKeys == {Changes[m].writes : m \in Mutations} \union {"operations"}
SameData(m) == {n \in Mutations : Writes(n) = Writes(m)}
Pairs == UNION {{{m, n} : n \in SameData(m)} : m \in Mutations}
Quiet == {m \in Mutations : Writes(m) \notin {"instances", "images"}}
MCVisits ==
  {v \in Pairs : v \subseteq Quiet} \union {{m} : m \in Mutations}
PullVisit == {{"pullImage"}}
VoidVisits == {{"deleteNetwork"}}
=============================================================================
