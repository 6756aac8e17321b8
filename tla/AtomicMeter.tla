---------------------------- MODULE AtomicMeter ----------------------------
(***************************************************************************)
(* What the traffic quota promises the owner of an instance, as if the     *)
(* counters were read and counted in one indivisible step: used_bytes is   *)
(* paid with traffic, each byte at most once, it rises with nothing else   *)
(* and falls with nothing but a reset, a new period and a new quota.       *)
(* QuotaMonitor (module QuotaMonitor) reads first, counts later, and has   *)
(* to live up to this with the handlers at work in between.                *)
(***************************************************************************)
EXTENDS Integers

VARIABLES
  metered,     \* the instance has a quota
  begun,       \* the quota has a first sample
  used,        \* bytes counted
  uncounted,   \* bytes of traffic since the last sample
  steady,      \* the counters of the instance never went back to 0
  intact       \* no interface took its share of the counters with it

vars == << metered, begun, used, uncounted, steady, intact >>

Init ==
  /\ metered = FALSE /\ begun = FALSE
  /\ used = 0 /\ uncounted = 0
  /\ steady = TRUE /\ intact = TRUE

Open ==
  /\ ~ metered /\ metered' = TRUE
  /\ UNCHANGED << begun, used, uncounted, steady, intact >>

Close ==
  /\ metered
  /\ metered' = FALSE /\ begun' = FALSE /\ used' = 0 /\ uncounted' = 0
  /\ UNCHANGED << steady, intact >>

Pass ==
  /\ metered
  /\ uncounted' = uncounted + 1
  /\ UNCHANGED << metered, begun, used, steady, intact >>

\* The first sample is where counting begins.  It may have been on its way when the
\* quota was set, and then leaves even older traffic to the second.
Begin ==
  /\ metered /\ ~ begun
  /\ begun' = TRUE /\ used = 0
  /\ uncounted' \in Nat
  /\ UNCHANGED << metered, used, steady, intact >>

\* A sample takes traffic from what is not counted yet and counts no more than it
\* takes, all of it while the counters are steady; a new period begins from 0.
Sample ==
  /\ metered /\ begun
  /\ uncounted' \in 0..uncounted
  /\ LET taken == uncounted - uncounted'
     IN  \E base \in {0, used} :
           /\ used' >= base
           /\ intact => used' <= base + taken
           /\ intact /\ steady => used' = base + taken
  /\ UNCHANGED << metered, begun, steady, intact >>

Reset ==
  /\ metered
  /\ used' = 0
  /\ UNCHANGED << metered, begun, uncounted, steady, intact >>

\* The counters begin anew, or an interface leaves.
Unsettle ==
  /\ steady' \in {steady, FALSE} /\ intact' \in {intact, FALSE}
  /\ UNCHANGED << metered, begun, used, uncounted >>

Next == Open \/ Close \/ Pass \/ Begin \/ Sample \/ Reset \/ Unsettle

Spec == Init /\ [][Next]_vars
=============================================================================
