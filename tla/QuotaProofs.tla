----------------------------- MODULE QuotaProofs -----------------------------
(***************************************************************************)
(* QuotaMonitor for every set of handlers, limits and actions and every    *)
(* bound: its types, why used_bytes counts no byte twice and loses none    *)
(* while the counters are steady, and when the latch may be set.           *)
(***************************************************************************)
EXTENDS QuotaMonitor, TLAPS

\* What a direction adds to used_bytes is never negative.
LEMMA DeltaType ==
  ASSUME TypeOK, q # NoQuota, NEW d \in Dirs
  PROVE  Delta(d) \in Nat
<1>1. reading[d] \in Nat
  BY DEF TypeOK, Bytes
<1>2. q.last \in Bytes /\ q.polled \in BOOLEAN
  BY DEF TypeOK, Quota
<1>3. q.last[d] \in Nat
  BY <1>2 DEF Bytes
<1> QED
  BY <1>1, <1>3 DEF Delta

\* The row UpdateCounters writes back is a row.
LEMMA SampledType ==
  ASSUME TypeOK, q # NoQuota
  PROVE  Sampled \in Quota /\ Used \in Nat
<1>1. Delta("rx") \in Nat /\ Delta("tx") \in Nat
  BY DeltaType DEF Dirs
<1>2. q \in Quota
  BY DEF TypeOK
<1>3. Used \in Nat
  BY <1>1, <1>2 DEF Used, Quota
<1>4. Latched \in BOOLEAN /\ Triggers \in BOOLEAN
  BY <1>2 DEF Latched, Triggers, Quota
<1>5. now \in Nat /\ reading \in Bytes
  BY DEF TypeOK
<1> QED
  BY <1>2, <1>3, <1>4, <1>5 DEF Sampled, Quota

\* The initial values have their types.
LEMMA TypeInit == Init => TypeOK
<1>1. Zero \in Bytes
  BY DEF Zero, Bytes
<1> SUFFICES ASSUME Init PROVE TypeOK
  OBVIOUS
<1>2. /\ spc \in [Setters -> {"idle", "read"}]
      /\ existing \in [Setters -> View \union {NoQuota}]
  BY DEF Init
<1>3. /\ counter \in Bytes /\ reading \in Bytes /\ since \in Bytes /\ sinceRead \in Bytes
      /\ q \in Quota \union {NoQuota} /\ mpc \in {"idle", "read", "act"}
      /\ action \in Actions \union {"none"}
  BY <1>1 DEF Init
<1>4. month \in Nat /\ now \in Nat /\ sent \in Nat /\ covered \in Int /\ crashes \in Nat
  BY DEF Init
<1>5. up \in BOOLEAN /\ stopped \in BOOLEAN /\ detached \in BOOLEAN /\ raced \in BOOLEAN
  BY DEF Init
<1> QED
  BY <1>2, <1>3, <1>4, <1>5 DEF TypeOK

\* The total of the two directions is a number.
LEMMA GapType == TypeOK => Gap \in Int
BY DEF TypeOK, Gap, Total, Bytes, Dirs

\* Every step of the monitor, of the handlers and of the instance keeps the types.
LEMMA TypeStep == TypeOK /\ [Next]_vars => TypeOK'
<1> SUFFICES ASSUME TypeOK, [Next]_vars PROVE TypeOK'
  OBVIOUS
<1> USE DEF TypeOK, instance, locals, setters, history
<1>0. Zero \in Bytes
  BY DEF Zero, Bytes
<1>1. CASE Read
  BY <1>0, <1>1 DEF Read
<1>2. CASE Count
  <2>1. (mpc \in {"idle", "read", "act"} /\ action \in Actions \union {"none"})'
    BY <1>2 DEF Count, Decide, Quota
  <2>2. q' \in Quota \union {NoQuota} /\ since' \in Bytes /\ covered' \in Int
    BY <1>2, SampledType, GapType DEF Count
  <2> QED
    BY <1>0, <1>2, <2>1, <2>2 DEF Count, Forget
<1>3. CASE CountFails
  <2>1. (mpc \in {"idle", "read", "act"} /\ action \in Actions \union {"none"})'
    BY <1>3 DEF CountFails, Decide, Quota
  <2> QED
    BY <1>0, <1>3, <2>1 DEF CountFails, Forget
<1>4. CASE Act \/ ActFails
  BY <1>0, <1>4 DEF Act, ActFails, GoDown, Freeze
<1>5. ASSUME NEW s \in Setters, SetReads(s) PROVE TypeOK'
  <2>1. ViewOf(q) \in View \union {NoQuota}
    BY DEF ViewOf, Quota, View
  <2> QED
    BY <1>5, <2>1 DEF SetReads
<1>6. ASSUME NEW s \in Setters, NEW in \in Terms, SetWrites(s, in) PROVE TypeOK'
  <2> DEFINE old == existing[s]
  <2>1. Inserted(in) \in Quota
    BY <1>0 DEF Inserted, Terms, Quota
  <2>2. old # NoQuota /\ q # NoQuota => Updated(in, old) \in Quota
    BY DEF Updated, Rearms, Terms, Quota, View
  <2>3. ~(old = NoQuota /\ q = NoQuota) => UNCHANGED history
    BY <1>6 DEF SetWrites
  <2>4. q' \in Quota \union {NoQuota} /\ since' \in Bytes /\ covered' \in Int
    BY <1>0, <1>6, <2>1, <2>2, <2>3 DEF SetWrites
  <2>5. raced' \in BOOLEAN
    BY <1>6 DEF SetWrites
  <2> QED
    BY <1>6, <2>4, <2>5 DEF SetWrites
<1>7. CASE Reset
  <2>1. q \in Quota
    BY <1>7 DEF Reset
  <2>2. q' = [q EXCEPT !.used = 0, !.resetAt = month, !.triggered = FALSE] /\ covered' = 0
    BY <1>7 DEF Reset
  <2>3. month \in Nat
    OBVIOUS
  <2>4. q' \in Quota
    BY <2>1, <2>2, <2>3 DEF Quota
  <2> QED
    BY <1>7, <2>2, <2>4 DEF Reset
<1>8. CASE Delete
  BY <1>0, <1>8 DEF Delete
<1>9. ASSUME NEW d \in Dirs, Traffic(d) PROVE TypeOK'
  BY <1>9 DEF Traffic, Bytes
<1>10. ASSUME NEW d \in Dirs, Detach(d) PROVE TypeOK'
  BY <1>10 DEF Detach, Bytes
<1>11. CASE Stop \/ Start \/ NextMonth
  <2>1. CASE Stop
    <3>1. up' \in BOOLEAN /\ counter' \in Bytes /\ stopped' \in BOOLEAN
      BY <1>0, <2>1 DEF Stop, GoDown, Freeze
    <3> QED
      BY <2>1, <3>1 DEF Stop
  <2>2. CASE Start
    BY <2>2 DEF Start
  <2>3. CASE NextMonth
    BY <2>3 DEF NextMonth
  <2> QED
    BY <1>11, <2>1, <2>2, <2>3
<1>12. CASE Crash
  BY <1>0, <1>12 DEF Crash, Forget
<1>13. CASE UNCHANGED vars
  BY <1>13 DEF vars
<1> QED
  BY <1>1, <1>2, <1>3, <1>4, <1>5, <1>6, <1>7, <1>8, <1>9, <1>10, <1>11, <1>12, <1>13 DEF Next

\* The quota row and the variables of the monitor and the handlers keep to the
\* types of the Go structs and the SQL columns; in particular used_bytes never
\* gets negative.
THEOREM QuotaTypes == Spec => []TypeOK
BY TypeInit, TypeStep, PTL DEF Spec

-----------------------------------------------------------------------------
(* What used_bytes counts *)

\* A sample adds no more than what was sent between the last one and it, and
\* just that when no counter went back.
LEMMA DeltaBound ==
  ASSUME TypeOK, RowFollows, q # NoQuota, q.polled, mpc = "read", NEW d \in Dirs
  PROVE  /\ Delta(d) <= since[d] - sinceRead[d]
         /\ ~stopped => Delta(d) = since[d] - sinceRead[d]
<1>1. reading[d] \in Nat /\ since[d] \in Nat /\ sinceRead[d] \in Nat
  BY DEF TypeOK, Bytes
<1>2. q.last \in Bytes
  BY DEF TypeOK, Quota
<1>3. q.last[d] \in Nat
  BY <1>2 DEF Bytes
<1>4. sinceRead[d] <= since[d] /\ Follows(reading[d], q.last[d], since[d] - sinceRead[d])
  BY DEF RowFollows
<1> QED
  BY <1>1, <1>3, <1>4 DEF Delta, Follows

\* UpdateCounters keeps the account.
LEMMA CountAccounting ==
  ASSUME TypeOK, ReadingFollows, RowFollows, Count
  PROVE  ReadingFollows' /\ RowFollows'
<1>1. mpc = "read" /\ mpc' # "read" /\ UNCHANGED << counter, stopped >>
  BY DEF Count, Decide, instance
<1>2. CASE q = NoQuota
  BY <1>1, <1>2 DEF Count, ReadingFollows, RowFollows
<1>3. CASE q # NoQuota
  <2>1. q \in Quota /\ covered \in Int
    BY <1>3 DEF TypeOK
  <2>2. q' = Sampled /\ since' = sinceRead
    BY <1>3 DEF Count
  <2>3. covered' = IF ~q.polled THEN 0 ELSE (IF NewPeriod THEN 0 ELSE covered) + Gap
    BY <1>3 DEF Count
  <2>4. q'.used = Used /\ q'.last = reading /\ q'.polled
    BY <2>1, <2>2 DEF Sampled, Quota
  <2>5. \A d \in Dirs : Delta(d) \in Nat /\ since[d] \in Nat /\ sinceRead[d] \in Nat
    BY <1>3, DeltaType DEF TypeOK, Bytes
  <2>6. q'.used <= covered' /\ (~stopped => q'.used = covered')
    <3>1. CASE ~q.polled
      <4>1. Used = 0
        BY <1>3, <2>1, <3>1 DEF Used, Delta, RowFollows
      <4> QED
        BY <2>3, <2>4, <3>1, <4>1
    <3>2. CASE q.polled
      <4>1. \A d \in Dirs : /\ Delta(d) <= since[d] - sinceRead[d]
                            /\ ~stopped => Delta(d) = since[d] - sinceRead[d]
        BY <1>1, <1>3, <3>2, DeltaBound
      <4>2. q.used \in Nat /\ q.used <= covered /\ (~stopped => q.used = covered)
        BY <1>3, <2>1 DEF RowFollows, Quota
      <4>3. "rx" \in Dirs /\ "tx" \in Dirs
        BY DEF Dirs
      <4>4. covered' = (IF NewPeriod THEN 0 ELSE covered) + Gap
        BY <2>3, <3>2
      <4>5. CASE NewPeriod
        BY <2>1, <2>4, <2>5, <4>1, <4>3, <4>4, <4>5 DEF Used, Gap, Total
      <4>6. CASE ~NewPeriod
        BY <2>1, <2>4, <2>5, <4>1, <4>2, <4>3, <4>4, <4>6 DEF Used, Gap, Total
      <4> QED
        BY <4>5, <4>6
    <3> QED
      BY <3>1, <3>2
  <2>7. \A d \in Dirs : Follows(counter[d], q.last[d], since[d])'
    BY <1>1, <2>2, <2>4 DEF ReadingFollows, Follows
  <2> QED
    BY <1>1, <2>4, <2>6, <2>7 DEF ReadingFollows, RowFollows
<1> QED
  BY <1>2, <1>3

\* A step that touches neither the row nor the counters nor the monitor, or
\* only ends what the monitor is doing, keeps the account.
LEMMA AccountingUndisturbed ==
  ASSUME ReadingFollows, RowFollows, UNCHANGED << counter, stopped, since, covered >>,
         q' = q \/ q' = NoQuota,
         mpc' # "read" \/ UNCHANGED << mpc, reading, sinceRead >>
  PROVE  ReadingFollows' /\ RowFollows'
BY DEF ReadingFollows, RowFollows, Follows

\* Every step keeps the account as long as no interface has left.
LEMMA AccountingStep == TypeOK /\ Accounting /\ [Next]_vars => Accounting'
<1> SUFFICES ASSUME TypeOK, Accounting, [Next]_vars, ~detached'
             PROVE  ReadingFollows' /\ RowFollows'
  BY DEF Accounting
<1> USE DEF instance, locals, setters, history
<1>1. ~detached
  <2>1. \A d \in Dirs : ~Detach(d)
    BY DEF Detach
  <2> QED
    BY <2>1 DEF Next, vars, Read, Count, CountFails, Act, ActFails, SetReads, SetWrites,
                Reset, Delete, Traffic, Stop, Start, NextMonth, Crash
<1>2. ReadingFollows /\ RowFollows
  BY <1>1 DEF Accounting
<1>3. CASE Read
  <2>1. \A d \in Dirs : counter[d] \in Nat /\ since[d] \in Nat /\ sinceRead'[d] = 0
    BY <1>3 DEF Read, TypeOK, Bytes, Zero
  <2>2. UNCHANGED << q, counter, stopped, since, covered >> /\ reading' = counter
    BY <1>3 DEF Read
  <2>3. ReadingFollows'
    BY <2>1, <2>2 DEF ReadingFollows, Follows
  <2> QED
    BY <1>2, <2>1, <2>2, <2>3 DEF RowFollows, Follows
<1>4. CASE Count
  BY <1>2, <1>4, CountAccounting
<1>5. CASE CountFails
  BY <1>2, <1>5, AccountingUndisturbed DEF CountFails, Decide
<1>6. CASE UNCHANGED << q, since, covered >> /\ (UNCHANGED << reading, sinceRead, mpc >> \/ mpc' # "read")
           /\ stopped' /\ counter' = Zero
  <2>1. \A d \in Dirs : since[d] \in Nat /\ sinceRead[d] \in Nat /\ counter'[d] = 0
    BY <1>6 DEF TypeOK, Bytes, Zero
  <2>2. ReadingFollows'
    BY <1>6, <2>1 DEF ReadingFollows, Follows
  <2>3. q # NoQuota => q.used <= covered
    BY <1>2 DEF RowFollows
  <2> QED
    BY <1>2, <1>6, <2>1, <2>2, <2>3 DEF RowFollows, Follows
<1>7. CASE Act
  <2>1. CASE UNCHANGED << counter, stopped >>
    BY <1>2, <1>7, <2>1, AccountingUndisturbed DEF Act
  <2>2. CASE ~UNCHANGED << counter, stopped >>
    BY <1>6, <1>7, <2>2 DEF Act, GoDown, Freeze
  <2> QED
    BY <2>1, <2>2
<1>8. CASE ActFails
  BY <1>2, <1>8, AccountingUndisturbed DEF ActFails
<1>9. ASSUME NEW s \in Setters, SetReads(s) PROVE ReadingFollows' /\ RowFollows'
  BY <1>2, <1>9, AccountingUndisturbed DEF SetReads
<1>10. ASSUME NEW s \in Setters, NEW in \in Terms, SetWrites(s, in)
       PROVE  ReadingFollows' /\ RowFollows'
  <2>1. UNCHANGED << mpc, counter, stopped, reading, sinceRead >>
    BY <1>10 DEF SetWrites
  <2>2. ReadingFollows'
    BY <1>2, <2>1 DEF ReadingFollows, Follows
  <2>3. CASE existing[s] = NoQuota /\ q = NoQuota
    <3>1. q' = Inserted(in) /\ covered' = 0
      BY <1>10, <2>3 DEF SetWrites
    <3> QED
      BY <2>2, <3>1 DEF RowFollows, Inserted
  <2>4. CASE existing[s] # NoQuota /\ q # NoQuota
    <3>1. q' = Updated(in, existing[s]) /\ UNCHANGED << since, covered >>
      BY <1>10, <2>4 DEF SetWrites
    <3>2. q \in Quota
      BY <2>4 DEF TypeOK
    <3>3. q'.used = q.used /\ q'.last = q.last /\ q'.polled = q.polled
      BY <3>1, <3>2 DEF Updated, Quota
    <3> QED
      BY <1>2, <2>1, <2>2, <2>4, <3>1, <3>3 DEF RowFollows, Follows
  <2>5. CASE ~(existing[s] = NoQuota /\ q = NoQuota) /\ ~(existing[s] # NoQuota /\ q # NoQuota)
    BY <1>2, <1>10, <2>5, AccountingUndisturbed DEF SetWrites
  <2> QED
    BY <2>3, <2>4, <2>5
<1>11. CASE Reset
  <2>1. q \in Quota
    BY <1>11 DEF TypeOK, Reset
  <2>2. q'.used = 0 /\ q'.last = q.last /\ q'.polled = q.polled
    BY <1>11, <2>1 DEF Reset, Quota
  <2>3. covered' = 0 /\ UNCHANGED << mpc, counter, stopped, reading, sinceRead, since >> /\ q # NoQuota
    BY <1>11 DEF Reset
  <2>4. ReadingFollows'
    BY <1>2, <2>3 DEF ReadingFollows, Follows
  <2> QED
    BY <1>2, <2>2, <2>3, <2>4 DEF RowFollows, Follows
<1>12. CASE Delete
  BY <1>2, <1>12 DEF Delete, ReadingFollows, RowFollows, Follows
<1>13. ASSUME NEW d \in Dirs, Traffic(d) PROVE ReadingFollows' /\ RowFollows'
  <2>1. \A e \in Dirs : /\ counter[e] \in Nat /\ since[e] \in Nat /\ sinceRead[e] \in Nat
                         /\ reading[e] \in Nat
    BY DEF TypeOK, Bytes
  <2>2. counter \in [Dirs -> Nat] /\ since \in [Dirs -> Nat] /\ sinceRead \in [Dirs -> Nat]
    BY DEF TypeOK, Bytes
  <2> DEFINE one(e) == IF e = d THEN 1 ELSE 0
  <2>3. \A e \in Dirs : counter'[e] = counter[e] + one(e)
    BY <1>13, <2>2 DEF Traffic
  <2>4. q # NoQuota => \A e \in Dirs : since'[e] = since[e] + one(e)
    BY <1>13, <2>2 DEF Traffic
  <2>5. mpc = "read" => \A e \in Dirs : sinceRead'[e] = sinceRead[e] + one(e)
    BY <1>13, <2>2 DEF Traffic
  <2>6. UNCHANGED << q, mpc, stopped, reading, covered >>
    BY <1>13 DEF Traffic
  <2>7. ReadingFollows'
    BY <1>2, <2>1, <2>3, <2>5, <2>6 DEF ReadingFollows, Follows
  <2>8. ASSUME q # NoQuota, q.polled, NEW e \in Dirs
        PROVE  /\ Follows(counter[e], q.last[e], since[e])'
               /\ mpc = "read" => (/\ sinceRead[e] <= since[e]
                                  /\ Follows(reading[e], q.last[e], since[e] - sinceRead[e]))'
    <3>1. q.last \in Bytes
      BY <2>8 DEF TypeOK, Quota
    <3>2. q.last[e] \in Nat
      BY <3>1 DEF Bytes
    <3>3. /\ Follows(counter[e], q.last[e], since[e])
          /\ mpc = "read" => /\ sinceRead[e] <= since[e]
                            /\ Follows(reading[e], q.last[e], since[e] - sinceRead[e])
      BY <1>2, <2>8 DEF RowFollows
    <3>4. since'[e] = since[e] + one(e) /\ counter'[e] = counter[e] + one(e) /\ one(e) \in Nat
      BY <2>3, <2>4, <2>8
    <3>5. mpc = "read" => sinceRead'[e] = sinceRead[e] + one(e)
      BY <2>5
    <3> HIDE DEF one
    <3> QED
      BY <2>1, <2>6, <3>2, <3>3, <3>4, <3>5 DEF Follows
  <2> HIDE DEF one
  <2> QED
    BY <1>2, <2>6, <2>7, <2>8 DEF RowFollows
<1>14. CASE Stop
  <2>1. CASE GoDown
    BY <1>6, <1>14, <2>1 DEF Stop, GoDown
  <2>2. CASE Freeze
    BY <1>2, <1>14, <2>2, AccountingUndisturbed DEF Stop, Freeze
  <2> QED
    BY <1>14, <2>1, <2>2 DEF Stop
<1>15. CASE Start
  BY <1>2, <1>15, AccountingUndisturbed DEF Start
<1>16. CASE NextMonth
  BY <1>2, <1>16, AccountingUndisturbed DEF NextMonth
<1>17. CASE Crash
  BY <1>2, <1>17, AccountingUndisturbed DEF Crash
<1>18. CASE UNCHANGED vars
  BY <1>2, <1>18, AccountingUndisturbed DEF vars
<1>19. ASSUME NEW d \in Dirs, Detach(d) PROVE FALSE
  BY <1>19 DEF Detach
<1> QED
  BY <1>3, <1>4, <1>5, <1>7, <1>8, <1>9, <1>10, <1>11, <1>12, <1>13, <1>14, <1>15, <1>16,
     <1>17, <1>18, <1>19 DEF Next

\* Nothing is counted yet in an initial state.
LEMMA AccountingInit == Init => Accounting
BY DEF Init, Accounting, ReadingFollows, RowFollows

\* The counters, the reading of checkOne and the last sample stay in step.
THEOREM AccountKept == Spec => []Accounting
BY AccountingInit, AccountingStep, QuotaTypes, PTL DEF Spec

\* used_bytes never exceeds the traffic of the time it covers, for any number of
\* restarts, resets, month ends and edits.
THEOREM NothingCountedTwice == Spec => []NeverOvercounts
<1>1. Accounting => NeverOvercounts
  BY DEF Accounting, RowFollows, NeverOvercounts
<1> QED
  BY <1>1, AccountKept, PTL

\* used_bytes is that traffic as long as the counters never went back.
THEOREM NothingMissed == Spec => []ExactWhileSteady
<1>1. Accounting => ExactWhileSteady
  BY DEF Accounting, RowFollows, ExactWhileSteady
<1> QED
  BY <1>1, AccountKept, PTL

\* The traffic the samples cover and the traffic after them are traffic of the instance:
\* no byte is in both.
Backed ==
  /\ covered + Total(since) <= sent
  /\ Total(since) <= sent /\ Total(sinceRead) <= sent

\* A step that adds no traffic to what is covered or waits to be keeps it backed.
LEMMA BackedUndisturbed ==
  ASSUME Backed, sent' = sent, covered' = covered, since' = since,
         sinceRead' \in {sinceRead, Zero}, sent \in Nat
  PROVE  Backed'
BY DEF Backed, Total, Zero, Dirs

\* Any step keeps it backed.
LEMMA BackedStep == TypeOK /\ Backed /\ [Next]_vars => Backed'
<1> SUFFICES ASSUME TypeOK, Backed, [Next]_vars PROVE Backed'
  OBVIOUS
<1> USE DEF instance, locals, setters, history
<1>1. /\ sent \in Nat /\ covered \in Int
      /\ since["rx"] \in Nat /\ since["tx"] \in Nat
      /\ sinceRead["rx"] \in Nat /\ sinceRead["tx"] \in Nat
  BY DEF TypeOK, Bytes, Dirs
<1>2. Total(Zero) = 0
  BY DEF Total, Zero, Dirs
<1>3. ASSUME sent' = sent, covered' = 0, since' \in {since, Zero}, sinceRead' = sinceRead
      PROVE  Backed'
  <2>1. CASE since' = since
    BY <1>1, <1>3, <2>1 DEF Backed, Total
  <2>2. CASE since' = Zero
    BY <1>1, <1>2, <1>3, <2>2 DEF Backed, Total
  <2> QED
    BY <1>3, <2>1, <2>2
<1>4. CASE Read \/ CountFails \/ Act \/ ActFails \/ Crash
  <2>1. /\ UNCHANGED << covered, since >> /\ sinceRead' \in {sinceRead, Zero}
    BY <1>4 DEF Read, CountFails, Act, ActFails, Crash, Forget
  <2>2. sent' = sent
    BY <1>4 DEF Read, CountFails, Act, ActFails, Crash, GoDown, Freeze
  <2> QED
    BY <1>1, <2>1, <2>2, BackedUndisturbed
<1>5. CASE Count
  <2>1. sent' = sent /\ sinceRead' = Zero
    BY <1>5 DEF Count, Forget
  <2>2. CASE q = NoQuota
    BY <1>1, <1>5, <2>1, <2>2, BackedUndisturbed DEF Count
  <2>3. CASE q # NoQuota
    <3>1. /\ since' = sinceRead
          /\ covered' \in {0, 0 + Gap, covered + Gap}
      BY <1>5, <2>3 DEF Count
    <3>2. covered' + Total(since') <= sent /\ Total(since') <= sent
      BY <1>1, <3>1 DEF Backed, Gap, Total
    <3>3. Total(sinceRead') = 0
      BY <1>2, <2>1 DEF Total
    <3> QED
      BY <1>1, <2>1, <3>2, <3>3 DEF Backed, Total
  <2> QED
    BY <2>2, <2>3
<1>6. ASSUME NEW s \in Setters, SetReads(s) \/ \E in \in Terms : SetWrites(s, in)
      PROVE  Backed'
  BY <1>1, <1>3, <1>6, BackedUndisturbed DEF SetReads, SetWrites
<1>7. CASE Reset \/ Delete
  BY <1>3, <1>7 DEF Reset, Delete
<1>8. ASSUME NEW d \in Dirs, Traffic(d)
      PROVE  Backed'
  <2>1. /\ since \in Bytes /\ sinceRead \in Bytes /\ sent' = sent + 1 /\ covered' = covered
        /\ since' \in {since, [since EXCEPT ![d] = @ + 1]}
        /\ sinceRead' \in {sinceRead, [sinceRead EXCEPT ![d] = @ + 1]}
    BY <1>8 DEF Traffic, TypeOK
  <2>2. Total(since') <= Total(since) + 1 /\ Total(sinceRead') <= Total(sinceRead) + 1
    BY <1>1, <2>1 DEF Total, Bytes, Dirs
  <2>3. /\ since'["rx"] \in Nat /\ since'["tx"] \in Nat
        /\ sinceRead'["rx"] \in Nat /\ sinceRead'["tx"] \in Nat
    BY <1>1, <2>1 DEF Bytes, Dirs
  <2> QED
    BY <1>1, <2>1, <2>2, <2>3 DEF Backed, Total
<1>9. ASSUME NEW d \in Dirs, Detach(d)
      PROVE  Backed'
  BY <1>1, <1>9, BackedUndisturbed DEF Detach
<1>10. CASE Stop \/ Start \/ NextMonth
  BY <1>1, <1>10, BackedUndisturbed DEF Stop, Start, NextMonth, GoDown, Freeze
<1>11. CASE UNCHANGED vars
  BY <1>1, <1>11, BackedUndisturbed DEF vars
<1> QED
  BY <1>4, <1>5, <1>6, <1>7, <1>8, <1>9, <1>10, <1>11 DEF Next

\* Nobody is charged for traffic there was not: what is counted and what waits to be counted
\* never exceed what the instance sent and received in its life.
THEOREM ChargedForTraffic ==
  Spec => [](q # NoQuota /\ ~ detached => q.used + Total(since) <= sent)
<1>1. Init => Backed
  BY DEF Init, Backed, Total, Zero, Dirs
<1>2. TypeOK /\ Backed /\ NeverOvercounts
        => (q # NoQuota /\ ~ detached => q.used + Total(since) <= sent)
  <2>1. ASSUME TypeOK, Backed, NeverOvercounts, q # NoQuota, ~ detached
        PROVE  q.used + Total(since) <= sent
    <3>1. q.used <= covered
      BY <2>1 DEF NeverOvercounts
    <3>2. /\ sent \in Nat /\ covered \in Int /\ q.used \in Nat
          /\ since["rx"] \in Nat /\ since["tx"] \in Nat
      BY <2>1 DEF TypeOK, Bytes, Dirs, Quota
    <3> QED
      BY <2>1, <3>1, <3>2 DEF Backed, Total
  <2> QED
    BY <2>1
<1> QED
  BY <1>1, <1>2, BackedStep, QuotaTypes, NothingCountedTwice, PTL DEF Spec

-----------------------------------------------------------------------------
(* The latch *)

\* A step that leaves the row and the history of the races alone, or deletes the
\* row, keeps the latch.
LEMMA LatchUndisturbed ==
  ASSUME LatchMeansOver, q' = q \/ q' = NoQuota, raced' = raced
  PROVE  LatchMeansOver'
BY DEF LatchMeansOver

\* A sample latches a quota only when it brings it to its limit, and one that is
\* latched already only grows.
LEMMA LatchCount ==
  ASSUME TypeOK, LatchMeansOver, Count
  PROVE  LatchMeansOver'
<1>1. CASE q = NoQuota
  BY <1>1, LatchUndisturbed DEF Count
<1>2. CASE q # NoQuota
  <2>1. q \in Quota /\ Delta("rx") \in Nat /\ Delta("tx") \in Nat
    BY <1>2, DeltaType DEF TypeOK, Dirs
  <2>2. q' = Sampled /\ raced' = raced
    BY <1>2 DEF Count
  <2>3. q'.used = Used /\ q'.limit = q.limit /\ q'.triggered = (Latched \/ Triggers)
    BY <2>1, <2>2 DEF Sampled, Quota
  <2>4. q.limit \in Nat /\ q.used \in Nat /\ Used \in Nat
    BY <1>2, <2>1, SampledType, LimitsAssumption DEF Quota
  <2>5. CASE Triggers
    BY <2>3, <2>5 DEF LatchMeansOver, Triggers
  <2>6. CASE Latched /\ ~raced
    <3>1. q.used >= q.limit /\ ~NewPeriod
      BY <1>2, <2>6 DEF LatchMeansOver, Latched
    <3>2. Used >= q.limit
      BY <2>1, <2>4, <3>1 DEF Used
    <3> QED
      BY <2>3, <3>2 DEF LatchMeansOver
  <2> QED
    BY <2>2, <2>3, <2>5, <2>6 DEF LatchMeansOver
<1> QED
  BY <1>1, <1>2

\* A PUT that wrote back what was still there keeps the latch only under a limit
\* that is no higher.
LEMMA LatchSet ==
  ASSUME TypeOK, LatchMeansOver, NEW s \in Setters, NEW in \in Terms, SetWrites(s, in)
  PROVE  LatchMeansOver'
<1> DEFINE old == existing[s]
<1>1. CASE old = NoQuota /\ q = NoQuota
  BY <1>1 DEF SetWrites, Inserted, LatchMeansOver
<1>2. CASE old # NoQuota /\ q # NoQuota
  <2>1. q \in Quota /\ old \in View /\ q' = Updated(in, old)
    BY <1>2 DEF TypeOK, SetWrites
  <2>2. /\ q'.limit = in.limit /\ q'.used = q.used
        /\ q'.triggered => ~Rearms(in, old) /\ old.triggered
    BY <2>1 DEF Updated, Quota
  <2>3. SUFFICES ASSUME q'.triggered, ~raced' PROVE q'.used >= q'.limit
    BY DEF LatchMeansOver
  <2>4. ViewOf(q) = old /\ ~raced
    BY <1>2, <2>3 DEF SetWrites, TypeOK
  <2>5. q.limit = old.limit /\ q.triggered
    BY <1>2, <2>2, <2>3, <2>4 DEF ViewOf
  <2>6. q.limit \in Nat /\ in.limit \in Nat /\ q.used \in Nat
    BY <2>1, LimitsAssumption DEF Quota, Terms
  <2>7. q.used >= q.limit
    BY <1>2, <2>4, <2>5 DEF LatchMeansOver
  <2> QED
    BY <2>2, <2>3, <2>5, <2>6, <2>7 DEF Rearms
<1>3. CASE ~(old = NoQuota /\ q = NoQuota) /\ ~(old # NoQuota /\ q # NoQuota)
  BY <1>3, LatchUndisturbed DEF SetWrites
<1> QED
  BY <1>1, <1>2, <1>3

\* Every step keeps the latch honest.
LEMMA LatchStep == TypeOK /\ LatchMeansOver /\ [Next]_vars => LatchMeansOver'
<1> SUFFICES ASSUME TypeOK, LatchMeansOver, [Next]_vars PROVE LatchMeansOver'
  OBVIOUS
<1>1. CASE Read \/ CountFails \/ Act \/ ActFails
  BY <1>1, LatchUndisturbed DEF Read, CountFails, Act, ActFails
<1>2. CASE Count
  BY <1>2, LatchCount
<1>3. ASSUME NEW s \in Setters, SetReads(s) PROVE LatchMeansOver'
  BY <1>3, LatchUndisturbed DEF SetReads
<1>4. ASSUME NEW s \in Setters, NEW in \in Terms, SetWrites(s, in) PROVE LatchMeansOver'
  BY <1>4, LatchSet
<1>5. CASE Reset
  <2>1. q \in Quota
    BY <1>5 DEF Reset, TypeOK
  <2>2. ~q'.triggered
    BY <1>5, <2>1 DEF Reset, Quota
  <2> QED
    BY <2>2 DEF LatchMeansOver
<1>6. CASE Delete
  BY <1>6, LatchUndisturbed DEF Delete
<1>7. ASSUME NEW d \in Dirs, Traffic(d) \/ Detach(d) PROVE LatchMeansOver'
  BY <1>7, LatchUndisturbed DEF Traffic, Detach
<1>8. CASE Stop \/ Start \/ NextMonth \/ Crash
  BY <1>8, LatchUndisturbed DEF Stop, Start, NextMonth, Crash
<1>9. CASE UNCHANGED vars
  BY <1>9, LatchUndisturbed DEF vars
<1> QED
  BY <1>1, <1>2, <1>3, <1>4, <1>5, <1>6, <1>7, <1>8, <1>9 DEF Next

\* There is no row to be latched in an initial state.
LEMMA LatchInit == Init => LatchMeansOver
BY DEF Init, LatchMeansOver

\* Whatever the limits, edits and samples, the latch is set on a quota that is
\* over its limit, unless two quota writers raced.
THEOREM LatchIsHonest == Spec => []LatchMeansOver
BY LatchInit, LatchStep, QuotaTypes, PTL DEF Spec

-----------------------------------------------------------------------------
(* The meter *)

\* Nothing is counted before the first sample, and checkOne's reading, once a sample was
\* counted, is no older than that one - whether or not the counters can be trusted.
SamplesInOrder ==
  /\ q = NoQuota => since = Zero
  /\ q # NoQuota =>
       /\ ~q.polled => q.used = 0
       /\ q.polled /\ mpc = "read" => \A d \in Dirs : sinceRead[d] <= since[d]

\* A step that leaves the row, and what was read or counted of it, alone keeps the order.
LEMMA OrderUndisturbed ==
  ASSUME SamplesInOrder, UNCHANGED << q, since >>,
         mpc' # "read" \/ UNCHANGED << mpc, sinceRead >>
  PROVE  SamplesInOrder'
BY DEF SamplesInOrder

\* Every step keeps the samples in order.
LEMMA OrderStep == TypeOK /\ SamplesInOrder /\ [Next]_vars => SamplesInOrder'
<1> SUFFICES ASSUME TypeOK, SamplesInOrder, [Next]_vars PROVE SamplesInOrder'
  OBVIOUS
<1> USE DEF instance, locals, setters, history
<1>1. CASE Read
  <2>1. \A d \in Dirs : since[d] \in Nat /\ sinceRead'[d] = 0
    BY <1>1 DEF Read, TypeOK, Bytes, Zero
  <2> QED
    BY <1>1, <2>1 DEF Read, SamplesInOrder
<1>2. CASE Count
  <2>1. mpc' # "read"
    BY <1>2 DEF Count, Decide
  <2>2. CASE q = NoQuota
    BY <1>2, <2>1, <2>2, OrderUndisturbed DEF Count
  <2>3. CASE q # NoQuota
    <3>1. q \in Quota /\ q' = Sampled
      BY <1>2, <2>3 DEF Count, TypeOK
    <3>2. q'.polled /\ q' # NoQuota
      BY <1>2, <2>3, <3>1, SampledType, NoQuotaAssumption DEF Sampled, Quota
    <3> QED
      BY <2>1, <3>2 DEF SamplesInOrder
  <2> QED
    BY <2>2, <2>3
<1>3. CASE CountFails \/ Act \/ ActFails
  BY <1>3, OrderUndisturbed DEF CountFails, Act, ActFails, Decide
<1>4. ASSUME NEW s \in Setters, SetReads(s) PROVE SamplesInOrder'
  BY <1>4, OrderUndisturbed DEF SetReads
<1>5. ASSUME NEW s \in Setters, NEW in \in Terms, SetWrites(s, in) PROVE SamplesInOrder'
  <2>1. UNCHANGED << mpc, sinceRead >>
    BY <1>5 DEF SetWrites
  <2>2. CASE existing[s] = NoQuota /\ q = NoQuota
    <3>1. q' = Inserted(in) /\ ~q'.polled /\ q'.used = 0
      BY <1>5, <2>2 DEF SetWrites, Inserted
    <3>2. since' = Zero
      BY <1>5, <2>2 DEF SetWrites
    <3> QED
      BY <3>1, <3>2 DEF SamplesInOrder
  <2>3. CASE existing[s] # NoQuota /\ q # NoQuota
    <3>1. q \in Quota /\ q' = Updated(in, existing[s]) /\ since' = since
      BY <1>5, <2>3 DEF SetWrites, TypeOK
    <3>2. q'.used = q.used /\ q'.polled = q.polled /\ q' \in Quota
      BY <1>5, <2>3, <3>1 DEF Updated, Quota, Terms, View, TypeOK
    <3> QED
      BY <2>1, <2>3, <3>1, <3>2, NoQuotaAssumption DEF SamplesInOrder
  <2>4. CASE ~(existing[s] = NoQuota /\ q = NoQuota) /\ ~(existing[s] # NoQuota /\ q # NoQuota)
    BY <1>5, <2>1, <2>4, OrderUndisturbed DEF SetWrites
  <2> QED
    BY <2>2, <2>3, <2>4
<1>6. CASE Reset
  <2>1. q \in Quota /\ q # NoQuota /\ UNCHANGED << since, mpc, sinceRead >>
    BY <1>6 DEF Reset, TypeOK
  <2>2. q'.used = 0 /\ q'.polled = q.polled /\ q' \in Quota
    BY <1>6, <2>1 DEF Reset, Quota, TypeOK
  <2> QED
    BY <2>1, <2>2, NoQuotaAssumption DEF SamplesInOrder
<1>7. CASE Delete
  BY <1>7 DEF Delete, SamplesInOrder
<1>8. ASSUME NEW d \in Dirs, Traffic(d) PROVE SamplesInOrder'
  <2>1. since \in [Dirs -> Nat] /\ sinceRead \in [Dirs -> Nat] /\ UNCHANGED << q, mpc >>
    BY <1>8 DEF TypeOK, Bytes, Traffic
  <2>2. CASE q = NoQuota
    BY <1>8, <2>1, <2>2 DEF Traffic, SamplesInOrder
  <2>3. CASE q # NoQuota
    <3>1. ASSUME q.polled, mpc = "read", NEW e \in Dirs PROVE sinceRead'[e] <= since'[e]
      <4>1. sinceRead[e] <= since[e]
        BY <2>3, <3>1 DEF SamplesInOrder
      <4>2. /\ since' = [since EXCEPT ![d] = @ + 1]
            /\ sinceRead' = [sinceRead EXCEPT ![d] = @ + 1]
        BY <1>8, <2>3, <3>1 DEF Traffic
      <4> QED
        BY <2>1, <4>1, <4>2
    <3> QED
      BY <2>1, <2>3, <3>1 DEF SamplesInOrder
  <2> QED
    BY <2>2, <2>3
<1>9. ASSUME NEW d \in Dirs, Detach(d) PROVE SamplesInOrder'
  BY <1>9, OrderUndisturbed DEF Detach
<1>10. CASE Stop \/ Start \/ NextMonth \/ Crash
  BY <1>10, OrderUndisturbed DEF Stop, Start, NextMonth, Crash
<1>11. CASE UNCHANGED vars
  BY <1>11, OrderUndisturbed DEF vars
<1> QED
  BY <1>1, <1>2, <1>3, <1>4, <1>5, <1>6, <1>7, <1>8, <1>9, <1>10, <1>11 DEF Next

\* A sample that is counted, after whatever happened since it was read, is a sample of the
\* meter.
LEMMA CountIsSample ==
  ASSUME TypeOK, Accounting, SamplesInOrder, Count, q # NoQuota
  PROVE  Meter!Next
<1>1. /\ mpc = "read" /\ q \in Quota /\ q' = Sampled /\ since' = sinceRead
      /\ UNCHANGED << stopped, detached >>
  BY DEF Count, TypeOK, instance
<1>2. q' \in Quota /\ q'.used = Used /\ q'.polled /\ q' # NoQuota
  BY <1>1, SampledType, NoQuotaAssumption DEF Sampled, Quota
<1>3. q.used \in Nat /\ Used \in Nat /\ Delta("rx") \in Nat /\ Delta("tx") \in Nat
  BY <1>1, SampledType, DeltaType DEF Quota, Dirs
<1>4. \A d \in Dirs : since[d] \in Nat /\ sinceRead[d] \in Nat
  BY DEF TypeOK, Bytes
<1>5. "rx" \in Dirs /\ "tx" \in Dirs
  BY DEF Dirs
<1>6. Total(since) \in Nat /\ Total(sinceRead) \in Nat
  BY <1>4, <1>5 DEF Total
<1>7. CASE ~q.polled
  <2>1. q.used = 0 /\ Used = 0
    BY <1>7 DEF SamplesInOrder, Used, Delta
  <2>2. Meter!Begin
    BY <1>1, <1>2, <1>6, <1>7, <2>1 DEF Meter!Begin
  <2> QED
    BY <2>2 DEF Meter!Next
<1>8. CASE q.polled
  <2> DEFINE base == IF NewPeriod THEN 0 ELSE q.used
             taken == Total(since) - Total(sinceRead)
  <2>1. base \in {0, q.used} /\ base \in Nat /\ Used = base + Delta("rx") + Delta("tx")
    BY <1>3 DEF Used
  <2>2. Total(sinceRead) \in 0..Total(since)
    BY <1>1, <1>4, <1>5, <1>6, <1>8 DEF SamplesInOrder, Total
  <2>3. ASSUME ~detached
        PROVE  /\ Delta("rx") + Delta("tx") <= taken
               /\ ~stopped => Delta("rx") + Delta("tx") = taken
    <3>1. \A d \in Dirs : /\ Delta(d) <= since[d] - sinceRead[d]
                          /\ ~stopped => Delta(d) = since[d] - sinceRead[d]
      BY <1>1, <1>8, <2>3, DeltaBound DEF Accounting
    <3> QED
      BY <1>3, <1>4, <1>5, <3>1 DEF Total
  <2>4. /\ Used >= base
        /\ ~detached => Used <= base + taken
        /\ ~detached /\ ~stopped => Used = base + taken
    <3> HIDE DEF base
    <3> QED
      BY <1>3, <1>6, <2>1, <2>3
  <2> HIDE DEF base
  <2>5. Meter!Sample
    BY <1>1, <1>2, <1>8, <2>1, <2>2, <2>4 DEF Meter!Sample
  <2> QED
    BY <2>5 DEF Meter!Next
<1> QED
  BY <1>7, <1>8

\* Every step of the monitor, the handlers and the instance is a step of the meter or
\* changes nothing of it.
LEMMA MeterStep ==
  TypeOK /\ Accounting /\ SamplesInOrder /\ [Next]_vars => [Meter!Next]_(Meter!vars)
<1> SUFFICES ASSUME TypeOK, Accounting, SamplesInOrder, [Next]_vars
             PROVE  Meter!Next \/ UNCHANGED Meter!vars
  OBVIOUS
<1> USE DEF instance, locals, setters, history
<1>1. ASSUME UNCHANGED << q, since, stopped, detached >> PROVE UNCHANGED Meter!vars
  BY <1>1 DEF Meter!vars
<1>2. ASSUME UNCHANGED << q, since >>, stopped => stopped', detached => detached'
      PROVE  Meter!Next
  <2>1. stopped' \in BOOLEAN /\ detached' \in BOOLEAN
    BY TypeStep DEF TypeOK
  <2>2. Meter!Unsettle
    BY <1>2, <2>1 DEF Meter!Unsettle, TypeOK
  <2> QED
    BY <2>2 DEF Meter!Next
<1>3. CASE Read \/ CountFails \/ ActFails
  BY <1>1, <1>3 DEF Read, CountFails, ActFails
<1>4. CASE Count
  <2>1. CASE q = NoQuota
    BY <1>1, <1>4, <2>1 DEF Count
  <2>2. CASE q # NoQuota
    BY <1>4, <2>2, CountIsSample
  <2> QED
    BY <2>1, <2>2
<1>5. CASE Act
  BY <1>2, <1>5 DEF Act, GoDown, Freeze
<1>6. ASSUME NEW s \in Setters, SetReads(s) PROVE UNCHANGED Meter!vars
  BY <1>1, <1>6 DEF SetReads
<1>7. ASSUME NEW s \in Setters, NEW in \in Terms, SetWrites(s, in)
      PROVE  Meter!Next \/ UNCHANGED Meter!vars
  <2>1. UNCHANGED << stopped, detached >>
    BY <1>7 DEF SetWrites
  <2>2. CASE existing[s] = NoQuota /\ q = NoQuota
    <3>1. /\ q' = Inserted(in) /\ ~q'.polled /\ q'.used = 0 /\ since' = Zero /\ since = Zero
          /\ Inserted(in) \in Quota
      BY <1>7, <2>2 DEF SetWrites, Inserted, SamplesInOrder, Terms, Quota, TypeOK, Bytes, Zero
    <3>2. Meter!Open
      BY <2>1, <2>2, <3>1, NoQuotaAssumption DEF Meter!Open
    <3> QED
      BY <3>2 DEF Meter!Next
  <2>3. CASE existing[s] # NoQuota /\ q # NoQuota
    <3>1. q \in Quota /\ q' = Updated(in, existing[s]) /\ since' = since
      BY <1>7, <2>3 DEF SetWrites, TypeOK
    <3>2. q'.used = q.used /\ q'.polled = q.polled /\ q' \in Quota
      BY <1>7, <2>3, <3>1 DEF Updated, Quota, Terms, View, TypeOK
    <3> QED
      BY <2>1, <2>3, <3>1, <3>2, NoQuotaAssumption DEF Meter!vars
  <2>4. CASE ~(existing[s] = NoQuota /\ q = NoQuota) /\ ~(existing[s] # NoQuota /\ q # NoQuota)
    BY <1>1, <1>7, <2>1, <2>4 DEF SetWrites
  <2> QED
    BY <2>2, <2>3, <2>4
<1>8. CASE Reset
  <2>1. q \in Quota /\ q # NoQuota /\ UNCHANGED << since, stopped, detached >>
    BY <1>8 DEF Reset, TypeOK
  <2>2. q'.used = 0 /\ q'.polled = q.polled /\ q' \in Quota
    BY <1>8, <2>1 DEF Reset, Quota, TypeOK
  <2>3. Meter!Reset
    BY <2>1, <2>2, NoQuotaAssumption DEF Meter!Reset
  <2> QED
    BY <2>3 DEF Meter!Next
<1>9. CASE Delete
  <2>1. Total(Zero) = 0
    BY DEF Total, Zero, Dirs
  <2>2. Meter!Close
    BY <1>9, <2>1 DEF Delete, Meter!Close
  <2> QED
    BY <2>2 DEF Meter!Next
<1>10. ASSUME NEW d \in Dirs, Traffic(d) PROVE Meter!Next \/ UNCHANGED Meter!vars
  <2>1. UNCHANGED << q, stopped, detached >>
    BY <1>10 DEF Traffic
  <2>2. CASE q = NoQuota
    BY <1>1, <1>10, <2>1, <2>2 DEF Traffic
  <2>3. CASE q # NoQuota
    <3>1. since \in [Dirs -> Nat] /\ since' = [since EXCEPT ![d] = @ + 1]
      BY <1>10, <2>3 DEF Traffic, TypeOK, Bytes
    <3>2. Total(since') = Total(since) + 1
      BY <3>1 DEF Total, Dirs
    <3>3. Meter!Pass
      BY <2>1, <2>3, <3>2 DEF Meter!Pass
    <3> QED
      BY <3>3 DEF Meter!Next
  <2> QED
    BY <2>2, <2>3
<1>11. ASSUME NEW d \in Dirs, Detach(d) PROVE Meter!Next
  BY <1>2, <1>11 DEF Detach
<1>12. CASE Stop
  BY <1>2, <1>12 DEF Stop, GoDown, Freeze
<1>13. CASE Start \/ NextMonth \/ Crash
  BY <1>1, <1>13 DEF Start, NextMonth, Crash
<1>14. CASE UNCHANGED vars
  BY <1>1, <1>14 DEF vars
<1> QED
  BY <1>3, <1>4, <1>5, <1>6, <1>7, <1>8, <1>9, <1>10, <1>11, <1>12, <1>13, <1>14 DEF Next

\* The quota is a meter: every rise of used_bytes is paid with traffic that was not counted
\* yet, in full while the counters are steady, and it falls only with a reset, a new
\* period or a new quota.
THEOREM QuotaIsMeter == Spec => RefinesMeter
<1>1. Init => Meter!Init /\ SamplesInOrder
  <2>1. Total(Zero) = 0
    BY DEF Total, Zero, Dirs
  <2> QED
    BY <2>1 DEF Init, Meter!Init, SamplesInOrder
<1>2. TypeOK /\ SamplesInOrder /\ [Next]_vars => SamplesInOrder'
  BY OrderStep
<1>3. TypeOK /\ Accounting /\ SamplesInOrder /\ [Next]_vars => [Meter!Next]_(Meter!vars)
  BY MeterStep
<1> QED
  BY <1>1, <1>2, <1>3, QuotaTypes, AccountKept, PTL DEF Spec, RefinesMeter, Meter!Spec
=============================================================================
