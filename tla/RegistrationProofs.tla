------------------------- MODULE RegistrationProofs -------------------------
(***************************************************************************)
(* Registration for every set of calls, plans, terms and pools: its types, *)
(* and why the ports it hands out are never handed out twice.              *)
(***************************************************************************)
EXTENDS Registration, FiniteSetTheorems, WellFoundedInduction, TLAPS

\* The fallback request is a request: there is a plan to name.
LEMMA NoRequestType == NoRequest \in CreateInput
BY PlansAssumption DEF NoRequest, CreateInput, Stock

\* The segments SELECT returns are pairs of integers.
LEMMA SegmentsType == TypeOK => Segments \in SUBSET Segment
BY NoRowAssumption DEF TypeOK, Segments, Registered, Segment, Row

\* Every step of a call, and of what surrounds the calls, keeps the types.
LEMMA TypeStep == TypeOK /\ [Next]_vars => TypeOK'
<1> SUFFICES ASSUME TypeOK, [Next]_vars PROVE TypeOK'
  OBVIOUS
<1> USE DEF TypeOK, Goto, Unlock, HasTx, Ended, Refused, database, locals
<1>1. CASE \E c \in Ids, p \in Plans : Request(c, p)
  <2> PICK c \in Ids, p \in Plans : Request(c, p)
    BY <1>1
  <2>1. plan[p].stock \in Stock /\ plan[p].ports \in Int
    BY TermsAssumption
  <2> QED
    BY <2>1 DEF Request, CreateInput
<1>2. CASE \E c \in Ids : Step(c) \/ Commit(c, "failed") \/ Fail(c)
  <2> PICK c \in Ids : Step(c) \/ Commit(c, "failed") \/ Fail(c)
    BY <1>2
  <2>1. CASE Begin(c)
    BY <2>1 DEF Begin
  <2>2. CASE Lock(c)
    BY <2>2 DEF Lock
  <2>3. CASE CheckStock(c)
    BY <2>3 DEF CheckStock
  <2>4. CASE SelectPorts(c)
    BY <2>4, SegmentsType, PoolsAssumption DEF SelectPorts
  <2>5. CASE \E u \in todo[c] : Visit(c, u)
    BY <2>5 DEF Visit, Beyond, Segment
  <2>6. CASE LastGap(c)
    BY <2>6 DEF LastGap
  <2>7. ASSUME NEW o \in {"committed", "failed"}, Commit(c, o) PROVE TypeOK'
    <3>1. Need(c) \in Int
      BY PoolsAssumption DEF Need, CreateInput
    <3>2. [plan |-> req[c].plan, s |-> Window(c).s, e |-> Window(c).e] \in Row
      BY <3>1 DEF Window, Row, CreateInput
    <3> QED
      BY <2>7, <3>2 DEF Commit
  <2>8. CASE ReadBack(c)
    BY <2>8 DEF ReadBack
  <2>9. CASE Return(c)
    BY <2>9, NoRequestType DEF Return
  <2>10. CASE Fail(c)
    BY <2>10 DEF Fail
  <2> QED
    BY <2>1, <2>2, <2>3, <2>4, <2>5, <2>6, <2>7, <2>8, <2>9, <2>10 DEF Step
<1>3. CASE \E p \in Plans, terms \in Terms : SetPlan(p, terms)
  BY <1>3, TermsAssumption DEF SetPlan
<1>4. CASE \E gone \in SUBSET Registered : Unregister(gone)
  BY <1>4 DEF Unregister
<1>5. CASE \E config \in Pools : Restart(config)
  BY <1>5, NoRequestType DEF Restart
<1>6. CASE UNCHANGED vars
  BY <1>6 DEF vars
<1> QED
  BY <1>1, <1>2, <1>3, <1>4, <1>5, <1>6 DEF Next

\* The empty table and the idle calls have their types.
LEMMA TypeInit == Init => TypeOK
BY NoRequestType, TermsAssumption DEF Init, TypeOK, HasTx, Ended, Refused

\* The variables keep to the types of the Go structs and the SQL columns.
THEOREM TypeCorrect == Spec => []TypeOK
BY TypeInit, TypeStep, PTL DEF Spec

-----------------------------------------------------------------------------
(* The port range *)

\* What a call knows survives a step that leaves its variables and its lock
\* alone and takes rows away, or adds one while the call is not past the lock.
LEMMA Undisturbed ==
  ASSUME TypeOK, NEW d \in Ids, Knows(d),
         pc'[d] = pc[d], req'[d] = req[d], used'[d] = used[d],
         todo'[d] = todo[d], cursor'[d] = cursor[d], pool' = pool,
         pc[d] \in Critical => lock' = lock,
         rows[d] = NoRow => rows'[d] = NoRow,
         pc[d] \in Critical => \A i \in Ids : rows'[i] = rows[i] \/ rows'[i] = NoRow
  PROVE  Knows(d)'
<1> USE DEF Knows, Critical, Scans, HasTx
<1>1. Need(d)' = Need(d)
  BY DEF Need
<1>2. Window(d)' = Window(d) /\ GapAtEnd(d)' = GapAtEnd(d)
  BY <1>1 DEF Window, GapAtEnd
<1>3. \A a : WindowAt(d, a)' = WindowAt(d, a)
  BY <1>1 DEF WindowAt
<1>4. pc[d] \in Scans => \A i \in Registered' : i \in Registered /\ rows'[i] = rows[i]
  BY DEF Registered
<1>5. (pc[d] \in Scans =>
        \A i \in Registered : [s |-> rows[i].s, e |-> rows[i].e] \in used[d])'
  BY <1>4
<1>6. (pc[d] \in Scans \union {"exhausted"} =>
        \A a \in pool.start .. cursor[d] - 1 : \E u \in used[d] : ~Apart(u, WindowAt(d, a)))'
  BY <1>3 DEF Apart
<1>7. (pc[d] = "found" => \A u \in used[d] : Apart(u, Window(d)))'
  BY <1>2 DEF Apart
<1> QED
  BY <1>2, <1>5, <1>6, <1>7

\* When the gap before the lowest remaining segment is long enough, the window
\* at the cursor meets no segment of the snapshot.
LEMMA GapIsFree ==
  ASSUME TypeOK, NEW c \in Ids, Knows(c), pc[c] = "scanning",
         NEW u \in Lowest(c), GapBefore(c, u)
  PROVE  \A v \in used[c] : Apart(v, Window(c))
<1> SUFFICES ASSUME NEW v \in used[c] PROVE Apart(v, Window(c))
  OBVIOUS
<1>1. Need(c) \in Int /\ cursor[c] \in Int /\ v.s \in Int /\ v.e \in Int
  BY PoolsAssumption DEF TypeOK, Need, CreateInput, Segment
<1>2. u \in todo[c] /\ u.s \in Int
  BY DEF Lowest, TypeOK, Segment
<1>3. CASE v \in todo[c]
  <2>1. u.s <= v.s
    BY <1>3 DEF Lowest
  <2> QED
    BY <1>1, <1>2, <2>1 DEF GapBefore, Apart, Window
<1>4. CASE v \notin todo[c]
  <2>1. v.e < cursor[c]
    BY <1>4 DEF Knows
  <2> QED
    BY <2>1 DEF Apart, Window
<1> QED
  BY <1>3, <1>4

\* When that gap is too short, every window that starts before the new cursor
\* meets a segment of the snapshot.
LEMMA NoGapIsLeft ==
  ASSUME TypeOK, NEW c \in Ids, Knows(c), pc[c] = "scanning",
         NEW u \in Lowest(c), ~GapBefore(c, u),
         NEW a \in pool.start .. Beyond(c, u) - 1
  PROVE  \E v \in used[c] : ~Apart(v, WindowAt(c, a))
<1>1. Need(c) \in Int /\ cursor[c] \in Int /\ pool.start \in Int
  BY PoolsAssumption DEF TypeOK, Need, CreateInput
<1>2. u \in used[c] /\ u.s \in Int /\ u.e \in Int
  BY DEF Lowest, Knows, TypeOK, Segment
<1>3. CASE a < cursor[c]
  <2>1. a \in pool.start .. cursor[c] - 1
    BY <1>1, <1>2, <1>3 DEF Beyond
  <2> QED
    BY <2>1 DEF Knows, Scans
<1>4. CASE ~(a < cursor[c])
  <2>1. a <= u.e /\ a \in Int
    BY <1>1, <1>2, <1>4 DEF Beyond
  <2>2. u.s <= a + Need(c) - 1
    BY <1>1, <1>2, <1>4, <2>1 DEF GapBefore
  <2>3. ~Apart(u, WindowAt(c, a))
    BY <1>1, <1>2, <2>1, <2>2 DEF Apart, WindowAt
  <2> QED
    BY <1>2, <2>3
<1> QED
  BY <1>3, <1>4

\* Rows that go away leave the others disjoint.
LEMMA FewerRowsDisjoint ==
  ASSUME TypeOK, RangesDisjoint, \A i \in Ids : rows'[i] = rows[i] \/ rows'[i] = NoRow
  PROVE  RangesDisjoint'
<1>1. \A i \in Registered' : i \in Registered /\ rows'[i] = rows[i]
  BY DEF Registered
<1> QED
  BY <1>1 DEF RangesDisjoint, Apart

\* The row a commit adds is disjoint from every row there is.
LEMMA NewRowDisjoint ==
  ASSUME PortInvariant, NEW c \in Ids, NEW o \in {"committed", "failed"}, Commit(c, o)
  PROVE  RangesDisjoint'
<1> DEFINE row == [plan |-> req[c].plan, s |-> Window(c).s, e |-> Window(c).e]
<1>1. TypeOK /\ RangesDisjoint /\ Knows(c) /\ pc[c] = "found"
  BY DEF PortInvariant, Commit
<1>2. \A i \in Registered : Apart(rows[i], row) /\ Apart(row, rows[i])
  <2> SUFFICES ASSUME NEW i \in Registered PROVE Apart(rows[i], row) /\ Apart(row, rows[i])
    OBVIOUS
  <2> DEFINE seg == [s |-> rows[i].s, e |-> rows[i].e]
  <2>1. seg \in used[c]
    BY <1>1 DEF Knows, Scans
  <2>2. Apart(seg, Window(c))
    BY <1>1, <2>1 DEF Knows
  <2> QED
    BY <2>2 DEF Apart
<1>3. rows' = [rows EXCEPT ![c] = row]
  BY DEF Commit
<1>4. rows'[c] = row /\ \A i \in Ids \ {c} : rows'[i] = rows[i]
  BY <1>1, <1>3 DEF TypeOK
<1> SUFFICES ASSUME NEW i \in Registered', NEW j \in Registered', i # j
             PROVE  Apart(rows'[i], rows'[j])
  BY DEF RangesDisjoint, Apart
<1>5. \A k \in Registered' : k \in Ids /\ (k # c => k \in Registered /\ rows'[k] = rows[k])
  BY <1>4 DEF Registered
<1>6. CASE i # c /\ j # c
  BY <1>1, <1>5, <1>6 DEF RangesDisjoint
<1>7. CASE i = c
  BY <1>2, <1>4, <1>5, <1>7
<1>8. CASE j = c
  BY <1>2, <1>4, <1>5, <1>8
<1> QED
  BY <1>6, <1>7, <1>8

\* A step of call c that touches no row keeps what the other calls know.
LEMMA OthersKnow ==
  ASSUME PortInvariant, NEW c \in Ids, UNCHANGED << rows, pool >>,
         lock' = lock \/ lock = Nobody \/ lock = c,
         \A d \in Ids \ {c} :
           /\ pc'[d] = pc[d] /\ req'[d] = req[d] /\ used'[d] = used[d]
           /\ todo'[d] = todo[d] /\ cursor'[d] = cursor[d],
         Knows(c)'
  PROVE  RangesDisjoint' /\ \A d \in Ids : Knows(d)'
<1>1. TypeOK /\ RangesDisjoint
  BY DEF PortInvariant
<1>2. RangesDisjoint'
  BY <1>1, FewerRowsDisjoint
<1>3. ASSUME NEW d \in Ids \ {c} PROVE Knows(d)'
  <2>1. Knows(d)
    BY DEF PortInvariant
  <2>2. pc[d] \in Critical => lock' = lock
    BY <2>1, IdsAssumption DEF Knows
  <2> QED
    BY <1>1, <2>1, <2>2, Undisturbed
<1> QED
  BY <1>2, <1>3

\* Nothing is registered and no call knows anything in an initial state.
LEMMA PortInit == Init => PortInvariant
<1> SUFFICES ASSUME Init PROVE PortInvariant
  OBVIOUS
<1>1. TypeOK
  BY TypeInit
<1>2. RangesDisjoint
  BY DEF Init, RangesDisjoint, Registered
<1>3. \A c \in Ids : Knows(c)
  BY DEF Init, Knows, Critical, HasTx, Scans
<1> QED
  BY <1>1, <1>2, <1>3 DEF PortInvariant

\* Every step keeps the invariant: the steps of a call one by one, then what
\* surrounds the calls.
LEMMA PortStep == PortInvariant /\ [Next]_vars => PortInvariant'
<1> SUFFICES ASSUME PortInvariant, [Next]_vars PROVE PortInvariant'
  OBVIOUS
<1>1. TypeOK /\ RangesDisjoint /\ \A c \in Ids : Knows(c)
  BY DEF PortInvariant
<1>2. TypeOK'
  BY <1>1, TypeStep
<1> SUFFICES RangesDisjoint' /\ \A c \in Ids : Knows(c)'
  BY <1>2 DEF PortInvariant
<1> USE DEF Goto, Unlock, database, locals
<1>3. ASSUME NEW c \in Ids, NEW p \in Plans, Request(c, p)
      PROVE  RangesDisjoint' /\ \A d \in Ids : Knows(d)'
  <2>1. Knows(c)'
    BY <1>1, <1>3 DEF Request, TypeOK, Knows, Critical, HasTx, Scans
  <2> QED
    BY <1>1, <1>3, <2>1, OthersKnow DEF Request, TypeOK
<1>4. ASSUME NEW c \in Ids, Step(c) \/ Commit(c, "failed") \/ Fail(c)
      PROVE  RangesDisjoint' /\ \A d \in Ids : Knows(d)'
  <2>1. CASE Begin(c)
    <3>1. Knows(c)'
      BY <1>1, <2>1 DEF Begin, TypeOK, Knows, Critical, HasTx, Scans
    <3> QED
      BY <1>1, <2>1, <3>1, OthersKnow DEF Begin, TypeOK
  <2>2. CASE Lock(c)
    <3>1. Knows(c)'
      BY <1>1, <2>2 DEF Lock, TypeOK, Knows, Critical, HasTx, Scans
    <3> QED
      BY <1>1, <2>2, <3>1, OthersKnow DEF Lock, TypeOK
  <2>3. CASE CheckStock(c)
    <3>1. Knows(c)'
      BY <1>1, <2>3 DEF CheckStock, TypeOK, Knows, Critical, HasTx, Scans
    <3> QED
      BY <1>1, <2>3, <3>1, OthersKnow DEF CheckStock, TypeOK
  <2>4. CASE SelectPorts(c)
    <3>1. CASE Need(c) <= 0
      <4>1. Knows(c)'
        BY <1>1, <2>4, <3>1 DEF SelectPorts, TypeOK, Knows, Critical, HasTx, Scans
      <4> QED
        BY <1>1, <2>4, <3>1, <4>1, OthersKnow DEF SelectPorts, TypeOK
    <3>2. CASE ~(Need(c) <= 0)
      <4>1. /\ pc'[c] = "scanning" /\ lock' = lock /\ rows' = rows /\ pool' = pool
            /\ used'[c] = Segments /\ todo'[c] = Segments /\ cursor'[c] = pool.start
        BY <1>1, <2>4, <3>2 DEF SelectPorts, TypeOK
      <4>2. pc[c] \in Critical /\ pc[c] \in HasTx
        BY <2>4 DEF SelectPorts, Critical, HasTx
      <4>3. lock = c /\ rows[c] = NoRow
        BY <1>1, <4>2 DEF Knows
      <4>4. \A a \in pool.start .. pool.start - 1 : FALSE
        BY <1>1, PoolsAssumption DEF TypeOK
      <4>5. \A i \in Registered : [s |-> rows[i].s, e |-> rows[i].e] \in Segments
        BY DEF Segments
      <4>6. Knows(c)'
        BY <4>1, <4>3, <4>4, <4>5 DEF Knows, Critical, HasTx, Scans, Registered
      <4> QED
        BY <1>1, <2>4, <3>2, <4>6, OthersKnow DEF SelectPorts, TypeOK
    <3> QED
      BY <3>1, <3>2
  <2>5. ASSUME NEW u \in todo[c], Visit(c, u)
        PROVE  RangesDisjoint' /\ \A d \in Ids : Knows(d)'
    <3>1. pc[c] = "scanning" /\ u \in Lowest(c) /\ lock = c /\ rows[c] = NoRow
      BY <1>1, <2>5 DEF Visit, Knows, Critical, HasTx
    <3>2. /\ lock' = lock /\ rows' = rows /\ pool' = pool /\ req' = req /\ used' = used
          /\ Registered' = Registered
      BY <2>5 DEF Visit, Registered
    <3>3. CASE GapBefore(c, u)
      <4>1. pc'[c] = "found" /\ todo' = todo /\ cursor' = cursor
        BY <1>1, <2>5, <3>3 DEF Visit, TypeOK
      <4>2. Window(c)' = Window(c) /\ \A a : WindowAt(c, a)' = WindowAt(c, a)
        BY <3>2, <4>1 DEF Window, WindowAt, Need
      <4>3. \A v \in used[c] : Apart(v, Window(c))
        BY <1>1, <3>1, <3>3, GapIsFree
      <4>4. \A v \in used[c] : Apart(v, Window(c))'
        BY <4>2, <4>3 DEF Apart
      <4>5. \A a \in pool.start .. cursor[c] - 1 : \E v \in used[c] : ~Apart(v, WindowAt(c, a))'
        BY <1>1, <3>1, <4>2 DEF Knows, Scans, Apart
      <4>6. Knows(c)'
        BY <1>1, <3>1, <3>2, <4>1, <4>4, <4>5 DEF Knows, Critical, HasTx, Scans, Apart
      <4> QED
        BY <1>1, <2>5, <3>2, <4>1, <4>6, OthersKnow DEF Visit, TypeOK
    <3>4. CASE ~GapBefore(c, u)
      <4>1. /\ pc' = pc /\ todo'[c] = todo[c] \ {u} /\ cursor'[c] = Beyond(c, u)
        BY <1>1, <2>5, <3>4 DEF Visit, TypeOK
      <4>2. \A a : WindowAt(c, a)' = WindowAt(c, a)
        BY <3>2 DEF WindowAt, Need
      <4>3. \A a \in pool.start .. Beyond(c, u) - 1 : \E v \in used[c] : ~Apart(v, WindowAt(c, a))
        BY <1>1, <3>1, <3>4, NoGapIsLeft
      <4>4. (\A a \in pool.start .. cursor[c] - 1 : \E v \in used[c] : ~Apart(v, WindowAt(c, a)))'
        BY <3>2, <4>1, <4>2, <4>3 DEF Apart
      <4>5. \A v \in used[c] \ (todo[c] \ {u}) : v.e < Beyond(c, u)
        <5> SUFFICES ASSUME NEW v \in used[c] \ (todo[c] \ {u}) PROVE v.e < Beyond(c, u)
          OBVIOUS
        <5>1. v.e \in Int /\ cursor[c] \in Int
          BY <1>1 DEF TypeOK, Segment
        <5>2. CASE v = u
          BY <5>1, <5>2 DEF Beyond
        <5>3. CASE v # u
          <6>1. v.e < cursor[c] /\ u.e \in Int
            BY <1>1, <3>1, <5>3 DEF Knows, TypeOK, Segment
          <6> QED
            BY <5>1, <6>1 DEF Beyond
        <5> QED
          BY <5>2, <5>3
      <4>6. Knows(c)'
        BY <1>1, <3>1, <3>2, <4>1, <4>4, <4>5 DEF Knows, Critical, HasTx, Scans
      <4> QED
        BY <1>1, <2>5, <3>2, <3>4, <4>6, OthersKnow DEF Visit, TypeOK
    <3> QED
      BY <3>3, <3>4
  <2>6. CASE LastGap(c)
    <3>1. pc[c] = "scanning" /\ todo[c] = {} /\ lock = c /\ rows[c] = NoRow
      BY <1>1, <2>6 DEF LastGap, Knows, Critical, HasTx
    <3>2. /\ rows' = rows /\ pool' = pool /\ req' = req /\ used' = used
          /\ todo' = todo /\ cursor' = cursor /\ Registered' = Registered
      BY <2>6 DEF LastGap, Registered
    <3>3. \A v \in used[c] : Apart(v, Window(c))
      BY <1>1, <3>1 DEF Knows, Apart, Window
    <3>4. (\A v \in used[c] : Apart(v, Window(c)))'
      BY <3>2, <3>3 DEF Apart, Window, Need
    <3>5. (\A a \in pool.start .. cursor[c] - 1 : \E v \in used[c] : ~Apart(v, WindowAt(c, a)))'
      BY <1>1, <3>1, <3>2 DEF Knows, Scans, Apart, WindowAt, Need
    <3>6. GapAtEnd(c)' = GapAtEnd(c)
      BY <3>2 DEF GapAtEnd, Need
    <3>7. pc'[c] = (IF GapAtEnd(c) THEN "found" ELSE "exhausted") /\ (GapAtEnd(c) => lock' = lock)
      BY <1>1, <2>6 DEF LastGap, TypeOK
    <3>8. Knows(c)'
      BY <1>1, <3>1, <3>2, <3>4, <3>5, <3>6, <3>7 DEF Knows, Critical, HasTx, Scans
    <3> QED
      BY <1>1, <2>6, <3>1, <3>2, <3>8, OthersKnow DEF LastGap, TypeOK
  <2>7. ASSUME NEW o \in {"committed", "failed"}, Commit(c, o)
        PROVE  RangesDisjoint' /\ \A d \in Ids : Knows(d)'
    <3>1. RangesDisjoint'
      BY <2>7, NewRowDisjoint
    <3>2. Knows(c)'
      BY <1>1, <2>7 DEF Commit, TypeOK, Knows, Critical, HasTx, Scans
    <3>3. ASSUME NEW d \in Ids \ {c} PROVE Knows(d)'
      <4>1. lock = c
        BY <1>1, <2>7 DEF Commit, Knows, Critical, HasTx
      <4>2. pc[d] \notin Critical
        BY <1>1, <4>1 DEF Knows
      <4>3. rows'[d] = rows[d] /\ pc'[d] = pc[d]
        BY <1>1, <2>7 DEF Commit, TypeOK
      <4> QED
        BY <1>1, <2>7, <4>2, <4>3, Undisturbed DEF Commit
    <3> QED
      BY <3>1, <3>2, <3>3
  <2>8. CASE ReadBack(c)
    <3>1. Knows(c)'
      BY <1>1, <2>8 DEF ReadBack, TypeOK, Knows, Critical, HasTx, Scans
    <3> QED
      BY <1>1, <2>8, <3>1, OthersKnow DEF ReadBack, TypeOK
  <2>9. CASE Return(c)
    <3>1. Knows(c)'
      BY <1>1, <2>9 DEF Return, TypeOK, Knows, Critical, HasTx, Scans
    <3> QED
      BY <1>1, <2>9, <3>1, OthersKnow DEF Return, TypeOK
  <2>10. CASE Fail(c)
    <3>1. Knows(c)'
      BY <1>1, <2>10 DEF Fail, TypeOK, Knows, Critical, HasTx, Scans
    <3> QED
      BY <1>1, <2>10, <3>1, OthersKnow DEF Fail, TypeOK
  <2> QED
    BY <1>4, <2>1, <2>2, <2>3, <2>4, <2>5, <2>6, <2>7, <2>8, <2>9, <2>10 DEF Step
<1>5. ASSUME NEW p \in Plans, NEW terms \in Terms, SetPlan(p, terms)
      PROVE  RangesDisjoint' /\ \A d \in Ids : Knows(d)'
  BY <1>1, <1>5, FewerRowsDisjoint, Undisturbed DEF SetPlan
<1>6. ASSUME NEW gone \in SUBSET Registered, Unregister(gone)
      PROVE  RangesDisjoint' /\ \A d \in Ids : Knows(d)'
  <2>1. \A i \in Ids : rows'[i] = rows[i] \/ rows'[i] = NoRow
    BY <1>6 DEF Unregister
  <2>2. \A i \in Ids : rows[i] = NoRow => rows'[i] = NoRow
    BY <2>1
  <2> QED
    BY <1>1, <1>6, <2>1, <2>2, FewerRowsDisjoint, Undisturbed DEF Unregister
<1>7. ASSUME NEW config \in Pools, Restart(config)
      PROVE  RangesDisjoint' /\ \A d \in Ids : Knows(d)'
  BY <1>1, <1>7, FewerRowsDisjoint DEF Restart, Knows, Critical, HasTx, Scans
<1>8. CASE UNCHANGED vars
  BY <1>1, <1>8, FewerRowsDisjoint, Undisturbed DEF vars
<1> QED
  BY <1>3, <1>4, <1>5, <1>6, <1>7, <1>8 DEF Next

\* The port invariant is inductive.
LEMMA PortCorrect == Spec => []PortInvariant
BY PortInit, PortStep, PTL DEF Spec

\* For every set of calls, plans, terms and pools, and through every restart
\* with another pool: no two instances hold the same port.
THEOREM PortsNeverShared == Spec => []RangesDisjoint
<1>1. PortInvariant => RangesDisjoint
  BY DEF PortInvariant
<1> QED
  BY <1>1, PortCorrect, PTL

\* Create reports an exhausted pool only when its snapshot blocks every window
\* of the length it needs.
THEOREM ExhaustedIsExhausted == Spec => []NoFalseExhaustion
<1>1. PortInvariant => NoFalseExhaustion
  <2> SUFFICES ASSUME PortInvariant, NEW c \in Ids, pc[c] = "exhausted",
                      NEW a \in pool.start .. pool.end - Need(c) + 1
               PROVE  \E u \in used[c] : ~Apart(u, WindowAt(c, a))
    BY DEF NoFalseExhaustion
  <2>1. TypeOK /\ Knows(c)
    BY DEF PortInvariant
  <2>2. Need(c) \in Int /\ cursor[c] \in Int /\ pool.start \in Int /\ pool.end \in Int
    BY <2>1, PoolsAssumption DEF TypeOK, Need, CreateInput
  <2>3. a \in pool.start .. cursor[c] - 1
    BY <2>1, <2>2 DEF Knows, GapAtEnd
  <2> QED
    BY <2>1, <2>3 DEF Knows, Scans
<1> QED
  BY <1>1, PortCorrect, PTL

\* The window a call takes is free, and none below it was.
THEOREM LowestFitCorrect == Spec => []LowestFit
<1>1. PortInvariant => LowestFit
  BY DEF PortInvariant, LowestFit, Knows, Scans
<1> QED
  BY <1>1, PortCorrect, PTL

-----------------------------------------------------------------------------
(* The stock *)

\* The instances of a plan can be counted.
LEMMA SoldOfFinite ==
  \A p : IsFiniteSet(SoldOf(p)) /\ Cardinality(SoldOf(p)) \in Nat
<1> TAKE p
<1>1. SoldOf(p) \subseteq Ids
  BY DEF SoldOf, Registered
<1> QED
  BY <1>1, IdsAssumption, FS_Subset, FS_CardinalityType

\* A deletion can only lower the number sold.
LEMMA FewerSold ==
  ASSUME TypeOK, \A i \in Ids : rows'[i] = rows[i] \/ rows'[i] = NoRow, NEW p
  PROVE  /\ SoldOf(p)' \subseteq SoldOf(p)
         /\ Cardinality(SoldOf(p)') <= Cardinality(SoldOf(p))
         /\ Cardinality(SoldOf(p)') \in Nat
<1>1. SoldOf(p)' \subseteq SoldOf(p)
  BY DEF SoldOf, Registered
<1> QED
  BY <1>1, SoldOfFinite, FS_Subset, FS_CardinalityType

\* A commit adds exactly one instance, to the plan the call asked for.
LEMMA OneMoreSold ==
  ASSUME TypeOK, NEW c \in Ids, NEW o \in {"committed", "failed"}, Commit(c, o),
         rows[c] = NoRow, NEW p
  PROVE  /\ p = req[c].plan => Cardinality(SoldOf(p)') = Cardinality(SoldOf(p)) + 1
         /\ p # req[c].plan => SoldOf(p)' = SoldOf(p)
<1>1. /\ rows'[c] # NoRow /\ rows'[c].plan = req[c].plan
      /\ \A i \in Ids \ {c} : rows'[i] = rows[i]
  <2>1. Window(c).s \in Int /\ Window(c).e \in Int
    BY PoolsAssumption DEF TypeOK, Window, Need, CreateInput
  <2> QED
    BY <2>1, NoRowAssumption DEF Commit, TypeOK, CreateInput
<1>2. c \notin SoldOf(p)
  BY DEF SoldOf, Registered
<1>3. CASE p = req[c].plan
  <2>1. SoldOf(p)' = SoldOf(p) \union {c}
    BY <1>1, <1>3 DEF SoldOf, Registered
  <2> QED
    BY <1>2, <1>3, <2>1, SoldOfFinite, FS_AddElement
<1>4. CASE p # req[c].plan
  BY <1>1, <1>4 DEF SoldOf, Registered
<1> QED
  BY <1>3, <1>4

\* Fewer rows under marks that did not fall are still within the marks.
LEMMA FewerWithinPeak ==
  ASSUME StockInvariant, TypeOK', \A i \in Ids : rows'[i] = rows[i] \/ rows'[i] = NoRow,
         \A p \in Plans : AtMost(peak[p], peak'[p])
  PROVE  SoldWithinPeak'
<1>1. TypeOK /\ SoldWithinPeak
  BY DEF StockInvariant, PortInvariant
<1> SUFFICES ASSUME NEW p \in Plans, peak'[p] # NoStock, SoldOf(p)' # {}
             PROVE  Cardinality(SoldOf(p)') <= peak'[p]
  BY DEF SoldWithinPeak
<1>2. /\ Cardinality(SoldOf(p)') <= Cardinality(SoldOf(p)) /\ SoldOf(p) # {}
      /\ Cardinality(SoldOf(p)) \in Nat /\ Cardinality(SoldOf(p)') \in Nat
  BY <1>1, FewerSold, SoldOfFinite
<1>3. peak[p] # NoStock /\ peak[p] <= peak'[p]
  BY DEF AtMost
<1>4. Cardinality(SoldOf(p)) <= peak[p]
  BY <1>1, <1>2, <1>3 DEF SoldWithinPeak
<1>5. peak[p] \in Int /\ peak'[p] \in Int
  BY <1>1, <1>3 DEF TypeOK, Stock
<1> QED
  BY <1>2, <1>3, <1>4, <1>5

\* So is what a call knows of the stock, wherever it goes but past the check.
LEMMA StockStillKnown ==
  ASSUME StockInvariant, TypeOK', \A i \in Ids : rows'[i] = rows[i] \/ rows'[i] = NoRow,
         \A p \in Plans : AtMost(peak[p], peak'[p]),
         NEW d \in Ids, req'[d] = req[d], pc[d] # "idle" \/ pc'[d] = "idle",
         pc'[d] \in Counted => pc[d] \in Counted
  PROVE  KnowsStock(d)'
<1>1. TypeOK /\ KnowsStock(d)
  BY DEF StockInvariant, PortInvariant
<1> DEFINE p == req[d].plan
<1>2. p \in Plans /\ req[d].stock \in Stock /\ peak[p] \in Stock /\ peak'[p] \in Stock
  BY <1>1 DEF TypeOK, CreateInput
<1>3. (pc[d] # "idle" => AtMost(req[d].stock, peak[req[d].plan]))'
  BY <1>1, <1>2 DEF KnowsStock, AtMost, Stock
<1>4. (pc[d] \in Counted /\ req[d].stock # NoStock => Cardinality(SoldOf(req[d].plan)) < req[d].stock)'
  <2> SUFFICES ASSUME pc'[d] \in Counted, req[d].stock # NoStock
               PROVE  Cardinality(SoldOf(p)') < req[d].stock
    OBVIOUS
  <2>1. Cardinality(SoldOf(p)) < req[d].stock
    BY <1>1 DEF KnowsStock
  <2>2. /\ Cardinality(SoldOf(p)') <= Cardinality(SoldOf(p))
        /\ Cardinality(SoldOf(p)) \in Nat /\ Cardinality(SoldOf(p)') \in Nat
    BY <1>1, FewerSold, SoldOfFinite
  <2> QED
    BY <1>2, <2>1, <2>2 DEF Stock
<1> QED
  BY <1>3, <1>4 DEF KnowsStock

\* Nothing is sold in an initial state.
LEMMA StockInit == Init => StockInvariant
<1> SUFFICES ASSUME Init PROVE StockInvariant
  OBVIOUS
<1>1. PortInvariant
  BY PortInit
<1>2. SoldWithinPeak
  BY DEF Init, SoldWithinPeak, SoldOf, Registered
<1>3. \A p \in Plans : AtMost(plan[p].stock, peak[p])
  BY TermsAssumption DEF Init, AtMost, Stock
<1>4. \A c \in Ids : KnowsStock(c)
  BY DEF Init, KnowsStock, Counted
<1> QED
  BY <1>1, <1>2, <1>3, <1>4 DEF StockInvariant

\* Every step keeps what the calls know of the stock.
LEMMA StockStep == StockInvariant /\ [Next]_vars => StockInvariant'
<1> SUFFICES ASSUME StockInvariant, [Next]_vars PROVE StockInvariant'
  OBVIOUS
<1>1. /\ PortInvariant /\ TypeOK /\ SoldWithinPeak /\ \A c \in Ids : Knows(c)
      /\ \A p \in Plans : AtMost(plan[p].stock, peak[p])
      /\ \A c \in Ids : KnowsStock(c)
  BY DEF StockInvariant, PortInvariant
<1>2. PortInvariant' /\ TypeOK'
  BY <1>1, PortStep DEF PortInvariant
<1>3. \A p \in Plans : AtMost(peak[p], peak[p])
  BY <1>1 DEF TypeOK, AtMost, Stock
<1> DEFINE Goal == /\ SoldWithinPeak'
                   /\ \A p \in Plans : AtMost(plan'[p].stock, peak'[p])
                   /\ \A d \in Ids : KnowsStock(d)'
<1> SUFFICES Goal
  BY <1>2 DEF StockInvariant
<1> USE DEF Goto, database, locals
<1>4. ASSUME NEW c \in Ids, NEW p \in Plans, Request(c, p) PROVE Goal
  <2>1. UNCHANGED << rows, plan, peak >>
    BY <1>4 DEF Request
  <2>2. pc'[c] = "asked" /\ req'[c].plan = p /\ req'[c].stock = plan[p].stock
    BY <1>1, <1>4 DEF Request, TypeOK
  <2>3. KnowsStock(c)'
    BY <1>1, <2>1, <2>2 DEF KnowsStock, Counted
  <2>4. \A d \in Ids \ {c} : pc'[d] = pc[d] /\ req'[d] = req[d]
    BY <1>1, <1>4 DEF Request, TypeOK
  <2> QED
    BY <1>1, <1>2, <1>3, <2>1, <2>3, <2>4, FewerWithinPeak, StockStillKnown
<1>5. ASSUME NEW c \in Ids, NEW o \in {"committed", "failed"}, Commit(c, o) PROVE Goal
  <2>1. pc[c] = "found" /\ lock = c /\ rows[c] = NoRow
    BY <1>1, <1>5 DEF Commit, Knows, Critical, HasTx
  <2>2. UNCHANGED << plan, peak, req >>
    BY <1>5 DEF Commit
  <2> PICK q \in Plans : q = req[c].plan
    BY <1>1 DEF TypeOK, CreateInput
  <2>3. req[c].stock \in Stock /\ peak[q] \in Stock
    BY <1>1 DEF TypeOK, CreateInput
  <2>4. /\ Cardinality(SoldOf(q)') = Cardinality(SoldOf(q)) + 1
        /\ Cardinality(SoldOf(q)) \in Nat
    BY <1>1, <1>5, <2>1, OneMoreSold, SoldOfFinite
  <2>5. \A p : p # q => SoldOf(p)' = SoldOf(p)
    BY <1>1, <1>5, <2>1, OneMoreSold
  <2>6. peak[q] # NoStock => Cardinality(SoldOf(q)') <= peak[q]
    <3>1. peak[q] # NoStock => req[c].stock # NoStock /\ req[c].stock <= peak[q]
      BY <1>1, <2>1 DEF KnowsStock, AtMost
    <3>2. req[c].stock # NoStock => Cardinality(SoldOf(q)) < req[c].stock
      BY <1>1, <2>1 DEF KnowsStock, Counted
    <3> QED
      BY <2>3, <2>4, <3>1, <3>2 DEF Stock
  <2>7. SoldWithinPeak'
    BY <1>1, <2>2, <2>5, <2>6 DEF SoldWithinPeak
  <2>8. ASSUME NEW d \in Ids PROVE KnowsStock(d)'
    <3>1. pc'[d] \notin Counted
      <4>1. CASE d = c
        BY <1>1, <1>5, <4>1 DEF Commit, TypeOK, Counted
      <4>2. CASE d # c
        <5>1. pc'[d] = pc[d]
          BY <1>1, <1>5, <4>2 DEF Commit, TypeOK
        <5>2. pc[d] \notin Critical
          BY <1>1, <2>1, <4>2 DEF Knows
        <5> QED
          BY <5>1, <5>2 DEF Critical, HasTx, Counted
      <4> QED
        BY <4>1, <4>2
    <3>2. pc'[d] # "idle" => pc[d] # "idle"
      BY <1>1, <1>5, <2>1 DEF Commit, TypeOK
    <3> QED
      BY <1>1, <2>2, <3>1, <3>2 DEF KnowsStock
  <2> QED
    BY <1>1, <2>2, <2>7, <2>8
<1>6. ASSUME NEW c \in Ids, CheckStock(c) PROVE Goal
  <2>1. UNCHANGED << rows, plan, peak, req >> /\ pc[c] = "locked"
    BY <1>6 DEF CheckStock
  <2>2. pc'[c] \in Counted => ~SoldOut(c)
    BY <1>1, <1>6 DEF CheckStock, TypeOK, Counted
  <2>3. SoldOf(req[c].plan)' = SoldOf(req[c].plan)
    BY <2>1 DEF SoldOf, Registered
  <2>4. req[c].stock # NoStock => req[c].stock \in Int
    BY <1>1 DEF TypeOK, CreateInput, Stock
  <2>5. (pc[c] \in Counted /\ req[c].stock # NoStock => Cardinality(SoldOf(req[c].plan)) < req[c].stock)'
    BY <2>1, <2>2, <2>3, <2>4, SoldOfFinite DEF SoldOut
  <2>6. KnowsStock(c)'
    BY <1>1, <2>1, <2>5 DEF KnowsStock
  <2>7. \A d \in Ids \ {c} : pc'[d] = pc[d] /\ req'[d] = req[d]
    BY <1>1, <1>6 DEF CheckStock, TypeOK
  <2> QED
    BY <1>1, <1>2, <1>3, <2>1, <2>6, <2>7, FewerWithinPeak, StockStillKnown
<1>7. ASSUME NEW c \in Ids,
             \/ Begin(c) \/ Lock(c) \/ SelectPorts(c) \/ \E u \in todo[c] : Visit(c, u)
             \/ LastGap(c) \/ ReadBack(c) \/ Return(c) \/ Fail(c)
      PROVE  Goal
  <2>1. UNCHANGED << rows, plan, peak >>
    BY <1>7 DEF Begin, Lock, SelectPorts, Visit, LastGap, ReadBack, Return, Fail
  <2>2. /\ \A d \in Ids \ {c} : pc'[d] = pc[d] /\ req'[d] = req[d]
        /\ pc[c] # "idle"
        /\ \/ pc'[c] = "idle"
           \/ req'[c] = req[c] /\ (pc'[c] \in Counted => pc[c] \in Counted)
    BY <1>1, <1>7 DEF Begin, Lock, SelectPorts, Visit, LastGap, ReadBack, Return, Fail,
       TypeOK, Counted, HasTx, Ended, Refused
  <2>3. ASSUME NEW d \in Ids PROVE KnowsStock(d)'
    <3>1. CASE pc'[d] = "idle"
      BY <3>1 DEF KnowsStock, Counted
    <3>2. CASE pc'[d] # "idle"
      BY <1>2, <1>3, <2>1, <2>2, <3>2, StockStillKnown
    <3> QED
      BY <3>1, <3>2
  <2> QED
    BY <1>1, <1>2, <1>3, <2>1, <2>3, FewerWithinPeak
<1>8. ASSUME NEW p \in Plans, NEW terms \in Terms, SetPlan(p, terms) PROVE Goal
  <2>1. terms.stock \in Stock
    BY TermsAssumption
  <2>2. \A q \in Plans : AtMost(peak[q], peak'[q]) /\ AtMost(plan'[q].stock, peak'[q])
    BY <1>1, <1>3, <1>8, <2>1, TermsAssumption DEF SetPlan, Higher, AtMost, TypeOK, Stock
  <2>3. UNCHANGED << rows, pc, req >>
    BY <1>8 DEF SetPlan
  <2> QED
    BY <1>2, <2>2, <2>3, FewerWithinPeak, StockStillKnown
<1>9. ASSUME NEW gone \in SUBSET Registered, Unregister(gone) PROVE Goal
  <2>1. \A i \in Ids : rows'[i] = rows[i] \/ rows'[i] = NoRow
    BY <1>9 DEF Unregister
  <2>2. UNCHANGED << plan, peak, pc, req >>
    BY <1>9 DEF Unregister
  <2> QED
    BY <1>1, <1>2, <1>3, <2>1, <2>2, FewerWithinPeak, StockStillKnown
<1>10. ASSUME NEW config \in Pools, Restart(config) PROVE Goal
  <2>1. UNCHANGED << rows, plan, peak >> /\ \A d \in Ids : pc'[d] = "idle"
    BY <1>10 DEF Restart
  <2>2. \A d \in Ids : KnowsStock(d)'
    BY <2>1 DEF KnowsStock, Counted
  <2> QED
    BY <1>1, <1>2, <1>3, <2>1, <2>2, FewerWithinPeak
<1>11. CASE UNCHANGED vars
  <2>1. UNCHANGED << rows, plan, peak, pc, req >>
    BY <1>11 DEF vars
  <2> QED
    BY <1>1, <1>2, <1>3, <2>1, FewerWithinPeak, StockStillKnown
<1> QED
  BY <1>4, <1>5, <1>6, <1>7, <1>8, <1>9, <1>10, <1>11 DEF Next, Step

\* The stock invariant is inductive.
THEOREM StockCorrect == Spec => []StockInvariant
BY StockInit, StockStep, PTL DEF Spec

\* For every number of calls that read the stock before the lock and every edit
\* of the plan in between: no plan exceeds the largest stock it ever had.
THEOREM NeverOversold == Spec => []SoldWithinPeak
<1>1. StockInvariant => SoldWithinPeak
  BY DEF StockInvariant
<1> QED
  BY <1>1, StockCorrect, PTL

-----------------------------------------------------------------------------
(* The transaction implements the indivisible registration *)

\* The atomic registry counts and compares as Registration does.
LEMMA SameView ==
  /\ Atomic!Registered = Registered
  /\ \A p : Atomic!SoldOf(p) = SoldOf(p)
  /\ \A a, b : Atomic!Apart(a, b) = Apart(a, b)
  /\ Atomic!Row = Row
BY DEF Atomic!Registered, Registered, Atomic!SoldOf, SoldOf, Atomic!Apart, Apart,
       Atomic!Row, Row

\* Both modules count with the same Cardinality.
LEMMA SameCardinality == ASSUME NEW S PROVE Atomic!Cardinality(S) = Cardinality(S)
BY DEF Atomic!Cardinality, Cardinality

\* Initial states of the transaction are initial states of the registry.
LEMMA RefinementInit == Init => Atomic!Init
BY TermsAssumption DEF Init, Atomic!Init, Stock

\* A commit is the registration.
LEMMA CommitRegisters ==
  ASSUME StockInvariant, NEW c \in Ids, NEW o \in {"committed", "failed"}, Commit(c, o)
  PROVE  Atomic!Register(c)
<1> DEFINE row == [plan |-> req[c].plan, s |-> Window(c).s, e |-> Window(c).e]
<1>1. TypeOK /\ Knows(c) /\ KnowsStock(c) /\ pc[c] = "found" /\ lock = c /\ rows[c] = NoRow
  BY DEF StockInvariant, PortInvariant, Commit, Knows, Critical, HasTx
<1>2. rows' = [rows EXCEPT ![c] = row] /\ rows'[c] = row /\ peak' = peak
  BY <1>1 DEF Commit, database, TypeOK
<1>3. row \in Row
  BY <1>1, PoolsAssumption DEF TypeOK, Window, Need, CreateInput, Row
<1>4. \A j \in Registered : Apart(row, rows[j])
  <2> SUFFICES ASSUME NEW j \in Registered PROVE Apart(row, rows[j])
    OBVIOUS
  <2> DEFINE seg == [s |-> rows[j].s, e |-> rows[j].e]
  <2>1. seg \in used[c]
    BY <1>1 DEF Knows, Scans
  <2>2. Apart(seg, Window(c))
    BY <1>1, <2>1 DEF Knows
  <2> QED
    BY <2>2 DEF Apart
<1>5. peak[row.plan] # NoStock => Cardinality(SoldOf(row.plan)) < peak[row.plan]
  <2> SUFFICES ASSUME peak[req[c].plan] # NoStock
               PROVE  Cardinality(SoldOf(req[c].plan)) < peak[req[c].plan]
    OBVIOUS
  <2>1. req[c].stock # NoStock /\ req[c].stock <= peak[req[c].plan]
    BY <1>1 DEF KnowsStock, AtMost
  <2>2. Cardinality(SoldOf(req[c].plan)) < req[c].stock
    BY <1>1, <2>1 DEF KnowsStock, Counted
  <2>3. req[c].stock \in Int /\ peak[req[c].plan] \in Int /\ Cardinality(SoldOf(req[c].plan)) \in Nat
    BY <1>1, <2>1, SoldOfFinite DEF TypeOK, CreateInput, Stock
  <2> QED
    BY <2>1, <2>2, <2>3
<1>6. /\ row \in Atomic!Row /\ \A j \in Atomic!Registered : Atomic!Apart(row, rows[j])
      /\ peak[row.plan] # NoStock => Cardinality(Atomic!SoldOf(row.plan)) < peak[row.plan]
  BY <1>3, <1>4, <1>5, SameView
<1> HIDE DEF row
<1>7. rows' = [rows EXCEPT ![c] = rows'[c]]
  BY <1>2
<1>8. rows'[c] \in Atomic!Row /\ \A j \in Atomic!Registered : Atomic!Apart(rows'[c], rows[j])
  BY <1>2, <1>6
<1>9. peak[rows'[c].plan] # NoStock =>
        Atomic!Cardinality(Atomic!SoldOf(rows'[c].plan)) < peak[rows'[c].plan]
  BY <1>2, <1>6, SameCardinality
<1> QED
  BY <1>1, <1>2, <1>7, <1>8, <1>9 DEF Atomic!Register

\* Every step of the transaction is a step of the registry or changes nothing of it.
LEMMA RefinementStep == StockInvariant /\ [Next]_vars => [Atomic!Next]_(Atomic!vars)
<1> SUFFICES ASSUME StockInvariant, [Next]_vars PROVE Atomic!Next \/ UNCHANGED Atomic!vars
  OBVIOUS
<1>1. TypeOK
  BY DEF StockInvariant, PortInvariant
<1>2. ASSUME UNCHANGED << rows, peak >> PROVE UNCHANGED Atomic!vars
  BY <1>2 DEF Atomic!vars
<1> USE DEF database
<1>3. ASSUME NEW c \in Ids, NEW p \in Plans, Request(c, p) PROVE UNCHANGED Atomic!vars
  BY <1>2, <1>3 DEF Request
<1>4. ASSUME NEW c \in Ids, NEW o \in {"committed", "failed"}, Commit(c, o) PROVE Atomic!Next
  BY <1>4, CommitRegisters DEF Atomic!Next
<1>5. ASSUME NEW c \in Ids,
             \/ Begin(c) \/ Lock(c) \/ CheckStock(c) \/ SelectPorts(c)
             \/ \E u \in todo[c] : Visit(c, u)
             \/ LastGap(c) \/ ReadBack(c) \/ Return(c) \/ Fail(c)
      PROVE  UNCHANGED Atomic!vars
  BY <1>2, <1>5 DEF Begin, Lock, CheckStock, SelectPorts, Visit, LastGap, ReadBack, Return, Fail
<1>6. ASSUME NEW p \in Plans, NEW terms \in Terms, SetPlan(p, terms)
      PROVE  Atomic!Next \/ UNCHANGED Atomic!vars
  <2>1. rows' = rows /\ terms.stock \in Stock /\ peak[p] \in Stock
    BY <1>1, <1>6, TermsAssumption DEF SetPlan, TypeOK
  <2>2. CASE Higher(terms.stock, peak[p])
    <3>1. peak' = [peak EXCEPT ![p] = terms.stock] /\ peak'[p] = terms.stock
      BY <1>1, <1>6, <2>2 DEF SetPlan, TypeOK
    <3>2. CASE peak[p] = NoStock
      BY <1>1, <1>2, <2>1, <2>2, <3>1, <3>2 DEF Higher, TypeOK
    <3>3. CASE peak[p] # NoStock
      <4>1. terms.stock # NoStock => terms.stock \in Int /\ terms.stock > peak[p]
        BY <2>1, <2>2 DEF Higher, Stock
      <4>2. Atomic!RaisePeak(p)
        BY <2>1, <3>1, <3>3, <4>1 DEF Atomic!RaisePeak
      <4> QED
        BY <4>2 DEF Atomic!Next
    <3> QED
      BY <3>2, <3>3
  <2>3. CASE ~Higher(terms.stock, peak[p])
    <3>1. peak' = peak
      BY <1>1, <1>6, <2>3 DEF SetPlan, TypeOK
    <3> QED
      BY <1>2, <2>1, <3>1
  <2> QED
    BY <2>2, <2>3
<1>7. ASSUME NEW gone \in SUBSET Registered, Unregister(gone) PROVE Atomic!Next
  <2>1. Atomic!Unregister(gone)
    BY <1>7 DEF Unregister, Atomic!Unregister
  <2> QED
    BY <2>1, SameView DEF Atomic!Next
<1>8. ASSUME NEW config \in Pools, Restart(config) PROVE UNCHANGED Atomic!vars
  BY <1>2, <1>8 DEF Restart
<1>9. CASE UNCHANGED vars
  BY <1>2, <1>9 DEF vars
<1> QED
  BY <1>3, <1>4, <1>5, <1>6, <1>7, <1>8, <1>9 DEF Next, Step

\* Repo.Create, with all its steps, interleavings, failures and restarts, does
\* what one indivisible registration would do.
THEOREM CreateIsAtomic == Spec => RefinesAtomic
<1>1. Init => Atomic!Init
  BY RefinementInit
<1>2. StockInvariant /\ [Next]_vars => [Atomic!Next]_(Atomic!vars)
  BY RefinementStep
<1> QED
  BY <1>1, <1>2, StockCorrect, PTL DEF Spec, RefinesAtomic, Atomic!Spec

-----------------------------------------------------------------------------
(* Progress *)

\* A set of natural numbers has a least member.
LEMMA LeastNatural ==
  ASSUME NEW S \in SUBSET Nat, S # {}
  PROVE  \E n \in S : \A m \in S : n <= m
<1> DEFINE R == OpToRel(<, Nat)
<1>1. \A n, m \in Nat : << m, n >> \in R <=> m < n
  BY DEF OpToRel
<1>2. IsWellFoundedOn(R, Nat)
  BY NatLessThanWellFounded
<1> HIDE DEF R
<1>3. PICK n \in S : \A m \in S : << m, n >> \notin R
  BY <1>2, WFMin
<1>4. ASSUME NEW m \in S PROVE n <= m
  <2>1. n \in Nat /\ m \in Nat /\ << m, n >> \notin R
    BY <1>3, <1>4
  <2> QED
    BY <1>1, <2>1
<1> QED
  BY <1>4

\* Of finitely many segments one starts at the lowest port: a smallest set without such
\* a segment would still have one left when another is taken out of it.
LEMMA LowestExists ==
  ASSUME NEW S \in SUBSET Segment, IsFiniteSet(S), S # {}
  PROVE  \E u \in S : \A v \in S : u.s <= v.s
<1> DEFINE HasLowest(T) == \E u \in T : \A v \in T : u.s <= v.s
           Sizes == {n \in Nat : \E T \in SUBSET S : T # {} /\ ~ HasLowest(T) /\ Cardinality(T) = n}
<1>1. Sizes = {}
  <2>1. SUFFICES ASSUME Sizes # {} PROVE FALSE
    OBVIOUS
  <2>2. PICK n \in Sizes : \A m \in Sizes : n <= m
    <3>1. Sizes \in SUBSET Nat
      OBVIOUS
    <3> HIDE DEF Sizes
    <3> QED
      BY <2>1, <3>1, LeastNatural
  <2>3. PICK T \in SUBSET S : T # {} /\ ~ HasLowest(T) /\ Cardinality(T) = n
    BY <2>2
  <2>4. PICK t \in T : TRUE
    BY <2>3
  <2> DEFINE rest == T \ {t}
  <2>5. rest \in SUBSET S /\ Cardinality(rest) = n - 1 /\ n - 1 \in Nat
    <3>1. IsFiniteSet(T) /\ t \in T /\ rest \in SUBSET S
      BY <2>3, <2>4, FS_Subset
    <3>2. IsFiniteSet(rest) /\ Cardinality(rest) = Cardinality(T) - 1
      BY <3>1, FS_RemoveElement
    <3>3. Cardinality(rest) \in Nat
      BY <3>2, FS_CardinalityType
    <3> QED
      BY <2>3, <3>1, <3>2, <3>3
  <2>6. rest = {} \/ HasLowest(rest)
    <3>1. n - 1 \notin Sizes
      BY <2>2
    <3> QED
      BY <2>5, <3>1
  <2>7. \A v \in T : v.s \in Int
    BY DEF Segment
  <2>8. CASE rest = {}
    BY <2>3, <2>4, <2>7, <2>8
  <2>9. CASE HasLowest(rest)
    <3>1. PICK u \in rest : \A v \in rest : u.s <= v.s
      BY <2>9
    <3>2. CASE u.s <= t.s
      BY <2>3, <2>4, <3>1, <3>2
    <3>3. CASE ~ (u.s <= t.s)
      <4>1. \A v \in T : t.s <= v.s
        BY <2>4, <2>7, <3>1, <3>3
      <4> QED
        BY <2>3, <2>4, <4>1
    <3> QED
      BY <3>2, <3>3
  <2> QED
    BY <2>6, <2>8, <2>9
<1>2. Cardinality(S) \in Nat
  BY FS_CardinalityType
<1> QED
  BY <1>1, <1>2

\* The rows give no more segments than there are calls.
LEMMA SegmentsFinite ==
  IsFiniteSet(Segments) /\ Cardinality(Segments) <= Cardinality(Ids)
<1> DEFINE f == [i \in Registered |-> [s |-> rows[i].s, e |-> rows[i].e]]
<1>1. f \in Surjection(Registered, Segments)
  BY DEF Surjection, Segments
<1>2. IsFiniteSet(Registered) /\ Cardinality(Registered) <= Cardinality(Ids)
  BY IdsAssumption, FS_Subset DEF Registered
<1>3. IsFiniteSet(Segments) /\ Cardinality(Segments) <= Cardinality(Registered)
  BY <1>1, <1>2, FS_Surjection
<1> QED
  BY <1>2, <1>3, IdsAssumption, FS_CardinalityType

\* A call that holds the lock is at work, and what its loop has left is finite.
AtWork ==
  /\ lock # Nobody => pc[lock] \in Critical
  /\ \A c \in Ids : IsFiniteSet(todo[c])

\* Every step keeps the holder of the lock at work.
LEMMA AtWorkStep == PortInvariant /\ AtWork /\ [Next]_vars => AtWork'
<1> SUFFICES ASSUME PortInvariant, AtWork, [Next]_vars PROVE AtWork'
  OBVIOUS
<1>1. TypeOK /\ \A c \in Ids : pc[c] \in Critical => lock = c
  BY DEF PortInvariant, Knows
<1> USE DEF TypeOK, Goto, Unlock, HasTx, Critical, database, locals
<1>2. CASE \E c \in Ids, p \in Plans : Request(c, p)
  BY <1>1, <1>2 DEF Request, AtWork
<1>3. ASSUME NEW c \in Ids, Begin(c) \/ Lock(c) \/ CheckStock(c) PROVE AtWork'
  BY <1>1, <1>3, IdsAssumption DEF Begin, Lock, CheckStock, AtWork
<1>4. ASSUME NEW c \in Ids, SelectPorts(c) PROVE AtWork'
  BY <1>1, <1>4, IdsAssumption, SegmentsFinite DEF SelectPorts, AtWork
<1>5. ASSUME NEW c \in Ids, NEW u \in todo[c], Visit(c, u) PROVE AtWork'
  <2>1. IsFiniteSet(todo[c] \ {u})
    BY FS_RemoveElement DEF AtWork
  <2>2. pc'[c] \in {"scanning", "found"} /\ lock' = lock /\ \A d \in Ids \ {c} : pc'[d] = pc[d]
    BY <1>1, <1>5 DEF Visit
  <2>3. \A d \in Ids : todo'[d] = todo[d] \/ todo'[d] = todo[d] \ {u}
    BY <1>1, <1>5 DEF Visit
  <2>4. \A d \in Ids : IsFiniteSet(todo'[d])
    BY <2>3, FS_RemoveElement DEF AtWork
  <2> QED
    BY <1>1, <2>2, <2>4 DEF AtWork
<1>6. ASSUME NEW c \in Ids, LastGap(c) \/ ReadBack(c) \/ Fail(c) PROVE AtWork'
  BY <1>1, <1>6, IdsAssumption DEF LastGap, ReadBack, Fail, AtWork
<1>7. ASSUME NEW c \in Ids, NEW o \in {"committed", "failed"}, Commit(c, o) PROVE AtWork'
  BY <1>1, <1>7, IdsAssumption DEF Commit, AtWork
<1>8. ASSUME NEW c \in Ids, Return(c) PROVE AtWork'
  <2>1. IsFiniteSet({})
    BY FS_EmptySet
  <2> QED
    BY <1>1, <1>8, <2>1, IdsAssumption DEF Return, AtWork, Ended, Refused
<1>9. ASSUME NEW p \in Plans, NEW terms \in Terms, SetPlan(p, terms) PROVE AtWork'
  BY <1>9 DEF SetPlan, AtWork
<1>10. ASSUME NEW gone \in SUBSET Registered, Unregister(gone) PROVE AtWork'
  BY <1>10 DEF Unregister, AtWork
<1>11. ASSUME NEW config \in Pools, Restart(config) PROVE AtWork'
  <2>1. IsFiniteSet({})
    BY FS_EmptySet
  <2> QED
    BY <1>11, <2>1 DEF Restart, AtWork
<1>12. CASE UNCHANGED vars
  BY <1>12 DEF vars, AtWork
<1> QED
  BY <1>2, <1>3, <1>4, <1>5, <1>6, <1>7, <1>8, <1>9, <1>10, <1>11, <1>12 DEF Next, Step

\* Whoever is past the lock can go on.
LEMMA CriticalGoesOn ==
  ASSUME TypeOK, AtWork, NEW c \in Ids, pc[c] \in Critical
  PROVE  CanGoOn(c)
<1>1. CASE pc[c] = "scanning" /\ todo[c] # {}
  <2>1. \E u \in todo[c] : \A v \in todo[c] : u.s <= v.s
    BY <1>1, LowestExists DEF TypeOK, AtWork
  <2> QED
    BY <1>1, <2>1 DEF CanGoOn, Lowest
<1> QED
  BY <1>1 DEF CanGoOn, Critical, HasTx

\* No set of calls, however many and over however few connections, waits for ever in a
\* circle: a call that waits for the lock waits for one that needs nothing more, and a
\* call without a connection waits for one of those two.
THEOREM NobodyIsStuck == Spec => []SomebodyGoesOn
<1>1. Init => AtWork
  BY FS_EmptySet DEF Init, AtWork
<1>2. PortInvariant /\ AtWork /\ [Next]_vars => AtWork'
  BY AtWorkStep
<1>3. PortInvariant /\ AtWork => SomebodyGoesOn
  <2> SUFFICES ASSUME PortInvariant, AtWork, NEW c \in Ids, pc[c] # "idle"
               PROVE  \E d \in Ids : CanGoOn(d)
    BY DEF SomebodyGoesOn
  <2>1. TypeOK
    BY DEF PortInvariant
  <2>2. CASE \E d \in Ids : pc[d] \in Critical
    BY <2>1, <2>2, CriticalGoesOn
  <2>3. CASE ~ \E d \in Ids : pc[d] \in Critical
    <3>1. lock = Nobody
      BY <2>1, <2>3 DEF AtWork, TypeOK
    <3>2. CASE \E d \in Ids : pc[d] = "waiting"
      BY <3>1, <3>2 DEF CanGoOn
    <3>3. CASE ~ \E d \in Ids : pc[d] = "waiting"
      <4>1. InTx = {}
        BY <2>3, <3>3 DEF InTx, HasTx, Critical
      <4>2. ConnFree
        BY <4>1, FS_EmptySet, ConnsAssumption DEF ConnFree
      <4>3. pc[c] \in {"asked", "committed"} \union Ended
        BY <2>1, <2>3, <3>3 DEF TypeOK, HasTx, Critical
      <4> QED
        BY <4>2, <4>3 DEF CanGoOn
    <3> QED
      BY <3>2, <3>3
  <2> QED
    BY <2>2, <2>3
<1> QED
  BY <1>1, <1>2, <1>3, PortCorrect, PTL DEF Spec

\* How many more steps a call takes at most: those of Create, one turn of its loop for
\* each segment that is left, and there are no more segments than calls.
StepsFrom(at, left) ==
  CASE at = "asked" -> Cardinality(Ids) + 8
    [] at = "waiting" -> Cardinality(Ids) + 7
    [] at = "locked" -> Cardinality(Ids) + 6
    [] at = "counted" -> Cardinality(Ids) + 5
    [] at = "scanning" -> left + 4
    [] at = "found" -> 3
    [] at = "committed" -> 2
    [] at \in Ended -> 1
    [] OTHER -> 0

Remaining(c) == StepsFrom(pc[c], Cardinality(todo[c]))

\* Own steps use it up, and nothing adds to it while the call is under way.
UsesUp(c) ==
  pc[c] # "idle" => /\ Remaining(c)' <= Remaining(c)
                    /\ Step(c) => Remaining(c)' < Remaining(c)

\* The numbers of StepsFrom, and that they are numbers.
LEMMA StepsFromIs ==
  /\ Cardinality(Ids) \in Nat
  /\ \A left :
       /\ StepsFrom("asked", left) = Cardinality(Ids) + 8
       /\ StepsFrom("waiting", left) = Cardinality(Ids) + 7
       /\ StepsFrom("locked", left) = Cardinality(Ids) + 6
       /\ StepsFrom("counted", left) = Cardinality(Ids) + 5
       /\ StepsFrom("scanning", left) = left + 4
       /\ StepsFrom("found", left) = 3
       /\ StepsFrom("committed", left) = 2
       /\ \A at \in Ended : StepsFrom(at, left) = 1
       /\ StepsFrom("idle", left) = 0
<1>1. Cardinality(Ids) \in Nat
  BY IdsAssumption, FS_CardinalityType
<1> QED
  BY <1>1 DEF StepsFrom, Ended, Refused

\* What is left of a loop can be counted, and is no more than there are calls when it begins.
LEMMA RemainingType ==
  ASSUME TypeOK, AtWork, NEW c \in Ids
  PROVE  /\ Cardinality(todo[c]) \in Nat /\ Remaining(c) \in Nat
         /\ pc[c] # "idle" => Remaining(c) >= 1
<1>1. Cardinality(todo[c]) \in Nat
  BY FS_CardinalityType DEF AtWork
<1>2. pc[c] \in HasTx \union Ended \union {"idle", "asked", "committed"}
  BY DEF TypeOK
<1> QED
  BY <1>1, <1>2, StepsFromIs DEF Remaining, HasTx

\* A step of a call's own uses up one of those that remain.
LEMMA OwnStepCounts ==
  ASSUME TypeOK, AtWork, NEW c \in Ids, Step(c)
  PROVE  Remaining(c)' \in 0..(Remaining(c) - 1)
<1> DEFINE n == Cardinality(Ids)
           left == Cardinality(todo[c])
<1>1. n \in Nat /\ left \in Nat /\ Remaining(c) = StepsFrom(pc[c], left)
      /\ Remaining(c)' = StepsFrom(pc'[c], Cardinality(todo'[c]))
  BY StepsFromIs, RemainingType DEF Remaining
<1>2. \A at : pc' = [pc EXCEPT ![c] = at] => pc'[c] = at
  BY DEF TypeOK
<1> HIDE DEF n, left
<1>3. ASSUME NEW at, pc'[c] = at,
             \/ pc[c] = "asked" /\ at = "waiting"
             \/ pc[c] = "waiting" /\ at = "locked"
             \/ pc[c] = "locked" /\ at \in {"soldOut", "counted"}
             \/ pc[c] = "counted" /\ at = "failed"
             \/ pc[c] = "scanning" /\ at \in {"found", "exhausted"}
             \/ pc[c] = "found" /\ at = "committed"
             \/ pc[c] = "committed" /\ at \in {"failed", "registered"}
             \/ pc[c] \in Ended /\ at = "idle"
      PROVE  Remaining(c)' \in 0..(Remaining(c) - 1)
  BY <1>1, <1>3, StepsFromIs DEF Ended, Refused, n
<1>4. CASE Begin(c) \/ Lock(c)
  BY <1>2, <1>3, <1>4 DEF Begin, Lock, Goto
<1>5. CASE CheckStock(c)
  BY <1>2, <1>3, <1>5 DEF CheckStock, Goto
<1>6. CASE SelectPorts(c)
  <2>1. CASE Need(c) <= 0
    BY <1>2, <1>3, <1>6, <2>1 DEF SelectPorts, Goto
  <2>2. CASE ~ (Need(c) <= 0)
    <3>1. pc[c] = "counted" /\ pc'[c] = "scanning" /\ todo'[c] = Segments
      BY <1>2, <1>6, <2>2 DEF SelectPorts, Goto, TypeOK
    <3>2. Cardinality(Segments) \in Nat /\ Cardinality(Segments) <= n
      BY SegmentsFinite, FS_CardinalityType DEF n
    <3> QED
      BY <1>1, <3>1, <3>2, StepsFromIs DEF n
  <2> QED
    BY <2>1, <2>2
<1>7. ASSUME NEW u \in todo[c], Visit(c, u) PROVE Remaining(c)' \in 0..(Remaining(c) - 1)
  <2>1. CASE GapBefore(c, u)
    BY <1>2, <1>3, <1>7, <2>1 DEF Visit, Goto
  <2>2. CASE ~ GapBefore(c, u)
    <3>1. pc[c] = "scanning" /\ pc'[c] = "scanning" /\ todo'[c] = todo[c] \ {u}
      BY <1>7, <2>2 DEF Visit, TypeOK
    <3>2. Cardinality(todo'[c]) = left - 1
      BY <1>7, <3>1, FS_RemoveElement DEF AtWork, left
    <3> QED
      BY <1>1, <3>1, <3>2, StepsFromIs
  <2> QED
    BY <2>1, <2>2
<1>8. CASE LastGap(c)
  BY <1>2, <1>3, <1>8 DEF LastGap, Goto
<1>9. CASE Commit(c, "committed")
  BY <1>2, <1>3, <1>9 DEF Commit, Goto
<1>10. CASE ReadBack(c)
  BY <1>2, <1>3, <1>10 DEF ReadBack, Goto
<1>11. CASE Return(c)
  BY <1>2, <1>3, <1>11 DEF Return, Goto
<1> QED
  BY <1>4, <1>5, <1>6, <1>7, <1>8, <1>9, <1>10, <1>11 DEF Step

\* A step of the others, or of none, adds nothing.
LEMMA OthersAddNothing ==
  ASSUME TypeOK, AtWork, [Next]_vars, NEW c \in Ids, pc[c] # "idle", ~ Step(c)
  PROVE  Remaining(c)' <= Remaining(c)
<1>1. Remaining(c) \in Nat /\ Remaining(c) >= 1
  BY RemainingType
<1>2. ASSUME pc'[c] = pc[c], todo'[c] = todo[c] PROVE Remaining(c)' <= Remaining(c)
  BY <1>1, <1>2 DEF Remaining
<1>3. ASSUME pc'[c] \in {"idle", "failed"} PROVE Remaining(c)' <= Remaining(c)
  BY <1>1, <1>3, StepsFromIs DEF Remaining, Ended
<1> USE DEF TypeOK, Goto, locals
<1>4. ASSUME NEW d \in Ids, NEW p \in Plans, Request(d, p) PROVE Remaining(c)' <= Remaining(c)
  BY <1>2, <1>4 DEF Request
<1>5. ASSUME NEW d \in Ids, Fail(d) \/ Commit(d, "failed") PROVE Remaining(c)' <= Remaining(c)
  BY <1>2, <1>3, <1>5 DEF Fail, Commit
<1>6. ASSUME NEW d \in Ids, Step(d) PROVE Remaining(c)' <= Remaining(c)
  <2>1. c # d
    BY <1>6
  <2>2. pc'[c] = pc[c] /\ todo'[c] = todo[c]
    BY <1>6, <2>1 DEF Step, Begin, Lock, CheckStock, SelectPorts, Visit, LastGap, Commit,
                      ReadBack, Return
  <2> QED
    BY <1>2, <2>2
<1>7. ASSUME NEW config \in Pools, Restart(config) PROVE Remaining(c)' <= Remaining(c)
  BY <1>3, <1>7 DEF Restart
<1>8. CASE \/ \E p \in Plans, terms \in Terms : SetPlan(p, terms)
           \/ \E gone \in SUBSET Registered : Unregister(gone)
           \/ UNCHANGED vars
  BY <1>2, <1>8 DEF SetPlan, Unregister, vars
<1> QED
  BY <1>4, <1>5, <1>6, <1>7, <1>8 DEF Next

\* No call takes more steps than Create has and its loop has turns for the segments of all
\* calls, however the others go on, fail or come anew: then it has its answer.  With
\* NobodyIsStuck this is why EveryCallEnds, but for the order in which the lock and the
\* connections are granted.
THEOREM StepsRunOut == Spec => [][\A c \in Ids : UsesUp(c)]_vars
<1>1. Init => AtWork
  BY FS_EmptySet DEF Init, AtWork
<1>2. PortInvariant /\ AtWork /\ [Next]_vars => AtWork'
  BY AtWorkStep
<1>3. ASSUME PortInvariant, AtWork, [Next]_vars, NEW c \in Ids PROVE UsesUp(c)
  <2>1. TypeOK /\ Remaining(c) \in Nat
    BY <1>3, RemainingType DEF PortInvariant
  <2>2. CASE Step(c)
    <3>1. Remaining(c)' \in 0..(Remaining(c) - 1)
      BY <1>3, <2>1, <2>2, OwnStepCounts
    <3> QED
      BY <2>1, <3>1 DEF UsesUp
  <2>3. CASE ~ Step(c)
    BY <1>3, <2>1, <2>3, OthersAddNothing DEF UsesUp
  <2> QED
    BY <2>2, <2>3
<1>4. PortInvariant /\ AtWork /\ [Next]_vars => [\A c \in Ids : UsesUp(c)]_vars
  BY <1>3
<1> QED
  BY <1>1, <1>2, <1>4, PortCorrect, PTL DEF Spec
=============================================================================
