--------------------------- MODULE DevicesProofs ---------------------------
(***************************************************************************)
(* Proofs about Devices, for any instances, names, ranges, limits and any  *)
(* number of handlers: the types, where the ports of rules come from, that *)
(* registered instances do not share one, and what an update may do to the *)
(* rules and the limits that are there.                                    *)
(***************************************************************************)
EXTENDS Devices, TLAPS

-----------------------------------------------------------------------------
(* Types *)

\* A request is one when its parts are.
LEMMA AskTyped ==
  ASSUME NEW k \in {"none", "limit", "add", "remove", "plan"}, NEW n \in Names, NEW w \in Who,
         NEW p \in Ports \union {0}, NEW l \in Limits
  PROVE  Ask(k, n, w, p, l) \in Request
BY DEF Ask, Request

\* The empty request and the empty read have the types of real ones.
LEMMA Empties == NoRequest \in Request /\ Unread \in Read
<1>1. (CHOOSE n \in Names : TRUE) \in Names /\ (CHOOSE c \in Cards : TRUE) \in Nic
  BY NamesAssumption, CardsAssumption
<1>2. NoLimits \in Limits
  BY LimitsAssumption
<1>3. NoRequest \in Request
  BY <1>1, <1>2, AskTyped DEF NoRequest, Who
<1>4. NoRules \in Rules
  BY DEF NoRules, Rules
<1>5. Unread \in Read
  BY <1>1, <1>4 DEF Unread, Read
<1> QED
  BY <1>3, <1>5

\* A handler that starts keeps the types when its request has one.
LEMMA StartsTyped ==
  ASSUME TypeOK, NEW h \in Slots, NEW r \in Request, Starts(h, r),
         fate' \in [Gens -> Fates]
  PROVE  TypeOK'
BY DEF TypeOK, Starts, incus

\* Limits put on a whole card make a whole card.
LEMMA CardTyped ==
  ASSUME NEW h \in Slots, req[h] \in Request, seen[h] \in Read
  PROVE  WithLimits(h) \in Nic
<1>1. Base(h) \in Nic
  BY DEF Base, Read
<1>2. req[h].limits \in Limits
  BY DEF Request
<1> QED
  BY <1>1, <1>2 DEF WithLimits, Nic

\* What an update writes are devices.
LEMMA UpdateTyped ==
  ASSUME TypeOK, NEW h \in Slots
  PROVE  NewNic(h) \in Nic \union {Inherited} /\ NewRules(h) \in Rules
<1>1. req[h] \in Request /\ seen[h] \in Read
  BY DEF TypeOK
<1>2. NewNic(h) \in Nic \union {Inherited}
  <2>1. OwnCard(h) \in Nic \union {Inherited} /\ WithLimits(h) \in Nic
    BY <1>1, CardTyped DEF OwnCard
  <2>2. seen[h].nic \in Nic \union {Inherited}
    BY <1>1 DEF Read
  <2> QED
    BY <2>1, <2>2 DEF NewNic
<1>3. NewRules(h) \in Rules
  <2>1. seen[h].rules \in Rules /\ req[h].who \in Who
    BY <1>1 DEF Read, Request
  <2>2. Replace(h) \in Rules
    BY <2>1 DEF Replace, Rules
  <2> QED
    BY <2>1, <2>2 DEF NewRules
<1> QED
  BY <1>2, <1>3

\* A step in which a handler starts keeps the types.
LEMMA BeginTyped ==
  ASSUME TypeOK, NEW h \in Slots, Begin(h)
  PROVE  TypeOK'
<1>1. fate \in [Gens -> Fates]
  BY DEF TypeOK
<1>2. NoLimits \in Limits /\ PlanLimits \in Limits
  BY LimitsAssumption
<1>3. \A g \in Gens : Range[g].s \in Ports \union {0} /\ NameOf[g] \in Names
  BY RangeAssumption, NamesAssumption
<1>4. ASSUME NEW n \in Names, NEW p \in Ports \union {0}, NEW l \in Limits,
             PutBandwidth(h, n, p, l)
      PROVE  TypeOK'
  <2>1. Ask("limit", n, "admin", p, l) \in Request
    BY AskTyped DEF Who
  <2> QED
    BY <1>1, <1>4, <2>1, StartsTyped DEF PutBandwidth
<1>5. ASSUME NEW n \in Names, NEW p \in Ports, AddAnyRule(h, n, p) \/ AddOwnRule(h, n, p)
      PROVE  TypeOK'
  <2>1. Ask("add", n, "admin", p, NoLimits) \in Request /\ Ask("add", n, "user", p, NoLimits) \in Request
    BY <1>2, AskTyped DEF Who
  <2> QED
    BY <1>1, <1>5, <2>1, StartsTyped DEF AddAnyRule, AddOwnRule
<1>6. ASSUME NEW n \in Names, NEW p \in Ports \union {0}, DeleteProxyRule(h, n, p)
      PROVE  TypeOK'
  <2>1. Ask("remove", n, "admin", p, NoLimits) \in Request
    BY <1>2, AskTyped DEF Who
  <2> QED
    BY <1>1, <1>6, <2>1, StartsTyped DEF DeleteProxyRule
<1>7. ASSUME NEW n \in Names, ReconcileVisit(h, n)
      PROVE  TypeOK'
  <2>1. Ask("plan", n, "plan", 0, PlanLimits) \in Request
    BY <1>2, AskTyped DEF Who
  <2> QED
    BY <1>1, <1>7, <2>1, StartsTyped DEF ReconcileVisit
<1>8. ASSUME NEW g \in Gens, ApplyPlan(h, g)
      PROVE  TypeOK'
  <2>1. Ask("plan", NameOf[g], "plan", Range[g].s, PlanLimits) \in Request
    BY <1>2, <1>3, AskTyped DEF Who
  <2>2. fate' \in [Gens -> Fates]
    BY <1>1, <1>8 DEF ApplyPlan, Fates
  <2> QED
    BY <1>8, <2>1, <2>2, StartsTyped DEF ApplyPlan
<1> QED
  BY <1>4, <1>5, <1>6, <1>7, <1>8, PortsAssumption DEF Begin

\* Any step keeps the types.
LEMMA TypeStep ==
  ASSUME TypeOK, [Next]_vars
  PROVE  TypeOK'
<1>1. ASSUME NEW h \in Slots, Fail(h) PROVE TypeOK'
  BY <1>1, Empties DEF Fail, Forget, TypeOK, incus
<1>2. ASSUME NEW h \in Slots, Get(h) PROVE TypeOK'
  <2> DEFINE g == inst[req[h].name]
  <2>1. g \in Gens
    BY <1>2 DEF Get, TypeOK, Request
  <2>2. nic[g] \in Nic \union {Inherited} /\ rules[g] \in Rules /\ Expanded(g) \in Nic
    BY <2>1, CardsAssumption DEF TypeOK, Expanded
  <2>3. [gen |-> g, nic |-> nic[g], rules |-> rules[g], card |-> Expanded(g)] \in Read
    BY <2>1, <2>2 DEF Read
  <2> QED
    BY <1>2, <2>3 DEF Get, TypeOK, incus
<1>3. ASSUME NEW h \in Slots, Update(h) PROVE TypeOK'
  <2>1. NewNic(h) \in Nic \union {Inherited} /\ NewRules(h) \in Rules
    BY UpdateTyped
  <2> QED
    BY <1>3, <2>1, Empties DEF Update, Forget, TypeOK
<1>4. ASSUME NEW g \in Gens, Register(g) \/ Make(g) PROVE TypeOK'
  BY <1>4, NamesAssumption DEF Register, Commit, Make, Fates, TypeOK, incus
<1>5. ASSUME NEW n \in Names, DropInstance(n) PROVE TypeOK'
  <2>1. NoRules \in Rules
    BY DEF NoRules, Rules
  <2> QED
    BY <1>5, <2>1 DEF DropInstance, TypeOK
<1>6. ASSUME NEW n \in Names, DropRow(n) PROVE TypeOK'
  BY <1>6 DEF DropRow, TypeOK, incus
<1>7. ASSUME NEW card \in Cards, EditProfile(card) PROVE TypeOK'
  BY <1>7 DEF EditProfile, TypeOK
<1>8. CASE UNCHANGED vars
  BY <1>8 DEF vars, TypeOK
<1> QED
  BY <1>1, <1>2, <1>3, <1>4, <1>5, <1>6, <1>7, <1>8, BeginTyped DEF Next

\* The maps in Incus and the variables of every handler hold values of their types.
THEOREM TypeCorrect == Spec => []TypeOK
<1>1. Init => TypeOK
  <2>1. NoRules \in Rules
    BY DEF NoRules, Rules
  <2> QED
    BY <2>1, Empties DEF Init, Fates, TypeOK
<1>2. TypeOK /\ [Next]_vars => TypeOK'
  BY TypeStep
<1> QED
  BY <1>1, <1>2, PTL DEF Spec

-----------------------------------------------------------------------------
(* Where the ports of rules come from *)

\* An instance that was registered stays one that has had its name.
LEMMA RegisteredKept ==
  ASSUME TypeOK, [Next]_vars, NEW g \in Gens, Registered(g)
  PROVE  Registered(g)'
<1>1. ASSUME NEW h \in Slots, Begin(h) PROVE Registered(g)'
  BY <1>1 DEF Begin, PutBandwidth, AddAnyRule, AddOwnRule, DeleteProxyRule, ReconcileVisit,
     ApplyPlan, Registered, Starts, TypeOK
<1>2. ASSUME NEW h \in Slots, Get(h) \/ Update(h) \/ Fail(h) PROVE Registered(g)'
  BY <1>2 DEF Get, Update, Fail, Registered
<1>3. ASSUME NEW k \in Gens, Register(k) \/ Make(k) PROVE Registered(g)'
  BY <1>3 DEF Register, Commit, Make, Registered, TypeOK
<1>4. ASSUME NEW n \in Names, DropInstance(n) \/ DropRow(n) PROVE Registered(g)'
  BY <1>4 DEF DropInstance, DropRow, Registered
<1>5. ASSUME NEW card \in Cards, EditProfile(card) PROVE Registered(g)'
  BY <1>5 DEF EditProfile, Registered
<1>6. CASE UNCHANGED vars
  BY <1>6 DEF vars, Registered
<1> QED
  BY <1>1, <1>2, <1>3, <1>4, <1>5, <1>6 DEF Next

\* So a port that some owner of a name had stays one.
LEMMA PortOfKept ==
  ASSUME TypeOK, [Next]_vars, NEW p, NEW n, PortOf(p, n)
  PROVE  PortOf(p, n)'
BY RegisteredKept DEF PortOf, InRange

\* A port AddProxyRule does not refuse, and a first port that is one, lie in the
\* range of the row.
LEMMA CheckedPort ==
  ASSUME NEW g \in Gens, NEW p \in Ports
  PROVE  /\ ~Refuses(p, g) => InRange(p, g)
         /\ Range[g].s # 0 => InRange(Range[g].s, g)
<1>1. p \in Nat
  BY PortsAssumption
<1>2. /\ Range[g].s \in Nat /\ Range[g].e \in Nat
      /\ Range[g].s # 0 => Range[g].s <= Range[g].e
  BY RangeAssumption
<1> QED
  BY <1>1, <1>2 DEF Refuses, InRange

\* What stays as it was in Incus and in the table stays sound.
LEMMA SoundKept ==
  ASSUME TypeOK, PortInvariant, [Next]_vars
  PROVE  /\ UNCHANGED rules => RulesFit'
         /\ UNCHANGED row => RowsSound'
         /\ UNCHANGED inst => InstancesSound'
         /\ \A h \in Slots : req'[h] = req[h] => Carries(h)'
<1>1. UNCHANGED rules => RulesFit'
  BY PortOfKept DEF PortInvariant, RulesFit, Forwards
<1>2. UNCHANGED row => RowsSound'
  <2> SUFFICES ASSUME UNCHANGED row, NEW n \in Names, row[n] # None
               PROVE  /\ NameOf[row'[n]] = n /\ fate'[row'[n]] \in {"pulling", "made", "planned"}
                      /\ \A m \in Names \ {n} : row'[m] # None => Apart(row'[n], row'[m])
    BY Zenon DEF RowsSound, Registered, Apart
  <2>1. row[n] \in Gens
    BY DEF TypeOK
  <2>2. /\ NameOf[row[n]] = n /\ Registered(row[n])
        /\ \A m \in Names \ {n} : row[m] # None => Apart(row[n], row[m])
    BY DEF PortInvariant, RowsSound
  <2>3. fate'[row[n]] \in {"pulling", "made", "planned"}
    BY <2>1, <2>2, RegisteredKept DEF Registered
  <2> QED
    BY <2>2, <2>3 DEF Registered
<1>3. UNCHANGED inst => InstancesSound'
  BY DEF PortInvariant, InstancesSound
<1>4. \A h \in Slots : req'[h] = req[h] => Carries(h)'
  BY PortOfKept DEF PortInvariant, Carries
<1> QED
  BY <1>1, <1>2, <1>3, <1>4

\* A request of a user or of a plan starts with a port of the name.
LEMMA BeginCarries ==
  ASSUME TypeOK, PortInvariant, [Next]_vars, NEW h \in Slots, Begin(h)
  PROVE  Carries(h)'
<1>1. ASSUME NEW n \in Names, NEW p \in Ports, AddOwnRule(h, n, p) PROVE Carries(h)'
  <2>1. row[n] \in Gens /\ NameOf[row[n]] = n /\ Registered(row[n])
    BY <1>1 DEF AddOwnRule, TypeOK, PortInvariant, RowsSound
  <2>2. InRange(p, row[n])
    BY <1>1, <2>1, CheckedPort DEF AddOwnRule
  <2>3. PortOf(p, n)'
    BY <2>1, <2>2, PortOfKept DEF PortOf
  <2>4. req'[h].port = p /\ req'[h].name = n
    BY <1>1 DEF AddOwnRule, Starts, Ask, TypeOK
  <2> QED
    BY <2>3, <2>4 DEF Carries
<1>2. ASSUME NEW g \in Gens, ApplyPlan(h, g) PROVE Carries(h)'
  <2>1. req'[h].port = Range[g].s /\ req'[h].name = NameOf[g]
    BY <1>2 DEF ApplyPlan, Starts, Ask, TypeOK
  <2>2. CASE Range[g].s = 0
    BY <2>1, <2>2 DEF Carries
  <2>3. CASE Range[g].s # 0
    <3>1. InRange(Range[g].s, g) /\ Registered(g)
      BY <1>2, <2>3, CheckedPort, RangeAssumption DEF ApplyPlan, Registered
    <3>2. PortOf(Range[g].s, NameOf[g])'
      BY <3>1, PortOfKept DEF PortOf
    <3> QED
      BY <2>1, <3>2 DEF Carries
  <2> QED
    BY <2>2, <2>3
<1>3. ASSUME NEW n \in Names, NEW p \in Ports \union {0},
             AddAnyRule(h, n, p) \/ DeleteProxyRule(h, n, p)
      PROVE  Carries(h)'
  BY <1>3 DEF AddAnyRule, DeleteProxyRule, Starts, Ask, TypeOK, Carries
<1>4. ASSUME NEW n \in Names, NEW p \in Ports \union {0}, NEW l \in Limits,
             PutBandwidth(h, n, p, l) \/ ReconcileVisit(h, n)
      PROVE  Carries(h)'
  BY <1>4 DEF PutBandwidth, ReconcileVisit, Starts, Ask, TypeOK, Carries
<1> QED
  BY <1>1, <1>2, <1>3, <1>4, LimitsAssumption, PortsAssumption DEF Begin

\* An update writes what it read, or the rule its request carries.
LEMMA UpdateFits ==
  ASSUME TypeOK, PortInvariant, [Next]_vars, NEW h \in Slots, Update(h)
  PROVE  RulesFit'
<1> DEFINE g == inst[req[h].name]
<1>1. g \in Gens /\ NameOf[g] = req[h].name /\ seen[h].rules = rules[g] /\ rules[g] \in Rules
  BY DEF Update, EtagHolds, TypeOK, Request, PortInvariant, InstancesSound
<1>2. rules' = [rules EXCEPT ![g] = NewRules(h)]
  BY DEF Update
<1>3. ASSUME NEW k \in Gens, NEW p \in Ports, Forwards(k, p)'
      PROVE  Forwards(k, p) \/ (k = g /\ p = req[h].port /\ req[h].who # "admin")
  <2>1. CASE k # g
    BY <1>2, <1>3, <2>1 DEF Forwards, TypeOK
  <2>2. CASE k = g
    <3>1. rules'[g] = NewRules(h)
      BY <1>1, <1>2 DEF TypeOK
    <3>2. CASE NewRules(h) = seen[h].rules
      BY <1>1, <1>3, <2>2, <3>1, <3>2 DEF Forwards
    <3>3. CASE NewRules(h) = Replace(h)
      BY <1>1, <1>3, <2>2, <3>1, <3>3 DEF Forwards, Replace, Rules
    <3> QED
      BY <3>2, <3>3 DEF NewRules
  <2> QED
    BY <2>1, <2>2
<1>4. ASSUME NEW k \in Gens, NEW p \in Ports, Forwards(k, p)'
      PROVE  PortOf(p, NameOf[k])'
  <2>1. CASE Forwards(k, p)
    BY <2>1, PortOfKept DEF PortInvariant, RulesFit
  <2>2. CASE k = g /\ p = req[h].port /\ req[h].who # "admin"
    <3>1. p # 0
      BY PortsAssumption
    <3>2. PortOf(p, NameOf[k])
      BY <1>1, <2>2, <3>1 DEF PortInvariant, Carries
    <3> QED
      BY <3>2, PortOfKept
  <2> QED
    BY <1>3, <1>4, <2>1, <2>2
<1> QED
  BY <1>4 DEF RulesFit

\* Any step keeps the port invariant.
LEMMA PortStep ==
  ASSUME TypeOK, PortInvariant, [Next]_vars
  PROVE  PortInvariant'
<1>1. ASSUME NEW h \in Slots, Begin(h) PROVE PortInvariant'
  <2>1. UNCHANGED << row, incus >> /\ \A k \in Slots \ {h} : req'[k] = req[k]
    BY <1>1 DEF Begin, PutBandwidth, AddAnyRule, AddOwnRule, DeleteProxyRule, ReconcileVisit,
       ApplyPlan, Starts, TypeOK
  <2> QED
    BY <1>1, <2>1, SoundKept, BeginCarries DEF PortInvariant, incus
<1>2. ASSUME NEW h \in Slots, Get(h) PROVE PortInvariant'
  BY <1>2, SoundKept DEF Get, PortInvariant, incus
<1>3. ASSUME NEW h \in Slots, Update(h) \/ Fail(h) PROVE PortInvariant'
  <2>1. UNCHANGED << row, inst >> /\ \A k \in Slots \ {h} : req'[k] = req[k]
    BY <1>3 DEF Update, Fail, Forget, TypeOK, incus
  <2>2. Carries(h)'
    BY <1>3 DEF Update, Fail, Forget, TypeOK, Carries, NoRequest, Ask
  <2>3. RulesFit'
    BY <1>3, SoundKept, UpdateFits DEF Fail, incus
  <2> QED
    BY <2>1, <2>2, <2>3, SoundKept DEF PortInvariant
<1>4. ASSUME NEW g \in Gens, Register(g) PROVE PortInvariant'
  <2>1. UNCHANGED << incus, req >>
    BY <1>4 DEF Register, Commit
  <2>2. ASSUME NEW n \in Names, row'[n] # None
        PROVE  /\ NameOf[row'[n]] = n /\ fate'[row'[n]] \in {"pulling", "made", "planned"}
               /\ \A m \in Names \ {n} : row'[m] # None => Apart(row'[n], row'[m])
    <3>1. /\ row' = [row EXCEPT ![NameOf[g]] = g] /\ Registered(g)'
          /\ \A m \in Names : row[m] # None => Apart(g, row[m])
      BY <1>4 DEF Register, Commit, Registered, TypeOK
    <3>2. \A m \in Names \ {NameOf[g]} : row'[m] = row[m]
      BY <3>1 DEF TypeOK
    <3>3. row'[NameOf[g]] = g
      BY <3>1, NamesAssumption DEF TypeOK
    <3>4. CASE n = NameOf[g]
      BY <3>1, <3>2, <3>3, <3>4 DEF Registered
    <3>5. CASE n # NameOf[g]
      <4>1. row[n] # None /\ row'[n] = row[n] /\ row[n] \in Gens
        BY <2>2, <3>2, <3>5 DEF TypeOK
      <4>2. NameOf[row[n]] = n /\ fate'[row[n]] \in {"pulling", "made", "planned"}
        BY <4>1, RegisteredKept DEF PortInvariant, RowsSound, Registered
      <4>3. ASSUME NEW m \in Names \ {n}, row'[m] # None PROVE Apart(row[n], row'[m])
        <5>1. CASE m = NameOf[g]
          BY <3>1, <3>3, <4>1, <5>1 DEF Apart
        <5>2. CASE m # NameOf[g]
          BY <3>2, <4>1, <4>3, <5>2 DEF PortInvariant, RowsSound
        <5> QED
          BY <5>1, <5>2
      <4> QED
        BY <4>1, <4>2, <4>3
    <3> QED
      BY <3>4, <3>5
  <2>3. RowsSound'
    BY <2>2 DEF RowsSound, Registered, Apart
  <2> QED
    BY <2>1, <2>3, SoundKept DEF PortInvariant, incus
<1>5. ASSUME NEW g \in Gens, Make(g) PROVE PortInvariant'
  <2>1. UNCHANGED << row, rules, req >>
    BY <1>5 DEF Make
  <2>2. InstancesSound'
    BY <1>5, NamesAssumption DEF Make, TypeOK, PortInvariant, InstancesSound
  <2> QED
    BY <2>1, <2>2, SoundKept DEF PortInvariant
<1>6. ASSUME NEW n \in Names, DropInstance(n) PROVE PortInvariant'
  <2>1. UNCHANGED << row, req >>
    BY <1>6 DEF DropInstance
  <2>2. InstancesSound'
    BY <1>6 DEF DropInstance, TypeOK, PortInvariant, InstancesSound
  <2>3. ASSUME NEW g \in Gens, NEW p \in Ports, Forwards(g, p)' PROVE Forwards(g, p)
    BY <1>6, <2>3 DEF DropInstance, Forwards, NoRules, TypeOK
  <2>4. RulesFit'
    BY <2>3, PortOfKept DEF PortInvariant, RulesFit
  <2> QED
    BY <2>1, <2>2, <2>4, SoundKept DEF PortInvariant
<1>7. ASSUME NEW n \in Names, DropRow(n) PROVE PortInvariant'
  <2>1. UNCHANGED << incus, fate, req >>
    BY <1>7 DEF DropRow
  <2>2. \A m \in Names : row'[m] # None => row'[m] = row[m]
    BY <1>7 DEF DropRow, TypeOK
  <2>3. RowsSound'
    BY <2>1, <2>2 DEF PortInvariant, RowsSound, Registered, Apart
  <2> QED
    BY <2>1, <2>3, SoundKept DEF PortInvariant, incus
<1>8. ASSUME NEW card \in Cards, EditProfile(card) PROVE PortInvariant'
  BY <1>8, SoundKept DEF EditProfile, PortInvariant
<1>9. CASE UNCHANGED vars
  BY <1>9, SoundKept DEF vars, PortInvariant
<1> QED
  BY <1>1, <1>2, <1>3, <1>4, <1>5, <1>6, <1>7, <1>8, <1>9 DEF Next

\* Any step keeps what handlers read in agreement with itself.
LEMMA ReadStep ==
  ASSUME TypeOK, [Next]_vars, NEW h \in Slots, ReadSound(h)
  PROVE  ReadSound(h)'
<1>1. ASSUME NEW k \in Slots, Get(k) PROVE ReadSound(h)'
  <2>1. CASE k = h
    BY <1>1, <2>1 DEF Get, ReadSound, Expanded, TypeOK
  <2>2. CASE k # h
    BY <1>1, <2>2 DEF Get, ReadSound, TypeOK
  <2> QED
    BY <2>1, <2>2
<1>2. ASSUME NEW k \in Slots, Update(k) \/ Fail(k) PROVE ReadSound(h)'
  BY <1>2 DEF Update, Fail, Forget, ReadSound, Unread, TypeOK
<1>3. ASSUME UNCHANGED seen PROVE ReadSound(h)'
  BY <1>3 DEF ReadSound
<1>4. ASSUME NEW k \in Slots, Begin(k) PROVE UNCHANGED seen
  BY <1>4 DEF Begin, PutBandwidth, AddAnyRule, AddOwnRule, DeleteProxyRule, ReconcileVisit,
     ApplyPlan, Starts
<1> QED
  BY <1>1, <1>2, <1>3, <1>4 DEF Next, Register, Commit, Make, DropInstance, DropRow, EditProfile, vars

\* The rules of users and plans lie in ranges their name has had (AddProxyRule,
\* applyBandwidthFromPlan), the ranges of registered rows are apart, and what a
\* handler read agrees with itself.
THEOREM PortsOwned == Spec => []DeviceInvariant
<1>1. Init => DeviceInvariant
  <2>1. ASSUME Init PROVE RulesFit
    BY <2>1 DEF Init, RulesFit, Forwards, NoRules
  <2>2. ASSUME Init PROVE RowsSound /\ InstancesSound
    BY <2>2 DEF Init, RowsSound, InstancesSound
  <2>3. ASSUME Init, NEW h \in Slots PROVE Carries(h)
    BY <2>3 DEF Init, Carries, NoRequest, Ask
  <2>4. ASSUME Init, NEW h \in Slots PROVE ReadSound(h)
    BY <2>4 DEF Init, ReadSound, Unread
  <2> QED
    BY <2>1, <2>2, <2>3, <2>4 DEF PortInvariant, DeviceInvariant
<1>2. TypeOK /\ DeviceInvariant /\ [Next]_vars => DeviceInvariant'
  BY PortStep, ReadStep DEF DeviceInvariant
<1> QED
  BY <1>1, <1>2, TypeCorrect, PTL DEF Spec

\* Two instances that are registered and present forward no port in common, but
\* for an admin's rules and for names that were given out twice.
THEOREM NoSharedPort == Spec => []PortsApart
<1>1. ASSUME DeviceInvariant, TypeOK PROVE PortsApart
  <2> SUFFICES ASSUME NEW g \in Gens, NEW h \in Gens, NEW p \in Ports,
                      g # h, Present(g), Present(h), Forwards(g, p), Forwards(h, p),
                      ~Renamed(g), ~Renamed(h)
               PROVE  FALSE
    BY DEF PortsApart
  <2>1. PortOf(p, NameOf[g]) /\ PortOf(p, NameOf[h])
    BY <1>1 DEF DeviceInvariant, PortInvariant, RulesFit
  <2>2. InRange(p, g) /\ InRange(p, h)
    BY <2>1 DEF PortOf, Renamed
  <2>3. NameOf[g] \in Names /\ NameOf[h] \in Names /\ NameOf[g] # NameOf[h]
    BY NamesAssumption DEF Present
  <2>4. Apart(g, h)
    BY <1>1, <2>3, NamesAssumption DEF Present, DeviceInvariant, PortInvariant, RowsSound
  <2>5. /\ Range[g].s \in Nat /\ Range[g].e \in Nat /\ Range[h].s \in Nat /\ Range[h].e \in Nat
    BY RangeAssumption
  <2> QED
    BY <2>2, <2>4, <2>5 DEF InRange, Apart
<1> QED
  BY <1>1, TypeCorrect, PortsOwned, PTL

-----------------------------------------------------------------------------
(* What an update may do *)

\* Only an update changes a rule or a card of an instance that stays, and only
\* those of the instance its handler read.
LEMMA OnlyUpdates ==
  ASSUME TypeOK, DeviceInvariant, [Next]_vars, NEW g \in Gens, NEW p \in Ports,
         rules[g][p] # "none", rules'[g][p] # rules[g][p]
  PROVE  \/ inst'[NameOf[g]] = None
         \/ \E h \in Slots : Update(h) /\ g = inst[req[h].name]
<1>1. ASSUME NEW h \in Slots, Update(h) PROVE g = inst[req[h].name]
  BY <1>1 DEF Update, TypeOK
<1>2. ASSUME NEW n \in Names, DropInstance(n) PROVE inst'[NameOf[g]] = None
  <2>1. g = inst[n]
    BY <1>2 DEF DropInstance, TypeOK
  <2> QED
    BY <1>2, <2>1 DEF DropInstance, DeviceInvariant, PortInvariant, InstancesSound, TypeOK
<1>3. ASSUME NEW h \in Slots, Begin(h) PROVE UNCHANGED rules
  BY <1>3 DEF Begin, PutBandwidth, AddAnyRule, AddOwnRule, DeleteProxyRule, ReconcileVisit,
     ApplyPlan, Starts, incus
<1> QED
  BY <1>1, <1>2, <1>3 DEF Next, Get, Fail, Register, Commit, Make, DropRow, EditProfile, vars, incus

\* A rule goes or changes only with its instance, or at a request of a user or an
\* admin that names that very device: to add it, to remove it, or as the nic_name
\* of a bandwidth.
THEOREM RulesKept == Spec => RulesSurvive
<1>1. ASSUME TypeOK, DeviceInvariant, [Next]_vars, NEW g \in Gens, NEW p \in Ports,
             rules[g][p] # "none", rules'[g][p] # rules[g][p]
      PROVE  inst'[NameOf[g]] = None \/ AskedFor(p)
  <2> SUFFICES ASSUME NEW h \in Slots, Update(h), g = inst[req[h].name]
               PROVE  Writes(h) /\ req[h].port = p /\ req[h].kind \in {"add", "remove", "limit"}
    BY <1>1, OnlyUpdates DEF AskedFor
  <2>1. Writes(h)
    BY <1>1 DEF Update, Writes, TypeOK
  <2>2. seen[h].rules = rules[g] /\ rules'[g] = NewRules(h) /\ rules[g] \in Rules
    BY <1>1 DEF Update, EtagHolds, TypeOK
  <2>3. NewRules(h) = Replace(h) /\ req[h].port # 0 /\ req[h].port = p
    BY <1>1, <2>2 DEF NewRules, Replace, Rules
  <2>4. req[h].kind \in {"add", "remove", "limit"}
    BY <1>1, <2>2, <2>3 DEF NewRules
  <2> QED
    BY <2>1, <2>3, <2>4
<1>2. TypeOK /\ DeviceInvariant /\ [Next]_vars =>
        [RulesStay]_vars
  BY <1>1 DEF RulesStay
<1> QED
  BY <1>2, TypeCorrect, PortsOwned, PTL DEF Spec, RulesSurvive

\* An accepted write of limits does what it says, but for the two ways in which
\* the limits of a profile come back (PutBandwidth).
THEOREM LimitsHonoured == Spec => LimitsAsAsked
<1>1. ASSUME TypeOK, [Next]_vars, NEW h \in Slots, Writes(h) PROVE Update(h)
  <2>1. ASSUME NEW k \in Slots, Begin(k) PROVE FALSE
    BY <1>1, <2>1 DEF Begin, PutBandwidth, AddAnyRule, AddOwnRule, DeleteProxyRule,
       ReconcileVisit, ApplyPlan, Starts, Writes, TypeOK
  <2>2. ASSUME NEW k \in Slots, Get(k) \/ Fail(k) PROVE FALSE
    BY <1>1, <2>2 DEF Get, Fail, Writes, TypeOK
  <2>3. ASSUME NEW k \in Slots, Update(k) PROVE k = h
    BY <1>1, <2>3 DEF Update, Writes, TypeOK
  <2>4. pc' # pc
    BY <1>1 DEF Writes
  <2> QED
    BY <1>1, <2>1, <2>2, <2>3, <2>4
       DEF Next, Register, Commit, Make, DropInstance, DropRow, EditProfile, vars
<1>2. ASSUME TypeOK, DeviceInvariant, NEW h \in Slots, Update(h), ForCard(h)
      PROVE  LimitsAfter(seen[h].gen) = req[h].limits \/ BackToProfile(h)
  <2> DEFINE g == seen[h].gen
  <2>1. g \in Gens /\ nic'[g] = NewNic(h)
    BY <1>2 DEF Update, EtagHolds, TypeOK, Read
  <2>2. req[h] \in Request /\ seen[h] \in Read /\ ReadSound(h)
    BY <1>2 DEF TypeOK, DeviceInvariant
  <2>3. WithLimits(h) \in Nic /\ WithLimits(h).limits = req[h].limits
    <3>1. Base(h) \in Nic /\ req[h].limits \in Limits
      BY <2>2 DEF Base, Read, Request
    <3> QED
      BY <3>1 DEF WithLimits, Nic
  <2>4. CASE NewNic(h) = WithLimits(h)
    BY <2>1, <2>3, <2>4, CardsAssumption DEF LimitsAfter
  <2>5. CASE NewNic(h) # WithLimits(h)
    <3>1. /\ req[h].kind = "limit" /\ req[h].limits = NoLimits
          /\ WithLimits(h) = seen[h].card /\ NewNic(h) = Inherited
      BY <1>2, <2>5 DEF ForCard, NewNic, OwnCard
    <3>2. LimitsAfter(g) = profile.limits /\ seen[h].card.limits = NoLimits
      BY <2>1, <2>3, <3>1 DEF LimitsAfter
    <3>3. CASE seen[h].nic = Inherited
      BY <3>1, <3>2, <3>3 DEF BackToProfile
    <3>4. CASE seen[h].nic # Inherited
      <4>1. seen[h].nic = seen[h].card
        BY <2>2, <3>4 DEF ReadSound
      <4> QED
        BY <3>1, <3>2, <3>4, <4>1 DEF BackToProfile
    <3> QED
      BY <3>3, <3>4
  <2> QED
    BY <2>4, <2>5
<1>3. TypeOK /\ DeviceInvariant /\ [Next]_vars =>
        [LimitsSet]_vars
  BY <1>1, <1>2 DEF LimitsSet
<1> QED
  BY <1>3, TypeCorrect, PortsOwned, PTL DEF Spec, LimitsAsAsked
=============================================================================
