------------------------- MODULE ProvisioningProofs -------------------------
(***************************************************************************)
(* Provisioning for every set of requests, deletes and names and every     *)
(* number of restarts: its types, the foreign key of the quotas table, no  *)
(* start without limits, no configuration change lost, and no accepted     *)
(* instance given up.                                                      *)
(***************************************************************************)
EXTENDS Provisioning, TLAPS

\* The goroutines work on names of instances.
LEMMA NameForType == \A t \in Tasks : NameFor(t) \in Names
BY NamesAssumption DEF Tasks, NameFor

\* The goroutine of a request works on the name it asked for.
LEMMA NameForRequest == \A r \in Requests : NameFor(r) = NameOf[r]
BY NamesAssumption DEF NameFor

\* Setting one field of a configuration gives a configuration.
LEMMA ConfSet ==
  ASSUME NEW c \in [limited : BOOLEAN, patched : BOOLEAN]
  PROVE  /\ [c EXCEPT !.limited = TRUE] \in [limited : BOOLEAN, patched : BOOLEAN]
         /\ [c EXCEPT !.patched = TRUE] \in [limited : BOOLEAN, patched : BOOLEAN]
         /\ [c EXCEPT !.limited = TRUE].limited /\ [c EXCEPT !.patched = TRUE].patched
         /\ [c EXCEPT !.limited = TRUE].patched = c.patched
         /\ [c EXCEPT !.patched = TRUE].limited = c.limited
OBVIOUS

\* The two stores and the panel start with values of their types.
LEMMA TypeInit == Init => TypeOK
<1> SUFFICES ASSUME Init PROVE TypeOK
  OBVIOUS
<1>1. /\ row \in [Names -> Requests \union {None}] /\ inst \in [Names -> Requests \union {None}]
      /\ conf \in [Requests -> [limited : BOOLEAN, patched : BOOLEAN]]
      /\ op \in [Requests -> {"none", "running", "done", "failed"}]
  BY DEF Init, Fresh
<1>2. /\ pc \in [Requests -> {"idle", "created", "registered", "compensating", "quotaSet",
                              "refused", "accepted", "lost"}]
      /\ dpc \in [Deletes -> Names \union {None}]
      /\ task \in [Tasks -> {"none", "wait", "get", "update", "start", "ended"}]
  BY DEF Init
<1>3. seen \in [Tasks -> [gen : Requests \union {None},
                          conf : [limited : BOOLEAN, patched : BOOLEAN]]]
  BY DEF Init, Unread, Fresh
<1>4. /\ quota \subseteq Requests /\ running \subseteq Requests /\ dying \subseteq Names
      /\ listed \in BOOLEAN /\ reconcile \subseteq Names
  BY DEF Init
<1>5. restarts \in 0 .. MaxRestarts /\ erred \subseteq Requests
  BY RestartsAssumption DEF Init
<1> QED
  BY <1>1, <1>2, <1>3, <1>4, <1>5 DEF TypeOK

\* A handler of CreateInstance keeps the types.
LEMMA CreateType ==
  ASSUME TypeOK, NEW r \in Requests, Create(r)
  PROVE  TypeOK'
<1> USE NamesAssumption DEF TypeOK, At, database, incus, panel
<1>1. r \in Tasks /\ NameOf[r] \in Names
  BY DEF Tasks
<1>2. CASE CreateInIncus(r)
  <2>1. op' \in [Requests -> {"none", "running", "done", "failed"}]
    BY <1>2 DEF CreateInIncus
  <2>2. \E to \in {"refused", "created"} : At(r, "idle", to)
    BY <1>2 DEF CreateInIncus
  <2>3. pc' \in [Requests -> {"idle", "created", "registered", "compensating", "quotaSet",
                              "refused", "accepted", "lost"}]
    BY <2>2
  <2> QED
    BY <1>2, <2>1, <2>3 DEF CreateInIncus
<1>3. CASE Register(r)
  BY <1>1, <1>3 DEF Register
<1>4. CASE RegisterFails(r)
  <2>1. row' \in [Names -> Requests \union {None}]
    BY <1>1, <1>4 DEF RegisterFails
  <2> QED
    BY <1>4, <2>1 DEF RegisterFails
<1>5. CASE Compensate(r)
  BY <1>1, <1>5 DEF Compensate
<1>6. CASE SetQuota(r)
  BY <1>6 DEF SetQuota
<1>7. CASE Accept(r)
  BY <1>1, <1>7 DEF Accept
<1> QED
  BY <1>2, <1>3, <1>4, <1>5, <1>6, <1>7 DEF Create

\* A goroutine of applyBandwidthFromPlan keeps the types.
LEMMA ApplyType ==
  ASSUME TypeOK, NEW t \in Tasks, Apply(t)
  PROVE  TypeOK'
<1> USE DEF TypeOK, TaskAt, GivesUp, database, incus, panel
<1> DEFINE gen == inst[NameFor(t)]
<1>1. gen \in Requests \union {None}
  BY NameForType
<1>2. CASE Wait(t)
  BY <1>2 DEF Wait
<1>3. CASE Get(t)
  <2>1. gen # None => [gen |-> gen, conf |-> conf[gen]] \in
          [gen : Requests \union {None}, conf : [limited : BOOLEAN, patched : BOOLEAN]]
    BY <1>1
  <2>2. seen' \in [Tasks -> [gen : Requests \union {None},
                             conf : [limited : BOOLEAN, patched : BOOLEAN]]]
    BY <1>3, <2>1 DEF Get
  <2>3. /\ task' \in [Tasks -> {"none", "wait", "get", "update", "start", "ended"}]
        /\ erred' \subseteq Requests
    BY <1>3 DEF Get
  <2> QED
    BY <1>3, <2>2, <2>3 DEF Get
<1>4. CASE Update(t)
  <2>1. Unread \in [gen : Requests \union {None}, conf : [limited : BOOLEAN, patched : BOOLEAN]]
    BY DEF Unread, Fresh
  <2>2. [seen[t].conf EXCEPT !.limited = TRUE] \in [limited : BOOLEAN, patched : BOOLEAN]
    <3>1. seen[t].conf \in [limited : BOOLEAN, patched : BOOLEAN]
      OBVIOUS
    <3> QED
      BY <3>1, ConfSet
  <2>3. conf' \in [Requests -> [limited : BOOLEAN, patched : BOOLEAN]]
    BY <1>4, <2>2 DEF Update, WritesLimits
  <2>4. seen' \in [Tasks -> [gen : Requests \union {None},
                             conf : [limited : BOOLEAN, patched : BOOLEAN]]]
    BY <1>4, <2>1 DEF Update
  <2>5. /\ task' \in [Tasks -> {"none", "wait", "get", "update", "start", "ended"}]
        /\ erred' \subseteq Requests
    BY <1>4 DEF Update, GoesOn
  <2> QED
    BY <1>4, <2>3, <2>4, <2>5 DEF Update
<1>5. CASE Start(t)
  BY <1>1, <1>5 DEF Start, Starts
<1> QED
  BY <1>2, <1>3, <1>4, <1>5 DEF Apply

\* Every step keeps the types.
LEMMA TypeStep == TypeOK /\ [Next]_vars => TypeOK'
<1> SUFFICES ASSUME TypeOK, [Next]_vars PROVE TypeOK'
  OBVIOUS
<1> USE NamesAssumption DEF TypeOK, database, incus, panel
<1>1. ASSUME NEW r \in Requests, Create(r) PROVE TypeOK'
  BY <1>1, CreateType
<1>2. ASSUME NEW r \in Requests, CreateEnds(r) PROVE TypeOK'
  <2>1. op' \in [Requests -> {"none", "running", "done", "failed"}]
    BY <1>2 DEF CreateEnds
  <2>2. inst' \in [Names -> Requests \union {None}]
    BY <1>2 DEF CreateEnds
  <2> QED
    BY <1>2, <2>1, <2>2 DEF CreateEnds
<1>3. ASSUME NEW t \in Tasks, Apply(t) PROVE TypeOK'
  BY <1>3, ApplyType
<1>4. CASE ReconcileList
  BY <1>4 DEF ReconcileList
<1>5. ASSUME NEW n \in Names, ReconcileVisit(n) PROVE TypeOK'
  BY <1>5 DEF ReconcileVisit, Tasks
<1>6. ASSUME NEW d \in Deletes, DeleteRow(d) PROVE TypeOK'
  <2>1. row' \in [Names -> Requests \union {None}] /\ quota' \subseteq Requests
    BY <1>6 DEF DeleteRow
  <2>2. dpc' \in [Deletes -> Names \union {None}]
    BY <1>6 DEF DeleteRow
  <2> QED
    BY <1>6, <2>1, <2>2 DEF DeleteRow
<1>7. ASSUME NEW d \in Deletes, NEW n \in Names, DeleteInIncus(d, n) PROVE TypeOK'
  BY <1>7 DEF DeleteInIncus
<1>8. ASSUME NEW n \in Names, DeleteOwner(n) PROVE TypeOK'
  BY <1>8 DEF DeleteOwner
<1>9. ASSUME NEW n \in Names, Patch(n) PROVE TypeOK'
  <2>1. conf' = [conf EXCEPT ![inst[n]].patched = TRUE] /\ inst[n] \in Requests
    BY <1>9 DEF Patch
  <2>2. [conf[inst[n]] EXCEPT !.patched = TRUE] \in [limited : BOOLEAN, patched : BOOLEAN]
    <3>1. conf[inst[n]] \in [limited : BOOLEAN, patched : BOOLEAN]
      BY <2>1
    <3> QED
      BY <3>1, ConfSet
  <2>3. conf' \in [Requests -> [limited : BOOLEAN, patched : BOOLEAN]]
    BY <2>1, <2>2
  <2> QED
    BY <1>9, <2>3 DEF Patch
<1>10. ASSUME NEW n \in Names, DeleteEnds(n) PROVE TypeOK'
  BY <1>10 DEF DeleteEnds
<1>11. CASE Restart
  <2>1. \A t \in Tasks : Unread \in
          [gen : Requests \union {None}, conf : [limited : BOOLEAN, patched : BOOLEAN]]
    BY DEF Unread, Fresh
  <2>2. seen' \in [Tasks -> [gen : Requests \union {None},
                             conf : [limited : BOOLEAN, patched : BOOLEAN]]]
    BY <1>11, <2>1 DEF Restart
  <2>3. restarts' \in 0 .. MaxRestarts
    BY <1>11, RestartsAssumption DEF Restart
  <2>4. pc' \in [Requests -> {"idle", "created", "registered", "compensating", "quotaSet",
                              "refused", "accepted", "lost"}]
    BY <1>11 DEF Restart
  <2>5. /\ dpc' \in [Deletes -> Names \union {None}]
        /\ task' \in [Tasks -> {"none", "wait", "get", "update", "start", "ended"}]
    BY <1>11 DEF Restart
  <2> QED
    BY <1>11, <2>2, <2>3, <2>4, <2>5 DEF Restart
<1>12. CASE UNCHANGED vars
  BY <1>12 DEF vars
<1> QED
  BY <1>1, <1>2, <1>3, <1>4, <1>5, <1>6, <1>7, <1>8, <1>9, <1>10, <1>11, <1>12
     DEF Next, Reconcile

\* PostgreSQL, Incus and the panel hold values of their types.
THEOREM TypeCorrect == Spec => []TypeOK
BY TypeInit, TypeStep, PTL DEF Spec

-----------------------------------------------------------------------------
(* The foreign key *)

\* Whatever takes a row away takes its quota along.
LEMMA QuotaStep == TypeOK /\ QuotaHasRow /\ [Next]_vars => QuotaHasRow'
<1> SUFFICES ASSUME TypeOK, QuotaHasRow, [Next]_vars, NEW q \in quota' PROVE Owns(q)'
  BY DEF QuotaHasRow
<1> USE DEF Owns, database, incus, panel
<1>1. quota \subseteq Requests /\ (q \in quota => row[NameOf[q]] = q)
  BY DEF TypeOK, QuotaHasRow
<1>2. row \in [Names -> Requests \union {None}] /\ NameOf \in [Requests -> Names]
  BY NamesAssumption DEF TypeOK
<1>3. CASE UNCHANGED database
  BY <1>1, <1>3
<1>4. ASSUME NEW r \in Requests, Register(r) \/ RegisterFails(r), ~ UNCHANGED row PROVE Owns(q)'
  <2>1. q \in quota /\ row[NameOf[r]] = None /\ row' = [row EXCEPT ![NameOf[r]] = r]
    BY <1>4 DEF Register, RegisterFails
  <2>2. NameOf[q] # NameOf[r]
    BY <1>1, <2>1, NamesAssumption
  <2> QED
    BY <1>1, <1>2, <2>1, <2>2
<1>5. ASSUME NEW r \in Requests, SetQuota(r) PROVE Owns(q)'
  BY <1>1, <1>5 DEF SetQuota
<1>6. ASSUME NEW n \in Names, row' = [row EXCEPT ![n] = None], quota' = quota \ {row[n]}
      PROVE  Owns(q)'
  <2>1. q \in quota /\ q # row[n]
    BY <1>6
  <2>2. NameOf[q] # n
    BY <1>1, <2>1
  <2> QED
    BY <1>1, <1>2, <1>6, <2>1, <2>2
<1>7. ASSUME NEW d \in Deletes, DeleteRow(d) PROVE Owns(q)'
  <2>1. dpc[d] \in Names
    BY <1>7 DEF DeleteRow, TypeOK
  <2> QED
    BY <1>3, <1>6, <1>7, <2>1 DEF DeleteRow
<1>8. ASSUME NEW n \in Names, DeleteOwner(n) PROVE Owns(q)'
  BY <1>6, <1>8 DEF DeleteOwner
<1>9. ASSUME NEW t \in Tasks, Apply(t) PROVE Owns(q)'
  BY <1>3, <1>9 DEF Apply, Wait, Get, Update, Start
<1>10. ASSUME NEW r \in Requests, Create(r) PROVE Owns(q)'
  BY <1>3, <1>4, <1>5, <1>10 DEF Create, CreateInIncus, Register, RegisterFails, Compensate, Accept
<1> QED
  BY <1>3, <1>7, <1>8, <1>9, <1>10
     DEF Next, vars, CreateEnds, Reconcile, ReconcileList, ReconcileVisit, DeleteInIncus, Patch,
         DeleteEnds, Restart

\* Nothing has a quota in an initial state.
LEMMA QuotaInit == Init => QuotaHasRow
BY DEF Init, QuotaHasRow

\* A quotas row always belongs to a registered instance.
THEOREM QuotaReferential == Spec => []QuotaHasRow
BY QuotaInit, QuotaStep, TypeCorrect, PTL DEF Spec

-----------------------------------------------------------------------------
(* Configuration *)

\* The configuration of an instance only changes by an Update under an etag that
\* holds or by a Patch, and neither takes a limit or a patch away.
LEMMA ConfGrows ==
  ASSUME TypeOK, [Next]_vars, NEW r \in Requests
  PROVE  /\ conf[r].limited => conf'[r].limited
         /\ conf[r].patched => conf'[r].patched
<1> USE DEF database, incus, panel
<1>1. CASE UNCHANGED conf
  BY <1>1
<1>2. ASSUME NEW t \in Tasks, Update(t)
      PROVE  /\ conf[r].limited => conf'[r].limited
             /\ conf[r].patched => conf'[r].patched
  <2> DEFINE gen == inst[NameFor(t)]
  <2>1. CASE EtagHolds(t) /\ WritesLimits(t)
    <3>1. gen # None /\ seen[t] = [gen |-> gen, conf |-> conf[gen]]
      BY <2>1 DEF EtagHolds
    <3>2. gen \in Requests
      BY <3>1, NameForType DEF TypeOK
    <3>3. conf' = [conf EXCEPT ![gen] = [conf[gen] EXCEPT !.limited = TRUE]]
      BY <2>1, <3>1 DEF WritesLimits
    <3>4. conf[gen] \in [limited : BOOLEAN, patched : BOOLEAN]
      BY <3>2 DEF TypeOK
    <3>5. conf \in [Requests -> [limited : BOOLEAN, patched : BOOLEAN]]
      BY DEF TypeOK
    <3> QED
      BY <3>2, <3>3, <3>4, <3>5, ConfSet
  <2> QED
    BY <1>1, <1>2, <2>1 DEF Update
<1>3. ASSUME NEW n \in Names, Patch(n)
      PROVE  /\ conf[r].limited => conf'[r].limited
             /\ conf[r].patched => conf'[r].patched
  <2>1. inst[n] \in Requests /\ conf \in [Requests -> [limited : BOOLEAN, patched : BOOLEAN]]
    BY <1>3 DEF Patch, TypeOK
  <2>2. conf' = [conf EXCEPT ![inst[n]] = [conf[inst[n]] EXCEPT !.patched = TRUE]]
    BY <1>3 DEF Patch
  <2>3. conf[inst[n]] \in [limited : BOOLEAN, patched : BOOLEAN]
    BY <2>1
  <2> QED
    BY <2>1, <2>2, <2>3, ConfSet
<1>4. ASSUME NEW s \in Requests, Create(s) PROVE UNCHANGED conf
  BY <1>4 DEF Create, CreateInIncus, Register, RegisterFails, Compensate, SetQuota, Accept
<1>5. ASSUME NEW t \in Tasks, Apply(t), ~Update(t) PROVE UNCHANGED conf
  BY <1>5 DEF Apply, Wait, Get, Start
<1> QED
  BY <1>1, <1>2, <1>3, <1>4, <1>5
     DEF Next, vars, CreateEnds, Reconcile, ReconcileList, ReconcileVisit, DeleteRow,
         DeleteInIncus, DeleteOwner, DeleteEnds, Restart

\* No goroutine's write loses a change a user made between its read and it.
THEOREM PatchesSurvive == Spec => PatchSurvives
<1>1. TypeOK /\ [Next]_vars => [\A r \in Requests : conf[r].patched => conf'[r].patched]_vars
  BY ConfGrows
<1> QED
  BY <1>1, TypeCorrect, PTL DEF Spec, PatchSurvives

-----------------------------------------------------------------------------
(* Starts *)

\* The steps that do not move the goroutine of r, its handler, or its create
\* operation, keep what it waited for.
LEMMA AwaitedStep ==
  ASSUME TypeOK, [Next]_vars, NEW r \in Requests, Awaited(r)
  PROVE  Awaited(r)'
<1> USE DEF Awaited, database, incus, panel
<1>1. CASE UNCHANGED << pc, op, task >>
  BY <1>1
<1>2. /\ pc \in [Requests -> {"idle", "created", "registered", "compensating", "quotaSet",
                              "refused", "accepted", "lost"}]
      /\ op \in [Requests -> {"none", "running", "done", "failed"}]
      /\ task \in [Tasks -> {"none", "wait", "get", "update", "start", "ended"}]
      /\ r \in Tasks
  BY DEF TypeOK, Tasks
<1>3. ASSUME NEW s \in Requests, Create(s) PROVE Awaited(r)'
  <2>1. CASE CreateInIncus(s)
    BY <1>2, <2>1 DEF CreateInIncus, At
  <2>2. CASE Accept(s)
    BY <1>2, <2>2 DEF Accept, At
  <2>3. CASE Register(s) \/ RegisterFails(s) \/ Compensate(s) \/ SetQuota(s)
    BY <1>2, <2>3 DEF Register, RegisterFails, Compensate, SetQuota, At
  <2> QED
    BY <1>3, <2>1, <2>2, <2>3 DEF Create
<1>4. ASSUME NEW s \in Requests, CreateEnds(s) PROVE Awaited(r)'
  BY <1>2, <1>4 DEF CreateEnds
<1>5. ASSUME NEW t \in Tasks, Apply(t) PROVE Awaited(r)'
  <2>1. CASE Wait(t)
    BY <1>2, <2>1 DEF Wait, TaskAt, GivesUp
  <2>2. CASE Get(t)
    BY <1>2, <2>2 DEF Get, TaskAt, GivesUp
  <2>3. CASE Update(t)
    BY <1>2, <2>3 DEF Update, TaskAt, GivesUp, GoesOn
  <2>4. CASE Start(t)
    BY <1>2, <2>4 DEF Start, TaskAt, GivesUp
  <2> QED
    BY <1>5, <2>1, <2>2, <2>3, <2>4 DEF Apply
<1>6. ASSUME NEW n \in Names, ReconcileVisit(n) PROVE Awaited(r)'
  <2>1. n # r
    BY NamesAssumption
  <2> QED
    BY <1>2, <1>6, <2>1 DEF ReconcileVisit
<1>7. CASE Restart
  BY <1>2, <1>7 DEF Restart
<1> QED
  BY <1>1, <1>3, <1>4, <1>5, <1>6, <1>7
     DEF Next, vars, Reconcile, ReconcileList, DeleteRow, DeleteInIncus, DeleteOwner, Patch, DeleteEnds

\* A goroutine comes to its start only through an Update that took effect on the
\* instance it is about to start, and that instance is not another one by then.
LEMMA StartStep ==
  ASSUME TypeOK, StartInvariant, [Next]_vars, NEW r \in Requests,
         task'[r] = "start", Visible(r)'
  PROVE  conf'[r].limited
<1> USE DEF database, incus, panel
<1>1. Awaited(r) /\ (task[r] = "start" /\ Visible(r) => conf[r].limited)
  BY DEF StartInvariant, StartsLimited
<1>2. /\ task \in [Tasks -> {"none", "wait", "get", "update", "start", "ended"}]
      /\ inst \in [Names -> Requests \union {None}] /\ NameOf[r] \in Names /\ r \in Tasks
      /\ r \notin Names /\ r # None
  BY NamesAssumption DEF TypeOK, Tasks
<1>3. CASE task[r] = "start" /\ Visible(r)
  BY <1>1, <1>3, ConfGrows
<1>4. CASE task[r] = "start" /\ ~Visible(r)
  <2>1. op[r] = "done"
    BY <1>1, <1>4 DEF Awaited
  <2>2. ASSUME NEW s \in Requests, CreateEnds(s) PROVE FALSE
    <3>1. s # r
      BY <2>1, <2>2 DEF CreateEnds
    <3> QED
      BY <1>2, <1>4, <2>2, <3>1 DEF CreateEnds, Visible
  <2>3. ASSUME NEW n \in Names, DeleteEnds(n) PROVE FALSE
    BY <1>2, <1>4, <2>3 DEF DeleteEnds, Visible
  <2>4. CASE UNCHANGED inst
    BY <1>4, <2>4 DEF Visible
  <2> QED
    BY <2>2, <2>3, <2>4
       DEF Next, vars, Create, CreateInIncus, Register, RegisterFails, Compensate, SetQuota, Accept,
           Apply, Wait, Get, Update, Start, Reconcile, ReconcileList, ReconcileVisit, DeleteRow,
           DeleteInIncus, DeleteOwner, Patch, Restart
<1>5. CASE task[r] # "start"
  <2>1. ASSUME NEW s \in Requests, Create(s) PROVE FALSE
    BY <1>2, <1>5, <2>1 DEF Create, CreateInIncus, Register, RegisterFails, Compensate, SetQuota,
                            Accept, Tasks
  <2>2. ASSUME NEW t \in Tasks, Apply(t) PROVE Update(r) /\ EtagHolds(r) /\ WritesLimits(r)
    <3>1. t = r /\ Update(r)
      BY <1>2, <1>5, <2>2 DEF Apply, Wait, Get, Update, Start, TaskAt, GivesUp, GoesOn
    <3> QED
      BY <1>2, <3>1 DEF Update, TaskAt, GivesUp, GoesOn
  <2>3. CASE Update(r) /\ EtagHolds(r) /\ WritesLimits(r)
    <3>1. inst[NameOf[r]] = r
      BY <2>3 DEF Update, Visible
    <3>2. conf' = [conf EXCEPT ![r] = [seen[r].conf EXCEPT !.limited = TRUE]]
      BY <2>3, <3>1, NameForRequest DEF WritesLimits
    <3>3. /\ conf \in [Requests -> [limited : BOOLEAN, patched : BOOLEAN]]
          /\ seen[r].conf \in [limited : BOOLEAN, patched : BOOLEAN]
      BY <1>2 DEF TypeOK
    <3> QED
      BY <3>2, <3>3, ConfSet
  <2>4. ASSUME NEW n \in Names, ReconcileVisit(n) PROVE FALSE
    BY <1>2, <1>5, <2>4 DEF ReconcileVisit
  <2>5. CASE UNCHANGED task
    BY <1>5, <2>5
  <2>6. CASE Restart
    BY <1>2, <2>6 DEF Restart
  <2> QED
    BY <2>1, <2>2, <2>3, <2>4, <2>5, <2>6
       DEF Next, vars, CreateEnds, Reconcile, ReconcileList, DeleteRow, DeleteInIncus, DeleteOwner,
           Patch, DeleteEnds
<1> QED
  BY <1>3, <1>4, <1>5

\* No handler has begun in an initial state.
LEMMA StartInit == Init => StartInvariant
BY DEF Init, StartInvariant, StartsLimited, Awaited, Tasks

\* An auto-started instance is started only under the limits of its plan.
THEOREM NoStartWithoutLimits == Spec => []StartsLimited
<1>1. TypeOK /\ StartInvariant /\ [Next]_vars => StartInvariant'
  BY AwaitedStep, StartStep DEF StartInvariant, StartsLimited
<1>2. StartInvariant => StartsLimited
  BY DEF StartInvariant
<1> QED
  BY <1>1, <1>2, StartInit, TypeCorrect, PTL DEF Spec

-----------------------------------------------------------------------------
(* Promises *)

\* An instance bears the name its request asked for.
Made == \A n \in Names : inst[n] # None => NameOf[inst[n]] = n

\* Until the process restarts, the goroutine of a request is there from the 202 on and not
\* before, and waits until the create operation has ended or a call returns an error.
Begun(r) ==
  restarts = 0 =>
    /\ pc[r] = "accepted" <=> task[r] # "none"
    /\ op[r] \in {"none", "running"} => task[r] \in {"none", "wait"} \/ r \in erred

\* The instance of r is there, undisturbed by errors too, and left alone by reconciles.
Undisturbed(r) ==
  /\ op[r] = "done" /\ Visible(r) /\ NameOf[r] \notin dying
  /\ restarts = 0 /\ ~ conf[r].patched /\ r \notin erred /\ task[NameOf[r]] = "none"

\* PromiseInHand is not inductive: goroutines of other requests work on the instance of r
\* before its own was started.  So this says the same of every instance that is visible.
Tended(r) == Undisturbed(r) => task[r] = "none" \/ InHand(r) \/ Provisioned(r)

PromiseInvariant == Made /\ \A r \in Requests : Awaited(r) /\ Begun(r) /\ Tended(r)

\* Any step keeps the names.
LEMMA MadeStep == TypeOK /\ Made /\ [Next]_vars => Made'
<1> SUFFICES ASSUME TypeOK, Made, [Next]_vars PROVE Made'
  OBVIOUS
<1> USE DEF database, incus, panel
<1>1. CASE UNCHANGED inst
  BY <1>1 DEF Made
<1>2. inst \in [Names -> Requests \union {None}]
  BY DEF TypeOK
<1>3. ASSUME NEW r \in Requests, CreateEnds(r) PROVE Made'
  BY <1>2, <1>3 DEF CreateEnds, Made
<1>4. ASSUME NEW n \in Names, DeleteEnds(n) PROVE Made'
  BY <1>2, <1>4 DEF DeleteEnds, Made
<1> QED
  BY <1>1, <1>3, <1>4
     DEF Next, vars, Create, CreateInIncus, Register, RegisterFails, Compensate, SetQuota, Accept,
         Apply, Wait, Get, Update, Start, Reconcile, ReconcileList, ReconcileVisit, DeleteRow,
         DeleteInIncus, DeleteOwner, Patch, Restart

\* What an error has befallen is remembered.
LEMMA ErredGrows == [Next]_vars => erred \subseteq erred'
BY DEF Next, vars, Create, CreateInIncus, Register, RegisterFails, Compensate, SetQuota, Accept,
       CreateEnds, Apply, Wait, Get, Update, Start, GivesUp, Reconcile, ReconcileList,
       ReconcileVisit, DeleteRow, DeleteInIncus, DeleteOwner, Patch, DeleteEnds, Restart

\* The goroutine of r is begun by its own handler, and moved on by itself.
LEMMA BegunStep ==
  ASSUME TypeOK, [Next]_vars, NEW r \in Requests, Awaited(r), Begun(r)
  PROVE  Begun(r)'
<1> USE DEF Begun, database, incus, panel
<1>1. CASE UNCHANGED << pc, op, task, restarts, erred >>
  BY <1>1
<1>2. /\ pc \in [Requests -> {"idle", "created", "registered", "compensating", "quotaSet",
                              "refused", "accepted", "lost"}]
      /\ op \in [Requests -> {"none", "running", "done", "failed"}]
      /\ task \in [Tasks -> {"none", "wait", "get", "update", "start", "ended"}]
      /\ r \in Tasks /\ restarts \in Nat
  BY RestartsAssumption DEF TypeOK, Tasks
<1>3. ASSUME NEW s \in Requests, Create(s) PROVE Begun(r)'
  <2>1. CASE CreateInIncus(s)
    BY <1>2, <2>1 DEF CreateInIncus, At, Awaited
  <2>2. CASE Accept(s)
    BY <1>2, <2>2 DEF Accept, At, Tasks
  <2>3. CASE Register(s) \/ RegisterFails(s) \/ Compensate(s) \/ SetQuota(s)
    BY <1>2, <2>3 DEF Register, RegisterFails, Compensate, SetQuota, At
  <2> QED
    BY <1>3, <2>1, <2>2, <2>3 DEF Create
<1>4. ASSUME NEW s \in Requests, CreateEnds(s) PROVE Begun(r)'
  BY <1>2, <1>4 DEF CreateEnds
<1>5. ASSUME NEW t \in Tasks, Apply(t) PROVE Begun(r)'
  <2>1. CASE Wait(t)
    BY <1>2, <2>1 DEF Wait, TaskAt, GivesUp
  <2>2. CASE Get(t)
    BY <1>2, <2>2 DEF Get, TaskAt, GivesUp
  <2>3. CASE Update(t)
    BY <1>2, <2>3 DEF Update, TaskAt, GivesUp, GoesOn
  <2>4. CASE Start(t)
    BY <1>2, <2>4 DEF Start, TaskAt, GivesUp
  <2> QED
    BY <1>5, <2>1, <2>2, <2>3, <2>4 DEF Apply
<1>6. ASSUME NEW n \in Names, ReconcileVisit(n) PROVE Begun(r)'
  <2>1. n # r
    BY NamesAssumption
  <2> QED
    BY <1>2, <1>6, <2>1 DEF ReconcileVisit
<1>7. CASE Restart
  BY <1>2, <1>7 DEF Restart
<1> QED
  BY <1>1, <1>3, <1>4, <1>5, <1>6, <1>7
     DEF Next, vars, Reconcile, ReconcileList, DeleteRow, DeleteInIncus, DeleteOwner, Patch, DeleteEnds

\* What was undisturbed before the step, if the instance was there.
LEMMA UndisturbedBefore ==
  ASSUME TypeOK, [Next]_vars, NEW r \in Requests, Undisturbed(r)', ~ CreateEnds(r)
  PROVE  Undisturbed(r) /\ UNCHANGED << op[r], inst[NameOf[r]] >>
<1> USE NamesAssumption DEF database, incus, panel
<1>1. /\ op \in [Requests -> {"none", "running", "done", "failed"}]
      /\ inst \in [Names -> Requests \union {None}] /\ NameOf[r] \in Names
      /\ task \in [Tasks -> {"none", "wait", "get", "update", "start", "ended"}]
      /\ NameOf[r] \in Tasks /\ restarts \in Nat /\ r # None
  BY RestartsAssumption DEF TypeOK, Tasks
<1>2. ~ conf[r].patched
  BY ConfGrows DEF Undisturbed
<1>3. op[r] = "done" /\ inst[NameOf[r]] = r /\ UNCHANGED inst[NameOf[r]]
  <2>1. CASE UNCHANGED << op, inst >>
    BY <2>1 DEF Undisturbed, Visible
  <2>2. ASSUME NEW s \in Requests, Create(s) PROVE UNCHANGED inst /\ op'[r] \in {op[r], "running"}
    BY <1>1, <2>2 DEF Create, CreateInIncus, Register, RegisterFails, Compensate, SetQuota, Accept
  <2>3. ASSUME NEW s \in Requests, CreateEnds(s)
        PROVE  op'[r] = op[r] /\ inst[NameOf[r]] = r /\ UNCHANGED inst[NameOf[r]]
    BY <1>1, <2>3 DEF CreateEnds, Undisturbed, Visible
  <2>4. ASSUME NEW n \in Names, DeleteEnds(n)
        PROVE  op' = op /\ inst[NameOf[r]] = r /\ UNCHANGED inst[NameOf[r]]
    BY <1>1, <2>4 DEF DeleteEnds, Undisturbed, Visible
  <2> QED
    BY <2>1, <2>2, <2>3, <2>4
       DEF Next, vars, Apply, Wait, Get, Update, Start, Reconcile, ReconcileList, ReconcileVisit,
           DeleteRow, DeleteInIncus, DeleteOwner, Patch, Restart, Undisturbed, Visible
<1>4. restarts = 0
  <2>1. restarts' = restarts \/ Restart
    BY DEF Next, vars, Create, CreateInIncus, Register, RegisterFails, Compensate, SetQuota, Accept,
           CreateEnds, Apply, Wait, Get, Update, Start, Reconcile, ReconcileList, ReconcileVisit,
           DeleteRow, DeleteInIncus, DeleteOwner, Patch, DeleteEnds
  <2> QED
    BY <1>1, <2>1 DEF Restart, Undisturbed
<1>5. NameOf[r] \notin dying
  <2>1. ASSUME NEW n \in Names, DeleteEnds(n) PROVE n # NameOf[r]
    BY <1>1, <2>1 DEF DeleteEnds, Undisturbed, Visible
  <2>2. dying \subseteq dying' \/ \E n \in Names : DeleteEnds(n)
    BY DEF Next, vars, Create, CreateInIncus, Register, RegisterFails, Compensate, SetQuota, Accept,
           CreateEnds, Apply, Wait, Get, Update, Start, Reconcile, ReconcileList, ReconcileVisit,
           DeleteRow, DeleteInIncus, DeleteOwner, Patch, Restart
  <2>3. ASSUME NEW n \in Names, DeleteEnds(n) PROVE NameOf[r] \notin dying
    BY <2>1, <2>3 DEF DeleteEnds, Undisturbed
  <2> QED
    BY <2>2, <2>3 DEF Undisturbed
<1>6. task[NameOf[r]] = "none"
  <2>1. ASSUME NEW t \in Tasks, Apply(t) PROVE task[NameOf[r]] = "none"
    BY <1>1, <2>1 DEF Apply, Wait, Get, Update, Start, TaskAt, GivesUp, GoesOn, Undisturbed
  <2>2. ASSUME NEW s \in Requests, Accept(s) PROVE task[NameOf[r]] = "none"
    BY <1>1, <2>2 DEF Accept, Undisturbed
  <2>3. ASSUME NEW n \in Names, ReconcileVisit(n) PROVE task[NameOf[r]] = "none"
    BY <1>1, <2>3 DEF ReconcileVisit, Undisturbed
  <2>4. CASE UNCHANGED task
    BY <2>4 DEF Undisturbed
  <2>5. ~ Restart
    BY <1>1 DEF Restart, Undisturbed
  <2> QED
    BY <2>1, <2>2, <2>3, <2>4, <2>5
       DEF Next, vars, Create, CreateInIncus, Register, RegisterFails, Compensate, SetQuota,
           CreateEnds, Reconcile, ReconcileList, DeleteRow, DeleteInIncus, DeleteOwner, Patch,
           DeleteEnds
<1>7. r \notin erred
  BY ErredGrows DEF Undisturbed
<1> QED
  BY <1>2, <1>3, <1>4, <1>5, <1>6, <1>7 DEF Undisturbed, Visible

\* A goroutine of a request is begun by its handler, and then moves by itself alone.
LEMMA TaskMoves ==
  ASSUME TypeOK, [Next]_vars, ~ Restart, NEW r \in Requests
  PROVE  UNCHANGED task[r] \/ Apply(r) \/ Accept(r)
<1> USE NamesAssumption DEF database, incus, panel
<1>1. task \in [Tasks -> {"none", "wait", "get", "update", "start", "ended"}] /\ r \in Tasks
  BY DEF TypeOK, Tasks
<1>2. ASSUME NEW t \in Tasks, Apply(t), t # r PROVE UNCHANGED task[r]
  BY <1>1, <1>2 DEF Apply, Wait, Get, Update, Start, TaskAt, GivesUp, GoesOn
<1>3. ASSUME NEW s \in Requests, Create(s), ~ Accept(r) PROVE UNCHANGED task[r]
  BY <1>1, <1>3 DEF Create, CreateInIncus, Register, RegisterFails, Compensate, SetQuota, Accept
<1>4. ASSUME NEW n \in Names, ReconcileVisit(n) PROVE UNCHANGED task[r]
  <2>1. n # r
    BY NamesAssumption
  <2> QED
    BY <1>1, <1>4, <2>1 DEF ReconcileVisit
<1> QED
  BY <1>2, <1>3, <1>4
     DEF Next, vars, CreateEnds, Reconcile, ReconcileList, DeleteRow, DeleteInIncus, DeleteOwner,
         Patch, DeleteEnds

\* The configuration of an instance is changed by a user, or by a goroutine of its name
\* that sets the limits.
LEMMA ConfMoves ==
  ASSUME TypeOK, Made, [Next]_vars, NEW r \in Requests
  PROVE  \/ UNCHANGED conf[r]
         \/ conf'[r].patched
         \/ \E t \in Tasks : Update(t) /\ EtagHolds(t) /\ NameFor(t) = NameOf[r] /\ conf'[r].limited
<1> USE DEF database, incus, panel
<1>1. CASE UNCHANGED conf
  BY <1>1
<1>2. /\ conf \in [Requests -> [limited : BOOLEAN, patched : BOOLEAN]]
      /\ inst \in [Names -> Requests \union {None}]
  BY DEF TypeOK
<1>3. ASSUME NEW t \in Tasks, Update(t), ~ UNCHANGED conf[r]
      PROVE  EtagHolds(t) /\ NameFor(t) = NameOf[r] /\ conf'[r].limited
  <2> DEFINE gen == inst[NameFor(t)]
  <2>1. EtagHolds(t) /\ conf' = [conf EXCEPT ![gen] = [seen[t].conf EXCEPT !.limited = TRUE]]
    BY <1>3 DEF Update, WritesLimits
  <2>2. gen = r /\ NameFor(t) \in Names
    BY <1>2, <1>3, <2>1, NameForType
  <2>3. seen[t].conf \in [limited : BOOLEAN, patched : BOOLEAN]
    BY DEF TypeOK
  <2>4. conf'[r].limited
    BY <1>2, <2>1, <2>2, <2>3, ConfSet
  <2> QED
    BY <2>1, <2>2, <2>4, NamesAssumption DEF Made
<1>4. ASSUME NEW n \in Names, Patch(n), ~ UNCHANGED conf[r]
      PROVE  conf'[r].patched
  <2>1. inst[n] = r /\ conf' = [conf EXCEPT ![r] = [conf[r] EXCEPT !.patched = TRUE]]
    BY <1>2, <1>4 DEF Patch
  <2>2. conf[r] \in [limited : BOOLEAN, patched : BOOLEAN]
    BY <1>2
  <2> QED
    BY <1>2, <2>1, <2>2, ConfSet
<1>5. ASSUME NEW s \in Requests, Create(s) PROVE UNCHANGED conf
  BY <1>5 DEF Create, CreateInIncus, Register, RegisterFails, Compensate, SetQuota, Accept
<1>6. ASSUME NEW t \in Tasks, Apply(t), ~ Update(t) PROVE UNCHANGED conf
  BY <1>6 DEF Apply, Wait, Get, Start
<1> QED
  BY <1>1, <1>3, <1>4, <1>5, <1>6
     DEF Next, vars, CreateEnds, Reconcile, ReconcileList, ReconcileVisit, DeleteRow,
         DeleteInIncus, DeleteOwner, DeleteEnds, Restart

\* An instance that is there stays started.
LEMMA RunningStays ==
  ASSUME TypeOK, Made, [Next]_vars, NEW r \in Requests, Visible(r)', r \in running
  PROVE  r \in running'
<1> USE DEF database, incus, panel
<1>1. ASSUME NEW n \in Names, DeleteEnds(n) PROVE r # inst[n]
  <2>1. SUFFICES ASSUME r = inst[n] PROVE FALSE
    OBVIOUS
  <2>2. NameOf[r] = n /\ inst'[n] = None /\ r # None
    BY <1>1, <2>1, NamesAssumption DEF DeleteEnds, Made, TypeOK
  <2> QED
    BY <2>2 DEF Visible
<1>2. ASSUME NEW n \in Names, DeleteEnds(n) PROVE r \in running'
  BY <1>1, <1>2 DEF DeleteEnds
<1> QED
  BY <1>2
     DEF Next, vars, Create, CreateInIncus, Register, RegisterFails, Compensate, SetQuota, Accept,
         CreateEnds, Apply, Wait, Get, Update, Start, Starts, Reconcile, ReconcileList, ReconcileVisit,
         DeleteRow, DeleteInIncus, DeleteOwner, Patch, Restart

\* An instance that is there, undisturbed, passes from hand to hand until it is provisioned.
LEMMA TendedStep ==
  ASSUME TypeOK, Made, [Next]_vars, \A s \in Requests : Begun(s), NEW r \in Requests, Tended(r)
  PROVE  Tended(r)'
<1> SUFFICES ASSUME Undisturbed(r)', task'[r] # "none"
             PROVE  InHand(r)' \/ Provisioned(r)'
  BY DEF Tended
<1> USE NamesAssumption DEF database, incus, panel
<1>1. CASE CreateEnds(r)
  <2>1. op[r] = "running" /\ UNCHANGED << task, restarts, erred >>
    BY <1>1 DEF CreateEnds
  <2>2. task'[r] = "wait"
    BY <2>1 DEF Begun, Undisturbed
  <2> QED
    BY <2>2 DEF InHand
<1>2. CASE ~ CreateEnds(r)
  <2>1. Undisturbed(r) /\ inst[NameOf[r]] = r /\ inst'[NameOf[r]] = r
    BY <1>2, UndisturbedBefore DEF Undisturbed, Visible
  <2>2. /\ task \in [Tasks -> {"none", "wait", "get", "update", "start", "ended"}]
        /\ seen \in [Tasks -> [gen : Requests \union {None},
                               conf : [limited : BOOLEAN, patched : BOOLEAN]]]
        /\ r \in Tasks /\ NameOf[r] \in Names /\ restarts \in Nat /\ r # None
        /\ NameFor(r) = NameOf[r]
    BY NameForRequest, RestartsAssumption DEF TypeOK, Tasks
  <2>3. ASSUME NEW t \in Tasks, NEW from, GivesUp(t, from) PROVE NameFor(t) # NameOf[r]
    BY <2>1, <2>3 DEF GivesUp, Undisturbed
  <2>4. ~ Restart /\ ~ conf'[r].patched
    BY <2>2 DEF Restart, Undisturbed
  <2>5. conf[r].limited => conf'[r].limited
    BY ConfGrows
  <2>6. CASE Provisioned(r)
    BY <2>5, <2>6, RunningStays DEF Provisioned, Undisturbed
  <2>7. CASE UNCHANGED task[r] /\ task[r] \in {"wait", "get"}
    BY <2>7 DEF InHand
  <2>8. CASE Accept(r)
    BY <2>2, <2>8 DEF Accept, InHand
  <2>9. CASE Apply(r) /\ task[r] \in {"wait", "get"}
    <3>1. CASE Wait(r)
      BY <2>1, <2>2, <2>3, <3>1 DEF Wait, TaskAt, GivesUp, InHand, Undisturbed
    <3>2. CASE Get(r)
      <4>1. task'[r] = "update" /\ seen'[r] = [gen |-> r, conf |-> conf[r]] /\ conf' = conf
        BY <2>1, <2>2, <2>3, <3>2 DEF Get, TaskAt
      <4>2. EtagHolds(r)'
        BY <2>1, <2>2, <4>1 DEF EtagHolds
      <4> QED
        BY <4>1, <4>2 DEF InHand
    <3> QED
      BY <2>9, <3>1, <3>2 DEF Apply, Update, Start, TaskAt, GivesUp, GoesOn
  <2>10. CASE task[r] = "update" /\ EtagHolds(r)
    <3>1. CASE Update(r)
      <4>1. conf'[r].limited
        <5>1. conf' = [conf EXCEPT ![r] = [seen[r].conf EXCEPT !.limited = TRUE]]
          BY <2>1, <2>2, <2>3, <2>10, <3>1 DEF Update, WritesLimits
        <5>2. conf \in [Requests -> [limited : BOOLEAN, patched : BOOLEAN]]
          BY DEF TypeOK
        <5>3. seen[r].conf \in [limited : BOOLEAN, patched : BOOLEAN]
          BY <2>2
        <5> QED
          BY <5>1, <5>2, <5>3, ConfSet
      <4>2. task'[r] = "start"
        BY <2>2, <2>3, <2>10, <3>1 DEF Update, TaskAt, GoesOn
      <4> QED
        BY <4>1, <4>2 DEF InHand
    <3>2. CASE \E t \in Tasks : t # r /\ Update(t) /\ EtagHolds(t) /\ NameFor(t) = NameOf[r]
                                /\ conf'[r].limited
      <4>1. PICK t \in Tasks : t # r /\ Update(t) /\ EtagHolds(t) /\ NameFor(t) = NameOf[r]
                               /\ conf'[r].limited
        BY <3>2
      <4>2. t \in Requests
        <5>1. t # NameOf[r]
          BY <2>1, <4>1 DEF Update, TaskAt, GivesUp, GoesOn, Undisturbed
        <5> QED
          BY <4>1, <5>1 DEF NameFor, Tasks
      <4>3. NameOf[t] = NameOf[r] /\ task'[t] = "start"
        BY <2>2, <2>3, <4>1, <4>2, NameForRequest DEF Update, TaskAt, GoesOn
      <4> QED
        BY <4>1, <4>2, <4>3 DEF InHand
    <3>3. CASE ~ Update(r) /\ ~ Accept(r) /\ UNCHANGED conf[r]
      <4>1. ~ Apply(r) /\ UNCHANGED task[r]
        BY <2>2, <2>4, <2>10, <3>3, TaskMoves DEF Apply, Wait, Get, Start, TaskAt, GivesUp, GoesOn
      <4>2. ASSUME NEW t \in Tasks, Apply(t) PROVE UNCHANGED seen[r]
        BY <2>2, <4>1, <4>2 DEF Apply, Wait, Get, Update, Start
      <4>3. UNCHANGED seen[r]
        BY <2>4, <4>2
           DEF Next, vars, Create, CreateInIncus, Register, RegisterFails, Compensate, SetQuota,
               Accept, CreateEnds, Reconcile, ReconcileList, ReconcileVisit, DeleteRow,
               DeleteInIncus, DeleteOwner, Patch, DeleteEnds
      <4> QED
        BY <2>1, <2>2, <2>10, <3>3, <4>1, <4>3 DEF InHand, EtagHolds
    <3>4. \/ UNCHANGED conf[r]
          \/ \E t \in Tasks : Update(t) /\ EtagHolds(t) /\ NameFor(t) = NameOf[r] /\ conf'[r].limited
      BY <2>4, ConfMoves
    <3> QED
      BY <2>8, <3>1, <3>2, <3>3, <3>4
  <2>11. CASE conf[r].limited /\ \E s \in Requests : NameOf[s] = NameOf[r] /\ task[s] = "start"
    <3>1. PICK s \in Requests : NameOf[s] = NameOf[r] /\ task[s] = "start"
      BY <2>11
    <3>2. CASE Start(s)
      BY <2>1, <2>3, <2>5, <2>11, <3>1, <3>2, NameForRequest DEF Start, Starts, Provisioned, Tasks
    <3>3. CASE UNCHANGED task[s]
      BY <2>5, <2>11, <3>1, <3>3 DEF InHand
    <3>4. ~ Accept(s)
      BY <2>1, <3>1 DEF Accept, At, Begun, Undisturbed
    <3>5. Apply(s) => Start(s)
      BY <3>1 DEF Apply, Wait, Get, Update, TaskAt, GivesUp, GoesOn
    <3> QED
      BY <2>4, <3>2, <3>3, <3>4, <3>5, TaskMoves
  <2>12. CASE task[r] = "none"
    BY <2>2, <2>4, <2>8, <2>12, TaskMoves DEF Apply, Wait, Get, Update, Start, TaskAt, GivesUp, GoesOn
  <2>13. InHand(r) \/ Provisioned(r) \/ task[r] = "none"
    BY <2>1 DEF Tended
  <2>14. task[r] \in {"wait", "get"} => UNCHANGED task[r] \/ Apply(r) \/ Accept(r)
    BY <2>4, TaskMoves
  <2> QED
    BY <2>6, <2>7, <2>8, <2>9, <2>10, <2>11, <2>12, <2>13, <2>14 DEF InHand
<1> QED
  BY <1>1, <1>2

\* An accepted instance is given up by nobody before it runs under its limits, for any number
\* of requests for its name and of goroutines that take the etag from each other.
THEOREM PromisesInHand == Spec => []PromiseInHand
<1>1. Init => PromiseInvariant
  BY DEF Init, PromiseInvariant, Made, Awaited, Begun, Tended, Undisturbed, Tasks
<1>2. TypeOK /\ PromiseInvariant /\ [Next]_vars => PromiseInvariant'
  BY MadeStep, AwaitedStep, BegunStep, TendedStep DEF PromiseInvariant
<1>3. TypeOK /\ PromiseInvariant => PromiseInHand
  <2>1. SUFFICES ASSUME TypeOK, PromiseInvariant, NEW r \in Requests, pc[r] = "accepted",
                        ~ Disturbed(r), task[NameOf[r]] = "none"
                 PROVE  Provisioned(r) \/ InHand(r)
    BY DEF PromiseInHand
  <2>2. /\ Begun(r) /\ Tended(r) /\ restarts = 0
        /\ op[r] \in {"none", "running", "done", "failed"}
    BY <2>1, RestartsAssumption DEF PromiseInvariant, TypeOK, Disturbed
  <2>3. CASE op[r] = "done"
    <3>1. Undisturbed(r)
      BY <2>1, <2>2, <2>3 DEF Disturbed, Undisturbed
    <3>2. task[r] # "none"
      BY <2>1, <2>2 DEF Begun
    <3> QED
      BY <2>2, <3>1, <3>2 DEF Tended
  <2>4. CASE op[r] \in {"none", "running"}
    BY <2>1, <2>2, <2>4 DEF Begun, InHand, Disturbed
  <2> QED
    BY <2>1, <2>2, <2>3, <2>4 DEF Disturbed
<1> QED
  BY <1>1, <1>2, <1>3, TypeCorrect, PTL DEF Spec
=============================================================================
