---------------------------- MODULE Provisioning ----------------------------
(***************************************************************************)
(* The life of an instance in two stores that share no transaction: the    *)
(* instances table of PostgreSQL (rows) and Incus (inst).  CreateInstance  *)
(* asks Incus first, registers the row, compensates when that fails, and   *)
(* leaves a goroutine behind that waits for Incus, limits the bandwidth    *)
(* and starts the instance; ReconcilePlanLimits does the same work again   *)
(* after a start of the process; DeleteInstance works in the same order as *)
(* CreateInstance; deleting a user removes rows and nothing else.          *)
(*                                                                         *)
(* Every plan here has a bandwidth, a quota and auto_start.  Incus is      *)
(* external: an operation it accepted ends in success or failure, an       *)
(* instance is invisible until its image is pulled (ListInstances says     *)
(* so), and a configuration change it accepted is in force at once.  Any   *)
(* call of it may return an error instead, because it failed or because    *)
(* its answer alone was lost.                                              *)
(***************************************************************************)
EXTENDS Naturals, FiniteSets

CONSTANTS
  Requests,     \* POST /instances requests, and the instances they create
  Deletes,      \* DELETE /instances/{name} handlers
  Names,        \* names instances have in Incus
  NameOf,       \* the name each request asks for
  None,         \* no row, no instance
  MaxRestarts   \* bound on restarts of the panel

ASSUME NamesAssumption ==
  /\ NameOf \in [Requests -> Names]
  /\ Requests \cap Names = {}
  /\ None \notin Requests \union Names

ASSUME RestartsAssumption == MaxRestarts \in Nat

\* One goroutine per request and one per name that a reconcile spawned.
Tasks == Requests \union Names
NameFor(t) == IF t \in Names THEN t ELSE NameOf[t]

VARIABLES
  row,          \* instances table: name -> the request whose row it is, or None
  quota,        \* quotas table: the requests whose instance has one
  inst,         \* Incus: name -> the request that made the visible instance, or None
  conf,         \* Incus: the configuration it accepted for each instance
  running,      \* Incus: the instances that were started
  op,           \* Incus: the create operation of each request
  dying,        \* Incus: names with an accepted delete operation
  pc,           \* where the CreateInstance handler of each request is
  dpc,          \* where each DeleteInstance handler is: "idle" or the name it deletes
  task,         \* where each goroutine of applyBandwidthFromPlan is
  seen,         \* the instance and configuration (the etag) a goroutine read
  listed,       \* ReconcilePlanLimits has read the rows
  reconcile,    \* the names it still has to visit
  restarts,
  erred         \* history: the requests whose goroutine, or on whose instance one, was
                \* answered with an error

database == << row, quota >>
incus == << inst, conf, running, op, dying >>
panel == << pc, dpc, task, seen, listed, reconcile >>
vars == << row, quota, inst, conf, running, op, dying, pc, dpc, task, seen, listed, reconcile, restarts, erred >>

Fresh == [limited |-> FALSE, patched |-> FALSE]
Unread == [gen |-> None, conf |-> Fresh]

\* A name Incus will not take again: an instance has it, or is being made.
Taken(n) == inst[n] # None \/ \E r \in Requests : NameOf[r] = n /\ op[r] = "running"

Init ==
  /\ row = [n \in Names |-> None]
  /\ quota = {}
  /\ inst = [n \in Names |-> None]
  /\ conf = [r \in Requests |-> Fresh]
  /\ running = {}
  /\ op = [r \in Requests |-> "none"]
  /\ dying = {}
  /\ pc = [r \in Requests |-> "idle"]
  /\ dpc = [d \in Deletes |-> None]
  /\ task = [t \in Tasks |-> "none"]
  /\ seen = [t \in Tasks |-> Unread]
  /\ listed = FALSE
  /\ reconcile = {}
  /\ restarts = 0
  /\ erred = {}

-----------------------------------------------------------------------------
(* CreateInstance *)

At(r, from, to) == pc[r] = from /\ pc' = [pc EXCEPT ![r] = to]

\* Server().CreateInstance: Incus takes the request and answers with an
\* operation, or there is an error: it knows the name, it failed, or it took the
\* request and its answer was lost.
CreateInIncus(r) ==
  /\ \/ At(r, "idle", "refused") /\ UNCHANGED op
     \/ /\ ~Taken(NameOf[r])
        /\ At(r, "idle", "created") \/ At(r, "idle", "refused")
        /\ op' = [op EXCEPT ![r] = "running"]
  /\ UNCHANGED << database, inst, conf, running, dying, dpc, task, seen, listed, reconcile, restarts, erred >>

\* Repo.Create commits the row (module Registration); names are UNIQUE.
Register(r) ==
  /\ At(r, "created", "registered")
  /\ row[NameOf[r]] = None
  /\ row' = [row EXCEPT ![NameOf[r]] = r]
  /\ UNCHANGED << quota, incus, dpc, task, seen, listed, reconcile, restarts, erred >>

\* Repo.Create returns an error: the name has a row, the plan sold out, the pool
\* is exhausted, the database failed, the client went away - it may be that only
\* the answer to the commit was lost.
RegisterFails(r) ==
  /\ At(r, "created", "compensating")
  /\ \/ UNCHANGED row
     \/ row[NameOf[r]] = None /\ row' = [row EXCEPT ![NameOf[r]] = r]
  /\ UNCHANGED << quota, incus, dpc, task, seen, listed, reconcile, restarts, erred >>

\* The compensation: DeleteInstance by name, its error dropped.  An instance that
\* is still being pulled is not found.
Compensate(r) ==
  /\ At(r, "compensating", "refused")
  /\ \/ inst[NameOf[r]] # None /\ dying' = dying \union {NameOf[r]}
     \/ UNCHANGED dying
  /\ UNCHANGED << database, inst, conf, running, op, dpc, task, seen, listed, reconcile, restarts, erred >>

\* quotas without the foreign key.
SetQuotaUnchecked(r) ==
  /\ At(r, "registered", "quotaSet")
  /\ quota' = quota \union {r}
  /\ UNCHANGED << row, incus, dpc, task, seen, listed, reconcile, restarts, erred >>

\* quotas.Set refers to the row it is for, and its error is dropped.
SetQuota(r) ==
  /\ At(r, "registered", "quotaSet")
  /\ \/ row[NameOf[r]] = r /\ quota' = quota \union {r}
     \/ UNCHANGED quota
  /\ UNCHANGED << row, incus, dpc, task, seen, listed, reconcile, restarts, erred >>

\* go applyBandwidthFromPlan(..., op), then 202 Accepted.
Accept(r) ==
  /\ At(r, "quotaSet", "accepted")
  /\ task' = [task EXCEPT ![r] = "wait"]
  /\ UNCHANGED << database, incus, dpc, seen, listed, reconcile, restarts, erred >>

Create(r) ==
  \/ CreateInIncus(r) \/ Register(r) \/ RegisterFails(r) \/ Compensate(r)
  \/ SetQuota(r) \/ Accept(r)

-----------------------------------------------------------------------------
(* applyBandwidthFromPlan *)

TaskAt(t, from, to) == task[t] = from /\ task' = [task EXCEPT ![t] = to]

\* The error of a call is logged, and the goroutine returns.
GivesUp(t, from) ==
  /\ TaskAt(t, from, "ended")
  /\ erred' = erred \union ({t, inst[NameFor(t)]} \cap Requests)

\* The operation not waited for.
WaitNot(t) ==
  /\ t \in Requests
  /\ TaskAt(t, "wait", "get")
  /\ UNCHANGED << database, incus, pc, dpc, seen, listed, reconcile, restarts, erred >>

\* op.Wait returns: the goroutine of a request gives up when the operation failed,
\* or when the connection it waits on did.
Wait(t) ==
  /\ t \in Requests
  /\ \/ /\ op[t] \in {"done", "failed"}
        /\ TaskAt(t, "wait", IF op[t] = "done" THEN "get" ELSE "ended")
        /\ UNCHANGED erred
     \/ GivesUp(t, "wait")
  /\ UNCHANGED << database, incus, pc, dpc, seen, listed, reconcile, restarts >>

\* GetInstance by name, with its etag: there is none of that name, or any other error.
Get(t) ==
  LET gen == inst[NameFor(t)] IN
    /\ \/ gen = None /\ TaskAt(t, "get", "ended") /\ UNCHANGED << seen, erred >>
       \/ /\ gen # None /\ TaskAt(t, "get", "update")
          /\ seen' = [seen EXCEPT ![t] = [gen |-> gen, conf |-> conf[gen]]]
          /\ UNCHANGED erred
       \/ GivesUp(t, "get") /\ UNCHANGED seen
    /\ UNCHANGED << database, incus, pc, dpc, listed, reconcile, restarts >>

\* An update without an etag: the instance of that name, as it may be now.
NoEtag(t) ==
  LET gen == inst[NameFor(t)] IN gen # None /\ seen[t].gen = gen

\* What the etag says: the instance is the one that was read, unchanged since.
EtagHolds(t) ==
  LET gen == inst[NameFor(t)] IN gen # None /\ seen[t] = [gen |-> gen, conf |-> conf[gen]]

\* The configuration that was read, with the limits, is written.
WritesLimits(t) ==
  conf' = [conf EXCEPT ![inst[NameFor(t)]] = [seen[t].conf EXCEPT !.limited = TRUE]]

\* The goroutine of a request goes on to start the instance, one that a reconcile
\* spawned is done.
GoesOn(t) == TaskAt(t, "update", IF t \in Requests THEN "start" ELSE "ended")

\* The error of UpdateInstance dropped.
UpdateThenStart(t) ==
  /\ GoesOn(t)
  /\ (EtagHolds(t) /\ WritesLimits(t)) \/ UNCHANGED conf
  /\ seen' = [seen EXCEPT ![t] = Unread]
  /\ UNCHANGED << database, inst, running, op, dying, pc, dpc, listed, reconcile, restarts, erred >>

\* UpdateInstance with the etag: it is refused when the etag does not hold, and of
\* any other error the write may have been made or not.
Update(t) ==
  /\ \/ EtagHolds(t) /\ GoesOn(t) /\ WritesLimits(t) /\ UNCHANGED erred
     \/ ~EtagHolds(t) /\ TaskAt(t, "update", "ended") /\ UNCHANGED << conf, erred >>
     \/ GivesUp(t, "update") /\ (UNCHANGED conf \/ (EtagHolds(t) /\ WritesLimits(t)))
  /\ seen' = [seen EXCEPT ![t] = Unread]
  /\ UNCHANGED << database, inst, running, op, dying, pc, dpc, listed, reconcile, restarts >>

\* The instance of that name runs, if there is one.
Starts(t) == LET gen == inst[NameFor(t)] IN gen # None /\ running' = running \union {gen}

\* UpdateInstanceState "start", by name and without an etag, and startOp.Wait: of an
\* error of either the instance may run or not.
Start(t) ==
  /\ \/ TaskAt(t, "start", "ended") /\ Starts(t) /\ UNCHANGED erred
     \/ /\ inst[NameFor(t)] = None
        /\ TaskAt(t, "start", "ended") /\ UNCHANGED << running, erred >>
     \/ GivesUp(t, "start") /\ (UNCHANGED running \/ Starts(t))
  /\ UNCHANGED << database, inst, conf, op, dying, pc, dpc, seen, listed, reconcile, restarts >>

Apply(t) == Wait(t) \/ Get(t) \/ Update(t) \/ Start(t)

-----------------------------------------------------------------------------
(* ReconcilePlanLimits *)

\* ListAll: the names that have a row now; its error ends the reconcile.
ReconcileList ==
  /\ ~listed
  /\ listed' = TRUE
  /\ \/ reconcile' = {n \in Names : row[n] # None}
     \/ UNCHANGED reconcile
  /\ UNCHANGED << database, incus, pc, dpc, task, seen, restarts, erred >>

\* One turn of the loop: an instance Incus knows and whose limits are missing
\* gets a goroutine; any other row is skipped, and so is one whose plan or
\* instance could not be read.
ReconcileVisit(n) ==
  /\ n \in reconcile
  /\ reconcile' = reconcile \ {n}
  /\ \/ inst[n] # None /\ ~conf[inst[n]].limited /\ task' = [task EXCEPT ![n] = "get"]
     \/ UNCHANGED task
  /\ UNCHANGED << database, incus, pc, dpc, seen, listed, restarts, erred >>

Reconcile == ReconcileList \/ \E n \in Names : ReconcileVisit(n)

-----------------------------------------------------------------------------
(* DeleteInstance, other handlers, Incus, restarts *)

\* OwnerCheck found the row, and Incus takes the delete; when it does not, or its
\* answer is lost, the handler answers 500 and the row stays.
DeleteInIncus(d, n) ==
  /\ dpc[d] = None /\ row[n] # None /\ inst[n] # None
  /\ dpc' = [dpc EXCEPT ![d] = n] \/ UNCHANGED dpc
  /\ dying' = dying \union {n}
  /\ UNCHANGED << database, inst, conf, running, op, pc, task, seen, listed, reconcile, restarts, erred >>

\* DeleteByName, best effort: its error is dropped.
DeleteRow(d) ==
  /\ dpc[d] # None
  /\ dpc' = [dpc EXCEPT ![d] = None]
  /\ \/ /\ row' = [row EXCEPT ![dpc[d]] = None]
        /\ quota' = quota \ {row[dpc[d]]}
     \/ UNCHANGED database
  /\ UNCHANGED << incus, pc, task, seen, listed, reconcile, restarts, erred >>

\* DeleteUser: the rows of the user's instances go by cascade.
DeleteOwner(n) ==
  /\ row[n] # None
  /\ row' = [row EXCEPT ![n] = None]
  /\ quota' = quota \ {row[n]}
  /\ UNCHANGED << incus, panel, restarts, erred >>

\* PatchInstanceConfig: read, merge and write back under an etag, which makes
\* the write as good as one step.
Patch(n) ==
  /\ inst[n] # None /\ ~conf[inst[n]].patched
  /\ conf' = [conf EXCEPT ![inst[n]].patched = TRUE]
  /\ UNCHANGED << database, inst, running, op, dying, panel, restarts, erred >>

\* The image is pulled and the instance is there, or the operation fails.
CreateEnds(r) ==
  /\ op[r] = "running"
  /\ \/ /\ op' = [op EXCEPT ![r] = "done"]
        /\ inst' = [inst EXCEPT ![NameOf[r]] = r]
     \/ op' = [op EXCEPT ![r] = "failed"] /\ UNCHANGED inst
  /\ UNCHANGED << database, conf, running, dying, panel, restarts, erred >>

DeleteEnds(n) ==
  /\ n \in dying
  /\ dying' = dying \ {n}
  /\ inst' = [inst EXCEPT ![n] = None]
  /\ running' = running \ {inst[n]}
  /\ UNCHANGED << database, conf, op, panel, restarts, erred >>

\* The process dies with every handler and goroutine in it, and comes back.
Restart ==
  /\ restarts < MaxRestarts
  /\ restarts' = restarts + 1
  /\ pc' = [r \in Requests |->
              IF pc[r] \in {"idle", "refused", "accepted"} THEN pc[r] ELSE "lost"]
  /\ dpc' = [d \in Deletes |-> None]
  /\ task' = [t \in Tasks |-> IF task[t] = "none" THEN "none" ELSE "ended"]
  /\ seen' = [t \in Tasks |-> Unread]
  /\ listed' = FALSE
  /\ reconcile' = {}
  /\ UNCHANGED << database, incus, erred >>

Next ==
  \/ \E r \in Requests : Create(r) \/ CreateEnds(r)
  \/ \E t \in Tasks : Apply(t)
  \/ Reconcile
  \/ \E d \in Deletes : DeleteRow(d) \/ \E n \in Names : DeleteInIncus(d, n)
  \/ \E n \in Names : DeleteOwner(n) \/ Patch(n) \/ DeleteEnds(n)
  \/ Restart

Spec == Init /\ [][Next]_vars

\* Go runs every goroutine, and Incus ends every operation it took; requests
\* and restarts come or do not.
Fairness ==
  /\ \A r \in Requests : WF_vars(pc[r] # "idle" /\ Create(r)) /\ WF_vars(CreateEnds(r))
  /\ \A t \in Tasks : WF_vars(Apply(t))
  /\ \A d \in Deletes : WF_vars(DeleteRow(d))
  /\ \A n \in Names : WF_vars(DeleteEnds(n))
  /\ WF_vars(Reconcile)

FairSpec == Spec /\ Fairness

-----------------------------------------------------------------------------
(* Properties *)

\* The variables hold the values the two stores and the handlers can hold.
TypeOK ==
  /\ row \in [Names -> Requests \union {None}]
  /\ quota \subseteq Requests
  /\ inst \in [Names -> Requests \union {None}]
  /\ conf \in [Requests -> [limited : BOOLEAN, patched : BOOLEAN]]
  /\ running \subseteq Requests
  /\ op \in [Requests -> {"none", "running", "done", "failed"}]
  /\ dying \subseteq Names
  /\ pc \in [Requests -> {"idle", "created", "registered", "compensating", "quotaSet",
                          "refused", "accepted", "lost"}]
  /\ dpc \in [Deletes -> Names \union {None}]
  /\ task \in [Tasks -> {"none", "wait", "get", "update", "start", "ended"}]
  /\ seen \in [Tasks -> [gen : Requests \union {None},
                         conf : [limited : BOOLEAN, patched : BOOLEAN]]]
  /\ listed \in BOOLEAN
  /\ reconcile \subseteq Names
  /\ restarts \in 0 .. MaxRestarts
  /\ erred \subseteq Requests

\* The registered name of a request.
Owns(r) == row[NameOf[r]] = r
Visible(r) == inst[NameOf[r]] = r

\* A quota the monitor would act on always belongs to an instance that is
\* registered (the foreign key, under deletions between Create and quotas.Set).
QuotaHasRow == \A r \in quota : Owns(r)

\* The goroutine of a request is only about to start the instance of that
\* request when Incus has accepted its limits: a failed Update never leads to a start.
StartsLimited == \A r \in Requests : task[r] = "start" /\ Visible(r) => conf[r].limited

\* Why StartsLimited is inductive: a goroutine that has begun to work has an
\* instance that is made, so none becomes visible under its hands.
Awaited(r) ==
  /\ pc[r] = "idle" => op[r] = "none" /\ task[r] = "none"
  /\ task[r] \in {"get", "update", "start"} => op[r] = "done"

StartInvariant == StartsLimited /\ \A r \in Requests : Awaited(r)

\* No write of a goroutine loses a configuration change of a user that came
\* between its read and its write (the etag of UpdateInstance).
PatchSurvives == [][\A r \in Requests : conf[r].patched => conf'[r].patched]_vars

Provisioned(r) == conf[r].limited /\ r \in running

\* What may keep an accepted instance from being provisioned: its creation
\* failed, it was deleted, the process restarted, a user changed its
\* configuration first, a call of its own goroutine returned an error, or one of
\* another goroutine of the name that worked on this instance (no call is repeated).
Disturbed(r) ==
  \/ op[r] = "failed" \/ ~Owns(r) \/ NameOf[r] \in dying
  \/ op[r] = "done" /\ ~Visible(r)
  \/ restarts > 0 \/ conf[r].patched \/ r \in erred

\* A 202 answer is kept: the instance gets its limits and is started, unless it
\* was disturbed or a reconcile worked on the same instance.
AcceptedIsProvisioned ==
  \A r \in Requests :
    pc[r] = "accepted" ~> Provisioned(r) \/ Disturbed(r) \/ task[NameOf[r]] # "none"

\* Somebody is on the way to start the instance of r: its goroutine, with an etag that
\* will hold, or one that has set the limits already - its own, or that of an earlier
\* request, which works on by name.
InHand(r) ==
  \/ task[r] \in {"wait", "get"}
  \/ task[r] = "update" /\ EtagHolds(r)
  \/ conf[r].limited /\ \E s \in Requests : NameOf[s] = NameOf[r] /\ task[s] = "start"

\* At no moment is an accepted instance given up before it runs under its limits, unless it
\* was disturbed or a reconcile worked on it: the goroutines of its name may take the etag
\* from each other, and then one of them goes on.
PromiseInHand ==
  \A r \in Requests :
    pc[r] = "accepted" =>
      Provisioned(r) \/ InHand(r) \/ Disturbed(r) \/ task[NameOf[r]] # "none"

\* The comment at applyBandwidthFromPlan: with autoStart the instance is started.
\* A reconcile that writes its limits between Get and Update takes the etag away,
\* and the goroutine gives up before the start.
AutostartHappens ==
  \A r \in Requests : pc[r] = "accepted" ~> r \in running \/ Disturbed(r)

\* A row without an instance is one whose image is still being pulled, which is
\* what ListInstances shows it as, or one that is being deleted.
CreatingIsTrue ==
  \A n \in Names : row[n] # None /\ inst[n] = None =>
    op[row[n]] = "running" \/ \E d \in Deletes : dpc[d] = n
=============================================================================
