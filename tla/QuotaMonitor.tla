---------------------------- MODULE QuotaMonitor ----------------------------
(***************************************************************************)
(* The traffic quota of one instance: the row of the quotas table, the     *)
(* monitor that samples the counters of the instance and stops it when it  *)
(* is over its limit, and the handlers that set, reset and delete the      *)
(* quota while the monitor is at work.                                     *)
(*                                                                         *)
(* The monitor reads the counters outside any transaction and adds them up *)
(* in one later; quotas.Set reads the row in one statement and writes it   *)
(* in another.  History variables say what really went over the wire.      *)
(***************************************************************************)
EXTENDS Integers

CONSTANTS
  Setters,      \* PUT quota handlers
  Limits,       \* limit_bytes a handler may set; 0 is no limit
  Actions,      \* actions a handler may set
  NoQuota,      \* the instance has no quotas row
  MaxTraffic,   \* bound on the traffic per direction
  MaxMonth,     \* bound on the calendar
  MaxCrashes    \* bound on restarts of the panel

ASSUME LimitsAssumption == Limits \subseteq Nat
ASSUME ActionsAssumption == Actions \subseteq {"stop", "freeze", "notify"}
ASSUME BoundsAssumption == MaxTraffic \in Nat /\ MaxMonth \in Nat /\ MaxCrashes \in Nat

Dirs == {"rx", "tx"}
Bytes == [Dirs -> Nat]
Zero == [d \in Dirs |-> 0]
Total(b) == b["rx"] + b["tx"]

Quota == [limit : Limits, monthly : BOOLEAN, action : Actions, used : Nat,
          last : Bytes, resetAt : Nat, polled : BOOLEAN, triggered : BOOLEAN]

\* What PutQuota may ask for.
Terms == [limit : Limits, monthly : BOOLEAN, action : Actions]

\* The columns of a row that Set looks at.
View == [limit : Limits, monthly : BOOLEAN, action : Actions, resetAt : Nat,
         triggered : BOOLEAN]

ASSUME NoQuotaAssumption == NoQuota \notin Quota /\ NoQuota \notin View

VARIABLES
  q,            \* the quotas row, or NoQuota
  up,           \* the instance runs
  counter,      \* its counters, summed over every interface but lo
  month,        \* the calendar month
  mpc,          \* the monitor: "idle", "read" or "act"
  reading,      \* checkOne's rx and tx
  now,          \* checkOne's now
  action,       \* checkOne's action, or "none" when there is nothing to do
  spc,          \* where each PutQuota handler is: "idle" or "read"
  existing,     \* the row Set read
  sent,         \* all traffic of the instance, in both directions
  since,        \* history: the traffic since the last counted reading
  sinceRead,    \* history: the traffic since the reading checkOne holds
  covered,      \* history: the traffic between used_bytes = 0 and that last reading
  stopped,      \* history: the counters went back to 0 once
  detached,     \* history: an interface left with its share of the counters
  raced,        \* history: a Set wrote back what had changed since it read it
  crashes

instance == << up, counter, sent, stopped, detached >>
locals == << reading, now, action, sinceRead >>
setters == << spc, existing >>
history == << since, covered >>
vars == << q, instance, month, mpc, locals, setters, history, raced, crashes >>

Init ==
  /\ q = NoQuota
  /\ up = TRUE
  /\ counter = Zero /\ sent = 0
  /\ month = 0
  /\ mpc = "idle" /\ reading = Zero /\ now = 0 /\ action = "none"
  /\ spc = [s \in Setters |-> "idle"]
  /\ existing = [s \in Setters |-> NoQuota]
  /\ since = Zero /\ sinceRead = Zero /\ covered = 0
  /\ stopped = FALSE /\ detached = FALSE /\ raced = FALSE
  /\ crashes = 0

-----------------------------------------------------------------------------
(* Monitor.checkOne *)

\* GetInstanceState, then time.Now().  A failure of either lookup leaves
\* everything as it is.
Read ==
  /\ mpc = "idle" /\ q # NoQuota
  /\ mpc' = "read"
  /\ reading' = counter /\ sinceRead' = Zero
  /\ now' = month
  /\ UNCHANGED << q, instance, month, action, setters, history, raced, crashes >>

\* checkOne returns.
Forget == reading' = Zero /\ sinceRead' = Zero /\ now' = 0

\* The restart of a counter forgotten.
DeltaAcrossRestart(d) == IF ~q.polled THEN 0 ELSE reading[d] - q.last[d]

\* The first sample counted like any other.
DeltaFromFirst(d) ==
  IF reading[d] < q.last[d] THEN reading[d] ELSE reading[d] - q.last[d]

\* A direction whose counter went back is taken to have restarted from 0, and
\* the first sample of a quota counts nothing.
Delta(d) ==
  IF ~q.polled THEN 0
  ELSE IF reading[d] < q.last[d] THEN reading[d]
  ELSE reading[d] - q.last[d]

NewPeriod == q.monthly /\ q.resetAt # now

\* A new period that drops what the sample brings.
UsedFromZero == IF NewPeriod THEN 0 ELSE q.used + Delta("rx") + Delta("tx")

Used == (IF NewPeriod THEN 0 ELSE q.used) + Delta("rx") + Delta("tx")

Latched == q.triggered /\ ~NewPeriod

\* The limit has to be exceeded.
TriggersAbove == q.limit > 0 /\ Used > q.limit /\ ~Latched

\* The limit is reached and the action of this period was not taken yet.
Triggers == q.limit > 0 /\ Used >= q.limit /\ ~Latched

Sampled ==
  [q EXCEPT !.used = Used, !.last = reading, !.polled = TRUE,
            !.resetAt = IF NewPeriod THEN now ELSE @,
            !.triggered = Latched \/ Triggers]

\* UpdateCounters: read, count and write under a row lock.  checkOne goes on to
\* the action it decided on inside, whether or not the commit succeeded.
Decide ==
  IF q # NoQuota /\ Triggers
  THEN mpc' = "act" /\ action' = q.action
  ELSE mpc' = "idle" /\ action' = "none"

Gap == Total(since) - Total(sinceRead)

Count ==
  /\ mpc = "read"
  /\ Decide /\ Forget
  /\ IF q = NoQuota
     THEN UNCHANGED << q, history >>
     ELSE /\ q' = Sampled
          /\ since' = sinceRead
          /\ covered' = IF ~q.polled THEN 0 ELSE (IF NewPeriod THEN 0 ELSE covered) + Gap
  /\ UNCHANGED << instance, month, setters, raced, crashes >>

CountFails ==
  /\ mpc = "read"
  /\ Decide /\ Forget
  /\ UNCHANGED << q, instance, month, setters, history, raced, crashes >>

\* The instance is stopped: its counters start from 0 again.
GoDown == up' = FALSE /\ counter' = Zero /\ stopped' = TRUE

Freeze == up' = FALSE /\ UNCHANGED << counter, stopped >>

\* executeAction: a graceful stop or freeze, or nothing at all for "notify".
Act ==
  /\ mpc = "act"
  /\ mpc' = "idle" /\ action' = "none"
  /\ \/ action = "stop" /\ up /\ GoDown
     \/ action = "freeze" /\ up /\ Freeze
     \/ (action = "notify" \/ ~up) /\ UNCHANGED << up, counter, stopped >>
  /\ UNCHANGED << q, sent, detached, month, reading, now, sinceRead, setters, history,
                  raced, crashes >>

\* The request fails, or the instance has not shut down when the time is up:
\* the monitor logs it and goes on.
ActFails ==
  /\ mpc = "act"
  /\ mpc' = "idle" /\ action' = "none"
  /\ UNCHANGED << q, instance, month, reading, now, sinceRead, setters, history, raced, crashes >>

-----------------------------------------------------------------------------
(* The quota handlers *)

\* Set, first statement.
ViewOf(row) ==
  IF row = NoQuota THEN NoQuota
  ELSE [limit |-> row.limit, monthly |-> row.monthly, action |-> row.action,
        resetAt |-> row.resetAt, triggered |-> row.triggered]

SetReads(s) ==
  /\ spc[s] = "idle"
  /\ spc' = [spc EXCEPT ![s] = "read"]
  /\ existing' = [existing EXCEPT ![s] = ViewOf(q)]
  /\ UNCHANGED << q, instance, month, mpc, locals, history, raced, crashes >>

\* A raised limit leaves the trigger as it is.
RearmsOnAction(in, old) == in.action # old.action

\* Raising the limit or changing the action re-arms the trigger.
Rearms(in, old) == in.limit > old.limit \/ in.action # old.action

Inserted(in) ==
  [limit |-> in.limit, monthly |-> in.monthly, action |-> in.action, used |-> 0,
   last |-> Zero, resetAt |-> month, polled |-> FALSE, triggered |-> FALSE]

\* The UPDATE writes last_reset_at and triggered from what the SELECT returned.
Updated(in, old) ==
  [q EXCEPT !.limit = in.limit, !.monthly = in.monthly, !.action = in.action,
            !.resetAt = IF in.monthly # old.monthly THEN month ELSE old.resetAt,
            !.triggered = IF Rearms(in, old) THEN FALSE ELSE old.triggered]

\* Set, second statement: INSERT without a row to keep (a row that came in
\* between is a duplicate key), else UPDATE (which a deleted row ignores).
SetWrites(s, in) ==
  LET old == existing[s] IN
    /\ spc[s] = "read"
    /\ spc' = [spc EXCEPT ![s] = "idle"]
    /\ existing' = [existing EXCEPT ![s] = NoQuota]
    /\ IF old = NoQuota /\ q = NoQuota
       THEN q' = Inserted(in) /\ since' = Zero /\ covered' = 0 /\ UNCHANGED raced
       ELSE /\ UNCHANGED history
            /\ IF old # NoQuota /\ q # NoQuota
               THEN q' = Updated(in, old) /\ raced' = (raced \/ ViewOf(q) # old)
               ELSE UNCHANGED << q, raced >>
    /\ UNCHANGED << instance, month, mpc, locals, crashes >>

\* A reset that forgets the last sample as well.
ResetForgetsSample ==
  /\ q # NoQuota
  /\ q' = [q EXCEPT !.used = 0, !.last = Zero, !.resetAt = month, !.triggered = FALSE]
  /\ covered' = 0
  /\ UNCHANGED << instance, month, mpc, locals, setters, since, raced, crashes >>

\* Reset: one UPDATE; last_bytes stays, so the next sample still counts what came
\* since the last one.
Reset ==
  /\ q # NoQuota
  /\ q' = [q EXCEPT !.used = 0, !.resetAt = month, !.triggered = FALSE]
  /\ covered' = 0
  /\ UNCHANGED << instance, month, mpc, locals, setters, since, raced, crashes >>

Delete ==
  /\ q # NoQuota
  /\ q' = NoQuota /\ since' = Zero /\ covered' = 0
  /\ UNCHANGED << instance, month, mpc, locals, setters, raced, crashes >>

-----------------------------------------------------------------------------
(* The instance, the calendar, a restart of the panel *)

Traffic(d) ==
  /\ up /\ sent < MaxTraffic
  /\ sent' = sent + 1
  /\ counter' = [counter EXCEPT ![d] = @ + 1]
  /\ since' = IF q = NoQuota THEN since ELSE [since EXCEPT ![d] = @ + 1]
  /\ sinceRead' = IF mpc = "read" THEN [sinceRead EXCEPT ![d] = @ + 1] ELSE sinceRead
  /\ UNCHANGED << q, up, stopped, detached, month, mpc, reading, now, action, setters, covered,
                  raced, crashes >>

\* InstanceAction: stop or freeze, and start or unfreeze.
Stop ==
  /\ up /\ (GoDown \/ Freeze)
  /\ UNCHANGED << q, sent, detached, month, mpc, locals, setters, history, raced, crashes >>

Start ==
  /\ ~up /\ up' = TRUE
  /\ UNCHANGED << q, counter, sent, stopped, detached, month, mpc, locals, setters, history, raced, crashes >>

\* An interface is removed from the running instance.
Detach(d) ==
  /\ up /\ \E left \in 0 .. counter[d] - 1 : counter' = [counter EXCEPT ![d] = left]
  /\ detached' = TRUE
  /\ UNCHANGED << q, up, sent, stopped, month, mpc, locals, setters, history, raced, crashes >>

NextMonth ==
  /\ month < MaxMonth /\ month' = month + 1
  /\ UNCHANGED << q, instance, mpc, locals, setters, history, raced, crashes >>

Crash ==
  /\ crashes < MaxCrashes /\ crashes' = crashes + 1
  /\ mpc' = "idle" /\ action' = "none" /\ Forget
  /\ spc' = [s \in Setters |-> "idle"]
  /\ existing' = [s \in Setters |-> NoQuota]
  /\ UNCHANGED << q, instance, month, history, raced >>

Next ==
  \/ Read \/ Count \/ CountFails \/ Act \/ ActFails
  \/ \E s \in Setters : SetReads(s) \/ \E in \in Terms : SetWrites(s, in)
  \/ Reset \/ Delete
  \/ \E d \in Dirs : Traffic(d) \/ Detach(d)
  \/ Stop \/ Start \/ NextMonth \/ Crash

Spec == Init /\ [][Next]_vars

\* The ticker keeps the monitor going, and the database does not fail for ever.
Fairness == WF_vars(Read) /\ SF_vars(Count) /\ WF_vars(Act \/ ActFails)

FairSpec == Spec /\ Fairness

-----------------------------------------------------------------------------
(* Properties *)

\* The row, the monitor and the handlers hold values of their Go types.
TypeOK ==
  /\ q \in Quota \union {NoQuota}
  /\ up \in BOOLEAN /\ counter \in Bytes /\ month \in Nat
  /\ mpc \in {"idle", "read", "act"}
  /\ reading \in Bytes /\ now \in Nat /\ action \in Actions \union {"none"}
  /\ spc \in [Setters -> {"idle", "read"}]
  /\ existing \in [Setters -> View \union {NoQuota}]
  /\ sent \in Nat /\ since \in Bytes /\ sinceRead \in Bytes /\ covered \in Int
  /\ stopped \in BOOLEAN /\ detached \in BOOLEAN /\ raced \in BOOLEAN
  /\ crashes \in Nat

\* used_bytes never exceeds what the instance really sent and received in the
\* time the samples cover, through restarts of the instance and of the panel,
\* resets, month ends and edits, as long as no interface leaves.
NeverOvercounts ==
  q # NoQuota /\ ~detached => q.used <= covered

\* While the counters never went back, not one byte of that time is missing.
ExactWhileSteady ==
  q # NoQuota /\ ~stopped /\ ~detached => q.used = covered

\* A counter that was `then` is `now`, with `bytes` of traffic in between: it grew
\* by them, or it went back and grew by no more than them since.
Follows(reached, then, bytes) == reached = then + bytes \/ (stopped /\ reached <= bytes)

\* The inductive invariant behind the two properties above: each counter follows
\* from the last sample and from the reading checkOne holds, and that reading
\* follows from the last sample.
ReadingFollows ==
  mpc = "read" => \A d \in Dirs : Follows(counter[d], reading[d], sinceRead[d])

RowFollows ==
  q # NoQuota =>
    /\ q.used <= covered
    /\ ~stopped => q.used = covered
    /\ ~q.polled => q.used = 0 /\ covered = 0
    /\ q.polled => \A d \in Dirs : Follows(counter[d], q.last[d], since[d])
    /\ q.polled /\ mpc = "read" => \A d \in Dirs :
         sinceRead[d] <= since[d] /\ Follows(reading[d], q.last[d], since[d] - sinceRead[d])

Accounting == ~detached => ReadingFollows /\ RowFollows

\* Reading and counting in two steps, with every handler in between, does what
\* AtomicMeter does in one.
Meter == INSTANCE AtomicMeter WITH
  metered <- q # NoQuota, begun <- q # NoQuota /\ q.polled,
  used <- IF q = NoQuota THEN 0 ELSE q.used,
  uncounted <- Total(since), steady <- ~stopped, intact <- ~detached
RefinesMeter == Meter!Spec

\* The latch that keeps the action from being repeated is only set on a quota
\* that is over its limit, unless a Set wrote back what it had read before a
\* Reset or a sample.
LatchMeansOver ==
  q # NoQuota /\ q.triggered /\ ~raced => q.used >= q.limit

\* The claim of Set's comment, that it keeps the fields the monitor runs on.
SetKeepsLatch == q # NoQuota /\ q.triggered => q.used >= q.limit

Over == q # NoQuota /\ q.limit > 0 /\ q.used >= q.limit

\* A quota that is over its limit does not stay unnoticed: the monitor latches
\* it, after whatever edits, resets and restarts, or it is not over any more.
OverIsNoticed == Over ~> (~Over \/ q.triggered)

Stops == q # NoQuota /\ q.action \in {"stop", "freeze"}

\* A quota over its limit whose action is to stop does stop its instance.
OverIsStopped == (Over /\ q.triggered /\ Stops) ~> (~up \/ ~Over \/ ~q.triggered \/ ~Stops)
=============================================================================
