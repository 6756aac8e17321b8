---------------------------- MODULE Registration ----------------------------
(***************************************************************************)
(* Repo.Create of internal/instances: one transaction that serialises on   *)
(* an advisory lock, checks the plan's stock, walks the ports in use for   *)
(* the lowest gap that is long enough, and inserts the row.  Around it are *)
(* the parts of the panel that change what the transaction reads: plan     *)
(* edits, deletions of instances, and a restart with another port pool.    *)
(*                                                                         *)
(* A call is named by the snowflake id its row will get.  Names are left   *)
(* out: a duplicate name is one of the errors Abort stands for.            *)
(***************************************************************************)
EXTENDS Integers, FiniteSets

CONSTANTS
  Ids,        \* the snowflake ids of the calls
  Plans,      \* plan ids
  NoRow,      \* an id without a row
  NoStock,    \* plans.stock IS NULL
  Nobody,     \* the advisory lock is free
  Terms,      \* what an administrator may set a plan to: [stock, ports, enabled]
  Pools,      \* port pool configurations: [start, end, per]
  MaxConns    \* connections of the pgx pool

Stock == Int \union {NoStock}

ASSUME IdsAssumption == IsFiniteSet(Ids) /\ Nobody \notin Ids
ASSUME PlansAssumption == Plans # {}
ASSUME TermsAssumption ==
  Terms \subseteq [stock : Stock, ports : Int, enabled : BOOLEAN] /\ NoStock \notin Int
ASSUME PoolsAssumption == Pools \subseteq [start : Int, end : Int, per : Int]
ASSUME NoRowAssumption == NoRow \notin [plan : Plans, s : Int, e : Int]
ASSUME ConnsAssumption == MaxConns \in Nat \ {0}

VARIABLES
  rows,       \* the committed instances table
  plan,       \* the committed plans table: plan id -> Terms
  pool,       \* the PortPool this process was started with
  peak,       \* history: the largest stock each plan was ever given
  lock,       \* the holder of pg_advisory_xact_lock(42)
  pc,         \* how far each call has come
  req,        \* CreateInput: the terms the handler read when the call began
  used,       \* the segments a call's SELECT returned
  todo,       \* those of them its loop has not visited
  cursor      \* allocateRangeN's cursor

database == << rows, plan, peak >>
locals == << req, used, todo, cursor >>
vars == << rows, plan, pool, peak, lock, pc, req, used, todo, cursor >>

Segment == [s : Int, e : Int]
Row == [plan : Plans, s : Int, e : Int]
CreateInput == [plan : Plans, stock : Stock, ports : Int]

Registered == {i \in Ids : rows[i] # NoRow}
SoldOf(p) == {i \in Registered : rows[i].plan = p}
Segments == {[s |-> rows[i].s, e |-> rows[i].e] : i \in Registered}

\* Port segments a and b have no port in common.
Apart(a, b) == a.e < b.s \/ b.e < a.s

HasTx == {"waiting", "locked", "counted", "scanning", "found"}

\* The connection given back only after GetByName.
InTxUntilReadBack == {c \in Ids : pc[c] \in HasTx \union {"committed"}}

\* Calls that hold a connection of the pool: from Begin to Commit or Rollback.
InTx == {c \in Ids : pc[c] \in HasTx}
ConnFree == Cardinality(InTx) < MaxConns

Refused == {"soldOut", "exhausted"}
Ended == Refused \union {"registered", "failed"}

NoRequest == [plan |-> CHOOSE p \in Plans : TRUE, stock |-> NoStock, ports |-> 0]

-----------------------------------------------------------------------------
(* The port range *)

\* Create falls back to the pool's size for a plan without a usable port count.
Need(c) == IF req[c].ports <= 0 THEN pool.per ELSE req[c].ports

\* The window allocateRangeN returns: n ports from the cursor.
Window(c) == [s |-> cursor[c], e |-> cursor[c] + Need(c) - 1]

\* A window that starts at port a and has the length call c asks for.
WindowAt(c, a) == [s |-> a, e |-> a + Need(c) - 1]

\* The sort dropped: the rows come in no particular order.
Unsorted(c) == todo[c]

\* The segment the loop visits next: the rows come sorted by port_range_start.
Lowest(c) == {u \in todo[c] : \A v \in todo[c] : u.s <= v.s}

GapBefore(c, u) == u.s - cursor[c] >= Need(c)
\* The last port of the pool forgotten.
GapBeforeEnd(c) == pool.end - cursor[c] >= Need(c)
GapAtEnd(c) == pool.end - cursor[c] + 1 >= Need(c)
\* A segment that starts before the cursor taken for one that ends before it.
BeyondIfAhead(c, u) == IF u.s >= cursor[c] THEN u.e + 1 ELSE cursor[c]
BeyondFromStart(c, u) == u.s + Need(c)
Beyond(c, u) == IF u.e + 1 > cursor[c] THEN u.e + 1 ELSE cursor[c]

-----------------------------------------------------------------------------
Init ==
  /\ rows = [i \in Ids |-> NoRow]
  /\ plan \in [Plans -> Terms]
  /\ pool \in Pools
  /\ peak = [p \in Plans |-> plan[p].stock]
  /\ lock = Nobody
  /\ pc = [c \in Ids |-> "idle"]
  /\ req = [c \in Ids |-> NoRequest]
  /\ used = [c \in Ids |-> {}]
  /\ todo = [c \in Ids |-> {}]
  /\ cursor = [c \in Ids |-> 0]

Goto(c, at) == pc' = [pc EXCEPT ![c] = at]
Unlock(c) == lock' = IF lock = c THEN Nobody ELSE lock

-----------------------------------------------------------------------------
(* The steps of one call *)

\* CreateInstance reads the plan, turns the call away when the plan is off
\* sale, and passes what it read to Repo.Create.
Request(c, p) ==
  /\ pc[c] = "idle" /\ rows[c] = NoRow
  /\ plan[p].enabled
  /\ plan[p].stock # NoStock => Cardinality(SoldOf(p)) < plan[p].stock
  /\ req' = [req EXCEPT ![c] = [plan |-> p, stock |-> plan[p].stock, ports |-> plan[p].ports]]
  /\ Goto(c, "asked")
  /\ UNCHANGED << database, pool, lock, used, todo, cursor >>

\* pool.Begin takes a connection and opens the transaction.
Begin(c) ==
  /\ pc[c] = "asked" /\ ConnFree
  /\ Goto(c, "waiting")
  /\ UNCHANGED << database, pool, lock, locals >>

\* The lock statement dropped: Create goes on without waiting for the holder.
LockNotTaken(c) ==
  /\ pc[c] = "waiting"
  /\ lock' = c
  /\ Goto(c, "locked")
  /\ UNCHANGED << database, pool, locals >>

\* SELECT pg_advisory_xact_lock(42) returns.
Lock(c) ==
  /\ pc[c] = "waiting" /\ lock = Nobody
  /\ lock' = c
  /\ Goto(c, "locked")
  /\ UNCHANGED << database, pool, locals >>

\* The comparison off by one.
SoldOutLate(c) ==
  req[c].stock # NoStock /\ Cardinality(SoldOf(req[c].plan)) > req[c].stock

\* The second stock check, under the lock, against the stock read before it.
SoldOut(c) ==
  req[c].stock # NoStock /\ Cardinality(SoldOf(req[c].plan)) >= req[c].stock

CheckStock(c) ==
  /\ pc[c] = "locked"
  /\ IF SoldOut(c)
     THEN Goto(c, "soldOut") /\ Unlock(c)
     ELSE Goto(c, "counted") /\ UNCHANGED lock
  /\ UNCHANGED << database, pool, locals >>

\* allocateRangeN rejects a length that is not positive, else it reads the
\* segments in use and puts its cursor at the start of the pool.
SelectPorts(c) ==
  /\ pc[c] = "counted"
  /\ IF Need(c) <= 0
     THEN /\ Goto(c, "failed") /\ Unlock(c)
          /\ UNCHANGED << used, todo, cursor >>
     ELSE /\ Goto(c, "scanning") /\ UNCHANGED lock
          /\ used' = [used EXCEPT ![c] = Segments]
          /\ todo' = [todo EXCEPT ![c] = Segments]
          /\ cursor' = [cursor EXCEPT ![c] = pool.start]
  /\ UNCHANGED << database, pool, req >>

\* One turn of the loop: the gap before u is long enough, or the cursor moves
\* past u.
Visit(c, u) ==
  /\ pc[c] = "scanning" /\ u \in Lowest(c)
  /\ IF GapBefore(c, u)
     THEN Goto(c, "found") /\ UNCHANGED << todo, cursor >>
     ELSE /\ todo' = [todo EXCEPT ![c] = @ \ {u}]
          /\ cursor' = [cursor EXCEPT ![c] = Beyond(c, u)]
          /\ UNCHANGED pc
  /\ UNCHANGED << database, pool, lock, req, used >>

\* After the loop: the gap between the last segment and the end of the pool.
LastGap(c) ==
  /\ pc[c] = "scanning" /\ todo[c] = {}
  /\ IF GapAtEnd(c)
     THEN Goto(c, "found") /\ UNCHANGED lock
     ELSE Goto(c, "exhausted") /\ Unlock(c)
  /\ UNCHANGED << database, pool, locals >>

\* INSERT and COMMIT.  The acknowledgement of a commit can get lost: the row is
\* there and Create returns an error.
Commit(c, outcome) ==
  /\ pc[c] = "found"
  /\ rows' = [rows EXCEPT ![c] = [plan |-> req[c].plan, s |-> Window(c).s, e |-> Window(c).e]]
  /\ Goto(c, outcome)
  /\ Unlock(c)
  /\ UNCHANGED << plan, pool, peak, locals >>

\* GetByName on another connection of the pool; the row may be gone already.
ReadBack(c) ==
  /\ pc[c] = "committed" /\ ConnFree
  /\ Goto(c, IF rows[c] = NoRow THEN "failed" ELSE "registered")
  /\ UNCHANGED << database, pool, lock, locals >>

\* An error of the database or a cancelled request context at any point: the
\* deferred Rollback ends the transaction if there is one.
Fail(c) ==
  /\ pc[c] \in HasTx \union {"asked", "committed"}
  /\ Goto(c, "failed")
  /\ Unlock(c)
  /\ UNCHANGED << database, pool, locals >>

\* The handler answers the request; the call's variables go with it.
Return(c) ==
  /\ pc[c] \in Ended
  /\ Goto(c, "idle")
  /\ req' = [req EXCEPT ![c] = NoRequest]
  /\ used' = [used EXCEPT ![c] = {}]
  /\ todo' = [todo EXCEPT ![c] = {}]
  /\ cursor' = [cursor EXCEPT ![c] = 0]
  /\ UNCHANGED << database, pool, lock >>

Step(c) ==
  \/ Begin(c) \/ Lock(c) \/ CheckStock(c) \/ SelectPorts(c)
  \/ \E u \in todo[c] : Visit(c, u)
  \/ LastGap(c) \/ Commit(c, "committed") \/ ReadBack(c) \/ Return(c)

-----------------------------------------------------------------------------
(* What happens around the calls *)

Higher(a, b) == a = NoStock \/ (b # NoStock /\ a > b)

\* UpdatePlan: one UPDATE of stock, ports and enabled.
SetPlan(p, terms) ==
  /\ terms # plan[p]
  /\ plan' = [plan EXCEPT ![p] = terms]
  /\ peak' = [peak EXCEPT ![p] = IF Higher(terms.stock, @) THEN terms.stock ELSE @]
  /\ UNCHANGED << rows, pool, lock, pc, locals >>

\* DeleteByName, or the cascade from a deleted user to that user's instances.
Unregister(gone) ==
  /\ gone # {}
  /\ rows' = [i \in Ids |-> IF i \in gone THEN NoRow ELSE rows[i]]
  /\ UNCHANGED << plan, pool, peak, lock, pc, locals >>

\* The process ends and comes back with the pool its environment names now;
\* PostgreSQL rolls its open transactions back and drops their locks.
Restart(config) ==
  /\ pool' = config
  /\ pc' = [c \in Ids |-> "idle"]
  /\ lock' = Nobody
  /\ req' = [c \in Ids |-> NoRequest]
  /\ used' = [c \in Ids |-> {}]
  /\ todo' = [c \in Ids |-> {}]
  /\ cursor' = [c \in Ids |-> 0]
  /\ UNCHANGED database

Next ==
  \/ \E c \in Ids, p \in Plans : Request(c, p)
  \/ \E c \in Ids : Step(c) \/ Commit(c, "failed") \/ Fail(c)
  \/ \E p \in Plans, terms \in Terms : SetPlan(p, terms)
  \/ \E gone \in SUBSET Registered : Unregister(gone)
  \/ \E config \in Pools : Restart(config)

Spec == Init /\ [][Next]_vars

\* Connections and the advisory lock are granted in the order they were asked
\* for, so a call that waits for one is not passed over for ever.
Fairness == \A c \in Ids : SF_vars(Step(c))

FairSpec == Spec /\ Fairness

-----------------------------------------------------------------------------
(* Properties *)

\* Every variable holds the values the Go and SQL types allow.
TypeOK ==
  /\ rows \in [Ids -> Row \union {NoRow}]
  /\ plan \in [Plans -> Terms]
  /\ pool \in Pools
  /\ peak \in [Plans -> Stock]
  /\ lock \in Ids \union {Nobody}
  /\ pc \in [Ids -> HasTx \union Ended \union {"idle", "asked", "committed"}]
  /\ req \in [Ids -> CreateInput]
  /\ used \in [Ids -> SUBSET Segment]
  /\ todo \in [Ids -> SUBSET Segment]
  /\ cursor \in [Ids -> Int]

\* No two instances share a port of the host, whatever the order in which
\* Create calls, deletions, pool changes and restarts interleave
\* (allocateRangeN under the advisory lock).
RangesDisjoint ==
  \A i, j \in Registered : i # j => Apart(rows[i], rows[j])

\* A plan never has more instances than the largest stock it was ever given,
\* although Create compares with a stock its handler read before the lock.
SoldWithinPeak ==
  \A p \in Plans :
    peak[p] # NoStock /\ SoldOf(p) # {} => Cardinality(SoldOf(p)) <= peak[p]

\* "Port pool exhausted" is only answered when every window of the asked length
\* inside the pool met a port some instance held when the SELECT ran.
NoFalseExhaustion ==
  \A c \in Ids : pc[c] = "exhausted" =>
    \A a \in pool.start .. pool.end - Need(c) + 1 :
      \E u \in used[c] : ~Apart(u, WindowAt(c, a))

\* The window a call takes is the lowest free one: no port range that starts
\* below it in the pool was free when the SELECT ran.
LowestFit ==
  \A c \in Ids : pc[c] = "found" =>
    /\ \A u \in used[c] : Apart(u, Window(c))
    /\ \A a \in pool.start .. cursor[c] - 1 : \E u \in used[c] : ~Apart(u, WindowAt(c, a))

\* The window allocateRangeN finds "in the pool" lies inside the pool.  It does
\* not once rows survive from a pool that reached further: the loop compares a
\* gap with n and never with pool.end.
AllocatedInPool ==
  \A c \in Ids : pc[c] = "found" => pool.start <= Window(c).s /\ Window(c).e <= pool.end

\* What call c needs for the next of its own steps.
CanGoOn(c) ==
  \/ pc[c] \in {"asked", "committed"} /\ ConnFree
  \/ pc[c] = "waiting" /\ lock = Nobody
  \/ pc[c] = "scanning" /\ (todo[c] # {} => Lowest(c) # {})
  \/ pc[c] \in {"locked", "counted", "found"} \union Ended

\* The calls never wait for one another in a circle, be it for the lock or for a
\* connection: as long as one is under way, one can go on.
SomebodyGoesOn ==
  (\E c \in Ids : pc[c] # "idle") => \E c \in Ids : CanGoOn(c)

\* The transaction, step by step, does what AtomicRegistry does in one step.
Atomic == INSTANCE AtomicRegistry WITH Unlimited <- NoStock
RefinesAtomic == Atomic!Spec

-----------------------------------------------------------------------------
(* The inductive invariant behind the port properties *)

Critical == HasTx \ {"waiting"}
Scans == {"scanning", "found"}

\* What one call knows: only the lock holder is past the lock, its row is still
\* to come, its snapshot covers every row, the segments its loop has left lie
\* below the cursor, and no window that starts below the cursor is free.
Knows(c) ==
  /\ pc[c] \in Critical => lock = c
  /\ pc[c] \in HasTx \union {"asked"} => rows[c] = NoRow
  /\ pc[c] \in Scans =>
       \A i \in Registered : [s |-> rows[i].s, e |-> rows[i].e] \in used[c]
  /\ pc[c] = "scanning" => \A u \in used[c] \ todo[c] : u.e < cursor[c]
  /\ pc[c] \in Scans \union {"exhausted"} =>
       \A a \in pool.start .. cursor[c] - 1 : \E u \in used[c] : ~Apart(u, WindowAt(c, a))
  /\ pc[c] = "scanning" => todo[c] \subseteq used[c]
  /\ pc[c] = "found" => \A u \in used[c] : Apart(u, Window(c))
  /\ pc[c] = "exhausted" => ~GapAtEnd(c)

PortInvariant == TypeOK /\ RangesDisjoint /\ \A c \in Ids : Knows(c)

AtMost(a, b) == b = NoStock \/ (a # NoStock /\ a <= b)
Counted == {"counted", "scanning", "found"}

\* What one call knows of the stock: it read a stock the plan did have, and past
\* the check one more instance of the plan still fits under it.
KnowsStock(c) ==
  /\ pc[c] # "idle" => AtMost(req[c].stock, peak[req[c].plan])
  /\ pc[c] \in Counted /\ req[c].stock # NoStock =>
       Cardinality(SoldOf(req[c].plan)) < req[c].stock

StockInvariant ==
  /\ PortInvariant
  /\ SoldWithinPeak
  /\ \A p \in Plans : AtMost(plan[p].stock, peak[p])
  /\ \A c \in Ids : KnowsStock(c)

\* Every call gets an answer: neither the lock nor the connection pool can hold
\* one up for ever.
EveryCallEnds == \A c \in Ids : pc[c] = "asked" ~> pc[c] = "idle"
=============================================================================
