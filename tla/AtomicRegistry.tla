--------------------------- MODULE AtomicRegistry ---------------------------
(***************************************************************************)
(* What the registration of instances promises to the rest of the panel,  *)
(* as if every internal/instances Repo.Create were one indivisible step:   *)
(* the row that appears holds ports no other row holds, and a plan never   *)
(* has more rows than the largest stock it was ever given.  Registration   *)
(* (module Registration) is the transaction that has to live up to this.   *)
(***************************************************************************)
EXTENDS Integers, FiniteSets

CONSTANTS
  Ids,        \* snowflake ids an instances row may be given
  Plans,      \* plan ids
  NoRow,      \* the value of an id that has no row
  Unlimited   \* plans.stock IS NULL

VARIABLES
  rows,       \* the instances table: id -> [plan, s, e] or NoRow
  peak        \* the largest stock each plan was ever given

vars == << rows, peak >>

Row == [plan : Plans, s : Int, e : Int]

Registered == {i \in Ids : rows[i] # NoRow}

SoldOf(p) == {i \in Registered : rows[i].plan = p}

\* Port segments a and b have no port in common.
Apart(a, b) == a.e < b.s \/ b.e < a.s

Init ==
  /\ rows = [i \in Ids |-> NoRow]
  /\ peak \in [Plans -> Int \union {Unlimited}]

\* A row appears, on ports that are free, within the plan's stock.
Register(i) ==
  LET row == rows'[i] IN
    /\ rows[i] = NoRow
    /\ row \in Row
    /\ \A j \in Registered : Apart(row, rows[j])
    /\ peak[row.plan] # Unlimited => Cardinality(SoldOf(row.plan)) < peak[row.plan]
    /\ rows' = [rows EXCEPT ![i] = row]
    /\ UNCHANGED peak

\* Rows leave one by one, or together with the user who owns them.
Unregister(gone) ==
  /\ rows' = [i \in Ids |-> IF i \in gone THEN NoRow ELSE rows[i]]
  /\ UNCHANGED peak

\* The high-water mark of a plan's stock only ever rises.
RaisePeak(p) ==
  /\ peak[p] # Unlimited
  /\ peak'[p] # Unlimited => peak'[p] \in Int /\ peak'[p] > peak[p]
  /\ peak' = [peak EXCEPT ![p] = peak'[p]]
  /\ UNCHANGED rows

Next ==
  \/ \E i \in Ids : Register(i)
  \/ \E gone \in SUBSET Registered : Unregister(gone)
  \/ \E p \in Plans : RaisePeak(p)

Spec == Init /\ [][Next]_vars
=============================================================================
