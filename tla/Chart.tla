------------------------------- MODULE Chart -------------------------------
(***************************************************************************)
(* The live chart of InstanceDetailPage.tsx: tick asks for the state of    *)
(* the instance every two seconds, whether the answer to the last one has  *)
(* come or not, and draws the difference between an answer and the one     *)
(* that came before it.  Of a state the traffic counter is kept; CPU time  *)
(* is drawn in the same way, and the time between two answers only scales  *)
(* the difference.                                                         *)
(***************************************************************************)
EXTENDS Naturals, Sequences

CONSTANTS
  MaxPoints,   \* MAX_POINTS
  MaxTicks,    \* requests sent: a bound
  MaxBytes     \* traffic of the instance: a bound

ASSUME ChartBounds == MaxPoints \in Nat \ {0} /\ MaxTicks \in Nat /\ MaxBytes \in Nat

NoSample == [bytes |-> 0, order |-> 0]

VARIABLES
  running,   \* the instance runs
  bytes,     \* its counter, since it was started
  ticks,     \* requests sent
  answers,   \* samples taken
  polls,     \* the requests that are out
  prev,      \* prevRef: the sample drawn last
  points     \* what is drawn: a pair of samples for each point

chartVars == << running, bytes, ticks, answers, polls, prev, points >>

ChartInit ==
  /\ running = TRUE /\ bytes = 0
  /\ ticks = 0 /\ answers = 0 /\ polls = {}
  /\ prev = NoSample /\ points = << >>

Traffic ==
  /\ running /\ bytes < MaxBytes
  /\ bytes' = bytes + 1
  /\ UNCHANGED << running, ticks, answers, polls, prev, points >>

\* The counters of an instance begin at 0 when it is started.
StartOrStop ==
  /\ running' = ~ running
  /\ bytes' = 0
  /\ UNCHANGED << ticks, answers, polls, prev, points >>

Ask ==
  /\ ticks < MaxTicks
  /\ ticks' = ticks + 1
  /\ polls' = polls \union {[id |-> ticks + 1, stage |-> "asked", sample |-> NoSample]}
  /\ UNCHANGED << running, bytes, answers, prev, points >>

\* The state of an instance that does not run draws nothing.
AnswerState(p) ==
  /\ p.stage = "asked"
  /\ answers' = answers + 1
  /\ polls' = (polls \ {p}) \union
       {[p EXCEPT !.stage = IF running THEN "running" ELSE "stopped",
                  !.sample = [bytes |-> bytes, order |-> answers + 1]]}
  /\ UNCHANGED << running, bytes, ticks, prev, points >>

\* The window of the chart.
Window(ps) ==
  IF Len(ps) > MaxPoints THEN SubSeq(ps, Len(ps) - MaxPoints + 1, Len(ps)) ELSE ps

\* A sample that is older than the drawn one is compared with it and not kept.
DrawUnlessOlder(p) ==
  /\ p.stage = "running"
  /\ polls' = polls \ {p}
  /\ prev' = IF p.sample.order < prev.order THEN prev ELSE p.sample
  /\ points' = Window(Append(points, [from |-> prev, to |-> p.sample]))
  /\ UNCHANGED << running, bytes, ticks, answers >>

\* The first point has no sample before it and draws 0.
Draw(p) ==
  /\ p.stage = "running"
  /\ polls' = polls \ {p}
  /\ prev' = p.sample
  /\ points' = Window(Append(points, [from |-> prev, to |-> p.sample]))
  /\ UNCHANGED << running, bytes, ticks, answers >>

\* The instance did not run, or the request failed: return.
Skip(p) ==
  /\ p.stage # "running"
  /\ polls' = polls \ {p}
  /\ UNCHANGED << running, bytes, ticks, answers, prev, points >>

ChartNext ==
  \/ Traffic \/ StartOrStop \/ Ask
  \/ \E p \in polls : AnswerState(p) \/ Draw(p) \/ Skip(p)

ChartSpec == ChartInit /\ [][ChartNext]_chartVars
-----------------------------------------------------------------------------
\* Every byte counts once: each point begins with the sample its predecessor ended
\* with, and the last one ends with the sample the next will begin with - answers that
\* overtake each other, and instances that are started anew in between, draw a fall and
\* then a rise, and their sum over the window is still what the counter has gained.
PointsChain ==
  /\ Len(points) <= MaxPoints
  /\ \A i \in 1..(Len(points) - 1) : points[i].to = points[i + 1].from
  /\ points # << >> => points[Len(points)].to = prev
=============================================================================
