----------------------------- MODULE PagesProofs -----------------------------
(***************************************************************************)
(* Proofs about the pages that keep what they show themselves: the points  *)
(* of the chart, for any window and any order of the answers, the list of  *)
(* users, for any number of changes and submissions, and the keys and      *)
(* sizes of a console; and about all pages together.                       *)
(***************************************************************************)
EXTENDS MCPages, PageFormsProofs, SSHKeysProofs, TLAPS

-----------------------------------------------------------------------------
(* The chart *)

Samples == [bytes : Nat, order : Nat]
Points == [from : Samples, to : Samples]

ChartTyped ==
  /\ bytes \in Nat /\ answers \in Nat /\ prev \in Samples
  /\ \A p \in polls : p.sample \in Samples
  /\ points \in Seq(Points)

\* A point follows another when it begins where that one ends.
Follow(ps) == \A i \in 1..(Len(ps) - 1) : ps[i].to = ps[i + 1].from

\* A point appended to a chain that ends where it begins makes a chain.
LEMMA AppendFollows ==
  ASSUME NEW ps \in Seq(Points), NEW p \in Points, Follow(ps),
         ps # << >> => ps[Len(ps)].to = p.from
  PROVE  LET qs == Append(ps, p)
         IN  qs \in Seq(Points) /\ Follow(qs) /\ Len(qs) = Len(ps) + 1 /\ qs[Len(qs)] = p
<1> DEFINE qs == Append(ps, p)
<1>1. qs \in Seq(Points) /\ Len(qs) = Len(ps) + 1 /\ qs[Len(ps) + 1] = p /\ Len(ps) \in Nat
  OBVIOUS
<1>2. \A i \in 1..Len(ps) : qs[i] = ps[i]
  OBVIOUS
<1>3. ASSUME NEW i \in 1..(Len(qs) - 1) PROVE qs[i].to = qs[i + 1].from
  <2>1. CASE i = Len(ps)
    <3>1. ps # << >>
      BY <1>1, <2>1
    <3> QED
      BY <1>1, <1>2, <2>1, <3>1
  <2>2. CASE i # Len(ps)
    <3>1. i \in 1..(Len(ps) - 1) /\ i + 1 \in 1..Len(ps)
      BY <1>1, <2>2
    <3> QED
      BY <1>2, <3>1 DEF Follow
  <2> QED
    BY <2>1, <2>2
<1> QED
  BY <1>1, <1>3 DEF Follow

\* The window of a chain is a chain with the same end.
LEMMA WindowFollows ==
  ASSUME NEW ps \in Seq(Points), Follow(ps), ps # << >>
  PROVE  LET win == Window(ps)
         IN  /\ win \in Seq(Points) /\ Follow(win) /\ Len(win) \in 1..MaxPoints
             /\ win[Len(win)] = ps[Len(ps)]
<1>1. Len(ps) \in Nat /\ Len(ps) # 0 /\ MaxPoints \in Nat /\ MaxPoints # 0
  BY ChartBounds
<1>2. CASE Len(ps) <= MaxPoints
  BY <1>1, <1>2 DEF Window
<1>3. CASE Len(ps) > MaxPoints
  <2> DEFINE d == Len(ps) - MaxPoints
             win == SubSeq(ps, d + 1, Len(ps))
  <2>1. d \in Nat /\ d + 1 \in 1..Len(ps) /\ Window(ps) = win
    BY <1>1, <1>3 DEF Window
  <2>2. win \in Seq(Points) /\ Len(win) = MaxPoints
    BY <1>1, <1>3, <2>1
  <2>3. \A i \in 1..MaxPoints : win[i] = ps[d + i]
    BY <1>1, <1>3, <2>1
  <2>4. ASSUME NEW i \in 1..(Len(win) - 1) PROVE win[i].to = win[i + 1].from
    <3>1. /\ i \in 1..MaxPoints /\ i + 1 \in 1..MaxPoints /\ d + i \in 1..(Len(ps) - 1)
          /\ d + (i + 1) = (d + i) + 1
      BY <1>1, <1>3, <2>1, <2>2
    <3> QED
      BY <2>3, <3>1 DEF Follow
  <2>5. win[Len(win)] = ps[Len(ps)]
    BY <1>1, <2>1, <2>2, <2>3
  <2> HIDE DEF win
  <2> QED
    BY <1>1, <2>1, <2>2, <2>4, <2>5 DEF Follow
<1> QED
  BY <1>1, <1>2, <1>3

\* A step of the chart keeps its types and its chain.
LEMMA ChartStep ==
  ASSUME ChartTyped, PointsChain, [ChartNext]_chartVars
  PROVE  ChartTyped' /\ PointsChain'
<1>1. CASE Traffic \/ StartOrStop
  BY <1>1 DEF Traffic, StartOrStop, ChartTyped, PointsChain
<1>2. CASE Ask
  <2>1. NoSample \in Samples
    BY DEF NoSample, Samples
  <2> QED
    BY <1>2, <2>1 DEF Ask, ChartTyped, PointsChain
<1>3. ASSUME NEW p \in polls, AnswerState(p) PROVE ChartTyped' /\ PointsChain'
  <2> DEFINE s == [bytes |-> bytes, order |-> answers + 1]
             q == [p EXCEPT !.stage = IF running THEN "running" ELSE "stopped", !.sample = s]
  <2>1. polls' = (polls \ {p}) \union {q} /\ answers' = answers + 1
    BY <1>3 DEF AnswerState
  <2>2. s \in Samples /\ p.sample \in Samples
    BY DEF ChartTyped, Samples
  <2>3. q.sample \in Samples
    BY <2>2
  <2> HIDE DEF q
  <2> QED
    BY <1>3, <2>1, <2>3 DEF AnswerState, ChartTyped, PointsChain
<1>4. ASSUME NEW p \in polls, Draw(p) PROVE ChartTyped' /\ PointsChain'
  <2> DEFINE new == [from |-> prev, to |-> p.sample]
             ps == Append(points, new)
  <2>1. new \in Points /\ p.sample \in Samples
    BY DEF ChartTyped, Points
  <2>2. points' = Window(ps) /\ prev' = p.sample /\ polls' = polls \ {p}
    BY <1>4 DEF Draw
  <2>3. /\ ps \in Seq(Points) /\ Follow(ps) /\ Len(ps) = Len(points) + 1
        /\ ps[Len(ps)] = new
    <3>1. points # << >> => points[Len(points)].to = new.from
      BY DEF PointsChain
    <3>2. Follow(points) /\ points \in Seq(Points)
      BY DEF PointsChain, Follow, ChartTyped
    <3> HIDE DEF new
    <3> QED
      BY <2>1, <3>1, <3>2, AppendFollows
  <2>4. ps # << >>
    BY <2>3 DEF ChartTyped
  <2> HIDE DEF ps
  <2>5. /\ points' \in Seq(Points) /\ Follow(points') /\ Len(points') \in 1..MaxPoints
        /\ points'[Len(points')].to = prev'
    BY <2>2, <2>3, <2>4, WindowFollows
  <2>6. Len(points') <= MaxPoints
    BY <2>5, ChartBounds
  <2> QED
    BY <1>4, <2>1, <2>2, <2>5, <2>6 DEF Draw, ChartTyped, PointsChain, Follow
<1>5. ASSUME NEW p \in polls, Skip(p) PROVE ChartTyped' /\ PointsChain'
  BY <1>5 DEF Skip, ChartTyped, PointsChain
<1>6. CASE UNCHANGED chartVars
  BY <1>6 DEF chartVars, ChartTyped, PointsChain
<1> QED
  BY <1>1, <1>2, <1>3, <1>4, <1>5, <1>6 DEF ChartNext

\* The points are a chain that ends with the sample drawn last, for any order of the
\* answers and any restarts of the instance.
THEOREM ChartIsChain == ChartSpec => []PointsChain
<1>1. ChartInit => ChartTyped /\ PointsChain
  BY ChartBounds DEF ChartInit, ChartTyped, PointsChain, NoSample, Samples
<1>2. (ChartTyped /\ PointsChain) /\ [ChartNext]_chartVars => (ChartTyped /\ PointsChain)'
  BY ChartStep
<1> QED
  BY <1>1, <1>2, PTL DEF ChartSpec
-----------------------------------------------------------------------------
(* The list of users *)

UsersTyped ==
  /\ usersNow \in Nat /\ users \in Nat /\ created \in Nat /\ loadError \in BOOLEAN
  /\ overlapped \in BOOLEAN /\ creating \in {"idle", "sent", "made", "reloading"}
  /\ reloads \subseteq [by : {"mount", "create"}, stage : {"asked", "answered"}, version : Nat]

\* While no two lists were fetched at a time: the one list that is being fetched is that
\* of the page's opening, with no user created yet, or the form waits for it and it will
\* have the user.
Ordered ==
  /\ created <= usersNow
  /\ \A r, s \in reloads : r = s
  /\ creating = "reloading" =>
       /\ reloads # {}
       /\ \A r \in reloads :
            r.by = "create" /\ (r.stage = "answered" => created <= r.version)
  /\ creating # "reloading" => \A r \in reloads : r.by = "mount"
  /\ creating \in {"idle", "sent"} /\ reloads # {} => created = 0
  /\ creating = "idle" /\ created # 0 => created <= users \/ loadError

UsersInvariant == UsersTyped /\ (~ overlapped => Ordered)

\* The end of a fetch, with the list or with the error it brings.
LEMMA FetchEnds ==
  ASSUME UsersInvariant, ~ overlapped, NEW r \in reloads, Ended(r),
         users' \in Nat, loadError' \in BOOLEAN,
         creating = "reloading" => created <= users' \/ loadError'
  PROVE  UsersInvariant'
<1>1. UsersTyped /\ Ordered /\ reloads' = {}
  BY DEF UsersInvariant, Ordered, Ended
<1>2. CASE r.by = "create"
  <2>1. creating = "reloading" /\ creating' = "idle" /\ created' = created /\ usersNow' = usersNow
        /\ overlapped' = overlapped
    BY <1>1, <1>2 DEF Ordered, Ended, UsersTyped
  <2> QED
    BY <1>1, <2>1 DEF UsersInvariant, UsersTyped, Ordered
<1>3. CASE r.by # "create"
  <2>1. creating # "reloading" /\ creating' = creating /\ created' = created
        /\ usersNow' = usersNow /\ overlapped' = overlapped
    BY <1>1, <1>3 DEF Ordered, Ended, UsersTyped
  <2>2. creating = "idle" => created = 0
    BY <1>1, <2>1 DEF Ordered
  <2> QED
    BY <1>1, <2>1, <2>2 DEF UsersInvariant, UsersTyped, Ordered
<1> QED
  BY <1>2, <1>3

\* Any step keeps it.
LEMMA UsersStep ==
  ASSUME UsersInvariant, [UsersNext]_usersVars
  PROVE  UsersInvariant'
<1> USE DEF UsersInvariant
<1>1. CASE SubmitUser
  BY <1>1 DEF SubmitUser, UsersTyped, Ordered
<1>2. CASE MakeUser
  BY <1>2 DEF MakeUser, UsersTyped, Ordered
<1>3. CASE CreateFails
  BY <1>3 DEF CreateFails, UsersTyped, Ordered
<1>4. CASE CreateReloads
  <2>1. Reload("create") \in
          [by : {"mount", "create"}, stage : {"asked", "answered"}, version : Nat]
    BY DEF Reload
  <2>2. UsersTyped'
    BY <1>4, <2>1 DEF CreateReloads, UsersTyped
  <2>3. ASSUME ~ overlapped' PROVE Ordered'
    <3>1. ~ overlapped /\ reloads = {} /\ reloads' = {Reload("create")}
      BY <1>4, <2>3 DEF CreateReloads, UsersTyped
    <3>2. Reload("create").by = "create" /\ Reload("create").stage = "asked"
      BY DEF Reload
    <3> HIDE DEF UsersInvariant
    <3>3. Ordered /\ creating' = "reloading" /\ created' = created /\ usersNow' = usersNow
      BY <1>4, <3>1 DEF CreateReloads, UsersInvariant
    <3> QED
      BY <3>1, <3>2, <3>3 DEF Ordered
  <2> QED
    BY <2>2, <2>3
<1>5. CASE UsersChange
  BY <1>5 DEF UsersChange, UsersTyped, Ordered
<1>6. ASSUME NEW r \in reloads, AnswerList(r) PROVE UsersInvariant'
  <2> DEFINE a == [r EXCEPT !.stage = "answered", !.version = usersNow]
  <2>1. /\ a \in [by : {"mount", "create"}, stage : {"asked", "answered"}, version : Nat]
        /\ a.by = r.by /\ a.version = usersNow
    BY DEF UsersTyped
  <2>2. reloads' = (reloads \ {r}) \union {a}
    BY <1>6 DEF AnswerList
  <2> HIDE DEF a
  <2>3. UsersTyped'
    BY <1>6, <2>1, <2>2 DEF AnswerList, UsersTyped
  <2>4. ASSUME ~ overlapped' PROVE Ordered'
    <3>1. Ordered
      BY <1>6, <2>4 DEF AnswerList
    <3>2. reloads' = {a}
      BY <2>2, <3>1 DEF Ordered
    <3> QED
      BY <1>6, <2>1, <3>1, <3>2 DEF AnswerList, Ordered
  <2> QED
    BY <2>3, <2>4
<1>7. ASSUME NEW r \in reloads, ShowList(r) \/ ListFails(r) PROVE UsersInvariant'
  <2>1. users' \in Nat /\ loadError' \in BOOLEAN
    BY <1>7 DEF ShowList, ListFails, UsersTyped
  <2>2. CASE overlapped
    BY <1>7, <2>1, <2>2 DEF ShowList, ListFails, Ended, UsersTyped
  <2>3. CASE ~ overlapped
    <3>1. creating = "reloading" => created <= users' \/ loadError'
      BY <1>7, <2>3 DEF ShowList, ListFails, Ordered
    <3>2. Ended(r)
      BY <1>7 DEF ShowList, ListFails
    <3> QED
      BY <2>1, <2>3, <3>1, <3>2, FetchEnds
  <2> QED
    BY <2>2, <2>3 DEF UsersTyped
<1>8. CASE UNCHANGED usersVars
  BY <1>8 DEF usersVars, UsersTyped, Ordered
<1> QED
  BY <1>1, <1>2, <1>3, <1>4, <1>5, <1>6, <1>7, <1>8 DEF UsersNext

\* A user that was created is in the list when the button comes back, or the page says
\* that the list could not be loaded.
THEOREM CreatedAreListed == UsersSpec => []CreatedIsListed
<1>1. UsersInit => UsersInvariant
  <2> SUFFICES ASSUME UsersInit
               PROVE  UsersTyped /\ Ordered
    BY DEF UsersInvariant
  <2>1. /\ Reload("mount") \in
             [by : {"mount", "create"}, stage : {"asked", "answered"}, version : Nat]
        /\ Reload("mount").by = "mount"
    BY DEF Reload
  <2>2. /\ usersNow = 1 /\ created = 0 /\ creating = "idle" /\ loadError = FALSE
        /\ reloads = {Reload("mount")} /\ users = 0 /\ overlapped = FALSE
    BY DEF UsersInit
  <2>3. UsersTyped
    BY <2>1, <2>2 DEF UsersTyped
  <2>4. Ordered
    BY <2>1, <2>2 DEF Ordered
  <2> QED
    BY <2>3, <2>4
<1>2. UsersInvariant /\ [UsersNext]_usersVars => UsersInvariant'
  BY UsersStep
<1>3. UsersInvariant => CreatedIsListed
  BY DEF UsersInvariant, UsersTyped, Ordered, CreatedIsListed
<1> QED
  BY <1>1, <1>2, <1>3, PTL DEF UsersSpec
-----------------------------------------------------------------------------
(* Queues of frames *)

Frames == [kind : {"key", "size", "close"}, n : Nat]

IsSize(frame) == frame.kind = "size"
NoSize(frames) == \A i \in 1..Len(frames) : ~ IsSize(frames[i])

\* The last size in the queue is s.
SizeLast(frames, s) ==
  \E i \in 1..Len(frames) :
    /\ IsSize(frames[i]) /\ frames[i].n = s
    /\ \A j \in i + 1..Len(frames) : ~ IsSize(frames[j])

\* What a frame at the end of a queue changes.
LEMMA FrameAppended ==
  ASSUME NEW fs \in Seq(Frames), NEW f \in Frames
  PROVE  /\ Append(fs, f) \in Seq(Frames)
         /\ Numbers(Append(fs, f)) = Numbers(fs) \union (IF IsKey(f) THEN {f.n} ELSE {})
         /\ Rising(fs) /\ (IsKey(f) => Below(Numbers(fs), {f.n})) => Rising(Append(fs, f))
         /\ NoSize(fs) /\ ~ IsSize(f) => NoSize(Append(fs, f))
         /\ IsSize(f) => SizeLast(Append(fs, f), f.n)
         /\ \A s : SizeLast(fs, s) /\ ~ IsSize(f) => SizeLast(Append(fs, f), s)
<1> DEFINE gs == Append(fs, f)
<1>1. /\ gs \in Seq(Frames) /\ Len(fs) \in Nat /\ Len(gs) = Len(fs) + 1 /\ gs[Len(fs) + 1] = f
      /\ \A i \in 1..Len(fs) : gs[i] = fs[i]
  OBVIOUS
<1> HIDE DEF gs
<1>2. Numbers(gs) = Numbers(fs) \union (IF IsKey(f) THEN {f.n} ELSE {})
  <2>1. ASSUME NEW x \in Numbers(gs) PROVE x \in Numbers(fs) \/ (IsKey(f) /\ x = f.n)
    <3>1. PICK i \in 1..Len(gs) : IsKey(gs[i]) /\ x = gs[i].n
      BY <2>1 DEF Numbers
    <3>2. CASE i = Len(fs) + 1
      BY <1>1, <3>1, <3>2
    <3>3. CASE i # Len(fs) + 1
      <4>1. i \in 1..Len(fs)
        BY <1>1, <3>3
      <4> QED
        BY <1>1, <3>1, <4>1 DEF Numbers
    <3> QED
      BY <3>2, <3>3
  <2>2. ASSUME NEW x \in Numbers(fs) PROVE x \in Numbers(gs)
    <3>1. PICK i \in 1..Len(fs) : IsKey(fs[i]) /\ x = fs[i].n
      BY <2>2 DEF Numbers
    <3>2. i \in 1..Len(gs) /\ gs[i] = fs[i]
      BY <1>1
    <3> QED
      BY <3>1, <3>2 DEF Numbers
  <2>3. ASSUME IsKey(f) PROVE f.n \in Numbers(gs)
    <3>1. Len(fs) + 1 \in 1..Len(gs)
      BY <1>1
    <3> QED
      BY <1>1, <2>3, <3>1 DEF Numbers
  <2> QED
    BY <2>1, <2>2, <2>3
<1>3. ASSUME Rising(fs), IsKey(f) => Below(Numbers(fs), {f.n})
      PROVE  Rising(gs)
  <2>1. SUFFICES ASSUME NEW i \in 1..Len(gs), NEW j \in 1..Len(gs), i < j,
                        IsKey(gs[i]), IsKey(gs[j])
                 PROVE  gs[i].n < gs[j].n
    BY DEF Rising
  <2>2. i \in 1..Len(fs) /\ gs[i] = fs[i]
    BY <1>1, <2>1
  <2>3. CASE j = Len(fs) + 1
    <3>1. gs[i].n \in Numbers(fs)
      BY <2>1, <2>2 DEF Numbers
    <3> QED
      BY <1>1, <1>3, <2>1, <2>3, <3>1 DEF Below
  <2>4. CASE j # Len(fs) + 1
    <3>1. j \in 1..Len(fs) /\ gs[j] = fs[j]
      BY <1>1, <2>4
    <3> QED
      BY <1>3, <2>1, <2>2, <3>1 DEF Rising
  <2> QED
    BY <2>3, <2>4
<1>4. NoSize(fs) /\ ~ IsSize(f) => NoSize(gs)
  BY <1>1 DEF NoSize
<1>5. IsSize(f) => SizeLast(gs, f.n)
  <2>1. Len(fs) + 1 \in 1..Len(gs) /\ \A j \in (Len(fs) + 1) + 1..Len(gs) : FALSE
    BY <1>1
  <2> QED
    BY <1>1, <2>1 DEF SizeLast
<1>6. ASSUME NEW s, SizeLast(fs, s), ~ IsSize(f) PROVE SizeLast(gs, s)
  <2>1. PICK i \in 1..Len(fs) : /\ IsSize(fs[i]) /\ fs[i].n = s
                                /\ \A j \in i + 1..Len(fs) : ~ IsSize(fs[j])
    BY <1>6 DEF SizeLast
  <2>2. i \in 1..Len(gs) /\ gs[i] = fs[i]
    BY <1>1
  <2>3. \A j \in i + 1..Len(gs) : j = Len(fs) + 1 \/ (j \in i + 1..Len(fs) /\ gs[j] = fs[j])
    BY <1>1
  <2>4. \A j \in i + 1..Len(gs) : ~ IsSize(gs[j])
    BY <1>1, <1>6, <2>1, <2>3
  <2> QED
    BY <2>1, <2>2, <2>4 DEF SizeLast
<1> QED
  BY <1>1, <1>2, <1>3, <1>4, <1>5, <1>6 DEF gs

\* What is left when the frame at the head of a queue is taken.
LEMMA FrameTaken ==
  ASSUME NEW fs \in Seq(Frames), fs # << >>
  PROVE  /\ Head(fs) \in Frames /\ Tail(fs) \in Seq(Frames)
         /\ Numbers(fs)
              = Numbers(Tail(fs)) \union (IF IsKey(Head(fs)) THEN {Head(fs).n} ELSE {})
         /\ Rising(fs) => /\ Rising(Tail(fs))
                          /\ IsKey(Head(fs)) => Below({Head(fs).n}, Numbers(Tail(fs)))
         /\ NoSize(fs) => ~ IsSize(Head(fs)) /\ NoSize(Tail(fs))
         /\ \A s : SizeLast(fs, s) =>
              \/ SizeLast(Tail(fs), s)
              \/ IsSize(Head(fs)) /\ Head(fs).n = s /\ NoSize(Tail(fs))
<1> DEFINE f == Head(fs)
           gs == Tail(fs)
<1>1. /\ f \in Frames /\ f = fs[1] /\ gs \in Seq(Frames) /\ Len(gs) \in Nat
      /\ Len(fs) = Len(gs) + 1 /\ \A i \in 1..Len(gs) : gs[i] = fs[i + 1]
  OBVIOUS
<1> HIDE DEF f, gs
<1>2. \A i \in 1..Len(fs) : i = 1 \/ (i - 1 \in 1..Len(gs) /\ fs[i] = gs[i - 1])
  BY <1>1
<1>3. \A i \in 1..Len(gs) : i + 1 \in 1..Len(fs) /\ fs[i + 1] = gs[i]
  BY <1>1
<1>4. 1 \in 1..Len(fs)
  BY <1>1
<1>5. Numbers(fs) = Numbers(gs) \union (IF IsKey(f) THEN {f.n} ELSE {})
  <2>1. ASSUME NEW x \in Numbers(fs) PROVE x \in Numbers(gs) \/ (IsKey(f) /\ x = f.n)
    <3>1. PICK i \in 1..Len(fs) : IsKey(fs[i]) /\ x = fs[i].n
      BY <2>1 DEF Numbers
    <3>2. i = 1 \/ (i - 1 \in 1..Len(gs) /\ fs[i] = gs[i - 1])
      BY <1>2
    <3> QED
      BY <1>1, <3>1, <3>2 DEF Numbers
  <2>2. ASSUME NEW x \in Numbers(gs) PROVE x \in Numbers(fs)
    <3>1. PICK i \in 1..Len(gs) : IsKey(gs[i]) /\ x = gs[i].n
      BY <2>2 DEF Numbers
    <3> QED
      BY <1>3, <3>1 DEF Numbers
  <2>3. IsKey(f) => f.n \in Numbers(fs)
    BY <1>1, <1>4 DEF Numbers
  <2> QED
    BY <2>1, <2>2, <2>3
<1>6. ASSUME Rising(fs) PROVE Rising(gs) /\ (IsKey(f) => Below({f.n}, Numbers(gs)))
  <2>1. ASSUME NEW i \in 1..Len(gs), NEW j \in 1..Len(gs), i < j, IsKey(gs[i]), IsKey(gs[j])
        PROVE  gs[i].n < gs[j].n
    <3>1. i + 1 < j + 1
      BY <1>1, <2>1
    <3> QED
      BY <1>3, <1>6, <2>1, <3>1 DEF Rising
  <2>2. ASSUME IsKey(f), NEW x \in Numbers(gs) PROVE f.n < x
    <3>1. PICK i \in 1..Len(gs) : IsKey(gs[i]) /\ x = gs[i].n
      BY <2>2 DEF Numbers
    <3>2. 1 < i + 1
      BY <1>1
    <3> QED
      BY <1>1, <1>3, <1>4, <1>6, <2>2, <3>1, <3>2 DEF Rising
  <2> QED
    BY <2>1, <2>2 DEF Rising, Below
<1>7. NoSize(fs) => ~ IsSize(f) /\ NoSize(gs)
  BY <1>1, <1>3, <1>4 DEF NoSize
<1>8. ASSUME NEW s, SizeLast(fs, s)
      PROVE  SizeLast(gs, s) \/ (IsSize(f) /\ f.n = s /\ NoSize(gs))
  <2>1. PICK i \in 1..Len(fs) : /\ IsSize(fs[i]) /\ fs[i].n = s
                                /\ \A j \in i + 1..Len(fs) : ~ IsSize(fs[j])
    BY <1>8 DEF SizeLast
  <2>2. \A j \in i..Len(gs) : j + 1 \in i + 1..Len(fs)
    BY <1>1
  <2>3. \A j \in i..Len(gs) : ~ IsSize(gs[j])
    <3>1. \A j \in i..Len(gs) : j \in 1..Len(gs)
      BY <1>1
    <3> QED
      BY <1>3, <2>1, <2>2, <3>1
  <2>4. CASE i = 1
    BY <1>1, <2>1, <2>3, <2>4 DEF NoSize
  <2>5. CASE i # 1
    <3>1. i - 1 \in 1..Len(gs) /\ gs[i - 1] = fs[i] /\ (i - 1) + 1 = i
      BY <1>1, <1>2, <2>5
    <3> QED
      BY <2>1, <2>3, <3>1 DEF SizeLast
  <2> QED
    BY <2>4, <2>5
<1> QED
  BY <1>1, <1>5, <1>6, <1>7, <1>8 DEF f, gs
-----------------------------------------------------------------------------
(* The console: types *)

\* Without the development server its queue is empty; with it, the handler gets nothing
\* before the socket to it is open.
ConsoleTyped ==
  /\ proxied \in BOOLEAN /\ early \in BOOLEAN /\ control \in BOOLEAN /\ stdinClosed \in BOOLEAN
  /\ ws \in {"connecting", "open", "closed"}
  /\ backend \in {"none", "connecting", "open", "closed"}
  /\ handler \in {"none", "execs", "waits", "relays", "ended"}
  /\ size \in Sizes /\ keys \in Nat
  /\ stdin \in Seq(Frames) /\ toHandler \in Seq(Frames) /\ toProxy \in Seq(Frames)
  /\ ~ proxied => backend = "none" /\ toProxy = << >>
  /\ proxied /\ backend \in {"none", "connecting"} => stdin = << >> /\ toHandler = << >>

\* The frames that are sent.
LEMMA FramesTyped ==
  ASSUME ConsoleTyped
  PROVE  /\ Frame("key", keys + 1) \in Frames /\ Frame("close", 0) \in Frames
         /\ \A s \in Sizes : Frame("size", s) \in Frames
BY ConsoleBounds DEF ConsoleTyped, Frame, Frames

\* A frame that is sent goes to the end of a queue.
LEMMA SendTyped ==
  ASSUME ConsoleTyped, NEW f \in Frames, Send(f), UNCHANGED << proxied, backend, stdin >>
  PROVE  /\ toHandler' \in Seq(Frames) /\ toProxy' \in Seq(Frames)
         /\ ~ proxied => toProxy' = << >>
         /\ proxied /\ backend \in {"none", "connecting"} => toHandler' = << >>
<1>1. CASE proxied
  BY <1>1, FrameAppended DEF Send, ConsoleTyped
<1>2. CASE ~ proxied
  BY <1>2, FrameAppended DEF Send, ConsoleTyped
<1> QED
  BY <1>1, <1>2

\* Any step keeps the types.
LEMMA ConsoleTypeStep ==
  ASSUME ConsoleTyped, [ConsoleNext]_consoleVars
  PROVE  ConsoleTyped'
<1> USE DEF pageVars, handlerVars
<1>1. CASE PageOpens
  BY <1>1 DEF PageOpens, ConsoleTyped
<1>2. CASE PressKey
  <2>1. Send(Frame("key", keys + 1)) /\ Frame("key", keys + 1) \in Frames
    BY <1>2, FramesTyped DEF PressKey
  <2>2. UNCHANGED << proxied, backend, stdin >>
    BY <1>2 DEF PressKey
  <2> QED
    BY <1>2, <2>1, <2>2, SendTyped DEF PressKey, ConsoleTyped
<1>3. CASE FitAndResize
  <2>1. size' \in Sizes /\ Frame("size", size') \in Frames
    BY <1>3, FramesTyped DEF FitAndResize
  <2>2. UNCHANGED << proxied, backend, stdin >>
    BY <1>3 DEF FitAndResize
  <2>3. CASE ws = "open"
    <3>1. Send(Frame("size", size'))
      BY <1>3, <2>3 DEF FitAndResize
    <3> QED
      BY <1>3, <2>1, <2>2, <3>1, SendTyped DEF FitAndResize, ConsoleTyped
  <2>4. CASE ws # "open"
    BY <1>3, <2>4 DEF FitAndResize, ConsoleTyped
  <2> QED
    BY <2>3, <2>4
<1>4. CASE LeavePage
  <2>1. Send(Frame("close", 0)) /\ Frame("close", 0) \in Frames
    BY <1>4, FramesTyped DEF LeavePage
  <2>2. UNCHANGED << proxied, backend, stdin >>
    BY <1>4 DEF LeavePage
  <2> QED
    BY <1>4, <2>1, <2>2, SendTyped DEF LeavePage, ConsoleTyped
<1>5. CASE PageHears
  BY <1>5 DEF PageHears, ConsoleTyped
<1>6. CASE ProxyUpgrades \/ BackendOpens \/ BackendCloses
  BY <1>6 DEF ProxyUpgrades, BackendOpens, BackendCloses, ConsoleTyped
<1>7. CASE ProxyTakes
  <2>1. Head(toProxy) \in Frames /\ Tail(toProxy) \in Seq(Frames)
    BY <1>7, FrameTaken DEF ProxyTakes, ConsoleTyped
  <2>2. Append(toHandler, Head(toProxy)) \in Seq(Frames)
    BY <2>1, FrameAppended DEF ConsoleTyped
  <2> QED
    BY <1>7, <2>1, <2>2 DEF ProxyTakes, ConsoleTyped
<1>8. CASE Upgrade \/ ExecInstance \/ GetControl \/ BashEnds
  BY <1>8 DEF Upgrade, ExecInstance, GetControl, BashEnds, ConsoleTyped
<1>9. CASE Relay
  <2>1. Head(toHandler) \in Frames /\ Tail(toHandler) \in Seq(Frames)
    BY <1>9, FrameTaken DEF Relay, ConsoleTyped
  <2>2. Append(stdin, Head(toHandler)) \in Seq(Frames)
    BY <2>1, FrameAppended DEF ConsoleTyped
  <2> QED
    BY <1>9, <2>1, <2>2 DEF Relay, ConsoleTyped
<1>10. CASE UNCHANGED consoleVars
  BY <1>10 DEF consoleVars, ConsoleTyped
<1> QED
  BY <1>1, <1>2, <1>3, <1>4, <1>5, <1>6, <1>7, <1>8, <1>9, <1>10 DEF ConsoleNext

\* The sockets, the queues and the terminals keep to their types.
LEMMA ConsoleTypeCorrect == ConsoleSpec => []ConsoleTyped
<1>1. ConsoleInit => ConsoleTyped
  <2>1. << >> \in Seq(Frames)
    OBVIOUS
  <2>2. ASSUME ConsoleInit
        PROVE  /\ stdin \in Seq(Frames) /\ toHandler \in Seq(Frames) /\ toProxy \in Seq(Frames)
               /\ stdin = << >> /\ toHandler = << >> /\ toProxy = << >>
    BY <2>1, <2>2 DEF ConsoleInit
  <2>3. ASSUME ConsoleInit
        PROVE  /\ proxied \in BOOLEAN /\ early \in BOOLEAN /\ control \in BOOLEAN
               /\ stdinClosed \in BOOLEAN /\ ws = "connecting" /\ backend = "none"
               /\ handler = "none" /\ size \in Sizes /\ keys \in Nat
    BY <2>3 DEF ConsoleInit
  <2> QED
    BY <2>2, <2>3 DEF ConsoleTyped
<1>2. ConsoleTyped /\ [ConsoleNext]_consoleVars => ConsoleTyped'
  BY ConsoleTypeStep
<1> QED
  BY <1>1, <1>2, PTL DEF ConsoleSpec
-----------------------------------------------------------------------------
(* The console: keys *)

\* No key is under way that was not pressed.
KeysSound == UnderWay \subseteq 1..keys /\ KeysArrive

\* A step that leaves the keys where they are keeps them sound.
LEMMA KeysUndisturbed ==
  ASSUME KeysSound, UNCHANGED << keys, proxied >>, backend' = "closed" \/ backend # "closed",
         Numbers(stdin') = Numbers(stdin), Numbers(toHandler') = Numbers(toHandler),
         Numbers(toProxy') = Numbers(toProxy),
         Rising(stdin'), Rising(toHandler'), Rising(toProxy')
  PROVE  KeysSound'
BY DEF KeysSound, KeysArrive, Heard, UnderWay

\* A frame without a key goes to the end of a queue.
LEMMA OtherSent ==
  ASSUME ConsoleTyped, KeysSound, NEW f \in Frames, ~ IsKey(f), Send(f),
         UNCHANGED << keys, proxied, backend, stdin >>
  PROVE  KeysSound'
<1>1. Rising(toHandler) /\ Rising(toProxy) /\ Rising(stdin)
  BY DEF KeysSound, KeysArrive
<1>2. CASE proxied
  <2>1. toProxy' = Append(toProxy, f) /\ toHandler' = toHandler
    BY <1>2 DEF Send
  <2>2. Numbers(toProxy') = Numbers(toProxy) /\ Rising(toProxy')
    BY <1>1, <2>1, FrameAppended DEF ConsoleTyped
  <2> QED
    BY <1>1, <2>1, <2>2, KeysUndisturbed
<1>3. CASE ~ proxied
  <2>1. toHandler' = Append(toHandler, f) /\ toProxy' = toProxy
    BY <1>3 DEF Send
  <2>2. Numbers(toHandler') = Numbers(toHandler) /\ Rising(toHandler')
    BY <1>1, <2>1, FrameAppended DEF ConsoleTyped
  <2>3. backend # "closed"
    BY <1>3 DEF ConsoleTyped
  <2> QED
    BY <1>1, <2>1, <2>2, <2>3, KeysUndisturbed
<1> QED
  BY <1>2, <1>3

\* A key that is pressed goes behind all others.
LEMMA KeySent ==
  ASSUME ConsoleTyped, KeysSound, PressKey
  PROVE  KeysSound'
<1> DEFINE f == Frame("key", keys + 1)
<1>1. /\ Send(f) /\ keys' = keys + 1 /\ f \in Frames /\ IsKey(f) /\ f.n = keys + 1
      /\ UNCHANGED << proxied, backend, stdin >>
  BY FramesTyped DEF PressKey, handlerVars, Frame, IsKey
<1>2. keys \in Nat /\ UnderWay \subseteq 1..keys /\ KeysArrive
  BY DEF ConsoleTyped, KeysSound
<1>3. \A numbers \in SUBSET UnderWay : Below(numbers, {f.n})
  BY <1>1, <1>2 DEF Below
<1> HIDE DEF f
<1>4. CASE proxied
  <2>1. toProxy' = Append(toProxy, f) /\ toHandler' = toHandler
    BY <1>1, <1>4 DEF Send
  <2>2. Below(Numbers(toProxy), {f.n})
    BY <1>3 DEF UnderWay
  <2>3. Numbers(toProxy') = Numbers(toProxy) \union {f.n} /\ Rising(toProxy')
    BY <1>1, <1>2, <2>1, <2>2, FrameAppended DEF ConsoleTyped, KeysArrive
  <2>4. Heard' = Heard /\ UnderWay' = UnderWay \union {keys + 1}
    BY <1>1, <2>1, <2>3 DEF Heard, UnderWay
  <2>5. UnderWay' \subseteq 1..keys'
    BY <1>1, <1>2, <2>4
  <2>6. Below(Heard, Numbers(toProxy'))
    BY <1>1, <1>2, <2>3 DEF Below, KeysArrive, UnderWay
  <2>7. ASSUME backend # "closed" PROVE InARow(UnderWay')
    <3>1. InARow(UnderWay) /\ (UnderWay # {} => keys \in UnderWay)
      BY <1>2, <2>7 DEF KeysArrive
    <3>2. ASSUME NEW a \in UnderWay', NEW b \in UnderWay', NEW x \in a..b
          PROVE  x \in UnderWay'
      BY <1>2, <2>4, <3>1, <3>2 DEF InARow
    <3> QED
      BY <3>2 DEF InARow
  <2> QED
    BY <1>1, <1>2, <1>4, <2>1, <2>3, <2>4, <2>5, <2>6, <2>7 DEF KeysSound, KeysArrive, Heard
<1>5. CASE ~ proxied
  <2>1. toHandler' = Append(toHandler, f) /\ toProxy' = toProxy /\ toProxy = << >>
    BY <1>1, <1>5 DEF Send, ConsoleTyped
  <2>2. Below(Numbers(toHandler), {f.n})
    BY <1>3 DEF UnderWay, Heard
  <2>3. Numbers(toHandler') = Numbers(toHandler) \union {f.n} /\ Rising(toHandler')
    BY <1>1, <1>2, <2>1, <2>2, FrameAppended DEF ConsoleTyped, KeysArrive
  <2>4. Numbers(toProxy) = {}
    BY <2>1 DEF Numbers
  <2>5. Heard = 1..keys
    BY <1>2, <1>5 DEF KeysArrive
  <2>6. Heard' = Heard \union {keys + 1} /\ UnderWay' = Heard'
    BY <1>1, <2>1, <2>3, <2>4 DEF Heard, UnderWay
  <2>7. Heard' = 1..keys'
    BY <1>1, <1>2, <2>5, <2>6
  <2>8. Below(Numbers(stdin), Numbers(toHandler'))
    BY <1>1, <1>2, <2>3 DEF Below, KeysArrive, UnderWay, Heard
  <2>9. InARow(Heard') /\ (Heard' # {} => keys' \in Heard')
    BY <1>1, <1>2, <2>7 DEF InARow
  <2>10. Below(Heard', Numbers(toProxy'))
    BY <2>1, <2>4 DEF Below
  <2> QED
    BY <1>1, <1>2, <1>5, <2>1, <2>3, <2>6, <2>7, <2>8, <2>9, <2>10 DEF KeysSound, KeysArrive, Heard
<1> QED
  BY <1>4, <1>5

\* The development server takes a frame that it passes on.
LEMMA KeyPassed ==
  ASSUME ConsoleTyped, KeysSound, ProxyTakes, IsKey(Head(toProxy)), backend = "open"
  PROVE  KeysSound'
<1> DEFINE f == Head(toProxy)
           rest == Tail(toProxy)
<1>1. /\ toProxy' = rest /\ toHandler' = Append(toHandler, f) /\ backend' = backend
      /\ UNCHANGED << proxied, stdin, keys >>
  BY DEF ProxyTakes, pageVars, handlerVars, IsKey
<1>2. /\ f \in Frames /\ Numbers(toProxy) = Numbers(rest) \union {f.n}
      /\ Rising(rest) /\ Below({f.n}, Numbers(rest))
  BY FrameTaken DEF ProxyTakes, ConsoleTyped, KeysSound, KeysArrive
<1>3. keys \in Nat /\ UnderWay \subseteq 1..keys /\ KeysArrive /\ IsKey(f) /\ proxied
  BY DEF ConsoleTyped, KeysSound, ProxyTakes
<1> HIDE DEF f, rest
<1>4. Below(Heard, {f.n}) /\ Below(Heard, Numbers(rest))
  BY <1>2, <1>3 DEF KeysArrive, Below
<1>5. /\ Numbers(toHandler') = Numbers(toHandler) \union {f.n}
      /\ Rising(toHandler')
  BY <1>1, <1>2, <1>3, <1>4, FrameAppended DEF ConsoleTyped, KeysArrive, Below, Heard
<1>6. Heard' = Heard \union {f.n} /\ UnderWay' = UnderWay
  BY <1>1, <1>2, <1>5 DEF Heard, UnderWay
<1>7. Below(Numbers(stdin'), Numbers(toHandler')) /\ Below(Heard', Numbers(toProxy'))
  BY <1>1, <1>2, <1>3, <1>4, <1>5, <1>6 DEF KeysArrive, Below, Heard
<1>8. InARow(Heard')
  <2>1. SUFFICES ASSUME NEW a \in Heard', NEW b \in Heard', NEW x \in a..b
                 PROVE  x \in Heard'
    BY DEF InARow
  <2>2. InARow(UnderWay) /\ UnderWay \subseteq Nat /\ Heard' \subseteq UnderWay
    BY <1>1, <1>2, <1>3, <1>6 DEF KeysArrive, UnderWay
  <2>3. a \in Nat /\ b \in Nat /\ x \in UnderWay /\ x \in Nat
    BY <2>1, <2>2 DEF InARow
  <2>4. b <= f.n
    <3>1. b \in Heard => b < f.n
      BY <1>4 DEF Below
    <3>2. b \in Heard \/ b = f.n
      BY <1>6, <2>1
    <3> QED
      BY <1>2, <2>3, <3>1, <3>2 DEF Frames
  <2>5. x \notin Numbers(rest)
    BY <1>2, <2>1, <2>2, <2>3, <2>4 DEF Below, UnderWay
  <2> QED
    BY <1>2, <1>6, <2>3, <2>5 DEF UnderWay
<1> QED
  BY <1>1, <1>2, <1>3, <1>5, <1>6, <1>7, <1>8 DEF KeysSound, KeysArrive

\* The development server drops a frame.
LEMMA KeyDropped ==
  ASSUME ConsoleTyped, KeysSound, ProxyTakes, Head(toProxy).kind # "close", backend # "open"
  PROVE  KeysSound'
<1> DEFINE f == Head(toProxy)
           rest == Tail(toProxy)
<1>1. /\ toProxy' = rest /\ toHandler' = toHandler /\ backend' = backend
      /\ UNCHANGED << proxied, stdin, keys >>
  BY DEF ProxyTakes, pageVars, handlerVars
<1>2. /\ f \in Frames
      /\ Numbers(toProxy) = Numbers(rest) \union (IF IsKey(f) THEN {f.n} ELSE {})
      /\ Rising(rest) /\ (IsKey(f) => Below({f.n}, Numbers(rest)))
  BY FrameTaken DEF ProxyTakes, ConsoleTyped, KeysSound, KeysArrive
<1>3. /\ keys \in Nat /\ UnderWay \subseteq 1..keys /\ KeysArrive /\ proxied
      /\ backend \in {"connecting", "closed"}
  BY DEF ConsoleTyped, KeysSound, ProxyTakes
<1> HIDE DEF f, rest
<1>4. Heard' = Heard /\ UnderWay' = Heard \union Numbers(rest) /\ UnderWay' \subseteq UnderWay
  BY <1>1, <1>2 DEF Heard, UnderWay
<1>5. Below(Heard', Numbers(toProxy'))
  BY <1>1, <1>2, <1>3, <1>4 DEF KeysArrive, Below
<1>6. ASSUME backend = "connecting"
      PROVE  InARow(UnderWay') /\ (UnderWay' # {} => keys' \in UnderWay')
  <2>1. Heard = {}
    BY <1>3, <1>6 DEF ConsoleTyped, Heard, Numbers
  <2>2. UnderWay = Numbers(toProxy) /\ UnderWay' = Numbers(rest) /\ UnderWay \subseteq Nat
    BY <1>3, <1>4, <2>1 DEF UnderWay
  <2>3. InARow(UnderWay) /\ (UnderWay # {} => keys \in UnderWay)
    BY <1>3, <1>6 DEF KeysArrive
  <2>4. CASE ~ IsKey(f)
    BY <1>1, <1>2, <2>2, <2>3, <2>4
  <2>5. CASE IsKey(f)
    <3>1. ASSUME NEW a \in UnderWay', NEW b \in UnderWay', NEW x \in a..b
          PROVE  x \in UnderWay'
      <4>1. a \in Nat /\ f.n \in Nat /\ f.n < a /\ x \in UnderWay
        BY <1>2, <1>4, <2>2, <2>3, <2>5, <3>1 DEF InARow, Below
      <4>2. x # f.n
        BY <3>1, <4>1
      <4> QED
        BY <1>2, <2>2, <2>5, <4>1, <4>2
    <3>2. ASSUME UnderWay' # {} PROVE keys' \in UnderWay'
      <4>1. PICK a \in UnderWay' : a \in Nat /\ f.n \in Nat /\ f.n < a /\ a <= keys
        BY <1>2, <1>3, <1>4, <2>2, <2>5, <3>2 DEF Below
      <4>2. keys \in UnderWay /\ keys # f.n
        BY <1>3, <1>4, <2>3, <4>1
      <4> QED
        BY <1>1, <1>2, <2>2, <2>5, <4>2
    <3> QED
      BY <3>1, <3>2 DEF InARow
  <2> QED
    BY <2>4, <2>5
<1> QED
  BY <1>1, <1>2, <1>3, <1>4, <1>5, <1>6 DEF KeysSound, KeysArrive

\* bash gets a key.
LEMMA KeyRelayed ==
  ASSUME ConsoleTyped, KeysSound, Relay, IsKey(Head(toHandler))
  PROVE  KeysSound'
<1> DEFINE f == Head(toHandler)
           rest == Tail(toHandler)
<1>1. /\ toHandler' = rest /\ stdin' = Append(stdin, f)
      /\ UNCHANGED << proxied, toProxy, keys, backend >>
  BY DEF Relay, pageVars, IsKey
<1>2. /\ f \in Frames /\ Numbers(toHandler) = Numbers(rest) \union {f.n}
      /\ Rising(rest) /\ Below({f.n}, Numbers(rest))
  BY FrameTaken DEF Relay, ConsoleTyped, KeysSound, KeysArrive
<1>3. keys \in Nat /\ UnderWay \subseteq 1..keys /\ KeysArrive /\ IsKey(f)
  BY DEF ConsoleTyped, KeysSound
<1> HIDE DEF f, rest
<1>4. Below(Numbers(stdin), {f.n}) /\ Below(Numbers(stdin), Numbers(rest))
  BY <1>2, <1>3 DEF KeysArrive, Below
<1>5. /\ Numbers(stdin') = Numbers(stdin) \union {f.n}
      /\ Rising(stdin')
  BY <1>1, <1>2, <1>3, <1>4, FrameAppended DEF ConsoleTyped, KeysArrive
<1>6. Heard' = Heard /\ UnderWay' = UnderWay
  BY <1>1, <1>2, <1>5 DEF Heard, UnderWay
<1>7. Below(Numbers(stdin'), Numbers(toHandler'))
  BY <1>1, <1>2, <1>4, <1>5 DEF Below
<1> QED
  BY <1>1, <1>2, <1>3, <1>5, <1>6, <1>7 DEF KeysSound, KeysArrive

\* Any step keeps the keys sound.
LEMMA KeysSoundStep ==
  ASSUME ConsoleTyped, KeysSound, [ConsoleNext]_consoleVars
  PROVE  KeysSound'
<1>1. Rising(stdin) /\ Rising(toHandler) /\ Rising(toProxy)
  BY DEF KeysSound, KeysArrive
<1>2. CASE /\ UNCHANGED << keys, proxied, stdin, toHandler, toProxy >>
           /\ backend' = "closed" \/ backend # "closed" \/ UNCHANGED backend
  <2>1. CASE backend' = "closed" \/ backend # "closed"
    BY <1>1, <1>2, <2>1, KeysUndisturbed
  <2>2. CASE UNCHANGED backend
    BY <1>2, <2>2 DEF KeysSound, KeysArrive, Heard, UnderWay
  <2> QED
    BY <1>2, <2>1, <2>2
<1>3. CASE \/ PageOpens \/ PageHears \/ ProxyUpgrades \/ BackendOpens \/ BackendCloses
           \/ Upgrade \/ ExecInstance \/ GetControl \/ BashEnds
  BY <1>2, <1>3 DEF PageOpens, PageHears, ProxyUpgrades, BackendOpens, BackendCloses, Upgrade,
                    ExecInstance, GetControl, BashEnds, pageVars, handlerVars
<1>4. CASE PressKey
  BY <1>4, KeySent
<1>5. CASE FitAndResize
  <2>1. CASE ws = "open"
    <3>1. Frame("size", size') \in Frames /\ ~ IsKey(Frame("size", size'))
      BY <1>5, FramesTyped DEF FitAndResize, Frame, IsKey
    <3> QED
      BY <1>5, <2>1, <3>1, OtherSent DEF FitAndResize, pageVars, handlerVars
  <2>2. CASE ws # "open"
    BY <1>2, <1>5, <2>2 DEF FitAndResize, pageVars, handlerVars
  <2> QED
    BY <2>1, <2>2
<1>6. CASE LeavePage
  <2>1. Frame("close", 0) \in Frames /\ ~ IsKey(Frame("close", 0))
    BY FramesTyped DEF Frame, IsKey
  <2> QED
    BY <1>6, <2>1, OtherSent DEF LeavePage, pageVars, handlerVars
<1>7. CASE ProxyTakes
  <2>1. CASE IsKey(Head(toProxy)) /\ backend = "open"
    BY <1>7, <2>1, KeyPassed
  <2>2. CASE Head(toProxy).kind # "close" /\ backend # "open"
    BY <1>7, <2>2, KeyDropped
  <2>3. CASE ~ IsKey(Head(toProxy)) /\ (Head(toProxy).kind = "close" \/ backend = "open")
    <3>1. Numbers(toProxy') = Numbers(toProxy) /\ Rising(toProxy') /\ Head(toProxy) \in Frames
      BY <1>1, <1>7, <2>3, FrameTaken DEF ProxyTakes, ConsoleTyped
    <3>2. Numbers(toHandler') = Numbers(toHandler) /\ Rising(toHandler')
      BY <1>1, <1>7, <2>3, <3>1, FrameAppended DEF ProxyTakes, ConsoleTyped
    <3> QED
      BY <1>1, <1>7, <2>3, <3>1, <3>2, KeysUndisturbed DEF ProxyTakes, pageVars, handlerVars
  <2> QED
    BY <2>1, <2>2, <2>3 DEF IsKey
<1>8. CASE Relay
  <2>1. CASE IsKey(Head(toHandler))
    BY <1>8, <2>1, KeyRelayed
  <2>2. CASE ~ IsKey(Head(toHandler))
    <3>1. Numbers(toHandler') = Numbers(toHandler) /\ Rising(toHandler')
      BY <1>1, <1>8, <2>2, FrameTaken DEF Relay, ConsoleTyped
    <3>2. UNCHANGED << keys, proxied, stdin, toProxy, backend >>
      BY <1>8, <2>2 DEF Relay, IsKey, pageVars, handlerVars
    <3> QED
      BY <3>1, <3>2 DEF KeysSound, KeysArrive, Heard, UnderWay
  <2> QED
    BY <2>1, <2>2
<1>9. CASE UNCHANGED consoleVars
  BY <1>2, <1>9 DEF consoleVars
<1>10. ConsoleNext => KeysSound'
  BY <1>3, <1>4, <1>5, <1>6, <1>7, <1>8 DEF ConsoleNext
<1> QED
  BY <1>9, <1>10

\* The keys that the handler has heard are in order and in a row, and until the development
\* server's backend is closed nothing is missing of those behind them, for any number of keys
\* and of changes of the window: the two queues and bash's input are rising, each below the
\* next, and only the first of the keys under way can be dropped.
THEOREM KeysAreHeard == ConsoleSpec => []KeysArrive
<1>1. ConsoleInit => KeysSound
  <2>1. ASSUME ConsoleInit
        PROVE  Heard = {} /\ UnderWay = {} /\ Numbers(toProxy) = {} /\ 1..keys = {}
    BY <2>1 DEF ConsoleInit, Heard, UnderWay, Numbers
  <2>2. ASSUME ConsoleInit
        PROVE  Rising(stdin) /\ Rising(toHandler) /\ Rising(toProxy) /\ Numbers(stdin) = {}
    BY <2>2 DEF ConsoleInit, Rising, Numbers
  <2>3. ASSUME ConsoleInit
        PROVE  /\ Below(Numbers(stdin), Numbers(toHandler)) /\ Below(Heard, Numbers(toProxy))
               /\ InARow(Heard) /\ InARow(UnderWay)
    BY <2>1, <2>2, <2>3 DEF Below, InARow
  <2>4. ASSUME ConsoleInit
        PROVE  UnderWay \subseteq 1..keys /\ (UnderWay # {} => keys \in UnderWay) /\ Heard = 1..keys
    BY <2>1, <2>4
  <2> QED
    BY <2>2, <2>3, <2>4 DEF KeysSound, KeysArrive
<1>2. ConsoleTyped /\ KeysSound /\ [ConsoleNext]_consoleVars => KeysSound'
  BY KeysSoundStep
<1>3. KeysSound => KeysArrive
  BY DEF KeysSound
<1> QED
  BY <1>1, <1>2, <1>3, ConsoleTypeCorrect, PTL DEF ConsoleSpec
-----------------------------------------------------------------------------
(* The console: sizes *)

\* The close of the page is the last frame that it sends; a backend that is closed has an
\* ended handler, or everything from a page that is gone was taken; the goroutine that reads
\* has not begun before the wait for the control socket is over.
Closing ==
  /\ \A i \in 1..Len(toProxy) :
       toProxy[i].kind = "close" => i = Len(toProxy) /\ ws = "closed"
  /\ backend = "closed" => handler = "ended" \/ (toProxy = << >> /\ ws = "closed")
  /\ handler \notin {"relays", "ended"} => ~ control /\ ~ stdinClosed

\* Any step keeps the order of the closes.
LEMMA ClosingStep ==
  ASSUME ConsoleTyped, Closing, [ConsoleNext]_consoleVars
  PROVE  Closing'
<1> USE DEF pageVars, handlerVars
<1>1. ASSUME NEW f \in Frames, Send(f), ws # "closed", f.kind = "close" => ws' = "closed"
      PROVE  \A i \in 1..Len(toProxy') :
               toProxy'[i].kind = "close" => i = Len(toProxy') /\ ws' = "closed"
  <2>1. CASE ~ proxied
    BY <1>1, <2>1 DEF Send, ConsoleTyped
  <2>2. CASE proxied
    <3>1. \A i \in 1..Len(toProxy) : toProxy[i].kind # "close"
      BY <1>1 DEF Closing
    <3>2. toProxy' = Append(toProxy, f) /\ toProxy \in Seq(Frames)
      BY <1>1, <2>2 DEF Send, ConsoleTyped
    <3> QED
      BY <1>1, <3>1, <3>2
  <2> QED
    BY <2>1, <2>2
<1>2. CASE PressKey
  <2>1. Frame("key", keys + 1) \in Frames /\ Frame("key", keys + 1).kind = "key"
    BY FramesTyped DEF Frame
  <2> QED
    BY <1>1, <1>2, <2>1 DEF PressKey, Closing
<1>3. CASE FitAndResize
  <2>1. Frame("size", size') \in Frames /\ Frame("size", size').kind = "size"
    BY <1>3, FramesTyped DEF FitAndResize, Frame
  <2>2. CASE ws = "open"
    BY <1>1, <1>3, <2>1, <2>2 DEF FitAndResize, Closing
  <2>3. CASE ws # "open"
    BY <1>3, <2>3 DEF FitAndResize, Closing
  <2> QED
    BY <2>2, <2>3
<1>4. CASE LeavePage
  <2>1. Frame("close", 0) \in Frames
    BY FramesTyped
  <2> QED
    BY <1>1, <1>4, <2>1 DEF LeavePage, Closing
<1>5. CASE ProxyTakes
  <2> DEFINE rest == Tail(toProxy)
  <2>1. /\ toProxy' = rest /\ Len(rest) \in Nat /\ Len(toProxy) = Len(rest) + 1
        /\ \A i \in 1..Len(rest) : rest[i] = toProxy[i + 1]
        /\ Head(toProxy) = toProxy[1] /\ (Len(rest) = 0 => rest = << >>)
    BY <1>5 DEF ProxyTakes, ConsoleTyped
  <2> HIDE DEF rest
  <2>2. \A i \in 1..Len(rest) : rest[i].kind = "close" => i = Len(rest) /\ ws = "closed"
    <3>1. \A i \in 1..Len(rest) : i + 1 \in 1..Len(toProxy) /\ (i + 1 = Len(toProxy) => i = Len(rest))
      BY <2>1
    <3> QED
      BY <2>1, <3>1 DEF Closing
  <2>3. CASE Head(toProxy).kind = "close"
    <3>1. 1 \in 1..Len(toProxy)
      BY <2>1
    <3>2. Len(toProxy) = 1 /\ ws = "closed"
      BY <2>1, <2>3, <3>1 DEF Closing
    <3> QED
      BY <1>5, <2>1, <2>2, <3>2 DEF ProxyTakes, Closing
  <2>4. CASE Head(toProxy).kind # "close"
    BY <1>5, <2>1, <2>2, <2>4 DEF ProxyTakes, Closing
  <2> QED
    BY <2>3, <2>4
<1>6. CASE PageOpens \/ PageHears
  BY <1>6 DEF PageOpens, PageHears, Closing
<1>7. CASE ProxyUpgrades \/ BackendOpens \/ BackendCloses
  BY <1>7 DEF ProxyUpgrades, BackendOpens, BackendCloses, Closing
<1>8. CASE Upgrade \/ ExecInstance \/ GetControl \/ BashEnds
  BY <1>8 DEF Upgrade, ExecInstance, GetControl, BashEnds, Closing
<1>9. CASE Relay
  BY <1>9 DEF Relay, Reads, Closing
<1>10. CASE UNCHANGED consoleVars
  BY <1>10 DEF consoleVars, Closing
<1> QED
  BY <1>2, <1>3, <1>4, <1>5, <1>6, <1>7, <1>8, <1>9, <1>10 DEF ConsoleNext

\* The page's size is the last that is on its way, or what bash's terminal has.
SizeComes ==
  \/ SizeLast(toProxy, size)
  \/ NoSize(toProxy) /\ SizeLast(toHandler, size)
  \/ NoSize(toProxy) /\ NoSize(toHandler) /\ termSize = size

\* It is, as long as somebody may still listen; and the development server drops no size
\* but one that the page knows to be early.
SizesUnderWay ==
  /\ proxied /\ backend \in {"none", "connecting"} /\ ~ early => NoSize(toProxy)
  /\ ~ early /\ handler # "ended" /\ ~ stdinClosed /\ (handler = "relays" => control)
       => SizeComes

\* Other frames than sizes disturb no size.
LEMMA OtherSizes ==
  ASSUME ConsoleTyped, SizesUnderWay, NEW f \in Frames, ~ IsSize(f), Send(f),
         UNCHANGED << proxied, size, early, backend, handlerVars >>
  PROVE  SizesUnderWay'
<1>1. toProxy \in Seq(Frames) /\ toHandler \in Seq(Frames)
  BY DEF ConsoleTyped
<1>2. CASE proxied
  <2>1. toProxy' = Append(toProxy, f) /\ toHandler' = toHandler
    BY <1>2 DEF Send
  <2>2. NoSize(toProxy) => NoSize(toProxy')
    BY <1>1, <2>1, FrameAppended
  <2>3. SizeLast(toProxy, size) => SizeLast(toProxy', size)
    BY <1>1, <2>1, FrameAppended
  <2> QED
    BY <2>1, <2>2, <2>3 DEF SizesUnderWay, SizeComes, handlerVars
<1>3. CASE ~ proxied
  <2>1. toHandler' = Append(toHandler, f) /\ toProxy' = toProxy
    BY <1>3 DEF Send
  <2>2. NoSize(toHandler) => NoSize(toHandler')
    BY <1>1, <2>1, FrameAppended
  <2>3. SizeLast(toHandler, size) => SizeLast(toHandler', size)
    BY <1>1, <2>1, FrameAppended
  <2> QED
    BY <2>1, <2>2, <2>3 DEF SizesUnderWay, SizeComes, handlerVars
<1> QED
  BY <1>2, <1>3

\* Any step keeps the sizes under way.
LEMMA SizesStep ==
  ASSUME ConsoleTyped, Closing, SizesUnderWay, [ConsoleNext]_consoleVars
  PROVE  SizesUnderWay'
<1> USE DEF pageVars, handlerVars
<1>1. toProxy \in Seq(Frames) /\ toHandler \in Seq(Frames)
  BY DEF ConsoleTyped
<1>2. CASE PressKey
  <2>1. Frame("key", keys + 1) \in Frames /\ ~ IsSize(Frame("key", keys + 1))
    BY FramesTyped DEF Frame, IsSize
  <2> QED
    BY <1>2, <2>1, OtherSizes DEF PressKey
<1>3. CASE LeavePage
  <2>1. Frame("close", 0) \in Frames /\ ~ IsSize(Frame("close", 0))
    BY FramesTyped DEF Frame, IsSize
  <2> QED
    BY <1>3, <2>1, OtherSizes DEF LeavePage
<1>4. CASE FitAndResize
  <2> DEFINE f == Frame("size", size')
  <2>1. f \in Frames /\ IsSize(f) /\ f.n = size'
    BY <1>4, FramesTyped DEF FitAndResize, Frame, IsSize
  <2> HIDE DEF f
  <2>2. CASE early'
    BY <2>2 DEF SizesUnderWay
  <2>3. CASE ~ early'
    <3>1. Send(f) /\ (proxied => backend = "open") /\ UNCHANGED << proxied, backend >>
      BY <1>4, <2>3 DEF FitAndResize, f
    <3>2. CASE proxied
      <4>1. SizeLast(toProxy', size')
        BY <1>1, <2>1, <3>1, <3>2, FrameAppended DEF Send
      <4> QED
        BY <3>1, <3>2, <4>1 DEF SizesUnderWay, SizeComes
    <3>3. CASE ~ proxied
      <4>1. SizeLast(toHandler', size')
        BY <1>1, <2>1, <3>1, <3>3, FrameAppended DEF Send
      <4>2. NoSize(toProxy')
        BY <3>1, <3>3 DEF Send, ConsoleTyped, NoSize
      <4> QED
        BY <3>1, <3>3, <4>1, <4>2 DEF SizesUnderWay, SizeComes
    <3> QED
      BY <3>2, <3>3
  <2> QED
    BY <2>2, <2>3
<1>5. CASE ProxyTakes
  <2> DEFINE f == Head(toProxy)
             rest == Tail(toProxy)
  <2>1. /\ toProxy' = rest /\ proxied /\ f \in Frames
        /\ NoSize(toProxy) => ~ IsSize(f) /\ NoSize(rest)
        /\ SizeLast(toProxy, size)
             => SizeLast(rest, size) \/ (IsSize(f) /\ f.n = size /\ NoSize(rest))
        /\ UNCHANGED << proxied, size, early, handler, stdinClosed, control, termSize >>
    BY <1>1, <1>5, FrameTaken DEF ProxyTakes
  <2>2. CASE f.kind = "close" \/ backend = "open"
    <3>1. /\ toHandler' = Append(toHandler, f)
          /\ backend' \in {"open", "closed"}
      BY <1>5, <2>2 DEF ProxyTakes
    <3>2. /\ ~ IsSize(f) /\ SizeLast(toHandler, size) => SizeLast(toHandler', size)
          /\ ~ IsSize(f) /\ NoSize(toHandler) => NoSize(toHandler')
          /\ IsSize(f) => SizeLast(toHandler', f.n)
      BY <1>1, <2>1, <3>1, FrameAppended
    <3>3. SizeComes => SizeComes'
      BY <2>1, <3>2 DEF SizeComes
    <3> QED
      BY <2>1, <3>1, <3>3 DEF SizesUnderWay
  <2>3. CASE f.kind # "close" /\ backend = "connecting"
    <3>1. toHandler' = toHandler /\ backend' = backend
      BY <1>5, <2>3 DEF ProxyTakes
    <3>2. ASSUME ~ early PROVE NoSize(toProxy) /\ NoSize(rest) /\ ~ SizeLast(toProxy, size)
      BY <2>1, <2>3, <3>2 DEF SizesUnderWay, NoSize, SizeLast
    <3> QED
      BY <2>1, <3>1, <3>2 DEF SizesUnderWay, SizeComes
  <2>4. CASE f.kind # "close" /\ backend = "closed"
    BY <1>5, <2>1, <2>4 DEF ProxyTakes, Closing, SizesUnderWay
  <2> QED
    BY <1>5, <2>2, <2>3, <2>4 DEF ProxyTakes, ConsoleTyped
<1>6. CASE Relay
  <2> DEFINE f == Head(toHandler)
             rest == Tail(toHandler)
  <2>1. /\ toHandler' = rest /\ f \in Frames
        /\ NoSize(toHandler) => ~ IsSize(f) /\ NoSize(rest)
        /\ SizeLast(toHandler, size)
             => SizeLast(rest, size) \/ (IsSize(f) /\ f.n = size /\ NoSize(rest))
        /\ UNCHANGED << proxied, size, early, toProxy, backend, handler, control >>
        /\ termSize' = IF IsSize(f) /\ control THEN f.n ELSE termSize
        /\ handler = "relays" /\ ~ stdinClosed
    BY <1>1, <1>6, FrameTaken DEF Relay, Reads, IsSize
  <2>2. control /\ SizeComes => SizeComes'
    BY <2>1 DEF SizeComes
  <2> QED
    BY <2>1, <2>2 DEF SizesUnderWay
<1>7. CASE PageOpens \/ PageHears \/ ProxyUpgrades \/ BackendOpens \/ BackendCloses
  <2>1. UNCHANGED << toProxy, toHandler, proxied, handlerVars >>
    BY <1>7 DEF PageOpens, PageHears, ProxyUpgrades, BackendOpens, BackendCloses
  <2>2. early => early'
    BY <1>7 DEF PageOpens, PageHears, ProxyUpgrades, BackendOpens, BackendCloses
  <2>3. ~ early' => size' = size
    BY <1>7 DEF PageOpens, PageHears, ProxyUpgrades, BackendOpens, BackendCloses
  <2>4. backend' \in {"none", "connecting"} => backend \in {"none", "connecting"}
    BY <1>7 DEF PageOpens, PageHears, ProxyUpgrades, BackendOpens, BackendCloses
  <2> QED
    BY <2>1, <2>2, <2>3, <2>4 DEF SizesUnderWay, SizeComes
<1>8. CASE Upgrade \/ ExecInstance \/ GetControl \/ BashEnds
  <2>1. UNCHANGED << toProxy, toHandler, proxied, size, early, backend, stdinClosed, termSize >>
    BY <1>8 DEF Upgrade, ExecInstance, GetControl, BashEnds
  <2>2. /\ handler' # "ended" => handler \notin {"relays", "ended"}
    BY <1>8 DEF Upgrade, ExecInstance, GetControl, BashEnds
  <2> QED
    BY <2>1, <2>2 DEF SizesUnderWay, SizeComes
<1>9. CASE UNCHANGED consoleVars
  BY <1>9 DEF consoleVars, SizesUnderWay, SizeComes
<1> QED
  BY <1>2, <1>3, <1>4, <1>5, <1>6, <1>7, <1>8, <1>9 DEF ConsoleNext

\* What bash's terminal has when nothing is on its way is the size of the page's, for any
\* number of changes of the window: until then the last size sent is the page's.
THEOREM SizeIsFollowed == ConsoleSpec => []SizeFollows
<1>1. ConsoleInit => Closing /\ SizesUnderWay
  <2>1. ASSUME ConsoleInit PROVE NoSize(toProxy) /\ NoSize(toHandler) /\ termSize = size
    BY <2>1 DEF ConsoleInit, NoSize
  <2>2. ConsoleInit => Closing
    BY DEF ConsoleInit, Closing
  <2> QED
    BY <2>1, <2>2 DEF SizesUnderWay, SizeComes
<1>2. ConsoleTyped /\ Closing /\ SizesUnderWay /\ [ConsoleNext]_consoleVars
        => Closing' /\ SizesUnderWay'
  BY ClosingStep, SizesStep
<1>3. SizesUnderWay => SizeFollows
  <2>1. ASSUME SizesUnderWay, Reads, control, ~ early, toProxy = << >>, toHandler = << >>
        PROVE  termSize = size
    <3>1. ~ SizeLast(toProxy, size) /\ ~ SizeLast(toHandler, size)
      BY <2>1 DEF SizeLast
    <3> QED
      BY <2>1, <3>1 DEF SizesUnderWay, SizeComes, Reads
  <2> QED
    BY <2>1 DEF SizeFollows
<1> QED
  BY <1>1, <1>2, <1>3, ConsoleTypeCorrect, PTL DEF ConsoleSpec
-----------------------------------------------------------------------------
(* The console: its end *)

HasClose(frames) == \E i \in 1..Len(frames) : frames[i].kind = "close"

\* The handler is through with the browser, or a close is about to tell it.
HandlerLearns == handler = "ended" \/ stdinClosed \/ HasClose(toHandler)

\* A page that is gone has its close on the way, and a development server that gave up its
\* backend has passed the close on; no handler waits for a browser that will not say more.
CloseIsOnItsWay ==
  /\ ws = "closed" => HandlerLearns \/ HasClose(toProxy)
  /\ backend = "closed" => HandlerLearns

\* Frames that are still to be read, those before the development server twice.
Waiting == 2 * Len(toProxy) + Len(toHandler)

\* A page that is gone stays away, sends nothing, and what it has sent is only read.
QueuesRunOut ==
  ws = "closed" => /\ ws' = "closed" /\ Waiting' <= Waiting
                   /\ UNCHANGED << toProxy, toHandler >> \/ Waiting' < Waiting

\* What is appended to a queue keeps its closes.
LEMMA ClosesAppended ==
  ASSUME NEW frames \in Seq(Frames), NEW f \in Frames
  PROVE  HasClose(Append(frames, f)) <=> HasClose(frames) \/ f.kind = "close"
<1>1. ASSUME f.kind = "close" PROVE HasClose(Append(frames, f))
  <2>1. Len(frames) + 1 \in 1..Len(Append(frames, f)) /\ Append(frames, f)[Len(frames) + 1] = f
    OBVIOUS
  <2> QED
    BY <1>1, <2>1 DEF HasClose
<1>2. ASSUME HasClose(frames) PROVE HasClose(Append(frames, f))
  BY <1>2 DEF HasClose
<1>3. ASSUME HasClose(Append(frames, f)), f.kind # "close" PROVE HasClose(frames)
  BY <1>3 DEF HasClose
<1> QED
  BY <1>1, <1>2, <1>3

\* What is taken from the front of a queue is its first frame, and the rest has the other
\* closes.
LEMMA ClosesTaken ==
  ASSUME NEW frames \in Seq(Frames), frames # << >>
  PROVE  /\ Head(frames) \in Frames /\ Tail(frames) \in Seq(Frames)
         /\ Len(Tail(frames)) = Len(frames) - 1
         /\ HasClose(frames) => Head(frames).kind = "close" \/ HasClose(Tail(frames))
<1>1. /\ Head(frames) = frames[1] /\ frames[1] \in Frames
      /\ Tail(frames) \in Seq(Frames) /\ Len(Tail(frames)) = Len(frames) - 1
  OBVIOUS
<1>2. \A i \in 1..Len(frames) : i # 1 => i - 1 \in 1..Len(Tail(frames)) /\ Tail(frames)[i - 1] = frames[i]
  OBVIOUS
<1> QED
  BY <1>1, <1>2 DEF HasClose

\* Any step keeps the close on its way.
LEMMA CloseStep ==
  ASSUME ConsoleTyped, CloseIsOnItsWay, [ConsoleNext]_consoleVars
  PROVE  CloseIsOnItsWay'
<1> USE DEF pageVars, handlerVars
<1>1. toProxy \in Seq(Frames) /\ toHandler \in Seq(Frames)
  BY DEF ConsoleTyped
<1>2. ASSUME NEW f \in Frames, Send(f), UNCHANGED << backend, handler, stdinClosed >>,
             ws' = ws \/ f.kind = "close"
      PROVE  CloseIsOnItsWay'
  <2>1. CASE proxied
    <3>1. toProxy' = Append(toProxy, f) /\ toHandler' = toHandler
      BY <1>2, <2>1 DEF Send
    <3>2. HasClose(toProxy') <=> HasClose(toProxy) \/ f.kind = "close"
      BY <1>1, <3>1, ClosesAppended
    <3> QED
      BY <1>2, <3>1, <3>2 DEF CloseIsOnItsWay, HandlerLearns, HasClose
  <2>2. CASE ~ proxied
    <3>1. toHandler' = Append(toHandler, f) /\ toProxy' = toProxy
      BY <1>2, <2>2 DEF Send
    <3>2. HasClose(toHandler') <=> HasClose(toHandler) \/ f.kind = "close"
      BY <1>1, <3>1, ClosesAppended
    <3> QED
      BY <1>2, <3>1, <3>2 DEF CloseIsOnItsWay, HandlerLearns, HasClose
  <2> QED
    BY <2>1, <2>2
<1>3. CASE PressKey
  BY <1>2, <1>3, FramesTyped DEF PressKey
<1>4. CASE FitAndResize
  <2>1. CASE ws = "open"
    BY <1>2, <1>4, <2>1, FramesTyped DEF FitAndResize
  <2>2. CASE ws # "open"
    BY <1>4, <2>2 DEF FitAndResize, CloseIsOnItsWay, HandlerLearns, HasClose
  <2> QED
    BY <2>1, <2>2
<1>5. CASE LeavePage
  <2>1. Frame("close", 0) \in Frames /\ Frame("close", 0).kind = "close"
    BY FramesTyped DEF Frame
  <2> QED
    BY <1>2, <1>5, <2>1 DEF LeavePage
<1>6. CASE ProxyTakes
  <2> DEFINE frame == Head(toProxy)
  <2>1. /\ frame \in Frames
        /\ HasClose(toProxy) => frame.kind = "close" \/ HasClose(toProxy')
    BY <1>1, <1>6, ClosesTaken DEF ProxyTakes
  <2>2. toHandler' = Append(toHandler, frame) \/ (frame.kind # "close" /\ toHandler' = toHandler)
    BY <1>6 DEF ProxyTakes
  <2>3. HasClose(toHandler) \/ frame.kind = "close" => HasClose(toHandler')
    BY <1>1, <2>1, <2>2, ClosesAppended
  <2>4. /\ UNCHANGED << ws, handler, stdinClosed >>
        /\ backend' = backend \/ frame.kind = "close"
    BY <1>6 DEF ProxyTakes
  <2> QED
    BY <2>1, <2>3, <2>4 DEF CloseIsOnItsWay, HandlerLearns
<1>7. CASE Relay
  <2>1. /\ HasClose(toHandler) => Head(toHandler).kind = "close" \/ HasClose(toHandler')
        /\ stdinClosed' = (Head(toHandler).kind = "close")
        /\ ~ stdinClosed
        /\ UNCHANGED << ws, handler, backend, toProxy >>
    BY <1>1, <1>7, ClosesTaken DEF Relay, Reads
  <2> QED
    BY <2>1 DEF CloseIsOnItsWay, HandlerLearns, HasClose
<1>8. CASE PageHears
  BY <1>8 DEF PageHears, CloseIsOnItsWay, HandlerLearns, HasClose
<1>9. CASE PageOpens \/ ProxyUpgrades \/ BackendOpens \/ BackendCloses
  BY <1>9 DEF PageOpens, ProxyUpgrades, BackendOpens, BackendCloses, CloseIsOnItsWay,
              HandlerLearns, HasClose
<1>10. CASE Upgrade \/ ExecInstance \/ GetControl \/ BashEnds
  BY <1>10 DEF Upgrade, ExecInstance, GetControl, BashEnds, CloseIsOnItsWay, HandlerLearns, HasClose
<1>11. CASE UNCHANGED consoleVars
  BY <1>11 DEF consoleVars, CloseIsOnItsWay, HandlerLearns, HasClose
<1> QED
  BY <1>3, <1>4, <1>5, <1>6, <1>7, <1>8, <1>9, <1>10, <1>11 DEF ConsoleNext

\* The close of a page that is gone is never lost, in a queue or in the development server:
\* until the handler has ended or closed bash's input, it is on its way.
THEOREM CloseIsNeverLost == ConsoleSpec => []CloseIsOnItsWay
<1>1. ConsoleInit => CloseIsOnItsWay
  BY DEF ConsoleInit, CloseIsOnItsWay
<1>2. ConsoleTyped /\ CloseIsOnItsWay /\ [ConsoleNext]_consoleVars => CloseIsOnItsWay'
  BY CloseStep
<1> QED
  BY <1>1, <1>2, ConsoleTypeCorrect, PTL DEF ConsoleSpec

\* Nor does it wait for ever behind other frames: a page that is gone sends no more, and every
\* step of the development server and of the handler on its queue leaves fewer to be read.
THEOREM GonePageIsReadOut == ConsoleSpec => [][QueuesRunOut]_consoleVars
<1> USE DEF pageVars, handlerVars
<1>1. ASSUME ConsoleTyped, [ConsoleNext]_consoleVars, ws = "closed"
      PROVE  QueuesRunOut
  <2>1. toProxy \in Seq(Frames) /\ toHandler \in Seq(Frames)
    BY <1>1 DEF ConsoleTyped
  <2>2. CASE ProxyTakes
    <3>1. /\ Head(toProxy) \in Frames /\ Len(toProxy') = Len(toProxy) - 1
          /\ toHandler' \in {Append(toHandler, Head(toProxy)), toHandler} /\ ws' = ws
      BY <2>1, <2>2, ClosesTaken DEF ProxyTakes
    <3>2. Len(toHandler') \in {Len(toHandler), Len(toHandler) + 1}
      BY <2>1, <3>1
    <3>3. Len(toProxy) \in Nat /\ Len(toHandler) \in Nat
      BY <2>1
    <3> QED
      BY <1>1, <3>1, <3>2, <3>3 DEF QueuesRunOut, Waiting
  <2>3. CASE Relay
    <3>1. Len(toHandler') = Len(toHandler) - 1 /\ toProxy' = toProxy /\ ws' = ws
      BY <2>1, <2>3, ClosesTaken DEF Relay
    <3>2. Len(toProxy) \in Nat /\ Len(toHandler) \in Nat
      BY <2>1
    <3> QED
      BY <1>1, <3>1, <3>2 DEF QueuesRunOut, Waiting
  <2>4. CASE UNCHANGED << ws, toProxy, toHandler >>
    <3>1. Waiting \in Nat /\ Waiting' = Waiting
      BY <2>1, <2>4 DEF Waiting
    <3> QED
      BY <1>1, <2>4, <3>1 DEF QueuesRunOut
  <2>5. ~ PageOpens /\ ~ PressKey /\ ~ FitAndResize /\ ~ LeavePage /\ ~ PageHears
    BY <1>1 DEF PageOpens, PressKey, FitAndResize, LeavePage, PageHears
  <2>6. ProxyUpgrades \/ BackendOpens \/ BackendCloses => UNCHANGED << ws, toProxy, toHandler >>
    BY DEF ProxyUpgrades, BackendOpens, BackendCloses
  <2>7. Upgrade \/ ExecInstance \/ GetControl \/ BashEnds \/ UNCHANGED consoleVars
          => UNCHANGED << ws, toProxy, toHandler >>
    BY DEF Upgrade, ExecInstance, GetControl, BashEnds, consoleVars
  <2> QED
    BY <1>1, <2>2, <2>3, <2>4, <2>5, <2>6, <2>7 DEF ConsoleNext
<1>2. ConsoleTyped /\ [ConsoleNext]_consoleVars => QueuesRunOut
  BY <1>1 DEF QueuesRunOut
<1> QED
  BY <1>2, ConsoleTypeCorrect, PTL DEF ConsoleSpec
-----------------------------------------------------------------------------
(* The pages together *)

\* Parts that share nothing disturb one another in nothing: in the composition every dialog,
\* page and the store behave as they do alone.
THEOREM PartsKeepTheirSpecs ==
  Spec => FormsSpec /\ KeysSpec /\ ChartSpec /\ UsersSpec /\ ConsoleSpec /\ StoreSpec
<1>1. Init => FormsInit /\ KeysInit /\ ChartInit /\ UsersInit /\ ConsoleInit /\ StoreInit
  BY DEF Init
<1>2. [Next]_vars =>
        /\ [FormsNext]_formVars /\ [KeysNext]_keysVars /\ [ChartNext]_chartVars
        /\ [UsersNext]_usersVars /\ [ConsoleNext]_consoleVars /\ [StoreNext]_storeVars
  BY DEF Next, vars, ShowsForms, ShowsKeys, ShowsChart, ShowsUsers, ShowsConsole, StoreWorks
<1> QED
  BY <1>1, <1>2, PTL DEF Spec, FormsSpec, KeysSpec, ChartSpec, UsersSpec, ConsoleSpec, StoreSpec

\* What was proved of each part holds of the composition, with all its bounds left open.
THEOREM PagesHold ==
  Spec => [](/\ OwnAnswer /\ NoticeIsOwn /\ NoStaleBase /\ NothingLeftOver
             /\ TakesOnlyUnticked /\ PointsChain /\ CreatedIsListed
             /\ KeysArrive /\ SizeFollows /\ PromisedIsKept /\ DeletedStaysAway)
BY PartsKeepTheirSpecs, AnswersAreOwn, NoticesAreOwn, BaseIsNew, NothingIsLeftOver,
   OnlyUntickedTaken, ChartIsChain, CreatedAreListed, KeysAreHeard, SizeIsFollowed,
   PromisesAreKept, DeletionsStay, PTL
=============================================================================
