--------------------------- MODULE PanelDataProofs ---------------------------
(***************************************************************************)
(* Proofs about PanelData, for any visits and any number of changes by     *)
(* others, failures and retries: the types, and that a page shows what it  *)
(* was told had been done.                                                 *)
(***************************************************************************)
EXTENDS PanelData, TLAPS

-----------------------------------------------------------------------------
(* The table *)

\* What the proofs take from it: a mutation's own data are among what it refetches.
Refetched(c) == c.writes \in c.refetches

\* It is so for all kinds of mutations.
LEMMA RowsRefetched ==
  ASSUME NEW k
  PROVE  Refetched(RowOperation(k)) /\ Refetched(RowDeleted(k))
BY DEF Refetched, RowOperation, RowDeleted, Change

\* And for those written out.
LEMMA OthersRefetched ==
  /\ Refetched(CreateInstance) /\ Refetched(PullImage) /\ Refetched(RestoreSnapshot)
  /\ Refetched(CreateSnapshot) /\ Refetched(PutBandwidth) /\ Refetched(SetQuota)
  /\ Refetched(AddProxyRule) /\ Refetched(ApplyKeys) /\ Refetched(AddKey)
  /\ Refetched(CreatePlan) /\ Refetched(UpdatePlan) /\ Refetched(AddAllowedImage)
  /\ Refetched(CreateNetwork) /\ Refetched(UploadFile)
<1>1. /\ Refetched(CreateInstance) /\ Refetched(PullImage) /\ Refetched(RestoreSnapshot)
      /\ Refetched(CreateSnapshot) /\ Refetched(PutBandwidth) /\ Refetched(SetQuota)
      /\ Refetched(AddProxyRule)
  BY DEF Refetched, Change, CreateInstance, PullImage, RestoreSnapshot, CreateSnapshot,
     PutBandwidth, SetQuota, AddProxyRule
<1>2. /\ Refetched(ApplyKeys) /\ Refetched(AddKey)
      /\ Refetched(CreatePlan) /\ Refetched(UpdatePlan) /\ Refetched(AddAllowedImage)
      /\ Refetched(CreateNetwork) /\ Refetched(UploadFile)
  BY DEF Refetched, Change, ApplyKeys, AddKey, CreatePlan, UpdatePlan, AddAllowedImage,
     CreateNetwork, UploadFile
<1> QED
  BY <1>1, <1>2

\* So for every mutation of the table.
LEMMA TableRefetched == \A m \in Mutations : Refetched(Changes[m])
<1>1. /\ Refetched(ActionMutation) /\ Refetched(DeleteInstance) /\ Refetched(DeleteImage)
      /\ Refetched(DeleteSnapshot) /\ Refetched(UpdateConfig) /\ Refetched(ResetQuota)
      /\ Refetched(RemoveQuota) /\ Refetched(DeleteProxyRule) /\ Refetched(DeleteKey)
      /\ Refetched(DeletePlan) /\ Refetched(DeleteAllowedImage) /\ Refetched(DeleteNetwork)
      /\ Refetched(DeleteFile)
  BY RowsRefetched DEF ActionMutation, DeleteInstance, DeleteImage, DeleteSnapshot,
     UpdateConfig, ResetQuota, RemoveQuota, DeleteProxyRule, DeleteKey, DeletePlan,
     DeleteAllowedImage, DeleteNetwork, DeleteFile
<1> QED
  BY <1>1, OthersRefetched DEF Mutations, Changes

\* What a mutation changes and what it refetches are keys, and so is all a page uses.
LEMMA KeysOfTable ==
  /\ \A m \in Mutations : Writes(m) \in Keys /\ Changes[m].refetches \subseteq Keys
  /\ \A m \in Mutations : Writes(m) \in Changes[m].refetches
<1>1. \A m \in Mutations : Writes(m) \in Keys /\ Changes[m].refetches \subseteq Keys
  BY DataAssumption DEF Writes
<1>2. \A m \in Mutations : Writes(m) \in Changes[m].refetches
  BY TableRefetched DEF Writes, Refetched
<1> QED
  BY <1>1, <1>2

\* The list of operations is refetched by one of them.
LEMMA OperationsIsKey == "operations" \in Keys
<1>1. "createInstance" \in Mutations /\ Changes["createInstance"] = CreateInstance
  BY DEF Mutations, Changes
<1>2. "operations" \in CreateInstance.refetches
  BY DEF CreateInstance, Change
<1> QED
  BY <1>1, <1>2, KeysOfTable

\* The queries in use are queries.
LEMMA InUseKeys ==
  ASSUME visit \in Visits
  PROVE  InUse \subseteq Keys
<1>1. visit \subseteq Mutations
  BY VisitsAssumption
<1>2. UNION {{Writes(m)} \union Changes[m].refetches : m \in visit} \subseteq Keys
  BY <1>1, KeysOfTable
<1> QED
  BY <1>2, OperationsIsKey DEF InUse
-----------------------------------------------------------------------------
(* Types *)

QueriesTyped ==
  /\ cache \in [Keys -> Nat] /\ answer \in [Keys -> Nat] /\ tries \in [Keys -> Nat]
  /\ fetch \in [Keys -> {"idle", "asked", "answered"}]
  /\ invalid \in [Keys -> BOOLEAN]

\* A fetch that goes on keeps the types of the entries.
LEMMA FetchTyped ==
  ASSUME QueriesTyped, server \in [Keys -> Nat], NEW k \in Keys,
         Ask(k) \/ Answer(k) \/ Deliver(k) \/ Fail(k)
  PROVE  QueriesTyped'
<1>1. CASE Ask(k)
  BY <1>1 DEF Ask, QueriesTyped
<1>2. CASE Answer(k)
  BY <1>2 DEF Answer, QueriesTyped
<1>3. CASE Deliver(k)
  BY <1>3 DEF Deliver, QueriesTyped
<1>4. CASE Fail(k)
  BY <1>4 DEF Fail, QueriesTyped
<1> QED
  BY <1>1, <1>2, <1>3, <1>4

\* So does an invalidation.
LEMMA InvalidateTyped ==
  ASSUME QueriesTyped, NEW ks, Invalidate(ks)
  PROVE  QueriesTyped'
BY DEF Invalidate, QueriesTyped

\* A change on the server counts.
LEMMA ServerTyped ==
  ASSUME server \in [Keys -> Nat], NEW k \in Keys, ServerChanges(k)
  PROVE  server' \in [Keys -> Nat] /\ server[k] + 1 \in Nat
BY DEF ServerChanges

\* Any step keeps the types.
LEMMA TypeStep ==
  ASSUME TypeOK, [Next]_vars
  PROVE  TypeOK'
<1>0. QueriesTyped /\ visit \subseteq Mutations /\ InUse \subseteq Keys
  BY VisitsAssumption, InUseKeys DEF TypeOK, QueriesTyped
<1>1. ASSUME NEW m \in visit, Press(m) \/ Refuse(m) PROVE TypeOK'
  BY <1>0, <1>1 DEF Press, Refuse, TypeOK, queryVars, pullVars
<1>2. ASSUME NEW m \in visit, Serve(m) PROVE TypeOK'
  <2>1. m \in Mutations /\ Writes(m) \in Keys
    BY <1>0, KeysOfTable
  <2>2. server' \in [Keys -> Nat] /\ made' \in [Mutations -> Nat] /\ started' \subseteq Mutations
    BY <1>2, <2>1, ServerTyped DEF Serve, TypeOK
  <2> QED
    BY <1>2, <2>1, <2>2 DEF Serve, TypeOK, queryVars, pullVars
<1>3. ASSUME NEW m \in visit, Lose(m) PROVE TypeOK'
  BY <1>0, <1>3 DEF Lose, TypeOK, queryVars, pullVars
<1>4. ASSUME NEW m \in visit, OperationEnds(m) PROVE TypeOK'
  <2>1. m \in Mutations /\ Writes(m) \in Keys
    BY <1>0, KeysOfTable
  <2>2. server' \in [Keys -> Nat] /\ made' \in [Mutations -> Nat] /\ started' \subseteq Mutations
    BY <1>4, <2>1, ServerTyped DEF OperationEnds, TypeOK
  <2> QED
    BY <1>4, <2>1, <2>2 DEF OperationEnds, TypeOK, queryVars, pullVars
<1>5. ASSUME NEW m \in visit, Land(m) PROVE TypeOK'
  <2>1. QueriesTyped'
    <3>1. CASE Succeeds(m)
      BY <1>0, <3>1, InvalidateTyped DEF Succeeds
    <3>2. CASE Errs(m)
      BY <1>0, <3>2 DEF Errs, queryVars, QueriesTyped
    <3> QED
      BY <1>5, <3>1, <3>2 DEF Land
  <2>2. outcome' \in [Mutations -> {"none", "ok", "error"}] /\ raced' \in [Mutations -> BOOLEAN]
    BY <1>5 DEF Land, Succeeds, Errs, TypeOK, Loading
  <2> QED
    BY <1>0, <1>5, <2>1, <2>2 DEF Land, TypeOK, QueriesTyped, pullVars
<1>6. ASSUME NEW k \in InUse, QueryStep(k) PROVE TypeOK'
  <2>1. QueriesTyped'
    <3>1. Ask(k) \/ Answer(k) \/ Deliver(k) \/ Fail(k)
      BY <1>6 DEF QueryStep, Poll, Refocus, QueryAnswered, QueryDelivered, QueryFails
    <3> QED
      BY <1>0, <3>1, FetchTyped DEF TypeOK
  <2>2. pullTold' \in BOOLEAN /\ pullShown' \in BOOLEAN /\ fails' \in Nat
    <3>1. CASE UNCHANGED << pullVars, fails >>
      BY <3>1 DEF pullVars, TypeOK
    <3>2. CASE QueryAnswered(k)
      <4>1. pullShown' = pullShown /\ fails' = fails
        BY <3>2 DEF QueryAnswered
      <4>2. CASE k = "operations"
        <5>1. CASE "pullImage" \in started
          <6>1. pullTold' = TRUE
            BY <3>2, <4>2, <5>1 DEF QueryAnswered
          <6> QED
            BY <4>1, <6>1 DEF TypeOK
        <5>2. CASE "pullImage" \notin started
          <6>1. pullTold' = ("pullImage" \in started)
            BY <3>2, <4>2 DEF QueryAnswered
          <6>2. ("pullImage" \in started) = FALSE
            BY <5>2
          <6>3. pullTold' = FALSE
            BY <6>1, <6>2, Zenon
          <6> QED
            BY <4>1, <6>3 DEF TypeOK
        <5> QED
          BY <5>1, <5>2
      <4>3. CASE k # "operations"
        <5>1. pullTold' = pullTold
          BY <3>2, <4>3 DEF QueryAnswered
        <5> QED
          BY <4>1, <5>1 DEF TypeOK
      <4> QED
        BY <4>2, <4>3
    <3>3. CASE QueryDelivered(k)
      <4>1. pullTold' = pullTold /\ fails' = fails
        BY <3>3 DEF QueryDelivered
      <4>2. pullShown' \in BOOLEAN
        BY <3>3 DEF QueryDelivered, TypeOK
      <4> QED
        BY <4>1, <4>2 DEF TypeOK
    <3>4. CASE QueryFails(k)
      BY <3>4 DEF QueryFails, pullVars, TypeOK
    <3> QED
      BY <1>6, <3>1, <3>2, <3>3, <3>4 DEF QueryStep
  <2> QED
    BY <1>6, <2>1, <2>2 DEF QueryStep, QueriesTyped, TypeOK, mutationVars
<1>7. ASSUME NEW k \in InUse, OthersChange(k) PROVE TypeOK'
  <2>1. server' \in [Keys -> Nat]
    BY <1>0, <1>7, ServerTyped DEF OthersChange, TypeOK
  <2> QED
    BY <1>7, <2>1 DEF OthersChange, TypeOK, queryVars, mutationVars, pullVars
<1>8. CASE UNCHANGED vars
  BY <1>8 DEF vars, queryVars, TypeOK
<1> QED
  BY <1>1, <1>2, <1>3, <1>4, <1>5, <1>6, <1>7, <1>8 DEF Next, MutationStep

\* The behaviour begins with them.
LEMMA TypeInit ==
  ASSUME Init
  PROVE  TypeOK
BY DataAssumption DEF Init, QueryInit, TypeOK

\* Entries, requests and what the page was told keep to their types.
THEOREM TypeCorrect == Spec => []TypeOK
<1>1. Init => TypeOK
  BY TypeInit
<1>2. TypeOK /\ [Next]_vars => TypeOK'
  BY TypeStep
<1> QED
  BY <1>1, <1>2, PTL DEF Spec
-----------------------------------------------------------------------------
(* What the page shows of what it was told *)

\* What a step may do to an entry: end or begin its fetch, bring it the server's answer,
\* put the answer into it, or leave it, at most invalid.
Moved(k) ==
  \/ /\ cache'[k] = cache[k] /\ fetch'[k] # "answered"
     /\ invalid[k] => invalid'[k]
  \/ /\ cache'[k] = cache[k] /\ fetch'[k] = fetch[k] /\ answer'[k] = answer[k]
     /\ invalid[k] => invalid'[k]
  \/ /\ cache'[k] = cache[k] /\ answer'[k] = server[k]
     /\ invalid[k] => invalid'[k]
  \/ /\ cache'[k] = answer[k] /\ fetch[k] = "answered" /\ fetch'[k] # "answered"

\* Every way a fetch goes on is one of these, for all entries.
LEMMA FetchMoves ==
  ASSUME QueriesTyped, NEW k \in Keys, Ask(k) \/ Answer(k) \/ Deliver(k) \/ Fail(k),
         NEW j \in Keys
  PROVE  Moved(j)
<1>1. CASE Ask(k)
  BY <1>1 DEF Ask, QueriesTyped, Moved
<1>2. CASE Answer(k)
  BY <1>2 DEF Answer, QueriesTyped, Moved
<1>3. CASE Deliver(k)
  BY <1>3 DEF Deliver, QueriesTyped, Moved
<1>4. CASE Fail(k)
  BY <1>4 DEF Fail, QueriesTyped, Moved
<1> QED
  BY <1>1, <1>2, <1>3, <1>4

\* An invalidation begins the fetch anew, or leaves the first load alone.
LEMMA InvalidateMoves ==
  ASSUME QueriesTyped, NEW ks, Invalidate(ks), NEW j \in Keys
  PROVE  /\ Moved(j)
         /\ j \in ks => invalid'[j] /\ (~ Loading(j) => fetch'[j] = "asked")
BY DEF Invalidate, QueriesTyped, Moved

\* Entries are never newer than the server, nor newer than the answer to them.
Ordered(k) ==
  /\ cache[k] <= server[k]
  /\ fetch[k] = "answered" => cache[k] <= answer[k] /\ answer[k] <= server[k]

Reported(m) == outcome[m] = "ok" /\ Changes[m].effect = "done"

\* Once a change was reported, the answer that is coming has it, and so has an entry that
\* is not to be fetched again.
Coming(m) ==
  Reported(m) /\ ~ raced[m] =>
    /\ fetch[Writes(m)] = "answered" => made[m] <= answer[Writes(m)]
    /\ ~ invalid[Writes(m)] => made[m] <= cache[Writes(m)]

\* Only answers that have landed are reported, operations are not yet done, and a row's
\* button is pressed and answered when the page has the data.
Landed(m) ==
  /\ made[m] <= server[Writes(m)]
  /\ outcome[m] = "ok" => stage[m] = "landed"
  /\ m \in started => Changes[m].effect # "done"
  /\ Changes[m].from = "row" =>
       ~ raced[m] /\ (stage[m] # "unsent" => cache[Writes(m)] # NoData)

DataInvariant ==
  /\ \A k \in Keys : Ordered(k)
  /\ \A m \in Mutations : Landed(m) /\ Coming(m)

\* The entries stay in order.
LEMMA OrderKept ==
  ASSUME TypeOK, TypeOK', NEW k \in Keys, Ordered(k), Moved(k), server[k] <= server'[k]
  PROVE  Ordered(k)' /\ cache[k] <= cache'[k]
<1>1. /\ server[k] \in Nat /\ server'[k] \in Nat /\ cache[k] \in Nat /\ cache'[k] \in Nat
      /\ answer[k] \in Nat /\ answer'[k] \in Nat
  BY DEF TypeOK
<1> QED
  BY <1>1 DEF Ordered, Moved

\* What was reported keeps coming while its mutation does nothing more.
LEMMA ComingKept ==
  ASSUME TypeOK, TypeOK', NEW m \in Mutations, Ordered(Writes(m)), Landed(m), Coming(m),
         Moved(Writes(m)), Reported(m)' => Reported(m), raced'[m] = raced[m],
         Reported(m) => made'[m] = made[m]
  PROVE  Coming(m)'
<1> DEFINE k == Writes(m)
<1>1. k \in Keys /\ Writes(m)' = Writes(m)
  BY KeysOfTable DEF Writes
<1>2. /\ server[k] \in Nat /\ cache[k] \in Nat /\ cache'[k] \in Nat
      /\ answer[k] \in Nat /\ answer'[k] \in Nat /\ made[m] \in Nat /\ made'[m] \in Nat
  BY <1>1 DEF TypeOK
<1> SUFFICES ASSUME Reported(m)', ~ raced'[m]
             PROVE  /\ fetch'[k] = "answered" => made[m] <= answer'[k]
                    /\ ~ invalid'[k] => made[m] <= cache'[k]
  BY <1>1 DEF Coming
<1>3. /\ fetch[k] = "answered" => made[m] <= answer[k]
      /\ ~ invalid[k] => made[m] <= cache[k]
      /\ made[m] <= server[k]
  BY DEF Coming, Landed
<1> QED
  BY <1>2, <1>3 DEF Moved

\* A mutation that does nothing in a step keeps all of it.
LEMMA OthersKept ==
  ASSUME TypeOK, TypeOK', NEW m \in Mutations, Ordered(Writes(m)), Landed(m), Coming(m),
         Moved(Writes(m)), server[Writes(m)] <= server'[Writes(m)],
         stage'[m] = stage[m], outcome'[m] = outcome[m], raced'[m] = raced[m],
         made'[m] = made[m], m \in started' => m \in started
  PROVE  Landed(m)' /\ Coming(m)'
<1> DEFINE k == Writes(m)
<1>1. k \in Keys /\ Writes(m)' = Writes(m)
  BY KeysOfTable DEF Writes
<1>2. Coming(m)'
  BY ComingKept DEF Reported
<1>3. cache[k] <= cache'[k]
  BY <1>1, OrderKept
<1>4. /\ server[k] \in Nat /\ server'[k] \in Nat /\ cache[k] \in Nat /\ cache'[k] \in Nat
      /\ made[m] \in Nat /\ made'[m] \in Nat
  BY <1>1 DEF TypeOK
<1>5. made'[m] <= server'[k] /\ (cache[k] # NoData => cache'[k] # NoData)
  BY <1>3, <1>4, DataAssumption DEF Landed
<1>6. raced'[m] = raced[m] /\ stage'[m] = stage[m]
  OBVIOUS
<1>7. Changes[m].from = "row" =>
        ~ raced'[m] /\ (stage'[m] # "unsent" => cache'[k] # NoData)
  BY <1>5, <1>6 DEF Landed
<1> QED
  BY <1>1, <1>2, <1>5, <1>7 DEF Landed

\* A step that leaves the entries moves none of them.
LEMMA Still ==
  ASSUME UNCHANGED queryVars
  PROVE  \A j \in Keys : Moved(j)
BY DEF queryVars, Moved

\* A change on the server makes its data newer and leaves the rest.
LEMMA ServerGrows ==
  ASSUME TypeOK, NEW k \in Keys, ServerChanges(k)
  PROVE  /\ \A j \in Keys : server[j] <= server'[j]
         /\ server'[k] = server[k] + 1
BY DEF ServerChanges, TypeOK

\* What a step of a mutation does to the entries and to the server.
LEMMA MutationMoves ==
  ASSUME TypeOK, NEW m \in Mutations, MutationStep(m)
  PROVE  \A j \in Keys : Moved(j) /\ server[j] <= server'[j]
<1>0. QueriesTyped /\ Writes(m) \in Keys /\ \A j \in Keys : server[j] <= server[j]
  BY KeysOfTable DEF TypeOK, QueriesTyped
<1>1. CASE Press(m) \/ Refuse(m) \/ Lose(m)
  <2>1. server' = server /\ UNCHANGED queryVars
    BY <1>1 DEF Press, Refuse, Lose
  <2> QED
    BY <1>0, <2>1, Still
<1>2. CASE Serve(m) \/ OperationEnds(m)
  <2>1. UNCHANGED queryVars /\ (server' = server \/ ServerChanges(Writes(m)))
    BY <1>2 DEF Serve, OperationEnds
  <2>2. \A j \in Keys : server[j] <= server'[j]
    BY <1>0, <2>1, ServerGrows
  <2> QED
    BY <2>1, <2>2, Still
<1>3. CASE Land(m)
  <2>1. server' = server
    BY <1>3 DEF Land
  <2>2. \A j \in Keys : Moved(j)
    <3>1. CASE Succeeds(m)
      BY <1>0, <3>1, InvalidateMoves DEF Succeeds
    <3>2. CASE Errs(m)
      BY <3>2, Still DEF Errs
    <3> QED
      BY <1>3, <3>1, <3>2 DEF Land
  <2> QED
    BY <1>0, <2>1, <2>2
<1> QED
  BY <1>1, <1>2, <1>3 DEF MutationStep

\* Each mutation's own steps keep what is known of it.
LEMMA OwnStep ==
  ASSUME TypeOK, TypeOK', NEW m \in Mutations, Ordered(Writes(m)), Landed(m), Coming(m),
         MutationStep(m)
  PROVE  Landed(m)' /\ Coming(m)'
<1> DEFINE k == Writes(m)
<1>0. k \in Keys /\ Writes(m)' = Writes(m) /\ server[k] \in Nat /\ made[m] \in Nat
  BY KeysOfTable DEF Writes, TypeOK
<1>1. Moved(k) /\ server[k] <= server'[k] /\ cache[k] <= cache'[k]
  BY <1>0, MutationMoves, OrderKept
<1>2. cache[k] # NoData => cache'[k] # NoData
  BY <1>0, <1>1, DataAssumption DEF TypeOK
<1>3. ASSUME ~ Reported(m)', outcome'[m] # "ok" \/ stage'[m] = "landed",
             made'[m] <= server'[k], m \in started' => Changes[m].effect # "done",
             raced'[m] = raced[m],
             Changes[m].from = "row" => cache[k] # NoData
      PROVE  Landed(m)' /\ Coming(m)'
  <2>1. Coming(m)'
    BY <1>3 DEF Coming
  <2>2. Changes[m].from = "row" => ~ raced'[m] /\ cache'[k] # NoData
    BY <1>2, <1>3 DEF Landed
  <2> QED
    BY <1>0, <1>3, <2>1, <2>2 DEF Landed
<1>4. CASE Press(m)
  <2>1. outcome'[m] # "ok" /\ ~ Reported(m)'
    BY <1>4 DEF Press, Landed, Reported
  <2>2. Changes[m].from = "row" => cache[k] # NoData
    BY <1>4 DEF Press, Pressable
  <2>3. made'[m] = made[m] /\ server' = server /\ started' = started /\ raced' = raced
    BY <1>4 DEF Press
  <2> QED
    BY <1>3, <2>1, <2>2, <2>3 DEF Landed
<1>5. CASE Refuse(m) \/ Lose(m)
  <2>1. stage[m] \in {"sent", "answered"} /\ outcome' = outcome
    BY <1>5 DEF Refuse, Lose
  <2>2. outcome'[m] # "ok" /\ ~ Reported(m)'
    BY <2>1 DEF Landed, Reported
  <2>3. made' = made /\ server' = server /\ started' = started /\ raced' = raced
    BY <1>5 DEF Refuse, Lose
  <2> QED
    BY <1>3, <2>1, <2>2, <2>3 DEF Landed
<1>6. CASE Serve(m)
  <2>1. stage[m] = "sent" /\ outcome' = outcome /\ raced' = raced
    BY <1>6 DEF Serve
  <2>2. outcome'[m] # "ok" /\ ~ Reported(m)'
    BY <2>1 DEF Landed, Reported
  <2>3. made'[m] <= server'[k] /\ (m \in started' => Changes[m].effect # "done")
    <3>1. CASE Changes[m].effect = "done"
      <4>1. server'[k] = server[k] + 1 /\ made'[m] = server[k] + 1 /\ started' = started
        BY <1>0, <1>6, <3>1, ServerGrows DEF Serve, TypeOK
      <4> QED
        BY <1>0, <4>1 DEF Landed
    <3>2. CASE Changes[m].effect # "done"
      BY <1>6, <3>2 DEF Serve, Landed
    <3> QED
      BY <3>1, <3>2
  <2> QED
    BY <1>3, <2>1, <2>2, <2>3 DEF Landed
<1>7. CASE OperationEnds(m)
  <2>1. m \in started /\ Changes[m].effect # "done" /\ outcome' = outcome /\ raced' = raced
        /\ stage' = stage /\ m \notin started'
    BY <1>7 DEF OperationEnds, Landed
  <2>2. ~ Reported(m)'
    BY <2>1 DEF Reported
  <2>3. made'[m] <= server'[k]
    <3>1. CASE ServerChanges(k) /\ made' = [made EXCEPT ![m] = server[k] + 1]
      BY <1>0, <3>1, ServerGrows DEF TypeOK
    <3>2. CASE UNCHANGED << server, made >>
      BY <3>2 DEF Landed
    <3> QED
      BY <1>7, <3>1, <3>2 DEF OperationEnds
  <2>4. Coming(m)'
    BY <2>2 DEF Coming
  <2>5. Changes[m].from = "row" =>
          ~ raced'[m] /\ (stage'[m] # "unsent" => cache'[k] # NoData)
    BY <1>2, <2>1 DEF Landed
  <2> QED
    BY <1>0, <2>1, <2>3, <2>4, <2>5 DEF Landed
<1>8. CASE Land(m)
  <2>1. made' = made /\ server' = server /\ started' = started /\ stage'[m] = "landed"
    BY <1>8 DEF Land, TypeOK
  <2>2. CASE Errs(m)
    <3>1. outcome'[m] = "error" /\ raced' = raced /\ stage[m] # "unsent"
      BY <2>2 DEF Errs, TypeOK
    <3> QED
      BY <1>3, <2>1, <3>1 DEF Landed, Reported
  <2>3. CASE Succeeds(m)
    <3>1. stage[m] = "answered" /\ raced'[m] = Loading(k)
      BY <2>3 DEF Succeeds, Resolves, TypeOK
    <3>2. Changes[m].from = "row" => cache[k] # NoData /\ ~ Loading(k)
      BY <3>1 DEF Landed, Loading
    <3>3. k \in Changes[m].refetches /\ QueriesTyped
      BY KeysOfTable DEF TypeOK, QueriesTyped
    <3>4. ~ Loading(k) => invalid'[k] /\ fetch'[k] = "asked"
      BY <1>0, <2>3, <3>3, InvalidateMoves DEF Succeeds
    <3>5. Coming(m)'
      BY <1>0, <3>1, <3>4 DEF Coming
    <3>6. Changes[m].from = "row" => ~ raced'[m] /\ cache'[k] # NoData
      BY <1>2, <3>1, <3>2
    <3> QED
      BY <1>0, <2>1, <3>5, <3>6 DEF Landed
  <2> QED
    BY <1>8, <2>2, <2>3 DEF Land
<1> QED
  BY <1>4, <1>5, <1>6, <1>7, <1>8 DEF MutationStep

\* Any step keeps it.
LEMMA DataStep ==
  ASSUME TypeOK, TypeOK', DataInvariant, [Next]_vars
  PROVE  DataInvariant'
<1>0. QueriesTyped /\ visit \subseteq Mutations /\ InUse \subseteq Keys
  BY VisitsAssumption, InUseKeys DEF TypeOK, QueriesTyped
<1>1. ASSUME \A j \in Keys : Moved(j) /\ server[j] <= server'[j]
      PROVE  \A j \in Keys : Ordered(j)'
  BY <1>1, OrderKept DEF DataInvariant
<1>2. ASSUME \A j \in Keys : Moved(j) /\ server[j] <= server'[j],
             UNCHANGED << stage, outcome, raced, made, started >>
      PROVE  DataInvariant'
  <2>1. ASSUME NEW n \in Mutations PROVE Landed(n)' /\ Coming(n)'
    BY <1>2, KeysOfTable, OthersKept DEF DataInvariant
  <2> QED
    BY <1>1, <1>2, <2>1 DEF DataInvariant
<1>3. ASSUME NEW m \in visit, MutationStep(m) PROVE DataInvariant'
  <2>1. m \in Mutations /\ Writes(m) \in Keys
    BY <1>0, KeysOfTable
  <2>2. \A j \in Keys : Moved(j) /\ server[j] <= server'[j]
    BY <1>3, <2>1, MutationMoves
  <2>3. ASSUME NEW n \in Mutations \ {m}
        PROVE  /\ stage'[n] = stage[n] /\ outcome'[n] = outcome[n] /\ raced'[n] = raced[n]
               /\ made'[n] = made[n] /\ (n \in started' => n \in started)
    BY <1>3 DEF MutationStep, Press, Serve, Refuse, Lose, OperationEnds, Land, Succeeds, Errs,
       TypeOK
  <2>4. ASSUME NEW n \in Mutations PROVE Landed(n)' /\ Coming(n)'
    <3>1. Writes(n) \in Keys /\ Ordered(Writes(n)) /\ Landed(n) /\ Coming(n)
      BY KeysOfTable DEF DataInvariant
    <3>2. CASE n = m
      BY <1>3, <3>1, <3>2, OwnStep
    <3>3. CASE n # m
      BY <2>2, <2>3, <3>1, <3>3, OthersKept
    <3> QED
      BY <3>2, <3>3
  <2> QED
    BY <1>1, <2>2, <2>4 DEF DataInvariant
<1>4. ASSUME NEW k \in InUse, QueryStep(k) PROVE DataInvariant'
  <2>1. Ask(k) \/ Answer(k) \/ Deliver(k) \/ Fail(k)
    BY <1>4 DEF QueryStep, Poll, Refocus, QueryAnswered, QueryDelivered, QueryFails
  <2>2. server' = server /\ UNCHANGED << stage, outcome, raced, made, started >>
    BY <1>4 DEF QueryStep, mutationVars
  <2>3. \A j \in Keys : Moved(j) /\ server[j] <= server'[j]
    BY <1>0, <2>1, <2>2, FetchMoves DEF TypeOK
  <2> QED
    BY <1>2, <2>2, <2>3
<1>5. ASSUME NEW k \in InUse, OthersChange(k) PROVE DataInvariant'
  <2>1. UNCHANGED queryVars /\ UNCHANGED << stage, outcome, raced, made, started >>
    BY <1>5 DEF OthersChange, mutationVars
  <2>2. \A j \in Keys : Moved(j) /\ server[j] <= server'[j]
    BY <1>0, <1>5, <2>1, Still, ServerGrows DEF OthersChange
  <2> QED
    BY <1>2, <2>1, <2>2
<1>6. CASE UNCHANGED vars
  <2>1. UNCHANGED queryVars /\ UNCHANGED << stage, outcome, raced, made, started >>
        /\ server' = server
    BY <1>6 DEF vars
  <2>2. \A j \in Keys : Moved(j) /\ server[j] <= server'[j]
    BY <2>1, Still DEF TypeOK
  <2> QED
    BY <1>2, <2>1, <2>2
<1> QED
  BY <1>3, <1>4, <1>5, <1>6 DEF Next

\* The inductive invariant behind both: server, answer and entry are in order, and a
\* reported change is on its way into the entry or there.
LEMMA DataCorrect == Spec => []DataInvariant
<1>1. Init => DataInvariant
  <2> SUFFICES ASSUME Init
               PROVE  DataInvariant
    OBVIOUS
  <2>1. \A k \in Keys : Ordered(k)
    <3> TAKE k \in Keys
    <3>1. cache[k] = 0 /\ server[k] = 1 /\ fetch[k] = "asked"
      BY DataAssumption DEF Init, QueryInit
    <3> QED
      BY <3>1 DEF Ordered
  <2>2. ASSUME NEW m \in Mutations PROVE Landed(m) /\ Coming(m)
    <3>1. Writes(m) \in Keys
      BY KeysOfTable
    <3> QED
      BY <3>1 DEF Init, Landed, Coming, Reported
  <2> QED
    BY <2>1, <2>2 DEF DataInvariant
<1>2. TypeOK /\ TypeOK' /\ DataInvariant /\ [Next]_vars => DataInvariant'
  BY DataStep
<1> QED
  BY <1>1, <1>2, TypeCorrect, PTL DEF Spec

\* A page that was told that its change is made shows it, or fetches it again, whatever
\* else was fetched, answered, repeated or changed in between.
THEOREM WritesAreRead == Spec => []ReadYourWrites
<1>1. TypeOK /\ DataInvariant => ReadYourWrites
  BY DEF DataInvariant, Coming, Reported, ReadYourWrites, Fresh
<1> QED
  BY <1>1, DataCorrect, TypeCorrect, PTL

\* Next to a row it always does: the first load of the data is over by then.
THEOREM RowWritesAreShown == Spec => []RowWritesShown
<1>1. DataInvariant => RowWritesShown
  BY DEF DataInvariant, Landed, Coming, Reported, RowWritesShown, Fresh
<1> QED
  BY <1>1, DataCorrect, PTL
=============================================================================
