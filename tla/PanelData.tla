----------------------------- MODULE PanelData -----------------------------
(***************************************************************************)
(* What the pages show, and what their buttons change: the queries and the *)
(* mutations of src/web/src/pages, the answers of the API they get, and    *)
(* the cache between them.  The data of a query is the number of changes   *)
(* the server has made to it.                                              *)
(*                                                                         *)
(* A mutation is what useMutation is given: mutationFn names the endpoint  *)
(* and with it the data that is changed (writes), whether the handler has  *)
(* made the change when it answers or has only started an operation of     *)
(* Incus (effect), and whether its answer has a body (answer); onSuccess   *)
(* names the queries that are invalidated (refetches); and the page says   *)
(* when the button can be pressed: always, once the page has loaded, or    *)
(* only next to a row of the data (from).                                  *)
(***************************************************************************)
EXTENDS QueryCache, FiniteSets

CONSTANTS
  Visits,    \* sets of mutations that one user may use in a behaviour
  MaxOthers, \* changes made by anybody else: a bound
  MaxFails   \* requests that fail: a bound

Change(writes, effect, answers, refetches, from) ==
  [writes |-> writes, effect |-> effect, answer |-> answers, refetches |-> refetches,
   from |-> from]

\* Rows, which everybody has: asked for next to data, answered with an operation.
RowOperation(writes) == Change(writes, "operation", "body", {writes}, "row")

\* Rows again: done when answered, with 204 and no body.
RowDeleted(writes) == Change(writes, "done", "empty", {writes}, "row")

ActionMutation == RowOperation("instances")
DeleteInstance == RowOperation("instances")
CreateInstance == Change("instances", "done", "body", {"operations", "instances"}, "page")
DeleteImage == RowOperation("images")
PullImage == Change("images", "operation", "body", {"operations", "images"}, "page")
DeleteSnapshot == RowOperation("snapshots")
\* Pressed next to a row of the snapshots, for what another query shows.
RestoreSnapshot == Change("instance", "operation", "body", {"instance"}, "always")
CreateSnapshot == Change("snapshots", "operation", "body", {"snapshots"}, "always")
UpdateConfig == RowOperation("instance")
PutBandwidth == Change("bandwidth", "operation", "body", {"bandwidth"}, "always")
SetQuota == Change("quota", "done", "empty", {"quota"}, "always")
ResetQuota == RowDeleted("quota")
RemoveQuota == RowDeleted("quota")
AddProxyRule == Change("proxy-rules", "operation", "body", {"proxy-rules"}, "always")
DeleteProxyRule == RowOperation("proxy-rules")
ApplyKeys == Change("instance-ssh-keys", "done", "body", {"instance-ssh-keys"}, "always")
AddKey == Change("ssh-keys", "done", "body", {"ssh-keys"}, "page")
DeleteKey == RowDeleted("ssh-keys")
CreatePlan == Change("plans", "done", "body", {"plans"}, "always")
UpdatePlan == Change("plans", "done", "body", {"plans"}, "row")
DeletePlan == RowDeleted("plans")
AddAllowedImage == Change("allowed-images", "done", "body", {"allowed-images"}, "always")
DeleteAllowedImage == RowDeleted("allowed-images")
CreateNetwork == Change("networks", "done", "body", {"networks"}, "page")
DeleteNetwork == RowDeleted("networks")
\* These two without useMutation, and the upload without request, in the same order.
UploadFile == Change("files", "done", "body", {"files"}, "always")
DeleteFile == RowDeleted("files")

\* The changes a page offers, by name.
Changes ==
  [ action |-> ActionMutation, deleteInstance |-> DeleteInstance,
    createInstance |-> CreateInstance, deleteImage |-> DeleteImage,
    pullImage |-> PullImage, deleteSnapshot |-> DeleteSnapshot,
    restoreSnapshot |-> RestoreSnapshot, createSnapshot |-> CreateSnapshot,
    updateConfig |-> UpdateConfig, putBandwidth |-> PutBandwidth,
    setQuota |-> SetQuota, resetQuota |-> ResetQuota, removeQuota |-> RemoveQuota,
    addProxyRule |-> AddProxyRule, deleteProxyRule |-> DeleteProxyRule,
    applyKeys |-> ApplyKeys, addKey |-> AddKey, deleteKey |-> DeleteKey,
    createPlan |-> CreatePlan, updatePlan |-> UpdatePlan, deletePlan |-> DeletePlan,
    addAllowedImage |-> AddAllowedImage, deleteAllowedImage |-> DeleteAllowedImage,
    createNetwork |-> CreateNetwork, deleteNetwork |-> DeleteNetwork,
    uploadFile |-> UploadFile, deleteFile |-> DeleteFile ]
Mutations == DOMAIN Changes

ASSUME DataAssumption ==
  /\ NoData = 0
  /\ {Changes[m].writes : m \in Mutations} \union UNION {Changes[m].refetches : m \in Mutations}
       \subseteq Keys
ASSUME VisitsAssumption == Visits \subseteq SUBSET Mutations
ASSUME BoundsAssumption == MaxOthers \in Nat /\ MaxFails \in Nat

VARIABLES
  visit,      \* the mutations in use
  stage,      \* each request: unsent, sent, answered, refused, lost, landed
  started,    \* the operations Incus is running for them
  made,       \* the change each has made, 0 for none yet
  outcome,    \* what the page was told: none, ok, error
  raced,      \* it was told while the first load of the data was still in flight
  pullTold,   \* the last answer for the operations had a pull that runs
  pullShown,  \* so has the page's list of operations
  others,     \* changes by others so far
  fails       \* failures so far

vars == << server, queryVars, visit, stage, started, made, outcome, raced, pullTold,
           pullShown, others, fails >>
mutationVars == << visit, stage, started, made, outcome, raced >>
pullVars == << pullTold, pullShown >>

Writes(m) == Changes[m].writes

\* The queries of the pages on which the mutations are.
InUse ==
  LET touched == UNION {{Writes(m)} \union Changes[m].refetches : m \in visit} IN
  touched \union IF touched \intersect {"images", "instances"} # {} THEN {"operations"} ELSE {}

Init ==
  /\ server = [k \in Keys |-> 1]
  /\ QueryInit
  /\ visit \in Visits
  /\ stage = [m \in Mutations |-> "unsent"]
  /\ started = {}
  /\ made = [m \in Mutations |-> 0]
  /\ outcome = [m \in Mutations |-> "none"]
  /\ raced = [m \in Mutations |-> FALSE]
  /\ pullTold = FALSE /\ pullShown = FALSE
  /\ others = 0 /\ fails = 0

-----------------------------------------------------------------------------
\* The pages' buttons.

\* A row is there once its data is; a page that returns early while isLoading has no
\* buttons; the others always have theirs.
Pressable(m) ==
  CASE Changes[m].from = "row" -> cache[Writes(m)] # NoData
    [] Changes[m].from = "page" -> ~ Loading(Writes(m))
    [] OTHER -> TRUE

\* Each mutation is used once: a bound.
Press(m) ==
  /\ m \in visit /\ stage[m] = "unsent" /\ Pressable(m)
  /\ stage' = [stage EXCEPT ![m] = "sent"]
  /\ UNCHANGED << server, queryVars, visit, started, made, outcome, raced, pullVars,
                  others, fails >>

\* The server's data changes; made' is set by whoever calls it.
ServerChanges(k) == server' = [server EXCEPT ![k] = @ + 1]

\* The handler answers: with the change made, or with an operation that will make it.
Serve(m) ==
  /\ stage[m] = "sent"
  /\ stage' = [stage EXCEPT ![m] = "answered"]
  /\ IF Changes[m].effect = "done"
     THEN /\ ServerChanges(Writes(m))
          /\ made' = [made EXCEPT ![m] = server[Writes(m)] + 1]
          /\ UNCHANGED started
     ELSE /\ started' = started \union {m}
          /\ UNCHANGED << server, made >>
  /\ UNCHANGED << queryVars, visit, outcome, raced, pullVars, others, fails >>

Refuse(m) ==
  /\ stage[m] = "sent"
  /\ stage' = [stage EXCEPT ![m] = "refused"]
  /\ UNCHANGED << server, queryVars, visit, started, made, outcome, raced, pullVars,
                  others, fails >>

\* The connection breaks, before or after the server has done its part.
Lose(m) ==
  /\ stage[m] \in {"sent", "answered"} /\ fails < MaxFails
  /\ stage' = [stage EXCEPT ![m] = "lost"]
  /\ fails' = fails + 1
  /\ UNCHANGED << server, queryVars, visit, started, made, outcome, raced, pullVars, others >>

\* Incus ends an operation, with the change made or without.
OperationEnds(m) ==
  /\ m \in started
  /\ started' = started \ {m}
  /\ \/ ServerChanges(Writes(m)) /\ made' = [made EXCEPT ![m] = server[Writes(m)] + 1]
     \/ UNCHANGED << server, made >>
  /\ UNCHANGED << queryVars, visit, stage, outcome, raced, pullVars, others, fails >>

\* request: the answer's body is parsed whatever its status, and 204 has none, so
\* that json() throws and the caller is told of an error; so is it of any answer
\* that is not ok.
Resolves(m) == stage[m] = "answered" /\ Changes[m].answer = "body"

\* onSuccess without its invalidation.
ForgetsToRefetch(m) ==
  /\ stage[m] = "answered" /\ Changes[m].answer = "body"
  /\ outcome' = [outcome EXCEPT ![m] = "ok"]
  /\ raced' = [raced EXCEPT ![m] = Loading(Writes(m))]
  /\ UNCHANGED queryVars

\* onSuccess: the toast, and the queries to fetch again.
Succeeds(m) ==
  /\ Resolves(m)
  /\ outcome' = [outcome EXCEPT ![m] = "ok"]
  /\ raced' = [raced EXCEPT ![m] = Loading(Writes(m))]
  /\ Invalidate(Changes[m].refetches)

\* onError: a toast.
Errs(m) ==
  /\ stage[m] \in {"answered", "refused", "lost"} /\ ~ Resolves(m)
  /\ outcome' = [outcome EXCEPT ![m] = "error"]
  /\ UNCHANGED << queryVars, raced >>

Land(m) ==
  /\ Succeeds(m) \/ Errs(m)
  /\ stage' = [stage EXCEPT ![m] = "landed"]
  /\ UNCHANGED << server, visit, started, made, pullVars, others, fails >>
-----------------------------------------------------------------------------
\* The queries behind the pages.

\* refetchInterval: two lists and a quota are polled for ever.
AlwaysPolled == {"operations", "instances", "quota"}

\* The images are polled while the page's list of operations has a pull that runs.
Polled(k) == k \in AlwaysPolled \/ (k = "images" /\ pullShown)

Poll(k) == k \in InUse /\ Polled(k) /\ Ask(k)

\* The window gets the focus, or the page is opened again later than staleTime.
Refocus(k) == k \in InUse /\ Ask(k)

QueryAnswered(k) ==
  /\ k \in InUse /\ Answer(k)
  /\ pullTold' = IF k = "operations" THEN "pullImage" \in started ELSE pullTold
  /\ UNCHANGED << pullShown, fails >>

QueryDelivered(k) ==
  /\ k \in InUse /\ Deliver(k)
  /\ pullShown' = IF k = "operations" THEN pullTold ELSE pullShown
  /\ UNCHANGED << pullTold, fails >>

QueryFails(k) ==
  /\ k \in InUse /\ fails < MaxFails /\ Fail(k)
  /\ fails' = fails + 1
  /\ UNCHANGED pullVars

QueryStep(k) ==
  /\ \/ (Poll(k) \/ Refocus(k)) /\ UNCHANGED << pullVars, fails >>
     \/ QueryAnswered(k) \/ QueryDelivered(k) \/ QueryFails(k)
  /\ UNCHANGED << server, mutationVars, others >>

\* Other users, the monitor, Incus itself.
OthersChange(k) ==
  /\ k \in InUse /\ others < MaxOthers
  /\ others' = others + 1
  /\ ServerChanges(k)
  /\ UNCHANGED << queryVars, mutationVars, pullVars, fails >>

MutationStep(m) ==
  Press(m) \/ Serve(m) \/ Refuse(m) \/ Lose(m) \/ OperationEnds(m) \/ Land(m)

Next ==
  \/ \E m \in visit : MutationStep(m)
  \/ \E k \in InUse : QueryStep(k) \/ OthersChange(k)

Spec == Init /\ [][Next]_vars

\* Timers go off and requests come to an end; nobody need press a button, look at the
\* window or make a request fail, and what the server answers is up to it.
QueryMoves(k) ==
  /\ \/ Poll(k) /\ UNCHANGED << pullVars, fails >>
     \/ QueryAnswered(k) \/ QueryDelivered(k)
  /\ UNCHANGED << server, mutationVars, others >>
Fairness ==
  /\ \A k \in Keys : WF_vars(QueryMoves(k))
  /\ WF_vars(\E m \in visit : Land(m) \/ OperationEnds(m))

FairSpec == Spec /\ Fairness
-----------------------------------------------------------------------------
TypeOK ==
  /\ server \in [Keys -> Nat]
  /\ cache \in [Keys -> Nat] /\ answer \in [Keys -> Nat] /\ tries \in [Keys -> Nat]
  /\ fetch \in [Keys -> {"idle", "asked", "answered"}]
  /\ invalid \in [Keys -> BOOLEAN]
  /\ visit \in Visits /\ started \subseteq Mutations
  /\ stage \in [Mutations -> {"unsent", "sent", "answered", "refused", "lost", "landed"}]
  /\ made \in [Mutations -> Nat]
  /\ outcome \in [Mutations -> {"none", "ok", "error"}] /\ raced \in [Mutations -> BOOLEAN]
  /\ pullTold \in BOOLEAN /\ pullShown \in BOOLEAN
  /\ others \in Nat /\ fails \in Nat

\* The page shows a change that it was told had been made.
Fresh(m) ==
  outcome[m] = "ok" /\ Changes[m].effect = "done" /\ ~ invalid[Writes(m)]
    => cache[Writes(m)] >= made[m]

\* Read your writes: after the toast, an entry that is not waiting to be fetched again
\* has the change, whatever fetch was in flight when the answer came - unless it was
\* the first load of that data, which no invalidation stops.
ReadYourWrites == \A m \in Mutations : ~ raced[m] => Fresh(m)

\* Next to a row there is no first load left to race with: for these buttons the
\* change is always there.
RowWritesShown == \A m \in Mutations : Changes[m].from = "row" => Fresh(m)

\* Done when the answer came, and so read by the fetch that the answer sets off; or
\* made to data that is polled.
Followed(m) ==
  (outcome[m] = "ok" /\ Changes[m].effect = "done") \/ Writes(m) \in AlwaysPolled

FollowedShown ==
  \A m \in visit :
    made[m] # 0 /\ Followed(m) /\ ~ raced[m] => cache[Writes(m)] >= made[m]

\* Such a change is on the page in the end, without the user doing anything: one
\* failed fetch is repeated.  What a page shows never gets older, so that showing
\* all of them again and again is showing each for good.
ChangesShown == []<>FollowedShown

\* "完成后镜像列表将自动刷新": the list of images is fetched again when a pull is over.
PulledIsListed ==
  made["pullImage"] # 0 ~> cache["images"] >= made["pullImage"]

\* request<void>: what the server has done and answered is not reported as an error.
DoneIsReported ==
  \A m \in Mutations :
    stage[m] = "landed" /\ outcome[m] = "error" => made[m] = 0
=============================================================================
