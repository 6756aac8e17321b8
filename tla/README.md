# A TLA+ verification of incuspace

incuspace is a web panel for [Incus](https://linuxcontainers.org/incus/): a Go server that
sells containers by plan, with a pool of host ports, a traffic quota and a bandwidth limit for
each, and a React front end. This directory holds TLA+ models of its core and of the front end's
behaviour, TLC configurations that check them, and TLAPS proofs of the most important results.
Every definition was translated from the Go and TypeScript source; `PROJECT.json` maps it to the
lines it stands for.

## 1. Inventory

| Component | Source | State | Operations | What makes it hard | What makes it correct |
|---|---|---|---|---|---|
| Instance registration | `internal/instances/repo.go` | table `instances`, the port pool of the environment | `Create` (one transaction), `DeleteByName`, reads | concurrent calls, a stock read before the lock, rows of another pool after a restart, a pool of ten connections, lost commits | no port twice, no oversold plan, no false "exhausted", every call ends |
| Plans | `internal/plans`, `handler/plans.go` | table `plans` | create, update, delete, list | changes while a `Create` that read the old terms runs | a plan's stock bounds its instances |
| Provisioning | `handler/handler.go` 254-509 | `instances`, `quotas`, Incus, one goroutine per request | create, goroutine `applyBandwidthFromPlan`, `ReconcilePlanLimits`, delete, patch | two stores and no common transaction, compensation, etags, errors that end the only goroutine, restarts | quotas belong to rows, no start without limits, no lost change, a 202 is kept when no call fails |
| Traffic quota | `internal/quota`, `handler/quota.go` | table `quotas`, the monitor's locals | `tick`/`checkOne`, `Set`, `Reset`, `Delete` | counters that restart, a reading older than the transaction, `Set` in two statements, a crash before the action | exact accounting, an honest latch, overuse is noticed and acted on |
| Devices | `handler/bandwidth.go`, `handler/proxy.go` | the device map of an instance in Incus | bandwidth and proxy rules, read-modify-write with an etag | concurrent edits, inherited cards, a port range read earlier | no lost rule, ports inside the range |
| SSH keys | `internal/sshkeys` | a list in memory and a file | add, delete, list, select | failed writes, repeated calls, an end of the process while the file is rewritten | what was acknowledged is there after a restart, what was deleted is not |
| Users, tokens, ownership | `internal/users`, `internal/auth`, `handler/middleware.go`, `handler/users.go` | table `users`, signed tokens | login, create, delete, passwords, `OwnerCheck` | tokens that outlive their user, a row read before it is used | nobody acts on another user's instance |
| Allowed images | `internal/images` | table `allowed_images` | single statements | - | - |
| Console | `handler/handler.go` 634-739, `web/src/pages/ConsolePage.tsx`, `web/src/dev-server.ts` | two or three web sockets, a pipe, a goroutine | keys, sizes, close, relay | any side may end first, the control socket may come late or never | keys arrive in order, the size follows, either end ends the other |
| Snapshots, images, networks, storage, files | `handler/handler.go` | none | pass-through | - | - |
| Start-up | `cmd/incuspace/main.go`, `internal/db` | `schema_migrations` | `Migrate`, `bootstrapAdmin` | check-then-act by two processes | each migration once |
| Panel data | `web/src/main.tsx`, `lib/api.ts`, `pages/*.tsx` | the cache of react-query | queries, polls, mutations, invalidations | fetches in flight when a mutation is answered, first loads, failed fetches, operations that end later, answers without a body | what the page was told is done is shown, and comes to be shown |
| Dialogs and forms | `pages/*.tsx` | `useState` of components that outlive their dialog | open, type, submit, close | closing while an answer is on its way, data that change behind the form | an answer meets its own opening, no save on an old base, no leftovers |
| SSH key picker | `pages/InstanceDetailPage.tsx` 759-861, `handler/sshkeys.go` | ticks, set once | load, tick, apply | two queries in any order, failed reads, a file that is overwritten whole | only unticked keys are taken away |
| Live chart | `pages/InstanceDetailPage.tsx` 57-113 | last sample, points | a request every two seconds | overlapping answers, restarts of the instance | the points add up |
| User list | `pages/UsersPage.tsx` | its own list | reload, create, delete | overlapping reloads | the new user is listed |
| Installation | `scripts`, `systemd` | - | - | - | - |

How they interact: the handlers call the repositories (each statement or transaction goes to
PostgreSQL through one pool of ten connections) and Incus (a Unix socket; long operations are
accepted first and end later). `CreateInstance` leaves a goroutine behind. The monitor and
`ReconcilePlanLimits` are goroutines of the process itself. Nothing is shared in memory but the
SSH key list. The pages call the handlers through `lib/api.ts`; the console goes past it over a web
socket. So the hard behaviour is in the order of statements and calls of several
goroutines, and in what a failure or a restart leaves behind in two stores that know nothing of
each other.

## 2. Modules

| Module | What it is |
|---|---|
| `AtomicRegistry` | what registration promises, as one indivisible step |
| `Registration` | `Repo.Create` step by step, plan edits, deletions, restarts; implements `AtomicRegistry` |
| `MCRegistration` | small instances of it |
| `RegistrationProofs` | its theorems |
| `Provisioning` | an instance's life in PostgreSQL and Incus |
| `MCProvisioning` | small instances of it |
| `ProvisioningProofs` | its theorems |
| `AtomicMeter` | what the quota promises, as if counters were read and counted in one step |
| `QuotaMonitor` | the quota row, the monitor and the quota handlers of one instance; implements `AtomicMeter` |
| `QuotaProofs` | its theorems |
| `Devices` | the device maps of instances and all that rewrites them |
| `MCDevices` | a small instance of it |
| `DevicesProofs` | its theorems |
| `QueryCache` | what the pages take from react-query, with the panel's retries |
| `PanelData` | the queries and mutations of all pages over it, and the API's answers |
| `MCPanelData` | its instances: every mutation, alone and with another of the same data |
| `PanelDataProofs` | its theorems |
| `PageForms` | the thirteen dialogs and forms |
| `PageFormsProofs` | its theorems |
| `KeyPicker` | the SSH keys of an instance, page and handlers |
| `SSHKeys` | the panel's key store: list, lock and file |
| `SSHKeysProofs` | the theorems of `KeyPicker` and `SSHKeys` |
| `Chart` | the live chart |
| `UserList` | the list of users and the form that adds one |
| `Console` | terminal, development server, handler and bash |
| `MCPages` | `PageForms`, `KeyPicker`, `SSHKeys`, `Chart`, `UserList`, `Console`, one in a behaviour: they share nothing |
| `PagesProofs` | the theorems of `Chart`, `UserList`, `Console` and of the pages together |

Definitions whose comment names a mistake (`LockNotTaken`, `NoEtag`, `DeltaFromFirst`, ...) are
mutated forms of the definition that follows them. No specification uses them: they serve to
show that each checked property fails when the code has that mistake.

### Registration

A call is named by the id its row will get; `pc[c]` says how far it is: `asked` (the handler
read the plan), `waiting` (it holds a connection and waits for the advisory lock), `locked`,
`counted` (stock checked), `scanning` (the `SELECT` returned; `todo` and `cursor` are the loop's
variables), `found`, `committed` (connection given back), and the ends `registered`, `soldOut`,
`exhausted`, `failed`. `Visit` is one turn of `allocateRangeN`'s loop, `LastGap` what follows the
loop. The `SELECT` reads committed rows, and the lock is released by the commit, so what a call
sees is decided by who holds the lock. `Fail` may end a call at every statement; `Commit` may also
end in `failed`, when its acknowledgement is lost. `ReadBack` needs a connection again, as
`GetByName` does. `SetPlan`, `Unregister` and `Restart` happen at any time; `Restart` picks the
port pool of the new environment. `peak` is a history variable: the largest stock a plan was
ever given, the bound the code can keep, because it compares with a stock that may be outdated.

Ports of a plan are a number that may be zero or negative (`UpdatePlan` checks nothing);
`Need` falls back to the pool's own length then, as `Create` does. Names are left out: a
duplicate name is one of the errors of `Fail`.

### Provisioning

`row` and `quota` are the two tables, `inst`, `conf`, `running`, `op` and `dying` are Incus, and
`pc`, `dpc`, `task` are handlers and goroutines. Each call of a handler or goroutine may return an
error: `RegisterFails`, the second disjunct of `SetQuota`, `GivesUp` in `Wait`, `Get`, `Update` and
`Start`, and so on; where the answer may be what was lost, what the call was to do is done or not. An error ends
the goroutine, which nothing repeats. `erred` is a history variable: the requests whose goroutine got
one, or on whose instance another goroutine of the name did. A request stands for the instance it creates, so
that `inst[n]` says which generation of a name is there. The etag of `UpdateInstance` is
`EtagHolds`: the same generation with the same configuration as was read. A configuration is
what the properties tell apart: whether the limits are set, whether a user changed it.

Incus is external. Assumed of it: an operation it accepted ends in success or failure; an
instance cannot be read before its image is pulled; a name that is used or being created is
refused; a configuration change it accepted is in force at once (the code does not wait for the
operation of `UpdateInstance`).

### QuotaMonitor

`q` is the row, `mpc` the monitor (`idle`, `read` once it holds a reading, `act` once it has
decided), `spc`/`existing` the `PUT` handlers between `Set`'s two statements. `month` is the
calendar, which is all `sameMonth` looks at. `Read` is the state call of `checkOne`, `Count` the
transaction (`Delta`, `NewPeriod`, `Used`, `Latched`, `Triggers` are its parts), `CountFails` the
transaction that fails, after which `checkOne` still acts on what it decided. History: `since`
and `sinceRead` count the traffic since the last counted reading and since the one in hand;
`covered` is the traffic between the last time `used_bytes` was 0 and the last counted reading;
`stopped`, `detached` and `raced` record that counters went back, that an interface left, and
that a `Set` wrote back something outdated.

The abstract `AtomicMeter` knows no readings, no last sample, no latch and no crash: traffic
passes, a sample turns some of what is uncounted into `used`, and nothing else raises it. Under
`RefinesMeter`, `uncounted` is the total of `since`, `begun` says that the row was polled,
`steady` and `intact` that the counters never went back and that no interface left. A quota's
first sample may leave older traffic uncounted, because the reading may be older than the quota.

### Devices

Three handlers and two goroutines rewrite the device map of an instance, all in one pattern:
check something, `GetInstance`, change the map, `UpdateInstance` with the etag. A slot is one of
them. It begins with `PutBandwidth`, `AddOwnRule`, `AddAnyRule` (an admin, whose port is not
compared), `DeleteProxyRule`, `ApplyPlan` (the goroutine of `CreateInstance` once the create
operation has ended) or `ReconcileVisit`, then does `Get` and `Update`, or `Fail` on the way.
`NewNic` and `NewRules` say what each writes. `OwnCard` is the end of `PutBandwidth`: a card
without limits that equals `expanded_devices` is taken out of the map, anything else is put in.
A request of a user or an admin names its device, `proxy-<port>` or the card (port 0), and either
handler takes either: `DeleteProxyRule` of the card's name drops its override, and `PutBandwidth`
takes the `nic_name` it is given, so that without limits it drops the proxy rule of that name (limits
of a proxy rule are refused by Incus, and left out).

Instances are generations of a name: `inst[n]` is the one Incus has, `row[n]` the one the table
has. The two differ at times, because Incus is asked before the row is written, a creation whose
row is refused is deleted by name, and a deletion may do only one of its two halves. `Register`
stands for what module Registration proves, that the row's range meets no other.

`PortsApart` and `LimitsAsAsked` name exceptions, and the run fails without either. A request
checked against the row of one instance can reach the next one of that name (`Renamed`): the
check is on the row `OwnerCheck` read, the write goes by name. And a request for no limits falls
back to the profile's limits when it finds an override without any, so that clearing twice brings
back what clearing once took away (`BackToProfile`); the same if the profile was edited between
the read and the write, because the etag does not cover profiles.

### QueryCache and PanelData

`QueryCache` models a query as the page sees it: `server[k]` what the API would answer now (a
version number), `cache[k]` what the page shows, `fetch[k]` a request that is `asked` or already
`answered`, `answer[k]` the data on their way, `invalid[k]` and `tries[k]`. It is external but for
the one line of configuration in `main.tsx`, the retry. `Invalidate` gives up a fetch in flight and
starts another; a first load it cannot give up, so that its answer counts, however old.

`PanelData` says of every mutation of the pages what it writes, whether its handler has made the
change when it answers or has started an operation, whether the answer has a body, what its
`onSuccess` invalidates, and when its button is on the page. The action order is `Press`, `Serve`
or `Refuse` (or `Lose`, before or after the server did its part), `OperationEnds`, `Land`, which is
`onSuccess` or `onError`. `Resolves` is the end of `request`: only an answer with a body resolves.
Images are polled only while the operations the page last fetched contain a pull (`pullTold`,
`pullShown`). Every query of the pages of a mutation has an observer (`InUse`); each mutation is
pressed once.

`ReadYourWrites` excepts what was answered during the first load of the same data (`raced`). The
run fails without the exception: on pages that show their form before their list has come, a
mutation can be answered first, and the older list then stays until something else fetches it.
`RowWritesShown` says that buttons next to rows need no exception.

### PageForms

A form is a record: whether `handleOpenChange` looks at `isPending` (`guarded`), whether closing
empties the fields (`drops`), what opening puts into them (`fills`), what `onSuccess` does
(`success`, `clears`), whether the answer has a body, and whether its button is disabled meanwhile
(`once`). Components stay mounted, so fields, mutation and notice live on: `opening` counts, and a
submission remembers the opening it was sent from. `AsksToClose` is the snapshot dialog, whose
`onSuccess` calls `handleOpenChange` while the mutation may or may not count as pending still;
both outcomes are in the model.

### KeyPicker

`file` is the instance's `authorized_keys`, `keyLines` what the page got of it (`none`, a list, or
`null`), `selected` the ticks, set once (`initialized`). `Initialises` is the effect, which runs
after every step that changes what it depends on, and `Renders` whether the render that follows
fails. `disturbed` is a history variable: others wrote to the file, or the user pressed apply, or a
read failed or brought another list, before the ticks were set.

### SSHKeys

`listed` is `s.keys` and `onDisk` the file: missing, whole, or torn between `O_TRUNC` and the last
byte. `Add` and `Delete` take the lock and change the list; the write that follows, still under
the lock (`saving`), is `OpenFails`, or `Truncate` and then `Write` or `WriteFails`, so the process
can end (`Crash`) between any two of them. `NewStore` is the next start, and has no step for a torn
file: `main` ends the process again. `DeleteUnlisted` is a `Delete` that finds nothing and writes
nothing. `List` and `GetByIDs` copy `listed` under the read lock and change nothing. Keys are their
random ids, which never repeat. `promised`, `deleted` and `unsure` are history variables: what was
answered 201 and nobody has asked to delete, what was answered 204, and what failed or was cut off
since. `DeletedStaysAway` leaves out deletions that are `unsure`: after a deletion that failed, its
repetition is answered 204 without a write.

### Chart, UserList, Console

`Chart` draws pairs of samples, so that a point stands for the difference it shows; the traffic
counter stands for all counters. `UserList` keeps a version of the list, and reloads that are
answered out of order. `Console` is a direct connection or one through the development server
(`proxied`), whose `message` drops frames until its backend is open. `handler` goes from `execs`
through `waits` (up to five seconds for the control socket) to `relays` and `ended`; frames wait in
`toProxy` and `toHandler`, and `stdin` holds the key frames bash got. Keys are numbered, sizes are
members of a set. `KeysArrive` speaks of all keys bash has got or will get (`Heard`): in order, in
a row, whatever stands between them in the queues.

## 3. Runs

| Run | Bounds | What it shows |
|---|---|---|
| `registration` | 3 calls, 1 plan, 2 connections, pools of 4 and 2 ports, plans of 1, 3 or unlimited units | `RangesDisjoint`, `SoldWithinPeak`, `NoFalseExhaustion`, `LowestFit`, `SomebodyGoesOn`, the invariants behind them, and `RefinesAtomic` |
| `registration_live` | 3 calls, 2 connections, room for 2 | `EveryCallEnds` |
| `provisioning` | 2 requests for one name, 2 deletes, 1 restart, any number of errors | `QuotaHasRow`, `StartsLimited`, `PromiseInHand`, `PatchSurvives` |
| `provisioning_live` | 2 requests for one name, no restart; instances and rows are still deleted, by compensations and with their users | `AcceptedIsProvisioned` |
| `provisioning_autostart` (violation) | 1 request, a reconcile | `AutostartHappens` fails |
| `quota` | 1 PUT handler, limits 1 and 2, 2 bytes, 2 months, 1 crash | `NeverOvercounts`, `ExactWhileSteady`, `Accounting`, `LatchMeansOver`, `RefinesMeter` |
| `quota_live` | limits 0 and 1, all three actions, 1 byte, 1 crash | `OverIsNoticed` |
| `quota_stop` (violation) | limit 1, action stop, no crash | `OverIsStopped` fails |
| `devices` | 2 handlers or goroutines, 3 instances: two have one name in turn, with port 1 and port 2, the third has port 2; a profile with limits and one without; requests that no range is compared for name port 1 or the card | `TypeOK`, `DeviceInvariant`, `PortsApart`, `RulesSurvive`, `LimitsAsAsked` |
| `web_data` | each of 27 mutations alone, and with another one of the same data (or itself) but for instances and images; 1 change by others, 1 failure, 1 retry | `ReadYourWrites`, `RowWritesShown`, `ChangesShown` |
| `web_pages` | forms: 2 openings, 2 submissions, 3 versions of the data; keys: 2 and another line, 1 change by others; chart: 4 requests, 3 points, 1 byte; users: 4 versions, 2 submissions; console: 2 sizes, 3 keys, 2 resizes; key store: 3 keys, 2 ends of the process | `OwnAnswer`, `NoticeIsOwn`, `NoStaleBase`, `NothingLeftOver`, `TakesOnlyUnticked`, `PointsChain`, `CreatedIsListed`, `KeysArrive`, `SizeFollows`, `PromisedIsKept`, `DeletedStaysAway`, `ConsoleEnds` |
| `web_reported` (violation) | deletion of a network | `DoneIsReported` fails |

Why these bounds are enough to be interesting. Three calls give a holder of the lock, one that
waits for it and one that commits or is rolled back meanwhile; two connections are fewer than
three calls, so the pool does run dry; the pools overlap and differ in length, so that rows of
one lie below, across and above the other; segments of one and two ports leave gaps that are too
short; three units let a third call meet two rows. Two requests for one name meet in every way a create, its compensation, a delete and a
second create can. Two bytes are enough for a counter that restarts below, at or above the last
sample in one direction while the other goes on. Two handlers on one device map are a writer
and one that overtakes it; port 1 belongs to the first owner of a name while another instance, with
port 2 just beyond it, is beside it, and port 2 is that of the name's next owner too. Rows without
ports are left to the proofs. The handlers of
`devices` are interchangeable (`SYMMETRY`), and so are the calls of `registration` and the
requests and the deletes of `provisioning`; no liveness property is checked under symmetry. One failure is one more than the single retry needs and one less than it can bear. A second opening
is what an answer to the first can disturb, and a third version of the data comes in between a
dialog's opening and its answer. Four requests of the chart overlap in every order, and slide a
window of three. Three keys of the console let one be dropped, one be read and one wait, with a
size in between. Three keys of the store are one that was acknowledged, one whose write fails and one that is
saved after it; two ends of the process let what the first left be changed and read again. The operations of instances and images, which are polled anyway, are taken one
at a time to keep the run small. What the bounds leave out is covered by the
proofs for the properties that are proved. Where deadlock is not checked, the system may stop:
all requests are answered and the bounded environment has nothing left to do.

### Fairness

- `Registration`: strong fairness of each call's next step. PostgreSQL queues the waiters of a
  lock and pgx the waiters of a connection in order, so a call that can go on again and again does.
- `Provisioning`: weak fairness of the handlers once they have begun, of the goroutines, of the
  reconcile, and of the operations Incus accepted (the runtime schedules every goroutine; Incus
  reports the end of each operation). Users' requests, patches and restarts need not come.
- `QuotaMonitor`: weak fairness of the monitor's reading and acting (its ticker), strong fairness
  of the counting transaction (the database does not fail every time). Whether an action
  succeeds is left open.

- `PanelData` (`FairSpec`): weak fairness of each query's timer, answer and delivery, and of the
  answers and operations of the mutations. Nobody need press a button, look at the window, or make
  a request fail, and whether the server accepts is left open; failures are bounded, which
  `ChangesShown` needs: one failed fetch is repeated once.
- `Console` (`ConsoleProgress` in `MCPages`): weak fairness of events that are delivered and calls
  that return. Typing, resizing, leaving and the end of bash need not come.

### What the violations say

- `AutostartHappens`: a reconcile and the goroutine of a request take each other's etag away, and
  the loser gives up before the start and the SSH proxy.
- `OverIsStopped`: the latch is committed before a graceful stop that may fail and is never
  repeated.
- `DoneIsReported`: `request` parses the body of every answer that is ok, and 204 has none. What the
  server has done is reported as an error, and the list is not fetched again.

### Further configurations

Disagreements of the same kind, each with a configuration beside the modules. They are not part of
the runs above; `tlc -config X.cfg M` shows each in a few steps.

| Configuration | Module | Property | What it shows |
|---|---|---|---|
| `RegistrationMoved.cfg` | `MCRegistration` | `AllocatedInPool` | the loop of `allocateRangeN` never compares with the end of the pool: once a row of a higher pool survives, the gap before it looks free |
| `ProvisioningCreating.cfg` | `MCProvisioning` | `CreatingIsTrue` | a failed creation leaves its row, listed as `Creating` for ever |
| `QuotaMonitorLatch.cfg` | `QuotaMonitor` | `SetKeepsLatch` | `Set` writes back `triggered` and `last_reset_at` from an earlier statement and undoes a reset that came in between |
| `DevicesBandwidth.cfg` | `MCDevices` | `BandwidthKeepsRules` | "PutBandwidth 写入主网卡的 limits.ingress / limits.egress / limits.priority" (`bandwidth.go:73`): it writes the device `nic_name` says (line 107), and with no limits it takes a proxy rule of that name out of the map (line 143) |
| `PanelDataImages.cfg` | `MCPanelData` | `PulledIsListed` | "完成后镜像列表将自动刷新" (`ImagesPage.tsx:243`): a pull that ends after the last poll of the images and before the next one of the operations stops the polling, and the image is not listed |
| `KeyPicker.cfg` | `KeyPicker` | `PageStaysUp` | a file without a key line is a nil slice and `null` in the answer; the default of the query is for `undefined`, `null.some` throws, and the page is gone |
| `SSHKeysRetry.cfg` | `SSHKeys` | `AnsweredStaysAway` | a deletion whose write failed is repeated, finds the key off the list and is answered 204; after a restart the key is back |
| `PageFormsNotice.cfg` | `PageForms` | `CreationIsNoticed` | the comment at `InstancesPage.tsx:132` has the dialog stay open with a notice after an instance was accepted; it is closed at once, and `submitted` is never set |

Two smaller ones are exceptions in the properties of `Console`: a resize while the page's socket
(or the development server's) is still connecting is told to nobody (`early`), and the text frame
with which the handler reports a failed exec is dropped by the page, which shows binary frames
only.

`LatchMeansOver`, `AcceptedIsProvisioned` and `PromiseInHand` are what remains true beside these. The
first excepts a quota two writers raced for (`raced`). The other two except an instance a reconcile
worked on, and what is `Disturbed`: a creation that failed, a deletion, a restart, a user's change of
the configuration before the limits were set, and any error of a call of its goroutine, or of another
goroutine on it. The code repeats no call: one error of Incus, even a passing one, and the accepted
instance stays without its limits, or stopped. What they say of an instance that met none of this is
that the goroutines of one name, which take the etag from each other, do not lose it between them,
and that each waits for the operation before it goes on.

## 4. Proofs

Assumptions: the constants are what their `ASSUME`s say (finite sets of calls, disjoint names,
records of the right fields, natural bounds); nothing is assumed about their size.

- **Registration.** `TypeCorrect` first. The port properties follow from `PortInvariant`: the
  ranges of rows are disjoint, and each call *knows* something (`Knows`): past the lock it holds
  the lock; its row is still missing; its snapshot contains every registered segment; the segments
  its loop has left lie below the cursor; and no window that starts below the cursor is free.
  Disjointness alone is not inductive: the commit needs to know that the window is free in a
  snapshot that still covers the table, which is what the lock is for. Rows may leave while
  a call scans, so the snapshot covers the table but need not equal it. `PortsNeverShared`,
  `ExhaustedIsExhausted` and `LowestFitCorrect` are read off. `NeverOversold` adds
  `KnowsStock`: past the check one more instance fits under a stock the plan once had
  (`StockInvariant`, proved as `StockCorrect`).
  `CreateIsAtomic` maps `Commit` to `Register`, deletions to `Unregister`, an edit that raises the
  peak to `RaisePeak`, every other step to a stutter. What `EveryCallEnds` rests on is proved too.
  `NobodyIsStuck`: a call that holds the lock needs nothing of anybody, its loop always having a
  lowest segment because what is left is finite (`AtWork`); without such a call the lock is free for
  those that wait for it, and without any of these every connection is free. `StepsRunOut`: each step
  of a call lowers `Remaining`, the stations before it and the segments its loop has left, and no
  other step raises it. Only the step from both to `EveryCallEnds`, by strong fairness, is left to TLC.
- **Quota.** `AccountKept` proves `Accounting`: each counter follows from the last sample by the
  traffic since, or it went back and is no larger than that traffic; likewise for the reading the
  monitor holds, and the reading from the last sample. From it a sample adds at most what was sent
  since the last one, and exactly that when no counter went back: `NothingCountedTwice`,
  `NothingMissed`. `LatchIsHonest` is inductive over the types. `QuotaTypes` includes that
  `used_bytes` never gets negative. `QuotaIsMeter` maps `Count` to `Sample`, or to `Begin` for a
  first one, and every other step to its counterpart or a stutter; `Accounting` says what a sample
  is worth, and `SamplesInOrder` that a reading in hand is never older than the last counted one.
  `ChargedForTraffic` ties the meter to the instance: what is counted and what waits to be counted is
  traffic there was (`Backed`), so that the history variables are not generous.
- **Devices.** `PortsOwned` proves `DeviceInvariant`. That a rule lies in a range its name has
  had (`RulesFit`) is not inductive: it needs that a request carries such a port from the check to
  the write (`Carries`), and that rows and instances go by their own name (`RowsSound`,
  `InstancesSound`). `NoSharedPort` adds that registered ranges are apart. `RulesKept` is an action
  property: of all steps only `Update` changes a rule of an instance that stays (`OnlyUpdates`),
  and it writes what it read but at the port of a device a request has named. `LimitsHonoured` needs `ReadSound`, that an
  override is what `expanded_devices` showed.
- **Provisioning.** `QuotaReferential` is inductive over the types. `NoStartWithoutLimits` needs
  `Awaited`: a goroutine that has begun to work has an instance that was made, so none can
  become visible without limits under its hands. `PatchesSurvive` is an action property that
  follows from the types and the etag. `PromisesInHand`, the safety half of
  `AcceptedIsProvisioned`, is not inductive: with the name given out again, the goroutine of an
  earlier request can reach the instance of a later one, set its limits and take the etag away
  before that one was even accepted. `PromiseInvariant` therefore says of every instance that is
  visible and undisturbed that some goroutine of its name has it in hand (`Tended`), of instances
  that they bear the name they were asked for (`Made`), and of goroutines that they begin with the
  202 and wait for the operation (`Begun`).
- **PanelData.** `WritesAreRead` proves `ReadYourWrites` from `DataInvariant`. The property is not
  inductive: an entry may have the change now and lose it to an answer that is on its way. So the
  invariant says of the answers too that they have every change that was reported (`Coming`), that
  no entry and no answer is newer than what it was read from (`Ordered`), and that what was reported
  has landed and is no newer than the server's data (`Landed`). Each way a fetch goes on is one of
  four moves of one entry (`Moved`), and the table of mutations is used only through what they have
  in common (`TableRefetched`: each refetches what it writes). `RowWritesAreShown` reads off `Landed`
  that no first load is left to race with next to a row.
- **PageForms.** `FormsTypeCorrect` proves the types together with "a form on the screen was opened",
  without which `typed` leaves its range. `AnswersAreOwn` is inductive over that: a guarded dialog
  neither closes nor submits while it waits. `NoticesAreOwn` follows from it, because the answer that
  sets the notice is that of this opening. `BaseIsNew` and `NothingIsLeftOver` go by one case for each
  action, and for the latter by what the thirteen forms have in common (`StartsAfresh`).
- **KeyPicker.** `OnlyUntickedTaken` proves `TakesOnlyUnticked` from what the ticks mean while nothing
  has disturbed them (`Undisturbed`): before they are set no apply is on its way and what the page has
  is the file; afterwards the ticks, what is being applied and the file differ by unticked keys.
- **SSHKeys.** `PromisesAreKept` and `DeletionsStay` come from `StoreInvariant`: the list, and the file
  when it is whole, each have what was promised and nothing whose deletion is settled; and what the
  file has beyond the list is `unsure` or under way (`Behind`). The last part is what a deletion
  that finds nothing rests on.
- **Chart, UserList.** `ChartIsChain` and `CreatedAreListed`, the latter from the claim that, without an
  overlap, the one reload that is out is that of the page's opening, with no user made yet, or was
  asked for after the change.
- **Console.** `KeysAreHeard` proves `KeysArrive`: the two queues and bash's input are rising, each
  below the next, and what leaves one for the next is its first frame (`KeySent`, `KeyPassed`,
  `KeyDropped`, `KeyRelayed`); a key is dropped by the development server only before it has passed
  one on, or when its backend is closed. `SizeIsFollowed` needs that the page's size is the last on
  its way or has arrived (`SizesUnderWay`), and that the close is the last frame a page sends
  (`Closing`). Of the first half of `ConsoleEnds` everything but the fairness is proved:
  `CloseIsNeverLost`, and `GonePageIsReadOut`, that the queues before a gone page's close only get
  shorter.
- **The pages together.** `PartsKeepTheirSpecs` shows that a behaviour of `MCPages` is a behaviour of
  each part's own specification, and `PagesHold` that all invariants of the parts hold of it.

Every invariant and every action property of the passing runs is proved, and both refinements. Only
model-checked are the liveness properties (`EveryCallEnds`, `AcceptedIsProvisioned`, `OverIsNoticed`,
`ChangesShown`, `ConsoleEnds`), because fairness and ENABLED are out of the prover's reach, and the
violations. Where an induction would be needed, a least element comes from the well-foundedness of
the natural numbers for a set that is written out (`LeastNatural`), and queues are reasoned about by
what is at their ends. The type invariants of `Registration`, `Provisioning`, `QuotaMonitor` and
`PanelData` are proved (`TypeCorrect`, `QuotaTypes`) and not run.

## 5. Not modelled, and the plan

In this order:

1. `Accounts`: tokens, deletion of users, `OwnerCheck`, with `Provisioning`.
2. `Startup`: migrations by two processes, the first administrator.
3. Proofs: the type invariants and the main invariants of 1 and 2; a refinement of the key store to
   a durable list.

A new module brings a run of its own, or joins `MCPages` when it shares nothing with what is there.
Runs are kept to one for each distinct question: what a violation has shown once moves to the
further configurations when a deeper question needs its place.

Known and not claimed: `pickPrimaryNic` takes any card in map order when there is no `eth0`
(`bandwidth.go:42`; an instance of the model has one card); after a restart in the middle of a
creation only `ReconcilePlanLimits` comes back to the instance (`handler.go:460`; what is lost is
in the exceptions of `AcceptedIsProvisioned`); ids of keys deleted since the page listed them are
passed over by `GetByIDs` (`store.go:79`; the panel's keys are constant in `KeyPicker`).

Of the front end: the file browser's navigation (each path is a query of its own, so that an
overtaken answer goes to its own entry), the login page, the token in `localStorage` and its removal
on 401, the remote image search, clipboard buttons, and layout.

Left out for good: the reads behind pass-through handlers, listing and formatting, name prefixes, layout, styles,
the installation script, the generated and vendored parts.
