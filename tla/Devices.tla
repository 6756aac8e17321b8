------------------------------ MODULE Devices ------------------------------
(***************************************************************************)
(* The device map of the instances in Incus and everything in the panel    *)
(* that rewrites it: the bandwidth and proxy handlers, the goroutine that  *)
(* applies a plan to a new instance, and the one a reconcile spawns.  Each *)
(* of them checks something first, reads the instance with its etag later, *)
(* changes the map it read and writes it back under the etag.              *)
(*                                                                         *)
(* Names outlive instances: an instance is one of Gens, and a name may     *)
(* belong to several of them in turn.  Every instance has one network      *)
(* card, which it inherits from the profile until its own map overrides    *)
(* it; the three limits.* keys of the card are one value here.  Its other  *)
(* devices are its proxy rules.  Incus is external: it applies an accepted *)
(* update at once, refuses limits on a device that is no card, and an      *)
(* override stands for the whole card of the profile.                      *)
(***************************************************************************)
EXTENDS Naturals

CONSTANTS
  Gens,         \* instances, each registered at most once
  Names,        \* names in Incus
  NameOf,       \* the name of each instance
  Range,        \* the port range of its row: [s, e], with s = 0 for none
  Ports,        \* host ports a user may ask for
  AdminPorts,   \* of these, the ports that requests without a range may name: a bound
  Limits,       \* settings of the limits.* keys of a card
  NoLimits,     \* none of the keys is set
  Full,         \* settings with both an ingress and an egress limit
  PlanLimits,   \* what a plan sets
  Cards,        \* what a profile may say of the card: [base, limits]
  Inherited,    \* the instance's own map has no entry for the card
  None,         \* no row, no instance
  Slots         \* the handlers and goroutines that may come: a bound on their number

Who == {"user", "admin", "plan"}
Nic == [base : {c.base : c \in Cards}, limits : Limits]
Rules == [Ports -> Who \union {"none"}]

ASSUME NamesAssumption ==
  Names # {} /\ NameOf \in [Gens -> Names] /\ None \notin Gens
ASSUME RangeAssumption ==
  /\ Range \in [Gens -> [s : Nat, e : Nat]]
  /\ \A g \in Gens : Range[g].s # 0 => Range[g].s <= Range[g].e /\ Range[g].s \in Ports
ASSUME PortsAssumption == Ports \subseteq Nat \ {0} /\ AdminPorts \subseteq Ports
ASSUME LimitsAssumption ==
  /\ {NoLimits, PlanLimits} \subseteq Limits
  /\ PlanLimits # NoLimits
  /\ Full \subseteq Limits \ {NoLimits}
ASSUME CardsAssumption == Cards # {} /\ Cards \subseteq Nic /\ Inherited \notin Nic

VARIABLES
  row,        \* instances table: name -> the instance whose row it is, or None
  inst,       \* Incus: name -> the instance, or None
  fate,       \* how far each instance has come
  nic,        \* Incus: the instance's own entry for its card
  rules,      \* Incus: its devices proxy-<port>, by who asked for each
  profile,    \* Incus: the card in the profile
  pc,         \* where each handler or goroutine is
  req,        \* what it was asked
  seen        \* the instance it read, with the etag

incus == << inst, nic, rules, profile >>
vars == << row, inst, fate, nic, rules, profile, pc, req, seen >>

NoRules == [p \in Ports |-> "none"]
Unread == [gen |-> None, nic |-> Inherited, rules |-> NoRules, card |-> CHOOSE c \in Cards : TRUE]

\* The upper bound off by one.
RefusesLate(p, g) == Range[g].s = 0 \/ p < Range[g].s \/ p > Range[g].e + 1

\* The comparison of AddProxyRule with the range of a row.
Refuses(p, g) == Range[g].s = 0 \/ p < Range[g].s \/ p > Range[g].e

Apart(g, h) == Range[g].e < Range[h].s \/ Range[h].e < Range[g].s

\* A row has been committed for the instance; it may be gone by now.
Registered(g) == fate[g] \in {"pulling", "made", "planned"}

\* expanded_devices: an entry of its own stands for the profile's.
Expanded(g) == IF nic[g] = Inherited THEN profile ELSE nic[g]

\* A request: what, of whom, for which instance, with which limits, and for which
\* device, proxy-<port> or the card (port 0).
Ask(kind, n, who, p, limits) ==
  [kind |-> kind, name |-> n, who |-> who, port |-> p, limits |-> limits]
NoRequest == Ask("none", CHOOSE n \in Names : TRUE, "user", 0, NoLimits)

Init ==
  /\ row = [n \in Names |-> None]
  /\ inst = [n \in Names |-> None]
  /\ fate = [g \in Gens |-> "new"]
  /\ nic = [g \in Gens |-> Inherited]
  /\ rules = [g \in Gens |-> NoRules]
  /\ profile \in Cards
  /\ pc = [h \in Slots |-> "free"]
  /\ req = [h \in Slots |-> NoRequest]
  /\ seen = [h \in Slots |-> Unread]

-----------------------------------------------------------------------------
(* What each of them does before it reads the instance *)

\* A handler or goroutine starts.
Starts(h, r) ==
  /\ pc[h] = "free"
  /\ pc' = [pc EXCEPT ![h] = "get"]
  /\ req' = [req EXCEPT ![h] = r]
  /\ UNCHANGED << row, incus, seen >>

\* PutBandwidth, behind OwnerCheck; an admin needs no row.  The device is the one
\* nic_name says, whatever it is, and the card if it says nothing; as in a request
\* of an admin, no range is looked at.  Limits of another device are left out: Incus
\* refuses them, and such a request changes nothing.
PutBandwidth(h, n, p, limits) ==
  /\ p # 0 => limits = NoLimits
  /\ Starts(h, Ask("limit", n, "admin", p, limits))
  /\ UNCHANGED fate

\* AddProxyRule of an admin, whose ports are not compared with any range.
AddAnyRule(h, n, p) ==
  /\ Starts(h, Ask("add", n, "admin", p, NoLimits))
  /\ UNCHANGED fate

\* AddProxyRule of a user: the port has to lie in the range of the row that
\* OwnerCheck read.
AddOwnRule(h, n, p) ==
  /\ row[n] # None /\ ~Refuses(p, row[n])
  /\ Starts(h, Ask("add", n, "user", p, NoLimits))
  /\ UNCHANGED fate

\* DeleteProxyRule takes the device of that name out of the instance's own map,
\* a proxy rule or, under the name of the card (p = 0), its override.
DeleteProxyRule(h, n, p) ==
  /\ Starts(h, Ask("remove", n, "admin", p, NoLimits))
  /\ UNCHANGED fate

\* The goroutine of CreateInstance when op.Wait has returned: it brings the plan's
\* bandwidth and the first port of the row, for SSH.
ApplyPlan(h, g) ==
  /\ fate[g] = "made"
  /\ Starts(h, Ask("plan", NameOf[g], "plan", Range[g].s, PlanLimits))
  /\ fate' = [fate EXCEPT ![g] = "planned"]

\* ReconcilePlanLimits meets an instance that lacks a limit, under the name of a
\* row it has listed earlier.
ReconcileVisit(h, n) ==
  /\ \E g \in Gens : NameOf[g] = n /\ Registered(g)
  /\ inst[n] # None
  /\ Expanded(inst[n]).limits \notin Full
  /\ Starts(h, Ask("plan", n, "plan", 0, PlanLimits))
  /\ UNCHANGED fate

-----------------------------------------------------------------------------
(* Read, change, write back *)

\* The variables of a handler go with it.
Forget(h) ==
  /\ req' = [req EXCEPT ![h] = NoRequest]
  /\ seen' = [seen EXCEPT ![h] = Unread]

\* An error on the way, no such instance, or an etag that no longer fits.
Fail(h) ==
  /\ pc[h] \in {"get", "put"}
  /\ pc' = [pc EXCEPT ![h] = "failed"]
  /\ Forget(h)
  /\ UNCHANGED << row, fate, incus >>

\* GetInstance, with its etag.
Get(h) ==
  LET g == inst[req[h].name] IN
    /\ pc[h] = "get" /\ g # None
    /\ pc' = [pc EXCEPT ![h] = "put"]
    /\ seen' = [seen EXCEPT ![h] =
         [gen |-> g, nic |-> nic[g], rules |-> rules[g], card |-> Expanded(g)]]
    /\ UNCHANGED << row, fate, incus, req >>

\* The copying loop forgotten.
BareCard(h) == IF seen[h].nic = Inherited THEN [limits |-> NoLimits] ELSE seen[h].nic

\* The card a handler puts limits on: the override, or a copy of what the
\* instance inherits.
Base(h) == IF seen[h].nic = Inherited THEN seen[h].card ELSE seen[h].nic
WithLimits(h) == [Base(h) EXCEPT !.limits = req[h].limits]

\* hasLimits forgotten.
SameCard(h) == IF WithLimits(h) = seen[h].card THEN Inherited ELSE WithLimits(h)

\* PutBandwidth: a card without limits that is what expanded_devices shows is
\* taken out of the map, any other is put into it.
OwnCard(h) ==
  IF req[h].limits = NoLimits /\ WithLimits(h) = seen[h].card
  THEN Inherited ELSE WithLimits(h)

NewNic(h) ==
  CASE req[h].kind = "limit" /\ req[h].port = 0 -> OwnCard(h)
    [] req[h].kind = "plan" -> WithLimits(h)
    [] req[h].kind = "remove" /\ req[h].port = 0 -> Inherited
    [] OTHER -> seen[h].nic

\* The device proxy-<port> goes, or is replaced whatever its protocol was.  It goes
\* at a request for its bandwidth too: a device without limits that is what
\* expanded_devices shows is taken out of the map.
Replace(h) ==
  [seen[h].rules EXCEPT ![req[h].port] =
     IF req[h].kind \in {"remove", "limit"} THEN "none" ELSE req[h].who]

\* applyBandwidthFromPlan leaves a rule that exists alone, and adds none for a
\* row without ports or for a reconcile.
NewRules(h) ==
  IF /\ req[h].port # 0
     /\ \/ req[h].kind \in {"add", "remove", "limit"}
        \/ req[h].kind = "plan" /\ seen[h].rules[req[h].port] = "none"
  THEN Replace(h) ELSE seen[h].rules

\* An update without an etag.
NoEtag(h) == inst[req[h].name] # None /\ inst[req[h].name] = seen[h].gen

\* What the etag says: the instance is the one that was read, its map unchanged.
EtagHolds(h) ==
  LET g == inst[req[h].name] IN
    g # None /\ seen[h].gen = g /\ seen[h].nic = nic[g] /\ seen[h].rules = rules[g]

\* UpdateInstance with the etag; otherwise Fail.
Update(h) ==
  LET g == inst[req[h].name] IN
    /\ pc[h] = "put" /\ EtagHolds(h)
    /\ nic' = [nic EXCEPT ![g] = NewNic(h)]
    /\ rules' = [rules EXCEPT ![g] = NewRules(h)]
    /\ pc' = [pc EXCEPT ![h] = "done"]
    /\ Forget(h)
    /\ UNCHANGED << row, inst, fate, profile >>

-----------------------------------------------------------------------------
(* The instances they work on: see module Provisioning.  CreateInstance asks
   Incus first and registers the instance next.  Incus refuses a name in use,
   but when it was asked the name may have been free, as all are in Init: no
   state of its own remembers that it was asked. *)

\* The row is written while Incus works on the instance, or after it is done.
Commit(g) ==
  /\ row' = [row EXCEPT ![NameOf[g]] = g]
  /\ fate' = [fate EXCEPT ![g] = IF fate[g] = "early" THEN "made" ELSE "pulling"]
  /\ UNCHANGED << incus, pc, req, seen >>

\* The ports of other rows not looked at.
RegisterAnywhere(g) ==
  fate[g] \in {"new", "early"} /\ row[NameOf[g]] = None /\ Commit(g)

\* Repo.Create registers the instance on ports no other row holds (module
\* Registration).
Register(g) ==
  /\ fate[g] \in {"new", "early"} /\ row[NameOf[g]] = None
  /\ \A m \in Names : row[m] # None => Apart(g, row[m])
  /\ Commit(g)

\* Incus has pulled the image and made the instance, with a row or without.
Make(g) ==
  /\ fate[g] \in {"new", "pulling"} /\ inst[NameOf[g]] = None
  /\ inst' = [inst EXCEPT ![NameOf[g]] = g]
  /\ fate' = [fate EXCEPT ![g] = IF fate[g] = "new" THEN "early" ELSE "made"]
  /\ UNCHANGED << row, nic, rules, profile, pc, req, seen >>

\* DeleteInstance: the operation in Incus, and DeleteByName.  Either may come
\* alone: the error of the second is dropped, a deleted user's rows go without
\* the instances, and CreateInstance drops what it could not register.
DropInstance(n) ==
  /\ inst[n] # None
  /\ inst' = [inst EXCEPT ![n] = None]
  /\ nic' = [nic EXCEPT ![inst[n]] = Inherited]
  /\ rules' = [rules EXCEPT ![inst[n]] = NoRules]
  /\ UNCHANGED << row, fate, profile, pc, req, seen >>

DropRow(n) ==
  /\ row[n] # None
  /\ row' = [row EXCEPT ![n] = None]
  /\ UNCHANGED << fate, incus, pc, req, seen >>

\* The administrator of the host edits the profile, which no etag covers.
EditProfile(card) ==
  /\ card # profile
  /\ profile' = card
  /\ UNCHANGED << row, fate, inst, nic, rules, pc, req, seen >>

Begin(h) ==
  \/ \E n \in Names :
       \/ \E p \in AdminPorts \union {0}, limits \in Limits : PutBandwidth(h, n, p, limits)
       \/ \E p \in Ports : AddOwnRule(h, n, p)
       \/ \E p \in AdminPorts : AddAnyRule(h, n, p)
       \/ \E p \in AdminPorts \union {0} : DeleteProxyRule(h, n, p)
       \/ ReconcileVisit(h, n)
  \/ \E g \in Gens : ApplyPlan(h, g)

Next ==
  \/ \E h \in Slots : Begin(h) \/ Get(h) \/ Update(h) \/ Fail(h)
  \/ \E g \in Gens : Register(g) \/ Make(g)
  \/ \E n \in Names : DropInstance(n) \/ DropRow(n)
  \/ \E card \in Cards : EditProfile(card)

Spec == Init /\ [][Next]_vars

-----------------------------------------------------------------------------
(* Properties *)

Fates == {"new", "early", "pulling", "made", "planned"}
Request == [kind : {"none", "limit", "add", "remove", "plan"}, name : Names, who : Who,
            port : Ports \union {0}, limits : Limits]
Read == [gen : Gens \union {None}, nic : Nic \union {Inherited}, rules : Rules, card : Nic]

\* The maps hold devices of the right shape, and what a handler carries from one
\* call to the next is of the shape that call returned.
TypeOK ==
  /\ row \in [Names -> Gens \union {None}]
  /\ inst \in [Names -> Gens \union {None}]
  /\ fate \in [Gens -> Fates]
  /\ nic \in [Gens -> Nic \union {Inherited}]
  /\ rules \in [Gens -> Rules]
  /\ profile \in Cards
  /\ pc \in [Slots -> {"free", "get", "put", "done", "failed"}]
  /\ req \in [Slots -> Request]
  /\ seen \in [Slots -> Read]

InRange(p, g) == Range[g].s # 0 /\ p \in Range[g].s .. Range[g].e

\* A port of some instance that has had the name.
PortOf(p, n) == \E g \in Gens : NameOf[g] = n /\ Registered(g) /\ InRange(p, g)

Forwards(g, p) == rules[g][p] \in {"user", "plan"}

\* A rule that no admin asked for lies in the range of its instance, or of one
\* that had the name before: AddProxyRule and the goroutine of a plan take the
\* range from a row they read before they read the instance.
RulesFit == \A g \in Gens : \A p \in Ports : Forwards(g, p) => PortOf(p, NameOf[g])

\* Another instance has had the name.
Renamed(g) == \E h \in Gens \ {g} : NameOf[h] = NameOf[g] /\ Registered(h)

Present(g) == row[NameOf[g]] = g /\ inst[NameOf[g]] = g

\* Two registered instances never forward the same host port, unless an admin
\* asked for it or a name was given out again under a request's hands.
PortsApart ==
  \A g, h \in Gens : \A p \in Ports :
    g # h /\ Present(g) /\ Present(h) /\ Forwards(g, p) /\ Forwards(h, p) => Renamed(g) \/ Renamed(h)

\* Why RulesFit and PortsApart are inductive: rows and instances go by their own
\* name, rows share no port, and a request carries a port of its name from the
\* check to the write.
RowsSound ==
  \A n \in Names : row[n] # None =>
    /\ NameOf[row[n]] = n /\ Registered(row[n])
    /\ \A m \in Names \ {n} : row[m] # None => Apart(row[n], row[m])
InstancesSound == \A n \in Names : inst[n] # None => NameOf[inst[n]] = n
Carries(h) ==
  req[h].who # "admin" /\ req[h].port # 0 => PortOf(req[h].port, req[h].name)

\* What GetInstance returned agrees with itself.
ReadSound(h) == seen[h].nic # Inherited => seen[h].card = seen[h].nic

PortInvariant ==
  /\ RulesFit
  /\ RowsSound
  /\ InstancesSound
  /\ \A h \in Slots : Carries(h)

DeviceInvariant == PortInvariant /\ \A h \in Slots : ReadSound(h)

\* The update was accepted: a refused one, or an error, leads to "failed".
Writes(h) == pc[h] = "put" /\ pc'[h] = "done"

\* A user or an admin named the device proxy-p.
AskedFor(p) ==
  \E h \in Slots :
    Writes(h) /\ req[h].port = p /\ req[h].kind \in {"add", "remove", "limit"}

RulesStay ==
  \A g \in Gens : \A p \in Ports :
    rules[g][p] # "none" /\ rules'[g][p] # rules[g][p] => inst'[NameOf[g]] = None \/ AskedFor(p)

\* A proxy rule of an instance changes or goes only with the instance or by a
\* request of a user or an admin that names that very device - to add it, to remove
\* it, or as the nic_name of a bandwidth: neither a goroutine nor a handler for
\* another device, however outdated what it read, takes it away (the etag, and the
\* check for an existing rule in applyBandwidthFromPlan).
RulesSurvive == [][RulesStay]_vars

\* The comment on PutBandwidth: it writes limits of the card.  Under the name of a
\* proxy rule, with no limits, it takes the rule out of the map.
BandwidthKeepsRules ==
  [][\A h \in Slots : Writes(h) /\ req[h].kind = "limit" => UNCHANGED rules]_vars

\* What an update leaves in force.
LimitsAfter(g) == IF nic'[g] = Inherited THEN profile.limits ELSE nic'[g].limits

\* The two ways back to the limits of a profile: a request for no limits that
\* finds an override without limits takes it out, and one that read the instance
\* before the profile was edited writes none.
BackToProfile(h) ==
  /\ req[h].kind = "limit" /\ req[h].limits = NoLimits /\ profile.limits # NoLimits
  /\ IF seen[h].nic = Inherited THEN seen[h].card # profile
     ELSE seen[h].nic.limits = NoLimits

\* A request that sets the limits of the card: a plan's always does.
ForCard(h) == req[h].kind = "plan" \/ (req[h].kind = "limit" /\ req[h].port = 0)

LimitsSet ==
  \A h \in Slots : Writes(h) /\ ForCard(h) =>
    LimitsAfter(seen[h].gen) = req[h].limits \/ BackToProfile(h)

\* An accepted write of the card's limits leaves the limits in force that it asked
\* for, but for a request for no limits that falls back to a profile with limits.
LimitsAsAsked == [][LimitsSet]_vars
=============================================================================
