---------------------------- MODULE RouterUpdate ----------------------------
(***************************************************************************)
(* Convergence of one existing Router                                      *)
(* (internal/controller/network/router_external.go: Observe and Update).   *)
(* Observe alone says whether the router is as declared; Update reads it   *)
(* again and applies one pass of at most MaxOps paced calls: label, attach,*)
(* detach, DHCP and NAT per network, static routes.  Timeweb may refuse a  *)
(* call, lose its answer, or acknowledge it and do nothing; the operator   *)
(* edits the spec, and the panel the router, at any time.                  *)
(***************************************************************************)
EXTENDS Naturals, FiniteSets

CONSTANTS
  Networks, Addrs, Subnets,
  NoAddr,     \* a network without NAT
  NoHop,      \* a subnet without static route
  NoNet,      \* no network in hand
  Specs,      \* the declarations the operator may apply, references resolved
  Tier,       \* the preset the router was created with
  Forwarded,  \* addresses a DNAT rule of the panel forwards
  MaxOps,     \* maxRouterMutationsPerReconcile
  MaxFaults,  \* bound on what goes wrong
  MaxEdits    \* bound on the operator's edits

Hops == UNION {{sp.routes[s] : s \in Subnets} : sp \in Specs}

ASSUME RouterAssumption ==
  /\ NoAddr \notin Addrs /\ NoNet \notin Networks
  /\ Forwarded \subseteq Addrs
  /\ MaxOps \in Nat \ {0} /\ MaxFaults \in Nat /\ MaxEdits \in Nat
  /\ \A sp \in Specs :
       /\ sp.nets \subseteq Networks /\ sp.dhcp \subseteq sp.nets
       /\ sp.nat \in [Networks -> Addrs \cup {NoAddr}]
       /\ \A n \in Networks \ sp.nets : sp.nat[n] = NoAddr

VARIABLES
  up,      \* the router upstream: label, nets, nat, dhcp, routes, and bound:
           \*   address -> "free", "elsewhere", "binding" (not listed yet) or "router"
  status,  \* its state: "starting" or "started"
  spec,    \* the stored spec
  pc,      \* where the reconcile is
  res,     \* what Connect resolved for this reconcile
  obs,     \* the router as Update read it
  todo,    \* networks still to detach, or rows still to converge
  row,     \* the network whose NAT is next
  rel,     \* the address to release next
  ops,     \* the mutations counted in this pass
  calls,   \* the paced calls really sent in this pass
  moved,   \* somebody has worked in the panel
  faults, edits

vars == <<up, status, spec, pc, res, obs, todo, row, rel, ops, calls, moved, faults, edits>>
memory == <<res, obs, todo, row, rel>>
world  == <<status, spec, edits, moved>>

Routers ==
  [label : {sp.label : sp \in Specs}, nets : SUBSET Networks, dhcp : SUBSET Networks,
   nat : [Networks -> Addrs \cup {NoAddr}], routes : [Subnets -> Hops \cup {NoHop}],
   bound : [Addrs -> {"free", "elsewhere", "binding", "router"}]]

PCs == {"idle", "update", "label", "attach", "detach", "rows", "nat", "release",
        "unbind", "delRoutes", "addRoutes"}

TypeOK ==
  /\ up \in Routers /\ obs \in Routers
  /\ status \in {"starting", "started"}
  /\ spec \in Specs /\ res \in Specs
  /\ pc \in PCs
  /\ todo \subseteq Networks /\ row \in Networks \cup {NoNet}
  /\ rel \in Addrs \cup {NoAddr}
  /\ ops \in 0 .. MaxOps /\ calls \in Nat
  /\ moved \in BOOLEAN /\ faults \in 0 .. MaxFaults /\ edits \in 0 .. MaxEdits

\* buildCreateRouterBody: the POST carries the networks and the NAT addresses,
\* not DHCP, NAT activation or routes.
Created(sp, others) ==
  [label |-> sp.label, nets |-> sp.nets, dhcp |-> {},
   nat |-> [n \in Networks |-> NoAddr], routes |-> [s \in Subnets |-> NoHop],
   bound |-> [a \in Addrs |-> IF \E n \in sp.nets : sp.nat[n] = a THEN "router" ELSE others[a]]]

\* What is forgotten between reconciles has some fixed value.
NoSpec == CHOOSE sp \in Specs : TRUE
NoRead == Created(NoSpec, [a \in Addrs |-> "free"])

Init ==
  /\ spec \in {sp \in Specs : sp.nets # {} /\ sp.tier = Tier}
  /\ \E others \in [Addrs -> {"free", "elsewhere"}] : up = Created(spec, others)
  /\ status = "starting"
  /\ pc = "idle" /\ res = NoSpec /\ obs = NoRead
  /\ todo = {} /\ row = NoNet /\ rel = NoAddr
  /\ ops = 0 /\ calls = 0 /\ moved = FALSE /\ faults = 0 /\ edits = 0

(***************************************************************************)
(* Reading.                                                                *)
(***************************************************************************)
routerOwnedIPs(r) == {a \in Addrs : r.bound[a] = "router"}

natIPBindability(a) ==
  CASE up.bound[a] = "free"      -> "natIPFree"
    [] up.bound[a] = "elsewhere" -> "natIPBoundElsewhere"
    [] OTHER                     -> "natIPBoundToRouter"

\* Declared NAT rows that cannot be converged: reported, and no drift.
blockedNATRows(sp) ==
  {n \in sp.nets \cap up.nets :
     /\ sp.nat[n] # NoAddr
     /\ sp.nat[n] \notin routerOwnedIPs(up)
     /\ sp.nat[n] # up.nat[n]
     /\ natIPBindability(sp.nat[n]) = "natIPBoundElsewhere"}

\* Mistake: only the declared routes are compared.
RoutesDeclaredOnly(sp) ==
  \A s \in Subnets : sp.routes[s] # NoHop => up.routes[s] = sp.routes[s]

staticRoutesUpToDate(sp) == sp.routes = up.routes

isRouterUpToDate(sp) ==
  /\ sp.label = up.label
  /\ sp.nets = up.nets
  /\ sp.dhcp = up.dhcp
  /\ \A n \in sp.nets : sp.nat[n] = up.nat[n] \/ n \in blockedNATRows(sp)
  /\ sp.tier = Tier

\* Observe calls for an Update when something drifted; a starting router is
\* left alone.
Observe ==
  /\ pc = "idle" /\ status = "started"
  /\ ~(isRouterUpToDate(spec) /\ staticRoutesUpToDate(spec))
  /\ pc' = "update"
  /\ res' = spec
  /\ UNCHANGED <<up, world, obs, todo, row, rel, ops, calls, faults>>

(***************************************************************************)
(* A pass.                                                                 *)
(***************************************************************************)
EndPass ==
  /\ pc' = "idle"
  /\ res' = NoSpec /\ obs' = NoRead
  /\ todo' = {} /\ row' = NoNet /\ rel' = NoAddr
  /\ ops' = 0 /\ calls' = 0

\* Mistake: off by one.
PacedLate == ops > MaxOps

\* The budget of the pass is spent; what is left waits for the next one.
Paced == ops >= MaxOps

\* Fault: one of the things that go wrong, while the bound allows.
Fault == faults < MaxFaults /\ faults' = faults + 1

\* A call whose effect would be `new`: done; acknowledged and dropped; or ended
\* in an error, carried out or not, which ends the pass.  `next` says how the
\* pass goes on.
Call(new, next) ==
  \/ up' = new /\ next /\ UNCHANGED faults
  \/ Fault /\ up' = up /\ next
  \/ Fault /\ up' \in {up, new} /\ EndPass

\* A call upstream refuses.
Refused == UNCHANGED <<up, faults>> /\ EndPass

Counted == ops' = ops + 1 /\ calls' = calls + 1
Uncounted == UNCHANGED <<ops, calls>>

\* Update re-reads the router; no network declared or another tier ends it.
Update ==
  /\ pc = "update"
  /\ UNCHANGED <<up, faults, world>>
  /\ \/ /\ status = "starting" \/ res.nets = {} \/ res.tier # Tier
        /\ EndPass
     \/ /\ status = "started" /\ res.nets # {} /\ res.tier = Tier
        /\ obs' = up
        /\ pc' = "label"
        /\ UNCHANGED <<res, todo, row, rel, ops, calls>>

\* Name and comment: one PATCH, not paced.
PatchLabel ==
  /\ pc = "label"
  /\ LET next == pc' = "attach" /\ Uncounted /\ UNCHANGED memory
     IN  \/ obs.label = res.label /\ next /\ UNCHANGED <<up, faults>>
         \/ obs.label # res.label /\ Call([up EXCEPT !.label = res.label], next)
  /\ UNCHANGED world

\* Mistake: networks are attached only once nothing is left to detach.
AttachLast ==
  /\ pc = "attach" /\ pc' = "detach"
  /\ todo' = obs.nets \ res.nets
  /\ LET missing == res.nets \ obs.nets
     IN  \/ obs.nets \subseteq res.nets /\ Call([up EXCEPT !.nets = @ \cup missing], Counted)
         \/ ~(obs.nets \subseteq res.nets) /\ Uncounted /\ UNCHANGED <<up, faults>>
  /\ UNCHANGED <<world, res, obs, row, rel>>

\* One POST attaches every missing network.
AddNetworks ==
  /\ pc = "attach"
  /\ LET missing == res.nets \ obs.nets
         next == /\ pc' = "detach"
                 /\ todo' = obs.nets \ res.nets
                 /\ UNCHANGED <<res, obs, row, rel>>
     IN  \/ missing = {} /\ next /\ Uncounted /\ UNCHANGED <<up, faults>>
         \/ missing # {} /\ Call([up EXCEPT !.nets = @ \cup missing], next /\ Counted)
  /\ UNCHANGED world

\* What the controller takes for the number of attached networks.
upstreamCount == Cardinality(res.nets \cup todo)

StartRows == /\ pc' = "rows"
             /\ todo' = res.nets \cap obs.nets
             /\ UNCHANGED <<res, obs, row, rel>>

Detached(n) == [up EXCEPT !.nets = @ \ {n}, !.dhcp = @ \ {n}, !.nat[n] = NoAddr]

\* Upstream refuses to detach the last network, or one that is not attached.
DeleteRouterNetwork(n) ==
  /\ pc = "detach" /\ n \in todo /\ ~Paced /\ upstreamCount > 1
  /\ IF up.nets = {n} \/ n \notin up.nets
       THEN Refused
       ELSE Call(Detached(n), /\ todo' = todo \ {n}
                              /\ Counted
                              /\ UNCHANGED <<pc, res, obs, row, rel>>)
  /\ UNCHANGED world

DetachEnds ==
  /\ pc = "detach"
  /\ \/ todo # {} /\ Paced /\ EndPass
     \/ (todo # {} => ~Paced /\ upstreamCount <= 1) /\ StartRows /\ Uncounted
  /\ UNCHANGED <<up, faults, world>>

\* DHCP of one attached network, before its NAT.
PatchNetwork(n) ==
  /\ pc = "rows" /\ n \in todo
  /\ LET next == /\ pc' = "nat" /\ row' = n /\ todo' = todo \ {n}
                 /\ UNCHANGED <<res, obs, rel>>
         want == IF n \in res.dhcp THEN up.dhcp \cup {n} ELSE up.dhcp \ {n}
     IN  \/ (n \in res.dhcp) = (n \in obs.dhcp) /\ next /\ Uncounted /\ UNCHANGED <<up, faults>>
         \/ (n \in res.dhcp) # (n \in obs.dhcp) /\ Paced /\ EndPass /\ UNCHANGED <<up, faults>>
         \/ (n \in res.dhcp) # (n \in obs.dhcp) /\ ~Paced /\ n \in up.nets
              /\ Call([up EXCEPT !.dhcp = want], next /\ Counted)
         \/ (n \in res.dhcp) # (n \in obs.dhcp) /\ ~Paced /\ n \notin up.nets /\ Refused
  /\ UNCHANGED world

NextRow == /\ pc' = "rows" /\ row' = NoNet
           /\ UNCHANGED <<res, obs, todo, rel>>

\* The old address is released in the same transition, if the budget allows.
ThenRelease(a) ==
  IF a # NoAddr /\ ops + 1 < MaxOps
    THEN /\ pc' = "release" /\ rel' = a /\ row' = NoNet
         /\ UNCHANGED <<res, obs, todo>>
    ELSE NextRow

\* A declared address the router does not own is bound first, if it is free;
\* NAT itself waits for the next pass.
bindNATIP(n, want) ==
  /\ want \notin {NoAddr, obs.nat[n]} /\ want \notin routerOwnedIPs(obs)
  /\ \/ natIPBindability(want) # "natIPFree" /\ NextRow /\ Uncounted /\ UNCHANGED <<up, faults>>
     \/ natIPBindability(want) = "natIPFree" /\ Paced /\ EndPass /\ UNCHANGED <<up, faults>>
     \/ natIPBindability(want) = "natIPFree" /\ ~Paced
          /\ Call([up EXCEPT !.bound[want] = "binding"], NextRow /\ Counted)

\* NAT is switched on or to another address the router owns.
UpdateRouterNat(n, want) ==
  /\ want \notin {NoAddr, obs.nat[n]} /\ want \in routerOwnedIPs(obs)
  /\ \/ Paced /\ EndPass /\ UNCHANGED <<up, faults>>
     \/ ~Paced /\ up.bound[want] = "router" /\ n \in up.nets
          /\ Call([up EXCEPT !.nat[n] = want], ThenRelease(obs.nat[n]) /\ Counted)
     \/ ~Paced /\ (up.bound[want] # "router" \/ n \notin up.nets) /\ Refused

DeleteRouterNat(n, want) ==
  /\ want = NoAddr /\ obs.nat[n] # NoAddr
  /\ \/ Paced /\ EndPass /\ UNCHANGED <<up, faults>>
     \/ ~Paced /\ n \in up.nets
          /\ Call([up EXCEPT !.nat[n] = NoAddr], ThenRelease(obs.nat[n]) /\ Counted)
     \/ ~Paced /\ n \notin up.nets /\ Refused

ConvergeNAT ==
  /\ pc = "nat"
  /\ \/ res.nat[row] = obs.nat[row] /\ NextRow /\ Uncounted /\ UNCHANGED <<up, faults>>
     \/ bindNATIP(row, res.nat[row])
     \/ UpdateRouterNat(row, res.nat[row])
     \/ DeleteRouterNat(row, res.nat[row])
  /\ UNCHANGED world

\* An address leaves the router: whatever NAT it served ends.
Unbound(a, to) ==
  [up EXCEPT !.bound[a] = to,
             !.nat = [n \in Networks |-> IF up.nat[n] = a THEN NoAddr ELSE up.nat[n]]]

Released == /\ pc' = "rows" /\ rel' = NoAddr
            /\ UNCHANGED <<res, obs, todo, row>>

\* Mistake: an address that another row asks for is released.
ReleaseDeclared(a) == a \notin Forwarded /\ natIPBindability(a) = "natIPBoundToRouter"

Releasable(a) ==
  /\ \A n \in res.nets : res.nat[n] # a
  /\ a \notin Forwarded
  /\ natIPBindability(a) = "natIPBoundToRouter"

\* The guard reads: DNAT rules and the holder.  A failed one keeps the address bound.
releaseNATIP ==
  /\ pc = "release" /\ Uncounted /\ UNCHANGED up
  /\ \/ ~Releasable(rel) /\ Released /\ UNCHANGED faults
     \/ Releasable(rel) /\ pc' = "unbind" /\ UNCHANGED <<memory, faults>>
     \/ Fault /\ Released
  /\ UNCHANGED world

\* Best effort: a failed unbind is reported, and not counted.  It names no holder.
UnbindFloatingIp ==
  /\ pc = "unbind" /\ Released
  /\ \/ up' = Unbound(rel, "free") /\ Counted /\ UNCHANGED faults
     \/ Fault /\ UNCHANGED up /\ Counted
     \/ Fault /\ up' \in {up, Unbound(rel, "free")} /\ UNCHANGED ops /\ calls' = calls + 1
  /\ UNCHANGED world

\* The routing table is read afresh.
getStaticRoutes ==
  /\ pc = "rows" /\ todo = {}
  /\ pc' = "delRoutes"
  /\ obs' = [obs EXCEPT !.routes = up.routes]
  /\ UNCHANGED <<up, world, res, todo, row, rel, ops, calls, faults>>

\* Routes that are not declared, or lead elsewhere, go first (no update call).
DeleteStaticRoute(s) ==
  /\ pc = "delRoutes" /\ obs.routes[s] \notin {NoHop, res.routes[s]}
  /\ \/ Paced /\ EndPass /\ UNCHANGED <<up, faults>>
     \/ ~Paced /\ Call([up EXCEPT !.routes[s] = NoHop],
                       /\ obs' = [obs EXCEPT !.routes[s] = NoHop]
                       /\ Counted
                       /\ UNCHANGED <<pc, res, todo, row, rel>>)
  /\ UNCHANGED world

DeletesDone ==
  /\ pc = "delRoutes"
  /\ \A s \in Subnets : obs.routes[s] \in {NoHop, res.routes[s]}
  /\ pc' = "addRoutes"
  /\ UNCHANGED <<up, world, memory, ops, calls, faults>>

\* Upstream keeps one route per subnet.
PostStaticRoute(s) ==
  /\ pc = "addRoutes" /\ res.routes[s] \notin {NoHop, obs.routes[s]}
  /\ \/ Paced /\ EndPass /\ UNCHANGED <<up, faults>>
     \/ ~Paced /\ up.routes[s] = NoHop
          /\ Call([up EXCEPT !.routes[s] = res.routes[s]],
                  /\ obs' = [obs EXCEPT !.routes[s] = res.routes[s]]
                  /\ Counted
                  /\ UNCHANGED <<pc, res, todo, row, rel>>)
     \/ ~Paced /\ up.routes[s] # NoHop /\ Refused
  /\ UNCHANGED world

PassEnds ==
  /\ pc = "addRoutes"
  /\ \A s \in Subnets : res.routes[s] \in {NoHop, obs.routes[s]}
  /\ EndPass
  /\ UNCHANGED <<up, faults, world>>

(***************************************************************************)
(* The surroundings.                                                       *)
(***************************************************************************)
Starts ==
  /\ status = "starting"
  /\ status' = "started"
  /\ UNCHANGED <<up, spec, edits, moved, pc, memory, ops, calls, faults>>

\* A bound address appears among the router's addresses.
Listed(a) ==
  /\ up.bound[a] = "binding"
  /\ up' = [up EXCEPT !.bound[a] = "router"]
  /\ UNCHANGED <<world, pc, memory, ops, calls, faults>>

\* The operator edits the spec, or a selector matches other networks.
Edit ==
  /\ edits < MaxEdits
  /\ edits' = edits + 1
  /\ spec' \in Specs \ {spec}
  /\ UNCHANGED <<up, status, moved, pc, memory, ops, calls, faults>>

\* Somebody works in the panel: detaches a network, frees or takes an address,
\* or deletes a route.
Panel ==
  /\ Fault /\ moved' = TRUE
  /\ \/ \E n \in up.nets : up.nets # {n} /\ up' = Detached(n)
     \/ \E a \in Addrs, to \in {"free", "elsewhere"} : up.bound[a] # to /\ up' = Unbound(a, to)
     \/ \E s \in Subnets : up.routes[s] # NoHop /\ up' = [up EXCEPT !.routes[s] = NoHop]
  /\ UNCHANGED <<status, spec, edits, pc, memory, ops, calls>>

\* The process dies.
Crash ==
  /\ pc # "idle"
  /\ Fault
  /\ UNCHANGED <<up, world>>
  /\ EndPass

Reconcile ==
  \/ Observe \/ Update \/ PatchLabel \/ AddNetworks \/ DetachEnds \/ ConvergeNAT
  \/ releaseNATIP \/ UnbindFloatingIp \/ getStaticRoutes \/ DeletesDone \/ PassEnds
  \/ \E n \in Networks : DeleteRouterNetwork(n) \/ PatchNetwork(n)
  \/ \E s \in Subnets : DeleteStaticRoute(s) \/ PostStaticRoute(s)

Next ==
  \/ Reconcile
  \/ Starts \/ (\E a \in Addrs : Listed(a)) \/ Edit \/ Panel \/ Crash

Spec == Init /\ [][Next]_vars

\* The work queue keeps reconciling a Router that has drifted, the router's
\* provisioning ends, and Timeweb lists what it has bound.  What goes wrong is
\* bounded by MaxFaults, so no fairness is needed to rule it out.
FairSpec ==
  Spec /\ WF_vars(Reconcile) /\ WF_vars(Starts) /\ \A a \in Addrs : WF_vars(Listed(a))

(***************************************************************************)
(* Properties.                                                             *)
(***************************************************************************)
\* The router ends up as declared, pass after pass, whatever was dropped,
\* refused, lost or changed in the panel; only a NAT address that something else
\* holds stays out, and it does not hold up the rest.
Converges ==
  <>[](spec.nets # {} /\ spec.tier = Tier =>
         /\ up.label = spec.label /\ up.nets = spec.nets
         /\ up.dhcp = spec.dhcp /\ up.routes = spec.routes
         /\ \A n \in spec.nets : \/ up.nat[n] = spec.nat[n]
                                 \/ spec.nat[n] # NoAddr /\ up.bound[spec.nat[n]] = "elsewhere")

\* A pass sends no more paced calls than maxRouterMutationsPerReconcile, besides
\* those that failed: a counter incremented in seven places, with checks between
\* them that an edit or a panel change in mid-pass must not get round.
BudgetKept == calls <= MaxOps + faults

\* As long as every call did what it was acknowledged for, Update never asks to
\* detach the last network of the router, edits in mid-pass included: it stops
\* "before the last attachment would be removed".
NeverDetachesLast ==
  [][\A n \in Networks : DeleteRouterNetwork(n) => up.nets # {n} \/ faults > 0]_vars

\* The router as a holder of addresses: to it and to everybody else at Timeweb it
\* keeps to AddressLease.  It binds only a free address that a row of its declaration
\* asks for, and releases only one that no row asks for any more, although NAT of one
\* network may move to the address of another in the same pass.
Holding(a) ==
  CASE up.bound[a] = "free" -> "free"
    [] up.bound[a] = "elsewhere" -> "elsewhere"
    [] up.bound[a] \in {"binding", "router"} -> "router"

Lease == INSTANCE AddressLease WITH
  Holders <- {"router"}, Addresses <- Addrs, Free <- "free", Elsewhere <- "elsewhere",
  holder <- [a \in Addrs |-> Holding(a)],
  asked <- [h \in {"router"} |-> {res.nat[n] : n \in res.nets} \ {NoAddr}],
  touched <- moved

KeepsLeases == Lease!Spec
=============================================================================
