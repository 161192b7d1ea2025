------------------------- MODULE RouterUpdateProofs -------------------------
(***************************************************************************)
(* Machine-checked proofs about RouterUpdate, for every set of networks,   *)
(* addresses, subnets and declarations and every budget.                   *)
(***************************************************************************)
EXTENDS RouterUpdate, FiniteSetTheorems, TLAPS

(***************************************************************************)
(* The budget.  Nothing has been counted before the attach, which is not   *)
(* checked against the budget, and an address is released only while it is *)
(* not spent.  Calls that were sent and not counted are failed unbinds.    *)
(***************************************************************************)
Budgeted ==
  /\ calls <= ops + faults
  /\ pc \in {"idle", "update", "label", "attach"} => ops = 0
  /\ pc \in {"release", "unbind"} => ops < MaxOps

\* The row in hand is a declared one, and an address to release is there.
RowsInHand ==
  /\ pc \in {"rows", "nat", "release", "unbind"} => todo \subseteq res.nets
  /\ pc = "nat" => row \in res.nets
  /\ pc \in {"release", "unbind"} => rel \in Addrs

BudgetInv == TypeOK /\ Budgeted /\ RowsInHand

\* What a reconcile keeps in memory is of its type when it is forgotten.
LEMMA Forgotten == ASSUME NEW sp \in Specs PROVE NoSpec \in Specs /\ NoRead \in Routers
<1>1. NoSpec \in Specs
  BY DEF NoSpec
<1>2. /\ NoSpec.nets \subseteq Networks
      /\ NoSpec.label \in {q.label : q \in Specs}
  BY <1>1, RouterAssumption
<1> QED BY <1>1, <1>2 DEF NoRead, Created, Routers

\* A counted call stays within what the counter and the faults allow.
LEMMA OneMore ==
  \A c, o, f, g \in Nat : c <= o + f /\ g >= f => c + 1 <= (o + 1) + g
  OBVIOUS

\* A pass that has sent nothing is within its budget.
LEMMA NothingSent == \A f \in Nat : 0 <= 0 + f
  OBVIOUS

\* The end of a pass, regular, failed or by a crash, keeps types and budget.
LEMMA EndOfPass ==
  ASSUME BudgetInv, EndPass, up' \in Routers, UNCHANGED world, faults' \in 0 .. MaxFaults
  PROVE  BudgetInv'
<1>1. NoSpec \in Specs /\ NoRead \in Routers
  BY Forgotten DEF BudgetInv, TypeOK
<1>2. /\ status' \in {"starting", "started"} /\ spec' \in Specs
      /\ moved' \in BOOLEAN /\ edits' \in 0 .. MaxEdits
  BY DEF BudgetInv, TypeOK, world
<1>3. /\ pc' \in PCs /\ res' \in Specs /\ obs' \in Routers /\ todo' \subseteq Networks
      /\ row' \in Networks \cup {NoNet} /\ rel' \in Addrs \cup {NoAddr}
      /\ ops' \in 0 .. MaxOps /\ calls' \in Nat
  BY <1>1, RouterAssumption DEF EndPass, PCs
<1>4. TypeOK'
  BY <1>2, <1>3 DEF TypeOK
<1>5. Budgeted' /\ RowsInHand'
  <2>1. pc' = "idle" /\ ops' = 0 /\ calls' = 0
    BY DEF EndPass
  <2>2. faults' \in Nat
    BY RouterAssumption
  <2>3. 0 <= 0 + faults'
    BY <2>2, NothingSent, Zenon
  <2>4. calls' <= ops' + faults'
    BY <2>1, <2>3, Zenon
  <2> QED BY <2>1, <2>4 DEF Budgeted, RowsInHand
<1> QED BY <1>4, <1>5 DEF BudgetInv

\* A declaration is of its type.
LEMMA SpecTypes ==
  ASSUME NEW sp \in Specs
  PROVE  /\ sp.nets \subseteq Networks /\ sp.dhcp \subseteq Networks
         /\ sp.nat \in [Networks -> Addrs \cup {NoAddr}]
         /\ sp.label \in {q.label : q \in Specs}
         /\ \A s \in Subnets : sp.routes[s] \in Hops
  BY RouterAssumption DEF Hops

\* Every step keeps types and budget.
LEMMA BudgetStep == BudgetInv /\ [Next]_vars => BudgetInv'
<1> SUFFICES ASSUME BudgetInv, [Next]_vars PROVE BudgetInv'
    OBVIOUS
<1>a. TypeOK /\ Budgeted /\ RowsInHand
  BY DEF BudgetInv
<1>b. /\ res.nets \subseteq Networks /\ res.dhcp \subseteq Networks
      /\ res.nat \in [Networks -> Addrs \cup {NoAddr}]
      /\ res.label \in {q.label : q \in Specs}
      /\ \A s \in Subnets : res.routes[s] \in Hops
  BY <1>a, SpecTypes DEF TypeOK
<1> USE RouterAssumption
<1>1. CASE Observe
  BY <1>1, <1>a DEF Observe, BudgetInv, TypeOK, Budgeted, RowsInHand, PCs, world
<1>2. CASE Update
  <2>1. CASE EndPass
    BY <1>2, <2>1, <1>a, EndOfPass DEF Update, TypeOK
  <2>2. CASE ~EndPass
    BY <1>2, <2>2, <1>a DEF Update, BudgetInv, TypeOK, Budgeted, RowsInHand, PCs, world
  <2> QED BY <2>1, <2>2
<1>3. CASE PatchLabel
  <2>1. [up EXCEPT !.label = res.label] \in Routers
    BY <1>a, <1>b DEF TypeOK, Routers
  <2>2. up' \in Routers /\ faults' \in 0 .. MaxFaults /\ faults' >= faults
    BY <1>3, <1>a, <2>1 DEF PatchLabel, Call, Fault, TypeOK
  <2>3. CASE EndPass
    BY <1>3, <2>3, <2>2, EndOfPass DEF PatchLabel
  <2>4. CASE ~EndPass
    BY <1>3, <2>4, <2>2, <1>a DEF PatchLabel, Call, Uncounted, BudgetInv, TypeOK, Budgeted, RowsInHand, PCs, world, memory
  <2> QED BY <2>3, <2>4
<1>4. CASE AddNetworks
  <2>1. [up EXCEPT !.nets = @ \cup (res.nets \ obs.nets)] \in Routers
    BY <1>a, <1>b DEF TypeOK, Routers
  <2>a. \/ up' = up
        \/ up' = [up EXCEPT !.nets = @ \cup (res.nets \ obs.nets)]
    BY <1>4 DEF AddNetworks, Call
  <2>b. \/ faults' = faults
        \/ faults < MaxFaults /\ faults' = faults + 1
    BY <1>4 DEF AddNetworks, Call, Fault
  <2>c. up \in Routers /\ faults \in 0 .. MaxFaults
    BY <1>a DEF TypeOK
  <2>d. faults' \in 0 .. MaxFaults /\ faults' >= faults
    BY <2>b, <2>c
  <2>2. up' \in Routers /\ faults' \in 0 .. MaxFaults /\ faults' >= faults
    BY <2>1, <2>a, <2>c, <2>d
  <2>3. CASE EndPass
    BY <1>4, <2>3, <2>2, EndOfPass DEF AddNetworks
  <2>4. CASE ~EndPass
    <3>1. obs.nets \ res.nets \subseteq Networks
      BY <1>a DEF TypeOK, Routers
    <3>2. /\ pc = "attach" /\ pc' = "detach" /\ todo' = obs.nets \ res.nets
          /\ UNCHANGED <<res, obs, row, rel, world>> /\ (Counted \/ Uncounted)
      BY <1>4, <2>4 DEF AddNetworks, Call
    <3> QED
      BY <2>2, <3>1, <3>2, <1>a DEF Counted, Uncounted, BudgetInv, TypeOK, Budgeted, RowsInHand,
         PCs, world
  <2> QED BY <2>3, <2>4
<1>5. ASSUME NEW n \in Networks, DeleteRouterNetwork(n) PROVE BudgetInv'
  <2>1. Detached(n) \in Routers
    BY <1>a DEF TypeOK, Routers, Detached
  <2>2. up' \in Routers /\ faults' \in 0 .. MaxFaults /\ faults' >= faults
    BY <1>5, <1>a, <2>1 DEF DeleteRouterNetwork, Refused, Call, Fault, TypeOK
  <2>3. CASE EndPass
    BY <1>5, <2>3, <2>2, EndOfPass DEF DeleteRouterNetwork
  <2>4. CASE ~EndPass
    BY <1>5, <2>4, <2>2, <1>a DEF DeleteRouterNetwork, Refused, Call, Counted, Paced, BudgetInv,
       TypeOK, Budgeted, RowsInHand, PCs, world
  <2> QED BY <2>3, <2>4
<1>6. CASE DetachEnds
  <2>1. CASE EndPass
    BY <1>6, <2>1, <1>a, EndOfPass DEF DetachEnds, TypeOK
  <2>2. CASE ~EndPass
    BY <1>6, <2>2, <1>a, <1>b DEF DetachEnds, StartRows, Uncounted, BudgetInv, TypeOK, Budgeted, RowsInHand, PCs, world
  <2> QED BY <2>1, <2>2
<1>7. ASSUME NEW n \in Networks, PatchNetwork(n) PROVE BudgetInv'
  <2> DEFINE dhcp == IF n \in res.dhcp THEN up.dhcp \cup {n} ELSE up.dhcp \ {n}
  <2>1. [up EXCEPT !.dhcp = dhcp] \in Routers
    BY <1>a DEF TypeOK, Routers
  <2>a. \/ up' = up
        \/ up' = [up EXCEPT !.dhcp = dhcp]
    BY <1>7 DEF PatchNetwork, Refused, Call
  <2>b. \/ faults' = faults
        \/ faults < MaxFaults /\ faults' = faults + 1
    BY <1>7 DEF PatchNetwork, Refused, Call, Fault
  <2>c. up \in Routers /\ faults \in 0 .. MaxFaults
    BY <1>a DEF TypeOK
  <2>d. faults' \in 0 .. MaxFaults /\ faults' >= faults
    BY <2>b, <2>c
  <2>2. up' \in Routers /\ faults' \in 0 .. MaxFaults /\ faults' >= faults
    BY <2>1, <2>a, <2>c, <2>d
  <2>3. CASE EndPass
    BY <1>7, <2>3, <2>2, EndOfPass DEF PatchNetwork
  <2>4. CASE ~EndPass
    <3>1. /\ pc = "rows" /\ n \in todo /\ pc' = "nat" /\ row' = n /\ todo' = todo \ {n}
          /\ UNCHANGED <<res, obs, rel, world>> /\ ((Counted /\ ~Paced) \/ Uncounted)
      BY <1>7, <2>4 DEF PatchNetwork, Refused, Call
    <3> QED
      BY <2>2, <3>1, <1>a DEF Counted, Uncounted, Paced, BudgetInv, TypeOK, Budgeted, RowsInHand,
         PCs, world
  <2> QED BY <2>3, <2>4
<1>8. CASE ConvergeNAT
  <2> DEFINE want == res.nat[row]
  <2>1. CASE res.nat[row] = obs.nat[row] /\ NextRow /\ Uncounted /\ UNCHANGED <<up, faults>>
    BY <1>8, <2>1, <1>a DEF ConvergeNAT, NextRow, Uncounted, BudgetInv, TypeOK, Budgeted, RowsInHand, PCs, world
  <2>2. CASE bindNATIP(row, want)
    <3>1. [up EXCEPT !.bound[want] = "binding"] \in Routers
      BY <1>a DEF TypeOK, Routers
    <3>2. up' \in Routers /\ faults' \in 0 .. MaxFaults /\ faults' >= faults
      BY <2>2, <1>a, <3>1 DEF bindNATIP, Call, Fault, TypeOK
    <3>3. CASE EndPass
      BY <1>8, <3>3, <3>2, EndOfPass DEF ConvergeNAT
    <3>4. CASE ~EndPass
      BY <1>8, <2>2, <3>4, <3>2, <1>a DEF ConvergeNAT, bindNATIP, NextRow, Call, Counted, Uncounted,
         Paced, BudgetInv, TypeOK, Budgeted, RowsInHand, PCs, world
    <3> QED BY <3>3, <3>4
  <2>3. CASE UpdateRouterNat(row, want) \/ DeleteRouterNat(row, want)
    <3>1. /\ want \in Addrs => [up EXCEPT !.nat[row] = want] \in Routers
          /\ [up EXCEPT !.nat[row] = NoAddr] \in Routers
      BY <1>a DEF TypeOK, Routers
    <3>2. want \in routerOwnedIPs(obs) => want \in Addrs
      BY DEF routerOwnedIPs
    <3>3. up' \in Routers /\ faults' \in 0 .. MaxFaults /\ faults' >= faults
      BY <2>3, <1>a, <3>1, <3>2 DEF UpdateRouterNat, DeleteRouterNat, Refused, Call, Fault, TypeOK
    <3>4. CASE EndPass
      BY <1>8, <3>4, <3>3, EndOfPass DEF ConvergeNAT
    <3>5. CASE ~EndPass
      <4>1. /\ pc = "nat" /\ ~Paced /\ Counted /\ ThenRelease(obs.nat[row]) /\ UNCHANGED world
        BY <1>8, <2>3, <3>5 DEF ConvergeNAT, UpdateRouterNat, DeleteRouterNat, Refused, Call
      <4>2. obs.nat[row] \in Addrs \cup {NoAddr}
        BY <1>a, <1>b, <4>1 DEF TypeOK, RowsInHand, Routers
      <4>3. ops' = ops + 1 /\ calls' = calls + 1 /\ ops < MaxOps
        BY <4>1, <1>a DEF Counted, Paced, TypeOK
      <4>4. /\ res' = res /\ obs' = obs /\ todo' = todo /\ row' = NoNet
            /\ \/ pc' = "release" /\ rel' = obs.nat[row] /\ rel' # NoAddr /\ ops + 1 < MaxOps
               \/ pc' = "rows" /\ rel' = rel
        BY <4>1 DEF ThenRelease, NextRow
      <4>5. TypeOK'
        BY <4>1, <4>2, <4>3, <4>4, <3>3, <1>a DEF TypeOK, PCs, world
      <4>6. Budgeted'
        <5>1. /\ calls <= ops + faults /\ calls \in Nat /\ ops \in Nat
              /\ faults \in Nat /\ faults' \in Nat /\ faults' >= faults
          BY <3>3, <1>a DEF TypeOK, Budgeted
        <5>2. calls' <= ops' + faults'
          BY <4>3, <5>1, OneMore
        <5>3. \/ pc' = "rows"
              \/ pc' = "release" /\ ops' < MaxOps
          BY <4>3, <4>4
        <5> QED BY <5>2, <5>3 DEF Budgeted
      <4>7. RowsInHand'
        BY <4>1, <4>2, <4>4, <1>a DEF RowsInHand
      <4> QED BY <4>5, <4>6, <4>7 DEF BudgetInv
    <3> QED BY <3>4, <3>5
  <2> QED BY <1>8, <2>1, <2>2, <2>3 DEF ConvergeNAT
<1>9. CASE releaseNATIP
  BY <1>9, <1>a DEF releaseNATIP, Released, Uncounted, Fault, memory, BudgetInv, TypeOK, Budgeted,
     RowsInHand, PCs, world
<1>10. CASE UnbindFloatingIp
  <2>1. Unbound(rel, "free") \in Routers
    BY <1>a DEF TypeOK, Routers, Unbound
  <2>2. up' \in Routers /\ faults' \in 0 .. MaxFaults
    BY <1>10, <2>1, <1>a DEF UnbindFloatingIp, Fault, TypeOK
  <2>3. /\ \/ ops' = ops + 1 /\ faults' >= faults
           \/ ops' = ops /\ faults' = faults + 1
        /\ calls' = calls + 1
    BY <1>10, <1>a DEF UnbindFloatingIp, Fault, Counted, TypeOK
  <2> QED
    BY <1>10, <2>2, <2>3, <1>a DEF UnbindFloatingIp, Released, BudgetInv, TypeOK, Budgeted, RowsInHand,
       PCs, world
<1>11. CASE getStaticRoutes
  <2>1. [obs EXCEPT !.routes = up.routes] \in Routers
    BY <1>a DEF TypeOK, Routers
  <2> QED
    BY <1>11, <2>1, <1>a DEF getStaticRoutes, BudgetInv, TypeOK, Budgeted, RowsInHand, PCs, world
<1>12. ASSUME NEW s \in Subnets, DeleteStaticRoute(s) PROVE BudgetInv'
  <2>1. [up EXCEPT !.routes[s] = NoHop] \in Routers /\ [obs EXCEPT !.routes[s] = NoHop] \in Routers
    BY <1>a DEF TypeOK, Routers
  <2>2. up' \in Routers /\ faults' \in 0 .. MaxFaults /\ faults' >= faults
    BY <1>12, <1>a, <2>1 DEF DeleteStaticRoute, Call, Fault, TypeOK
  <2>3. CASE EndPass
    BY <1>12, <2>3, <2>2, EndOfPass DEF DeleteStaticRoute
  <2>4. CASE ~EndPass
    BY <1>12, <2>4, <2>1, <2>2, <1>a DEF DeleteStaticRoute, Call, Counted, Paced, BudgetInv, TypeOK,
       Budgeted, RowsInHand, PCs, world
  <2> QED BY <2>3, <2>4
<1>13. CASE DeletesDone
  BY <1>13, <1>a DEF DeletesDone, memory, BudgetInv, TypeOK, Budgeted, RowsInHand, PCs, world
<1>14. ASSUME NEW s \in Subnets, PostStaticRoute(s) PROVE BudgetInv'
  <2>1. /\ [up EXCEPT !.routes[s] = res.routes[s]] \in Routers
        /\ [obs EXCEPT !.routes[s] = res.routes[s]] \in Routers
    BY <1>a, <1>b DEF TypeOK, Routers
  <2>2. up' \in Routers /\ faults' \in 0 .. MaxFaults /\ faults' >= faults
    BY <1>14, <1>a, <2>1 DEF PostStaticRoute, Refused, Call, Fault, TypeOK
  <2>3. CASE EndPass
    BY <1>14, <2>3, <2>2, EndOfPass DEF PostStaticRoute
  <2>4. CASE ~EndPass
    BY <1>14, <2>4, <2>1, <2>2, <1>a DEF PostStaticRoute, Refused, Call, Counted, Paced, BudgetInv,
       TypeOK, Budgeted, RowsInHand, PCs, world
  <2> QED BY <2>3, <2>4
<1>15. CASE PassEnds
  BY <1>15, <1>a, EndOfPass DEF PassEnds, TypeOK
<1>16. CASE Starts \/ Edit
  BY <1>16, <1>a DEF Starts, Edit, memory, BudgetInv, TypeOK, Budgeted, RowsInHand
<1>17. ASSUME NEW a \in Addrs, Listed(a) PROVE BudgetInv'
  <2>1. up' \in Routers
    BY <1>17, <1>a DEF Listed, TypeOK, Routers
  <2> QED BY <1>17, <2>1, <1>a DEF Listed, memory, world, BudgetInv, TypeOK, Budgeted, RowsInHand
<1>18. CASE Panel
  <2>1. up' \in Routers
    <3>1. ASSUME NEW n \in Networks PROVE Detached(n) \in Routers
      BY <1>a DEF TypeOK, Routers, Detached
    <3>2. ASSUME NEW a \in Addrs, NEW to \in {"free", "elsewhere"} PROVE Unbound(a, to) \in Routers
      BY <1>a DEF TypeOK, Routers, Unbound
    <3>3. ASSUME NEW s \in Subnets PROVE [up EXCEPT !.routes[s] = NoHop] \in Routers
      BY <1>a DEF TypeOK, Routers
    <3>4. up.nets \subseteq Networks
      BY <1>a DEF TypeOK, Routers
    <3> QED BY <1>18, <3>1, <3>2, <3>3, <3>4 DEF Panel
  <2> QED
    BY <1>18, <2>1, <1>a DEF Panel, Fault, memory, BudgetInv, TypeOK, Budgeted, RowsInHand
<1>19. CASE Crash
  BY <1>19, <1>a, EndOfPass DEF Crash, Fault, TypeOK
<1>20. CASE UNCHANGED vars
  BY <1>20, <1>a DEF vars, BudgetInv, TypeOK, Budgeted, RowsInHand
<1> QED
  BY <1>1, <1>2, <1>3, <1>4, <1>5, <1>6, <1>7, <1>8, <1>9, <1>10, <1>11, <1>12, <1>13, <1>14,
     <1>15, <1>16, <1>17, <1>18, <1>19, <1>20 DEF Next, Reconcile

\* A router starts within types and budget.
LEMMA BudgetInit == Init => BudgetInv
<1> SUFFICES ASSUME Init PROVE BudgetInv
    OBVIOUS
<1>1. NoSpec \in Specs /\ NoRead \in Routers /\ spec \in Specs
  BY Forgotten DEF Init
<1>2. up \in Routers
  <2>1. PICK others \in [Addrs -> {"free", "elsewhere"}] : up = Created(spec, others)
    BY DEF Init
  <2>2. \A a \in Addrs : (IF \E n \in spec.nets : spec.nat[n] = a THEN "router" ELSE others[a])
                            \in {"free", "elsewhere", "binding", "router"}
    OBVIOUS
  <2>3. spec.nets \subseteq Networks /\ spec.label \in {q.label : q \in Specs}
    BY <1>1, SpecTypes
  <2> QED BY <2>1, <2>2, <2>3 DEF Created, Routers
<1>3. TypeOK
  <2>1. moved \in BOOLEAN /\ status \in {"starting", "started"} /\ pc \in PCs
    BY DEF Init, PCs
  <2>2. /\ res \in Specs /\ obs \in Routers /\ todo \subseteq Networks
        /\ row \in Networks \cup {NoNet} /\ rel \in Addrs \cup {NoAddr}
    BY <1>1 DEF Init
  <2>3. ops \in 0 .. MaxOps /\ calls \in Nat /\ faults \in 0 .. MaxFaults /\ edits \in 0 .. MaxEdits
    BY RouterAssumption DEF Init
  <2> QED BY <1>1, <1>2, <2>1, <2>2, <2>3 DEF TypeOK
<1>4. pc = "idle" /\ ops = 0 /\ calls = 0 /\ faults = 0
  BY DEF Init
<1>5. Budgeted /\ RowsInHand
  BY <1>4 DEF Budgeted, RowsInHand
<1> QED BY <1>3, <1>5 DEF BudgetInv

\* TypeOK is an invariant: every variable of the router's reconcile has its type, and
\* the counter of its pass never exceeds maxRouterMutationsPerReconcile.
THEOREM TypeCorrect == Spec => []TypeOK
<1>1. BudgetInv => TypeOK
  BY DEF BudgetInv
<1> QED BY <1>1, BudgetInit, BudgetStep, PTL DEF Spec

\* A pass of Update sends at most maxRouterMutationsPerReconcile paced calls besides
\* those that failed, for every declaration, budget and number of faults (BudgetKept).
THEOREM BudgetHolds == Spec => []BudgetKept
<1>1. BudgetInv => BudgetKept
  BY RouterAssumption DEF BudgetInv, TypeOK, Budgeted, BudgetKept
<1> QED BY <1>1, BudgetInit, BudgetStep, PTL DEF Spec

(***************************************************************************)
(* The router as a holder of addresses.                                    *)
(***************************************************************************)
\* An address that is about to be unbound is one no row asks for, and the
\* router's own unless somebody has worked in the panel since.
ReleaseHeld ==
  pc = "unbind" =>
    /\ \A n \in res.nets : res.nat[n] # rel
    /\ ~moved => up.bound[rel] \in {"binding", "router"}

\* The ways a step changes who holds an address.
Bound(new) == up'.bound = new
StepBinds(a) ==
  /\ up.bound[a] = "free" /\ \E n \in res.nets : res.nat[n] = a
  /\ Bound([up.bound EXCEPT ![a] = "binding"])
StepLists(a) ==
  up.bound[a] = "binding" /\ pc' = pc /\ Bound([up.bound EXCEPT ![a] = "router"])
StepUnbinds == pc = "unbind" /\ pc' = "rows" /\ Bound([up.bound EXCEPT ![rel] = "free"])
StepPanel(a) == moved' /\ \E to \in {"free", "elsewhere"} : Bound([up.bound EXCEPT ![a] = to])

\* Every step keeps the holders or changes one of them in one of these ways.
LEMMA BoundStep ==
  ASSUME BudgetInv, Next
  PROVE  \/ Bound(up.bound)
         \/ StepUnbinds
         \/ \E a \in Addrs : StepBinds(a) \/ StepLists(a) \/ StepPanel(a)
<1>a. TypeOK /\ RowsInHand /\ up \in Routers /\ up.bound \in [Addrs -> {"free", "elsewhere", "binding", "router"}]
  BY DEF BudgetInv, TypeOK, Routers
<1>1. CASE UnbindFloatingIp
  <2>1. up' = up \/ up' = Unbound(rel, "free")
    BY <1>1 DEF UnbindFloatingIp
  <2>2. Unbound(rel, "free").bound = [up.bound EXCEPT ![rel] = "free"]
    BY <1>a DEF Unbound, Routers
  <2> QED BY <1>1, <2>1, <2>2 DEF UnbindFloatingIp, Released, StepUnbinds, Bound
<1>2. CASE ConvergeNAT
  <2> DEFINE want == res.nat[row]
  <2>1. CASE up' = [up EXCEPT !.bound[want] = "binding"] /\ bindNATIP(row, want)
    <3>1. want \in Addrs /\ row \in res.nets
      <4>1. row \in res.nets /\ want # NoAddr
        BY <1>2, <1>a, <2>1 DEF ConvergeNAT, RowsInHand, bindNATIP
      <4>2. row \in Networks /\ res.nat \in [Networks -> Addrs \cup {NoAddr}]
        BY <4>1, <1>a, SpecTypes DEF TypeOK
      <4> QED BY <4>1, <4>2
    <3>2. CASE up.bound[want] = "free"
      <4>1. up'.bound = [up.bound EXCEPT ![want] = "binding"]
        BY <2>1, <1>a DEF Routers
      <4> QED BY <3>1, <3>2, <4>1 DEF StepBinds, Bound
    <3>3. CASE up.bound[want] # "free"
      <4>1. natIPBindability(want) # "natIPFree"
        BY <3>3, <3>1, <1>a DEF natIPBindability
      <4>2. up' = up
        BY <2>1, <4>1 DEF bindNATIP
      <4> QED BY <4>2 DEF Bound
    <3> QED BY <3>2, <3>3
  <2>2. CASE up' = up
    BY <2>2 DEF Bound
  <2>3. CASE UpdateRouterNat(row, want) \/ DeleteRouterNat(row, want)
    <3>1. \/ up' = up
          \/ up' = [up EXCEPT !.nat[row] = want]
          \/ up' = [up EXCEPT !.nat[row] = NoAddr]
      BY <2>3 DEF UpdateRouterNat, DeleteRouterNat, Refused, Call
    <3> QED BY <3>1, <1>a DEF Bound, Routers
  <2>4. ASSUME bindNATIP(row, want)
        PROVE  up' = up \/ up' = [up EXCEPT !.bound[want] = "binding"]
    BY <2>4 DEF bindNATIP, Call
  <2> QED BY <1>2, <2>1, <2>2, <2>3, <2>4 DEF ConvergeNAT
<1>3. ASSUME NEW a \in Addrs, Listed(a) PROVE StepLists(a)
  BY <1>3, <1>a DEF Listed, StepLists, Bound, Routers
<1>4. CASE Panel
  <2>1. ASSUME NEW n \in Networks PROVE Detached(n).bound = up.bound
    BY <1>a DEF Detached, Routers
  <2>2. ASSUME NEW a \in Addrs, NEW to \in {"free", "elsewhere"}
        PROVE  Unbound(a, to).bound = [up.bound EXCEPT ![a] = to]
    BY <1>a DEF Unbound, Routers
  <2>3. ASSUME NEW s \in Subnets PROVE [up EXCEPT !.routes[s] = NoHop].bound = up.bound
    BY <1>a DEF Routers
  <2>4. up.nets \subseteq Networks
    BY <1>a DEF Routers
  <2>5. moved'
    BY <1>4 DEF Panel
  <2>6. \/ \E n \in up.nets : up' = Detached(n)
        \/ \E a \in Addrs, to \in {"free", "elsewhere"} : up' = Unbound(a, to)
        \/ \E s \in Subnets : up' = [up EXCEPT !.routes[s] = NoHop]
    BY <1>4 DEF Panel
  <2>7. \/ Bound(up.bound)
        \/ \E a \in Addrs, to \in {"free", "elsewhere"} : Bound([up.bound EXCEPT ![a] = to])
    <3>1. ASSUME NEW n \in up.nets, up' = Detached(n) PROVE Bound(up.bound)
      BY <2>1, <2>4, <3>1 DEF Bound
    <3>2. ASSUME NEW a \in Addrs, NEW to \in {"free", "elsewhere"}, up' = Unbound(a, to)
          PROVE  Bound([up.bound EXCEPT ![a] = to])
      BY <2>2, <3>2 DEF Bound
    <3>3. ASSUME NEW s \in Subnets, up' = [up EXCEPT !.routes[s] = NoHop] PROVE Bound(up.bound)
      BY <2>3, <3>3 DEF Bound
    <3> QED BY <2>6, <3>1, <3>2, <3>3
  <2> QED BY <2>5, <2>7 DEF StepPanel
<1>5. CASE \/ Observe \/ Update \/ DetachEnds \/ releaseNATIP \/ getStaticRoutes \/ DeletesDone
           \/ PassEnds \/ Starts \/ Edit \/ Crash
  BY <1>5 DEF Observe, Update, DetachEnds, releaseNATIP, getStaticRoutes, DeletesDone, PassEnds,
     Starts, Edit, Crash, Bound
<1>6. CASE PatchLabel \/ AddNetworks
  <2>1. \/ up' = up
        \/ up' = [up EXCEPT !.label = res.label]
        \/ up' = [up EXCEPT !.nets = @ \cup (res.nets \ obs.nets)]
    BY <1>6 DEF PatchLabel, AddNetworks, Call
  <2> QED BY <2>1, <1>a DEF Bound, Routers
<1>7. ASSUME NEW n \in Networks, DeleteRouterNetwork(n) \/ PatchNetwork(n) PROVE Bound(up.bound)
  <2>1. \/ up' = up
        \/ up' = Detached(n)
        \/ up' = [up EXCEPT !.dhcp = IF n \in res.dhcp THEN up.dhcp \cup {n} ELSE up.dhcp \ {n}]
    BY <1>7 DEF DeleteRouterNetwork, PatchNetwork, Refused, Call
  <2> QED BY <2>1, <1>a DEF Detached, Bound, Routers
<1>8. ASSUME NEW s \in Subnets, DeleteStaticRoute(s) \/ PostStaticRoute(s) PROVE Bound(up.bound)
  <2>1. \/ up' = up
        \/ up' = [up EXCEPT !.routes[s] = NoHop]
        \/ up' = [up EXCEPT !.routes[s] = res.routes[s]]
    BY <1>8 DEF DeleteStaticRoute, PostStaticRoute, Refused, Call
  <2> QED BY <2>1, <1>a DEF Bound, Routers
<1> QED BY <1>1, <1>2, <1>3, <1>4, <1>5, <1>6, <1>7, <1>8 DEF Next, Reconcile


\* Who is asked for what, and who holds what, as AddressLease sees it.
Asked == [h \in {"router"} |-> {res.nat[n] : n \in res.nets} \ {NoAddr}]
Held == [a \in Addrs |-> Holding(a)]

\* Only a release that is in hand leads to an unbind, and until then neither an edit
\* nor the binding of an address gets between.
LEMMA HeldStep == BudgetInv /\ ReleaseHeld /\ [Next]_vars => ReleaseHeld'
<1> SUFFICES ASSUME BudgetInv, ReleaseHeld, [Next]_vars, pc' = "unbind"
             PROVE  /\ \A n \in res'.nets : res'.nat[n] # rel'
                    /\ ~moved' => up'.bound[rel'] \in {"binding", "router"}
    BY DEF ReleaseHeld
<1>a. TypeOK /\ RowsInHand /\ up.bound \in [Addrs -> {"free", "elsewhere", "binding", "router"}]
  BY DEF BudgetInv, TypeOK, Routers
<1>1. CASE releaseNATIP
  <2>1. /\ pc = "release" /\ Releasable(rel) /\ res' = res /\ rel' = rel /\ up' = up /\ rel \in Addrs
    BY <1>1, <1>a DEF releaseNATIP, Released, memory, RowsInHand
  <2>2. up.bound[rel] \in {"binding", "router"}
    BY <2>1, <1>a DEF Releasable, natIPBindability
  <2> QED BY <2>1, <2>2 DEF Releasable
<1>2. CASE \/ Starts \/ Edit \/ UNCHANGED vars
  BY <1>2 DEF Starts, Edit, vars, memory, ReleaseHeld
<1>3. ASSUME NEW a \in Addrs, Listed(a)
      PROVE  /\ \A n \in res'.nets : res'.nat[n] # rel'
             /\ ~moved' => up'.bound[rel'] \in {"binding", "router"}
  <2>1. /\ pc = "unbind" /\ res' = res /\ rel' = rel /\ moved' = moved /\ rel \in Addrs
    BY <1>3, <1>a DEF Listed, memory, world, RowsInHand
  <2>2. up'.bound = [up.bound EXCEPT ![a] = "router"]
    BY <1>3, <1>a DEF Listed, TypeOK, Routers
  <2> QED BY <2>1, <2>2, <1>a DEF ReleaseHeld
<1>4. CASE Panel
  BY <1>4 DEF Panel, memory, ReleaseHeld
<1>5. CASE \/ Observe \/ Update \/ DetachEnds \/ getStaticRoutes \/ DeletesDone \/ PassEnds \/ Crash
           \/ PatchLabel \/ AddNetworks \/ UnbindFloatingIp
  BY <1>5 DEF Observe, Update, DetachEnds, getStaticRoutes, DeletesDone, PassEnds, Crash, EndPass,
     StartRows, PatchLabel, AddNetworks, Call, UnbindFloatingIp, Released
<1>6. CASE ConvergeNAT
  BY <1>6 DEF ConvergeNAT, bindNATIP, UpdateRouterNat, DeleteRouterNat, Refused, Call, EndPass,
     NextRow, ThenRelease
<1>7. ASSUME NEW n \in Networks, DeleteRouterNetwork(n) \/ PatchNetwork(n) PROVE FALSE
  BY <1>7 DEF DeleteRouterNetwork, PatchNetwork, Refused, Call, EndPass
<1>8. ASSUME NEW s \in Subnets, DeleteStaticRoute(s) \/ PostStaticRoute(s) PROVE FALSE
  BY <1>8 DEF DeleteStaticRoute, PostStaticRoute, Refused, Call, EndPass
<1> QED BY <1>1, <1>2, <1>3, <1>4, <1>5, <1>6, <1>7, <1>8 DEF Next, Reconcile

\* The router's steps are steps of AddressLease or leave the addresses alone.
LEMMA LeaseStep ==
  BudgetInv /\ ReleaseHeld /\ [Next]_vars => [Lease!Next]_<<Held, Asked, moved>>
<1> SUFFICES ASSUME BudgetInv, ReleaseHeld, [Next]_vars PROVE [Lease!Next]_<<Held, Asked, moved>>
    OBVIOUS
<1>a. TypeOK /\ TypeOK' /\ RowsInHand
  BY BudgetStep DEF BudgetInv
<1>b. /\ up.bound \in [Addrs -> {"free", "elsewhere", "binding", "router"}]
      /\ up'.bound \in [Addrs -> {"free", "elsewhere", "binding", "router"}]
  BY <1>a DEF TypeOK, Routers
<1>c. CASE UNCHANGED vars
  BY <1>c DEF vars, Held, Asked, Holding
<1>d. ASSUME Next PROVE Lease!Next
  <2>1. Lease!Asks
    <3>1. res' \in Specs
      BY <1>a DEF TypeOK
    <3>2. /\ res'.nets \subseteq Networks
          /\ res'.nat \in [Networks -> Addrs \cup {NoAddr}]
      BY <3>1, SpecTypes
    <3>3. {res'.nat[n] : n \in res'.nets} \ {NoAddr} \subseteq Addrs
      BY <3>2
    <3>4. moved => moved'
      BY <1>d DEF Next, Reconcile, world, memory, Observe, Update, PatchLabel, AddNetworks, DetachEnds,
         ConvergeNAT, releaseNATIP, UnbindFloatingIp, getStaticRoutes, DeletesDone, PassEnds,
         DeleteRouterNetwork, PatchNetwork, DeleteStaticRoute, PostStaticRoute, Starts, Listed, Edit,
         Panel, Crash
    <3> QED BY <3>3, <3>4 DEF Lease!Asks
  <2>2. CASE Bound(up.bound)
    <3>1. Held' = Held
      BY <2>2 DEF Bound, Held, Holding
    <3> QED BY <2>1, <3>1 DEF Lease!Next, Held
  <2>3. CASE StepUnbinds
    <3>1. rel \in Addrs
      BY <2>3, <1>a DEF StepUnbinds, RowsInHand
    <3>2. Held' = [Held EXCEPT ![rel] = "free"]
      BY <2>3, <3>1, <1>b DEF StepUnbinds, Bound, Held, Holding
    <3>3. CASE moved
      <4>1. Lease!LateRelease(rel)
        BY <3>2, <3>3 DEF Lease!LateRelease, Held
      <4> QED BY <2>1, <3>1, <4>1 DEF Lease!Next
    <3>4. CASE ~moved
      <4>1. /\ \A n \in res.nets : res.nat[n] # rel
            /\ up.bound[rel] \in {"binding", "router"}
        BY <2>3, <3>4 DEF StepUnbinds, ReleaseHeld
      <4>2. Held[rel] = "router"
        BY <3>1, <4>1 DEF Held, Holding
      <4>3. rel \notin {res.nat[n] : n \in res.nets} \ {NoAddr}
        BY <4>1
      <4>4. Lease!Release("router", rel)
        BY <3>2, <4>2, <4>3 DEF Lease!Release, Held
      <4> QED BY <2>1, <3>1, <4>4 DEF Lease!Next
    <3> QED BY <3>3, <3>4
  <2>4. ASSUME NEW a \in Addrs, StepBinds(a) PROVE Lease!Next
    <3>1. Held' = [Held EXCEPT ![a] = "router"] /\ Held[a] = "free"
      BY <2>4, <1>b DEF StepBinds, Bound, Held, Holding
    <3>2. a \in {res.nat[n] : n \in res.nets} \ {NoAddr}
      BY <2>4, RouterAssumption DEF StepBinds
    <3>3. Lease!Take("router", a)
      BY <3>1, <3>2 DEF Lease!Take, Held
    <3> QED BY <2>1, <3>3 DEF Lease!Next
  <2>5. ASSUME NEW a \in Addrs, StepLists(a) PROVE Lease!Next
    <3>1. Held' = Held
      BY <2>5, <1>b DEF StepLists, Bound, Held, Holding
    <3> QED BY <2>1, <3>1 DEF Lease!Next, Held
  <2>6. ASSUME NEW a \in Addrs, StepPanel(a) PROVE Lease!Next
    <3>1. PICK to \in {"free", "elsewhere"} : Bound([up.bound EXCEPT ![a] = to])
      BY <2>6 DEF StepPanel
    <3>2. Held' = [Held EXCEPT ![a] = to]
      BY <3>1, <1>b DEF Bound, Held, Holding
    <3>3. moved'
      BY <2>6 DEF StepPanel
    <3>4. Lease!PanelMoves(a)
      BY <3>2, <3>3 DEF Lease!PanelMoves, Held
    <3> QED BY <2>1, <3>4 DEF Lease!Next
  <2> QED BY <1>d, BoundStep, <2>2, <2>3, <2>4, <2>5, <2>6
<1> QED BY <1>c, <1>d

\* The router implements AddressLease, for every set of networks, addresses and
\* declarations, through crashes, failed and dropped calls, edits in mid-pass: it takes
\* no address from its holder, and gives back none that a row of its declaration asks
\* for; only after somebody has worked in the panel may an unbind hit another holder
\* (KeepsLeases).
THEOREM LeasesKept == Spec => KeepsLeases
<1>1. Init => BudgetInv /\ ReleaseHeld
  BY BudgetInit DEF Init, ReleaseHeld
<1>2. Init => Lease!Init
  <2> SUFFICES ASSUME Init PROVE Lease!Init
    OBVIOUS
  <2>1. TypeOK
    BY BudgetInit DEF BudgetInv
  <2>2. up.bound \in [Addrs -> {"free", "elsewhere", "binding", "router"}]
    BY <2>1 DEF TypeOK, Routers
  <2>3. [a \in Addrs |-> Holding(a)] \in [Addrs -> {"router"} \cup {"free", "elsewhere"}]
    BY <2>2 DEF Holding
  <2>4. res \in Specs /\ res.nets \subseteq Networks
        /\ res.nat \in [Networks -> Addrs \cup {NoAddr}]
    BY <2>1, SpecTypes DEF TypeOK
  <2>5. {res.nat[n] : n \in res.nets} \ {NoAddr} \subseteq Addrs
    BY <2>4
  <2>6. ~moved
    BY DEF Init
  <2> QED BY <2>3, <2>5, <2>6 DEF Lease!Init
<1>3. BudgetInv /\ ReleaseHeld /\ [Next]_vars => (BudgetInv /\ ReleaseHeld)'
  BY BudgetStep, HeldStep
<1> QED BY <1>1, <1>2, <1>3, LeaseStep, PTL DEF Spec, KeepsLeases, Lease!Spec, Held, Asked

(***************************************************************************)
(* The last network.                                                       *)
(***************************************************************************)
\* As long as nothing has gone wrong, the networks Update read are still the attached
\* ones when it comes to attach, and from then on the router has those it wants and
\* those it has yet to detach, and no network is both.
NetsTracked ==
  faults = 0 =>
    /\ pc \in {"label", "attach"} => obs.nets = up.nets
    /\ pc = "detach" => up.nets = res.nets \cup todo /\ res.nets \cap todo = {}

\* A step that keeps the place in the pass, what it reads and the attached networks
\* keeps NetsTracked, and so does one that leads out of the pass's first half.
LEMMA TrackedElsewhere ==
  ASSUME NetsTracked, BudgetInv, faults' \in Nat, faults' >= faults,
         \/ pc' \notin {"label", "attach", "detach"}
         \/ faults' # 0
         \/ UNCHANGED <<pc, res, obs, todo>> /\ up'.nets = up.nets
  PROVE  NetsTracked'
<1>1. faults \in Nat
  BY RouterAssumption DEF BudgetInv, TypeOK
<1>2. faults' = 0 => faults = 0
  BY <1>1
<1> QED BY <1>2 DEF NetsTracked

\* Faults only grow.
LEMMA FaultsGrow == BudgetInv /\ [Next]_vars => faults' \in Nat /\ faults' >= faults
<1> SUFFICES ASSUME BudgetInv, [Next]_vars PROVE faults' \in Nat /\ faults' >= faults
  OBVIOUS
<1>1. faults \in Nat
  BY RouterAssumption DEF BudgetInv, TypeOK
<1>2. faults' = faults \/ faults' = faults + 1
  BY DEF Next, Reconcile, Observe, Update, PatchLabel, AddNetworks, DetachEnds, ConvergeNAT, bindNATIP,
     UpdateRouterNat, DeleteRouterNat, releaseNATIP, UnbindFloatingIp, getStaticRoutes, DeletesDone,
     PassEnds, DeleteRouterNetwork, PatchNetwork, DeleteStaticRoute, PostStaticRoute, Starts, Listed,
     Edit, Panel, Crash, Call, Refused, Fault, vars
<1> QED BY <1>1, <1>2

\* Every step keeps track of the networks.
LEMMA TrackedStep == BudgetInv /\ NetsTracked /\ [Next]_vars => NetsTracked'
<1> SUFFICES ASSUME BudgetInv, NetsTracked, [Next]_vars PROVE NetsTracked'
  OBVIOUS
<1>a. faults \in Nat /\ faults' \in Nat /\ faults' >= faults
  BY FaultsGrow, RouterAssumption DEF BudgetInv, TypeOK
<1>b. up \in Routers /\ obs \in Routers
  BY DEF BudgetInv, TypeOK
<1>1. CASE Update
  BY <1>1 DEF Update, EndPass, NetsTracked
<1>2. CASE PatchLabel
  <2>1. CASE faults' # 0
    BY <2>1, <1>a, TrackedElsewhere
  <2>2. CASE faults' = 0
    <3>1. faults = 0
      BY <2>2, <1>a
    <3>2. /\ pc = "label" /\ pc' \in {"attach", "idle"} /\ (pc' = "attach" => obs' = obs)
          /\ up' = up \/ up' = [up EXCEPT !.label = res.label]
      BY <1>2 DEF PatchLabel, Call, EndPass, memory
    <3>3. up'.nets = up.nets
      BY <3>2, <1>b DEF Routers
    <3> QED BY <3>1, <3>2, <3>3 DEF NetsTracked
  <2> QED BY <2>1, <2>2
<1>3. CASE AddNetworks
  <2>1. CASE faults' # 0
    BY <2>1, <1>a, TrackedElsewhere
  <2>2. CASE faults' = 0
    <3>1. faults = 0 /\ faults' = faults /\ faults' # faults + 1
      BY <2>2, <1>a
    <3>2. obs.nets = up.nets
      BY <1>3, <3>1 DEF AddNetworks, NetsTracked
    <3>3. /\ pc' = "detach" /\ todo' = obs.nets \ res.nets /\ res' = res
          /\ \/ res.nets \ obs.nets = {} /\ up' = up
             \/ up' = [up EXCEPT !.nets = @ \cup (res.nets \ obs.nets)]
      BY <1>3, <3>1 DEF AddNetworks, Call, Fault
    <3>4. up'.nets = up.nets \cup res.nets
      BY <3>2, <3>3, <1>b DEF Routers
    <3> QED BY <3>2, <3>3, <3>4 DEF NetsTracked
  <2> QED BY <2>1, <2>2
<1>4. ASSUME NEW n \in Networks, DeleteRouterNetwork(n) PROVE NetsTracked'
  <2>1. CASE faults' # 0
    BY <2>1, <1>a, TrackedElsewhere
  <2>2. CASE faults' = 0
    <3>1. faults = 0 /\ faults' = faults /\ faults' # faults + 1
      BY <2>2, <1>a
    <3>2. pc = "detach" /\ n \in todo /\ up.nets = res.nets \cup todo /\ res.nets \cap todo = {}
      BY <1>4, <3>1 DEF DeleteRouterNetwork, NetsTracked
    <3>3. \/ pc' = "idle"
          \/ pc' = pc /\ res' = res /\ todo' = todo \ {n} /\ up' = Detached(n)
      BY <1>4, <3>1 DEF DeleteRouterNetwork, Refused, Call, Fault, EndPass
    <3>4. Detached(n).nets = up.nets \ {n}
      BY <1>b DEF Detached, Routers
    <3> QED BY <3>2, <3>3, <3>4 DEF NetsTracked
  <2> QED BY <2>1, <2>2
<1>5. CASE Panel \/ Crash
  <2>1. faults' # 0
    BY <1>5, <1>a DEF Panel, Crash, Fault
  <2> QED BY <2>1, <1>a, TrackedElsewhere
<1>6. CASE Starts \/ Edit \/ UNCHANGED vars
  BY <1>6, <1>a, TrackedElsewhere DEF Starts, Edit, memory, vars
<1>7. ASSUME NEW a \in Addrs, Listed(a) PROVE NetsTracked'
  <2>1. up'.nets = up.nets /\ UNCHANGED <<pc, res, obs, todo>>
    BY <1>7, <1>b DEF Listed, memory, Routers
  <2> QED BY <2>1, <1>a, TrackedElsewhere
<1>8. CASE \/ Observe \/ DetachEnds \/ ConvergeNAT \/ releaseNATIP \/ UnbindFloatingIp
           \/ getStaticRoutes \/ DeletesDone \/ PassEnds
           \/ (\E n \in Networks : PatchNetwork(n))
           \/ (\E s \in Subnets : DeleteStaticRoute(s) \/ PostStaticRoute(s))
  <2>1. pc' \notin {"label", "attach", "detach"}
    BY <1>8 DEF Observe, DetachEnds, StartRows, ConvergeNAT, bindNATIP, UpdateRouterNat, DeleteRouterNat,
       NextRow, ThenRelease, releaseNATIP, UnbindFloatingIp, Released, getStaticRoutes, DeletesDone,
       PassEnds, PatchNetwork, DeleteStaticRoute, PostStaticRoute, Call, Refused, EndPass
  <2> QED BY <2>1, <1>a, TrackedElsewhere
<1> QED BY <1>1, <1>2, <1>3, <1>4, <1>5, <1>6, <1>7, <1>8 DEF Next, Reconcile

\* As long as every call did what it was acknowledged for, Update never asks to detach
\* the last network of the router, for every set of networks and of declarations, with
\* edits in mid-pass: the count in its guard is then the number of attached networks
\* (NeverDetachesLast).
THEOREM LastNetworkKept == Spec => NeverDetachesLast
<1>1. Init => BudgetInv /\ NetsTracked
  BY BudgetInit DEF Init, NetsTracked
<1>2. BudgetInv /\ NetsTracked /\ [Next]_vars => (BudgetInv /\ NetsTracked)'
  BY BudgetStep, TrackedStep
<1>3. ASSUME BudgetInv, NetsTracked, NEW n \in Networks, DeleteRouterNetwork(n), up.nets = {n}
      PROVE  faults > 0
  <2>1. faults \in Nat
    BY <1>3, RouterAssumption DEF BudgetInv, TypeOK
  <2>2. CASE faults = 0
    <3>1. res.nets \cup todo = {n}
      BY <1>3, <2>2 DEF NetsTracked, DeleteRouterNetwork
    <3>2. upstreamCount = 1
      BY <3>1, FS_Singleton DEF upstreamCount
    <3>3. upstreamCount > 1
      BY <1>3 DEF DeleteRouterNetwork
    <3> QED BY <3>2, <3>3
  <2> QED BY <2>1, <2>2
<1>4. BudgetInv /\ NetsTracked =>
        [\A n \in Networks : DeleteRouterNetwork(n) => up.nets # {n} \/ faults > 0]_vars
  BY <1>3
<1> QED BY <1>1, <1>2, <1>4, PTL DEF Spec, NeverDetachesLast


(***************************************************************************)
(* Nothing that is right is undone.                                        *)
(***************************************************************************)
\* What is about to be detached is not declared, and a route that is about to be
\* deleted is the one that was read, or gone.
UndoesWrong ==
  /\ pc = "detach" => todo \cap res.nets = {}
  /\ pc = "delRoutes" => \A s \in Subnets : obs.routes[s] \notin {NoHop, res.routes[s]} =>
                           up.routes[s] \in {NoHop, obs.routes[s]}

\* Label, networks, DHCP, NAT and routes that are as declared by sp stay so, and no
\* network is attached that is not declared.
KeepsRight(sp) ==
  /\ up.label = sp.label => up'.label = sp.label
  /\ up.nets \cap sp.nets \subseteq up'.nets /\ up'.nets \subseteq up.nets \cup sp.nets
  /\ \A n \in Networks : (n \in up.dhcp <=> n \in sp.dhcp) => (n \in up'.dhcp <=> n \in sp.dhcp)
  /\ \A n \in Networks : up.nat[n] = sp.nat[n] => up'.nat[n] = sp.nat[n]
  /\ \A s \in Subnets : up.routes[s] = sp.routes[s] => up'.routes[s] = sp.routes[s]

LEMMA NothingDone == ASSUME up' = up, NEW sp PROVE KeepsRight(sp)
BY DEF KeepsRight

LEMMA UndoesStep == BudgetInv /\ UndoesWrong /\ [Next]_vars => UndoesWrong'
<1> SUFFICES ASSUME BudgetInv, UndoesWrong, [Next]_vars PROVE UndoesWrong'
  OBVIOUS
<1>a. up \in Routers /\ obs \in Routers
  BY DEF BudgetInv, TypeOK
<1>b. /\ up.routes \in [Subnets -> Hops \cup {NoHop}]
      /\ obs.routes \in [Subnets -> Hops \cup {NoHop}]
  BY <1>a DEF Routers
<1>1. ASSUME pc' \notin {"detach", "delRoutes"} PROVE UndoesWrong'
  BY <1>1 DEF UndoesWrong
<1>2. ASSUME UNCHANGED <<pc, res, obs, todo>>, up'.routes = up.routes PROVE UndoesWrong'
  BY <1>2 DEF UndoesWrong
<1>3. CASE AddNetworks
  BY <1>3 DEF AddNetworks, Call, EndPass, UndoesWrong
<1>4. ASSUME NEW n \in Networks, DeleteRouterNetwork(n) PROVE UndoesWrong'
  BY <1>4 DEF DeleteRouterNetwork, Refused, Call, EndPass, UndoesWrong
<1>5. CASE getStaticRoutes
  <2>1. pc' = "delRoutes" /\ up' = up /\ obs' = [obs EXCEPT !.routes = up.routes]
    BY <1>5 DEF getStaticRoutes
  <2>2. obs'.routes = up'.routes
    BY <2>1, <1>a DEF Routers
  <2> QED BY <2>1, <2>2 DEF UndoesWrong
<1>6. ASSUME NEW s \in Subnets, DeleteStaticRoute(s) PROVE UndoesWrong'
  <2>1. CASE pc' = "idle"
    BY <1>1, <2>1
  <2>2. CASE pc' # "idle"
    <3>1. /\ pc = "delRoutes" /\ pc' = pc /\ res' = res
          /\ obs' = [obs EXCEPT !.routes[s] = NoHop]
          /\ up' = up \/ up' = [up EXCEPT !.routes[s] = NoHop]
      BY <1>6, <2>2 DEF DeleteStaticRoute, Call, EndPass
    <3>2. obs'.routes = [obs.routes EXCEPT ![s] = NoHop]
      BY <3>1, <1>a DEF Routers
    <3>3. up'.routes = up.routes \/ up'.routes = [up.routes EXCEPT ![s] = NoHop]
      BY <3>1, <1>a DEF Routers
    <3> QED BY <1>b, <3>1, <3>2, <3>3 DEF UndoesWrong
  <2> QED BY <2>1, <2>2
<1>7. CASE Panel
  <2>1. UNCHANGED <<pc, res, obs, todo>>
    BY <1>7 DEF Panel, memory
  <2>2. ASSUME NEW n \in Networks PROVE Detached(n).routes = up.routes
    BY <1>a DEF Detached, Routers
  <2>3. ASSUME NEW a, NEW to PROVE Unbound(a, to).routes = up.routes
    BY <1>a DEF Unbound, Routers
  <2>4. up.nets \subseteq Networks
    BY <1>a DEF Routers
  <2>5. \/ up'.routes = up.routes
        \/ \E s \in Subnets : up' = [up EXCEPT !.routes[s] = NoHop]
    BY <1>7, <2>2, <2>3, <2>4 DEF Panel
  <2>6. ASSUME NEW s \in Subnets, up' = [up EXCEPT !.routes[s] = NoHop] PROVE UndoesWrong'
    <3>1. up'.routes = [up.routes EXCEPT ![s] = NoHop]
      BY <2>6, <1>a DEF Routers
    <3> QED BY <1>b, <2>1, <3>1 DEF UndoesWrong
  <2> QED BY <1>2, <2>1, <2>5, <2>6
<1>8. ASSUME NEW a \in Addrs, Listed(a) PROVE UndoesWrong'
  <2>1. up'.routes = up.routes
    BY <1>8, <1>a DEF Listed, Routers
  <2> QED BY <1>2, <1>8, <2>1 DEF Listed, memory
<1>9. CASE Starts \/ Edit \/ UNCHANGED vars
  BY <1>2, <1>9 DEF Starts, Edit, memory, vars
<1>10. CASE \/ Observe \/ Update \/ PatchLabel \/ DetachEnds \/ ConvergeNAT \/ releaseNATIP
            \/ UnbindFloatingIp \/ DeletesDone \/ PassEnds \/ Crash
            \/ (\E n \in Networks : PatchNetwork(n)) \/ (\E s \in Subnets : PostStaticRoute(s))
  <2>1. pc' \notin {"detach", "delRoutes"}
    BY <1>10 DEF Observe, Update, PatchLabel, DetachEnds, StartRows, ConvergeNAT, bindNATIP, UpdateRouterNat,
       DeleteRouterNat, NextRow, ThenRelease, releaseNATIP, UnbindFloatingIp, Released, DeletesDone,
       PassEnds, Crash, PatchNetwork, PostStaticRoute, Call, Refused, EndPass
  <2> QED BY <1>1, <2>1
<1> QED BY <1>3, <1>4, <1>5, <1>6, <1>7, <1>8, <1>9, <1>10 DEF Next, Reconcile

\* Each kind of call, on its own part of the router.
LEMMA RightKept ==
  ASSUME BudgetInv, ReleaseHeld, UndoesWrong, Reconcile
  PROVE  KeepsRight(res)
<1>a. up \in Routers /\ obs \in Routers /\ res \in Specs /\ RowsInHand
  BY DEF BudgetInv, TypeOK
<1>b. /\ up.routes \in [Subnets -> Hops \cup {NoHop}] /\ up.nat \in [Networks -> Addrs \cup {NoAddr}]
      /\ up.nets \subseteq Networks /\ up.dhcp \subseteq Networks
  BY <1>a DEF Routers
<1>c. /\ res.nets \subseteq Networks /\ res.dhcp \subseteq res.nets
      /\ \A n \in Networks \ res.nets : res.nat[n] = NoAddr
  BY <1>a, RouterAssumption
<1>1. CASE PatchLabel
  <2>1. up' = up \/ up' = [up EXCEPT !.label = res.label]
    BY <1>1 DEF PatchLabel, Call
  <2> QED BY <2>1, <1>a DEF KeepsRight, Routers
<1>2. CASE AddNetworks
  <2>1. up' = up \/ up' = [up EXCEPT !.nets = @ \cup (res.nets \ obs.nets)]
    BY <1>2 DEF AddNetworks, Call
  <2> QED BY <2>1, <1>a DEF KeepsRight, Routers
<1>3. ASSUME NEW n \in Networks, DeleteRouterNetwork(n) PROVE KeepsRight(res)
  <2>1. n \notin res.nets /\ (up' = up \/ up' = Detached(n))
    BY <1>3 DEF DeleteRouterNetwork, Refused, Call, UndoesWrong
  <2>2. ASSUME up' = Detached(n) PROVE KeepsRight(res)
    <3>1. /\ up'.label = up.label /\ up'.routes = up.routes
          /\ up'.nets = up.nets \ {n} /\ up'.dhcp = up.dhcp \ {n}
          /\ up'.nat = [up.nat EXCEPT ![n] = NoAddr]
      BY <2>2, <1>a DEF Detached, Routers
    <3> QED BY <1>b, <1>c, <2>1, <3>1 DEF KeepsRight
  <2> QED BY <2>1, <2>2, NothingDone
<1>4. ASSUME NEW n \in Networks, PatchNetwork(n) PROVE KeepsRight(res)
  <2>1. up' = up \/ up' = [up EXCEPT !.dhcp = IF n \in res.dhcp THEN up.dhcp \cup {n} ELSE up.dhcp \ {n}]
    BY <1>4 DEF PatchNetwork, Refused, Call
  <2>2. /\ up'.label = up.label /\ up'.routes = up.routes /\ up'.nets = up.nets /\ up'.nat = up.nat
        /\ up'.dhcp \in {up.dhcp, IF n \in res.dhcp THEN up.dhcp \cup {n} ELSE up.dhcp \ {n}}
    BY <2>1, <1>a DEF Routers
  <2> QED BY <2>2 DEF KeepsRight
<1>5. CASE ConvergeNAT
  <2> DEFINE want == res.nat[row]
  <2>0. pc = "nat" /\ row \in Networks
    BY <1>5, <1>a, <1>c DEF ConvergeNAT, RowsInHand
  <2>1. \/ up' = up \/ up' = [up EXCEPT !.bound[want] = "binding"] \/ up' = [up EXCEPT !.nat[row] = want]
    BY <1>5 DEF ConvergeNAT, bindNATIP, UpdateRouterNat, DeleteRouterNat, Refused, Call
  <2>2. /\ up'.label = up.label /\ up'.routes = up.routes /\ up'.nets = up.nets /\ up'.dhcp = up.dhcp
        /\ up'.nat = up.nat \/ up'.nat = [up.nat EXCEPT ![row] = want]
    BY <2>1, <1>a DEF Routers
  <2> QED BY <1>b, <2>0, <2>2 DEF KeepsRight
<1>6. CASE UnbindFloatingIp
  <2>1. /\ pc = "unbind" /\ (up' = up \/ up' = Unbound(rel, "free"))
        /\ \A n \in res.nets : res.nat[n] # rel
    BY <1>6 DEF UnbindFloatingIp, ReleaseHeld
  <2>2. ASSUME up' = Unbound(rel, "free") PROVE KeepsRight(res)
    <3>1. /\ up'.label = up.label /\ up'.routes = up.routes /\ up'.nets = up.nets /\ up'.dhcp = up.dhcp
          /\ up'.nat = [n \in Networks |-> IF up.nat[n] = rel THEN NoAddr ELSE up.nat[n]]
      BY <2>2, <1>a DEF Unbound, Routers
    <3>2. \A n \in Networks : up.nat[n] = res.nat[n] => up'.nat[n] = res.nat[n]
      BY <1>b, <1>c, <2>1, <3>1
    <3> QED BY <3>1, <3>2 DEF KeepsRight
  <2> QED BY <2>1, <2>2, NothingDone
<1>7. ASSUME NEW s \in Subnets, DeleteStaticRoute(s) PROVE KeepsRight(res)
  <2>1. /\ up.routes[s] \in {NoHop, obs.routes[s]} /\ obs.routes[s] \notin {NoHop, res.routes[s]}
        /\ up' = up \/ up' = [up EXCEPT !.routes[s] = NoHop]
    BY <1>7 DEF DeleteStaticRoute, Call, UndoesWrong
  <2>2. /\ up'.label = up.label /\ up'.nat = up.nat /\ up'.nets = up.nets /\ up'.dhcp = up.dhcp
        /\ up'.routes = up.routes \/ up'.routes = [up.routes EXCEPT ![s] = NoHop]
    BY <2>1, <1>a DEF Routers
  <2> QED BY <1>b, <2>1, <2>2 DEF KeepsRight
<1>8. ASSUME NEW s \in Subnets, PostStaticRoute(s) PROVE KeepsRight(res)
  <2>1. up' = up \/ up' = [up EXCEPT !.routes[s] = res.routes[s]]
    BY <1>8 DEF PostStaticRoute, Refused, Call
  <2>2. /\ up'.label = up.label /\ up'.nat = up.nat /\ up'.nets = up.nets /\ up'.dhcp = up.dhcp
        /\ up'.routes = up.routes \/ up'.routes = [up.routes EXCEPT ![s] = res.routes[s]]
    BY <2>1, <1>a DEF Routers
  <2> QED BY <1>b, <2>2 DEF KeepsRight
<1>9. CASE \/ Observe \/ Update \/ DetachEnds \/ releaseNATIP \/ getStaticRoutes \/ DeletesDone \/ PassEnds
  BY <1>9, NothingDone DEF Observe, Update, DetachEnds, releaseNATIP, getStaticRoutes, DeletesDone, PassEnds
<1> QED BY <1>1, <1>2, <1>3, <1>4, <1>5, <1>6, <1>7, <1>8, <1>9 DEF Reconcile

\* No call of a pass undoes any part of the router that is as the declaration of that
\* pass has it: not NAT of one network when the address of another is released, which
\* at Timeweb ends all NAT on it, not a route while wrong ones are replaced, not an
\* attachment; whatever was paced, dropped, lost or changed in the panel in the meantime
\* (Update of router_external.go).
THEOREM NothingRightUndone == Spec => [][Reconcile => KeepsRight(res)]_vars
<1>1. Init => BudgetInv /\ ReleaseHeld /\ UndoesWrong
  BY BudgetInit DEF Init, ReleaseHeld, UndoesWrong
<1>2. BudgetInv /\ ReleaseHeld /\ UndoesWrong /\ [Next]_vars => (BudgetInv /\ ReleaseHeld /\ UndoesWrong)'
  BY BudgetStep, HeldStep, UndoesStep
<1>3. BudgetInv /\ ReleaseHeld /\ UndoesWrong => [Reconcile => KeepsRight(res)]_vars
  BY RightKept
<1> QED BY <1>1, <1>2, <1>3, PTL DEF Spec
=============================================================================
