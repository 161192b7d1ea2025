------------------------- MODULE ClusterUpdateProofs -------------------------
(***************************************************************************)
(* Machine-checked proofs about ClusterUpdate, for every set of routers,   *)
(* declarations and versions, and any number of faults, edits and moves.   *)
(***************************************************************************)
EXTENDS ClusterUpdate, TLAPS

PCs == {"idle", "kubeconfig", "routers", "update", "version", "integrate",
        "attach", "detach", "rename"}
Names == {s.name : s \in Specs}

\* The version that is about to be requested is one Timeweb offers.
VersionOffered == pc = "version" => sp.version \in Catalog

TypeInv == TypeOK /\ VersionOffered

\* What a reconcile keeps, writes and reads, in two halves.
Memory ==
  /\ pc \in PCs /\ VersionOffered
  /\ spec \in Specs /\ sp \in Specs /\ obs \in [name : Names, version : Catalog]
  /\ record \in MaybeRouter /\ rec \in MaybeRouter
Flags ==
  /\ ready \in BOOLEAN /\ rdy \in BOOLEAN /\ secret \in BOOLEAN /\ cd \in BOOLEAN
  /\ dirty \in BOOLEAN /\ declared \in BOOLEAN /\ missed \in BOOLEAN
Upstream ==
  /\ up \in clusterBody
  /\ net \in [Routers -> {"absent", "bare", "wired"}]
  /\ robj \in [Routers -> RouterStates]
  /\ rpc \in [Routers -> {"idle", "delete"}] /\ rserves \in [Routers -> BOOLEAN]
  /\ joined \subseteq Routers
Counted ==
  faults \in 0..MaxFaults /\ edits \in 0..MaxEdits /\ moves \in 0..MaxMoves

\* TypeInv, half by half.
LEMMA Halves == TypeInv <=> Memory /\ Flags /\ Upstream /\ Counted
  BY DEF TypeInv, TypeOK, Memory, Flags, Upstream, Counted, PCs, Names

\* A declaration is of its type.
LEMMA SpecTypes ==
  ASSUME NEW s \in Specs
  PROVE  s.version \in Versions /\ s.router \in MaybeRouter /\ s.name \in Names
  BY ClusterAssumption DEF MaybeRouter, Names

\* What integrating and upgrading make of the cluster.
LEMMA UpTypes ==
  ASSUME up \in clusterBody
  PROVE  /\ \A r \in MaybeRouter : Integrated(r) \in clusterBody
         /\ \A v \in Catalog : Upgraded(v) \in clusterBody
         /\ [up EXCEPT !.active = TRUE] \in clusterBody
         /\ [up EXCEPT !.version = up.target] \in clusterBody
         /\ [up EXCEPT !.router = NoRouter] \in clusterBody
         /\ \A n \in Names : [up EXCEPT !.name = n] \in clusterBody
         /\ Seen(up) \in [name : Names, version : Catalog]
<1>1. \A r \in MaybeRouter : [up EXCEPT !.router = r] \in clusterBody
  BY DEF clusterBody
<1>2. \A r \in MaybeRouter : Integrated(r) \in clusterBody
  BY <1>1 DEF Integrated
<1>3. \A v \in Catalog : [up EXCEPT !.target = v] \in clusterBody
  BY DEF clusterBody
<1>4. \A v \in Catalog : Upgraded(v) \in clusterBody
  BY <1>3 DEF Upgraded
<1>5. [up EXCEPT !.active = TRUE] \in clusterBody
  BY DEF clusterBody
<1>6. [up EXCEPT !.version = up.target] \in clusterBody
  BY DEF clusterBody
<1>7. \A n \in Names : [up EXCEPT !.name = n] \in clusterBody
  BY DEF clusterBody, Names
<1>8. Seen(up) \in [name : Names, version : Catalog]
  BY DEF clusterBody, Names, Seen
<1> QED BY <1>1, <1>2, <1>4, <1>5, <1>6, <1>7, <1>8 DEF MaybeRouter

\* A request ends in one of these ways.
Sent(carried, next) ==
  /\ up' = up \/ up' = carried
  /\ faults' = faults \/ Fault
  /\ \/ pc' = next /\ UNCHANGED stored /\ cd' = cd
     \/ EndPass
  /\ Joins
  /\ UNCHANGED <<spec, published, routers, sp, obs, dirty, declared, edits, moves>>

\* The write that ends a reconcile is of its type when what it writes is.
LEMMA EndTypes ==
  ASSUME record \in MaybeRouter, ready \in BOOLEAN, rec' \in MaybeRouter, rdy' \in BOOLEAN, EndPass
  PROVE  record' \in MaybeRouter /\ ready' \in BOOLEAN /\ cd' \in BOOLEAN /\ pc' = "idle"
  BY DEF EndPass, stored

\* A step within a reconcile that leaves Timeweb alone keeps types if the memory it
\* leaves behind has its type.
LEMMA InMemory ==
  ASSUME TypeInv, UNCHANGED <<up, routers, joined, edits, moves>>, faults' = faults \/ Fault,
         spec' = spec, sp' \in Specs, obs' \in [name : Names, version : Catalog],
         rec' \in MaybeRouter, rdy' \in BOOLEAN, secret' \in BOOLEAN, missed' \in BOOLEAN,
         dirty' \in BOOLEAN, declared' = declared,
         EndPass \/ (UNCHANGED stored /\ pc' \in PCs /\ cd' \in BOOLEAN),
         VersionOffered'
  PROVE  TypeInv'
<1>a. Memory /\ Flags /\ Upstream /\ Counted
  BY Halves
<1>1. record' \in MaybeRouter /\ ready' \in BOOLEAN /\ cd' \in BOOLEAN /\ pc' \in PCs
  <2>1. CASE EndPass
    BY <2>1, <1>a, EndTypes DEF Memory, Flags, PCs
  <2>2. CASE ~EndPass
    BY <2>2, <1>a DEF Memory, Flags, stored
  <2> QED BY <2>1, <2>2
<1>2. Memory'
  BY <1>1, <1>a DEF Memory
<1>3. Flags'
  BY <1>1, <1>a DEF Flags
<1>4. Upstream'
  BY <1>a DEF Upstream, routers
<1>5. Counted'
  BY <1>a, ClusterAssumption DEF Counted, Fault
<1> QED BY <1>2, <1>3, <1>4, <1>5 DEF TypeInv, TypeOK, Memory, Flags, Upstream, Counted, PCs, Names

\* A request keeps types if what it asks for is a cluster.
LEMMA SentTypes ==
  ASSUME TypeInv, NEW carried \in clusterBody, NEW next \in PCs \ {"version"},
         Sent(carried, next), rec' \in MaybeRouter, rdy' \in BOOLEAN
  PROVE  TypeInv'
<1>a. Memory /\ Flags /\ Upstream /\ Counted
  BY Halves
<1>1. record' \in MaybeRouter /\ ready' \in BOOLEAN /\ cd' \in BOOLEAN /\ pc' \in PCs \ {"version"}
  <2>1. CASE EndPass
    BY <2>1, <1>a, EndTypes DEF Memory, Flags, PCs
  <2>2. CASE ~EndPass
    BY <2>2, <1>a DEF Sent, Memory, Flags, stored
  <2> QED BY <2>1, <2>2
<1>2. Memory'
  BY <1>1, <1>a DEF Memory, Sent, VersionOffered
<1>3. Flags'
  BY <1>1, <1>a DEF Flags, Sent, published
<1>4. Upstream'
  BY <1>a DEF Upstream, Sent, routers, Joins
<1>5. Counted'
  BY <1>a, ClusterAssumption DEF Counted, Sent, Fault
<1> QED BY <1>2, <1>3, <1>4, <1>5 DEF TypeInv, TypeOK, Memory, Flags, Upstream, Counted, PCs, Names

\* Requests are Sent.
LEMMA Requests ==
  /\ UpdateClusterVersion => Sent(Upgraded(sp.version), "integrate")
  /\ attach => Sent(Integrated(sp.router), "rename")
  /\ detach => Sent(Integrated(NoRouter), "rename")
<1>1. ASSUME UpdateClusterVersion PROVE Sent(Upgraded(sp.version), "integrate")
  BY <1>1 DEF UpdateClusterVersion, Send, Sent, GoTo
<1>2. ASSUME attach PROVE Sent(Integrated(sp.router), "rename")
  BY <1>2 DEF attach, Send, Sent, GoTo
<1>3. ASSUME detach PROVE Sent(Integrated(NoRouter), "rename")
  BY <1>3 DEF detach, Send, Sent, GoTo
<1> QED BY <1>1, <1>2, <1>3

\* Every step keeps types, and never asks for a version Timeweb does not offer.
LEMMA TypeStep == TypeInv /\ [Next]_vars => TypeInv'
<1> SUFFICES ASSUME TypeInv, [Next]_vars PROVE TypeInv'
    OBVIOUS
<1>a. Memory /\ Flags /\ Upstream /\ Counted
  BY Halves
<1>b. /\ sp.router \in MaybeRouter /\ sp.name \in Names /\ spec.router \in MaybeRouter
      /\ NoRouter \in MaybeRouter
  BY <1>a, SpecTypes DEF Memory, MaybeRouter
<1>c. Seen(up) \in [name : Names, version : Catalog]
  BY <1>a, UpTypes DEF Upstream
<1>1. CASE Observe
  <2>1. /\ sp' \in Specs /\ obs' \in [name : Names, version : Catalog] /\ rec' \in MaybeRouter
        /\ spec' = spec /\ secret' = secret /\ missed' = missed /\ declared' = declared
        /\ UNCHANGED <<up, routers, joined, edits, moves>> /\ faults' = faults
    BY <1>1, <1>a, <1>c DEF Observe, Memory, published, counters
  <2>2. rdy' \in BOOLEAN /\ dirty' \in BOOLEAN /\ cd' \in BOOLEAN
    BY <1>1, <1>a DEF Observe, Upstream, clusterBody
  <2>3. record' = record /\ ready' \in BOOLEAN /\ pc' \in PCs \ {"version"}
    BY <1>1, <1>a DEF Observe, Flags, GoTo, stored, PCs
  <2>4. Memory'
    BY <2>1, <2>3, <1>a DEF Memory, VersionOffered
  <2>5. Flags'
    BY <2>1, <2>2, <2>3, <1>a DEF Flags
  <2>6. Upstream' /\ Counted'
    BY <2>1, <1>a DEF Upstream, Counted, routers
  <2> QED BY <2>4, <2>5, <2>6 DEF TypeInv, TypeOK, Memory, Flags, Upstream, Counted, PCs, Names
<1>2. CASE ConnectFails
  <2>1. Memory'
    BY <1>2, <1>a DEF ConnectFails, Memory, stored, VersionOffered
  <2>2. Flags'
    BY <1>2, <1>a DEF ConnectFails, Flags, stored, published
  <2>3. Upstream' /\ Counted'
    BY <1>2, <1>a DEF ConnectFails, Upstream, Counted, routers, counters
  <2> QED BY <2>1, <2>2, <2>3 DEF TypeInv, TypeOK, Memory, Flags, Upstream, Counted, PCs, Names
<1>3. CASE kubeconfigConnectionDetails
  <2>1. /\ UNCHANGED <<up, routers, joined, edits, moves, spec, sp, obs, rec, rdy, secret, dirty, declared>>
        /\ faults' = faults \/ Fault
    BY <1>3 DEF kubeconfigConnectionDetails
  <2>2. missed' \in BOOLEAN
    BY <1>3, <1>a DEF kubeconfigConnectionDetails, Flags
  <2>3. EndPass \/ (UNCHANGED stored /\ pc' = "routers" /\ cd' \in BOOLEAN)
    BY <1>3 DEF kubeconfigConnectionDetails, GoTo
  <2>4. VersionOffered'
    BY <2>3 DEF VersionOffered, EndPass
  <2> QED BY <2>1, <2>2, <2>3, <2>4, <1>a, InMemory DEF Memory, Flags, PCs
<1>4. CASE ObserveReturns
  <2>1. /\ UNCHANGED <<up, routers, joined, edits, moves, spec, sp, obs, missed, dirty, declared>>
        /\ faults' = faults \/ Fault
    BY <1>4 DEF ObserveReturns, observeRouterIntegration
  <2>2. rec' \in MaybeRouter
    BY <1>4, <1>a, <1>b DEF ObserveReturns, observeRouterIntegration, Memory
  <2>3. rdy' \in BOOLEAN /\ secret' \in BOOLEAN
    BY <1>4, <1>a DEF ObserveReturns, observeRouterIntegration, Flags
  <2>4. EndPass \/ (UNCHANGED stored /\ pc' = "update" /\ cd' \in BOOLEAN)
    BY <1>4 DEF ObserveReturns, GoTo
  <2>5. VersionOffered'
    BY <2>4 DEF VersionOffered, EndPass
  <2> QED BY <2>1, <2>2, <2>3, <2>4, <2>5, <1>a, InMemory DEF Memory, Flags, PCs
<1>5. CASE PublishFails
  <2>1. /\ UNCHANGED <<up, routers, joined, edits, moves, spec, sp, obs, rec, rdy, secret, dirty, declared>>
        /\ Fault /\ EndPass /\ missed' \in BOOLEAN
    BY <1>5 DEF PublishFails
  <2>2. VersionOffered'
    BY <2>1 DEF VersionOffered, EndPass
  <2> QED BY <2>1, <2>2, <1>a, InMemory DEF Memory, Flags
<1>6. CASE Update
  <2>1. /\ UNCHANGED <<up, routers, joined, edits, moves, spec, sp, rec, rdy, secret, missed, dirty, declared>>
        /\ obs' \in {obs, Seen(up)}
        /\ faults' = faults \/ Fault
    BY <1>6 DEF Update, published
  <2>2. \/ EndPass
        \/ /\ UNCHANGED stored /\ cd' = cd
           /\ \/ pc' = "version" /\ sp.version \in Catalog
              \/ pc' = "integrate"
    BY <1>6 DEF Update, VersionRejected, GoTo
  <2>3. VersionOffered'
    BY <2>1, <2>2 DEF VersionOffered, EndPass
  <2>4. EndPass \/ (UNCHANGED stored /\ pc' \in PCs /\ cd' \in BOOLEAN)
    BY <2>2, <1>a DEF PCs, Flags
  <2> QED BY <2>1, <2>3, <2>4, <1>a, <1>c, InMemory DEF Memory, Flags
<1>7. CASE convergeRouterIntegration
  <2>1. /\ UNCHANGED <<up, routers, joined, edits, moves, spec, sp, obs, rdy, secret, missed, dirty, declared>>
        /\ faults' = faults \/ Fault
    BY <1>7 DEF convergeRouterIntegration, published
  <2>2. rec' \in MaybeRouter
    BY <1>7, <1>a, <1>b DEF convergeRouterIntegration, Memory
  <2>3. \/ EndPass
        \/ UNCHANGED stored /\ cd' = cd /\ pc' \in PCs \ {"version"}
    BY <1>7 DEF convergeRouterIntegration, integrationStep, GoTo, PCs
  <2>4. VersionOffered'
    BY <2>3 DEF VersionOffered, EndPass
  <2> QED BY <2>1, <2>2, <2>3, <2>4, <1>a, InMemory DEF Memory, Flags
<1>8. CASE UpdateClusterVersion
  <2>1. Upgraded(sp.version) \in clusterBody
    BY <1>8, <1>a, UpTypes DEF UpdateClusterVersion, Memory, VersionOffered, Upstream
  <2>2. rec' \in MaybeRouter
    BY <1>8, <1>a DEF UpdateClusterVersion, Send, Memory
  <2>3. rdy' \in BOOLEAN
    BY <1>8, <1>a DEF UpdateClusterVersion, Send, Flags
  <2> QED BY <1>8, <2>1, <2>2, <2>3, Requests, SentTypes DEF PCs
<1>9. CASE attach
  <2>1. Integrated(sp.router) \in clusterBody
    BY <1>a, <1>b, UpTypes DEF Upstream
  <2>2. rec' \in MaybeRouter
    BY <1>9, <1>a, <1>b DEF attach, Send, Memory
  <2>3. rdy' \in BOOLEAN
    BY <1>9, <1>a DEF attach, Send, Flags
  <2> QED BY <1>9, <2>1, <2>2, <2>3, Requests, SentTypes DEF PCs
<1>10. CASE detach
  <2>1. Integrated(NoRouter) \in clusterBody
    BY <1>a, <1>b, UpTypes DEF Upstream
  <2>2. rec' \in MaybeRouter
    BY <1>10, <1>a, <1>b DEF detach, Send, Memory
  <2>3. rdy' \in BOOLEAN
    BY <1>10, <1>a DEF detach, Send, Flags
  <2> QED BY <1>10, <2>1, <2>2, <2>3, Requests, SentTypes DEF PCs
<1>11. CASE UpdateCluster
  <2>1. up' \in clusterBody
    BY <1>11, <1>a, <1>b, UpTypes DEF UpdateCluster, Upstream
  <2>2. /\ UNCHANGED <<spec, published, routers, sp, obs, dirty, declared, joined, edits, moves, rec, rdy>>
        /\ EndPass /\ (faults' = faults \/ Fault)
    BY <1>11 DEF UpdateCluster
  <2>3. record' \in MaybeRouter /\ ready' \in BOOLEAN /\ cd' \in BOOLEAN /\ pc' = "idle"
    BY <2>2, <1>a, EndTypes DEF Memory, Flags
  <2>4. Memory'
    BY <2>2, <2>3, <1>a DEF Memory, VersionOffered, PCs
  <2>5. Flags'
    BY <2>2, <2>3, <1>a DEF Flags, published
  <2>6. Upstream' /\ Counted'
    <3>1. Upstream'
      BY <2>1, <2>2, <1>a DEF Upstream, routers
    <3>2. Counted'
      BY <2>2, <1>a, ClusterAssumption DEF Counted, Fault
    <3> QED BY <3>1, <3>2
  <2> QED BY <2>4, <2>5, <2>6 DEF TypeInv, TypeOK, Memory, Flags, Upstream, Counted, PCs, Names
<1>12. ASSUME NEW r \in Routers, RouterObserves(r) PROVE TypeInv'
  <2>1. Memory' /\ Flags' /\ Counted'
    BY <1>12, <1>a DEF RouterObserves, Memory, Flags, Counted, stored, published, counters, VersionOffered
  <2>2. ParentServices(r) \in BOOLEAN
    BY DEF ParentServices
  <2>3. rserves' \in [Routers -> BOOLEAN]
    BY <1>12, <2>2, <1>a DEF RouterObserves, Upstream
  <2>4. Upstream'
    BY <1>12, <2>3, <1>a DEF RouterObserves, Upstream, RouterStates
  <2> QED BY <2>1, <2>4 DEF TypeInv, TypeOK, Memory, Flags, Upstream, Counted, PCs, Names
<1>13. ASSUME NEW r \in Routers, RouterDelete(r) PROVE TypeInv'
  <2>1. Memory' /\ Flags'
    BY <1>13, <1>a DEF RouterDelete, Memory, Flags, stored, published, VersionOffered
  <2>2. Counted'
    BY <1>13, <1>a, ClusterAssumption DEF RouterDelete, Counted, Fault
  <2>3. up' \in clusterBody
    BY <1>13, <1>a, UpTypes DEF RouterDelete, Upstream
  <2>4. Upstream'
    BY <1>13, <2>3, <1>a DEF RouterDelete, Upstream, RouterStates
  <2> QED BY <2>1, <2>2, <2>4 DEF TypeInv, TypeOK, Memory, Flags, Upstream, Counted, PCs, Names
<1>14. ASSUME NEW r \in Routers, \/ RequestRouterDelete(r) \/ RouterWired(r)
                                 \/ RouterBlocked(r) \/ RouterUnblocked(r)
       PROVE  TypeInv'
  <2>1. Memory' /\ Flags'
    BY <1>14, <1>a DEF RequestRouterDelete, RouterWired, RouterBlocked, RouterUnblocked, Memory, Flags, stored, published, VersionOffered
  <2>2. Counted'
    BY <1>14, <1>a, ClusterAssumption DEF RequestRouterDelete, RouterWired, RouterBlocked, RouterUnblocked, Counted, counters
  <2>3. Upstream'
    BY <1>14, <1>a DEF RequestRouterDelete, RouterWired, RouterBlocked, RouterUnblocked, Upstream,
       RouterStates
  <2> QED BY <2>1, <2>2, <2>3 DEF TypeInv, TypeOK, Memory, Flags, Upstream, Counted, PCs, Names
<1>15. CASE Provisions \/ PanelIntegrates
  <2>1. Memory' /\ Flags'
    BY <1>15, <1>a DEF Provisions, PanelIntegrates, Environment, Memory, Flags, stored, published, VersionOffered
  <2>2. Counted'
    BY <1>15, <1>a, ClusterAssumption DEF Provisions, PanelIntegrates, Environment, Counted
  <2>3. up' \in clusterBody
    BY <1>15, <1>a, UpTypes DEF Provisions, PanelIntegrates, Upstream
  <2>4. Upstream'
    BY <1>15, <2>3, <1>a DEF Provisions, PanelIntegrates, Environment, Joins, routers, Upstream
  <2> QED BY <2>1, <2>2, <2>4 DEF TypeInv, TypeOK, Memory, Flags, Upstream, Counted, PCs, Names
<1>16. CASE EditSpec
  <2>1. Memory'
    BY <1>16, <1>a DEF EditSpec, Memory, stored, VersionOffered
  <2>2. Flags'
    BY <1>16, <1>a DEF EditSpec, Flags, stored, published
  <2>3. Counted'
    BY <1>16, <1>a, ClusterAssumption DEF EditSpec, Counted
  <2>4. Upstream'
    BY <1>16, <1>a DEF EditSpec, Upstream, routers
  <2> QED BY <2>1, <2>2, <2>3, <2>4 DEF TypeInv, TypeOK, Memory, Flags, Upstream, Counted, PCs, Names
<1>17. CASE Crash
  <2>1. Memory' /\ Flags'
    BY <1>17, <1>a DEF Crash, Memory, Flags, stored, published, VersionOffered, PCs
  <2>2. Counted'
    BY <1>17, <1>a, ClusterAssumption DEF Crash, Fault, Counted
  <2>3. Upstream'
    BY <1>17, <1>a DEF Crash, Upstream
  <2> QED BY <2>1, <2>2, <2>3 DEF TypeInv, TypeOK, Memory, Flags, Upstream, Counted, PCs, Names
<1>18. CASE UNCHANGED vars
  BY <1>18 DEF vars, TypeInv, TypeOK, VersionOffered
<1> QED
  BY <1>1, <1>2, <1>3, <1>4, <1>5, <1>6, <1>7, <1>8, <1>9, <1>10, <1>11, <1>12, <1>13, <1>14,
     <1>15, <1>16, <1>17, <1>18 DEF Next, Reconcile


\* The initial states are of their type.
LEMMA TypeInit == Init => TypeInv
<1> SUFFICES ASSUME Init PROVE TypeInv
    OBVIOUS
<1>1. up \in clusterBody
  <2>1. PICK s \in Specs, placed \in BOOLEAN :
          up = [name |-> s.name, version |-> s.version, target |-> s.version,
                router |-> NoRouter, active |-> FALSE, placed |-> placed]
    BY DEF Init
  <2>2. s.version \in Catalog
    BY <2>1 DEF Init
  <2> QED BY <2>1, <2>2 DEF clusterBody, MaybeRouter
<1>2. Memory
  BY <1>1, UpTypes DEF Init, Memory, MaybeRouter, VersionOffered, PCs
<1>3. Flags
  BY DEF Init, Flags
<1>4. Upstream
  BY <1>1 DEF Init, Upstream, RouterStates
<1>5. Counted
  BY ClusterAssumption DEF Init, Counted
<1> QED BY <1>2, <1>3, <1>4, <1>5, Halves

\* TypeOK is an invariant; in particular the cluster is always at, and on its way to,
\* a version that Timeweb offers, whatever version is declared.
THEOREM TypeCorrect == Spec => []TypeOK
<1>1. TypeInv => TypeOK
  BY DEF TypeInv
<1> QED BY <1>1, TypeInit, TypeStep, PTL DEF Spec

(***************************************************************************)
(* Integrations.                                                           *)
(***************************************************************************)
\* Whatever router is declared, read or recorded was declared for this cluster, and
\* an integration is changed only towards one that was.
DeclaredOnly ==
  /\ spec.router # NoRouter \/ sp.router # NoRouter => declared
  /\ record # NoRouter \/ rec # NoRouter => declared
  /\ pc = "attach" => sp.router # NoRouter
  /\ pc = "detach" => rec # NoRouter

\* A step that keeps the declarations and records no undeclared router.
LEMMA Records ==
  ASSUME DeclaredOnly, declared' = declared, spec' = spec, sp' = sp \/ sp' = spec,
         rec' \in {rec, record, NoRouter, sp.router},
         record' \in {record, rec'},
         pc' \notin {"attach", "detach"}
  PROVE  DeclaredOnly'
  BY DEF DeclaredOnly

\* Every step keeps to declared routers.
LEMMA DeclaredStep == DeclaredOnly /\ [Next]_vars => DeclaredOnly'
<1> SUFFICES ASSUME DeclaredOnly, [Next]_vars PROVE DeclaredOnly'
    OBVIOUS
<1>a. EndPass => record' \in {record, rec'} /\ pc' = "idle"
  BY DEF EndPass, stored
<1>1. CASE Observe
  BY <1>1, Records DEF Observe, GoTo, stored
<1>2. CASE \/ ConnectFails \/ UNCHANGED vars
  BY <1>2 DEF ConnectFails, vars, stored, DeclaredOnly
<1>3. CASE kubeconfigConnectionDetails
  BY <1>3, <1>a, Records DEF kubeconfigConnectionDetails, GoTo, stored
<1>4. CASE ObserveReturns
  <2>1. rec' \in {rec, NoRouter, sp.router}
    BY <1>4 DEF ObserveReturns, observeRouterIntegration
  <2>2. record' \in {record, rec'} /\ pc' \in {"idle", "update"}
    BY <1>4, <1>a DEF ObserveReturns, GoTo, stored
  <2> QED BY <1>4, <2>1, <2>2, Records DEF ObserveReturns
<1>5. CASE PublishFails
  BY <1>5, <1>a, Records DEF PublishFails
<1>6. CASE Update
  BY <1>6, <1>a, Records DEF Update, GoTo, stored
<1>7. CASE convergeRouterIntegration
  <2>1. CASE EndPass
    BY <1>7, <2>1, <1>a, Records DEF convergeRouterIntegration
  <2>2. CASE ~EndPass
    BY <1>7, <2>2 DEF convergeRouterIntegration, integrationStep, GoTo, stored, DeclaredOnly
  <2> QED BY <2>1, <2>2
<1>8. CASE UpdateClusterVersion
  BY <1>8, <1>a, Records DEF UpdateClusterVersion, Send, GoTo, stored
<1>9. CASE attach \/ detach
  BY <1>9, <1>a, Records DEF attach, detach, Send, GoTo, stored
<1>10. CASE UpdateCluster
  BY <1>10, <1>a, Records DEF UpdateCluster
<1>11. ASSUME NEW r \in Routers, \/ RouterObserves(r) \/ RouterDelete(r)
                                 \/ RequestRouterDelete(r) \/ RouterWired(r)
                                 \/ RouterBlocked(r) \/ RouterUnblocked(r)
       PROVE  DeclaredOnly'
  BY <1>11 DEF RouterObserves, RouterDelete, RequestRouterDelete, RouterWired, RouterBlocked, RouterUnblocked, stored, DeclaredOnly
<1>12. CASE Provisions \/ PanelIntegrates
  BY <1>12 DEF Provisions, PanelIntegrates, Environment, stored, DeclaredOnly
<1>13. CASE EditSpec
  BY <1>13 DEF EditSpec, stored, DeclaredOnly
<1>14. CASE Crash
  BY <1>14 DEF Crash, stored, DeclaredOnly
<1> QED
  BY <1>1, <1>2, <1>3, <1>4, <1>5, <1>6, <1>7, <1>8, <1>9, <1>10, <1>11, <1>12, <1>13, <1>14
     DEF Next, Reconcile

\* No integration is touched on a cluster that never declared a router: what the
\* panel made of it stays, through crashes, conflicts and edits in mid-reconcile
\* (PanelIntegrationKept).
THEOREM PanelsOwn == Spec => []PanelIntegrationKept
<1>1. Init => DeclaredOnly
  BY DEF Init, DeclaredOnly
<1>2. DeclaredOnly => PanelIntegrationKept
  BY DEF DeclaredOnly, PanelIntegrationKept
<1> QED BY <1>1, <1>2, DeclaredStep, PTL DEF Spec

(***************************************************************************)
(* Routers.                                                                *)
(***************************************************************************)
\* A Router that is about to be deleted while the cluster uses it has seen that, or
\* the cluster was given it since.
Served ==
  \A r \in Routers : rpc[r] = "delete" /\ up.router = r /\ r \notin joined => rserves[r]

\* A step that leaves the Routers' own reconciles alone and accounts for what the
\* cluster was given.
LEMMA ServedElsewhere ==
  ASSUME Served, rpc' = rpc, rserves' = rserves,
         Joins \/ (joined' = joined /\ up'.router = up.router)
  PROVE  Served'
  BY DEF Served, Joins

\* Every step keeps it so.
LEMMA ServedStep == TypeInv /\ Served /\ [Next]_vars => Served'
<1> SUFFICES ASSUME TypeInv, Served, [Next]_vars PROVE Served'
    OBVIOUS
<1>a. up \in clusterBody /\ rpc \in [Routers -> {"idle", "delete"}] /\ rserves \in [Routers -> BOOLEAN]
  BY DEF TypeInv, TypeOK
<1>1. CASE \/ Observe \/ ConnectFails \/ kubeconfigConnectionDetails \/ ObserveReturns \/ PublishFails
           \/ Update \/ convergeRouterIntegration \/ EditSpec \/ UNCHANGED vars
  BY <1>1, ServedElsewhere DEF Observe, ConnectFails, kubeconfigConnectionDetails, ObserveReturns,
     PublishFails, Update, convergeRouterIntegration, EditSpec, vars, routers
<1>2. CASE UpdateClusterVersion \/ attach \/ detach
  BY <1>2, ServedElsewhere DEF UpdateClusterVersion, attach, detach, Send, routers
<1>3. CASE UpdateCluster
  <2>1. up'.router = up.router
    BY <1>3, <1>a DEF UpdateCluster, clusterBody
  <2> QED BY <1>3, <2>1, ServedElsewhere DEF UpdateCluster, routers
<1>4. CASE Provisions \/ PanelIntegrates
  BY <1>4, ServedElsewhere DEF Provisions, PanelIntegrates, Environment, routers
<1>5. ASSUME NEW r \in Routers, RouterObserves(r) PROVE Served'
  <2>1. /\ rserves' = [rserves EXCEPT ![r] = (up.router = r)] /\ joined' = joined \ {r} /\ up' = up
        /\ \A q \in Routers : q # r => rpc'[q] = rpc[q]
    BY <1>5, <1>a DEF RouterObserves, ParentServices
  <2> QED BY <2>1, <1>a DEF Served
<1>6. ASSUME NEW r \in Routers, RouterDelete(r) PROVE Served'
  <2>1. /\ rserves' = rserves /\ joined' = joined
        /\ \A q \in Routers : rpc'[q] = "delete" => q # r /\ rpc[q] = "delete"
    BY <1>6, <1>a DEF RouterDelete
  <2>2. up' = up \/ (up.router = r /\ up' = [up EXCEPT !.router = NoRouter])
    BY <1>6 DEF RouterDelete
  <2>3. up'.router = up.router \/ up'.router = NoRouter
    BY <2>2, <1>a DEF clusterBody
  <2> QED BY <2>1, <2>3, ClusterAssumption DEF Served
<1>7. ASSUME NEW r \in Routers, \/ RequestRouterDelete(r) \/ RouterWired(r)
                                \/ RouterBlocked(r) \/ RouterUnblocked(r)
      PROVE  Served'
  BY <1>7, ServedElsewhere DEF RequestRouterDelete, RouterWired, RouterBlocked, RouterUnblocked
<1>8. CASE Crash
  BY <1>8 DEF Crash, Served
<1> QED
  BY <1>1, <1>2, <1>3, <1>4, <1>5, <1>6, <1>7, <1>8 DEF Next, Reconcile

\* What one step may do to a router.
StepKeepsServing ==
  \A r \in Routers : net[r] # "absent" /\ net'[r] = "absent" /\ up.router = r => r \in joined

\* Only RouterDelete removes a router.
LEMMA ServingStep == TypeInv /\ Served /\ [Next]_vars => StepKeepsServing
<1> SUFFICES ASSUME TypeInv, Served, [Next]_vars,
                    NEW r \in Routers, net[r] # "absent", net'[r] = "absent", up.router = r
             PROVE  r \in joined
    BY DEF StepKeepsServing
<1>a. net \in [Routers -> {"absent", "bare", "wired"}]
  BY DEF TypeInv, TypeOK
<1>1. PICK q \in Routers : RouterDelete(q) \/ RouterWired(q)
  BY DEF Next, Reconcile, Observe, ConnectFails, kubeconfigConnectionDetails, ObserveReturns,
     PublishFails, Update, UpdateClusterVersion, convergeRouterIntegration, attach, detach,
     UpdateCluster, Send, RouterObserves, RequestRouterDelete, RouterBlocked, RouterUnblocked, Provisions, PanelIntegrates,
     Environment, EditSpec, Crash, vars, routers
<1>2. RouterDelete(q) /\ q = r
  BY <1>1, <1>a DEF RouterDelete, RouterWired
<1>3. rpc[r] = "delete" /\ ~rserves[r]
  BY <1>2 DEF RouterDelete
<1> QED BY <1>3 DEF Served

\* A Router is never deleted under a cluster that was using it when the Router's
\* reconcile looked, for any number of routers and whatever else happens
\* (ServingRouterKept).
THEOREM RouterKept == Spec => ServingRouterKept
<1>1. Init => TypeInv /\ Served
  BY TypeInit DEF Init, Served
<1>2. TypeInv /\ Served /\ [Next]_vars => (TypeInv /\ Served)'
  BY TypeStep, ServedStep
<1>3. TypeInv /\ Served /\ [Next]_vars => [StepKeepsServing]_vars
  BY ServingStep
<1> QED BY <1>1, <1>2, <1>3, PTL DEF Spec, ServingRouterKept, StepKeepsServing

(***************************************************************************)
(* What a reconcile writes.                                                *)
(***************************************************************************)
Writing == {"version", "integrate", "attach", "detach", "rename"}

\* A pass that has come past Update's rejections works for a declaration that they let
\* through, and detaches only a cluster that declares no router.
Admitted ==
  /\ pc \in Writing => ~ZoneRejected(sp) /\ ~VersionRejected(sp.version, obs.version)
  /\ pc = "version" => sp.version # obs.version
  /\ pc = "detach" => sp.router = NoRouter

\* What one step of a reconcile may do to the cluster.
WritesOnlyDeclared ==
  /\ up'.name # up.name => up'.name = sp.name
  /\ up'.router # up.router => up'.router = sp.router
  /\ up'.target # up.target =>
       /\ up'.target = sp.version /\ sp.version \in Catalog
       /\ versionNewer(sp.version, obs.version) /\ versionNewer(sp.version, up.target)
  /\ up'.version = up.version /\ up'.active = up.active /\ up'.placed = up.placed
  /\ up' # up => ~ZoneRejected(sp) /\ ~VersionRejected(sp.version, obs.version)

\* A step that stays within what was let through, or ends the pass.
LEMMA StaysAdmitted ==
  ASSUME Admitted, UNCHANGED <<sp, obs>>,
         \/ pc' \notin Writing
         \/ pc \in Writing /\ pc' \in Writing \ {"version", "detach"}
         \/ pc' = pc
  PROVE  Admitted'
  BY DEF Admitted, ZoneRejected, VersionRejected, versionNewer, Writing

\* Every step keeps it so.
LEMMA AdmittedStep == Admitted /\ [Next]_vars => Admitted'
<1> SUFFICES ASSUME Admitted, [Next]_vars PROVE Admitted'
    OBVIOUS
<1>a. EndPass => pc' = "idle"
  BY DEF EndPass
<1>1. CASE Observe
  BY <1>1 DEF Observe, GoTo, Admitted, Writing
<1>2. CASE kubeconfigConnectionDetails \/ ObserveReturns \/ PublishFails
  BY <1>2, <1>a, StaysAdmitted
     DEF kubeconfigConnectionDetails, ObserveReturns, PublishFails, GoTo, Writing
<1>3. CASE Update
  <2>1. CASE EndPass
    BY <2>1, <1>a DEF Admitted, Writing
  <2>2. CASE ~EndPass
    <3>1. /\ sp' = sp /\ obs'.version = up.version
          /\ ~ZoneRejected(sp) /\ ~VersionRejected(sp.version, up.version)
          /\ pc' = IF sp.version # up.version THEN "version" ELSE "integrate"
      BY <1>3, <2>2 DEF Update, GoTo, Seen
    <3> QED BY <3>1 DEF Admitted, ZoneRejected, VersionRejected, versionNewer
  <2> QED BY <2>1, <2>2
<1>4. CASE convergeRouterIntegration
  <2>1. CASE pc' = "detach"
    <3>1. sp.router = NoRouter /\ pc = "integrate" /\ UNCHANGED <<sp, obs>>
      BY <1>4, <2>1, <1>a DEF convergeRouterIntegration, integrationStep, GoTo
    <3> QED BY <2>1, <3>1 DEF Admitted, ZoneRejected, VersionRejected, versionNewer, Writing
  <2>2. CASE pc' # "detach"
    <3>1. pc = "integrate" /\ UNCHANGED <<sp, obs>> /\ pc' \in {"idle", "attach", "rename"}
      BY <1>4, <2>2, <1>a DEF convergeRouterIntegration, integrationStep, GoTo
    <3> QED BY <3>1, StaysAdmitted DEF Writing
  <2> QED BY <2>1, <2>2
<1>5. CASE UpdateClusterVersion \/ attach \/ detach \/ UpdateCluster
  BY <1>5, <1>a, StaysAdmitted
     DEF UpdateClusterVersion, attach, detach, UpdateCluster, Send, GoTo, Writing
<1>6. CASE \/ ConnectFails \/ Provisions \/ PanelIntegrates \/ EditSpec \/ Crash \/ UNCHANGED vars
           \/ \E r \in Routers : \/ RouterObserves(r) \/ RouterDelete(r)
                                 \/ RequestRouterDelete(r) \/ RouterWired(r)
                                 \/ RouterBlocked(r) \/ RouterUnblocked(r)
  BY <1>6, StaysAdmitted
     DEF ConnectFails, Provisions, PanelIntegrates, Environment, EditSpec, Crash, vars, Writing,
         RouterObserves, RouterDelete, RequestRouterDelete, RouterWired, RouterBlocked, RouterUnblocked
<1> QED BY <1>1, <1>2, <1>3, <1>4, <1>5, <1>6 DEF Next, Reconcile

\* Only the four requests of Update change the cluster, each towards the declaration.
LEMMA WriteStep == TypeInv /\ Admitted /\ Reconcile => WritesOnlyDeclared
<1> SUFFICES ASSUME TypeInv, Admitted, Reconcile PROVE WritesOnlyDeclared
    OBVIOUS
<1>a. up \in clusterBody
  BY DEF TypeInv, TypeOK
<1>1. CASE up' = up
  BY <1>1 DEF WritesOnlyDeclared
<1>2. CASE up' # up
  <2>1. \/ UpdateClusterVersion \/ attach \/ detach \/ UpdateCluster
    BY <1>2 DEF Reconcile, ConnectFails, Observe, kubeconfigConnectionDetails, ObserveReturns,
       Update, convergeRouterIntegration
  <2>2. ~ZoneRejected(sp) /\ ~VersionRejected(sp.version, obs.version)
    BY <2>1 DEF Admitted, Writing, UpdateClusterVersion, attach, detach, UpdateCluster
  <2>3. CASE UpdateClusterVersion
    <3>1. up' = [up EXCEPT !.target = sp.version] /\ versionNewer(sp.version, up.target)
      BY <1>2, <2>3, Requests DEF Sent, Upgraded
    <3>2. sp.version # obs.version
      BY <2>3 DEF UpdateClusterVersion, Admitted
    <3>3. sp.version \in Catalog /\ versionNewer(sp.version, obs.version)
      BY <2>2, <3>2 DEF VersionRejected
    <3>4. /\ up'.name = up.name /\ up'.router = up.router /\ up'.target = sp.version
          /\ up'.version = up.version /\ up'.active = up.active /\ up'.placed = up.placed
      BY <3>1, <1>a DEF clusterBody
    <3> QED BY <2>2, <3>1, <3>3, <3>4 DEF WritesOnlyDeclared
  <2>4. CASE attach \/ detach
    <3>1. up' = [up EXCEPT !.router = sp.router]
      BY <1>2, <2>4, Requests DEF Sent, Integrated, Admitted, detach
    <3>2. /\ up'.name = up.name /\ up'.router = sp.router /\ up'.target = up.target
          /\ up'.version = up.version /\ up'.active = up.active /\ up'.placed = up.placed
      BY <3>1, <1>a DEF clusterBody
    <3> QED BY <2>2, <3>2 DEF WritesOnlyDeclared
  <2>5. CASE UpdateCluster
    <3>1. up' = [up EXCEPT !.name = sp.name]
      BY <1>2, <2>5 DEF UpdateCluster
    <3>2. /\ up'.name = sp.name /\ up'.router = up.router /\ up'.target = up.target
          /\ up'.version = up.version /\ up'.active = up.active /\ up'.placed = up.placed
      BY <3>1, <1>a DEF clusterBody
    <3> QED BY <2>2, <3>2 DEF WritesOnlyDeclared
  <2> QED BY <2>1, <2>3, <2>4, <2>5
<1> QED BY <1>1, <1>2

\* A reconcile changes the cluster only towards the declaration it has read, and not at
\* all when Update's checks reject that declaration (Update returns before the first
\* request): a version it asks for is offered and newer than the one it has read, and
\* an integration becomes the declared one or, with none declared, none; whatever
\* happens between its reads and its requests.
THEOREM OnlyDeclaredWritten == Spec => [][Reconcile => WritesOnlyDeclared]_vars
<1>1. Init => TypeInv /\ Admitted
  BY TypeInit DEF Init, Admitted, Writing
<1>2. TypeInv /\ Admitted /\ [Next]_vars => (TypeInv /\ Admitted)'
  BY TypeStep, AdmittedStep
<1>3. TypeInv /\ Admitted /\ [Next]_vars => [Reconcile => WritesOnlyDeclared]_vars
  BY WriteStep
<1> QED BY <1>1, <1>2, <1>3, PTL DEF Spec

=============================================================================
