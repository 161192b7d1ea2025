---------------------------- MODULE ClusterUpdate ----------------------------
(***************************************************************************)
(* Observe and Update of one existing KubernetesCluster                    *)
(* (internal/controller/kubernetes/cluster_external.go): the forward-only  *)
(* version upgrade (cluster_upgrade.go), the integration with a router     *)
(* (router_integration.go), the connection Secret, and the deletion of the *)
(* Routers it may be integrated with (network/router_external.go).         *)
(*                                                                         *)
(* Nothing in the answer to the GET of a cluster tells which router it is  *)
(* integrated with: the routers' parent_services do.  What the provider    *)
(* itself has integrated is remembered in status.integratedRouterID alone, *)
(* which is written at the end of a reconcile and lost with it.            *)
(*                                                                         *)
(* A version is a pair: its numeric part and its build metadata.  Sizing,  *)
(* networkDriver and preset are left out: the API server refuses to change *)
(* them, so that Update's guards against it are idle.                      *)
(***************************************************************************)
EXTENDS Naturals

CONSTANTS
  Routers,    \* routers, by upstream id
  NoRouter,   \* no router declared, recorded or integrated
  Specs,      \* declarations the operator moves between
  Catalog,    \* versions Timeweb offers
  MaxFaults,  \* requests that go wrong, and crashes
  MaxEdits,   \* edits of the declaration and deletions of Routers
  MaxMoves    \* changes made in the Timeweb panel, and Routers that stop being Ready

Versions == Nat \X Nat

ASSUME ClusterAssumption ==
  /\ NoRouter \notin Routers
  /\ Catalog \subseteq Versions
  /\ \A s \in Specs : /\ s.version \in Versions
                      /\ s.router \in Routers \cup {NoRouter}
                      /\ s.zone \in {"pinned", "derived"}
  /\ MaxFaults \in Nat /\ MaxEdits \in Nat /\ MaxMoves \in Nat

VARIABLES
  spec,     \* stored spec.forProvider
  record,   \* stored status.atProvider.integratedRouterID
  ready,    \* stored Ready condition is True
  secret,   \* the connection Secret holds the kubeconfig
  up,       \* the cluster upstream
  net,      \* router -> "absent", "bare" or "wired": attaches the network, with NAT
  robj,     \* router -> its MR: see RouterStates
  rpc,      \* router -> "idle", or "delete" when its MR is about to delete it
  rserves,  \* router -> its MR has seen parent services on its last Observe
  pc,       \* where the cluster's reconcile is
  sp,       \* the declaration it has read
  obs,      \* name and version of the cluster as it has read them
  rec,      \* integratedRouterID in memory
  rdy,      \* Ready in memory
  cd,       \* connection details in memory
  dirty,    \* the stored object changed since the reconcile read it
  declared, \* a router has been declared at some time
  missed,   \* the kubeconfig was not answered, or not published
  joined,   \* routers the cluster was given after the MR that is deleting them looked
  faults, edits, moves

vars == <<spec, record, ready, secret, up, net, robj, rpc, rserves, pc, sp, obs, rec, rdy,
          cd, dirty, declared, missed, joined, faults, edits, moves>>

stored    == <<record, ready>>
published == <<secret, missed>>
routers   == <<net, robj, rpc, rserves>>
counters  == <<faults, edits, moves>>

MaybeRouter == Routers \cup {NoRouter}

\* A Router is Ready while "present", and while "deleting" (deletionTimestamp set) until
\* its first Delete, after which it is "pending": whatever Delete returns, the runtime
\* stores Ready=False, reason Deleting.  It is "unready" for reasons of its own: a NAT
\* address that is blocked, a router that is not active.
RouterStates == {"present", "unready", "deleting", "pending", "gone"}

clusterBody ==
  [name : {s.name : s \in Specs}, version : Catalog, target : Catalog,
   router : MaybeRouter, active : BOOLEAN, placed : BOOLEAN]

Seen(c) == [name |-> c.name, version |-> c.version]

TypeOK ==
  /\ spec \in Specs /\ sp \in Specs
  /\ record \in MaybeRouter /\ rec \in MaybeRouter
  /\ ready \in BOOLEAN /\ rdy \in BOOLEAN /\ secret \in BOOLEAN /\ cd \in BOOLEAN
  /\ up \in clusterBody /\ obs \in [name : {s.name : s \in Specs}, version : Catalog]
  /\ net \in [Routers -> {"absent", "bare", "wired"}]
  /\ robj \in [Routers -> RouterStates]
  /\ rpc \in [Routers -> {"idle", "delete"}] /\ rserves \in [Routers -> BOOLEAN]
  /\ pc \in {"idle", "kubeconfig", "routers", "update", "version", "integrate",
             "attach", "detach", "rename"}
  /\ dirty \in BOOLEAN /\ declared \in BOOLEAN /\ missed \in BOOLEAN /\ joined \subseteq Routers
  /\ faults \in 0..MaxFaults /\ edits \in 0..MaxEdits /\ moves \in 0..MaxMoves

\* A cluster that was just created, in the zone that was asked for or, as Timeweb
\* is known to do, in another one; target is the version it is upgrading to.
Init ==
  /\ spec \in Specs /\ sp = spec /\ declared = (spec.router # NoRouter)
  /\ \E s \in Specs, placed \in BOOLEAN :
       up = [name |-> s.name, version |-> s.version, target |-> s.version,
             router |-> NoRouter, active |-> FALSE, placed |-> placed]
  /\ up.version \in Catalog /\ obs = Seen(up)
  /\ net = [r \in Routers |-> "bare"] /\ robj = [r \in Routers |-> "present"]
  /\ rpc = [r \in Routers |-> "idle"] /\ rserves = [r \in Routers |-> FALSE]
  /\ record = NoRouter /\ rec = NoRouter
  /\ ready = FALSE /\ rdy = FALSE /\ secret = FALSE /\ cd = FALSE
  /\ pc = "idle" /\ dirty = FALSE /\ missed = FALSE /\ joined = {}
  /\ faults = 0 /\ edits = 0 /\ moves = 0

Fault == faults < MaxFaults /\ faults' = faults + 1

\* The runtime's status write, which ends every reconcile, failed ones included,
\* and is refused on a stale object.
EndPass ==
  /\ pc' = "idle" /\ cd' = FALSE
  /\ IF dirty THEN UNCHANGED stored ELSE record' = rec' /\ ready' = rdy'

GoTo(step) == pc' = step /\ UNCHANGED stored

\* Bookkeeping for ServingRouterKept.
Joins ==
  joined' = joined \cup {r \in Routers : rpc[r] = "delete" /\ up.router # r /\ up'.router = r}

(***************************************************************************)
(* Observe.                                                                *)
(***************************************************************************)
\* resolveClusterRouterDecl: the Router that is referred to must be Ready.
RouterReady(r) == robj[r] \in {"present", "deleting"}
Connects(s) == \A r \in Routers : s.router = r => RouterReady(r)

\* Mistake: the kubeconfig is fetched once there is nothing left to update.
FetchWhenSettled ==
  /\ pc = "idle" /\ Connects(spec)
  /\ sp' = spec /\ obs' = Seen(up) /\ rec' = record /\ dirty' = FALSE
  /\ rdy' = (up.placed /\ up.active)
  /\ IF ~up.placed THEN /\ pc' = "idle" /\ cd' = FALSE /\ ready' = FALSE /\ record' = record
     ELSE /\ cd' = FALSE
          /\ GoTo(IF up.active /\ ~ready /\ spec.name = up.name THEN "kubeconfig" ELSE "routers")
  /\ UNCHANGED <<spec, published, up, routers, declared, joined, counters>>

\* The GET of the cluster.  A misplaced one is reported and otherwise left alone;
\* the kubeconfig is fetched when Ready becomes True.
Observe ==
  /\ pc = "idle" /\ Connects(spec)
  /\ sp' = spec /\ obs' = Seen(up) /\ rec' = record /\ dirty' = FALSE
  /\ rdy' = (up.placed /\ up.active)
  /\ IF ~up.placed THEN /\ pc' = "idle" /\ cd' = FALSE /\ ready' = FALSE /\ record' = record
     ELSE cd' = FALSE /\ GoTo(IF up.active /\ ~ready THEN "kubeconfig" ELSE "routers")
  /\ UNCHANGED <<spec, published, up, routers, declared, joined, counters>>

\* Connect fails: the pass ends before Observe.
ConnectFails ==
  /\ pc = "idle" /\ ~Connects(spec) /\ dirty' = FALSE
  /\ UNCHANGED <<spec, stored, published, up, routers, pc, sp, obs, rec, rdy, cd, declared, joined,
                 counters>>

\* An answer, a 404 ("not yet", and no error), or an error, which fails Observe.
kubeconfigConnectionDetails ==
  /\ pc = "kubeconfig"
  /\ rec' = rec /\ rdy' = rdy
  /\ \/ cd' = TRUE /\ GoTo("routers") /\ UNCHANGED <<missed, faults>>
     \/ Fault /\ missed' = TRUE /\ cd' = FALSE /\ GoTo("routers")
     \/ Fault /\ missed' = TRUE /\ EndPass
  /\ UNCHANGED <<spec, secret, up, routers, sp, obs, dirty, declared, joined, edits, moves>>

versionNewer(a, b) == a[1] > b[1]

isClusterUpToDate(s, c) == s.name = c.name /\ s.version = c.version

\* integrationWaitMessage: the declared router is not there, or does not attach the
\* network with NAT yet.
Waits(s) == \E r \in Routers : s.router = r /\ net[r] # "wired"

\* Whether Update has integration work, and what it means for record and Ready.  A
\* failed read of the routers keeps everything as it is and is no drift.
observeRouterIntegration(drift) ==
  \/ /\ sp.router = NoRouter /\ rec = NoRouter
     /\ drift = FALSE /\ rec' = rec /\ rdy' = rdy /\ UNCHANGED faults
  \/ /\ sp.router # NoRouter \/ rec # NoRouter
     /\ Fault /\ drift = FALSE /\ rec' = rec /\ rdy' = rdy
  \/ /\ sp.router # NoRouter /\ UNCHANGED faults
     /\ drift = (up.router # sp.router /\ ~Waits(sp))
     /\ rec' = IF up.router = sp.router THEN sp.router ELSE rec
     /\ rdy' = (rdy /\ (up.router = sp.router \/ ~Waits(sp)))
  \/ /\ sp.router = NoRouter /\ rec # NoRouter /\ UNCHANGED faults
     /\ drift = (up.router # NoRouter)
     /\ rec' = IF drift THEN rec ELSE NoRouter
     /\ rdy' = rdy

\* Observe returns, the runtime publishes the connection details, and the reconcile
\* goes on to Update when something has drifted.  Publishing may fail.
ObserveReturns ==
  /\ pc = "routers"
  /\ \E drift \in BOOLEAN :
       /\ observeRouterIntegration(drift)
       /\ secret' = (secret \/ cd)
       /\ IF isClusterUpToDate(sp, obs) /\ ~drift
            THEN EndPass ELSE cd' = FALSE /\ GoTo("update")
  /\ UNCHANGED <<spec, missed, up, routers, sp, obs, dirty, declared, joined, edits, moves>>

PublishFails ==
  /\ pc = "routers" /\ cd /\ Fault /\ missed' = TRUE
  /\ rec' = rec /\ rdy' = rdy /\ EndPass
  /\ UNCHANGED <<spec, secret, up, routers, sp, obs, dirty, declared, joined, edits, moves>>

(***************************************************************************)
(* Update.                                                                 *)
(***************************************************************************)
\* Update compares the observed zone with spec.availabilityZone itself, not with the
\* zone that Create derived from the location.
ZoneRejected(s) == s.zone = "derived"

\* Mistake: the catalog is not asked.
NewerWillDo(v, observed) == v # observed /\ (v[1] = 0 \/ ~versionNewer(v, observed))

\* reconcileVersion's rejections: unparseable, older, lateral or not in the catalog.
VersionRejected(v, observed) ==
  /\ v # observed
  /\ v[1] = 0 \/ ~versionNewer(v, observed) \/ v \notin Catalog

\* Update reads the cluster again; a rejection ends it before any request, and so does
\* a GET, or a read of the version catalog, that fails.
Update ==
  /\ pc = "update" /\ rec' = rec /\ rdy' = rdy
  /\ \/ /\ obs' = Seen(up) /\ UNCHANGED faults
        /\ IF ZoneRejected(sp) \/ VersionRejected(sp.version, up.version) THEN EndPass
           ELSE cd' = cd /\ GoTo(IF sp.version # up.version THEN "version" ELSE "integrate")
     \/ Fault /\ obs' = obs /\ EndPass
  /\ UNCHANGED <<spec, published, up, routers, sp, dirty, declared, joined, edits, moves>>

\* A request: carried out, acknowledged and dropped, refused, or carried out with
\* the answer lost.  onOK is what an acknowledged one does to the object in memory.
Send(carried, dropped, onOK, next) ==
  /\ \/ up' = carried /\ onOK /\ GoTo(next) /\ cd' = cd /\ UNCHANGED faults
     \/ Fault /\ dropped /\ up' = up /\ onOK /\ GoTo(next) /\ cd' = cd
     \/ Fault /\ up' \in {up, carried} /\ rec' = rec /\ rdy' = rdy /\ EndPass
  /\ Joins
  /\ UNCHANGED <<spec, published, routers, sp, obs, dirty, declared, edits, moves>>

\* Timeweb takes a version newer than the one it is upgrading to; otherwise nothing
\* comes of the request.
Upgraded(v) == IF versionNewer(v, up.target) THEN [up EXCEPT !.target = v] ELSE up

UpdateClusterVersion ==
  /\ pc = "version"
  /\ Send(Upgraded(sp.version), TRUE, rec' = rec /\ rdy' = FALSE, "integrate")

\* Mistake: what is recorded is taken to be there still.
AttachUnrecorded ==
  IF sp.router # NoRouter
    THEN IF rec # sp.router /\ up.router # sp.router /\ ~Waits(sp) THEN "attach" ELSE "rename"
    ELSE IF rec # NoRouter /\ up.router # NoRouter THEN "detach" ELSE "rename"

\* Mistake: only the recorded router is detached from.
DetachOwn ==
  IF sp.router # NoRouter
    THEN IF up.router # sp.router /\ ~Waits(sp) THEN "attach" ELSE "rename"
    ELSE IF rec # NoRouter /\ up.router = rec THEN "detach" ELSE "rename"

\* Mistake: the record is not asked for.
DetachUnrecorded ==
  IF sp.router # NoRouter
    THEN IF up.router # sp.router /\ ~Waits(sp) THEN "attach" ELSE "rename"
    ELSE IF up.router # NoRouter THEN "detach" ELSE "rename"

\* What convergeRouterIntegration does with the routers it has read.
integrationStep ==
  IF sp.router # NoRouter
    THEN IF up.router # sp.router /\ ~Waits(sp) THEN "attach" ELSE "rename"
    ELSE IF rec # NoRouter /\ up.router # NoRouter THEN "detach" ELSE "rename"

\* Nothing left upstream of a recorded integration clears the record.
convergeRouterIntegration ==
  /\ pc = "integrate"
  /\ rdy' = rdy
  /\ \/ /\ GoTo(integrationStep) /\ cd' = cd /\ UNCHANGED faults
        /\ rec' = IF sp.router = NoRouter /\ integrationStep = "rename" THEN NoRouter ELSE rec
     \/ Fault /\ rec' = rec /\ EndPass
  /\ UNCHANGED <<spec, published, up, routers, sp, obs, dirty, declared, joined, edits, moves>>

\* integrationPatch, with an id or with null.
Integrated(r) ==
  IF \A q \in Routers : q = r => net[q] = "wired" THEN [up EXCEPT !.router = r] ELSE up

attach ==
  /\ pc = "attach"
  /\ Send(Integrated(sp.router), TRUE, rec' = sp.router /\ rdy' = rdy, "rename")

\* An acknowledged detach clears the record, after which nobody looks again: that one
\* is taken to be done.
detach ==
  /\ pc = "detach"
  /\ Send(Integrated(NoRouter), FALSE, rec' = NoRouter /\ rdy' = rdy, "rename")

\* PATCH of name and description, the last call of a pass.
UpdateCluster ==
  /\ pc = "rename"
  /\ rec' = rec /\ rdy' = rdy /\ EndPass
  /\ \/ sp.name = obs.name /\ UNCHANGED <<up, faults>>
     \/ sp.name # obs.name /\ up' = [up EXCEPT !.name = sp.name] /\ UNCHANGED faults
     \/ sp.name # obs.name /\ up' = up /\ Fault
  /\ UNCHANGED <<spec, published, routers, sp, obs, dirty, declared, joined, edits, moves>>

(***************************************************************************)
(* The Routers, as far as the cluster depends on them.                     *)
(***************************************************************************)
\* populateRouterStatus overwrites status.parentServices with what the GET answers.
ParentServices(r) == up.router = r

\* Observe of a Router that is being deleted, 404 included.
RouterObserves(r) ==
  /\ robj[r] \in {"deleting", "pending"} /\ rpc[r] = "idle"
  /\ rserves' = [rserves EXCEPT ![r] = ParentServices(r)]
  /\ IF net[r] = "absent" THEN robj' = [robj EXCEPT ![r] = "gone"] /\ rpc' = rpc
                          ELSE rpc' = [rpc EXCEPT ![r] = "delete"] /\ robj' = robj
  /\ joined' = joined \ {r}
  /\ UNCHANGED <<spec, stored, published, up, net, pc, sp, obs, rec, rdy, cd, dirty, declared,
                 counters>>

\* Mistake: the guard is left out.
DeleteUnguarded(r) ==
  /\ rpc[r] = "delete" /\ rpc' = [rpc EXCEPT ![r] = "idle"]
  /\ net' = [net EXCEPT ![r] = "absent"] /\ robj' = [robj EXCEPT ![r] = "pending"]
  /\ up' = IF up.router = r THEN [up EXCEPT !.router = NoRouter] ELSE up
  /\ UNCHANGED <<spec, stored, published, rserves, pc, sp, obs, rec, rdy, cd, dirty, declared,
                 joined, counters>>

\* Delete: refused while the Router was seen to serve somebody.  Timeweb detaches
\* what a deleted router served.
RouterDelete(r) ==
  /\ rpc[r] = "delete" /\ rpc' = [rpc EXCEPT ![r] = "idle"]
  /\ robj' = [robj EXCEPT ![r] = "pending"]
  /\ \/ rserves[r] /\ UNCHANGED <<net, up, faults>>
     \/ ~rserves[r] /\ Fault /\ UNCHANGED <<net, up>>
     \/ /\ ~rserves[r] /\ UNCHANGED faults
        /\ net' = [net EXCEPT ![r] = "absent"]
        /\ up' = IF up.router = r THEN [up EXCEPT !.router = NoRouter] ELSE up
  /\ UNCHANGED <<spec, stored, published, rserves, pc, sp, obs, rec, rdy, cd, dirty, declared,
                 joined, edits, moves>>

RequestRouterDelete(r) ==
  /\ robj[r] \in {"present", "unready"} /\ edits < MaxEdits /\ edits' = edits + 1
  /\ robj' = [robj EXCEPT ![r] = IF RouterReady(r) THEN "deleting" ELSE "pending"]
  /\ UNCHANGED <<spec, stored, published, up, net, rpc, rserves, pc, sp, obs, rec, rdy, cd,
                 dirty, declared, joined, faults, moves>>

\* Something of the Router's own keeps it from being Ready, for a while or for good.
RouterBlocked(r) ==
  /\ robj[r] = "present" /\ robj' = [robj EXCEPT ![r] = "unready"]
  /\ moves < MaxMoves /\ moves' = moves + 1
  /\ UNCHANGED <<spec, stored, published, up, net, rpc, rserves, pc, sp, obs, rec, rdy, cd,
                 dirty, declared, joined, faults, edits>>

RouterUnblocked(r) ==
  /\ robj[r] = "unready" /\ robj' = [robj EXCEPT ![r] = "present"]
  /\ UNCHANGED <<spec, stored, published, up, net, rpc, rserves, pc, sp, obs, rec, rdy, cd,
                 dirty, declared, joined, counters>>

\* The Router controller attaches the network and binds the NAT address.
RouterWired(r) ==
  /\ net[r] = "bare" /\ net' = [net EXCEPT ![r] = "wired"]
  /\ UNCHANGED <<spec, stored, published, up, robj, rpc, rserves, pc, sp, obs, rec, rdy, cd,
                 dirty, declared, joined, counters>>

(***************************************************************************)
(* Everything else.                                                        *)
(***************************************************************************)
Environment ==
  /\ Joins
  /\ UNCHANGED <<spec, stored, published, routers, pc, sp, obs, rec, rdy, cd, dirty, declared,
                 faults, edits>>

\* Provisioning and upgrades take their time.
Provisions ==
  /\ \/ ~up.active /\ up' = [up EXCEPT !.active = TRUE]
     \/ up.version # up.target /\ up' = [up EXCEPT !.version = up.target]
  /\ UNCHANGED moves /\ Environment

PanelIntegrates ==
  /\ moves < MaxMoves /\ moves' = moves + 1
  /\ \E r \in MaybeRouter : r # up.router /\ up' = Integrated(r)
  /\ Environment

EditSpec ==
  /\ edits < MaxEdits /\ edits' = edits + 1
  /\ spec' \in Specs \ {spec} /\ dirty' = TRUE
  /\ declared' = (declared \/ spec'.router # NoRouter)
  /\ UNCHANGED <<stored, published, up, routers, pc, sp, obs, rec, rdy, cd, joined, faults, moves>>

\* The process dies: nothing is written.
Crash ==
  /\ pc # "idle" /\ Fault
  /\ pc' = "idle" /\ cd' = FALSE /\ rpc' = [r \in Routers |-> "idle"]
  /\ UNCHANGED <<spec, stored, published, up, net, robj, rserves, sp, obs, rec, rdy, dirty, declared, joined,
                 edits, moves>>

Reconcile ==
  \/ ConnectFails \/ Observe \/ kubeconfigConnectionDetails \/ ObserveReturns
  \/ Update \/ UpdateClusterVersion \/ convergeRouterIntegration \/ attach \/ detach
  \/ UpdateCluster

Next ==
  \/ Reconcile \/ PublishFails
  \/ \E r \in Routers : \/ RouterObserves(r) \/ RouterDelete(r)
                        \/ RequestRouterDelete(r) \/ RouterWired(r)
                        \/ RouterBlocked(r) \/ RouterUnblocked(r)
  \/ Provisions \/ PanelIntegrates \/ EditSpec \/ Crash

Spec == Init /\ [][Next]_vars

\* The work queue requeues the cluster and its Routers for ever and Timeweb finishes
\* what it has accepted.  A Router need not ever get a NAT address.  Faults are bounded.
FairSpec ==
  /\ Spec /\ WF_vars(Reconcile) /\ WF_vars(Provisions)
  /\ \A r \in Routers : WF_vars(RouterObserves(r) \/ RouterDelete(r))

(***************************************************************************)
(* Properties.                                                             *)
(***************************************************************************)
\* The declaration is one that Connect, Observe and Update get through.  A reference
\* to a Router whose deletion is pending is not: it freezes the cluster.
Accepted(s) ==
  /\ Connects(s) /\ up.placed /\ ~ZoneRejected(s) /\ ~VersionRejected(s.version, up.target)

\* Whatever is lost, dropped, moved in the panel or edited in the middle of an
\* upgrade, a cluster whose declaration is accepted ends up with its name, its
\* version and its router (docs/kubernetes.md: "it repairs panel-side detaches,
\* moves the integration when the ref changes").
Converges ==
  <>[](Accepted(spec) /\ ~Waits(spec)) =>
    <>[](/\ up.name = spec.name /\ up.version = spec.version
         /\ spec.router # NoRouter => up.router = spec.router)

\* "detaches when the ref is removed": an integration that the status lists and that
\* is not declared any more when a reconcile starts is undone, wherever the panel has
\* moved it to before, as long as nothing else in the declaration stops Update on its
\* way there.
Detaches ==
  \A m \in 0..MaxMoves :
    (pc = "idle" /\ record # NoRouter /\ spec.router = NoRouter /\ moves = m) ~>
      (up.router = NoRouter \/ spec.router # NoRouter \/ ~Accepted(spec) \/ moves # m)

\* "panel-made integrations on undeclared clusters are never touched"
\* (kubernetescluster_types.go): the provider is about to change an integration only
\* if a router was declared for this cluster at some time, edits in mid-reconcile,
\* crashes and lost status writes included.
PanelIntegrationKept == pc \in {"attach", "detach"} => declared

\* "unless an upstream service is bound to it: then deletion stays pending"
\* (router_external.go, Delete): a Router is deleted under the cluster only if the
\* cluster was given it after that very reconcile had looked, whatever is attached,
\* moved in the panel or lost in between.
ServingRouterKept ==
  [][\A r \in Routers : net[r] # "absent" /\ net'[r] = "absent" /\ up.router = r =>
       r \in joined]_vars

\* "Publish the kubeconfig connection Secret only on the Ready->True transition": the
\* Secret of a cluster that is active and in its place gets the kubeconfig, through
\* crashes, conflicts, edits and upgrades around that transition, unless that one
\* fetch or its publication is refused.
KubeconfigPublished == <>[](up.placed /\ Connects(spec)) => <>(secret \/ missed)
=============================================================================
