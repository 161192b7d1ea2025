--------------------------- MODULE NodepoolScaling ---------------------------
(***************************************************************************)
(* Observe and Update of one existing worker group                         *)
(* (internal/controller/kubernetes/nodepool_external.go): labels and       *)
(* taints, the hand-over of the node count between the declaration and the *)
(* upstream autoscaler, and scaling by relative calls.                     *)
(*                                                                         *)
(* "Add n nodes" and "remove n nodes" are not idempotent, and the count    *)
(* belongs to the autoscaler while its flag is on.  A request may be       *)
(* refused, dropped though acknowledged, carried out with the answer lost, *)
(* or carried out after its client gave up (the 60 s of DefaultTimeout).   *)
(* The group reports the REQUESTED count; the worker VMs follow later.     *)
(*                                                                         *)
(* Labels and taints are one value: both are compared as sets and replaced *)
(* as a whole.  Sizing is left out: the API server refuses a switch between*)
(* presetName and resources, so that Update's guards against one are idle. *)
(***************************************************************************)
EXTENDS Integers

CONSTANTS
  Specs,      \* declarations the operator moves between
  NoSize,     \* minSize and maxSize of a group that is not autoscaled
  NoCall,     \* no request is under way behind the provider's back
  MaxFaults,  \* requests that go wrong, and crashes
  MaxEdits,   \* edits of the declaration
  MaxMoves    \* changes of the group by autoscaler and panel

SizeOK(min, max) == min \in Nat /\ max \in Nat /\ min <= max

\* The declarations that the API server admits: nodeCount is at least one.
ASSUME ScalingAssumption ==
  /\ \A s \in Specs : /\ s.on \in BOOLEAN
                      /\ s.count \in Nat \ {0}
                      /\ s.on => SizeOK(s.min, s.max)
  /\ NoSize \notin Nat
  /\ MaxFaults \in Nat /\ MaxEdits \in Nat /\ MaxMoves \in Nat

VARIABLES
  spec,    \* stored spec.forProvider
  up,      \* the node group upstream
  nodes,   \* state -> how many worker VMs of the group are in it
  ready,   \* stored Ready condition, by reason
  pc,      \* where the reconcile is, or the call it is about to make
  sp,      \* the declaration this reconcile has read
  obs,     \* the group as Observe, and later Update, has read it
  cond,    \* the Ready condition this reconcile has set
  dirty,   \* the stored object changed since the reconcile read it
  late,    \* a request that timed out and may still be carried out
  touched, \* others changed the group since Update read it for its calls
  faults, edits, moves

vars == <<spec, up, nodes, ready, pc, sp, obs, cond, dirty, late, touched,
          faults, edits, moves>>

Reasons == {"Creating", "Reconciling", "Available", "UpstreamFailed"}

Calls == {"metadata", "enable", "disable", "scale"}

Metas == {s.meta : s \in Specs}

\* nodeGroupBody: what the GET of a group decodes.
nodeGroupBody ==
  [meta : Metas, auto : BOOLEAN, min : Nat \cup {NoSize}, max : Nat \cup {NoSize},
   count : Nat]

Requests ==
  [op : {"metadata"}, meta : Metas] \cup [op : {"enable"}, min : Nat, max : Nat]
    \cup [op : {"disable"}] \cup [op : {"scale"}, delta : Int]

TypeOK ==
  /\ spec \in Specs /\ sp \in Specs
  /\ up \in nodeGroupBody /\ obs \in nodeGroupBody
  /\ up.auto => SizeOK(up.min, up.max)
  /\ nodes \in [{"starting", "active", "failed"} -> Nat]
  /\ ready \in Reasons /\ cond \in Reasons
  /\ pc \in {"idle", "nodes", "update"} \cup Calls
  /\ dirty \in BOOLEAN /\ touched \in BOOLEAN
  /\ late \in Requests \cup {NoCall}
  /\ late # NoCall /\ late.op = "enable" => SizeOK(late.min, late.max)
  /\ faults \in 0..MaxFaults /\ edits \in 0..MaxEdits /\ moves \in 0..MaxMoves

\* The group that Create asks for; the count is sent in either case.
buildCreateNodeGroupBody(s) ==
  [meta |-> s.meta, auto |-> s.on, count |-> s.count,
   min |-> IF s.on THEN s.min ELSE NoSize,
   max |-> IF s.on THEN s.max ELSE NoSize]

\* A group just created, or adopted by a declaration that has changed since.
Init ==
  /\ spec \in Specs
  /\ \E s \in Specs : up = buildCreateNodeGroupBody(s)
  /\ nodes = [st \in {"starting", "active", "failed"} |-> 0]
  /\ ready = "Creating" /\ cond = "Creating"
  /\ pc = "idle" /\ sp = spec /\ obs = up
  /\ dirty = FALSE /\ late = NoCall /\ touched = FALSE
  /\ faults = 0 /\ edits = 0 /\ moves = 0

counters == <<faults, edits, moves>>

(***************************************************************************)
(* Observe.                                                                *)
(***************************************************************************)
nodepoolMetadataUpToDate(s, g) == s.meta = g.meta

autoscalingUpToDate(s, g) == g.auto /\ g.min = s.min /\ g.max = s.max

\* Mistake: a pool declared without autoscaling is judged by its count alone.
UpToDateByCount(s, g) ==
  /\ nodepoolMetadataUpToDate(s, g)
  /\ IF s.on THEN autoscalingUpToDate(s, g) ELSE s.count = g.count

\* The count is compared only when neither side has autoscaling on.
isNodepoolUpToDate(s, g) ==
  /\ nodepoolMetadataUpToDate(s, g)
  /\ IF s.on THEN autoscalingUpToDate(s, g) ELSE ~g.auto /\ s.count = g.count

Listed == nodes["starting"] + nodes["active"] + nodes["failed"]

\* Mistake: no pool may rest at zero nodes.
NeverAtZero(upToDate, zeroOK, declared) ==
  IF nodes["failed"] > 0 THEN "UpstreamFailed"
  ELSE IF ~upToDate THEN "Reconciling"
  ELSE IF declared = 0 /\ Listed = 0 THEN "Creating"
  ELSE IF nodes["active"] < declared THEN "Reconciling"
  ELSE "Available"

\* A failed node, a drifted group, an empty one, too few active nodes, in this order.
setNodepoolReadyCondition(upToDate, zeroOK, declared) ==
  IF nodes["failed"] > 0 THEN "UpstreamFailed"
  ELSE IF ~upToDate THEN "Reconciling"
  ELSE IF declared = 0 /\ Listed = 0 THEN IF zeroOK THEN "Available" ELSE "Creating"
  ELSE IF nodes["active"] < declared THEN "Reconciling"
  ELSE "Available"

\* The group is read first ...
Observe ==
  /\ pc = "idle"
  /\ pc' = "nodes" /\ sp' = spec /\ obs' = up /\ cond' = ready /\ dirty' = FALSE
  /\ UNCHANGED <<spec, up, nodes, ready, late, touched, counters>>

\* The runtime's status write at the end of a reconcile, which is refused on a
\* stale object.
EndPass == pc' = "idle" /\ ready' = IF dirty THEN ready ELSE cond'

\* ... and its nodes next.  The reconcile ends here when nothing has drifted.
observeGroupNodes ==
  /\ pc = "nodes"
  /\ LET upToDate == isNodepoolUpToDate(sp, obs)
         zeroOK   == upToDate /\ sp.on /\ sp.min = 0
     IN  /\ cond' = setNodepoolReadyCondition(upToDate, zeroOK, obs.count)
         /\ IF upToDate THEN EndPass ELSE pc' = "update" /\ UNCHANGED ready
  /\ UNCHANGED <<spec, up, nodes, sp, obs, dirty, late, touched, counters>>

(***************************************************************************)
(* Update.                                                                 *)
(***************************************************************************)
\* Mistake: the count is gated on the declaration instead of the observed flag.
GatedOnDeclaration(s, g) ==
  IF s.on THEN IF autoscalingUpToDate(s, g) THEN "idle" ELSE "enable"
  ELSE IF s.count # g.count THEN "scale"
  ELSE IF g.auto THEN "disable" ELSE "idle"

\* After the metadata at most one of three calls is made, by what Update has read.
\* While the autoscaler is declared or seen on, the count is left alone.
countStep(s, g) ==
  IF s.on THEN IF autoscalingUpToDate(s, g) THEN "idle" ELSE "enable"
  ELSE IF g.auto THEN "disable"
  ELSE IF s.count # g.count THEN "scale" ELSE "idle"

firstStep(s, g) ==
  IF nodepoolMetadataUpToDate(s, g) THEN countStep(s, g) ELSE "metadata"

GoTo(step) == IF step = "idle" THEN EndPass ELSE pc' = step /\ UNCHANGED ready

\* Update reads the group again and decides on its calls from that answer.
Update ==
  /\ pc = "update"
  /\ obs' = up /\ touched' = FALSE /\ cond' = cond
  /\ GoTo(firstStep(sp, up))
  /\ UNCHANGED <<spec, up, nodes, sp, dirty, late, counters>>

\* What Timeweb makes of a request.  It nulls the bounds with the flag, and
\* refuses to remove more nodes than there are.
Carried(req, g) ==
  CASE req.op = "metadata" -> [g EXCEPT !.meta = req.meta]
    [] req.op = "enable"   -> [g EXCEPT !.auto = TRUE, !.min = req.min, !.max = req.max]
    [] req.op = "disable"  -> [g EXCEPT !.auto = FALSE, !.min = NoSize, !.max = NoSize]
    [] req.op = "scale"    -> IF g.count + req.delta >= 0
                                THEN [g EXCEPT !.count = @ + req.delta] ELSE g

\* A request and what may become of it; after an error the reconcile ends.
Send(req, next) ==
  /\ cond' = cond
  /\ \/ up' = Carried(req, up) /\ GoTo(next) /\ UNCHANGED <<late, faults>>
     \/ /\ faults < MaxFaults /\ faults' = faults + 1
        /\ \/ up' = up /\ GoTo(next) /\ UNCHANGED late                  \* dropped
           \/ up' = up /\ EndPass /\ UNCHANGED late                     \* refused
           \/ up' = Carried(req, up) /\ EndPass /\ UNCHANGED late       \* answer lost
           \/ late = NoCall /\ late' = req /\ up' = up /\ EndPass       \* timed out
  /\ UNCHANGED <<spec, nodes, sp, obs, dirty, touched, edits, moves>>

\* The owned metadata, as a whole.
patchMetadata ==
  /\ pc = "metadata"
  /\ Send([op |-> "metadata", meta |-> sp.meta], countStep(sp, obs))

\* Mistake: the bounds are swapped in the request.
SwappedBounds ==
  /\ pc = "enable"
  /\ Send([op |-> "enable", min |-> sp.max, max |-> sp.min], "idle")

\* The flag with its bounds; the count is the autoscaler's from here on.
enableAutoscaling ==
  /\ pc = "enable"
  /\ Send([op |-> "enable", min |-> sp.min, max |-> sp.max], "idle")

\* The flag alone; the count waits until the flag is seen off.
disableAutoscaling == pc = "disable" /\ Send([op |-> "disable"], "idle")

\* delta := NodeCount - observed.NodeCount
delta(s, g) == s.count - g.count

\* IncreaseCountOfNodesInGroup or ReduceCountOfNodesInGroup, by the sign.
scaleNodes == pc = "scale" /\ Send([op |-> "scale", delta |-> delta(sp, obs)], "idle")

(***************************************************************************)
(* Everything else.                                                        *)
(***************************************************************************)
\* The process dies, or a read fails, which still writes the status: the reconcile
\* starts again.
Crash ==
  /\ pc # "idle" /\ faults < MaxFaults
  /\ pc' = "idle" /\ faults' = faults + 1
  /\ ready' \in {ready, IF dirty THEN ready ELSE cond}
  /\ UNCHANGED <<spec, up, nodes, sp, obs, cond, dirty, late, touched, edits, moves>>

\* A request that timed out is carried out after all.
LateCall ==
  /\ late # NoCall
  /\ up' = Carried(late, up) /\ late' = NoCall /\ touched' = (pc \in Calls)
  /\ UNCHANGED <<spec, nodes, ready, pc, sp, obs, cond, dirty, counters>>

EditSpec ==
  /\ edits < MaxEdits /\ edits' = edits + 1
  /\ spec' \in Specs \ {spec} /\ dirty' = TRUE
  /\ UNCHANGED <<up, nodes, ready, pc, sp, obs, cond, late, touched, faults, moves>>

\* Somebody scales the group, or edits it, in the Timeweb panel.
PanelEdits ==
  /\ moves < MaxMoves /\ moves' = moves + 1 /\ touched' = (pc \in Calls)
  /\ \E s \in Specs : up' \in {buildCreateNodeGroupBody(s), [up EXCEPT !.count = s.count]}
  /\ UNCHANGED <<spec, nodes, ready, pc, sp, obs, cond, dirty, late, faults, edits>>

ResizeTo(c) ==
  /\ c # up.count
  /\ up' = [up EXCEPT !.count = c]
  /\ UNCHANGED <<spec, nodes, ready, pc, sp, obs, cond, dirty, late, touched, faults, edits>>

\* The autoscaler follows the load, and brings a count back into its bounds.
Autoscale ==
  /\ up.auto /\ moves < MaxMoves /\ moves' = moves + 1
  /\ \E c \in up.min..up.max : ResizeTo(c)

KeepBounds ==
  /\ up.auto
  /\ \/ up.count < up.min /\ ResizeTo(up.min)
     \/ up.count > up.max /\ ResizeTo(up.max)
  /\ UNCHANGED moves

MoveNode(from, to) ==
  /\ nodes[from] > 0
  /\ nodes' = [nodes EXCEPT ![from] = @ - 1, ![to] = @ + 1]

\* The worker VMs follow the requested count.
NodeAdded   == Listed < up.count /\ nodes' = [nodes EXCEPT !["starting"] = @ + 1]
NodeBoots   == MoveNode("starting", "active")
NodeRemoved == /\ Listed > up.count
               /\ \E st \in DOMAIN nodes : /\ nodes[st] > 0
                                           /\ nodes' = [nodes EXCEPT ![st] = @ - 1]

Provisioning ==
  /\ NodeAdded \/ NodeBoots \/ NodeRemoved
  /\ UNCHANGED <<spec, up, ready, pc, sp, obs, cond, dirty, late, touched, counters>>

\* A VM that cannot be provisioned, and does not recover on its own.
NodeFails ==
  /\ faults < MaxFaults /\ faults' = faults + 1
  /\ MoveNode("starting", "failed")
  /\ UNCHANGED <<spec, up, ready, pc, sp, obs, cond, dirty, late, touched, edits, moves>>

Reconcile ==
  \/ Observe \/ observeGroupNodes \/ Update
  \/ patchMetadata \/ enableAutoscaling \/ disableAutoscaling \/ scaleNodes

Next ==
  \/ Reconcile
  \/ Crash \/ LateCall \/ EditSpec \/ PanelEdits \/ Autoscale \/ KeepBounds
  \/ Provisioning \/ NodeFails

Spec == Init /\ [][Next]_vars

(***************************************************************************)
(* Fairness: the work queue requeues the MR for ever, Timeweb provisions   *)
(* the VMs it has accepted and its autoscaler keeps to the bounds.         *)
(***************************************************************************)
Fairness == WF_vars(Reconcile) /\ WF_vars(Provisioning) /\ WF_vars(KeepBounds)

FairSpec == Spec /\ Fairness

(***************************************************************************)
(* Properties.                                                             *)
(***************************************************************************)
\* docs/kubernetes.md, "no fighting, even mid-transition": a scaling call is about
\* to be sent only while the upstream autoscaler is off, and then takes the group
\* to exactly the declared count, although the call is relative and was worked out
\* a while ago: nothing but a late request or somebody in the panel can have come
\* in between.  Lost, dropped and refused requests, crashes and edits cannot.
ScalesExactly ==
  pc = "scale" => touched \/ (~up.auto /\ up.count + delta(sp, obs) = sp.count)

Declared(s, g) ==
  /\ g.meta = s.meta
  /\ g.auto = s.on
  /\ IF s.on THEN g.min = s.min /\ g.max = s.max /\ g.count \in s.min..s.max
             ELSE g.count = s.count

\* Whatever is edited, lost, late or changed by others, the group ends up as
\* declared for good: flag, bounds and labels, and the count where it is declared.
Converges == <>[]Declared(spec, up)

\* And the Ready condition ends up telling what became of the nodes: Available
\* unless one of them failed, at zero nodes too where zero is the floor
\* (setNodepoolReadyCondition).
Reported ==
  <>[](ready = IF nodes["failed"] > 0 THEN "UpstreamFailed" ELSE "Available")
=============================================================================
