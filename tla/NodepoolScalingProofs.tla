------------------------ MODULE NodepoolScalingProofs ------------------------
(***************************************************************************)
(* Type correctness of NodepoolScaling, that a scaling call is exact and   *)
(* leaves the autoscaler alone, and that every call takes the group nearer *)
(* to its declaration, for every set of declarations and any number of     *)
(* faults, edits and changes by others.                                    *)
(***************************************************************************)
EXTENDS NodepoolScaling, TLAPS

USE DEF SizeOK

\* Update enables autoscaling only when it is declared, so the bounds it sends are
\* those of a declaration with bounds.
EnableIsDeclared == pc = "enable" => sp.on

\* While Update's calls are under way and nobody else touched the group, it still
\* has the flag that Update read, and its count too unless the autoscaler is on.
ReadHolds ==
  pc \in {"metadata", "scale"} /\ ~touched =>
    up.auto = obs.auto /\ (~up.auto => up.count = obs.count)

\* The count is written only when Update has read the flag as off.
ScaleIsGated == pc = "scale" => ~obs.auto /\ ~sp.on

ScalingInv == TypeOK /\ EnableIsDeclared /\ ReadHolds /\ ScaleIsGated

(***************************************************************************)
(* Requests.                                                               *)
(***************************************************************************)
WellFormed(req) ==
  req \in Requests /\ (req.op = "enable" => SizeOK(req.min, req.max))

\* Whatever request Timeweb carries out, the group stays a group.
LEMMA CarriedType ==
  ASSUME NEW req, WellFormed(req),
         NEW g \in nodeGroupBody, g.auto => SizeOK(g.min, g.max)
  PROVE  /\ Carried(req, g) \in nodeGroupBody
         /\ Carried(req, g).auto => SizeOK(Carried(req, g).min, Carried(req, g).max)
<1>1. CASE req.op = "metadata"
  <2>1. req.meta \in Metas
    BY <1>1 DEF WellFormed, Requests
  <2>2. Carried(req, g) = [g EXCEPT !.meta = req.meta]
    BY <1>1 DEF Carried
  <2> QED  BY <2>1, <2>2 DEF nodeGroupBody
<1>2. CASE req.op = "enable"
  <2>1. req.min \in Nat /\ req.max \in Nat /\ req.min <= req.max
    BY <1>2 DEF WellFormed
  <2>2. Carried(req, g) = [g EXCEPT !.auto = TRUE, !.min = req.min, !.max = req.max]
    BY <1>2 DEF Carried
  <2> QED  BY <2>1, <2>2 DEF nodeGroupBody
<1>3. CASE req.op = "disable"
  <2>1. Carried(req, g) = [g EXCEPT !.auto = FALSE, !.min = NoSize, !.max = NoSize]
    BY <1>3 DEF Carried
  <2> QED  BY <2>1 DEF nodeGroupBody
<1>4. CASE req.op = "scale"
  <2>1. req.delta \in Int
    BY <1>4 DEF WellFormed, Requests
  <2>2. Carried(req, g) = IF g.count + req.delta >= 0
                            THEN [g EXCEPT !.count = @ + req.delta] ELSE g
    BY <1>4 DEF Carried
  <2> QED  BY <2>1, <2>2 DEF nodeGroupBody
<1> QED  BY <1>1, <1>2, <1>3, <1>4 DEF WellFormed, Requests

\* A new group has the type of a group.
LEMMA CreatedType ==
  ASSUME NEW s \in Specs
  PROVE  /\ buildCreateNodeGroupBody(s) \in nodeGroupBody
         /\ buildCreateNodeGroupBody(s).auto =>
              SizeOK(buildCreateNodeGroupBody(s).min, buildCreateNodeGroupBody(s).max)
BY ScalingAssumption DEF buildCreateNodeGroupBody, nodeGroupBody, Metas

\* The requests Update sends are well-formed.
LEMMA SentWellFormed ==
  ASSUME TypeOK
  PROVE  /\ WellFormed([op |-> "metadata", meta |-> sp.meta])
         /\ sp.on => WellFormed([op |-> "enable", min |-> sp.min, max |-> sp.max])
         /\ WellFormed([op |-> "disable"])
         /\ WellFormed([op |-> "scale", delta |-> delta(sp, obs)])
<1>1. sp \in Specs /\ sp.meta \in Metas /\ sp.count \in Nat /\ obs.count \in Nat
  BY ScalingAssumption DEF TypeOK, Metas, nodeGroupBody
<1>2. sp.on => SizeOK(sp.min, sp.max)
  BY <1>1, ScalingAssumption
<1>3. delta(sp, obs) \in Int
  BY <1>1 DEF delta
<1> QED  BY <1>1, <1>2, <1>3 DEF WellFormed, Requests

\* Where a step of Update leads, and what follows from getting there.
LEMMA StepTargets ==
  ASSUME NEW s \in Specs, NEW g \in nodeGroupBody
  PROVE  /\ countStep(s, g) \in {"idle", "enable", "disable", "scale"}
         /\ countStep(s, g) = "enable" => s.on
         /\ countStep(s, g) = "scale" => ~g.auto /\ ~s.on
         /\ firstStep(s, g) \in {countStep(s, g), "metadata"}
BY ScalingAssumption DEF countStep, firstStep

\* Ending a reconcile, or going to its next call, keeps the types of pc and ready.
LEMMA GoToType ==
  ASSUME NEW step \in {"idle"} \cup Calls, ready \in Reasons, cond' \in Reasons, GoTo(step)
  PROVE  pc' = step /\ ready' \in Reasons
BY DEF GoTo, EndPass

LEMMA ConditionType ==
  ASSUME NEW u, NEW z, NEW d
  PROVE  setNodepoolReadyCondition(u, z, d) \in Reasons
BY DEF setNodepoolReadyCondition, Reasons

\* One call of Update: what it may do to group, pc and the request left behind.
LEMMA SendStep ==
  ASSUME TypeOK, NEW req, WellFormed(req),
         NEW next \in {"idle"} \cup Calls, Send(req, next)
  PROVE  /\ TypeOK'
         /\ up' \in {up, Carried(req, up)}
         /\ pc' \in {"idle", next}
         /\ UNCHANGED <<sp, obs, touched>>
<1>1. up' \in {up, Carried(req, up)} /\ UNCHANGED <<spec, sp, obs, touched, dirty, nodes, cond>>
  BY DEF Send
<1>2. pc' \in {"idle", next} /\ ready' \in Reasons
  <2>1. ready \in Reasons /\ cond' \in Reasons
    BY <1>1 DEF TypeOK
  <2>2. EndPass => pc' = "idle" /\ ready' \in Reasons
    BY <2>1 DEF EndPass
  <2>3. GoTo(next) => pc' = next /\ ready' \in Reasons
    BY <2>1, GoToType
  <2> QED  BY <2>2, <2>3 DEF Send
<1>3. up' \in nodeGroupBody /\ (up'.auto => SizeOK(up'.min, up'.max))
  BY <1>1, CarriedType DEF TypeOK
<1>4. /\ late' \in Requests \cup {NoCall}
      /\ late' # NoCall /\ late'.op = "enable" => SizeOK(late'.min, late'.max)
  BY DEF Send, TypeOK, WellFormed
<1>5. faults' \in 0..MaxFaults /\ edits' = edits /\ moves' = moves
  BY ScalingAssumption DEF Send, TypeOK
<1> QED  BY <1>1, <1>2, <1>3, <1>4, <1>5 DEF TypeOK, Calls

(***************************************************************************)
(* The invariant.                                                          *)
(***************************************************************************)
LEMMA InitInv == Init => ScalingInv
<1> SUFFICES ASSUME Init PROVE ScalingInv
  OBVIOUS
<1>1. up \in nodeGroupBody /\ (up.auto => SizeOK(up.min, up.max))
  BY CreatedType DEF Init
<1>2. faults \in 0..MaxFaults /\ edits \in 0..MaxEdits /\ moves \in 0..MaxMoves
  BY ScalingAssumption DEF Init
<1>3. TypeOK
  BY <1>1, <1>2 DEF Init, TypeOK, Reasons
<1> QED  BY <1>3 DEF Init, ScalingInv, EnableIsDeclared, ReadHolds, ScaleIsGated

\* A call of Update other than the metadata's ends the reconcile.
LEMMA LastCall ==
  ASSUME ScalingInv, NEW req, WellFormed(req), Send(req, "idle")
  PROVE  ScalingInv'
<1>1. TypeOK' /\ pc' = "idle"
  BY SendStep DEF ScalingInv
<1> QED  BY <1>1 DEF ScalingInv, EnableIsDeclared, ReadHolds, ScaleIsGated

LEMMA ReconcileStep == ScalingInv /\ Reconcile => ScalingInv'
<1> SUFFICES ASSUME ScalingInv, Reconcile PROVE ScalingInv'
  OBVIOUS
<1>0. TypeOK
  BY DEF ScalingInv
<1>1. CASE Observe
  <2>1. TypeOK' /\ pc' = "nodes"
    BY <1>0, <1>1 DEF Observe, TypeOK, counters
  <2> QED  BY <2>1 DEF ScalingInv, EnableIsDeclared, ReadHolds, ScaleIsGated
<1>2. CASE observeGroupNodes
  <2>1. cond' \in Reasons
    BY <1>2, ConditionType DEF observeGroupNodes
  <2>2. pc' \in {"idle", "update"} /\ ready' \in Reasons
    BY <1>0, <1>2, <2>1 DEF observeGroupNodes, EndPass, TypeOK
  <2>3. TypeOK'
    BY <1>0, <1>2, <2>1, <2>2 DEF observeGroupNodes, TypeOK, counters
  <2> QED  BY <2>2, <2>3 DEF ScalingInv, EnableIsDeclared, ReadHolds, ScaleIsGated
<1>3. CASE Update
  <2>1. sp \in Specs /\ up \in nodeGroupBody /\ ready \in Reasons /\ cond' \in Reasons
    BY <1>0, <1>3 DEF TypeOK, Update
  <2>2. firstStep(sp, up) \in {"idle"} \cup Calls
    BY <2>1, StepTargets DEF Calls
  <2>3. pc' = firstStep(sp, up) /\ ready' \in Reasons
    BY <1>3, <2>1, <2>2, GoToType DEF Update
  <2>4. UNCHANGED <<sp, up>> /\ obs' = up
    BY <1>3 DEF Update
  <2>5. TypeOK'
    BY <1>0, <1>3, <2>1, <2>2, <2>3 DEF Update, TypeOK, counters
  <2>6. EnableIsDeclared' /\ ScaleIsGated'
    BY <2>1, <2>3, <2>4, StepTargets DEF EnableIsDeclared, ScaleIsGated
  <2>7. ReadHolds'
    BY <2>4 DEF ReadHolds
  <2> QED  BY <2>5, <2>6, <2>7 DEF ScalingInv
<1>4. CASE patchMetadata
  <2> DEFINE req == [op |-> "metadata", meta |-> sp.meta]
  <2>1. WellFormed(req)
    BY <1>0, SentWellFormed
  <2>2. sp \in Specs /\ obs \in nodeGroupBody /\ up \in nodeGroupBody
    BY <1>0 DEF TypeOK
  <2>3. countStep(sp, obs) \in {"idle", "enable", "disable", "scale"}
    BY <2>2, StepTargets
  <2>4. Send(req, countStep(sp, obs)) /\ pc = "metadata"
    BY <1>4 DEF patchMetadata
  <2> HIDE DEF req
  <2>5. /\ TypeOK' /\ up' \in {up, Carried(req, up)}
        /\ pc' \in {"idle", countStep(sp, obs)} /\ UNCHANGED <<sp, obs, touched>>
    BY <1>0, <2>1, <2>3, <2>4, SendStep DEF Calls
  <2>6. Carried(req, up).auto = up.auto /\ Carried(req, up).count = up.count
    BY <2>2 DEF req, Carried, nodeGroupBody
  <2>7. up'.auto = up.auto /\ up'.count = up.count
    BY <2>5, <2>6
  <2>8. EnableIsDeclared' /\ ScaleIsGated'
    BY <2>2, <2>5, StepTargets DEF EnableIsDeclared, ScaleIsGated
  <2>9. ReadHolds'
    BY <2>4, <2>5, <2>7 DEF ReadHolds, ScalingInv
  <2> QED  BY <2>5, <2>8, <2>9 DEF ScalingInv
<1>5. CASE enableAutoscaling
  BY <1>0, <1>5, SentWellFormed, LastCall DEF enableAutoscaling, ScalingInv, EnableIsDeclared
<1>6. CASE disableAutoscaling
  BY <1>0, <1>6, SentWellFormed, LastCall DEF disableAutoscaling
<1>7. CASE scaleNodes
  BY <1>0, <1>7, SentWellFormed, LastCall DEF scaleNodes
<1> QED  BY <1>1, <1>2, <1>3, <1>4, <1>5, <1>6, <1>7 DEF Reconcile

\* Worker VMs come, boot, fail and go; nothing else changes with them.
LEMMA NodesStep ==
  ScalingInv /\ (Provisioning \/ NodeFails) => ScalingInv'
<1> SUFFICES ASSUME ScalingInv, Provisioning \/ NodeFails PROVE ScalingInv'
  OBVIOUS
<1>0. TypeOK
  BY DEF ScalingInv
<1>1. nodes' \in [{"starting", "active", "failed"} -> Nat]
  BY <1>0 DEF TypeOK, Provisioning, NodeFails, NodeAdded, NodeBoots, NodeRemoved, MoveNode
<1>2. UNCHANGED <<spec, up, ready, pc, sp, obs, cond, dirty, late, touched, edits, moves>>
  BY DEF Provisioning, NodeFails, counters
<1>3. faults' \in 0..MaxFaults
  BY <1>0, ScalingAssumption DEF TypeOK, Provisioning, NodeFails, counters
<1>4. TypeOK'
  BY <1>0, <1>1, <1>2, <1>3 DEF TypeOK
<1> QED  BY <1>2, <1>4 DEF ScalingInv, EnableIsDeclared, ReadHolds, ScaleIsGated

\* The autoscaler works only while the flag is on, when no count is promised.
LEMMA ResizeStep ==
  ScalingInv /\ (Autoscale \/ KeepBounds) => ScalingInv'
<1> SUFFICES ASSUME ScalingInv, Autoscale \/ KeepBounds PROVE ScalingInv'
  OBVIOUS
<1>0. TypeOK
  BY DEF ScalingInv
<1>1. up.auto /\ up \in nodeGroupBody /\ up.min \in Nat /\ up.max \in Nat
  BY <1>0 DEF TypeOK, Autoscale, KeepBounds
<1>2. PICK c \in Nat : ResizeTo(c)
  BY <1>1 DEF Autoscale, KeepBounds
<1>3. up' = [up EXCEPT !.count = c]
  BY <1>2 DEF ResizeTo
<1>4. UNCHANGED <<spec, nodes, ready, pc, sp, obs, cond, dirty, late, touched, faults, edits>>
  BY <1>2 DEF ResizeTo
<1>5. moves' \in 0..MaxMoves
  BY <1>0, ScalingAssumption DEF TypeOK, Autoscale, KeepBounds
<1>6. /\ up' \in nodeGroupBody
      /\ up'.auto = up.auto /\ up'.min = up.min /\ up'.max = up.max
  BY <1>1, <1>3 DEF nodeGroupBody
<1>7. TypeOK'
  BY <1>0, <1>4, <1>5, <1>6 DEF TypeOK
<1> QED  BY <1>1, <1>4, <1>6, <1>7 DEF ScalingInv, EnableIsDeclared, ReadHolds, ScaleIsGated

LEMMA OthersStep ==
  ScalingInv /\ (Crash \/ LateCall \/ EditSpec \/ PanelEdits) => ScalingInv'
<1> SUFFICES ASSUME ScalingInv, Crash \/ LateCall \/ EditSpec \/ PanelEdits
             PROVE  ScalingInv'
  OBVIOUS
<1>0. TypeOK
  BY DEF ScalingInv
<1>1. CASE Crash
  <2>1. TypeOK' /\ pc' = "idle"
    BY <1>0, <1>1, ScalingAssumption DEF Crash, TypeOK
  <2> QED  BY <2>1 DEF ScalingInv, EnableIsDeclared, ReadHolds, ScaleIsGated
<1>2. CASE LateCall
  <2>1. WellFormed(late) /\ up \in nodeGroupBody /\ (up.auto => SizeOK(up.min, up.max))
    BY <1>0, <1>2 DEF LateCall, TypeOK, WellFormed
  <2>2. up' \in nodeGroupBody /\ (up'.auto => SizeOK(up'.min, up'.max))
    BY <1>2, <2>1, CarriedType DEF LateCall
  <2>3. TypeOK'
    BY <1>0, <1>2, <2>2 DEF LateCall, TypeOK, counters
  <2> QED  BY <1>2, <2>3 DEF LateCall, Calls, ScalingInv, EnableIsDeclared, ReadHolds, ScaleIsGated
<1>3. CASE EditSpec
  <2>1. TypeOK'
    BY <1>0, <1>3, ScalingAssumption DEF EditSpec, TypeOK
  <2> QED  BY <1>3, <2>1 DEF EditSpec, ScalingInv, EnableIsDeclared, ReadHolds, ScaleIsGated
<1>4. CASE PanelEdits
  <2>1. PICK s \in Specs : up' \in {buildCreateNodeGroupBody(s), [up EXCEPT !.count = s.count]}
    BY <1>4 DEF PanelEdits
  <2>2. [up EXCEPT !.count = s.count] \in nodeGroupBody
    BY <1>0, ScalingAssumption DEF TypeOK, nodeGroupBody
  <2>3. up' \in nodeGroupBody /\ (up'.auto => SizeOK(up'.min, up'.max))
    <3>1. CASE up' = buildCreateNodeGroupBody(s)
      BY <3>1, CreatedType
    <3>2. CASE up' = [up EXCEPT !.count = s.count]
      BY <1>0, <2>2, <3>2 DEF TypeOK, nodeGroupBody
    <3> QED  BY <2>1, <3>1, <3>2
  <2>4. TypeOK'
    BY <1>0, <1>4, <2>3, ScalingAssumption DEF PanelEdits, TypeOK
  <2> QED  BY <1>4, <2>4 DEF PanelEdits, Calls, ScalingInv, EnableIsDeclared, ReadHolds, ScaleIsGated
<1> QED  BY <1>1, <1>2, <1>3, <1>4

LEMMA NextStep == ScalingInv /\ [Next]_vars => ScalingInv'
<1>1. ScalingInv /\ UNCHANGED vars => ScalingInv'
  BY DEF vars, ScalingInv, TypeOK, EnableIsDeclared, ReadHolds, ScaleIsGated
<1> QED  BY <1>1, ReconcileStep, NodesStep, ResizeStep, OthersStep DEF Next

LEMMA Invariance == Spec => []ScalingInv
BY InitInv, NextStep, PTL DEF Spec

\* Every behaviour of the scaling of a nodepool keeps its types: the group has
\* bounds whenever it is autoscaled, and never fewer than no nodes.
THEOREM TypeCorrect == Spec => []TypeOK
<1>1. ScalingInv => TypeOK
  BY DEF ScalingInv
<1> QED  BY <1>1, Invariance, PTL

\* A relative scaling call is sent only while the upstream autoscaler is off and
\* takes the group to exactly the declared count, unless a late request or the
\* panel changed the group since Update read it (Update of nodepool_external.go).
THEOREM ExactScaling == Spec => []ScalesExactly
<1>1. ScalingInv => ScalesExactly
  <2> SUFFICES ASSUME ScalingInv, pc = "scale", ~touched
               PROVE  ~up.auto /\ up.count + delta(sp, obs) = sp.count
    BY DEF ScalesExactly
  <2>1. ~up.auto /\ up.count = obs.count
    BY DEF ScalingInv, ReadHolds, ScaleIsGated
  <2>2. sp.count \in Nat /\ obs.count \in Nat
    BY ScalingAssumption DEF ScalingInv, TypeOK, nodeGroupBody
  <2> QED  BY <2>1, <2>2 DEF delta
<1> QED  BY <1>1, Invariance, PTL

(***************************************************************************)
(* Every call counts: the safety half of Converges.                        *)
(***************************************************************************)
\* How many calls a group is away from a declaration.  One that is autoscaled and
\* should not be is two away: its count may be wrong once the flag is off.
Owed(s, g) ==
  (IF nodepoolMetadataUpToDate(s, g) THEN 0 ELSE 1)
    + (IF s.on THEN IF autoscalingUpToDate(s, g) THEN 0 ELSE 1
       ELSE IF g.auto THEN 2 ELSE IF s.count = g.count THEN 0 ELSE 1)

\* No call is owed exactly when Observe finds nothing to do, which is exactly when
\* Update, given the same answer, would send nothing: neither leaves a drift to the
\* other that the other does not see.
LEMMA ObserveAgreesWithUpdate ==
  ASSUME NEW s \in Specs, NEW g \in nodeGroupBody
  PROVE  /\ Owed(s, g) \in 0..3
         /\ isNodepoolUpToDate(s, g) <=> Owed(s, g) = 0
         /\ isNodepoolUpToDate(s, g) <=> firstStep(s, g) = "idle"
BY DEF Owed, isNodepoolUpToDate, firstStep, countStep

\* A call is about to be sent only if Update's own reading of the group owes it.
CallIsOwed ==
  /\ pc = "metadata" => obs.meta # sp.meta
  /\ pc \in Calls \ {"metadata"} => countStep(sp, obs) = pc

\* Everything the calls depend on is still as Update has read it.
StillAsRead ==
  pc \in Calls /\ ~touched =>
    /\ up.auto = obs.auto /\ up.min = obs.min /\ up.max = obs.max
    /\ ~up.auto => up.count = obs.count
    /\ pc = "metadata" => up.meta = obs.meta

OwedInv == CallIsOwed /\ StillAsRead

LEMMA OwedStep == ScalingInv /\ OwedInv /\ [Next]_vars => OwedInv'
<1> SUFFICES ASSUME ScalingInv, OwedInv, [Next]_vars PROVE OwedInv'
  OBVIOUS
<1>0. TypeOK
  BY DEF ScalingInv
<1>1. ASSUME pc' \notin Calls PROVE OwedInv'
  BY <1>1 DEF OwedInv, CallIsOwed, StillAsRead, Calls
<1>2. ASSUME UNCHANGED <<pc, sp, obs>>, touched' PROVE OwedInv'
  BY <1>2 DEF OwedInv, CallIsOwed, StillAsRead
<1>3. CASE UNCHANGED <<up, pc, sp, obs, touched>>
  BY <1>3 DEF OwedInv, CallIsOwed, StillAsRead
<1>4. CASE Update
  <2>1. sp \in Specs /\ up \in nodeGroupBody /\ ready \in Reasons /\ cond' \in Reasons
    BY <1>0, <1>4 DEF TypeOK, Update
  <2>2. firstStep(sp, up) \in {"idle"} \cup Calls
    BY <2>1, StepTargets DEF Calls
  <2>3. pc' = firstStep(sp, up) /\ UNCHANGED <<sp, up>> /\ obs' = up
    BY <1>4, <2>1, <2>2, GoToType DEF Update
  <2>4. CallIsOwed'
    BY <2>3 DEF CallIsOwed, firstStep, nodepoolMetadataUpToDate, countStep, Calls
  <2>5. StillAsRead'
    BY <2>3 DEF StillAsRead
  <2> QED  BY <2>4, <2>5 DEF OwedInv
<1>5. CASE patchMetadata
  <2> DEFINE req == [op |-> "metadata", meta |-> sp.meta]
  <2>1. WellFormed(req) /\ Send(req, countStep(sp, obs)) /\ pc = "metadata"
    BY <1>0, <1>5, SentWellFormed DEF patchMetadata
  <2>2. sp \in Specs /\ obs \in nodeGroupBody /\ up \in nodeGroupBody
    BY <1>0 DEF TypeOK
  <2>3. countStep(sp, obs) \in {"idle", "enable", "disable", "scale"}
    BY <2>2, StepTargets
  <2> HIDE DEF req
  <2>4. /\ up' \in {up, Carried(req, up)} /\ UNCHANGED <<sp, obs, touched>>
        /\ pc' \in {"idle", countStep(sp, obs)}
    BY <1>0, <2>1, <2>3, SendStep DEF Calls
  <2>5. /\ up'.auto = up.auto /\ up'.count = up.count
        /\ up'.min = up.min /\ up'.max = up.max
    BY <2>2, <2>4 DEF req, Carried, nodeGroupBody
  <2>6. CallIsOwed'
    BY <2>3, <2>4 DEF CallIsOwed, countStep, Calls
  <2>7. StillAsRead'
    BY <2>1, <2>3, <2>4, <2>5 DEF StillAsRead, OwedInv, Calls
  <2> QED  BY <2>6, <2>7 DEF OwedInv
<1>6. CASE enableAutoscaling \/ disableAutoscaling \/ scaleNodes
  <2>1. EndPass \/ GoTo("idle")
    BY <1>6 DEF enableAutoscaling, disableAutoscaling, scaleNodes, Send
  <2> QED  BY <1>1, <2>1 DEF EndPass, GoTo, Calls
<1>7. CASE Observe \/ observeGroupNodes \/ Crash
  BY <1>1, <1>7 DEF Observe, observeGroupNodes, Crash, EndPass, Calls
<1>8. CASE LateCall \/ PanelEdits
  <2>1. CASE pc \in Calls
    BY <1>2, <1>8, <2>1 DEF LateCall, PanelEdits
  <2>2. CASE pc \notin Calls
    BY <1>1, <1>8, <2>2 DEF LateCall, PanelEdits
  <2> QED  BY <2>1, <2>2
<1>9. CASE Autoscale \/ KeepBounds
  <2>1. up.auto /\ up \in nodeGroupBody
    BY <1>0, <1>9 DEF TypeOK, Autoscale, KeepBounds
  <2>2. PICK c : ResizeTo(c)
    BY <1>9 DEF Autoscale, KeepBounds
  <2>3. up' = [up EXCEPT !.count = c] /\ UNCHANGED <<pc, sp, obs, touched>>
    BY <2>2 DEF ResizeTo
  <2>4. /\ up'.auto = up.auto /\ up'.min = up.min /\ up'.max = up.max /\ up'.meta = up.meta
    BY <2>1, <2>3 DEF nodeGroupBody
  <2> QED  BY <2>1, <2>3, <2>4 DEF OwedInv, CallIsOwed, StillAsRead
<1>10. CASE EditSpec \/ Provisioning \/ NodeFails \/ UNCHANGED vars
  BY <1>3, <1>10 DEF EditSpec, Provisioning, NodeFails, vars
<1> QED  BY <1>4, <1>5, <1>6, <1>7, <1>8, <1>9, <1>10 DEF Next, Reconcile

\* What each call does to what is owed, when the group is as it was read.
LEMMA CallPays ==
  ASSUME ScalingInv, OwedInv, Reconcile, ~touched, up' # up
  PROVE  Owed(sp, up') < Owed(sp, up)
<1>0. sp \in Specs /\ up \in nodeGroupBody /\ obs \in nodeGroupBody
  BY DEF ScalingInv, TypeOK
<1>1. pc \in Calls /\ ~(Observe \/ observeGroupNodes \/ Update)
  BY DEF Reconcile, Observe, observeGroupNodes, Update, patchMetadata, enableAutoscaling,
         disableAutoscaling, scaleNodes, Calls
<1>2. /\ up.auto = obs.auto /\ up.min = obs.min /\ up.max = obs.max
      /\ ~up.auto => up.count = obs.count
      /\ pc = "metadata" => up.meta = obs.meta
  BY <1>1 DEF OwedInv, StillAsRead
<1>3. CASE patchMetadata
  <2>1. pc = "metadata" /\ up' = Carried([op |-> "metadata", meta |-> sp.meta], up)
    BY <1>3 DEF patchMetadata, Send
  <2>2. up' = [up EXCEPT !.meta = sp.meta]
    BY <2>1 DEF Carried
  <2>3. /\ up'.meta = sp.meta /\ up.meta # sp.meta
        /\ up'.auto = up.auto /\ up'.min = up.min /\ up'.max = up.max /\ up'.count = up.count
    BY <1>0, <1>2, <2>1, <2>2 DEF nodeGroupBody, OwedInv, CallIsOwed
  <2> QED  BY <2>3 DEF Owed, nodepoolMetadataUpToDate, autoscalingUpToDate
<1>4. CASE enableAutoscaling
  <2>1. pc = "enable" /\ up' = Carried([op |-> "enable", min |-> sp.min, max |-> sp.max], up)
    BY <1>4 DEF enableAutoscaling, Send
  <2>2. up' = [up EXCEPT !.auto = TRUE, !.min = sp.min, !.max = sp.max]
    BY <2>1 DEF Carried
  <2>3. up'.auto /\ up'.min = sp.min /\ up'.max = sp.max /\ up'.meta = up.meta
    BY <1>0, <2>2 DEF nodeGroupBody
  <2>4. countStep(sp, obs) = "enable"
    BY <2>1 DEF OwedInv, CallIsOwed, Calls
  <2>5. sp.on /\ ~autoscalingUpToDate(sp, up)
    BY <1>2, <2>4 DEF countStep, autoscalingUpToDate
  <2> QED  BY <2>3, <2>5 DEF Owed, nodepoolMetadataUpToDate, autoscalingUpToDate
<1>5. CASE disableAutoscaling
  <2>1. pc = "disable" /\ up' = Carried([op |-> "disable"], up)
    BY <1>5 DEF disableAutoscaling, Send
  <2>2. up' = [up EXCEPT !.auto = FALSE, !.min = NoSize, !.max = NoSize]
    BY <2>1 DEF Carried
  <2>3. ~up'.auto /\ up'.meta = up.meta
    BY <1>0, <2>2 DEF nodeGroupBody
  <2>4. countStep(sp, obs) = "disable"
    BY <2>1 DEF OwedInv, CallIsOwed, Calls
  <2>5. ~sp.on /\ up.auto
    BY <1>2, <2>4 DEF countStep
  <2> QED  BY <2>3, <2>5 DEF Owed, nodepoolMetadataUpToDate
<1>6. CASE scaleNodes
  <2>1. pc = "scale" /\ up' = Carried([op |-> "scale", delta |-> delta(sp, obs)], up)
    BY <1>6 DEF scaleNodes, Send
  <2>2. countStep(sp, obs) = "scale"
    BY <2>1 DEF OwedInv, CallIsOwed, Calls
  <2>3. ~sp.on /\ ~up.auto /\ sp.count # obs.count /\ up.count = obs.count
    BY <1>2, <2>2 DEF countStep
  <2>4. sp.count \in Nat /\ obs.count \in Nat
    BY <1>0, ScalingAssumption DEF nodeGroupBody
  <2>5. up.count + delta(sp, obs) = sp.count
    BY <2>3, <2>4 DEF delta
  <2>6. up' = [up EXCEPT !.count = up.count + delta(sp, obs)]
    BY <2>1, <2>4, <2>5 DEF Carried
  <2>7. up'.count = sp.count /\ up'.auto = up.auto /\ up'.meta = up.meta
    BY <1>0, <2>5, <2>6 DEF nodeGroupBody
  <2> QED  BY <2>3, <2>7 DEF Owed, nodepoolMetadataUpToDate
<1> QED  BY <1>1, <1>3, <1>4, <1>5, <1>6 DEF Reconcile

\* Every change that a reconcile makes to the group takes it at least one call nearer
\* to the declaration it has read, whatever was lost, dropped, refused or edited
\* before and however the autoscaler moves the count meanwhile, unless a late
\* request or the panel changed the group since Update read it.  So no two of
\* Update's calls undo one another, and three are always enough (Update of
\* nodepool_external.go).
THEOREM EveryCallCounts ==
  Spec => [][Reconcile /\ ~touched /\ up' # up => Owed(sp, up') < Owed(sp, up)]_vars
<1>1. Init => OwedInv
  BY DEF Init, OwedInv, CallIsOwed, StillAsRead, Calls
<1> QED  BY <1>1, Invariance, OwedStep, CallPays, PTL DEF Spec
=============================================================================
