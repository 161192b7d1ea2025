----------------------- MODULE ServerFloatingIPsProofs -----------------------
(***************************************************************************)
(* Machine-checked proofs about ServerFloatingIPs, for every set of Servers*)
(* and addresses and every order of the lists.                             *)
(***************************************************************************)
EXTENDS ServerFloatingIPs, TLAPS

(***************************************************************************)
(* The inductive invariant.  Until somebody works in the panel, an address *)
(* waiting to be unbound is held by the Server that waits: nothing else    *)
(* lets go of it in between.  It is not a wanted one.  Addresses wait to be*)
(* bound only inside Update, and are wanted ones.                          *)
(***************************************************************************)
PlanHeld == \A s \in Servers : \A f \in unbinds[s] : moves = 0 => holder[f] = s

PlanUnwanted == \A s \in Servers : unbinds[s] \cap want[s] = {}

PlanWanted ==
  \A s \in Servers :
    /\ binds[s] \subseteq want[s]
    /\ pc[s] \notin {"unbind", "bind"} => binds[s] = {}
    /\ pc[s] \in {"idle", "update", "bind", "persist"} => unbinds[s] = {}

PlanInv == TypeOK /\ PlanHeld /\ PlanUnwanted /\ PlanWanted

\* Types are preserved by every step (frame of all the other proofs).
LEMMA TypeStep == TypeOK /\ [Next]_vars => TypeOK'
<1> SUFFICES ASSUME TypeOK, [Next]_vars PROVE TypeOK'
    OBVIOUS
<1> USE BindingAssumption DEF TypeOK
<1>1. ASSUME NEW s \in Servers, Observe(s) PROVE TypeOK'
  <2>1. resolveRefs(s) \in SUBSET FIPs
    BY DEF resolveRefs
  <2>2. observeBoundFloatingIPs(s, Candidates(resolveRefs(s), recorded[s])) \in SUBSET FIPs
    BY <2>1 DEF observeBoundFloatingIPs, Candidates
  <2>3. pc' \in [Servers -> PCs]
    BY <1>1 DEF Observe, PCs
  <2>4. /\ want' \in [Servers -> SUBSET FIPs] /\ seen' \in [Servers -> SUBSET FIPs]
        /\ unbinds' \in [Servers -> SUBSET FIPs]
    BY <1>1, <2>1, <2>2 DEF Observe
  <2> QED BY <1>1, <2>3, <2>4 DEF Observe
<1>2. ASSUME NEW s \in Servers, ObserveGone(s) PROVE TypeOK'
  BY <1>2 DEF ObserveGone
<1>3. ASSUME NEW s \in Servers, Update(s) PROVE TypeOK'
  <2>1. observeBoundFloatingIPs(s, Candidates(want[s], seen[s])) \in SUBSET FIPs
    BY DEF observeBoundFloatingIPs, Candidates
  <2> QED BY <1>3, <2>1 DEF Update, stored, PCs
<1>4. ASSUME NEW s \in Servers, UpdateRejected(s) PROVE TypeOK'
  BY <1>4 DEF UpdateRejected, stored, PCs
<1>5. ASSUME NEW s \in Servers, unbindFloatingIP(s) PROVE TypeOK'
  <2>1. PICK f \in FIPs : UnbindOK(s, f) \/ UnbindError(s, f)
    BY <1>5 DEF unbindFloatingIP
  <2>2. CASE UnbindOK(s, f)
    BY <2>2 DEF UnbindOK, stored
  <2>3. CASE UnbindError(s, f)
    BY <2>3 DEF UnbindError, Abort, stored, PCs
  <2> QED BY <2>1, <2>2, <2>3
<1>6. ASSUME NEW s \in Servers, UnbindsDone(s) PROVE TypeOK'
  BY <1>6 DEF UnbindsDone, stored, PCs
<1>7. ASSUME NEW s \in Servers, bindFloatingIP(s) PROVE TypeOK'
  <2>1. PICK f \in FIPs : BindOK(s, f) \/ BindError(s, f)
    BY <1>7 DEF bindFloatingIP
  <2>2. CASE BindOK(s, f)
    BY <2>2 DEF BindOK, stored
  <2>3. CASE BindError(s, f)
    BY <2>3 DEF BindError, Abort, stored, PCs
  <2> QED BY <2>1, <2>2, <2>3
<1>8. ASSUME NEW s \in Servers, BindsDone(s) PROVE TypeOK'
  BY <1>8 DEF BindsDone, stored, PCs
<1>9. ASSUME NEW s \in Servers, Persist(s) PROVE TypeOK'
  BY <1>9 DEF Persist, PCs
<1>10. ASSUME NEW s \in Servers, DeleteServer(s) PROVE TypeOK'
  BY <1>10 DEF DeleteServer, Abort, PCs
<1>11. ASSUME NEW s \in Servers, TurnsOn(s) PROVE TypeOK'
  BY <1>11 DEF TurnsOn
<1>12. ASSUME NEW s \in Servers, Edit(s) PROVE TypeOK'
  BY <1>12 DEF Edit
<1>13. ASSUME NEW s \in Servers, RequestDelete(s) PROVE TypeOK'
  BY <1>13 DEF RequestDelete
<1>14. CASE PanelMoves
  BY <1>14 DEF PanelMoves, stored, plan
<1>15. CASE Crash
  BY <1>15 DEF Crash, PCs
<1>16. CASE UNCHANGED vars
  BY <1>16 DEF vars
<1> QED
  BY <1>1, <1>2, <1>3, <1>4, <1>5, <1>6, <1>7, <1>8, <1>9, <1>10, <1>11, <1>12, <1>13,
     <1>14, <1>15, <1>16 DEF Next, Reconcile

\* TypeOK is an invariant: every variable of the binding model has its type in
\* every reachable state of the Server controller.
THEOREM TypeCorrect == Spec => []TypeOK
<1>1. Init => TypeOK
  BY BindingAssumption DEF Init, TypeOK, PCs
<1> QED BY <1>1, TypeStep, PTL DEF Spec

\* The inductive invariant behind LeasesKept is preserved by every step: a Server's
\* own step changes only its plan, and others' steps only what it does not hold.
LEMMA PlanStep == PlanInv /\ [Next]_vars => PlanInv'
<1> DEFINE Goal == PlanHeld' /\ PlanUnwanted' /\ PlanWanted'
<1> SUFFICES ASSUME PlanInv, [Next]_vars PROVE Goal
    BY TypeStep DEF PlanInv
<1>a. TypeOK /\ TypeOK' /\ PlanHeld /\ PlanUnwanted /\ PlanWanted
    BY TypeStep DEF PlanInv
<1> USE <1>a, BindingAssumption DEF PlanHeld, PlanUnwanted, PlanWanted
<1>1. ASSUME NEW s \in Servers, Observe(s) PROVE Goal
  <2>1. obj[s] = "deleting" => resolveRefs(s) = {}
    BY DEF resolveRefs
  <2>2. PlanHeld'
    BY <1>1 DEF Observe, observeBoundFloatingIPs, TypeOK
  <2>3. PlanUnwanted'
    BY <1>1, <2>1 DEF Observe, TypeOK
  <2>4. PlanWanted'
    BY <1>1 DEF Observe, TypeOK
  <2> QED BY <2>2, <2>3, <2>4
<1>2. ASSUME NEW s \in Servers, ObserveGone(s) PROVE Goal
  BY <1>2 DEF ObserveGone
<1>3. ASSUME NEW s \in Servers, Update(s) PROVE Goal
  <2>1. PlanHeld'
    BY <1>3 DEF Update, observeBoundFloatingIPs, TypeOK
  <2>2. PlanUnwanted'
    BY <1>3 DEF Update, TypeOK
  <2>3. PlanWanted'
    BY <1>3 DEF Update, TypeOK
  <2> QED BY <2>1, <2>2, <2>3
<1>4. ASSUME NEW s \in Servers, UpdateRejected(s) PROVE Goal
  BY <1>4 DEF UpdateRejected, TypeOK
<1>5. ASSUME NEW s \in Servers, unbindFloatingIP(s) PROVE Goal
  <2>1. PICK f \in FIPs : UnbindOK(s, f) \/ UnbindError(s, f)
    BY <1>5 DEF unbindFloatingIP
  <2>2. CASE UnbindOK(s, f)
    BY <2>2 DEF UnbindOK, TypeOK
  <2>3. CASE UnbindError(s, f)
    BY <2>3 DEF UnbindError, Abort, TypeOK
  <2> QED BY <2>1, <2>2, <2>3
<1>6. ASSUME NEW s \in Servers, UnbindsDone(s) PROVE Goal
  BY <1>6 DEF UnbindsDone, TypeOK
<1>7. ASSUME NEW s \in Servers, bindFloatingIP(s) PROVE Goal
  <2>1. PICK f \in FIPs : BindOK(s, f) \/ BindError(s, f)
    BY <1>7 DEF bindFloatingIP
  <2>2. CASE BindOK(s, f)
    BY <2>2 DEF BindOK, NextBind, TypeOK
  <2>3. CASE BindError(s, f)
    BY <2>3 DEF BindError, NextBind, Abort, TypeOK
  <2> QED BY <2>1, <2>2, <2>3
<1>8. ASSUME NEW s \in Servers, BindsDone(s) PROVE Goal
  BY <1>8 DEF BindsDone, TypeOK
<1>9. ASSUME NEW s \in Servers, Persist(s) PROVE Goal
  BY <1>9 DEF Persist, TypeOK
<1>10. ASSUME NEW s \in Servers, DeleteServer(s) PROVE Goal
  BY <1>10 DEF DeleteServer, Abort, TypeOK
<1>11. ASSUME NEW s \in Servers, TurnsOn(s) PROVE Goal
  BY <1>11 DEF TurnsOn
<1>12. ASSUME NEW s \in Servers, Edit(s) PROVE Goal
  BY <1>12 DEF Edit
<1>13. ASSUME NEW s \in Servers, RequestDelete(s) PROVE Goal
  BY <1>13 DEF RequestDelete
<1>14. CASE PanelMoves
  <2>1. moves' # 0
    BY <1>14 DEF PanelMoves, TypeOK
  <2> QED BY <1>14, <2>1 DEF PanelMoves, stored, plan
<1>15. CASE Crash
  BY <1>15 DEF Crash, TypeOK
<1>16. CASE UNCHANGED vars
  BY <1>16 DEF vars
<1> QED
  BY <1>1, <1>2, <1>3, <1>4, <1>5, <1>6, <1>7, <1>8, <1>9, <1>10, <1>11, <1>12, <1>13,
     <1>14, <1>15, <1>16 DEF Next, Reconcile

\* Every step of the Servers is a step of AddressLease or leaves the addresses alone:
\* the calls of floatingip_bind.go, seen from the plan they come from.
LEMMA LeaseStep == PlanInv /\ [Next]_vars => [Lease!Next]_<<holder, want, moves > 0>>
<1> SUFFICES ASSUME PlanInv, [Next]_vars PROVE [Lease!Next]_<<holder, want, moves > 0>>
    OBVIOUS
<1>a. TypeOK /\ TypeOK' /\ PlanHeld /\ PlanUnwanted /\ PlanWanted
    BY TypeStep DEF PlanInv
<1>b. CASE UNCHANGED vars
  BY <1>b DEF vars
<1>c. ASSUME Next PROVE Lease!Next
  <2>1. Lease!Asks
    <3>1. want' \in [Servers -> SUBSET FIPs]
      BY <1>a DEF TypeOK
    <3>2. moves > 0 => moves' > 0
      <4>1. moves' = moves \/ moves' = moves + 1
        BY <1>c DEF Next, Reconcile, stored, plan, Observe, ObserveGone, Update, UpdateRejected,
           unbindFloatingIP, UnbindOK, UnbindError, UnbindsDone, bindFloatingIP, BindOK, BindError,
           BindsDone, Persist, DeleteServer, TurnsOn, Edit, RequestDelete, PanelMoves, Crash
      <4> QED BY <4>1, <1>a, BindingAssumption DEF TypeOK
    <3> QED BY <3>1, <3>2 DEF Lease!Asks
  <2>2. CASE \E s \in Servers : unbindFloatingIP(s)
    <3>1. PICK s \in Servers, f \in FIPs : UnbindOK(s, f) \/ UnbindError(s, f)
      BY <2>2 DEF unbindFloatingIP
    <3>2. f \in unbinds[s] /\ f \notin want[s] /\ (moves = 0 => holder[f] = s)
      BY <3>1, <1>a DEF UnbindOK, UnbindError, PlanHeld, PlanUnwanted
    <3>3. holder' = holder \/ holder' = [holder EXCEPT ![f] = Free]
      BY <3>1 DEF UnbindOK, UnbindError
    <3>4. moves > 0 \/ moves = 0
      BY <1>a, BindingAssumption DEF TypeOK
    <3>5. CASE holder' = [holder EXCEPT ![f] = Free] /\ moves = 0
      <4>1. Lease!Release(s, f)
        BY <3>2, <3>5 DEF Lease!Release
      <4> QED BY <4>1, <2>1 DEF Lease!Next
    <3>6. CASE holder' = [holder EXCEPT ![f] = Free] /\ moves > 0
      <4>1. Lease!LateRelease(f)
        BY <3>6 DEF Lease!LateRelease
      <4> QED BY <4>1, <2>1 DEF Lease!Next
    <3> QED BY <3>3, <3>4, <3>5, <3>6, <2>1 DEF Lease!Next
  <2>3. CASE \E s \in Servers : bindFloatingIP(s)
    <3>1. PICK s \in Servers, f \in FIPs : BindOK(s, f) \/ BindError(s, f)
      BY <2>3 DEF bindFloatingIP
    <3>2. f \in want[s]
      BY <3>1, <1>a DEF BindOK, BindError, NextBind, PlanWanted
    <3>3. holder' = holder \/ (holder[f] = Free /\ holder' = [holder EXCEPT ![f] = s])
      BY <3>1 DEF BindOK, BindError
    <3>4. holder' = holder \/ Lease!Take(s, f)
      BY <3>2, <3>3 DEF Lease!Take
    <3> QED BY <3>4, <2>1 DEF Lease!Next
  <2>4. CASE PanelMoves
    <3>1. moves' > 0
      BY <2>4, <1>a, BindingAssumption DEF PanelMoves, TypeOK
    <3>2. \E f \in FIPs : Lease!PanelMoves(f)
      BY <2>4, <3>1 DEF PanelMoves, Lease!PanelMoves
    <3> QED BY <3>2, <2>1 DEF Lease!Next
  <2>5. CASE /\ ~PanelMoves
             /\ \A s \in Servers : ~unbindFloatingIP(s) /\ ~bindFloatingIP(s)
    <3>1. holder' = holder
      BY <1>c, <2>5 DEF Next, Reconcile, Observe, ObserveGone, Update, UpdateRejected,
         UnbindsDone, BindsDone, Persist, DeleteServer, TurnsOn, Edit, RequestDelete, Crash
    <3> QED BY <3>1, <2>1 DEF Lease!Next
  <2> QED BY <2>2, <2>3, <2>4, <2>5
<1> QED BY <1>b, <1>c

\* The Servers implement AddressLease, for any number of Servers and addresses,
\* through crashes, failed calls and concurrent edits: no Server takes an address
\* from its holder, or gives back one it was asked to keep, and only after somebody
\* has worked in the panel may an unbind hit another holder (KeepsLeases).
THEOREM LeasesKept == Spec => KeepsLeases
<1>1. Init => PlanInv
  BY BindingAssumption DEF Init, PlanInv, TypeOK, PlanHeld, PlanUnwanted, PlanWanted, PCs
<1>2. Init => Lease!Init
  BY DEF Init, Lease!Init
<1> QED BY <1>1, <1>2, PlanStep, LeaseStep, PTL DEF Spec, KeepsLeases, Lease!Spec

\* While a Server is being deleted, what its status lists and it still holds is
\* on the list of addresses to unbind.
DeleteCovers ==
  \A s \in Servers : pc[s] = "delete" =>
    \A f \in recorded[s] : holder[f] = s => f \in unbinds[s]

\* Only the Server's own Observe enters the deletion, with everything listed, and
\* only an unbind takes an address off the list; nobody else can make the Server
\* its holder.
LEMMA DeleteStep ==
  TypeOK /\ DeleteCovers /\ [Next]_vars => DeleteCovers'
<1> SUFFICES ASSUME TypeOK, DeleteCovers, [Next]_vars,
                    NEW t \in Servers, pc'[t] = "delete",
                    NEW g \in recorded'[t], holder'[g] = t
             PROVE  g \in unbinds'[t]
    BY DEF DeleteCovers
<1>a. TypeOK'
    BY TypeStep
<1>b. g \in FIPs
    BY <1>a DEF TypeOK
<1> USE <1>a, <1>b, BindingAssumption
<1>1. ASSUME NEW s \in Servers, Observe(s) PROVE g \in unbinds'[t]
  <2>1. CASE s = t
    <3>1. obj[t] = "deleting" /\ recorded' = recorded /\ holder' = holder
      BY <1>1, <2>1 DEF Observe, TypeOK
    <3>2. unbinds'[t] = observeBoundFloatingIPs(t, Candidates(resolveRefs(t), recorded[t]))
      BY <1>1, <2>1, <3>1 DEF Observe, TypeOK
    <3> QED BY <3>1, <3>2 DEF observeBoundFloatingIPs, Candidates
  <2>2. CASE s # t
    BY <1>1, <2>2 DEF Observe, TypeOK, DeleteCovers
  <2> QED BY <2>1, <2>2
<1>2. ASSUME NEW s \in Servers, ObserveGone(s) PROVE g \in unbinds'[t]
  BY <1>2 DEF ObserveGone, DeleteCovers
<1>3. ASSUME NEW s \in Servers, Update(s) \/ UpdateRejected(s) PROVE g \in unbinds'[t]
  BY <1>3 DEF Update, UpdateRejected, stored, TypeOK, DeleteCovers
<1>4. ASSUME NEW s \in Servers, unbindFloatingIP(s) PROVE g \in unbinds'[t]
  <2>1. PICK f \in FIPs : UnbindOK(s, f) \/ UnbindError(s, f)
    BY <1>4 DEF unbindFloatingIP
  <2>2. CASE UnbindOK(s, f)
    BY <2>2 DEF UnbindOK, stored, TypeOK, DeleteCovers
  <2>3. CASE UnbindError(s, f)
    BY <2>3 DEF UnbindError, Abort, stored, TypeOK, DeleteCovers
  <2> QED BY <2>1, <2>2, <2>3
<1>5. ASSUME NEW s \in Servers, UnbindsDone(s) \/ BindsDone(s) PROVE g \in unbinds'[t]
  BY <1>5 DEF UnbindsDone, BindsDone, stored, TypeOK, DeleteCovers
<1>6. ASSUME NEW s \in Servers, bindFloatingIP(s) PROVE g \in unbinds'[t]
  <2>1. PICK f \in FIPs : BindOK(s, f) \/ BindError(s, f)
    BY <1>6 DEF bindFloatingIP
  <2>2. pc[s] = "bind" /\ recorded' = recorded
    BY <2>1 DEF BindOK, BindError, NextBind, stored
  <2>3. CASE BindOK(s, f)
    BY <2>2, <2>3 DEF BindOK, TypeOK, DeleteCovers
  <2>4. CASE BindError(s, f)
    BY <2>2, <2>4 DEF BindError, Abort, TypeOK, DeleteCovers
  <2> QED BY <2>1, <2>3, <2>4
<1>7. ASSUME NEW s \in Servers, Persist(s) \/ DeleteServer(s) PROVE g \in unbinds'[t]
  BY <1>7 DEF Persist, DeleteServer, Abort, TypeOK, DeleteCovers
<1>8. ASSUME NEW s \in Servers, TurnsOn(s) \/ Edit(s) \/ RequestDelete(s)
      PROVE  g \in unbinds'[t]
  BY <1>8 DEF TurnsOn, Edit, RequestDelete, DeleteCovers
<1>9. CASE PanelMoves
  <2>1. holder'[g] = holder[g]
    BY <1>9 DEF PanelMoves, TypeOK
  <2> QED BY <1>9, <2>1 DEF PanelMoves, stored, plan, DeleteCovers
<1>10. CASE Crash
  BY <1>10 DEF Crash
<1>11. CASE UNCHANGED vars
  BY <1>11 DEF vars, DeleteCovers
<1> QED
  BY <1>1, <1>2, <1>3, <1>4, <1>5, <1>6, <1>7, <1>8, <1>9, <1>10, <1>11 DEF Next, Reconcile

\* What one step may do to a VM.
StepDeletesUnbound ==
  \A s \in Servers : vm[s] # "gone" /\ vm'[s] = "gone" =>
    \A f \in recorded[s] : holder[f] # s

\* Only DeleteServer ends a VM, and it waits for the list to be empty.
LEMMA DeletionStep ==
  TypeOK /\ DeleteCovers /\ [Next]_vars => StepDeletesUnbound
<1> SUFFICES ASSUME TypeOK, DeleteCovers, [Next]_vars,
                    NEW t \in Servers, vm[t] # "gone", vm'[t] = "gone"
             PROVE  \A f \in recorded[t] : holder[f] # t
    BY DEF StepDeletesUnbound
<1>1. \E s \in Servers : DeleteServer(s) \/ TurnsOn(s)
  BY DEF Next, Reconcile, vars, stored, Observe, ObserveGone, Update, UpdateRejected,
     unbindFloatingIP, UnbindOK, UnbindError, UnbindsDone, bindFloatingIP, BindOK,
     BindError, BindsDone, Persist, Edit, RequestDelete, PanelMoves, Crash
<1>2. DeleteServer(t)
  BY <1>1 DEF DeleteServer, TurnsOn, TypeOK
<1> QED BY <1>2 DEF DeleteServer, DeleteCovers

\* Every address the status of a Server lists is unbound from the VM before the VM
\* is deleted, for any number of Servers and addresses, through crashes, failed
\* calls, edits and moves in the panel (UnbindsRecordedFirst).
THEOREM RecordedUnboundFirst == Spec => UnbindsRecordedFirst
<1>1. Init => TypeOK /\ DeleteCovers
  BY BindingAssumption DEF Init, TypeOK, PCs, DeleteCovers
<1>2. TypeOK /\ DeleteCovers /\ [Next]_vars => (TypeOK /\ DeleteCovers)'
  BY TypeStep, DeleteStep
<1>3. TypeOK /\ DeleteCovers /\ [Next]_vars => [StepDeletesUnbound]_vars
  BY DeletionStep
<1> QED BY <1>1, <1>2, <1>3, PTL DEF Spec, UnbindsRecordedFirst, StepDeletesUnbound
=============================================================================
