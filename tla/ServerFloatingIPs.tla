-------------------------- MODULE ServerFloatingIPs --------------------------
(***************************************************************************)
(* Floating-IP binding, owned by the Server controller                     *)
(* (internal/controller/compute: floatingip_bind.go and server_external.go).*)
(* The desired set is in the spec, the bound set is upstream, and what the *)
(* controller remembers of it, status.boundFloatingIPs, is the only way it *)
(* finds an address that is no longer desired: it looks at desired and     *)
(* remembered addresses and at no others.                                  *)
(*                                                                         *)
(* A reconcile is Observe, then Update (or Delete) one upstream call at a  *)
(* time, then the status write.  Several Servers are reconciled at once;   *)
(* the operator edits specs at any time.                                   *)
(***************************************************************************)
EXTENDS Naturals, FiniteSets

CONSTANTS
  Servers,    \* Server MRs, each with its VM
  FIPs,       \* allocated floating IPs
  Rank,       \* FIP -> its place in the lists of floatingIPRefs
  Free,       \* holder of an unbound address
  Elsewhere,  \* holder of an address bound to something that is no Server
  MaxMoves    \* how many times an address is moved in the Timeweb panel

ASSUME BindingAssumption ==
  /\ Rank \in [FIPs -> Nat]
  /\ Free \notin Servers /\ Elsewhere \notin Servers
  /\ MaxMoves \in Nat

VARIABLES
  holder,    \* FIP -> upstream bound_to
  vm,        \* Server -> "installing", "on" or "gone"
  obj,       \* Server -> "present", "deleting" or "removed"
  desired,   \* Server -> spec.forProvider.floatingIPRefs, resolved
  recorded,  \* Server -> stored status.atProvider.boundFloatingIPs
  pc,        \* Server -> where its reconcile is
  want,      \* Server -> e.resolved.floatingIPIDs of this reconcile
  seen,      \* Server -> the in-memory status.atProvider.boundFloatingIPs
  unbinds,   \* Server -> addresses still to unbind
  binds,     \* Server -> addresses still to bind
  dirty,     \* Server -> the stored object changed since the reconcile read it
  moves      \* moves made in the panel so far

vars == <<holder, vm, obj, desired, recorded, pc, want, seen, unbinds, binds, dirty, moves>>

PCs == {"idle", "update", "unbind", "bind", "persist", "delete"}

TypeOK ==
  /\ holder \in [FIPs -> Servers \cup {Free, Elsewhere}]
  /\ vm \in [Servers -> {"installing", "on", "gone"}]
  /\ obj \in [Servers -> {"present", "deleting", "removed"}]
  /\ desired \in [Servers -> SUBSET FIPs]
  /\ recorded \in [Servers -> SUBSET FIPs]
  /\ pc \in [Servers -> PCs]
  /\ want \in [Servers -> SUBSET FIPs]
  /\ seen \in [Servers -> SUBSET FIPs]
  /\ unbinds \in [Servers -> SUBSET FIPs]
  /\ binds \in [Servers -> SUBSET FIPs]
  /\ dirty \in [Servers -> BOOLEAN]
  /\ moves \in 0..MaxMoves

Init ==
  /\ holder \in [FIPs -> {Free, Elsewhere}]
  /\ vm = [s \in Servers |-> "installing"]
  /\ obj = [s \in Servers |-> "present"]
  /\ desired \in [Servers -> SUBSET FIPs]
  /\ recorded = [s \in Servers |-> {}]
  /\ pc = [s \in Servers |-> "idle"]
  /\ want = [s \in Servers |-> {}]
  /\ seen = [s \in Servers |-> {}]
  /\ unbinds = [s \in Servers |-> {}]
  /\ binds = [s \in Servers |-> {}]
  /\ dirty = [s \in Servers |-> FALSE]
  /\ moves = 0

stored == <<vm, obj, desired, recorded, dirty>>

plan == <<want, seen, unbinds, binds>>

\* Mistake: an address bound to any server counts as bound to this one.
BoundToAnyServer(s, candidates) == {f \in candidates : holder[f] \in Servers}

\* Mistake: the ids of the holders are returned instead of the addresses'.
HoldersOf(s, candidates) == {holder[f] : f \in candidates}

\* observeBoundFloatingIPs: which candidates are bound to this very server.
observeBoundFloatingIPs(s, candidates) == {f \in candidates : holder[f] = s}

\* resolveRefs runs in Connect, and not at all for a deleting Server.
resolveRefs(s) == IF obj[s] = "deleting" THEN {} ELSE desired[s]

\* Mistake: only the desired addresses are looked at.
DesiredOnly(wanted, remembered) == wanted

\* The desired refs plus whatever was last recorded as bound.
Candidates(wanted, remembered) == wanted \cup remembered

\* Mistake: an address that is wanted and not bound is no drift.
NothingToUnbind(bound, wanted) == bound \subseteq wanted

\* stringSetsEqual: the two lists hold the same addresses.
stringSetsEqual(bound, wanted) == bound = wanted

\* Observe: confirm the bound set and compare it with the desired one.  Other
\* drift (name, comment, cloud-init) can call Update as well.
Observe(s) ==
  /\ pc[s] = "idle" /\ obj[s] # "removed" /\ vm[s] # "gone"
  /\ LET wanted == resolveRefs(s)
         bound  == observeBoundFloatingIPs(s, Candidates(wanted, recorded[s]))
     IN  /\ want' = [want EXCEPT ![s] = wanted]
         /\ seen' = [seen EXCEPT ![s] = bound]
         /\ unbinds' = [unbinds EXCEPT ![s] = IF obj[s] = "deleting" THEN bound ELSE {}]
         /\ \/ obj[s] = "deleting" /\ pc' = [pc EXCEPT ![s] = "delete"]
            \/ obj[s] = "present" /\ pc' = [pc EXCEPT ![s] = "update"]
            \/ /\ obj[s] = "present" /\ stringSetsEqual(bound, wanted)
               /\ pc' = [pc EXCEPT ![s] = "persist"]
  /\ dirty' = [dirty EXCEPT ![s] = FALSE]
  /\ UNCHANGED <<holder, vm, obj, desired, recorded, binds, moves>>

\* A 404 for the VM: a deleting Server loses its finalizer.
ObserveGone(s) ==
  /\ pc[s] = "idle" /\ obj[s] = "deleting" /\ vm[s] = "gone"
  /\ obj' = [obj EXCEPT ![s] = "removed"]
  /\ UNCHANGED <<holder, vm, desired, recorded, pc, want, seen, unbinds, binds, dirty, moves>>

\* Update reads the bound set afresh and plans: unbind what is bound and not
\* desired, then bind what is desired and not bound, if the VM runs.
Update(s) ==
  /\ pc[s] = "update"
  /\ LET bound == observeBoundFloatingIPs(s, Candidates(want[s], seen[s]))
     IN  /\ unbinds' = [unbinds EXCEPT ![s] = bound \ want[s]]
         /\ binds' = [binds EXCEPT ![s] = IF vm[s] = "on" THEN want[s] \ bound ELSE {}]
  /\ pc' = [pc EXCEPT ![s] = "unbind"]
  /\ UNCHANGED <<holder, stored, want, seen, moves>>

\* An immutable-field or sizing drift, or a failed read, ends Update early.
UpdateRejected(s) ==
  /\ pc[s] = "update"
  /\ pc' = [pc EXCEPT ![s] = "persist"]
  /\ UNCHANGED <<holder, stored, want, seen, unbinds, binds, moves>>

Abort(s, to) ==
  /\ pc' = [pc EXCEPT ![s] = to]
  /\ unbinds' = [unbinds EXCEPT ![s] = {}]
  /\ binds' = [binds EXCEPT ![s] = {}]

\* unbindFloatingIP names the address only: upstream unbinds whatever holds it.
\* A 404 counts as done; any other error ends the reconcile, done or not.
UnbindOK(s, f) ==
  /\ f \in unbinds[s]
  /\ holder' = [holder EXCEPT ![f] = Free]
  /\ unbinds' = [unbinds EXCEPT ![s] = @ \ {f}]
  /\ UNCHANGED <<stored, moves, pc, want, seen, binds>>

UnbindError(s, f) ==
  /\ f \in unbinds[s]
  /\ holder' \in {holder, [holder EXCEPT ![f] = Free]}
  /\ Abort(s, "persist")
  /\ UNCHANGED <<stored, moves, want, seen>>

unbindFloatingIP(s) ==
  /\ pc[s] \in {"unbind", "delete"}
  /\ \E f \in FIPs : UnbindOK(s, f) \/ UnbindError(s, f)

UnbindsDone(s) ==
  /\ pc[s] = "unbind" /\ unbinds[s] = {}
  /\ pc' = [pc EXCEPT ![s] = "bind"]
  /\ UNCHANGED <<holder, stored, want, seen, unbinds, binds, moves>>

\* Addresses are bound in the order of the list, up to the first error.
NextBind(s, f) ==
  /\ pc[s] = "bind" /\ f \in binds[s]
  /\ \A g \in binds[s] : Rank[f] <= Rank[g]

\* bindFloatingIP: upstream refuses an address that something else holds.
BindOK(s, f) ==
  /\ NextBind(s, f)
  /\ holder[f] = Free
  /\ holder' = [holder EXCEPT ![f] = s]
  /\ binds' = [binds EXCEPT ![s] = @ \ {f}]
  /\ UNCHANGED <<stored, moves, pc, want, seen, unbinds>>

BindError(s, f) ==
  /\ NextBind(s, f)
  /\ \/ UNCHANGED holder
     \/ holder[f] = Free /\ holder' = [holder EXCEPT ![f] = s]
  /\ Abort(s, "persist")
  /\ UNCHANGED <<stored, moves, want, seen>>

bindFloatingIP(s) == \E f \in FIPs : BindOK(s, f) \/ BindError(s, f)

BindsDone(s) ==
  /\ pc[s] = "bind" /\ binds[s] = {}
  /\ pc' = [pc EXCEPT ![s] = "persist"]
  /\ UNCHANGED <<holder, stored, want, seen, unbinds, binds, moves>>

\* The runtime writes the status Observe computed, success or not; the write
\* fails on an object that changed since the reconcile read it.
Persist(s) ==
  /\ pc[s] = "persist"
  /\ recorded' = IF dirty[s] THEN recorded ELSE [recorded EXCEPT ![s] = seen[s]]
  /\ pc' = [pc EXCEPT ![s] = "idle"]
  /\ want' = [want EXCEPT ![s] = {}]
  /\ seen' = [seen EXCEPT ![s] = {}]
  /\ dirty' = [dirty EXCEPT ![s] = FALSE]
  /\ UNCHANGED <<holder, vm, obj, desired, unbinds, binds, moves>>

\* Mistake: the VM is deleted before its addresses are unbound.
DeleteFirst(s) ==
  /\ pc[s] = "delete"
  /\ vm' = [vm EXCEPT ![s] = "gone"]
  /\ Abort(s, "persist")
  /\ UNCHANGED <<holder, obj, desired, recorded, want, seen, dirty, moves>>

\* Delete: with every address it observed as bound unbound, the VM is deleted.
\* Errors of the call, before or after it took effect, are retried.
DeleteServer(s) ==
  /\ pc[s] = "delete" /\ unbinds[s] = {}
  /\ vm' \in {vm, [vm EXCEPT ![s] = "gone"]}
  /\ Abort(s, "persist")
  /\ UNCHANGED <<holder, obj, desired, recorded, want, seen, dirty, moves>>

(***************************************************************************)
(* The surroundings.                                                       *)
(***************************************************************************)
TurnsOn(s) ==
  /\ vm[s] = "installing"
  /\ vm' = [vm EXCEPT ![s] = "on"]
  /\ UNCHANGED <<holder, obj, desired, recorded, pc, want, seen, unbinds, binds, dirty, moves>>

\* The operator edits floatingIPRefs (add, remove, move) or deletes the Server.
Edit(s) ==
  /\ obj[s] = "present"
  /\ \E fs \in SUBSET FIPs : fs # desired[s] /\ desired' = [desired EXCEPT ![s] = fs]
  /\ dirty' = [dirty EXCEPT ![s] = pc[s] # "idle"]
  /\ UNCHANGED <<holder, vm, obj, recorded, pc, want, seen, unbinds, binds, moves>>

RequestDelete(s) ==
  /\ obj[s] = "present"
  /\ obj' = [obj EXCEPT ![s] = "deleting"]
  /\ dirty' = [dirty EXCEPT ![s] = pc[s] # "idle"]
  /\ UNCHANGED <<holder, vm, desired, recorded, pc, want, seen, unbinds, binds, moves>>

\* Somebody unbinds an address in the panel, or binds it to something that is no
\* Server of this cluster.
PanelMoves ==
  /\ moves < MaxMoves
  /\ moves' = moves + 1
  /\ \E f \in FIPs, to \in {Free, Elsewhere} :
       to # holder[f] /\ holder' = [holder EXCEPT ![f] = to]
  /\ UNCHANGED <<stored, pc, plan>>

\* The process dies: every reconcile is forgotten.
Crash ==
  /\ \E s \in Servers : pc[s] # "idle"
  /\ pc' = [s \in Servers |-> "idle"]
  /\ want' = [s \in Servers |-> {}]
  /\ seen' = [s \in Servers |-> {}]
  /\ unbinds' = [s \in Servers |-> {}]
  /\ binds' = [s \in Servers |-> {}]
  /\ dirty' = [s \in Servers |-> FALSE]
  /\ UNCHANGED <<holder, vm, obj, desired, recorded, moves>>

Reconcile(s) ==
  \/ Observe(s) \/ ObserveGone(s) \/ Update(s) \/ UpdateRejected(s)
  \/ unbindFloatingIP(s) \/ UnbindsDone(s) \/ bindFloatingIP(s) \/ BindsDone(s)
  \/ Persist(s) \/ DeleteServer(s)

Next ==
  \/ \E s \in Servers : Reconcile(s) \/ TurnsOn(s) \/ Edit(s) \/ RequestDelete(s)
  \/ PanelMoves \/ Crash

Spec == Init /\ [][Next]_vars

(***************************************************************************)
(* Fairness.  The work queue requeues every Server, so a reconcile starts  *)
(* again and again and, unless the process dies, goes on; upstream calls do*)
(* not fail for ever, and the VM's installation ends.                      *)
(***************************************************************************)
Fairness ==
  \A s \in Servers :
    /\ WF_vars(Reconcile(s)) /\ WF_vars(TurnsOn(s))
    /\ SF_vars(Update(s)) /\ SF_vars(UnbindsDone(s))
    /\ SF_vars(DeleteServer(s) /\ vm'[s] = "gone")
    /\ \A f \in FIPs : SF_vars(UnbindOK(s, f)) /\ SF_vars(BindOK(s, f))

FairSpec == Spec /\ Fairness

(***************************************************************************)
(* Properties.                                                             *)
(***************************************************************************)
\* The Servers keep to AddressLease: nobody loses an address to a Server that does
\* not hold it, and no Server gives back one that it was asked to keep.  The unbind
\* call of floatingip_bind.go names no holder, so this rests on the read that planned
\* it still being true when it is sent, other Servers' reconciles and crashes in
\* between.
Lease == INSTANCE AddressLease WITH
  Holders <- Servers, Addresses <- FIPs, asked <- want, touched <- (moves > 0)

KeepsLeases == Lease!Spec

\* A VM is deleted only when no address that its status lists is bound to it any
\* more, whatever failed, crashed or was tried again since deletion was asked for
\* (Delete of server_external.go unbinds status.boundFloatingIPs first).
UnbindsRecordedFirst ==
  [][\A s \in Servers : vm[s] # "gone" /\ vm'[s] = "gone" =>
       \A f \in recorded[s] : holder[f] # s]_vars

Wants(s, f) == obj[s] = "present" /\ f \in desired[s]

\* A Server that goes on wanting an address, while nobody else holds one it asks
\* for, ends up with it for good, whatever was done to it in the panel, whatever
\* fails or crashes on the way and however often the list is edited.  (An address
\* held by something else blocks those after it in the list: the loop of
\* reconcileFloatingIPBindings ends at the first error.)
Converges ==
  \A s \in Servers, f \in FIPs :
    <>[](/\ Wants(s, f)
         /\ \A g \in desired[s] : holder[g] \in {Free, s}) => <>[](holder[f] = s)

\* An address that the status lists and the Server does not want any more, or
\* whose Server is being deleted, is let go of in the end, however often the list
\* is edited meanwhile: the recorded address stays a candidate of every Observe
\* until the unbind has been seen to work.
ReleasesRecorded ==
  \A s \in Servers, f \in FIPs :
    (f \in recorded[s] /\ ~Wants(s, f)) ~> (holder[f] # s \/ Wants(s, f))

\* docs/servers.md, "Release by removing the entry - the Server unbinds": an
\* address that no Server wants any more is released for good.
Released ==
  \A f \in FIPs :
    <>[](\A s \in Servers : ~Wants(s, f)) => <>[](holder[f] \notin Servers)
=============================================================================
