--------------------------- MODULE ExternalCreate ---------------------------
(***************************************************************************)
(* The identity of an upstream resource: how the controllers of this       *)
(* provider observe, create, adopt and delete the one Timeweb resource     *)
(* behind a managed resource (MR), and how the crossplane.io/external-name *)
(* and external-create-{pending,succeeded,failed} annotations survive      *)
(* crashes, lost answers, out-of-band deletion and GitOps overwrites.      *)
(*                                                                         *)
(* A step is what happens between two points where something else may      *)
(* interfere: a request to Timeweb or a write to the API server.  Between  *)
(* them runs crossplane-runtime's managed.Reconciler (a library, not in    *)
(* the repository): one reconcile per MR at a time, in the order           *)
(* Observe, annotate, Create, annotate, or Observe, Delete.                *)
(***************************************************************************)
EXTENDS Naturals, FiniteSets, UpstreamErrors

CONSTANTS
  MRs,        \* the managed resources of one kind
  Ids,        \* upstream ids; Timeweb never hands out one twice
  NoId,       \* an external-name that decodes to no id (initially the MR's name)
  Identity,   \* MR -> the declared fields its lookup compares: a record
  Unset,      \* a field that is not declared, or that an answer leaves out
  Kind,       \* the kind of the MRs
  Omitted,    \* fields that the answer to a lookup may leave out
  Faults,     \* which of AllFaults may happen
  MaxTime     \* bound on the wall clock, in seconds

AdoptAlways   == {"Firewall", "Cdn", "S3User"}
AdoptOnDoubt  == {"KubernetesCluster", "KubernetesClusterNodepool", "Router"}
CreateBlindly == {"Server", "FloatingIP", "Network", "Project", "SSHKey",
                  "S3Bucket", "ContainerRegistry"}

AllFaults == {"crash", "lostAnswer", "partialCreate", "stomp", "outOfBand"}

\* What an identity consists of.
IdentityFields ==
  CASE Kind = "KubernetesClusterNodepool" -> {"name", "preset", "configurator"}
    [] Kind = "KubernetesCluster"         -> {"name", "zone", "project"}
    [] OTHER                              -> {"name"}

ASSUME ConstantsAssumption ==
  /\ NoId \notin Ids
  /\ Kind \in AdoptAlways \cup AdoptOnDoubt \cup CreateBlindly
  /\ Faults \subseteq AllFaults
  /\ MaxTime \in Nat \ {0}
  /\ DOMAIN Identity = MRs
  /\ \A mr \in MRs : IdentityFields \subseteq DOMAIN Identity[mr]
  /\ Omitted \subseteq {"configurator", "zone", "project"}

VARIABLES
  now,        \* wall clock in seconds: the annotations are RFC 3339 timestamps
  obj,        \* MR -> "present", "deleting" (deletionTimestamp set) or "removed"
  extName,    \* MR -> crossplane.io/external-name
  pending,    \* MR -> external-create-pending   (0: absent)
  succeeded,  \* MR -> external-create-succeeded (0: absent)
  failed,     \* MR -> external-create-failed    (0: absent)
  upstreamID, \* MR -> status.atProvider.upstreamID
  pc,         \* MR -> where its reconcile is
  mem,        \* MR -> the external-name in the reconciler's in-memory object
  dirty,      \* MR -> the stored object changed since the reconcile read it
  live,       \* the upstream resources that exist
  ident       \* Ids -> the identity each was created with

vars == <<now, obj, extName, pending, succeeded, failed, upstreamID, pc, mem,
          dirty, live, ident>>

annotations == <<extName, pending, succeeded, failed>>
upstream    == <<live, ident>>

\* Identities are wrapped so that "never created" differs from all of them.
NoIdentity == <<>>
Identities == {<<Identity[mr]>> : mr \in MRs}
IdentityOf(mr) == <<Identity[mr]>>

PCs == {"idle", "observed", "create", "post", "record", "fail", "delete"}

TypeOK ==
  /\ now \in 1 .. MaxTime
  /\ obj \in [MRs -> {"present", "deleting", "removed"}]
  /\ extName \in [MRs -> Ids \cup {NoId}]
  /\ pending \in [MRs -> 0 .. MaxTime]
  /\ succeeded \in [MRs -> 0 .. MaxTime]
  /\ failed \in [MRs -> 0 .. MaxTime]
  /\ upstreamID \in [MRs -> Ids \cup {NoId}]
  /\ pc \in [MRs -> PCs]
  /\ mem \in [MRs -> Ids \cup {NoId}]
  /\ dirty \in [MRs -> BOOLEAN]
  /\ live \in SUBSET Ids
  /\ ident \in [Ids -> Identities \cup {NoIdentity}]

Init ==
  /\ now = 1
  /\ obj = [mr \in MRs |-> "present"]
  /\ extName = [mr \in MRs |-> NoId]
  /\ pending = [mr \in MRs |-> 0]
  /\ succeeded = [mr \in MRs |-> 0]
  /\ failed = [mr \in MRs |-> 0]
  /\ upstreamID = [mr \in MRs |-> NoId]
  /\ pc = [mr \in MRs |-> "idle"]
  /\ mem = [mr \in MRs |-> NoId]
  /\ dirty = [mr \in MRs |-> FALSE]
  /\ live = {}
  /\ ident = [i \in Ids |-> NoIdentity]

(***************************************************************************)
(* The upstream, as the controllers use it.                                *)
(***************************************************************************)
Fresh == {i \in Ids : ident[i] = NoIdentity}

\* What was created for the MR's identity and still exists.
Made(mr) == {i \in live : ident[i] = IdentityOf(mr)}

\* A POST that Timeweb carries out, whatever it then answers.
Mint(mr, i) ==
  /\ i \in Fresh
  /\ live' = live \cup {i}
  /\ ident' = [ident EXCEPT ![i] = IdentityOf(mr)]

(***************************************************************************)
(* The lookups by declared identity.  d is what the MR declares, g, c or r *)
(* an entry of the list.  A field that is not declared is not compared; a  *)
(* configurator, zone or project that the answer leaves out is taken for   *)
(* equal.  A group made from a preset has no configurator.                 *)
(***************************************************************************)
\* A plausible mistake (it was made for clusters): the name alone identifies.
findGroupsByName(d, g) == g.name = d.name

findGroupsByIdentity(d, g) ==
  /\ g.name = d.name
  /\ d.preset # Unset => g.preset = d.preset
  /\ d.configurator # Unset /\ g.configurator # Unset => g.configurator = d.configurator

findClustersByName(d, c) ==
  /\ c.name = d.name
  /\ d.zone # Unset /\ c.zone # Unset => c.zone = d.zone
  /\ d.project # Unset /\ c.project # Unset => c.project = d.project

\* Routers, firewalls, CDN resources and storage users go by the name alone.
findByName(d, r) == r.name = d.name

Accepts(mr, shown) ==
  CASE Kind = "KubernetesClusterNodepool" -> findGroupsByIdentity(Identity[mr], shown)
    [] Kind = "KubernetesCluster"         -> findClustersByName(Identity[mr], shown)
    [] OTHER                              -> findByName(Identity[mr], shown)

\* A cluster declared without a project is put into the account's default one.
DefaultProject == "default"
Stored(id, f) == IF f = "project" /\ id[f] = Unset THEN DefaultProject ELSE id[f]

\* The forms in which a list may show a resource made for identity id.
Reported(id) ==
  {[f \in IdentityFields |-> IF f \in hidden THEN Unset ELSE Stored(id, f)] :
     hidden \in SUBSET Omitted}

\* The match lists that a lookup of the MR may return.
Lookups(mr) ==
  {found \in SUBSET live :
     /\ \A i \in found : \E shown \in Reported(ident[i][1]) : Accepts(mr, shown)
     /\ \A i \in live \ found : \E shown \in Reported(ident[i][1]) : ~Accepts(mr, shown)}

(***************************************************************************)
(* meta.ExternalCreateIncomplete: a pending mark newer than the latest     *)
(* result.  Timestamps have whole seconds, so a result of the same second  *)
(* counts as newer.                                                        *)
(***************************************************************************)
Latest(mr) == IF failed[mr] > succeeded[mr] THEN failed[mr] ELSE succeeded[mr]
ExternalCreateIncomplete(mr) == pending[mr] # 0 /\ pending[mr] > Latest(mr)

\* "cannot determine creation result": the runtime refuses to reconcile.
Wedged(mr) == pc[mr] = "idle" /\ ExternalCreateIncomplete(mr)

\* What a reconcile holds in memory is gone when it ends.
EndReconcile(mr) == /\ pc' = [pc EXCEPT ![mr] = "idle"]
                    /\ mem' = [mem EXCEPT ![mr] = NoId]

\* A write by someone else: a reconcile that has read the object is now stale.
Touch(mr) == dirty' = [dirty EXCEPT ![mr] = pc[mr] = "observed"]

(***************************************************************************)
(* Observe.  Only the nodepool controller remembers the id it created: an  *)
(* external-name that leads nowhere while status.upstreamID names another  *)
(* group parks the MR (exists, up to date) instead of creating again.  And *)
(* only it needs its parent's id, which a deleting MR has from status alone*)
(* (Observe writes both status fields together).                           *)
(***************************************************************************)
StompDefense == Kind = "KubernetesClusterNodepool"

\* Mistake: parking also when the remembered id itself is gone.
ParkAlways(mr) == IF StompDefense /\ upstreamID[mr] # NoId THEN "parked" ELSE "missing"

Missing(mr) ==
  IF StompDefense /\ upstreamID[mr] \notin {NoId, extName[mr]} THEN "parked" ELSE "missing"

ParentUnknown(mr) ==
  /\ Kind = "KubernetesClusterNodepool"
  /\ obj[mr] = "deleting"
  /\ upstreamID[mr] = NoId

Observation(mr, resp) ==
  CASE extName[mr] = NoId  -> Missing(mr)
    [] extName[mr] # NoId /\ ParentUnknown(mr) -> "missing"
    [] OTHER -> CASE Classify(resp) = "ok"          -> "exists"
                  [] Classify(resp) = "ErrNotFound" -> Missing(mr)
                  [] OTHER                          -> "error"

\* An MR that exists is left alone (its fields are other modules' concern) or
\* deleted; one that is missing is created or, when deleting, released.
Observe(mr) ==
  /\ pc[mr] = "idle" /\ obj[mr] # "removed"
  /\ ~ExternalCreateIncomplete(mr)
  /\ \E resp \in AnswersTo(extName[mr] \in live) :
       LET seen == Observation(mr, resp) IN
       /\ seen # "error"
       /\ upstreamID' = IF seen = "exists"
                          THEN [upstreamID EXCEPT ![mr] = extName[mr]] ELSE upstreamID
       /\ pc' = [pc EXCEPT ![mr] =
                   CASE obj[mr] = "deleting" /\ seen # "missing" -> "delete"
                     [] obj[mr] = "present" /\ seen = "missing"  -> "observed"
                     [] OTHER                                    -> "idle"]
       /\ obj' = IF obj[mr] = "deleting" /\ seen = "missing"
                   THEN [obj EXCEPT ![mr] = "removed"] ELSE obj
       /\ mem' = [mem EXCEPT ![mr] = IF pc'[mr] = "idle" THEN NoId ELSE extName[mr]]
  /\ UNCHANGED <<now, annotations, dirty, upstream>>

\* The runtime stores the pending mark before it calls Create; a stored object
\* that changed meanwhile makes the write fail with 409, and nothing is created.
SetExternalCreatePending(mr) ==
  /\ pc[mr] = "observed"
  /\ dirty' = [dirty EXCEPT ![mr] = FALSE]
  /\ IF dirty[mr]
       THEN /\ EndReconcile(mr)
            /\ UNCHANGED pending
       ELSE /\ pc' = [pc EXCEPT ![mr] = "create"]
            /\ pending' = [pending EXCEPT ![mr] = now]
            /\ UNCHANGED mem
  /\ UNCHANGED <<now, obj, extName, succeeded, failed, upstreamID, upstream>>

(***************************************************************************)
(* Create, up to the POST: the answer of the lookup decides whether the MR *)
(* adopts, refuses or goes on.  Placement, sizing, version or a failed     *)
(* lookup may end it with an error before anything is posted.              *)
(***************************************************************************)
Goto(mr, to) == pc' = [pc EXCEPT ![mr] = to] /\ UNCHANGED mem

\* Mistake: the match list instead of its one entry becomes the name.
AdoptAll(mr, i) == /\ pc' = [pc EXCEPT ![mr] = "record"]
                   /\ mem' = [mem EXCEPT ![mr] = Made(mr)]

Adopt(mr, i) == /\ pc' = [pc EXCEPT ![mr] = "record"]
                /\ mem' = [mem EXCEPT ![mr] = i]

\* The Cluster, Router and Nodepool guard: look first when in doubt.
InDoubtAfterFailure(mr) == failed[mr] # 0  \* mistake: a crash leaves no failed mark

InDoubt(mr) == ExternalCreateIncomplete(mr) \/ failed[mr] # 0

\* Mistake: any match is refused, as in the ambiguous case.
RefuseAnyMatch(mr) ==
  /\ Kind \in AdoptOnDoubt
  /\ \E found \in Lookups(mr) : Goto(mr, IF found = {} THEN "post" ELSE "fail")

CreateInDoubt(mr) ==
  /\ Kind \in AdoptOnDoubt
  /\ \/ ~InDoubt(mr) /\ Goto(mr, "post")
     \/ /\ InDoubt(mr)
        /\ \E found \in Lookups(mr) :
             \/ found = {} /\ Goto(mr, "post")
             \/ \E i \in found : found = {i} /\ Adopt(mr, i)
             \/ Cardinality(found) > 1 /\ Goto(mr, "fail")

\* Firewall, Cdn and S3User always look, and take the first match.
PostWithoutLookup(mr) == Kind \in AdoptAlways /\ Goto(mr, "post")  \* mistake

CreateAfterLookup(mr) ==
  /\ Kind \in AdoptAlways
  /\ \E found \in Lookups(mr) :
       \/ found = {} /\ Goto(mr, "post")
       \/ \E i \in found : Adopt(mr, i)

\* The other kinds never look.
CreateWithoutLookup(mr) == Kind \in CreateBlindly /\ Goto(mr, "post")

CreateRejected(mr) == Goto(mr, "fail")

Create(mr) ==
  /\ pc[mr] = "create"
  /\ \/ CreateInDoubt(mr)
     \/ CreateAfterLookup(mr)
     \/ CreateWithoutLookup(mr)
  /\ UNCHANGED <<now, obj, annotations, upstreamID, dirty, upstream>>

Reject(mr) ==
  /\ pc[mr] = "create"
  /\ CreateRejected(mr)
  /\ UNCHANGED <<now, obj, annotations, upstreamID, dirty, upstream>>

\* The POST succeeds and SetExternalName takes the id of the answer.
PostSucceeds(mr) ==
  /\ pc[mr] = "post"
  /\ \E i \in Ids : Mint(mr, i) /\ Adopt(mr, i)
  /\ UNCHANGED <<now, obj, annotations, upstreamID, dirty>>

\* Firewall and S3User go on after the POST (rules, attachments, policy, the
\* secret key): a later step's error is returned with the external-name set.
CreatedPartly(mr) ==
  /\ "partialCreate" \in Faults /\ Kind \in {"Firewall", "S3User"}
  /\ \E i \in Ids : Mint(mr, i) /\ mem' = [mem EXCEPT ![mr] = i]

\* Create ends in an error: the POST was refused, or carried out with the answer
\* lost, or a step after it failed.
PostFails(mr) ==
  /\ pc[mr] = "post"
  /\ pc' = [pc EXCEPT ![mr] = "fail"]
  /\ \/ UNCHANGED <<mem, upstream>>
     \/ "lostAnswer" \in Faults /\ UNCHANGED mem /\ \E i \in Ids : Mint(mr, i)
     \/ CreatedPartly(mr)
  /\ UNCHANGED <<now, obj, annotations, upstreamID, dirty>>

\* The runtime stores the result; its annotations win over concurrent edits.
RecordResult(mr) ==
  /\ pc[mr] \in {"record", "fail"}
  /\ extName' = [extName EXCEPT ![mr] = mem[mr]]
  /\ IF pc[mr] = "record"
       THEN succeeded' = [succeeded EXCEPT ![mr] = now] /\ UNCHANGED failed
       ELSE failed' = [failed EXCEPT ![mr] = now] /\ UNCHANGED succeeded
  /\ EndReconcile(mr)
  /\ UNCHANGED <<now, obj, pending, upstreamID, dirty, upstream>>

\* Delete: nothing to do without an id; a DELETE may be refused (a router that
\* serves others) or fail, and is tried again by the next reconcile.
Delete(mr) ==
  /\ pc[mr] = "delete"
  /\ EndReconcile(mr)
  /\ live' \in {live, live \ {mem[mr]}}
  /\ UNCHANGED <<now, obj, annotations, upstreamID, dirty, ident>>

(***************************************************************************)
(* What happens to the controllers.                                        *)
(***************************************************************************)
Tick ==
  /\ now < MaxTime
  /\ now' = now + 1
  /\ UNCHANGED <<obj, annotations, upstreamID, pc, mem, dirty, upstream>>

\* The process dies and a new leader takes over, at least a second later
\* (leases and cache syncs take longer): every reconcile is forgotten.
Crash ==
  /\ "crash" \in Faults
  /\ now < MaxTime
  /\ \E mr \in MRs : pc[mr] # "idle"
  /\ now' = now + 1
  /\ pc' = [mr \in MRs |-> "idle"]
  /\ mem' = [mr \in MRs |-> NoId]
  /\ dirty' = [mr \in MRs |-> FALSE]
  /\ UNCHANGED <<obj, annotations, upstreamID, upstream>>

\* The resource is deleted in the Timeweb panel.  Only while enough ids are
\* left to recreate every MR's resource: the bound of the instance, not of
\* Timeweb.
IdsToSpare == Cardinality(Fresh) > 
              Cardinality({mr \in MRs : Made(mr) = {} \/ obj[mr] # "present"})

OutOfBandDelete ==
  /\ "outOfBand" \in Faults
  /\ IdsToSpare
  /\ \E i \in live : live' = live \ {i}
  /\ UNCHANGED <<now, obj, annotations, upstreamID, pc, mem, dirty, ident>>

\* A GitOps tool reverts the annotation to what git holds: nothing, or the id of
\* a resource this MR once had.  Its sync comes a second or more after a create.
Stomp(mr) ==
  /\ "stomp" \in Faults
  /\ obj[mr] = "present"
  /\ now > succeeded[mr]
  /\ \E pin \in {NoId} \cup {i \in Ids \ live : ident[i] = IdentityOf(mr)} :
       /\ pin # extName[mr]
       /\ extName' = [extName EXCEPT ![mr] = pin]
  /\ Touch(mr)
  /\ UNCHANGED <<now, obj, pending, succeeded, failed, upstreamID, pc, mem, upstream>>

(***************************************************************************)
(* What the operator does.                                                 *)
(***************************************************************************)
RequestDelete(mr) ==
  /\ obj[mr] = "present"
  /\ IdsToSpare
  /\ obj' = [obj EXCEPT ![mr] = "deleting"]
  /\ Touch(mr)
  /\ UNCHANGED <<now, annotations, upstreamID, pc, mem, upstream>>

\* The manifest is applied again: a new object, whose identity may still have
\* a resource upstream.
Reapply(mr) ==
  /\ obj[mr] = "removed" /\ pc[mr] = "idle"
  /\ obj' = [obj EXCEPT ![mr] = "present"]
  /\ extName' = [extName EXCEPT ![mr] = NoId]
  /\ pending' = [pending EXCEPT ![mr] = 0]
  /\ succeeded' = [succeeded EXCEPT ![mr] = 0]
  /\ failed' = [failed EXCEPT ![mr] = 0]
  /\ upstreamID' = [upstreamID EXCEPT ![mr] = NoId]
  /\ UNCHANGED <<now, pc, mem, dirty, upstream>>

\* The runbook for a wedged MR: point external-name at the resource that was
\* created, if the operator sees one, and remove the pending mark.
ClearPending(mr) ==
  /\ Wedged(mr) /\ obj[mr] # "removed"
  /\ pending' = [pending EXCEPT ![mr] = 0]
  /\ \E name \in {extName[mr]} \cup Made(mr) : extName' = [extName EXCEPT ![mr] = name]
  /\ Touch(mr)
  /\ UNCHANGED <<now, obj, succeeded, failed, upstreamID, pc, mem, upstream>>

\* ExternalNameConflict: the operator restores the id that status remembers.
Parked(mr) ==
  /\ StompDefense
  /\ extName[mr] \notin live
  /\ upstreamID[mr] \notin {NoId, extName[mr]}

RestoreName(mr) ==
  /\ Parked(mr) /\ obj[mr] # "removed" /\ pc[mr] \in {"idle", "delete"}
  /\ extName' = [extName EXCEPT ![mr] = upstreamID[mr]]
  /\ Touch(mr)
  /\ UNCHANGED <<now, obj, pending, succeeded, failed, upstreamID, pc, mem, upstream>>

Reconcile(mr) ==
  \/ Observe(mr) \/ SetExternalCreatePending(mr) \/ Create(mr) \/ Reject(mr)
  \/ PostSucceeds(mr) \/ PostFails(mr)
  \/ RecordResult(mr) \/ Delete(mr)

Operator(mr) ==
  RequestDelete(mr) \/ Reapply(mr) \/ ClearPending(mr) \/ RestoreName(mr)

Next ==
  \/ \E mr \in MRs : Reconcile(mr) \/ Operator(mr) \/ Stomp(mr)
  \/ Tick \/ Crash \/ OutOfBandDelete

Spec == Init /\ [][Next]_vars

(***************************************************************************)
(* Fairness.  The runtime requeues every MR (poll interval, backoff, watch *)
(* events), so an enabled step of a reconcile is eventually taken; Timeweb *)
(* does not refuse one and the same request for ever; an operator follows  *)
(* the runbook of a wedged MR and the message of a parked one (restore the *)
(* annotation and stop rendering it in git: overwrites come to an end).    *)
(***************************************************************************)
Deletes(mr) == Delete(mr) /\ mem[mr] \notin live'

OverwritesEnd == <>[][\A mr \in MRs : ~Stomp(mr)]_vars

Fairness ==
  \A mr \in MRs :
    /\ WF_vars(Observe(mr))
    /\ WF_vars(SetExternalCreatePending(mr))
    /\ SF_vars(Create(mr))
    /\ SF_vars(PostSucceeds(mr))
    /\ WF_vars(RecordResult(mr))
    /\ WF_vars(Delete(mr))
    /\ SF_vars(Deletes(mr))
    /\ WF_vars(ClearPending(mr))
    /\ WF_vars(RestoreName(mr))

FairSpec == Spec /\ Fairness /\ OverwritesEnd

(***************************************************************************)
(* Properties.                                                             *)
(***************************************************************************)
DistinctIdentities == \A a, b \in MRs : Identity[a] = Identity[b] => a = b

\* No lookup takes what was made for one MR for another's: not two nodepools of
\* one name of which the one is sized by resources and the other by a preset,
\* nor two clusters of one name and zone of which one declares no project.
Separated ==
  /\ DistinctIdentities
  /\ Kind \notin CreateBlindly =>
       \A m, n \in MRs : \A shown \in Reported(Identity[n]) : Accepts(m, shown) => m = n

\* Constitution II: re-invocation MUST NOT create duplicates.  Whatever was
\* lost, crashed or overwritten between the POST and the annotation, no
\* declared identity ever has two live resources upstream.
AtMostOnePerIdentity == \A mr \in MRs : \A i, j \in Made(mr) : i = j

\* Where the declarations are Separated, adoption never takes what another MR
\* manages: two MRs never name the same live resource (both would patch it, and
\* either could delete it).
SoleOwner ==
  \A a, b \in MRs : a # b /\ extName[a] = extName[b] => extName[a] \notin live

(***************************************************************************)
(* The inductive invariant behind AtMostOnePerIdentity: why a lookup before*)
(* the POST is enough, although it runs only in doubt, the doubt rests on  *)
(* timestamps of whole seconds, and the lookup may find too much.          *)
(***************************************************************************)
Own(mr, x) == x = NoId \/ (x \in Ids /\ ident[x] = IdentityOf(mr))

\* findGroupsByIdentity returns the groups matching the full declared identity:
\* every id an MR stores, remembers or holds was created for its identity.
NamesOwn ==
  \A mr \in MRs : Own(mr, extName[mr]) /\ Own(mr, mem[mr]) /\ Own(mr, upstreamID[mr])

\* Every id an MR stores, remembers or holds has been handed out, to whomever.
Minted(x) == x = NoId \/ (x \in Ids /\ ident[x] # NoIdentity)
NamesMinted ==
  \A mr \in MRs : Minted(extName[mr]) /\ Minted(mem[mr]) /\ Minted(upstreamID[mr])

LiveMinted == \A i \in live : ident[i] # NoIdentity

ClockAhead == \A mr \in MRs : succeeded[mr] <= now

\* An MR about to POST has no resource; one that looks only in doubt and is about
\* to record an id has no other, also where it has adopted someone else's.
PostIsAlone  == \A mr \in MRs : pc[mr] = "post" => Made(mr) = {}
RecordIsSole ==
  Kind \in AdoptOnDoubt =>
    \A mr \in MRs : pc[mr] = "record" => Made(mr) \subseteq {mem[mr]}

\* A resource the annotation does not name leaves a trace: a failed mark, or a
\* success so old that the next pending mark will be newer.
StrayIsDoubted ==
  Kind \in AdoptOnDoubt => \A mr \in MRs :
    pc[mr] \in {"idle", "observed", "delete"} /\ (\E i \in Made(mr) : i # extName[mr])
      => failed[mr] # 0 \/ succeeded[mr] < now

CreateLooks ==
  \A mr \in MRs : pc[mr] = "create" /\ Made(mr) # {}
                    => Kind \in AdoptAlways \/ InDoubt(mr)

\* What Observe reported missing stays missing until someone edits the MR.
ObservedIsGone ==
  \A mr \in MRs : pc[mr] = "observed" /\ ~dirty[mr] => extName[mr] \notin live

\* The chain that makes duplicates impossible for the kinds that look before
\* they POST: a resource either is named by its MR's annotation or has left a
\* mark that sends the next Create to the lookup.
IdentityInv ==
  /\ NamesMinted /\ LiveMinted /\ ClockAhead /\ AtMostOnePerIdentity /\ PostIsAlone
  /\ RecordIsSole /\ StrayIsDoubted /\ CreateLooks /\ ObservedIsGone

\* Delete removes what Create made: once the finalizer is gone, nothing of the
\* MR is left upstream.
DeletionLeavesNothing == \A mr \in MRs : obj[mr] = "removed" => Made(mr) = {}

\* However often its resource is lost, its annotation overwritten or its
\* reconcile killed, a present MR gets back to naming a live resource.
Reattaches == \A mr \in MRs : []<>(extName[mr] \in live \/ obj[mr] # "present")

\* Deletion terminates: no refused DELETE, wedge or overwritten annotation
\* keeps the finalizer for ever once the operator has done his part.
DeletionCompletes == \A mr \in MRs : obj[mr] = "deleting" ~> obj[mr] = "removed"
=============================================================================
