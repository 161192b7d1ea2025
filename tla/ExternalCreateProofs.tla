------------------------ MODULE ExternalCreateProofs ------------------------
(***************************************************************************)
(* Proofs about ExternalCreate, for any number of MRs and ids and any      *)
(* clock bound.                                                            *)
(***************************************************************************)
EXTENDS ExternalCreate, TLAPS

\* The type invariant is inductive by itself.
LEMMA TypeStep == TypeOK /\ [Next]_vars => TypeOK'
<1> SUFFICES ASSUME TypeOK, [Next]_vars PROVE TypeOK'
  OBVIOUS
<1> USE ConstantsAssumption DEF TypeOK, annotations, upstream, PCs
<1>1. ASSUME NEW mr \in MRs, Observe(mr) PROVE TypeOK'
  <2> DEFINE seen(resp) == Observation(mr, resp)
  <2>1. PICK resp \in AnswersTo(extName[mr] \in live) :
          /\ upstreamID' = IF seen(resp) = "exists"
                             THEN [upstreamID EXCEPT ![mr] = extName[mr]] ELSE upstreamID
          /\ pc' = [pc EXCEPT ![mr] =
                      CASE obj[mr] = "deleting" /\ seen(resp) # "missing" -> "delete"
                        [] obj[mr] = "present" /\ seen(resp) = "missing"  -> "observed"
                        [] OTHER                                          -> "idle"]
          /\ obj' = IF obj[mr] = "deleting" /\ seen(resp) = "missing"
                      THEN [obj EXCEPT ![mr] = "removed"] ELSE obj
          /\ mem' = [mem EXCEPT ![mr] = IF pc'[mr] = "idle" THEN NoId ELSE extName[mr]]
    BY <1>1 DEF Observe
  <2> HIDE DEF seen
  <2> QED BY <1>1, <2>1 DEF Observe
<1>2. ASSUME NEW mr \in MRs, SetExternalCreatePending(mr) PROVE TypeOK'
  BY <1>2 DEF SetExternalCreatePending, EndReconcile
<1>3. ASSUME NEW mr \in MRs, Create(mr) PROVE TypeOK'
  BY <1>3 DEF Create, CreateInDoubt, CreateAfterLookup, CreateWithoutLookup, Goto, Adopt, Lookups
<1>4. ASSUME NEW mr \in MRs, Reject(mr) PROVE TypeOK'
  BY <1>4 DEF Reject, CreateRejected, Goto
<1>5. ASSUME NEW mr \in MRs, PostSucceeds(mr) PROVE TypeOK'
  BY <1>5 DEF PostSucceeds, Mint, Fresh, Adopt, Identities, IdentityOf
<1>6. ASSUME NEW mr \in MRs, PostFails(mr) PROVE TypeOK'
  BY <1>6 DEF PostFails, CreatedPartly, Mint, Fresh, Identities, IdentityOf
<1>7. ASSUME NEW mr \in MRs, RecordResult(mr) PROVE TypeOK'
  BY <1>7 DEF RecordResult, EndReconcile
<1>8. ASSUME NEW mr \in MRs, Delete(mr) PROVE TypeOK'
  BY <1>8 DEF Delete, EndReconcile
<1>9. ASSUME NEW mr \in MRs, Operator(mr) PROVE TypeOK'
  <2>1. CASE RequestDelete(mr)
    BY <2>1 DEF RequestDelete, Touch
  <2>2. CASE Reapply(mr)
    BY <2>2 DEF Reapply
  <2>3. CASE ClearPending(mr)
    BY <2>3 DEF ClearPending, Touch, Made
  <2>4. CASE RestoreName(mr)
    BY <2>4 DEF RestoreName, Touch
  <2> QED BY <1>9, <2>1, <2>2, <2>3, <2>4 DEF Operator
<1>10. ASSUME NEW mr \in MRs, Stomp(mr) PROVE TypeOK'
  BY <1>10 DEF Stomp, Touch
<1>11. CASE Tick
  BY <1>11 DEF Tick
<1>12. CASE Crash
  BY <1>12 DEF Crash
<1>13. CASE OutOfBandDelete
  BY <1>13 DEF OutOfBandDelete
<1>14. CASE UNCHANGED vars
  BY <1>14 DEF vars
<1> QED
  BY <1>1, <1>2, <1>3, <1>4, <1>5, <1>6, <1>7, <1>8, <1>9, <1>10, <1>11, <1>12, <1>13,
     <1>14 DEF Next, Reconcile

\* Every variable of the identity protocol stays within its type.
THEOREM TypeCorrect == Spec => []TypeOK
<1>1. Init => TypeOK
  BY ConstantsAssumption DEF Init, TypeOK, PCs
<1> QED
  BY <1>1, TypeStep, PTL DEF Spec

\* Identities are told apart from each other and from "never created".
LEMMA IdentityFacts ==
  ASSUME DistinctIdentities
  PROVE  /\ \A m \in MRs : IdentityOf(m) # NoIdentity
         /\ \A m, n \in MRs : IdentityOf(m) = IdentityOf(n) => m = n
  BY DEF DistinctIdentities, IdentityOf, NoIdentity

\* Classify never reports a resource that exists as gone, whatever flaps.
LEMMA LiveNeverNotFound ==
  ASSUME NEW resp \in AnswersTo(TRUE)
  PROVE  Classify(resp) # "ErrNotFound"
<1>1. resp.status = 404 => resp.code = ""
  <2>1. CASE resp = Answer(200, "")
    BY <2>1 DEF Answer
  <2>2. CASE resp = Answer(401, "unauthorized")
    BY <2>2 DEF Answer
  <2>3. ASSUME NEW n, resp = Answer(n, "") PROVE resp.code = ""
    BY <2>3 DEF Answer
  <2>4. \/ resp = Answer(200, "") \/ resp = Answer(401, "unauthorized")
        \/ resp = Answer(0, "") \/ resp = Answer(404, "")
        \/ resp = Answer(429, "") \/ resp = Answer(502, "")
    BY Zenon DEF AnswersTo, Flaps
  <2>5. CASE \/ resp = Answer(0, "") \/ resp = Answer(404, "")
             \/ resp = Answer(429, "") \/ resp = Answer(502, "")
    <3>1. resp.code = ""
      BY <2>3, <2>5
    <3> QED BY <3>1
  <2> QED BY <2>1, <2>2, <2>4, <2>5
<1> QED
  BY <1>1 DEF Classify, ClassifyNetworkError

\* An MR goes on to Create only if the resource its annotation names is gone.
LEMMA MissingIsGone ==
  ASSUME TypeOK, NEW mr \in MRs, Observe(mr), pc'[mr] = "observed"
  PROVE  extName[mr] \notin live
<1>1. PICK resp \in AnswersTo(extName[mr] \in live) :
        pc' = [pc EXCEPT ![mr] =
                 CASE obj[mr] = "deleting" /\ Observation(mr, resp) # "missing" -> "delete"
                   [] obj[mr] = "present" /\ Observation(mr, resp) = "missing"  -> "observed"
                   [] OTHER                                                     -> "idle"]
  BY DEF Observe
<1>2. obj[mr] = "present" /\ Observation(mr, resp) = "missing"
  BY <1>1 DEF TypeOK
<1>3. CASE extName[mr] = NoId
  BY <1>3, ConstantsAssumption DEF TypeOK
<1>4. CASE extName[mr] # NoId
  <2>1. ~ParentUnknown(mr)
    BY <1>2 DEF ParentUnknown
  <2>2. Classify(resp) = "ErrNotFound"
    BY <1>2, <1>4, <2>1 DEF Observation, Missing
  <2>3. SUFFICES ASSUME extName[mr] \in live PROVE FALSE
    OBVIOUS
  <2>4. resp \in AnswersTo(TRUE)
    BY <1>1, <2>3
  <2> QED BY <2>2, <2>4, LiveNeverNotFound
<1> QED BY <1>3, <1>4

\* A POST that is carried out adds one resource, to its own MR's matches only.
LEMMA MintAddsOne ==
  ASSUME TypeOK, LiveMinted, DistinctIdentities, NEW mr \in MRs, NEW i \in Ids, Mint(mr, i)
  PROVE  /\ i \notin live
         /\ LiveMinted'
         /\ Made(mr)' = Made(mr) \cup {i}
         /\ \A n \in MRs \ {mr} : Made(n)' = Made(n)
         /\ \A x \in Ids \cup {NoId} : Minted(x) => Minted(x)'
         /\ \A x \in Ids \cup {NoId} : Minted(x) => x # i
         /\ Minted(i)'
<1> USE IdentityFacts DEF Mint, Fresh, Made, LiveMinted, TypeOK
<1>1. i \notin live /\ ident[i] = NoIdentity
  OBVIOUS
<1>2. LiveMinted'
  BY DEF IdentityOf
<1>3. Made(mr)' = Made(mr) \cup {i}
  BY <1>1 DEF IdentityOf
<1>4. \A n \in MRs \ {mr} : Made(n)' = Made(n)
  BY <1>1 DEF IdentityOf
<1>5. \A x \in Ids \cup {NoId} : Minted(x) => Minted(x)' /\ x # i
  BY <1>1, ConstantsAssumption DEF Minted, IdentityOf
<1>6. Minted(i)'
  BY <1>1 DEF Minted, IdentityOf
<1> QED BY <1>1, <1>2, <1>3, <1>4, <1>5, <1>6

\* An MR's own resource is on the match list of each of its lookups, however the
\* answer shows it.
LEMMA OwnFound ==
  ASSUME TypeOK, NEW mr \in MRs, NEW found \in Lookups(mr)
  PROVE  Made(mr) \subseteq found /\ found \subseteq live
<1>1. ASSUME NEW shown \in Reported(Identity[mr]) PROVE Accepts(mr, shown)
  <2>1. PICK hidden \in SUBSET Omitted :
          shown = [f \in IdentityFields |->
                     IF f \in hidden THEN Unset ELSE Stored(Identity[mr], f)]
    BY <1>1 DEF Reported
  <2>2. "name" \notin hidden /\ "preset" \notin hidden
    BY ConstantsAssumption
  <2>3. "name" \in IdentityFields => shown.name = Identity[mr].name
    BY <2>1, <2>2 DEF Stored
  <2>4. CASE Kind = "KubernetesClusterNodepool"
    <3>1. IdentityFields = {"name", "preset", "configurator"}
      BY <2>4 DEF IdentityFields
    <3>2. shown.preset = Identity[mr].preset
      BY <3>1, <2>1, <2>2 DEF Stored
    <3>3. shown.configurator \in {Unset, Identity[mr].configurator}
      BY <3>1, <2>1 DEF Stored
    <3> QED BY <2>3, <2>4, <3>1, <3>2, <3>3 DEF Accepts, findGroupsByIdentity
  <2>5. CASE Kind = "KubernetesCluster"
    <3>1. IdentityFields = {"name", "zone", "project"}
      BY <2>5 DEF IdentityFields
    <3>2. shown.zone \in {Unset, Identity[mr].zone}
      BY <3>1, <2>1 DEF Stored
    <3>3. Identity[mr].project # Unset => shown.project \in {Unset, Identity[mr].project}
      BY <3>1, <2>1 DEF Stored
    <3> QED BY <2>3, <2>5, <3>1, <3>2, <3>3 DEF Accepts, findClustersByName
  <2>6. CASE Kind \notin {"KubernetesClusterNodepool", "KubernetesCluster"}
    <3>1. IdentityFields = {"name"}
      BY <2>6 DEF IdentityFields
    <3> QED BY <2>3, <2>6, <3>1 DEF Accepts, findByName
  <2> QED BY <2>4, <2>5, <2>6
<1>2. /\ found \subseteq live
      /\ \A i \in live \ found : \E shown \in Reported(ident[i][1]) : ~Accepts(mr, shown)
  BY DEF Lookups
<1>3. ASSUME NEW i \in Made(mr), i \notin found PROVE FALSE
  <2>1. i \in live \ found /\ ident[i][1] = Identity[mr]
    BY <1>3 DEF Made, IdentityOf
  <2> QED BY <1>1, <1>2, <2>1
<1> QED BY <1>2, <1>3

\* The invariant, one MR at a time.
InvOf(n) ==
  /\ Minted(extName[n]) /\ Minted(mem[n]) /\ Minted(upstreamID[n])
  /\ succeeded[n] <= now
  /\ \A i, j \in Made(n) : i = j
  /\ pc[n] = "post" => Made(n) = {}
  /\ Kind \in AdoptOnDoubt /\ pc[n] = "record" => Made(n) \subseteq {mem[n]}
  /\ /\ Kind \in AdoptOnDoubt
     /\ pc[n] \in {"idle", "observed", "delete"}
     /\ \E i \in Made(n) : i # extName[n]
     => failed[n] # 0 \/ succeeded[n] < now
  /\ pc[n] = "create" /\ Made(n) # {} => Kind \in AdoptAlways \/ InDoubt(n)
  /\ pc[n] = "observed" /\ ~dirty[n] => extName[n] \notin live

\* The identity invariant, taken apart into one predicate per MR.
LEMMA InvPerMR == IdentityInv <=> LiveMinted /\ \A n \in MRs : InvOf(n)
  BY DEF IdentityInv, NamesMinted, ClockAhead, AtMostOnePerIdentity, PostIsAlone, RecordIsSole,
         StrayIsDoubted, CreateLooks, ObservedIsGone, InvOf

\* What a step has to leave alone of MR n for its part to survive: everything
\* of n's own, and the resources of its identity.
SameAt(n) ==
  /\ pc'[n] = pc[n] /\ mem'[n] = mem[n] /\ dirty'[n] = dirty[n]
  /\ extName'[n] = extName[n] /\ upstreamID'[n] = upstreamID[n]
  /\ pending'[n] = pending[n] /\ succeeded'[n] = succeeded[n] /\ failed'[n] = failed[n]

\* Whether the last create is in doubt depends on the MR's own bookkeeping only.
LEMMA InDoubtSame ==
  ASSUME NEW n \in MRs, pending'[n] = pending[n], succeeded'[n] = succeeded[n],
         failed'[n] = failed[n]
  PROVE  InDoubt(n)' <=> InDoubt(n)
  BY DEF InDoubt, ExternalCreateIncomplete, Latest

\* An MR a step leaves alone keeps its part of the invariant.
LEMMA OthersKeep ==
  ASSUME TypeOK, TypeOK', NEW n \in MRs, InvOf(n), SameAt(n), now' \in {now, now + 1},
         Made(n)' \subseteq Made(n),
         extName[n] \in live' => extName[n] \in live,
         \A x \in Ids \cup {NoId} : Minted(x) => Minted(x)'
  PROVE  InvOf(n)'
<1>1. InDoubt(n)' <=> InDoubt(n)
  BY InDoubtSame DEF SameAt
<1> QED
  BY <1>1 DEF InvOf, SameAt, TypeOK

\* A step that neither creates nor deletes upstream.
LEMMA QuietUpstream ==
  ASSUME live' = live, ident' = ident, LiveMinted
  PROVE  /\ LiveMinted'
         /\ \A n \in MRs : Made(n)' = Made(n)
         /\ \A x \in Ids \cup {NoId} : Minted(x)' <=> Minted(x)
  BY DEF Made, Minted, LiveMinted

\* A step that deletes upstream.
LEMMA DeleteShrinks ==
  ASSUME TypeOK, live' \subseteq live, ident' = ident, LiveMinted
  PROVE  /\ LiveMinted'
         /\ \A n \in MRs : Made(n)' \subseteq Made(n)
         /\ \A x \in Ids \cup {NoId} : Minted(x)' <=> Minted(x)
  BY DEF Made, Minted, LiveMinted, TypeOK

\* One step of the protocol preserves the invariant, for the kinds that look
\* before they POST.
LEMMA IdentityStep ==
  ASSUME Kind \in AdoptOnDoubt \cup AdoptAlways, DistinctIdentities,
         TypeOK, TypeOK', IdentityInv, [Next]_vars
  PROVE  IdentityInv'
<1> USE ConstantsAssumption DEF annotations, upstream
<1>a. Kind \notin CreateBlindly
  BY DEF AdoptOnDoubt, AdoptAlways, CreateBlindly
<1>b. LiveMinted /\ \A n \in MRs : InvOf(n)
  BY InvPerMR
<1> SUFFICES LiveMinted' /\ \A n \in MRs : InvOf(n)'
  BY DEF IdentityInv, NamesMinted, ClockAhead, AtMostOnePerIdentity, PostIsAlone, RecordIsSole,
         StrayIsDoubted, CreateLooks, ObservedIsGone, InvOf
<1> DEFINE Goal == LiveMinted' /\ \A n \in MRs : InvOf(n)'
<1>1. ASSUME NEW mr \in MRs, Observe(mr) PROVE Goal
  <2>1. /\ now' = now /\ extName' = extName /\ pending' = pending /\ live' = live
        /\ ident' = ident /\ succeeded' = succeeded /\ failed' = failed /\ dirty' = dirty
        /\ pc[mr] = "idle"
        /\ mem' = [mem EXCEPT ![mr] = IF pc'[mr] = "idle" THEN NoId ELSE extName[mr]]
        /\ upstreamID' \in {upstreamID, [upstreamID EXCEPT ![mr] = extName[mr]]}
        /\ pc'[mr] \in {"idle", "observed", "delete"}
        /\ \A n \in MRs \ {mr} : pc'[n] = pc[n]
    BY <1>1, Zenon DEF Observe, TypeOK
  <2>2. LiveMinted' /\ (\A n \in MRs : Made(n)' = Made(n))
        /\ (\A x \in Ids \cup {NoId} : Minted(x)' <=> Minted(x))
    BY <2>1, <1>b, QuietUpstream
  <2>3. \A n \in MRs \ {mr} : InvOf(n)'
    BY <2>1, <2>2, <1>b, OthersKeep DEF SameAt, TypeOK
  <2>4. InvOf(mr)'
    <3>1. pc'[mr] = "observed" => extName[mr] \notin live
      BY <1>1, MissingIsGone
    <3>2. Minted(mem'[mr]) /\ Minted(upstreamID'[mr])
      BY <2>1, <1>b DEF InvOf, Minted, TypeOK
    <3> QED BY <2>1, <2>2, <3>1, <3>2, <1>b DEF InvOf, TypeOK
  <2> QED BY <2>2, <2>3, <2>4
<1>2. ASSUME NEW mr \in MRs, SetExternalCreatePending(mr) PROVE Goal
  <2>1. LiveMinted' /\ (\A n \in MRs : Made(n)' = Made(n))
        /\ (\A x \in Ids \cup {NoId} : Minted(x)' <=> Minted(x))
    BY <1>2, <1>b, QuietUpstream DEF SetExternalCreatePending
  <2>2. \A n \in MRs \ {mr} : InvOf(n)'
    <3>1. now' = now /\ live' = live /\ \A n \in MRs \ {mr} : SameAt(n)
      BY <1>2 DEF SetExternalCreatePending, EndReconcile, SameAt, TypeOK
    <3> QED BY <3>1, <2>1, <1>b, OthersKeep
  <2>3. InvOf(mr)'
    <3>1. CASE dirty[mr]
      BY <1>2, <3>1, <2>1, <1>b DEF SetExternalCreatePending, EndReconcile, InvOf, Minted, TypeOK
    <3>2. CASE ~dirty[mr]
      <4>1. Kind \in AdoptOnDoubt /\ Made(mr) # {} => failed[mr] # 0 \/ succeeded[mr] < now
        BY <1>2, <3>2, <1>b DEF SetExternalCreatePending, InvOf, Made, TypeOK
      <4>2. Kind \in AdoptOnDoubt /\ Made(mr) # {} => InDoubt(mr)'
        BY <1>2, <3>2, <4>1 DEF SetExternalCreatePending, InDoubt, ExternalCreateIncomplete,
           Latest, TypeOK
      <4> QED BY <1>2, <3>2, <4>2, <2>1, <1>b DEF SetExternalCreatePending, InvOf, TypeOK
    <3> QED BY <3>1, <3>2
  <2> QED BY <2>1, <2>2, <2>3
<1>3. ASSUME NEW mr \in MRs, Create(mr) \/ Reject(mr) PROVE Goal
  <2>1. LiveMinted' /\ (\A n \in MRs : Made(n)' = Made(n))
        /\ (\A x \in Ids \cup {NoId} : Minted(x)' <=> Minted(x))
    BY <1>3, <1>b, QuietUpstream DEF Create, Reject
  <2>2. /\ pc[mr] = "create"
        /\ now' = now /\ extName' = extName /\ pending' = pending /\ live' = live
        /\ succeeded' = succeeded /\ failed' = failed /\ dirty' = dirty
        /\ upstreamID' = upstreamID
        /\ \/ pc' = [pc EXCEPT ![mr] = "post"] /\ mem' = mem /\ Made(mr) = {}
           \/ pc' = [pc EXCEPT ![mr] = "fail"] /\ mem' = mem
           \/ \E i \in live : /\ Kind \in AdoptOnDoubt => Made(mr) \subseteq {i}
                              /\ pc' = [pc EXCEPT ![mr] = "record"]
                              /\ mem' = [mem EXCEPT ![mr] = i]
    <3>1. CASE Reject(mr)
      BY <3>1 DEF Reject, CreateRejected, Goto
    <3>2. CASE Create(mr) /\ CreateInDoubt(mr)
      <4>1. Made(mr) = {} \/ InDoubt(mr)
        BY <3>2, <1>b DEF Create, CreateInDoubt, InvOf, AdoptAlways, AdoptOnDoubt
      <4> QED BY <3>2, <4>1, OwnFound DEF Create, CreateInDoubt, Goto, Adopt
    <3>3. CASE Create(mr) /\ CreateAfterLookup(mr)
      <4>1. Kind \notin AdoptOnDoubt
        BY <3>3 DEF CreateAfterLookup, AdoptAlways, AdoptOnDoubt
      <4> QED BY <3>3, <4>1, OwnFound DEF Create, CreateAfterLookup, Goto, Adopt
    <3> QED BY <1>3, <3>1, <3>2, <3>3, <1>a DEF Create, CreateWithoutLookup
  <2>3. \A n \in MRs \ {mr} : InvOf(n)'
    BY <2>1, <2>2, <1>b, OthersKeep DEF SameAt, TypeOK
  <2>4. InvOf(mr)'
    <3>1. Minted(mem'[mr])
      BY <2>2, <1>b DEF InvOf, Minted, LiveMinted, TypeOK
    <3> QED BY <3>1, <2>1, <2>2, <1>b DEF InvOf, TypeOK
  <2> QED BY <2>1, <2>3, <2>4
<1>4. ASSUME NEW mr \in MRs, PostSucceeds(mr) \/ PostFails(mr)
      PROVE  Goal
  <2>1. /\ pc[mr] = "post"
        /\ now' = now /\ extName' = extName /\ pending' = pending
        /\ succeeded' = succeeded /\ failed' = failed /\ dirty' = dirty
        /\ upstreamID' = upstreamID
        /\ \/ live' = live /\ ident' = ident /\ mem' = mem /\ pc' = [pc EXCEPT ![mr] = "fail"]
           \/ \E i \in Ids : /\ Mint(mr, i)
                             /\ mem' \in {mem, [mem EXCEPT ![mr] = i]}
                             /\ pc' = [pc EXCEPT ![mr] = "fail"]
           \/ \E i \in Ids : /\ Mint(mr, i)
                             /\ mem' = [mem EXCEPT ![mr] = i]
                             /\ pc' = [pc EXCEPT ![mr] = "record"]
    BY <1>4 DEF PostSucceeds, PostFails, CreatedPartly, Adopt
  <2>2. CASE live' = live /\ ident' = ident /\ mem' = mem /\ pc' = [pc EXCEPT ![mr] = "fail"]
    <3>1. LiveMinted' /\ (\A n \in MRs : Made(n)' = Made(n))
          /\ (\A x \in Ids \cup {NoId} : Minted(x)' <=> Minted(x))
      BY <2>2, <1>b, QuietUpstream
    <3>2. \A n \in MRs \ {mr} : InvOf(n)'
      BY <2>1, <2>2, <3>1, <1>b, OthersKeep DEF SameAt, TypeOK
    <3>3. InvOf(mr)'
      BY <2>1, <2>2, <3>1, <1>b DEF InvOf, TypeOK
    <3> QED BY <3>1, <3>2, <3>3
  <2>3. ASSUME NEW i \in Ids, Mint(mr, i),
               \/ mem' \in {mem, [mem EXCEPT ![mr] = i]} /\ pc' = [pc EXCEPT ![mr] = "fail"]
               \/ mem' = [mem EXCEPT ![mr] = i] /\ pc' = [pc EXCEPT ![mr] = "record"]
        PROVE  Goal
    <3>1. /\ LiveMinted' /\ live' = live \cup {i}
          /\ Made(mr)' = Made(mr) \cup {i}
          /\ \A n \in MRs \ {mr} : Made(n)' = Made(n)
          /\ \A x \in Ids \cup {NoId} : Minted(x) => Minted(x)'
          /\ \A x \in Ids \cup {NoId} : Minted(x) => x # i
          /\ Minted(i)'
      BY <2>3, <1>b, MintAddsOne DEF Mint
    <3>2. \A n \in MRs \ {mr} : InvOf(n)'
      <4> SUFFICES ASSUME NEW n \in MRs \ {mr} PROVE InvOf(n)'
        OBVIOUS
      <4>1. extName[n] # i /\ SameAt(n)
        BY <2>1, <2>3, <3>1, <1>b DEF SameAt, InvOf, TypeOK
      <4> QED BY <4>1, <2>1, <3>1, <1>b, OthersKeep DEF TypeOK
    <3>3. Made(mr)' = {i}
      BY <2>1, <3>1, <1>b DEF InvOf
    <3>4. Minted(mem[mr])' /\ Minted(extName[mr])' /\ Minted(upstreamID[mr])'
      <4>1. /\ Minted(mem[mr]) /\ Minted(extName[mr]) /\ Minted(upstreamID[mr])
            /\ mem[mr] \in Ids \cup {NoId} /\ extName[mr] \in Ids \cup {NoId}
            /\ upstreamID[mr] \in Ids \cup {NoId}
            /\ mem'[mr] \in {mem[mr], i}
        BY <2>3, <1>b DEF InvOf, TypeOK
      <4> QED BY <4>1, <3>1, <2>1 DEF Minted
    <3>5. InvOf(mr)'
      BY <2>1, <2>3, <3>3, <3>4, <1>b DEF InvOf, TypeOK
    <3> QED BY <3>1, <3>2, <3>5
  <2> QED BY <2>1, <2>2, <2>3
<1>5. ASSUME NEW mr \in MRs, RecordResult(mr) PROVE Goal
  <2>1. LiveMinted' /\ (\A n \in MRs : Made(n)' = Made(n))
        /\ (\A x \in Ids \cup {NoId} : Minted(x)' <=> Minted(x))
    BY <1>5, <1>b, QuietUpstream DEF RecordResult
  <2>2. \A n \in MRs \ {mr} : InvOf(n)'
    BY <1>5, <2>1, <1>b, OthersKeep DEF RecordResult, EndReconcile, SameAt, TypeOK
  <2>3. InvOf(mr)'
    <3>1. Minted(NoId)
      BY DEF Minted
    <3> QED BY <1>5, <3>1, <2>1, <1>b DEF RecordResult, EndReconcile, InvOf, TypeOK
  <2> QED BY <2>1, <2>2, <2>3
<1>6. ASSUME NEW mr \in MRs, Delete(mr) PROVE Goal
  <2>1. LiveMinted' /\ (\A n \in MRs : Made(n)' \subseteq Made(n))
        /\ (\A x \in Ids \cup {NoId} : Minted(x)' <=> Minted(x))
    BY <1>6, <1>b, DeleteShrinks DEF Delete
  <2>2. \A n \in MRs \ {mr} : InvOf(n)'
    BY <1>6, <2>1, <1>b, OthersKeep DEF Delete, EndReconcile, SameAt, TypeOK
  <2>3. InvOf(mr)'
    <3>1. Minted(NoId)
      BY DEF Minted
    <3> QED BY <1>6, <3>1, <2>1, <1>b DEF Delete, EndReconcile, InvOf, TypeOK
  <2> QED BY <2>1, <2>2, <2>3
<1>7. ASSUME NEW mr \in MRs, RequestDelete(mr) PROVE Goal
  <2>1. LiveMinted' /\ (\A n \in MRs : Made(n)' = Made(n))
        /\ (\A x \in Ids \cup {NoId} : Minted(x)' <=> Minted(x))
    BY <1>7, <1>b, QuietUpstream DEF RequestDelete
  <2>2. \A n \in MRs \ {mr} : InvOf(n)'
    <3>1. now' = now /\ live' = live /\ \A n \in MRs \ {mr} : SameAt(n)
      BY <1>7 DEF RequestDelete, Touch, SameAt, TypeOK
    <3> QED BY <3>1, <2>1, <1>b, OthersKeep
  <2>3. InvOf(mr)'
    <3>1. InDoubt(mr)' <=> InDoubt(mr)
      BY <1>7, InDoubtSame DEF RequestDelete
    <3> QED BY <1>7, <3>1, <2>1, <1>b DEF RequestDelete, Touch, InvOf, TypeOK
  <2> QED BY <2>1, <2>2, <2>3
<1>8. ASSUME NEW mr \in MRs, Reapply(mr) PROVE Goal
  <2>1. LiveMinted' /\ (\A n \in MRs : Made(n)' = Made(n))
        /\ (\A x \in Ids \cup {NoId} : Minted(x)' <=> Minted(x))
    BY <1>8, <1>b, QuietUpstream DEF Reapply
  <2>2. \A n \in MRs \ {mr} : InvOf(n)'
    <3>1. now' = now /\ live' = live /\ \A n \in MRs \ {mr} : SameAt(n)
      BY <1>8 DEF Reapply, Touch, SameAt, TypeOK
    <3> QED BY <3>1, <2>1, <1>b, OthersKeep
  <2>3. InvOf(mr)'
    <3>2. Minted(NoId)
      BY DEF Minted
    <3> QED BY <1>8, <3>2, <2>1, <1>b DEF Reapply, InvOf, TypeOK
  <2> QED BY <2>1, <2>2, <2>3
<1>9. ASSUME NEW mr \in MRs, ClearPending(mr) PROVE Goal
  <2>1. LiveMinted' /\ (\A n \in MRs : Made(n)' = Made(n))
        /\ (\A x \in Ids \cup {NoId} : Minted(x)' <=> Minted(x))
    BY <1>9, <1>b, QuietUpstream DEF ClearPending
  <2>2. \A n \in MRs \ {mr} : InvOf(n)'
    <3>1. now' = now /\ live' = live /\ \A n \in MRs \ {mr} : SameAt(n)
      BY <1>9 DEF ClearPending, Touch, SameAt, TypeOK
    <3> QED BY <3>1, <2>1, <1>b, OthersKeep
  <2>3. InvOf(mr)'
    <3>1. pc[mr] = "idle" /\ succeeded[mr] < pending[mr]
      BY <1>9 DEF ClearPending, Wedged, ExternalCreateIncomplete, Latest, TypeOK
    <3>2. Minted(extName'[mr])
      BY <1>9, <1>b DEF ClearPending, Made, LiveMinted, InvOf, Minted, TypeOK
    <3> QED BY <1>9, <3>1, <3>2, <2>1, <1>b DEF ClearPending, Touch, InvOf, TypeOK
  <2> QED BY <2>1, <2>2, <2>3
<1>10. ASSUME NEW mr \in MRs, RestoreName(mr) PROVE Goal
  <2>1. LiveMinted' /\ (\A n \in MRs : Made(n)' = Made(n))
        /\ (\A x \in Ids \cup {NoId} : Minted(x)' <=> Minted(x))
    BY <1>10, <1>b, QuietUpstream DEF RestoreName
  <2>2. \A n \in MRs \ {mr} : InvOf(n)'
    <3>1. now' = now /\ live' = live /\ \A n \in MRs \ {mr} : SameAt(n)
      BY <1>10 DEF RestoreName, Touch, SameAt, TypeOK
    <3> QED BY <3>1, <2>1, <1>b, OthersKeep
  <2>3. InvOf(mr)'
    <3>1. pc[mr] \in {"idle", "delete"} /\ extName[mr] \notin live
      BY <1>10 DEF RestoreName, Parked
    <3>2. (\E i \in Made(mr) : i # upstreamID[mr]) => (\E i \in Made(mr) : i # extName[mr])
      BY <3>1 DEF Made
    <3> QED BY <1>10, <3>1, <3>2, <2>1, <1>b DEF RestoreName, Touch, InvOf, TypeOK
  <2> QED BY <2>1, <2>2, <2>3
<1>11. ASSUME NEW mr \in MRs, Stomp(mr) PROVE Goal
  <2>1. LiveMinted' /\ (\A n \in MRs : Made(n)' = Made(n))
        /\ (\A x \in Ids \cup {NoId} : Minted(x)' <=> Minted(x))
    BY <1>11, <1>b, QuietUpstream DEF Stomp
  <2>2. \A n \in MRs \ {mr} : InvOf(n)'
    <3>1. now' = now /\ live' = live /\ \A n \in MRs \ {mr} : SameAt(n)
      BY <1>11 DEF Stomp, Touch, SameAt, TypeOK
    <3> QED BY <3>1, <2>1, <1>b, OthersKeep
  <2>3. InvOf(mr)'
    <3>1. InDoubt(mr)' <=> InDoubt(mr)
      BY <1>11, InDoubtSame DEF Stomp
    <3>2. Minted(extName'[mr])
      BY <1>11, IdentityFacts DEF Stomp, Minted, TypeOK
    <3> QED BY <1>11, <3>1, <3>2, <2>1, <1>b DEF Stomp, Touch, InvOf, TypeOK
  <2> QED BY <2>1, <2>2, <2>3
<1>12. CASE Tick \/ UNCHANGED vars
  <2>1. /\ live' = live /\ ident' = ident /\ now' \in {now, now + 1}
        /\ \A n \in MRs : SameAt(n)
    BY <1>12 DEF Tick, vars, SameAt
  <2>2. LiveMinted' /\ (\A n \in MRs : Made(n)' = Made(n))
        /\ (\A x \in Ids \cup {NoId} : Minted(x)' <=> Minted(x))
    BY <2>1, <1>b, QuietUpstream
  <2> QED BY <2>1, <2>2, <1>b, OthersKeep
<1>13. CASE Crash
  <2>1. LiveMinted' /\ (\A n \in MRs : Made(n)' = Made(n))
        /\ (\A x \in Ids \cup {NoId} : Minted(x)' <=> Minted(x))
    BY <1>13, <1>b, QuietUpstream DEF Crash
  <2>2. \A n \in MRs : InvOf(n)'
    <3>1. \A n \in MRs : Minted(NoId)
      BY DEF Minted
    <3> QED BY <1>13, <3>1, <2>1, <1>b DEF Crash, InvOf, TypeOK
  <2> QED BY <2>1, <2>2
<1>14. CASE OutOfBandDelete
  <2>1. /\ live' \subseteq live /\ ident' = ident /\ now' = now
        /\ \A n \in MRs : SameAt(n)
    BY <1>14 DEF OutOfBandDelete, SameAt
  <2>2. LiveMinted' /\ (\A n \in MRs : Made(n)' \subseteq Made(n))
        /\ (\A x \in Ids \cup {NoId} : Minted(x)' <=> Minted(x))
    BY <2>1, <1>b, DeleteShrinks
  <2> QED BY <2>1, <2>2, <1>b, OthersKeep
<1> QED
  BY <1>1, <1>2, <1>3, <1>4, <1>5, <1>6, <1>7, <1>8, <1>9, <1>10, <1>11, <1>12, <1>13, <1>14
     DEF Next, Reconcile, Operator

\* Nothing has been created initially, so the invariant holds.
LEMMA IdentityInit ==
  ASSUME Init PROVE IdentityInv
  BY ConstantsAssumption DEF Init, IdentityInv, NamesMinted, LiveMinted, ClockAhead,
     AtMostOnePerIdentity, PostIsAlone, RecordIsSole, StrayIsDoubted, CreateLooks,
     ObservedIsGone, Made, Minted

\* The chain behind the next theorem, from the annotations of a create that is in
\* doubt to the lookup before the POST, survives every fault, and also a lookup that
\* finds more than the MR's own: an MR never posts while it has a resource, and one
\* that its annotation does not name leaves a mark that sends it to the lookup.
THEOREM IdentityKept ==
  ASSUME Kind \in AdoptOnDoubt \cup AdoptAlways, DistinctIdentities
  PROVE  Spec => []IdentityInv
<1>1. Init => IdentityInv
  BY IdentityInit
<1>2. TypeOK /\ TypeOK' /\ IdentityInv /\ [Next]_vars => IdentityInv'
  BY IdentityStep
<1> QED
  BY <1>1, <1>2, TypeCorrect, PTL DEF Spec

\* Create is idempotent for the kinds that look before they POST: with distinct
\* declared identities, no crash, lost answer, partial create, overwritten
\* annotation, out-of-band deletion or adoption of someone else's resource ever
\* gives an identity two live resources.
THEOREM NoDuplicates ==
  ASSUME Kind \in AdoptOnDoubt \cup AdoptAlways, DistinctIdentities
  PROVE  Spec => []AtMostOnePerIdentity
<1>1. IdentityInv => AtMostOnePerIdentity
  BY DEF IdentityInv
<1> QED
  BY <1>1, IdentityKept, PTL

(***************************************************************************)
(* Whose resource an MR names.  The lookups compare less than the declared *)
(* identity, so this needs declarations that they can tell apart.          *)
(***************************************************************************)
OwnNames == LiveMinted /\ NamesOwn

\* Separated declarations: whatever a lookup returns was made for the MR.
LEMMA FoundIsOwn ==
  ASSUME Separated, Kind \notin CreateBlindly, TypeOK, LiveMinted, NEW mr \in MRs,
         NEW found \in Lookups(mr), NEW i \in found
  PROVE  i \in live /\ Own(mr, i)
<1>1. i \in live /\ \E shown \in Reported(ident[i][1]) : Accepts(mr, shown)
  BY DEF Lookups
<1>2. PICK n \in MRs : ident[i] = <<Identity[n]>>
  BY <1>1 DEF LiveMinted, TypeOK, Identities
<1>3. ident[i][1] = Identity[n]
  BY <1>2
<1>4. n = mr
  BY <1>1, <1>3 DEF Separated
<1> QED BY <1>1, <1>2, <1>4 DEF Own, IdentityOf, TypeOK

\* What changes no identity but a fresh id's takes no id away from its owner.
LEMMA OwnStays ==
  ASSUME TypeOK, \A i \in Ids : ident[i] # NoIdentity => ident'[i] = ident[i],
         DistinctIdentities, NEW n \in MRs, NEW x, Own(n, x)
  PROVE  Own(n, x)'
  BY IdentityFacts DEF Own

\* One step: an MR takes over its own ids, a fresh one, or one its lookup found.
LEMMA NamesStep ==
  ASSUME Separated, TypeOK, TypeOK', OwnNames, [Next]_vars
  PROVE  OwnNames'
<1> USE ConstantsAssumption DEF annotations, upstream
<1>a. DistinctIdentities
  BY DEF Separated
<1>b. /\ LiveMinted
      /\ \A n \in MRs : Own(n, extName[n]) /\ Own(n, mem[n]) /\ Own(n, upstreamID[n])
      /\ \A n \in MRs : Own(n, NoId)
  BY DEF OwnNames, NamesOwn, Own
<1> DEFINE Held(n) == {NoId, extName[n], mem[n], upstreamID[n]}
           Keeps(n) == /\ extName'[n] \in Held(n) /\ mem'[n] \in Held(n)
                       /\ upstreamID'[n] \in Held(n)
<1>c. ASSUME ident' = ident, live' \subseteq live,
             \A n \in MRs : /\ Own(n, extName'[n]) /\ Own(n, mem'[n])
                             /\ Own(n, upstreamID'[n])
      PROVE  OwnNames'
  BY <1>c, <1>b DEF OwnNames, NamesOwn, LiveMinted, Own
<1>d. ASSUME ident' = ident, live' \subseteq live, \A n \in MRs : Keeps(n) PROVE OwnNames'
  BY <1>b, <1>c, <1>d
<1>1. ASSUME NEW mr \in MRs, Observe(mr) PROVE OwnNames'
  <2>1. /\ ident' = ident /\ live' = live /\ extName' = extName
        /\ mem' = [mem EXCEPT ![mr] = IF pc'[mr] = "idle" THEN NoId ELSE extName[mr]]
        /\ upstreamID' \in {upstreamID, [upstreamID EXCEPT ![mr] = extName[mr]]}
    BY <1>1, Zenon DEF Observe
  <2>2. \A n \in MRs : Keeps(n)
    BY <2>1 DEF TypeOK
  <2> QED BY <2>1, <2>2, <1>d
<1>2. ASSUME NEW mr \in MRs,
             \/ SetExternalCreatePending(mr) \/ Reject(mr) \/ RecordResult(mr) \/ Delete(mr)
             \/ RequestDelete(mr) \/ Reapply(mr) \/ RestoreName(mr)
      PROVE  OwnNames'
  <2>1. ident' = ident /\ live' \subseteq live
    BY <1>2 DEF SetExternalCreatePending, Reject, RecordResult, Delete, RequestDelete, Reapply,
       RestoreName
  <2>2. \A n \in MRs : Keeps(n)
    BY <1>2 DEF SetExternalCreatePending, Reject, CreateRejected, Goto, RecordResult, Delete,
       EndReconcile, RequestDelete, Reapply, RestoreName, TypeOK
  <2> QED BY <2>1, <2>2, <1>d
<1>3. ASSUME NEW mr \in MRs, Create(mr) PROVE OwnNames'
  <2>1. /\ ident' = ident /\ live' = live /\ extName' = extName /\ upstreamID' = upstreamID
    BY <1>3 DEF Create
  <2>2. \/ mem' = mem
        \/ /\ Kind \notin CreateBlindly
           /\ \E found \in Lookups(mr) : \E i \in found : mem' = [mem EXCEPT ![mr] = i]
    BY <1>3 DEF Create, CreateInDoubt, CreateAfterLookup, CreateWithoutLookup, Goto, Adopt,
       AdoptAlways, AdoptOnDoubt, CreateBlindly
  <2>3. \A n \in MRs : Own(n, mem'[n])
    <3>1. CASE mem' = mem
      BY <3>1, <1>b
    <3>2. ASSUME Kind \notin CreateBlindly, NEW found \in Lookups(mr), NEW i \in found,
                 mem' = [mem EXCEPT ![mr] = i]
          PROVE  \A n \in MRs : Own(n, mem'[n])
      <4>1. Own(mr, i)
        BY <3>2, <1>b, FoundIsOwn
      <4>2. \A n \in MRs : mem'[n] = IF n = mr THEN i ELSE mem[n]
        BY <3>2 DEF TypeOK
      <4> QED BY <4>1, <4>2, <1>b
    <3> QED BY <2>2, <3>1, <3>2
  <2> QED BY <2>1, <2>3, <1>b, <1>c
<1>4. ASSUME NEW mr \in MRs, PostSucceeds(mr) \/ PostFails(mr) PROVE OwnNames'
  <2>1. /\ extName' = extName /\ upstreamID' = upstreamID
        /\ \/ live' = live /\ ident' = ident /\ mem' = mem
           \/ \E i \in Ids : Mint(mr, i) /\ mem' \in {mem, [mem EXCEPT ![mr] = i]}
    BY <1>4 DEF PostSucceeds, PostFails, CreatedPartly, Adopt
  <2>2. CASE live' = live /\ ident' = ident /\ mem' = mem
    BY <2>1, <2>2, <1>b, <1>c
  <2>3. ASSUME NEW i \in Ids, Mint(mr, i), mem' \in {mem, [mem EXCEPT ![mr] = i]}
        PROVE  OwnNames'
    <3>1. /\ LiveMinted' /\ Own(mr, i)'
          /\ \A x \in Ids : ident[x] # NoIdentity => ident'[x] = ident[x]
      BY <2>3, <1>a, <1>b, IdentityFacts DEF Mint, Fresh, LiveMinted, Own, TypeOK
    <3>2. \A n \in MRs : \A x : Own(n, x) => Own(n, x)'
      BY <3>1, <1>a, OwnStays
    <3>3. \A n \in MRs : mem'[n] = mem[n] \/ (n = mr /\ mem'[n] = i)
      BY <2>3 DEF TypeOK
    <3>4. \A n \in MRs : Own(n, extName[n])' /\ Own(n, upstreamID[n])' /\ Own(n, mem[n])'
      <4> SUFFICES ASSUME NEW n \in MRs
                   PROVE  Own(n, extName[n])' /\ Own(n, upstreamID[n])' /\ Own(n, mem[n])'
        OBVIOUS
      <4>1. Own(n, extName[n]) /\ Own(n, upstreamID[n]) /\ Own(n, mem[n])
        BY <1>b
      <4> QED BY <4>1, <3>1, <3>2, <3>3, <2>1 DEF Own
    <3> QED BY <3>1, <3>4 DEF OwnNames, NamesOwn
  <2> QED BY <2>1, <2>2, <2>3
<1>5. ASSUME NEW mr \in MRs, ClearPending(mr) \/ Stomp(mr) PROVE OwnNames'
  <2>1. /\ ident' = ident /\ live' = live /\ mem' = mem /\ upstreamID' = upstreamID
        /\ \E x : /\ x \in {NoId, extName[mr]} \/ (x \in Ids /\ ident[x] = IdentityOf(mr))
                 /\ extName' = [extName EXCEPT ![mr] = x]
    BY <1>5 DEF ClearPending, Stomp, Made, TypeOK
  <2>2. PICK x : /\ x \in {NoId, extName[mr]} \/ (x \in Ids /\ ident[x] = IdentityOf(mr))
                 /\ extName' = [extName EXCEPT ![mr] = x]
    BY <2>1
  <2>3. Own(mr, x)
    BY <2>2, <1>b DEF Own
  <2>4. \A n \in MRs : extName'[n] = IF n = mr THEN x ELSE extName[n]
    BY <2>2 DEF TypeOK
  <2>5. \A n \in MRs : Own(n, extName'[n])
    BY <2>3, <2>4, <1>b
  <2> QED BY <2>1, <2>5, <1>b, <1>c
<1>6. CASE Tick \/ Crash \/ OutOfBandDelete \/ UNCHANGED vars
  <2>1. ident' = ident /\ live' \subseteq live /\ \A n \in MRs : Keeps(n)
    BY <1>6 DEF Tick, Crash, OutOfBandDelete, vars
  <2> QED BY <2>1, <1>d
<1> QED
  BY <1>1, <1>2, <1>3, <1>4, <1>5, <1>6 DEF Next, Reconcile, Operator

\* For every kind and under every fault: where the lookups can tell the declarations
\* apart, whatever an MR names was made for it, so that no resource is ever managed
\* through two MRs.
THEOREM NoSharedResource ==
  ASSUME Separated
  PROVE  Spec => [](NamesOwn /\ SoleOwner)
<1>1. Init => OwnNames
  BY DEF Init, OwnNames, LiveMinted, NamesOwn, Own
<1>2. TypeOK /\ TypeOK' /\ OwnNames /\ [Next]_vars => OwnNames'
  BY NamesStep
<1>3. TypeOK /\ OwnNames => NamesOwn /\ SoleOwner
  <2> SUFFICES ASSUME TypeOK, OwnNames, NEW m \in MRs, NEW n \in MRs, m # n,
                      extName[m] = extName[n], extName[m] \in live
               PROVE  FALSE
    BY DEF SoleOwner, OwnNames
  <2>1. ident[extName[m]] = IdentityOf(m) /\ ident[extName[m]] = IdentityOf(n)
    BY ConstantsAssumption DEF OwnNames, NamesOwn, Own, TypeOK
  <2> QED BY <2>1, IdentityFacts DEF Separated
<1> QED
  BY <1>1, <1>2, <1>3, TypeCorrect, PTL DEF Spec

(***************************************************************************)
(* Where no answer is lost, no process dies and no annotation is           *)
(* overwritten, every kind but the nodepool knows what it has created,     *)
(* whether it looks before it POSTs or not: resources may still vanish     *)
(* upstream, a Create may fail half-way, requests may flap, and deletion   *)
(* may be requested at any moment of a create.                             *)
(***************************************************************************)
NothingLost ==
  /\ Kind # "KubernetesClusterNodepool"
  /\ Faults \cap {"crash", "lostAnswer", "stomp"} = {}

\* What MR n has upstream is what its annotation names, or what the reconcile that has
\* just created it is about to record; an object that is gone has left nothing.
TrackedOf(n) ==
  /\ Minted(extName[n]) /\ Minted(mem[n])
  /\ pc[n] \in {"idle", "observed", "delete"} => Made(n) \subseteq {extName[n]}
  /\ pc[n] \in {"create", "post"} => Made(n) = {}
  /\ pc[n] \in {"record", "fail"} => Made(n) \subseteq {mem[n]}
  /\ pc[n] = "observed" /\ ~dirty[n] => extName[n] \notin live
  /\ obj[n] = "removed" => pc[n] = "idle" /\ Made(n) = {}

TrackedInv == LiveMinted /\ \A n \in MRs : TrackedOf(n)

\* For these kinds whatever Observe reports missing is gone.
LEMMA MissingIsGoneAnyway ==
  ASSUME TypeOK, Kind # "KubernetesClusterNodepool", NEW mr \in MRs,
         NEW resp \in AnswersTo(extName[mr] \in live), Observation(mr, resp) = "missing"
  PROVE  extName[mr] \notin live
<1>1. CASE extName[mr] = NoId
  BY <1>1, ConstantsAssumption DEF TypeOK
<1>2. CASE extName[mr] # NoId
  <2>1. ~ParentUnknown(mr)
    BY DEF ParentUnknown
  <2>2. Classify(resp) = "ErrNotFound"
    BY <1>2, <2>1 DEF Observation, Missing
  <2>3. SUFFICES ASSUME extName[mr] \in live PROVE FALSE
    OBVIOUS
  <2>4. resp \in AnswersTo(TRUE)
    BY <2>3
  <2> QED BY <2>2, <2>4, LiveNeverNotFound
<1> QED BY <1>1, <1>2

\* An MR a step leaves alone keeps its part.
LEMMA OthersTracked ==
  ASSUME TypeOK, NEW n \in MRs, TrackedOf(n), SameAt(n), obj'[n] = obj[n],
         Made(n)' \subseteq Made(n),
         extName[n] \in live' => extName[n] \in live,
         \A x \in Ids \cup {NoId} : Minted(x) => Minted(x)'
  PROVE  TrackedOf(n)'
<1>1. Minted(extName[n])' /\ Minted(mem[n])'
  <2>1. /\ Minted(extName[n]) /\ Minted(mem[n])
        /\ extName[n] \in Ids \cup {NoId} /\ mem[n] \in Ids \cup {NoId}
    BY DEF TrackedOf, TypeOK
  <2> QED BY <2>1 DEF SameAt, Minted
<1> QED BY <1>1 DEF TrackedOf, SameAt

\* One step keeps track of every resource.
LEMMA TrackedStep ==
  ASSUME NothingLost, DistinctIdentities, TypeOK, TypeOK', TrackedInv, [Next]_vars
  PROVE  TrackedInv'
<1> USE ConstantsAssumption DEF annotations, upstream
<1>b. LiveMinted /\ \A n \in MRs : TrackedOf(n)
  BY DEF TrackedInv
<1> DEFINE Goal == LiveMinted' /\ \A n \in MRs : TrackedOf(n)'
<1> SUFFICES Goal
  BY DEF TrackedInv
<1>1. ASSUME NEW mr \in MRs, Observe(mr) PROVE Goal
  <2>1. PICK resp \in AnswersTo(extName[mr] \in live) :
          /\ pc' = [pc EXCEPT ![mr] =
                      CASE obj[mr] = "deleting" /\ Observation(mr, resp) # "missing" -> "delete"
                        [] obj[mr] = "present" /\ Observation(mr, resp) = "missing"  -> "observed"
                        [] OTHER                                                     -> "idle"]
          /\ obj' = IF obj[mr] = "deleting" /\ Observation(mr, resp) = "missing"
                      THEN [obj EXCEPT ![mr] = "removed"] ELSE obj
    BY <1>1 DEF Observe
  <2>2. /\ extName' = extName /\ live' = live /\ ident' = ident /\ dirty' = dirty
        /\ pc[mr] = "idle" /\ obj[mr] # "removed"
        /\ mem' = [mem EXCEPT ![mr] = IF pc'[mr] = "idle" THEN NoId ELSE extName[mr]]
    BY <1>1 DEF Observe
  <2>3. LiveMinted' /\ (\A n \in MRs : Made(n)' = Made(n))
        /\ (\A x \in Ids \cup {NoId} : Minted(x)' <=> Minted(x))
    BY <2>2, <1>b, QuietUpstream
  <2>4. \A n \in MRs \ {mr} : TrackedOf(n)'
    <3>1. \A n \in MRs \ {mr} : SameAt(n) /\ obj'[n] = obj[n]
      BY <1>1, <2>1, <2>2 DEF Observe, SameAt, TypeOK
    <3> QED BY <2>2, <2>3, <3>1, <1>b, OthersTracked
  <2>5. Observation(mr, resp) = "missing" => Made(mr) = {} /\ extName[mr] \notin live
    <3>1. Observation(mr, resp) = "missing" => extName[mr] \notin live
      BY MissingIsGoneAnyway DEF NothingLost
    <3>2. Made(mr) \subseteq {extName[mr]} /\ Made(mr) \subseteq live
      BY <2>2, <1>b DEF TrackedOf, Made
    <3> QED BY <3>1, <3>2
  <2>6. /\ pc'[mr] \in {"idle", "observed", "delete"}
        /\ pc'[mr] = "observed" => extName[mr] \notin live
        /\ obj'[mr] = "removed" => pc'[mr] = "idle" /\ Made(mr) = {}
    <3>1. CASE obj[mr] = "deleting" /\ Observation(mr, resp) # "missing"
      BY <3>1, <2>1 DEF TypeOK
    <3>2. CASE obj[mr] = "present" /\ Observation(mr, resp) = "missing"
      BY <3>2, <2>1, <2>5 DEF TypeOK
    <3>3. CASE obj[mr] = "deleting" /\ Observation(mr, resp) = "missing"
      BY <3>3, <2>1, <2>5 DEF TypeOK
    <3>4. CASE obj[mr] = "present" /\ Observation(mr, resp) # "missing"
      BY <3>4, <2>1 DEF TypeOK
    <3> QED BY <3>1, <3>2, <3>3, <3>4, <2>2 DEF TypeOK
  <2>7. Minted(extName'[mr]) /\ Minted(mem'[mr])
    BY <2>2, <1>b DEF TrackedOf, Minted, TypeOK
  <2>8. TrackedOf(mr)'
    BY <2>2, <2>3, <2>6, <2>7, <1>b DEF TrackedOf, TypeOK
  <2> QED BY <2>3, <2>4, <2>8
<1>2. ASSUME NEW mr \in MRs,
             \/ SetExternalCreatePending(mr) \/ Create(mr) \/ Reject(mr) \/ RecordResult(mr)
             \/ RequestDelete(mr) \/ Reapply(mr) \/ ClearPending(mr)
      PROVE  Goal
  <2>1. live' = live /\ ident' = ident
    BY <1>2 DEF SetExternalCreatePending, Create, Reject, RecordResult, RequestDelete, Reapply,
       ClearPending
  <2>2. LiveMinted' /\ (\A n \in MRs : Made(n)' = Made(n))
        /\ (\A x \in Ids \cup {NoId} : Minted(x)' <=> Minted(x))
    BY <2>1, <1>b, QuietUpstream
  <2>3. \A n \in MRs \ {mr} : SameAt(n) /\ obj'[n] = obj[n]
    <3>1. CASE SetExternalCreatePending(mr) \/ RecordResult(mr)
      BY <3>1 DEF SetExternalCreatePending, RecordResult, EndReconcile, SameAt, TypeOK
    <3>2. CASE Create(mr) \/ Reject(mr)
      BY <3>2 DEF Create, CreateInDoubt, CreateAfterLookup, CreateWithoutLookup, Reject, CreateRejected,
         Goto, Adopt, SameAt, TypeOK
    <3>3. CASE RequestDelete(mr) \/ Reapply(mr) \/ ClearPending(mr)
      BY <3>3 DEF RequestDelete, Reapply, ClearPending, Touch, SameAt, TypeOK
    <3> QED BY <1>2, <3>1, <3>2, <3>3
  <2>4. \A n \in MRs \ {mr} : TrackedOf(n)'
    BY <2>1, <2>2, <2>3, <1>b, OthersTracked
  <2>5. Minted(NoId) /\ Made(mr) \subseteq live
    BY DEF Minted, Made
  <2>6. TrackedOf(mr)'
    <3>1. CASE SetExternalCreatePending(mr)
      <4>1. /\ pc[mr] = "observed" /\ obj' = obj /\ extName' = extName
            /\ \/ dirty[mr] /\ pc'[mr] = "idle" /\ mem'[mr] = NoId
               \/ ~dirty[mr] /\ pc'[mr] = "create" /\ mem'[mr] = mem[mr]
        BY <3>1 DEF SetExternalCreatePending, EndReconcile, TypeOK
      <4>2. ~dirty[mr] => Made(mr) = {}
        BY <4>1, <2>5, <1>b DEF TrackedOf
      <4>3. Minted(extName[mr])' /\ Minted(mem[mr])'
        BY <4>1, <2>1, <2>5, <1>b DEF TrackedOf, Minted
      <4> QED BY <4>1, <4>2, <4>3, <2>2, <1>b DEF TrackedOf
    <3>2. CASE Create(mr) \/ Reject(mr)
      <4>1. pc[mr] = "create" /\ Made(mr) = {} /\ obj[mr] # "removed"
        BY <3>2, <1>b DEF Create, Reject, TrackedOf
      <4>2. /\ extName' = extName /\ obj' = obj
            /\ \/ /\ mem' = mem
                  /\ pc' \in {[pc EXCEPT ![mr] = "post"], [pc EXCEPT ![mr] = "fail"]}
               \/ \E i \in live : /\ mem' = [mem EXCEPT ![mr] = i]
                                  /\ pc' = [pc EXCEPT ![mr] = "record"]
        BY <3>2, OwnFound DEF Create, CreateInDoubt, CreateAfterLookup, CreateWithoutLookup,
           Reject, CreateRejected, Goto, Adopt
      <4>3. /\ pc'[mr] \in {"post", "fail", "record"}
            /\ mem'[mr] = mem[mr] \/ mem'[mr] \in live
        BY <4>2 DEF TypeOK
      <4>4. Minted(extName[mr])' /\ Minted(mem[mr])'
        BY <4>2, <4>3, <2>1, <1>b DEF TrackedOf, Minted, LiveMinted, TypeOK
      <4> QED BY <4>1, <4>2, <4>3, <4>4, <2>2, <1>b DEF TrackedOf
    <3>3. CASE RecordResult(mr)
      <4>1. /\ pc[mr] \in {"record", "fail"} /\ pc'[mr] = "idle" /\ obj' = obj
            /\ extName'[mr] = mem[mr] /\ mem'[mr] = NoId
        BY <3>3 DEF RecordResult, EndReconcile, TypeOK
      <4>2. /\ Minted(extName'[mr]) /\ Minted(mem'[mr])
            /\ Made(mr) \subseteq {extName'[mr]} /\ obj[mr] # "removed"
        BY <4>1, <2>5, <1>b DEF TrackedOf
      <4>3. Minted(extName[mr])' /\ Minted(mem[mr])'
        BY <4>2, <2>1 DEF Minted
      <4> QED BY <4>1, <4>2, <4>3, <2>2 DEF TrackedOf
    <3>4. CASE RequestDelete(mr)
      BY <3>4, <2>1, <2>2, <1>b DEF RequestDelete, Touch, TrackedOf, TypeOK
    <3>5. CASE Reapply(mr)
      BY <3>5, <2>1, <2>2, <2>5, <1>b DEF Reapply, TrackedOf, TypeOK
    <3>6. CASE ClearPending(mr)
      <4>1. pc[mr] = "idle" /\ pc' = pc /\ mem' = mem /\ obj' = obj
        BY <3>6 DEF ClearPending, Wedged
      <4>2. extName'[mr] = extName[mr]
        BY <3>6, <4>1, <1>b DEF ClearPending, TrackedOf, TypeOK
      <4>3. Minted(extName[mr])' /\ Minted(mem[mr])'
        BY <4>1, <4>2, <2>1, <1>b DEF TrackedOf, Minted
      <4> QED BY <4>1, <4>2, <4>3, <2>2, <1>b DEF TrackedOf
    <3> QED BY <1>2, <3>1, <3>2, <3>3, <3>4, <3>5, <3>6
  <2> QED BY <2>2, <2>4, <2>6
<1>3. ASSUME NEW mr \in MRs, PostSucceeds(mr) \/ PostFails(mr) PROVE Goal
  <2>1. /\ pc[mr] = "post" /\ extName' = extName /\ dirty' = dirty /\ obj' = obj
        /\ pending' = pending /\ succeeded' = succeeded /\ failed' = failed /\ upstreamID' = upstreamID
    BY <1>3 DEF PostSucceeds, PostFails
  <2>2. Made(mr) = {} /\ obj[mr] # "removed"
    BY <2>1, <1>b DEF TrackedOf
  <2>3. "lostAnswer" \notin Faults
    BY DEF NothingLost
  <2>4. \/ live' = live /\ ident' = ident /\ mem' = mem /\ pc' = [pc EXCEPT ![mr] = "fail"]
        \/ \E i \in Ids : /\ Mint(mr, i) /\ mem' = [mem EXCEPT ![mr] = i]
                          /\ pc' \in {[pc EXCEPT ![mr] = "fail"], [pc EXCEPT ![mr] = "record"]}
    BY <1>3, <2>3 DEF PostSucceeds, PostFails, CreatedPartly, Adopt
  <2>5. CASE live' = live /\ ident' = ident /\ mem' = mem /\ pc' = [pc EXCEPT ![mr] = "fail"]
    <3>1. LiveMinted' /\ (\A n \in MRs : Made(n)' = Made(n))
          /\ (\A x \in Ids \cup {NoId} : Minted(x)' <=> Minted(x))
      BY <2>5, <1>b, QuietUpstream
    <3>2. \A n \in MRs \ {mr} : TrackedOf(n)'
      BY <2>1, <2>5, <3>1, <1>b, OthersTracked DEF SameAt, TypeOK
    <3>3. TrackedOf(mr)'
      BY <2>1, <2>2, <2>5, <3>1, <1>b DEF TrackedOf, TypeOK
    <3> QED BY <3>1, <3>2, <3>3
  <2>6. ASSUME NEW i \in Ids, Mint(mr, i), mem' = [mem EXCEPT ![mr] = i],
               pc' \in {[pc EXCEPT ![mr] = "fail"], [pc EXCEPT ![mr] = "record"]}
        PROVE  Goal
    <3>1. /\ LiveMinted' /\ live' = live \cup {i}
          /\ Made(mr)' = Made(mr) \cup {i}
          /\ \A n \in MRs \ {mr} : Made(n)' = Made(n)
          /\ \A x \in Ids \cup {NoId} : Minted(x) => Minted(x)'
          /\ \A x \in Ids \cup {NoId} : Minted(x) => x # i
          /\ Minted(i)'
      BY <2>6, <1>b, MintAddsOne DEF Mint
    <3>2. \A n \in MRs \ {mr} : TrackedOf(n)'
      <4> SUFFICES ASSUME NEW n \in MRs \ {mr} PROVE TrackedOf(n)'
        OBVIOUS
      <4>1. extName[n] # i /\ SameAt(n) /\ obj'[n] = obj[n]
        BY <2>1, <2>6, <3>1, <1>b DEF SameAt, TrackedOf, TypeOK
      <4> QED BY <4>1, <3>1, <1>b, OthersTracked
    <3>3. Minted(extName[mr])' /\ Minted(mem[mr])'
      <4>1. Minted(extName[mr]) /\ extName[mr] \in Ids \cup {NoId} /\ mem'[mr] = i
        BY <2>6, <1>b DEF TrackedOf, TypeOK
      <4> QED BY <4>1, <3>1, <2>1 DEF Minted
    <3>4. pc'[mr] \in {"record", "fail"} /\ mem'[mr] = i
      BY <2>6 DEF TypeOK
    <3>5. TrackedOf(mr)'
      BY <2>1, <2>2, <3>1, <3>3, <3>4 DEF TrackedOf
    <3> QED BY <3>1, <3>2, <3>5
  <2> QED BY <2>4, <2>5, <2>6
<1>4. ASSUME NEW mr \in MRs, Delete(mr) PROVE Goal
  <2>1. LiveMinted' /\ (\A n \in MRs : Made(n)' \subseteq Made(n))
        /\ (\A x \in Ids \cup {NoId} : Minted(x)' <=> Minted(x))
    BY <1>4, <1>b, DeleteShrinks DEF Delete
  <2>2. \A n \in MRs \ {mr} : TrackedOf(n)'
    BY <1>4, <2>1, <1>b, OthersTracked DEF Delete, EndReconcile, SameAt, TypeOK
  <2>3. TrackedOf(mr)'
    <3>1. Minted(NoId)
      BY DEF Minted
    <3> QED BY <1>4, <3>1, <2>1, <1>b DEF Delete, EndReconcile, TrackedOf, TypeOK
  <2> QED BY <2>1, <2>2, <2>3
<1>5. CASE OutOfBandDelete
  <2>1. /\ live' \subseteq live /\ ident' = ident /\ obj' = obj
        /\ \A n \in MRs : SameAt(n)
    BY <1>5 DEF OutOfBandDelete, SameAt
  <2>2. LiveMinted' /\ (\A n \in MRs : Made(n)' \subseteq Made(n))
        /\ (\A x \in Ids \cup {NoId} : Minted(x)' <=> Minted(x))
    BY <2>1, <1>b, DeleteShrinks
  <2> QED BY <2>1, <2>2, <1>b, OthersTracked
<1>6. CASE Tick \/ UNCHANGED vars
  <2>1. live' = live /\ ident' = ident /\ obj' = obj /\ \A n \in MRs : SameAt(n)
    BY <1>6 DEF Tick, vars, SameAt
  <2>2. LiveMinted' /\ (\A n \in MRs : Made(n)' = Made(n))
        /\ (\A x \in Ids \cup {NoId} : Minted(x)' <=> Minted(x))
    BY <2>1, <1>b, QuietUpstream
  <2> QED BY <2>1, <2>2, <1>b, OthersTracked
<1>7. /\ ~Crash
      /\ \A mr \in MRs : ~Stomp(mr) /\ ~RestoreName(mr)
  BY DEF NothingLost, Crash, Stomp, RestoreName, Parked, StompDefense
<1> QED
  BY <1>1, <1>2, <1>3, <1>4, <1>5, <1>6, <1>7 DEF Next, Reconcile, Operator

\* Every resource is accounted for, whether the kind looks before it POSTs or not.
LEMMA EverythingTracked ==
  ASSUME NothingLost, DistinctIdentities
  PROVE  Spec => []TrackedInv
<1>1. Init => TrackedInv
  BY ConstantsAssumption DEF Init, TrackedInv, TrackedOf, LiveMinted, Made, Minted
<1>2. TypeOK /\ TypeOK' /\ TrackedInv /\ [Next]_vars => TrackedInv'
  BY TrackedStep
<1> QED BY <1>1, <1>2, TypeCorrect, PTL DEF Spec

\* Delete removes what Create made: where nothing is lost, the finalizer of an MR of any
\* kind but the nodepool goes only when nothing of it is left upstream, although deletion
\* may be requested in the middle of a create and a DELETE may be refused
\* (DeletionLeavesNothing, which nodepools break without any fault).
THEOREM NothingLeftBehind ==
  ASSUME NothingLost, DistinctIdentities
  PROVE  Spec => []DeletionLeavesNothing
<1>1. TrackedInv => DeletionLeavesNothing
  BY DEF TrackedInv, TrackedOf, DeletionLeavesNothing
<1> QED BY <1>1, EverythingTracked, PTL

\* Where nothing is lost, the kinds that never look (Server, Network, S3Bucket and the
\* others) do not need to: no identity ever has two live resources
\* (AtMostOnePerIdentity).
THEOREM BlindCreateIsSafe ==
  ASSUME NothingLost, DistinctIdentities
  PROVE  Spec => []AtMostOnePerIdentity
<1>1. TypeOK /\ TrackedInv => AtMostOnePerIdentity
  BY DEF TrackedInv, TrackedOf, AtMostOnePerIdentity, TypeOK, PCs
<1> QED BY <1>1, EverythingTracked, TypeCorrect, PTL
=============================================================================
