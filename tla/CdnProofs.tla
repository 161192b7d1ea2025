------------------------------ MODULE CdnProofs ------------------------------
(***************************************************************************)
(* Type correctness of a Cdn's reconcile, its budget at Let's Encrypt,     *)
(* whose certificates it deletes and which ones it makes the resource      *)
(* serve.                                                                  *)
(***************************************************************************)
EXTENDS Cdn, TLAPS, WellFoundedInduction

\* What is asked of Let's Encrypt is charged to the status in memory, and what is
\* stored lacks only charges whose write was lost.
Charged ==
  /\ issued <= st.attempts + lost
  /\ pc # "idle" => issued <= mem.attempts + lost

\* Update looks at the budget that Observe has restarted if it had to.
KeyIsCurrent ==
  pc = "update" /\ sp.mode = "letsEncrypt" => mem.key = sslBudgetKey(sp, None)

\* What Update has decided on: a request within the budget, sections that are owned.
Decided ==
  /\ pc \notin {"patch", "act"} => act = NoAction
  /\ act.kind = "issue" => mem.attempts < MaxIssueAttempts
  /\ \A x \in act.sections : sp.conf[x] # None

BudgetInv == TypeOK /\ Charged /\ KeyIsCurrent /\ Decided

\* The ids of certificates are numbers: First finds the least.
LEMMA FirstIn ==
  ASSUME NEW ids, ids \subseteq CertIds, ids # {}
  PROVE  First(ids) \in ids
<1>1. ids \subseteq Nat
  BY CdnAssumption
<1>2. PICK c \in ids : \A d \in ids : ~(<<d, c>> \in OpToRel(<, Nat))
  BY <1>1, NatLessThanWellFounded, WFMin, Zenon
<1>3. \A d \in ids : ~(d < c)
  BY <1>1, <1>2 DEF OpToRel
<1>4. \A d \in ids : c <= d
  BY <1>1, <1>3
<1> QED BY <1>4 DEF First

(***************************************************************************)
(* computeSSL keeps the count of attempts, and asks within the budget.     *)
(***************************************************************************)
States == {"", "pending", "issuing", "bound", "failed", "exhausted"}
Kinds  == {"none", "issue", "upload", "bind", "unbind", "deleteOld"}

Sound(out, m) ==
  /\ out.st \in sslStatus /\ out.st.attempts = m.attempts
  /\ out.action.kind \in Kinds /\ out.action.target \in CertIds \cup {None}
  /\ out.action.kind = "issue" => m.attempts < MaxIssueAttempts

LEMMA Bounds ==
  MaxIssueAttempts \in Nat /\ MaxFaults \in Nat /\ MaxEdits \in Nat /\ MaxMoves \in Nat
  BY CdnAssumption

LEMMA Fields ==
  ASSUME NEW m \in sslStatus
  PROVE  /\ m.marker \in Markers \cup {None} /\ m.key \in Keys \cup {None}
         /\ m.attempts \in Nat /\ m.attempts <= MaxIssueAttempts
<1>1. /\ m.marker \in Markers \cup {None} /\ m.key \in Keys \cup {None}
      /\ m.attempts \in 0..MaxIssueAttempts
  BY DEF sslStatus
<1> QED BY <1>1, Bounds

LEMMA OutcomeSound ==
  ASSUME NEW m \in sslStatus, NEW state \in States, NEW marker \in Markers \cup {None},
         NEW kind \in Kinds, NEW target \in CertIds \cup {None},
         kind = "issue" => m.attempts < MaxIssueAttempts
  PROVE  Sound(Outcome(m, state, marker, kind, target), m)
<1>1. [m EXCEPT !.state = state, !.marker = marker] \in sslStatus
  BY DEF sslStatus, States
<1>2. [m EXCEPT !.state = state, !.marker = marker].attempts = m.attempts
  BY DEF sslStatus
<1> QED BY <1>1, <1>2 DEF Outcome, Sound

\* The marker of a certificate that exists.
LEMMA MarkerType ==
  ASSUME TypeOK, NEW c \in Live
  PROVE  markerFor(c) \in Markers
<1>1. certs[c] \in Certificate
  BY DEF TypeOK, Live
<1> QED BY <1>1 DEF markerFor, Markers, Certificate, Live

LEMMA CustomSound ==
  ASSUME TypeOK, NEW m \in sslStatus, NEW ident, NEW bound, NEW fresh \in BOOLEAN
  PROVE  Sound(customSSL(m, ident, bound, fresh), m)
<1> DEFINE matches == {c \in certificatesForMode("custom") : certs[c].ident = ident}
           match == First(matches)
<1>a. m.marker \in Markers \cup {None}
  BY DEF sslStatus
<1>1. CASE matches = {}
  <2>1. Sound(uploadStep(m, fresh), m)
    BY <1>a, OutcomeSound DEF uploadStep, States, Kinds
  <2> QED BY <1>1, <2>1 DEF customSSL
<1>2. CASE matches # {} /\ bound # match
  <2>1. match \in CertIds
    BY <1>2, FirstIn DEF certificatesForMode, Live
  <2>2. Sound(Outcome(m, "pending", m.marker, "bind", match), m)
    BY <1>a, <2>1, OutcomeSound DEF States, Kinds
  <2> QED BY <1>2, <2>2 DEF customSSL
<1>3. CASE matches # {} /\ bound = match
  <2>1. match \in Live
    BY <1>3, FirstIn DEF certificatesForMode, Live
  <2> DEFINE marker == IF m.marker = None THEN markerFor(match) ELSE m.marker
             old    == {c \in Live : marker.id # match /\ managedMatches(marker, c)}
             now    == IF marker.id # match /\ old = {} THEN markerFor(match) ELSE marker
             copies == {c \in Live : c # match /\ certs[c].ident = ident}
  <2>2. now \in Markers \cup {None}
    BY <1>a, <2>1, MarkerType
  <2>3. old # {} => First(old) \in CertIds
    BY FirstIn DEF Live
  <2>4. copies # {} => First(copies) \in CertIds
    BY FirstIn DEF Live
  <2> HIDE DEF now, old, copies
  <2>5. old # {} => Sound(Outcome(m, "bound", now, "deleteOld", First(old)), m)
    BY <2>2, <2>3, OutcomeSound DEF States, Kinds
  <2>6. copies # {} => Sound(Outcome(m, "bound", now, "deleteOld", First(copies)), m)
    BY <2>2, <2>4, OutcomeSound DEF States, Kinds
  <2>7. Sound(Outcome(m, "bound", now, "none", None), m)
    BY <2>2, OutcomeSound DEF States, Kinds
  <2>8. Sound(boundStep(m, ident, match), m)
    BY <2>5, <2>6, <2>7 DEF boundStep, now, old, copies
  <2> QED BY <1>3, <2>8 DEF customSSL
<1> QED BY <1>1, <1>2, <1>3

LEMMA LetsEncryptSound ==
  ASSUME TypeOK, NEW m \in sslStatus, NEW bound, NEW attached \in BOOLEAN
  PROVE  Sound(letsEncryptSSL(m, bound, attached), m)
<1> DEFINE le == certificatesForMode("letsEncrypt")
<1>a. m.marker \in Markers \cup {None} /\ m.attempts \in Nat
  BY Fields
<1>1. CASE le = {}
  <2>1. \A state \in States : Sound(Outcome(m, state, m.marker, "none", None), m)
    BY <1>a, OutcomeSound DEF Kinds
  <2>2. m.attempts < MaxIssueAttempts => Sound(Outcome(m, "pending", m.marker, "issue", None), m)
    BY <1>a, OutcomeSound DEF Kinds, States
  <2>3. m.attempts < MaxIssueAttempts \/ m.attempts >= MaxIssueAttempts
    BY <1>a, Bounds
  <2>4. Sound(issueStep(m, attached), m)
    BY <2>1, <2>2, <2>3 DEF issueStep, States
  <2> QED BY <1>1, <2>4 DEF letsEncryptSSL
<1>2. CASE le # {}
  <2>1. First(le) \in Live
    BY <1>2, FirstIn DEF certificatesForMode, Live
  <2>2. First(le) \in CertIds
    BY <2>1 DEF Live
  <2>3. Sound(Outcome(m, "pending", m.marker, "bind", First(le)), m)
    BY <1>a, <2>2, OutcomeSound DEF States, Kinds
  <2>4. (IF m.marker = None THEN markerFor(First(le)) ELSE m.marker) \in Markers \cup {None}
    BY <1>a, <2>1, MarkerType
  <2>5. Sound(Outcome(m, "bound", IF m.marker = None THEN markerFor(First(le)) ELSE m.marker,
                      "none", None), m)
    BY <2>4, OutcomeSound DEF States, Kinds
  <2> QED BY <1>2, <2>3, <2>5 DEF letsEncryptSSL
<1> QED BY <1>1, <1>2

LEMMA NoneSound ==
  ASSUME TypeOK, NEW m \in sslStatus, NEW bound
  PROVE  Sound(noneSSL(m, bound), m)
<1> DEFINE old == {c \in certificatesForMode("none") : managedMatches(m.marker, c)}
<1>a. m.marker \in Markers \cup {None}
  BY DEF sslStatus
<1>1. old # {} => First(old) \in CertIds
  BY FirstIn DEF certificatesForMode, Live
<1> HIDE DEF old
<1>2. Sound(Outcome(m, "pending", m.marker, "unbind", None), m)
  BY <1>a, OutcomeSound DEF States, Kinds
<1>3. old # {} => Sound(Outcome(m, "pending", m.marker, "deleteOld", First(old)), m)
  BY <1>a, <1>1, OutcomeSound DEF States, Kinds
<1>4. Sound(Outcome(m, "", None, "none", None), m)
  BY OutcomeSound DEF States, Kinds
<1> QED BY <1>2, <1>3, <1>4 DEF noneSSL, old

LEMMA KeyType ==
  ASSUME NEW s \in Specs, NEW ident \in Idents \cup {None}
  PROVE  sslBudgetKey(s, ident) \in Keys
<1>1. s.mode \in Modes /\ s.conf["domains"] \in Settings \cup {None}
  BY CdnAssumption DEF Sections
<1> QED BY <1>1 DEF sslBudgetKey, Keys

\* What computeSSL starts from: the status, its attempts at 0 if the key has changed.
Started(m, s, ident) ==
  IF s.mode # "absent" /\ sslBudgetKey(s, ident) # m.key THEN [m EXCEPT !.attempts = 0] ELSE m

LEMMA StartedType ==
  ASSUME NEW m \in sslStatus, NEW s, NEW ident
  PROVE  Started(m, s, ident) \in sslStatus
<1>1. 0 \in 0..MaxIssueAttempts
  BY Bounds
<1> QED BY <1>1 DEF Started, sslStatus

LEMMA ComputeSound ==
  ASSUME TypeOK, NEW m \in sslStatus, NEW s \in Specs, NEW ident, NEW read
  PROVE  Sound(computeSSL(m, s, ident, read), Started(m, s, ident))
<1> DEFINE fresh == sslBudgetKey(s, ident) # m.key
           now   == IF fresh THEN [m EXCEPT !.attempts = 0] ELSE m
           ready == s.conf["domains"] \in {None, read.conf["domains"]}
<1>0. s.mode \in Modes
  BY CdnAssumption
<1>1. fresh \in BOOLEAN /\ ready \in BOOLEAN
  OBVIOUS
<1>2. Started(m, s, ident) \in sslStatus
  BY StartedType
<1>3. s.mode # "absent" => Started(m, s, ident) = now
  BY DEF Started
<1> HIDE DEF fresh, ready, now
<1>4. CASE s.mode = "custom"
  <2>1. Sound(customSSL(now, ident, read.bound, fresh), now)
    BY <1>1, <1>2, <1>3, <1>4, CustomSound
  <2> QED BY <1>3, <1>4, <2>1 DEF computeSSL, now, fresh
<1>5. CASE s.mode = "letsEncrypt"
  <2>1. Sound(letsEncryptSSL(now, read.bound, ready), now)
    BY <1>1, <1>2, <1>3, <1>5, LetsEncryptSound
  <2> QED BY <1>3, <1>5, <2>1 DEF computeSSL, now, fresh, ready
<1>6. CASE s.mode = "none"
  <2>1. Sound(noneSSL(now, read.bound), now)
    BY <1>2, <1>3, <1>6, NoneSound
  <2> QED BY <1>3, <1>6, <2>1 DEF computeSSL, now, fresh
<1>7. CASE s.mode = "absent"
  <2>1. m.state \in States /\ m.marker \in Markers \cup {None}
    BY DEF sslStatus, States
  <2>2. Sound(Outcome(m, m.state, m.marker, "none", None), m)
    BY <2>1, OutcomeSound DEF Kinds
  <2> QED BY <1>7, <2>2 DEF computeSSL, Started
<1> QED BY <1>0, <1>4, <1>5, <1>6, <1>7 DEF Modes

\* Only mode letsEncrypt asks Let's Encrypt.
LEMMA IssueIsForLetsEncrypt ==
  ASSUME NEW m, NEW s \in Specs, NEW ident, NEW read, s.mode # "letsEncrypt"
  PROVE  computeSSL(m, s, ident, read).action.kind # "issue"
<1> DEFINE fresh == sslBudgetKey(s, ident) # m.key
           now   == IF fresh THEN [m EXCEPT !.attempts = 0] ELSE m
<1>0. \A n, state, marker, kind, target :
        Outcome(n, state, marker, kind, target).action.kind = kind
  BY DEF Outcome
<1>1. \A n, f : uploadStep(n, f).action.kind # "issue"
  BY <1>0 DEF uploadStep
<1>2. \A n, i, match : boundStep(n, i, match).action.kind # "issue"
  BY <1>0 DEF boundStep
<1>3. \A n, i, b, f : customSSL(n, i, b, f).action.kind # "issue"
  BY <1>0, <1>1, <1>2 DEF customSSL
<1>4. \A n, b : noneSSL(n, b).action.kind # "issue"
  <2> TAKE n, b
  <2> DEFINE old == {c \in certificatesForMode("none") : managedMatches(n.marker, c)}
  <2>1. /\ Outcome(n, "pending", n.marker, "unbind", None).action.kind # "issue"
        /\ Outcome(n, "pending", n.marker, "deleteOld", First(old)).action.kind # "issue"
        /\ Outcome(n, "", None, "none", None).action.kind # "issue"
    BY DEF Outcome
  <2> HIDE DEF old
  <2> QED BY <2>1 DEF noneSSL, old
<1>5. s.mode \in {"absent", "none", "custom"}
  BY CdnAssumption DEF Modes
<1>6. CASE s.mode = "custom"
  BY <1>3, <1>6 DEF computeSSL
<1>7. CASE s.mode = "none"
  BY <1>4, <1>7 DEF computeSSL
<1>8. CASE s.mode = "absent"
  BY <1>0, <1>8 DEF computeSSL
<1> QED BY <1>5, <1>6, <1>7, <1>8

(***************************************************************************)
(* Steps.                                                                  *)
(***************************************************************************)
\* The variables of a step, apart from each other: what is stored of the MR and
\* what counts, what is upstream, what a reconcile has in memory.
StoredOK ==
  /\ spec \in Specs /\ secret \in Idents \cup {None}
  /\ retry \in BOOLEAN /\ purge \in 0..MaxEdits /\ purged \in 0..MaxEdits
  /\ dirty \in BOOLEAN /\ foreign \in BOOLEAN /\ held \subseteq Idents
  /\ faults \in 0..MaxFaults /\ edits \in 0..MaxEdits /\ moves \in 0..MaxMoves

UpstreamOK ==
  /\ up \in [conf : [Sections -> Settings], bound : Live \cup {None}, suspended : BOOLEAN]
  /\ certs \in [CertIds -> Certificate \cup {None}]
  /\ task \in {"none", "in_progress", "failed", "hidden"}

PassOK ==
  /\ sp \in Specs /\ asked \in 0..MaxEdits /\ st \in sslStatus /\ mem \in sslStatus
  /\ pc \in {"idle", "purge", "unannotate", "ssl", "update", "patch", "act"}
  /\ act \in Actions /\ issued \in Nat /\ lost \in Nat
  /\ Charged /\ KeyIsCurrent /\ Decided

LEMMA Parts == BudgetInv <=> StoredOK /\ UpstreamOK /\ PassOK
  BY DEF BudgetInv, TypeOK, StoredOK, UpstreamOK, PassOK

LEMMA NoActionType == NoAction \in Actions /\ NoAction.kind = "none" /\ NoAction.sections = {}
  BY DEF NoAction, Actions

LEMMA BlankType == ASSUME NEW s \in Specs PROVE Blank \in Specs
  BY DEF Blank

LEMMA UpstreamKept == UpstreamOK /\ UNCHANGED upstream => UpstreamOK'
  BY DEF UpstreamOK, upstream, Live

\* The bookkeeping of a pass's end, with numbers alone: i requests sent, a attempts in
\* the status that is stored, b in the one in memory, l charges lost.
LEMMA LostAtMostOne ==
  \A i, j, a, b, l \in Nat :
    i <= a + l /\ j <= i + 1 /\ j <= b + l =>
      /\ b > a => j <= a + (l + 1)
      /\ ~(b > a) => j <= a + l
  OBVIOUS

\* A pass may end any time: it has sent one request at most, and charged it.
LEMMA EndOfPass ==
  ASSUME PassOK, EndPass, mem' \in sslStatus, issued' \in Nat,
         issued' <= issued + 1, issued' <= mem'.attempts + lost
  PROVE  PassOK'
<1>1. /\ sp' \in Specs /\ act' \in Actions /\ act'.kind # "issue" /\ act'.sections = {}
      /\ act' = NoAction /\ pc' = "idle"
  BY BlankType, NoActionType DEF PassOK, EndPass
<1>2. asked' \in 0..MaxEdits
  <2>1. asked' = 0
    BY DEF EndPass
  <2> QED BY <2>1, Bounds
<1>3. /\ st.attempts \in Nat /\ mem'.attempts \in Nat /\ issued \in Nat /\ lost \in Nat
      /\ issued <= st.attempts + lost
  BY Fields DEF PassOK, Charged
<1>4. CASE dirty
  <2>1. st' = st /\ lost' = LostCharge(mem')
    BY <1>4 DEF EndPass
  <2>2. lost' \in Nat /\ issued' <= st'.attempts + lost'
    BY <2>1, <1>3, LostAtMostOne DEF LostCharge
  <2> QED BY <1>1, <1>2, <2>1, <2>2 DEF PassOK, Charged, KeyIsCurrent, Decided
<1>5. CASE ~dirty
  <2>1. st' = mem' /\ lost' = lost
    BY <1>5 DEF EndPass
  <2> QED BY <1>1, <1>2, <1>3, <2>1 DEF PassOK, Charged, KeyIsCurrent, Decided
<1> QED BY <1>4, <1>5

\* Nothing is charged or sent before the end.
LEMMA SilentEnd ==
  ASSUME PassOK, EndPass, mem' = mem, pc # "idle", issued' = issued
  PROVE  PassOK'
<1>1. /\ mem' \in sslStatus /\ issued' \in Nat /\ issued' <= mem'.attempts + lost
      /\ issued \in Nat
  BY DEF PassOK, Charged
<1>2. issued' <= issued + 1
  BY <1>1
<1> QED BY <1>1, <1>2, EndOfPass

\* A fault is one more of those allowed.
LEMMA FaultType ==
  ASSUME StoredOK, Fault \/ UNCHANGED faults
  PROVE  faults' \in 0..MaxFaults
<1>1. faults \in 0..MaxFaults
  BY DEF StoredOK
<1>2. CASE Fault
  BY <1>1, <1>2, Bounds DEF Fault
<1> QED BY <1>1, <1>2

\* Going on within a pass.
LEMMA GoingOn ==
  ASSUME PassOK, NEW step \in {"ssl", "unannotate"}, GoTo(step), UNCHANGED <<mem, act, issued>>,
         pc \in {"purge", "unannotate"}
  PROVE  PassOK'
  BY DEF PassOK, GoTo, Charged, KeyIsCurrent, Decided

LEMMA ObserveStep ==
  ASSUME StoredOK, UpstreamOK, PassOK, Observe
  PROVE  StoredOK' /\ UpstreamOK' /\ PassOK'
<1>1. StoredOK'
  BY DEF Observe, StoredOK, annotations, ghosts, counters
<1>2. UpstreamOK'
  BY UpstreamKept DEF Observe
<1>3. PassOK'
  <2>1. pc' \in {"purge", "ssl"} /\ sp' \in Specs /\ mem' = st /\ asked' \in 0..MaxEdits
    BY DEF Observe, StoredOK
  <2>2. UNCHANGED <<st, act, issued, lost>> /\ act = NoAction
    BY DEF Observe, ghosts, PassOK, Decided
  <2> QED BY <2>1, <2>2, NoActionType DEF PassOK, Charged, KeyIsCurrent, Decided
<1> QED BY <1>1, <1>2, <1>3

LEMMA PurgeStep ==
  ASSUME StoredOK, UpstreamOK, PassOK, handlePurge \/ removePurgeAnnotation
  PROVE  StoredOK' /\ UpstreamOK' /\ PassOK'
<1>0. UNCHANGED upstream
  BY DEF handlePurge, removePurgeAnnotation
<1>1. UpstreamOK'
  BY <1>0, UpstreamKept
<1>2. faults' \in 0..MaxFaults
  BY FaultType DEF handlePurge, removePurgeAnnotation
<1>3. CASE handlePurge
  <2>1. purged' \in 0..MaxEdits
    BY <1>3 DEF handlePurge, StoredOK, PassOK
  <2>2. StoredOK'
    BY <1>2, <1>3, <2>1 DEF handlePurge, StoredOK, annotations
  <2>3. PassOK'
    BY <1>3, GoingOn DEF handlePurge
  <2> QED BY <1>1, <2>2, <2>3
<1>4. CASE removePurgeAnnotation
  <2>1. purge' \in 0..MaxEdits
    <3>1. purge' \in {0, purge}
      BY <1>4 DEF removePurgeAnnotation
    <3>2. 0 \in 0..MaxEdits
      BY Bounds
    <3> QED BY <3>1, <3>2 DEF StoredOK
  <2>2. StoredOK'
    BY <1>2, <1>4, <2>1 DEF removePurgeAnnotation, StoredOK
  <2>3. pc = "unannotate" /\ UNCHANGED <<mem, issued>> /\ ((GoTo("ssl") /\ act' = act) \/ EndPass)
    BY <1>4 DEF removePurgeAnnotation
  <2>4. PassOK'
    BY <2>3, GoingOn, SilentEnd
  <2> QED BY <1>1, <2>2, <2>4
<1> QED BY <1>3, <1>4

LEMMA RetryType ==
  ASSUME PassOK
  PROVE  /\ afterRetry \in sslStatus
         /\ ~(retry /\ sp.mode # "absent") => afterRetry = mem
         /\ afterRetry.key = mem.key
<1>1. 0 \in 0..MaxIssueAttempts
  BY Bounds
<1> QED BY <1>1 DEF PassOK, afterRetry, sslStatus

\* After Observe's bookkeeping nothing is uncharged: the count goes on from the status,
\* or budget and count start again together.
LEMMA ObserveSSLStep ==
  ASSUME StoredOK, UpstreamOK, PassOK, TypeOK, observeSSL
  PROVE  StoredOK' /\ UpstreamOK' /\ PassOK'
<1> DEFINE out == computeSSL(afterRetry, sp, secret, up)
           key == sslBudgetKey(sp, secret)
<1>1. UpstreamOK'
  BY UpstreamKept DEF observeSSL
<1>2. StoredOK'
  BY DEF observeSSL, StoredOK, counters
<1>3. sp \in Specs /\ secret \in Idents \cup {None} /\ key \in Keys
  BY KeyType DEF PassOK, StoredOK
<1>4. Sound(out, Started(afterRetry, sp, secret))
  BY <1>3, RetryType, ComputeSound
<1>5. /\ mem' = IF sp.mode = "absent" THEN mem ELSE [out.st EXCEPT !.key = key]
      /\ issued' = IF sp.mode # "absent" /\ Restarts THEN 0 ELSE issued
      /\ pc = "ssl" /\ (EndPass \/ (GoTo("update") /\ act' = act))
  BY DEF observeSSL
<1> HIDE DEF out
<1>6. mem' \in sslStatus
  <2>1. [out.st EXCEPT !.key = key] \in sslStatus
    BY <1>3, <1>4 DEF Sound, sslStatus
  <2> QED BY <1>5, <2>1 DEF PassOK
<1>7. sp.mode # "absent" => mem'.attempts = Started(afterRetry, sp, secret).attempts /\ mem'.key = key
  BY <1>4, <1>5 DEF Sound, sslStatus
<1>8. issued' \in Nat /\ issued' <= issued + 1 /\ issued' <= mem'.attempts + lost
  <2>1. issued \in Nat /\ lost \in Nat /\ issued <= mem.attempts + lost
    BY <1>5 DEF PassOK, Charged
  <2>2. mem'.attempts \in Nat
    BY <1>6, Fields
  <2>3. CASE sp.mode # "absent" /\ Restarts
    <3>1. issued' = 0
      BY <1>5, <2>3
    <3> QED BY <2>1, <2>2, <3>1
  <2>4. CASE sp.mode = "absent" \/ ~Restarts
    <3>1. mem'.attempts = mem.attempts /\ issued' = issued
      BY <1>5, <1>7, <2>4, RetryType DEF Restarts, Started
    <3> QED BY <2>1, <3>1
  <2> QED BY <2>3, <2>4
<1>9. CASE EndPass
  BY <1>1, <1>2, <1>6, <1>8, <1>9, EndOfPass
<1>10. CASE GoTo("update") /\ act' = act
  <2>1. pc' = "update" /\ UNCHANGED <<st, lost, sp, asked, act>> /\ act = NoAction
    BY <1>5, <1>10 DEF GoTo, PassOK, Decided
  <2>2. sp.mode = "letsEncrypt" => mem'.key = sslBudgetKey(sp, None)
    BY <1>7 DEF sslBudgetKey
  <2>3. KeyIsCurrent'
    BY <2>1, <2>2 DEF KeyIsCurrent, sslBudgetKey
  <2>4. issued' <= st.attempts + lost
    <3>1. st.attempts \in Nat /\ lost \in Nat /\ issued <= st.attempts + lost /\ issued' \in {0, issued}
      BY <1>5, Fields DEF PassOK, Charged
    <3> QED BY <3>1
  <2>5. PassOK'
    BY <1>6, <1>8, <2>1, <2>3, <2>4, NoActionType DEF PassOK, Charged, Decided
  <2> QED BY <1>1, <1>2, <2>5
<1> QED BY <1>5, <1>9, <1>10

LEMMA ObserveEndsStep ==
  ASSUME StoredOK, UpstreamOK, PassOK, ObserveEnds
  PROVE  StoredOK' /\ UpstreamOK' /\ PassOK'
<1>1. UpstreamOK'
  BY UpstreamKept DEF ObserveEnds
<1>2. faults' \in 0..MaxFaults
  BY FaultType DEF ObserveEnds
<1>3. StoredOK'
  BY <1>2 DEF ObserveEnds, StoredOK
<1>4. pc = "ssl" /\ EndPass
  BY DEF ObserveEnds
<1>5. \/ mem' = mem /\ issued' = issued
      \/ sp.mode # "absent" /\ mem' = afterRetry /\ issued' = IF retry THEN 0 ELSE issued
  BY DEF ObserveEnds
<1>6. CASE mem' = mem /\ issued' = issued
  BY <1>1, <1>3, <1>4, <1>6, SilentEnd
<1>7. CASE sp.mode # "absent" /\ mem' = afterRetry /\ issued' = IF retry THEN 0 ELSE issued
  <2>1. CASE retry
    <3>1. mem' \in sslStatus /\ issued' = 0
      BY <1>7, <2>1, RetryType
    <3>2. mem'.attempts \in Nat /\ lost \in Nat /\ issued \in Nat
      BY <3>1, Fields DEF PassOK
    <3>3. issued' \in Nat /\ issued' <= issued + 1 /\ issued' <= mem'.attempts + lost
      BY <3>1, <3>2
    <3> QED BY <1>1, <1>3, <1>4, <3>1, <3>3, EndOfPass
  <2>2. CASE ~retry
    <3>1. mem' = mem /\ issued' = issued
      BY <1>7, <2>2, RetryType
    <3> QED BY <1>1, <1>3, <1>4, <3>1, SilentEnd
  <2> QED BY <2>1, <2>2
<1> QED BY <1>5, <1>6, <1>7

\* Update decides on the budget that Observe has left.
LEMMA UpdateStep ==
  ASSUME StoredOK, UpstreamOK, PassOK, TypeOK, Update \/ UpdateFails
  PROVE  StoredOK' /\ UpstreamOK' /\ PassOK'
<1> DEFINE out == computeSSL(mem, sp, secret, up)
           decided == [kind |-> out.action.kind, target |-> out.action.target, ident |-> secret,
                       sections |-> Drifted(sp, up.conf)]
<1>0. UNCHANGED upstream
  BY DEF Update, UpdateFails
<1>1. UpstreamOK'
  BY <1>0, UpstreamKept
<1>2. faults' \in 0..MaxFaults
  BY FaultType DEF Update, UpdateFails, counters
<1>3. StoredOK'
  BY <1>2 DEF Update, UpdateFails, StoredOK, annotations, counters
<1>4. /\ pc = "update" /\ mem' = mem /\ issued' = issued
      /\ \/ EndPass
         \/ updateStep # "end" /\ GoTo(updateStep) /\ act' = decided
  BY DEF Update, UpdateFails
<1>5. CASE EndPass
  BY <1>1, <1>3, <1>4, <1>5, SilentEnd
<1>6. CASE updateStep # "end" /\ GoTo(updateStep) /\ act' = decided
  <2>1. sp \in Specs /\ mem \in sslStatus /\ secret \in Idents \cup {None}
    BY DEF PassOK, StoredOK
  <2>2. Sound(out, Started(mem, sp, secret))
    BY <2>1, ComputeSound
  <2>3. out.action.kind = "issue" => sp.mode = "letsEncrypt" /\ Started(mem, sp, secret) = mem
    <3>1. sp.mode = "letsEncrypt" => Started(mem, sp, secret) = mem
      BY <1>4 DEF PassOK, KeyIsCurrent, Started, sslBudgetKey
    <3>2. sp.mode # "letsEncrypt" => out.action.kind # "issue"
      BY <2>1, IssueIsForLetsEncrypt
    <3> QED BY <3>1, <3>2
  <2>4. pc' \in {"patch", "act"} /\ UNCHANGED <<st, lost, sp, asked>>
    BY <1>6 DEF updateStep, GoTo
  <2>5. \A x \in Drifted(sp, up.conf) : x \in Sections /\ sp.conf[x] # None
    BY DEF Drifted
  <2> HIDE DEF out
  <2>6. decided \in Actions
    BY <2>1, <2>2, <2>5 DEF Sound, Actions, Kinds
  <2>7. act' \in Actions /\ (act'.kind = "issue" => mem'.attempts < MaxIssueAttempts)
        /\ \A x \in act'.sections : sp'.conf[x] # None
    BY <1>4, <1>6, <2>2, <2>3, <2>4, <2>5, <2>6 DEF Sound
  <2>8. PassOK'
    BY <1>4, <2>4, <2>7 DEF PassOK, Charged, KeyIsCurrent, Decided
  <2> QED BY <1>1, <1>3, <2>8
<1> QED BY <1>4, <1>5, <1>6

LEMMA PatchStep ==
  ASSUME StoredOK, UpstreamOK, PassOK, PatchCDNHTTPResource
  PROVE  StoredOK' /\ UpstreamOK' /\ PassOK'
<1> DEFINE conf == [x \in Sections |-> IF x \in act.sections THEN sp.conf[x] ELSE up.conf[x]]
           carried == [up EXCEPT !.conf = conf]
<1>1. faults' \in 0..MaxFaults
  BY FaultType DEF PatchCDNHTTPResource
<1>2. StoredOK'
  BY <1>1 DEF PatchCDNHTTPResource, StoredOK, annotations
<1>3. PassOK'
  BY SilentEnd DEF PatchCDNHTTPResource
<1>4. conf \in [Sections -> Settings]
  <2>1. sp.conf \in [Sections -> Settings \cup {None}] /\ up.conf \in [Sections -> Settings]
    BY CdnAssumption DEF PassOK, UpstreamOK
  <2>2. \A x \in act.sections : sp.conf[x] # None
    BY DEF PassOK, Decided
  <2> QED BY <2>1, <2>2
<1> HIDE DEF conf
<1>5. UNCHANGED <<certs, task>> /\ Live' = Live
  BY DEF PatchCDNHTTPResource, Live
<1>6. up' \in {up, carried}
  BY DEF PatchCDNHTTPResource, conf
<1>7. UpstreamOK'
  BY <1>4, <1>5, <1>6 DEF UpstreamOK
<1> QED BY <1>2, <1>3, <1>7

\* Certificates come and go without taking away the one that is bound.
LEMMA CertsChange ==
  ASSUME UpstreamOK, task' \in {"none", "in_progress", "failed", "hidden"},
         certs' \in [CertIds -> Certificate \cup {None}],
         up' \in [conf : [Sections -> Settings], bound : CertIds \cup {None}, suspended : BOOLEAN],
         up'.bound # None => certs'[up'.bound] # None
  PROVE  UpstreamOK'
  BY DEF UpstreamOK, Live

LEMMA Rebound ==
  ASSUME UpstreamOK, NEW b \in CertIds \cup {None}
  PROVE  /\ [up EXCEPT !.bound = b]
               \in [conf : [Sections -> Settings], bound : CertIds \cup {None}, suspended : BOOLEAN]
         /\ [up EXCEPT !.bound = b].bound = b
  BY DEF UpstreamOK, Live

LEMMA BoundExists ==
  ASSUME UpstreamOK
  PROVE  /\ up \in [conf : [Sections -> Settings], bound : CertIds \cup {None}, suspended : BOOLEAN]
         /\ up.bound # None => up.bound \in CertIds /\ certs[up.bound] # None
         /\ certs \in [CertIds -> Certificate \cup {None}]
         /\ task \in {"none", "in_progress", "failed", "hidden"}
  BY DEF UpstreamOK, Live

\* A new certificate in a free place.
LEMMA Added ==
  ASSUME UpstreamOK, NEW c \in Free, NEW cert \in Certificate,
         certs' = [certs EXCEPT ![c] = cert]
  PROVE  /\ certs' \in [CertIds -> Certificate \cup {None}] /\ certs'[c] # None
         /\ up.bound # None => certs'[up.bound] # None
<1>1. c \in CertIds /\ certs[c] = None
  BY DEF Free, Live
<1>2. cert # None
  BY CdnAssumption
<1> QED BY <1>1, <1>2, BoundExists

LEMMA ActStep ==
  ASSUME StoredOK, UpstreamOK, PassOK, executeSSLAction
  PROVE  StoredOK' /\ UpstreamOK' /\ PassOK'
<1>1. faults' \in 0..MaxFaults
  BY FaultType DEF executeSSLAction, upload, issue, bind, unbind, deleteOld
<1>2. StoredOK'
  BY <1>1 DEF executeSSLAction, StoredOK, annotations
<1>3. pc = "act" /\ EndPass /\ mem \in sslStatus /\ act \in Actions
  BY DEF executeSSLAction, PassOK
<1>4. issued \in Nat /\ lost \in Nat /\ issued <= mem.attempts + lost /\ mem.attempts \in Nat
  BY <1>3, Fields DEF PassOK, Charged
<1>5. ASSUME mem' \in sslStatus, mem'.attempts = mem.attempts, issued' = issued
      PROVE  PassOK'
  <2>1. issued' \in Nat /\ issued' <= issued + 1 /\ issued' <= mem'.attempts + lost
    BY <1>4, <1>5
  <2> QED BY <1>3, <1>5, <2>1, EndOfPass
<1>6. CASE upload
  <2>1. mem' \in sslStatus /\ mem'.attempts = mem.attempts /\ issued' = issued
    BY <1>3, <1>6 DEF upload, sslStatus
  <2>2. UNCHANGED <<up, task>>
    BY <1>6 DEF upload
  <2>3. certs' = certs \/ (act.ident \in Trusted /\ Uploaded)
    BY <1>6 DEF upload
  <2>4. CASE certs' = certs
    BY <1>2, <1>5, <2>1, <2>2, <2>4, UpstreamKept DEF upstream
  <2>5. CASE act.ident \in Trusted /\ certs' # certs
    <3>1. PICK c \in Free : certs' = [certs EXCEPT ![c] = [type |-> "custom", ident |-> act.ident]]
      BY <2>3, <2>5 DEF Uploaded
    <3>2. [type |-> "custom", ident |-> act.ident] \in Certificate
      BY <2>5, CdnAssumption DEF Certificate
    <3>3. UpstreamOK'
      BY <2>2, <3>1, <3>2, Added, BoundExists, CertsChange
    <3> QED BY <1>2, <1>5, <2>1, <3>3
  <2> QED BY <2>3, <2>4, <2>5
<1>7. CASE issue
  <2>1. task' \in {"none", "in_progress", "failed", "hidden"} /\ UNCHANGED <<up, certs>>
    BY <1>7 DEF issue, UpstreamOK
  <2>2. UpstreamOK'
    BY <2>1, BoundExists, CertsChange
  <2>3. CASE mem' = [mem EXCEPT !.cooling = TRUE] /\ issued' = issued
    <3>1. mem' \in sslStatus /\ mem'.attempts = mem.attempts
      BY <1>3, <2>3 DEF sslStatus
    <3> QED BY <1>2, <1>5, <2>2, <2>3, <3>1
  <2>4. CASE /\ mem' = [mem EXCEPT !.attempts = mem.attempts + 1, !.cooling = TRUE]
             /\ issued' = issued + 1
    <3>1. mem.attempts < MaxIssueAttempts
      BY <1>7 DEF issue, PassOK, Decided
    <3>2. mem.attempts + 1 \in 0..MaxIssueAttempts
      BY <1>4, <3>1, Bounds
    <3>3. mem' \in sslStatus /\ mem'.attempts = mem.attempts + 1
      BY <1>3, <2>4, <3>2 DEF sslStatus
    <3>4. issued' \in Nat /\ issued' <= issued + 1 /\ issued' <= mem'.attempts + lost
      BY <1>4, <2>4, <3>3
    <3> QED BY <1>2, <1>3, <2>2, <3>3, <3>4, EndOfPass
  <2> QED BY <1>7, <2>3, <2>4 DEF issue
<1>8. CASE bind \/ unbind
  <2>1. mem' = mem /\ issued' = issued /\ UNCHANGED <<certs, task>>
    BY <1>8 DEF bind, unbind
  <2>2. \/ up' = up
        \/ \E b \in Live \cup {up.bound, None} : up' = [up EXCEPT !.bound = b]
    BY <1>8 DEF bind, unbind
  <2>3. UpstreamOK'
    <3>1. CASE up' = up
      BY <2>1, <3>1, UpstreamKept DEF upstream
    <3>2. ASSUME NEW b \in Live \cup {up.bound, None}, up' = [up EXCEPT !.bound = b]
          PROVE  UpstreamOK'
      <4>1. b \in CertIds \cup {None} /\ (b # None => certs[b] # None)
        BY BoundExists DEF Live
      <4> QED BY <2>1, <3>2, <4>1, Rebound, BoundExists, CertsChange
    <3> QED BY <2>2, <3>1, <3>2
  <2> QED BY <1>2, <1>3, <1>5, <2>1, <2>3
<1>9. CASE deleteOld
  <2>1. mem' \in sslStatus /\ mem'.attempts = mem.attempts /\ issued' = issued
    BY <1>3, <1>9 DEF deleteOld, sslStatus
  <2>2. /\ UNCHANGED <<up, task>>
        /\ \/ certs' = certs
           \/ /\ act.target # up.bound
              /\ certs' = [c \in CertIds |-> IF c = act.target THEN None ELSE certs[c]]
    BY <1>9 DEF deleteOld
  <2>3. UpstreamOK'
    <3>1. CASE certs' = certs
      BY <2>2, <3>1, UpstreamKept DEF upstream
    <3>2. CASE /\ act.target # up.bound
               /\ certs' = [c \in CertIds |-> IF c = act.target THEN None ELSE certs[c]]
      BY <2>2, <3>2, BoundExists, CertsChange
    <3> QED BY <2>2, <3>1, <3>2
  <2> QED BY <1>2, <1>5, <2>1, <2>3
<1> QED BY <1>6, <1>7, <1>8, <1>9 DEF executeSSLAction

\* A reconcile is not disturbed by what it does not see.
LEMMA PassKept ==
  ASSUME PassOK, UNCHANGED <<st, mem, local, ghosts>>
  PROVE  PassOK'
  BY DEF PassOK, local, ghosts, Charged, KeyIsCurrent, Decided, sslBudgetKey

LEMMA TimeStep ==
  ASSUME StoredOK, UpstreamOK, PassOK, TimePasses
  PROVE  StoredOK' /\ UpstreamOK' /\ PassOK'
<1>1. StoredOK'
  BY DEF TimePasses, StoredOK, annotations, ghosts, counters
<1>2. UpstreamOK'
  BY UpstreamKept DEF TimePasses
<1>3. \A m \in sslStatus : /\ [m EXCEPT !.cooling = FALSE] \in sslStatus
                           /\ [m EXCEPT !.cooling = FALSE].attempts = m.attempts
                           /\ [m EXCEPT !.cooling = FALSE].key = m.key
  BY DEF sslStatus
<1>4. /\ st' \in sslStatus /\ st'.attempts = st.attempts
      /\ mem' \in sslStatus /\ mem'.attempts = mem.attempts /\ mem'.key = mem.key
  BY <1>3 DEF TimePasses, PassOK
<1>5. UNCHANGED <<pc, sp, act, asked, issued, lost>>
  BY DEF TimePasses, local, ghosts
<1>6. PassOK'
  BY <1>4, <1>5 DEF PassOK, Charged, KeyIsCurrent, Decided, sslBudgetKey
<1> QED BY <1>1, <1>2, <1>6

LEMMA TaskStep ==
  ASSUME StoredOK, UpstreamOK, PassOK, TaskEnds
  PROVE  StoredOK' /\ UpstreamOK' /\ PassOK'
<1>1. StoredOK'
  BY DEF TaskEnds, StoredOK, annotations, ghosts, counters
<1>2. PassOK'
  BY PassKept DEF TaskEnds
<1>3. task' \in {"none", "in_progress", "failed", "hidden"}
  BY DEF TaskEnds
<1>4. CASE UNCHANGED <<up, certs>>
  BY <1>1, <1>2, <1>3, <1>4, BoundExists, CertsChange
<1>5. ASSUME NEW c \in Free, up' = [up EXCEPT !.bound = c],
             certs' = [certs EXCEPT ![c] = [type |-> "lets_encrypt", ident |-> LE]]
      PROVE  UpstreamOK'
  <2>1. [type |-> "lets_encrypt", ident |-> LE] \in Certificate /\ c \in CertIds
    BY DEF Certificate, Free
  <2> QED BY <1>3, <1>5, <2>1, Added, Rebound, CertsChange
<1> QED BY <1>1, <1>2, <1>4, <1>5 DEF TaskEnds

LEMMA PanelStep ==
  ASSUME StoredOK, UpstreamOK, PassOK, Panel
  PROVE  StoredOK' /\ UpstreamOK' /\ PassOK'
<1>1. moves' \in 0..MaxMoves
  <2>1. moves \in 0..MaxMoves /\ moves < MaxMoves /\ moves' = moves + 1
    BY DEF StoredOK, Panel
  <2> QED BY <2>1, Bounds
<1>2. StoredOK'
  BY <1>1 DEF Panel, StoredOK, annotations, ghosts
<1>3. PassOK'
  BY PassKept DEF Panel
<1>4. task' = task /\ PanelChanges
  BY DEF Panel
<1>5. ASSUME NEW c \in Free, NEW i \in Idents, up' = up,
             certs' = [certs EXCEPT ![c] = [type |-> "custom", ident |-> i]]
      PROVE  UpstreamOK'
  <2>1. [type |-> "custom", ident |-> i] \in Certificate
    BY DEF Certificate
  <2> QED BY <1>4, <1>5, <2>1, Added, BoundExists, CertsChange
<1>6. ASSUME NEW c \in Live \ {up.bound}, certs' = [certs EXCEPT ![c] = None], up' = up
      PROVE  UpstreamOK'
  BY <1>4, <1>6, BoundExists, CertsChange
<1>7. ASSUME NEW c \in Live \cup {None}, up' = [up EXCEPT !.bound = c], certs' = certs
      PROVE  UpstreamOK'
  <2>1. c \in CertIds \cup {None} /\ (c # None => certs[c] # None)
    BY DEF Live
  <2> QED BY <1>4, <1>7, <2>1, Rebound, BoundExists, CertsChange
<1>8. ASSUME NEW x \in Sections, NEW v \in Settings, up' = [up EXCEPT !.conf[x] = v], certs' = certs
      PROVE  UpstreamOK'
  <2>1. Live' = Live
    BY <1>8 DEF Live
  <2> QED BY <1>4, <1>8, <2>1 DEF UpstreamOK
<1>9. ASSUME up' = [up EXCEPT !.suspended = ~up.suspended], certs' = certs
      PROVE  UpstreamOK'
  <2>1. Live' = Live
    BY <1>9 DEF Live
  <2> QED BY <1>4, <1>9, <2>1 DEF UpstreamOK
<1> QED BY <1>2, <1>3, <1>4, <1>5, <1>6, <1>7, <1>8, <1>9 DEF PanelChanges

LEMMA EditStep ==
  ASSUME StoredOK, UpstreamOK, PassOK, EditSpec \/ Annotate \/ RotateSecret
  PROVE  StoredOK' /\ UpstreamOK' /\ PassOK'
<1>1. edits' \in 0..MaxEdits
  <2>1. edits \in 0..MaxEdits /\ edits < MaxEdits /\ edits' = edits + 1
    BY DEF StoredOK, EditSpec, Annotate, RotateSecret, Edit
  <2> QED BY <2>1, Bounds
<1>2. StoredOK'
  BY <1>1 DEF EditSpec, Annotate, RotateSecret, StoredOK, annotations, ghosts
<1>3. UpstreamOK'
  BY UpstreamKept DEF EditSpec, Annotate, RotateSecret
<1>4. PassOK'
  BY PassKept DEF EditSpec, Annotate, RotateSecret
<1> QED BY <1>2, <1>3, <1>4

\* A crash loses the charge that a status write would have stored.
LEMMA CrashStep ==
  ASSUME StoredOK, UpstreamOK, PassOK, Crash
  PROVE  StoredOK' /\ UpstreamOK' /\ PassOK'
<1>1. faults' \in 0..MaxFaults
  BY FaultType DEF Crash
<1>2. StoredOK'
  BY <1>1 DEF Crash, StoredOK, annotations
<1>3. UpstreamOK'
  BY UpstreamKept DEF Crash
<1>4. /\ sp' \in Specs /\ act' = NoAction /\ pc' = "idle" /\ asked' = 0
      /\ UNCHANGED <<st, mem, issued>> /\ lost' = LostCharge(mem)
  BY BlankType DEF Crash, PassOK
<1>5. asked' \in 0..MaxEdits
  BY <1>4, Bounds
<1>6. /\ st.attempts \in Nat /\ issued \in Nat /\ lost \in Nat
      /\ issued <= st.attempts + lost
  BY Fields DEF PassOK, Charged
<1>7. lost' \in Nat /\ issued <= st.attempts + lost'
  BY <1>4, <1>6 DEF LostCharge
<1>8. PassOK'
  BY <1>4, <1>5, <1>7, NoActionType DEF PassOK, Charged, KeyIsCurrent, Decided
<1> QED BY <1>2, <1>3, <1>8

LEMMA BudgetStep == BudgetInv /\ [Next]_vars => BudgetInv'
<1> SUFFICES ASSUME BudgetInv, [Next]_vars PROVE BudgetInv'
    OBVIOUS
<1>a. TypeOK /\ StoredOK /\ UpstreamOK /\ PassOK
  BY Parts DEF BudgetInv
<1>b. ASSUME StoredOK', UpstreamOK', PassOK' PROVE BudgetInv'
  BY <1>b, Parts, PTL
<1>1. CASE Observe
  BY <1>a, <1>b, <1>1, ObserveStep
<1>2. CASE handlePurge \/ removePurgeAnnotation
  BY <1>a, <1>b, <1>2, PurgeStep
<1>3. CASE observeSSL
  BY <1>a, <1>b, <1>3, ObserveSSLStep
<1>4. CASE ObserveEnds
  BY <1>a, <1>b, <1>4, ObserveEndsStep
<1>5. CASE Update \/ UpdateFails
  BY <1>a, <1>b, <1>5, UpdateStep
<1>6. CASE PatchCDNHTTPResource
  BY <1>a, <1>b, <1>6, PatchStep
<1>7. CASE executeSSLAction
  BY <1>a, <1>b, <1>7, ActStep
<1>8. CASE TimePasses
  BY <1>a, <1>b, <1>8, TimeStep
<1>9. CASE TaskEnds
  BY <1>a, <1>b, <1>9, TaskStep
<1>10. CASE Panel
  BY <1>a, <1>b, <1>10, PanelStep
<1>11. CASE EditSpec \/ Annotate \/ RotateSecret
  BY <1>a, <1>b, <1>11, EditStep
<1>12. CASE Crash
  BY <1>a, <1>b, <1>12, CrashStep
<1>13. CASE UNCHANGED vars
  <2>1. StoredOK'
    BY <1>a, <1>13 DEF vars, StoredOK
  <2>2. UpstreamOK'
    BY <1>a, <1>13, UpstreamKept DEF vars, upstream
  <2>3. PassOK'
    BY <1>a, <1>13, PassKept DEF vars, local, ghosts
  <2> QED BY <1>b, <2>1, <2>2, <2>3
<1> QED
  BY <1>1, <1>2, <1>3, <1>4, <1>5, <1>6, <1>7, <1>8, <1>9, <1>10, <1>11, <1>12, <1>13
     DEF Next, Reconcile

LEMMA BudgetInit == Init => BudgetInv
<1> SUFFICES ASSUME Init PROVE BudgetInv
    OBVIOUS
<1> DEFINE s == [state |-> "", key |-> None, attempts |-> 0, cooling |-> FALSE, marker |-> None]
<1>0. 0 \in 0..MaxEdits /\ 0 \in 0..MaxFaults /\ 0 \in 0..MaxMoves /\ 0 \in 0..MaxIssueAttempts
  BY Bounds
<1>1. StoredOK
  <2>1. Given \in Idents
    BY CdnAssumption
  <2> QED BY <1>0, <2>1 DEF Init, StoredOK
<1>2. UpstreamOK
  <2>1. Fresh \in Settings
    BY CdnAssumption
  <2> QED BY <2>1 DEF Init, UpstreamOK
<1>3. st = s /\ mem = s /\ s \in sslStatus /\ s.attempts = 0
  BY <1>0 DEF Init, sslStatus
<1>4. PassOK
  <2>1. sp \in Specs /\ act = NoAction /\ asked = 0 /\ pc = "idle" /\ issued = 0 /\ lost = 0
    BY BlankType DEF Init
  <2> HIDE DEF s
  <2> QED BY <1>0, <1>3, <2>1, NoActionType DEF PassOK, Charged, KeyIsCurrent, Decided
<1> QED BY <1>1, <1>2, <1>4, Parts

\* Every variable of a Cdn's reconcile stays within its type: the status never counts
\* more attempts than maxIssueAttempts, and a resource serves a certificate that exists.
THEOREM TypeCorrect == Spec => []TypeOK
<1>1. BudgetInv => TypeOK
  BY DEF BudgetInv
<1> QED BY <1>1, BudgetInit, BudgetStep, PTL DEF Spec

\* Let's Encrypt is asked at most maxIssueAttempts times in a budget and once more for
\* every lost status write, through edits, crashes, conflicts and restarts of the budget.
THEOREM BudgetHolds == Spec => []BudgetKept
<1>1. BudgetInv => BudgetKept
  <2> SUFFICES ASSUME BudgetInv PROVE BudgetKept
      OBVIOUS
  <2>1. /\ st.attempts \in Nat /\ st.attempts <= MaxIssueAttempts
        /\ issued \in Nat /\ lost \in Nat /\ issued <= st.attempts + lost
    BY Fields DEF BudgetInv, TypeOK, Charged
  <2> QED BY <2>1, Bounds DEF BudgetKept
<1> QED BY <1>1, BudgetInit, BudgetStep, PTL DEF Spec
(***************************************************************************)
(* Whose certificates are deleted.  A certificate is the provider's own if *)
(* Let's Encrypt issued it or it has the common name and day of expiry of  *)
(* one that the Secret has had.                                            *)
(***************************************************************************)
OwnFace(type, f) == type = "lets_encrypt" \/ \E h \in held : face(h) = f
OwnCert(c) == OwnFace(certs[c].type, face(certs[c].ident))
OwnMarker(m) == m # None => OwnFace(m.type, m.face)

\* The marker, stored and in memory, names an own certificate although its id may have
\* been reused since; what Update is about to delete is there and its own, unless the
\* panel acted after Update had read the certificates.
OwnInv ==
  /\ secret # None => secret \in held
  /\ OwnMarker(st.marker) /\ OwnMarker(mem.marker)
  /\ pc = "act" /\ act.kind = "deleteOld" /\ ~foreign => act.target \in Live /\ OwnCert(act.target)

\* What computeSSL may answer: an own marker, and no deletion but of an own certificate.
OwnOutcome(out) ==
  /\ OwnMarker(out.st.marker)
  /\ out.action.kind = "deleteOld" => out.action.target \in Live /\ OwnCert(out.action.target)

LEMMA OutcomeOwn ==
  ASSUME NEW m \in sslStatus, NEW state, NEW marker, NEW kind, NEW target, OwnMarker(marker),
         kind = "deleteOld" => target \in Live /\ OwnCert(target)
  PROVE  OwnOutcome(Outcome(m, state, marker, kind, target))
<1>1. [m EXCEPT !.state = state, !.marker = marker].marker = marker
  BY DEF sslStatus
<1>2. /\ Outcome(m, state, marker, kind, target).st.marker = marker
      /\ Outcome(m, state, marker, kind, target).action.kind = kind
      /\ Outcome(m, state, marker, kind, target).action.target = target
  BY <1>1 DEF Outcome
<1> QED BY <1>2 DEF OwnOutcome

\* The marker of an own certificate, and what an own marker matches, are own.
LEMMA MarkerOwn ==
  /\ \A c : OwnCert(c) => OwnMarker(markerFor(c))
  /\ \A m, c : OwnMarker(m) /\ managedMatches(m, c) => OwnCert(c)
<1>1. \A c : markerFor(c).type = certs[c].type /\ markerFor(c).face = face(certs[c].ident)
  BY DEF markerFor
<1> QED BY <1>1 DEF OwnMarker, OwnCert, managedMatches

\* A certificate with the identity in the Secret is own.
LEMMA SecretOwn ==
  ASSUME NEW c, certs[c].ident \in held
  PROVE  OwnCert(c)
  BY DEF OwnCert, OwnFace

LEMMA CustomOwn ==
  ASSUME NEW m \in sslStatus, OwnMarker(m.marker), NEW ident \in held, NEW bound, NEW fresh
  PROVE  OwnOutcome(customSSL(m, ident, bound, fresh))
<1> DEFINE matches == {c \in certificatesForMode("custom") : certs[c].ident = ident}
           match == First(matches)
<1>1. CASE matches = {}
  <2>1. OwnOutcome(uploadStep(m, fresh))
    BY OutcomeOwn DEF uploadStep
  <2> QED BY <1>1, <2>1 DEF customSSL
<1>2. CASE matches # {} /\ bound # match
  <2>1. OwnOutcome(Outcome(m, "pending", m.marker, "bind", match))
    BY OutcomeOwn
  <2> QED BY <1>2, <2>1 DEF customSSL
<1>3. CASE matches # {} /\ bound = match
  <2>1. match \in matches
    BY <1>3, FirstIn DEF certificatesForMode, Live
  <2>2. OwnMarker(markerFor(match))
    BY <2>1, SecretOwn, MarkerOwn
  <2> DEFINE marker == IF m.marker = None THEN markerFor(match) ELSE m.marker
             old    == {c \in Live : marker.id # match /\ managedMatches(marker, c)}
             now    == IF marker.id # match /\ old = {} THEN markerFor(match) ELSE marker
             copies == {c \in Live : c # match /\ certs[c].ident = ident}
  <2>3. OwnMarker(marker) /\ OwnMarker(now)
    BY <2>2
  <2>4. old # {} => First(old) \in Live /\ OwnCert(First(old))
    <3>1. old # {} => First(old) \in old
      BY FirstIn DEF Live
    <3> QED BY <2>3, <3>1, MarkerOwn
  <2>5. copies # {} => First(copies) \in Live /\ OwnCert(First(copies))
    <3>1. copies # {} => First(copies) \in copies
      BY FirstIn DEF Live
    <3> QED BY <3>1, SecretOwn
  <2> HIDE DEF now, old, copies
  <2>6. old # {} => OwnOutcome(Outcome(m, "bound", now, "deleteOld", First(old)))
    BY <2>3, <2>4, OutcomeOwn
  <2>7. copies # {} => OwnOutcome(Outcome(m, "bound", now, "deleteOld", First(copies)))
    BY <2>3, <2>5, OutcomeOwn
  <2>8. OwnOutcome(Outcome(m, "bound", now, "none", None))
    BY <2>3, OutcomeOwn
  <2>9. OwnOutcome(boundStep(m, ident, match))
    BY <2>6, <2>7, <2>8 DEF boundStep, now, old, copies
  <2> QED BY <1>3, <2>9 DEF customSSL
<1> QED BY <1>1, <1>2, <1>3

LEMMA LetsEncryptOwn ==
  ASSUME NEW m \in sslStatus, OwnMarker(m.marker), NEW bound, NEW attached
  PROVE  OwnOutcome(letsEncryptSSL(m, bound, attached))
<1> DEFINE le == certificatesForMode("letsEncrypt")
<1>1. CASE le = {}
  <2>1. \A state : OwnOutcome(Outcome(m, state, m.marker, "none", None))
    BY OutcomeOwn
  <2>2. OwnOutcome(Outcome(m, "pending", m.marker, "issue", None))
    BY OutcomeOwn
  <2>3. m.attempts < MaxIssueAttempts \/ m.attempts >= MaxIssueAttempts
    BY Fields, Bounds
  <2>4. OwnOutcome(issueStep(m, attached))
    BY <2>1, <2>2, <2>3 DEF issueStep
  <2> QED BY <1>1, <2>4 DEF letsEncryptSSL
<1>2. CASE le # {}
  <2>1. certs[First(le)].type = "lets_encrypt"
    BY <1>2, FirstIn DEF certificatesForMode, Live
  <2>2. OwnMarker(markerFor(First(le)))
    BY <2>1, MarkerOwn DEF OwnCert, OwnFace
  <2>3. OwnOutcome(Outcome(m, "pending", m.marker, "bind", First(le)))
    BY OutcomeOwn
  <2>4. OwnOutcome(Outcome(m, "bound", IF m.marker = None THEN markerFor(First(le)) ELSE m.marker,
                           "none", None))
    BY <2>2, OutcomeOwn
  <2> QED BY <1>2, <2>3, <2>4 DEF letsEncryptSSL
<1> QED BY <1>1, <1>2

LEMMA NoneOwn ==
  ASSUME NEW m \in sslStatus, OwnMarker(m.marker), NEW bound
  PROVE  OwnOutcome(noneSSL(m, bound))
<1> DEFINE old == {c \in certificatesForMode("none") : managedMatches(m.marker, c)}
<1>1. old # {} => First(old) \in Live /\ OwnCert(First(old))
  <2>1. old # {} => First(old) \in old
    BY FirstIn DEF certificatesForMode, Live
  <2> QED BY <2>1, MarkerOwn DEF certificatesForMode
<1> HIDE DEF old
<1>2. OwnOutcome(Outcome(m, "pending", m.marker, "unbind", None))
  BY OutcomeOwn
<1>3. old # {} => OwnOutcome(Outcome(m, "pending", m.marker, "deleteOld", First(old)))
  BY <1>1, OutcomeOwn
<1>4. OwnMarker(None)
  BY DEF OwnMarker
<1>5. OwnOutcome(Outcome(m, "", None, "none", None))
  BY <1>4, OutcomeOwn
<1> QED BY <1>2, <1>3, <1>5 DEF noneSSL, old

\* Whatever the mode, computeSSL deletes what is its own.
LEMMA ComputeOwn ==
  ASSUME NEW m \in sslStatus, OwnMarker(m.marker), NEW s \in Specs, NEW ident, NEW read,
         s.mode = "custom" => ident \in held
  PROVE  OwnOutcome(computeSSL(m, s, ident, read))
<1> DEFINE fresh == sslBudgetKey(s, ident) # m.key
           now   == IF fresh THEN [m EXCEPT !.attempts = 0] ELSE m
           ready == s.conf["domains"] \in {None, read.conf["domains"]}
<1>0. s.mode \in Modes
  BY CdnAssumption
<1>1. now \in sslStatus /\ now.marker = m.marker
  <2>1. 0 \in 0..MaxIssueAttempts
    BY Bounds
  <2> QED BY <2>1 DEF sslStatus
<1> HIDE DEF fresh, ready, now
<1>2. CASE s.mode = "custom"
  <2>1. OwnOutcome(customSSL(now, ident, read.bound, fresh))
    BY <1>1, <1>2, CustomOwn
  <2> QED BY <1>2, <2>1 DEF computeSSL, now, fresh
<1>3. CASE s.mode = "letsEncrypt"
  <2>1. OwnOutcome(letsEncryptSSL(now, read.bound, ready))
    BY <1>1, LetsEncryptOwn
  <2> QED BY <1>3, <2>1 DEF computeSSL, now, fresh, ready
<1>4. CASE s.mode = "none"
  <2>1. OwnOutcome(noneSSL(now, read.bound))
    BY <1>1, NoneOwn
  <2> QED BY <1>4, <2>1 DEF computeSSL, now, fresh
<1>5. CASE s.mode = "absent"
  <2>1. OwnOutcome(Outcome(m, m.state, m.marker, "none", None))
    BY OutcomeOwn
  <2> QED BY <1>5, <2>1 DEF computeSSL
<1> QED BY <1>0, <1>2, <1>3, <1>4, <1>5 DEF Modes

\* What is own stays own: the Secret's identities are not forgotten.
LEMMA OwnKept ==
  ASSUME held \subseteq held'
  PROVE  \A m : OwnMarker(m) => OwnMarker(m)'
<1>1. \A t, f : OwnFace(t, f) => OwnFace(t, f)'
  BY DEF OwnFace
<1> QED BY <1>1 DEF OwnMarker

\* A certificate that is there and stays as it is stays own.
LEMMA OwnCertKept ==
  ASSUME held \subseteq held', NEW c \in Live, OwnCert(c), certs'[c] = certs[c]
  PROVE  c \in Live' /\ OwnCert(c)'
<1>1. \A t, f : OwnFace(t, f) => OwnFace(t, f)'
  BY DEF OwnFace
<1> QED BY <1>1 DEF OwnCert, Live

\* The steps that end a pass store the marker in memory, or leave the stored one.
LEMMA EndOwn ==
  ASSUME OwnInv, EndPass, UNCHANGED <<secret, held>>, OwnMarker(mem'.marker)
  PROVE  OwnInv'
<1>1. OwnMarker(st.marker) /\ (st' = st \/ st' = mem') /\ pc' = "idle"
  BY DEF OwnInv, EndPass
<1>2. OwnMarker(st'.marker)
  BY <1>1
<1>3. OwnMarker(st.marker)' /\ OwnMarker(mem.marker)'
  BY <1>2 DEF OwnMarker, OwnFace
<1> QED BY <1>1, <1>3 DEF OwnInv

\* Steps that leave both markers, and what Update has decided on.
LEMMA LeftOwn ==
  ASSUME OwnInv, held \subseteq held', secret' # None => secret' \in held',
         st'.marker = st.marker, mem'.marker = mem.marker,
         \/ pc' # "act"
         \/ pc' = pc /\ act' = act /\ (foreign' \/ (foreign' = foreign /\ \A c \in Live : certs'[c] = certs[c]))
  PROVE  OwnInv'
<1>1. OwnMarker(st.marker)' /\ OwnMarker(mem.marker)'
  BY OwnKept DEF OwnInv
<1>2. ASSUME pc' = "act", act'.kind = "deleteOld", ~foreign'
      PROVE  act'.target \in Live' /\ OwnCert(act.target)'
  <2>1. act.target \in Live /\ OwnCert(act.target) /\ certs'[act.target] = certs[act.target] /\ act' = act
    BY <1>2 DEF OwnInv
  <2> QED BY <2>1, OwnCertKept
<1> QED BY <1>1, <1>2 DEF OwnInv

\* Every step keeps to own markers and own targets.
LEMMA OwnStep == BudgetInv /\ OwnInv /\ [Next]_vars => OwnInv'
<1> SUFFICES ASSUME BudgetInv, OwnInv, [Next]_vars PROVE OwnInv'
    OBVIOUS
<1>a. /\ st \in sslStatus /\ mem \in sslStatus /\ sp \in Specs /\ secret \in Idents \cup {None}
      /\ OwnMarker(st.marker) /\ OwnMarker(mem.marker) /\ (secret # None => secret \in held)
  BY DEF BudgetInv, TypeOK, OwnInv
<1>b. \A m \in sslStatus :
        /\ [m EXCEPT !.cooling = FALSE].marker = m.marker
        /\ [m EXCEPT !.cooling = TRUE].marker = m.marker
        /\ [m EXCEPT !.state = "failed"].marker = m.marker
        /\ [m EXCEPT !.marker = None].marker = None
        /\ \A n : [m EXCEPT !.attempts = n, !.cooling = TRUE].marker = m.marker
        /\ \A n : [m EXCEPT !.attempts = n, !.cooling = FALSE].marker = m.marker
  BY DEF sslStatus
<1>c. afterRetry \in sslStatus /\ afterRetry.marker = mem.marker
  <2>1. PassOK
    BY Parts
  <2> QED BY <2>1, <1>a, <1>b, RetryType DEF afterRetry
<1>1. CASE Observe
  <2>1. pc' # "act" /\ mem' = st /\ st' = st /\ UNCHANGED <<secret, held>>
    BY <1>1 DEF Observe
  <2>2. OwnMarker(st.marker)' /\ OwnMarker(mem.marker)'
    BY <2>1, <1>a DEF OwnMarker, OwnFace
  <2> QED BY <2>1, <2>2, <1>a DEF OwnInv
<1>2. CASE handlePurge \/ removePurgeAnnotation
  <2>1. mem' = mem /\ UNCHANGED <<secret, held>>
    BY <1>2 DEF handlePurge, removePurgeAnnotation
  <2>2. CASE EndPass
    BY <2>1, <2>2, <1>a, EndOwn
  <2>3. CASE ~EndPass
    <3>1. pc' # "act" /\ st' = st
      BY <1>2, <2>3 DEF handlePurge, removePurgeAnnotation, GoTo
    <3> QED BY <2>1, <3>1, <1>a, LeftOwn
  <2> QED BY <2>2, <2>3
<1>3. CASE observeSSL
  <2> DEFINE out == computeSSL(afterRetry, sp, secret, up)
  <2>1. sp.mode = "custom" => secret \in held
    BY <1>3, <1>a DEF observeSSL, SecretResolves
  <2>2. OwnOutcome(out)
    BY <2>1, <1>a, <1>c, ComputeOwn
  <2>3. out.st \in sslStatus
    BY <1>a, <1>c, ComputeSound DEF BudgetInv, Sound
  <2>4. /\ mem' = IF sp.mode = "absent" THEN mem ELSE [out.st EXCEPT !.key = sslBudgetKey(sp, secret)]
        /\ UNCHANGED <<secret, held>>
        /\ \/ EndPass
           \/ pc' = "update" /\ st' = st
    BY <1>3 DEF observeSSL, GoTo
  <2> HIDE DEF out
  <2>5. OwnMarker(mem'.marker)
    <3>1. [out.st EXCEPT !.key = sslBudgetKey(sp, secret)].marker = out.st.marker
      BY <2>3 DEF sslStatus
    <3> QED BY <2>2, <2>4, <3>1, <1>a DEF OwnOutcome
  <2>6. CASE EndPass
    BY <2>4, <2>5, <2>6, EndOwn
  <2>7. CASE pc' = "update" /\ st' = st
    <3>1. OwnMarker(st.marker)' /\ OwnMarker(mem.marker)'
      BY <2>4, <2>5, <2>7, <1>a DEF OwnMarker, OwnFace
    <3> QED BY <2>4, <2>7, <3>1, <1>a DEF OwnInv
  <2> QED BY <2>4, <2>6, <2>7
<1>4. CASE ObserveEnds \/ UpdateFails \/ PatchCDNHTTPResource
  <2>1. EndPass /\ UNCHANGED <<secret, held>> /\ (mem' = mem \/ mem' = afterRetry)
    BY <1>4 DEF ObserveEnds, UpdateFails, PatchCDNHTTPResource
  <2>2. OwnMarker(mem'.marker)
    BY <2>1, <1>a, <1>c
  <2> QED BY <2>1, <2>2, EndOwn
<1>5. CASE Update
  <2> DEFINE out == computeSSL(mem, sp, secret, up)
  <2>1. mem' = mem /\ UNCHANGED <<secret, held, certs, foreign>>
    BY <1>5 DEF Update, upstream
  <2>2. CASE EndPass
    BY <2>1, <2>2, <1>a, EndOwn
  <2>3. CASE ~EndPass
    <3>1. /\ SecretResolves(sp) /\ st' = st
          /\ act'.kind = out.action.kind /\ act'.target = out.action.target
      BY <1>5, <2>3 DEF Update, GoTo
    <3>2. OwnOutcome(out)
      BY <3>1, <1>a, ComputeOwn DEF SecretResolves
    <3> HIDE DEF out
    <3>3. act'.kind = "deleteOld" => act'.target \in Live /\ OwnCert(act'.target)
      BY <3>1, <3>2 DEF OwnOutcome
    <3>4. OwnMarker(st.marker)' /\ OwnMarker(mem.marker)'
      BY <2>1, <3>1, <1>a DEF OwnMarker, OwnFace
    <3>5. act'.kind = "deleteOld" => act'.target \in Live' /\ OwnCert(act.target)'
      BY <2>1, <3>3 DEF OwnCert, OwnFace, Live
    <3> QED BY <2>1, <3>4, <3>5, <1>a DEF OwnInv
  <2> QED BY <2>2, <2>3
<1>6. CASE executeSSLAction
  <2>1. EndPass /\ UNCHANGED <<secret, held>>
    BY <1>6 DEF executeSSLAction
  <2>2. mem'.marker \in {mem.marker, None}
    <3>1. \/ mem' = mem \/ mem' = [mem EXCEPT !.state = "failed"] \/ mem' = [mem EXCEPT !.cooling = TRUE]
          \/ mem' = [mem EXCEPT !.attempts = mem.attempts + 1, !.cooling = TRUE]
          \/ mem' = [mem EXCEPT !.marker = None]
      BY <1>6 DEF executeSSLAction, upload, issue, bind, unbind, deleteOld
    <3>2. [mem EXCEPT !.attempts = mem.attempts + 1, !.cooling = TRUE].marker = mem.marker
      BY <1>a, <1>b
    <3>3. /\ [mem EXCEPT !.state = "failed"].marker = mem.marker
          /\ [mem EXCEPT !.cooling = TRUE].marker = mem.marker
          /\ [mem EXCEPT !.marker = None].marker = None
      BY <1>a, <1>b
    <3> QED BY <3>1, <3>2, <3>3
  <2>3. OwnMarker(mem'.marker)
    BY <2>2, <1>a DEF OwnMarker
  <2> QED BY <2>1, <2>3, EndOwn
<1>7. CASE TimePasses
  <2>1. /\ st'.marker = st.marker /\ mem'.marker = mem.marker
        /\ UNCHANGED <<pc, act, foreign, certs, secret, held>>
    BY <1>7, <1>a, <1>b DEF TimePasses, local, upstream
  <2> QED BY <2>1, <1>a, LeftOwn
<1>8. CASE TaskEnds
  <2>1. UNCHANGED <<st, mem, pc, act, foreign, secret, held>>
    BY <1>8 DEF TaskEnds, local
  <2>2. certs' = certs \/ \E c \in Free : \E cert : certs' = [certs EXCEPT ![c] = cert]
    BY <1>8 DEF TaskEnds
  <2>3. \A c \in Live : certs'[c] = certs[c]
    BY <2>2 DEF Free, BudgetInv, TypeOK, Live
  <2> QED BY <2>1, <2>3, <1>a, LeftOwn
<1>9. CASE Panel
  <2>1. UNCHANGED <<st, mem, pc, act, secret, held>> /\ foreign' = (pc = "act" \/ foreign)
    BY <1>9 DEF Panel, local
  <2> QED BY <2>1, <1>a, LeftOwn
<1>10. CASE EditSpec \/ Annotate
  <2>1. UNCHANGED <<st, mem, pc, act, foreign, certs, secret, held>>
    BY <1>10 DEF EditSpec, Annotate, local, upstream
  <2> QED BY <2>1, <1>a, LeftOwn
<1>11. CASE RotateSecret
  <2>1. /\ UNCHANGED <<st, mem, pc, act, foreign, certs>>
        /\ held \subseteq held' /\ (secret' # None => secret' \in held')
    BY <1>11 DEF RotateSecret, local, upstream
  <2> QED BY <2>1, LeftOwn
<1>12. CASE Crash
  <2>1. UNCHANGED <<st, mem, secret, held>> /\ pc' = "idle"
    BY <1>12 DEF Crash
  <2> QED BY <2>1, <1>a, LeftOwn
<1>13. CASE UNCHANGED vars
  <2>1. UNCHANGED <<st, mem, pc, act, foreign, certs, secret, held>>
    BY <1>13 DEF vars
  <2> QED BY <2>1, <1>a, LeftOwn
<1> QED
  BY <1>1, <1>2, <1>3, <1>4, <1>5, <1>6, <1>7, <1>8, <1>9, <1>10, <1>11, <1>12, <1>13
     DEF Next, Reconcile

LEMMA OwnInit == Init => OwnInv
<1> SUFFICES ASSUME Init PROVE OwnInv
    OBVIOUS
<1>1. secret \in held /\ pc = "idle" /\ mem = st
  BY DEF Init
<1>2. st.marker = None
  BY DEF Init
<1> QED BY <1>1, <1>2 DEF OwnInv, OwnMarker

\* A step that is not the panel's deletes no certificate but the one Update decided on.
LEMMA DeletesDecided ==
  ASSUME BudgetInv, [Next]_vars, NEW c \in Live, certs'[c] = None, moves' = moves
  PROVE  pc = "act" /\ act.kind = "deleteOld" /\ c = act.target
<1>a. certs \in [CertIds -> Certificate \cup {None}] /\ moves \in Nat /\ certs[c] # None /\ c \in CertIds
  BY Bounds DEF BudgetInv, TypeOK, Live
<1>b. ASSUME NEW d \in Free, NEW cert, certs' = [certs EXCEPT ![d] = cert] PROVE FALSE
  BY <1>a, <1>b DEF Free
<1>1. CASE executeSSLAction
  <2>1. CASE deleteOld
    <3>1. certs' = [d \in CertIds |-> IF d = act.target THEN None ELSE certs[d]]
      BY <2>1, <1>a DEF deleteOld
    <3> QED BY <1>1, <2>1, <3>1, <1>a DEF executeSSLAction, deleteOld
  <2>2. CASE ~deleteOld
    BY <1>1, <2>2, <1>a, <1>b DEF executeSSLAction, upload, Uploaded, issue, bind, unbind
  <2> QED BY <2>1, <2>2
<1>2. CASE TaskEnds
  BY <1>2, <1>a, <1>b DEF TaskEnds
<1>3. CASE Panel
  BY <1>3, <1>a DEF Panel
<1>4. CASE certs' = certs
  BY <1>4, <1>a
<1>5. ~executeSSLAction /\ ~TaskEnds /\ ~Panel => certs' = certs
  BY DEF Next, Reconcile, Observe, handlePurge, removePurgeAnnotation, observeSSL, ObserveEnds, Update,
     UpdateFails, PatchCDNHTTPResource, TimePasses, EditSpec, Annotate, RotateSecret, Crash, upstream, vars
<1> QED BY <1>1, <1>2, <1>3, <1>4, <1>5

\* Whatever is in the account and whoever adds to it, the provider deletes a certificate
\* only if Let's Encrypt issued it or it has the common name and day of expiry of one the
\* Secret has had, through rotations, crashes, lost status writes and reused ids, unless
\* somebody works in the panel between Update's read and its call.
THEOREM OnlyOwnDeleted ==
  Spec => [][\A c \in Live : certs'[c] = None /\ moves' = moves => OwnCert(c) \/ foreign]_vars
<1>1. Init => BudgetInv /\ OwnInv
  BY BudgetInit, OwnInit
<1>2. BudgetInv /\ OwnInv /\ [Next]_vars => (BudgetInv /\ OwnInv)'
  BY BudgetStep, OwnStep
<1>3. BudgetInv /\ OwnInv /\ [Next]_vars =>
        [\A c \in Live : certs'[c] = None /\ moves' = moves => OwnCert(c) \/ foreign]_vars
  BY DeletesDecided DEF OwnInv
<1> QED BY <1>1, <1>2, <1>3, PTL DEF Spec

\* So managedMatches does what it is for (ForeignKept) as long as no two certificates
\* share the common name and the day of expiry, which is all the marker compares besides
\* the type and the id.
THEOREM ForeignSafe ==
  ASSUME \A i \in Idents, j \in Idents \cup {LE} : face(i) = face(j) => i = j
  PROVE  Spec => ForeignKept
<1>1. Init => BudgetInv /\ OwnInv
  BY BudgetInit, OwnInit
<1>2. BudgetInv /\ OwnInv /\ [Next]_vars => (BudgetInv /\ OwnInv)'
  BY BudgetStep, OwnStep
<1>3. ASSUME BudgetInv, NEW c \in Live, OwnCert(c)
      PROVE  certs[c].type = "lets_encrypt" \/ certs[c].ident \in held
  <2>1. certs[c].ident \in Idents \cup {LE} /\ held \subseteq Idents
    BY <1>3 DEF BudgetInv, TypeOK, Live, Certificate
  <2> QED BY <1>3, <2>1 DEF OwnCert, OwnFace
<1>4. BudgetInv /\ OwnInv /\ [Next]_vars =>
        [\A c \in Live : certs'[c] = None /\ moves' = moves =>
           certs[c].type = "lets_encrypt" \/ certs[c].ident \in held \/ foreign]_vars
  BY <1>3, DeletesDecided DEF OwnInv
<1> QED BY <1>1, <1>2, <1>4, PTL DEF Spec, ForeignKept

(***************************************************************************)
(* What the resource is made to serve.                                     *)
(***************************************************************************)
\* The certificate is one that a declaration asks for: of the identity in the Secret,
\* or of Let's Encrypt.
Fits(mode, ident, c) ==
  \/ mode = "custom" /\ certs[c].ident = ident
  \/ mode = "letsEncrypt" /\ certs[c].type = "lets_encrypt"

\* computeSSL unbinds only where no certificate is declared and binds one that fits.
FitOutcome(out, mode, ident) ==
  /\ out.action.kind = "unbind" => mode = "none"
  /\ out.action.kind = "bind" => out.action.target \in Live /\ Fits(mode, ident, out.action.target)

LEMMA OutcomeFit ==
  ASSUME NEW m, NEW state, NEW marker, NEW kind, NEW target, NEW mode, NEW ident,
         kind = "unbind" => mode = "none",
         kind = "bind" => target \in Live /\ Fits(mode, ident, target)
  PROVE  FitOutcome(Outcome(m, state, marker, kind, target), mode, ident)
<1>1. /\ Outcome(m, state, marker, kind, target).action.kind = kind
      /\ Outcome(m, state, marker, kind, target).action.target = target
  BY DEF Outcome
<1> QED BY <1>1 DEF FitOutcome

LEMMA CustomFit ==
  ASSUME NEW m, NEW ident, NEW bound, NEW fresh
  PROVE  FitOutcome(customSSL(m, ident, bound, fresh), "custom", ident)
<1> DEFINE matches == {c \in certificatesForMode("custom") : certs[c].ident = ident}
           match == First(matches)
<1>1. \A state, marker, target : FitOutcome(Outcome(m, state, marker, "none", target), "custom", ident)
  BY OutcomeFit
<1>2. \A state, marker, target : FitOutcome(Outcome(m, state, marker, "upload", target), "custom", ident)
  BY OutcomeFit
<1>3. \A state, marker, target : FitOutcome(Outcome(m, state, marker, "deleteOld", target), "custom", ident)
  BY OutcomeFit
<1>4. FitOutcome(uploadStep(m, fresh), "custom", ident)
  BY <1>1, <1>2 DEF uploadStep
<1>5. FitOutcome(boundStep(m, ident, match), "custom", ident)
  <2> HIDE DEF match
  <2>1. \/ \E x, y, z : boundStep(m, ident, match) = Outcome(m, x, y, "deleteOld", z)
        \/ \E x, y, z : boundStep(m, ident, match) = Outcome(m, x, y, "none", z)
    BY Zenon DEF boundStep
  <2> QED BY <2>1, <1>1, <1>3
<1>6. matches # {} => FitOutcome(Outcome(m, "pending", m.marker, "bind", match), "custom", ident)
  <2>1. matches # {} => match \in matches /\ match \in Live
    BY FirstIn DEF certificatesForMode, Live
  <2> HIDE DEF match
  <2> QED BY <2>1, OutcomeFit DEF Fits
<1> QED BY <1>4, <1>5, <1>6 DEF customSSL

LEMMA LetsEncryptFit ==
  ASSUME NEW m \in sslStatus, NEW ident, NEW bound, NEW attached
  PROVE  FitOutcome(letsEncryptSSL(m, bound, attached), "letsEncrypt", ident)
<1> DEFINE le == certificatesForMode("letsEncrypt")
<1>1. \A state, marker : FitOutcome(Outcome(m, state, marker, "none", None), "letsEncrypt", ident)
  BY OutcomeFit
<1>2. FitOutcome(Outcome(m, "pending", m.marker, "issue", None), "letsEncrypt", ident)
  BY OutcomeFit
<1>3. FitOutcome(issueStep(m, attached), "letsEncrypt", ident)
  <2>1. m.attempts < MaxIssueAttempts \/ m.attempts >= MaxIssueAttempts
    BY Fields, Bounds
  <2> QED BY <1>1, <1>2, <2>1 DEF issueStep
<1>4. le # {} => FitOutcome(Outcome(m, "pending", m.marker, "bind", First(le)), "letsEncrypt", ident)
  <2>1. le # {} => First(le) \in le /\ le \subseteq Live
    BY FirstIn DEF certificatesForMode, Live
  <2>2. le # {} => First(le) \in Live /\ certs[First(le)].type = "lets_encrypt"
    BY <2>1 DEF certificatesForMode
  <2> QED BY <2>2, OutcomeFit DEF Fits
<1> QED BY <1>1, <1>3, <1>4 DEF letsEncryptSSL

LEMMA NoneFit ==
  ASSUME NEW m, NEW ident, NEW bound
  PROVE  FitOutcome(noneSSL(m, bound), "none", ident)
<1>1. \A state, marker, target : FitOutcome(Outcome(m, state, marker, "none", target), "none", ident)
  BY OutcomeFit
<1>2. \A state, marker, target : FitOutcome(Outcome(m, state, marker, "unbind", target), "none", ident)
  BY OutcomeFit
<1>3. \A state, marker, target : FitOutcome(Outcome(m, state, marker, "deleteOld", target), "none", ident)
  BY OutcomeFit
<1> QED BY <1>1, <1>2, <1>3, Zenon DEF noneSSL

LEMMA ComputeFit ==
  ASSUME NEW m \in sslStatus, NEW s \in Specs, NEW ident, NEW read
  PROVE  FitOutcome(computeSSL(m, s, ident, read), s.mode, ident)
<1> DEFINE fresh == sslBudgetKey(s, ident) # m.key
           now   == IF fresh THEN [m EXCEPT !.attempts = 0] ELSE m
           ready == s.conf["domains"] \in {None, read.conf["domains"]}
<1>0. s.mode \in Modes
  BY CdnAssumption
<1>1. now \in sslStatus
  <2>1. 0 \in 0..MaxIssueAttempts
    BY Bounds
  <2> QED BY <2>1 DEF sslStatus
<1> HIDE DEF fresh, ready, now
<1>2. CASE s.mode = "custom"
  <2>1. FitOutcome(customSSL(now, ident, read.bound, fresh), "custom", ident)
    BY CustomFit
  <2> QED BY <1>2, <2>1 DEF computeSSL, now, fresh
<1>3. CASE s.mode = "letsEncrypt"
  <2>1. FitOutcome(letsEncryptSSL(now, read.bound, ready), "letsEncrypt", ident)
    BY <1>1, LetsEncryptFit
  <2> QED BY <1>3, <2>1 DEF computeSSL, now, fresh, ready
<1>4. CASE s.mode = "none"
  <2>1. FitOutcome(noneSSL(now, read.bound), "none", ident)
    BY NoneFit
  <2> QED BY <1>4, <2>1 DEF computeSSL, now, fresh
<1>5. CASE s.mode = "absent"
  <2>1. FitOutcome(Outcome(m, m.state, m.marker, "none", None), "absent", ident)
    BY OutcomeFit
  <2> QED BY <1>5, <2>1 DEF computeSSL
<1> QED BY <1>0, <1>2, <1>3, <1>4, <1>5 DEF Modes

\* What Update has decided to unbind or to bind is as declared, unless the panel acted
\* after Update had read the certificates.
FitInv ==
  pc = "act" =>
    /\ act.kind = "unbind" => sp.mode = "none"
    /\ act.kind = "bind" /\ ~foreign => act.target \in Live /\ Fits(sp.mode, act.ident, act.target)

\* A step that leaves the decision, and every certificate that is there.
LEMMA LeftFit ==
  ASSUME FitInv, UNCHANGED <<pc, act, sp>>,
         foreign' \/ (foreign' = foreign /\ \A c \in Live : certs'[c] = certs[c])
  PROVE  FitInv'
<1> SUFFICES ASSUME pc' = "act" PROVE (/\ act.kind = "unbind" => sp.mode = "none"
    /\ act.kind = "bind" /\ ~foreign => act.target \in Live /\ Fits(sp.mode, act.ident, act.target))'
  BY DEF FitInv
<1>1. act'.kind = "unbind" => sp'.mode = "none"
  BY DEF FitInv
<1>2. ASSUME act'.kind = "bind", ~foreign'
      PROVE  act'.target \in Live' /\ Fits(sp.mode, act.ident, act.target)'
  <2>1. act.target \in Live /\ Fits(sp.mode, act.ident, act.target) /\ certs'[act.target] = certs[act.target]
    BY <1>2 DEF FitInv
  <2> QED BY <2>1 DEF Fits, Live
<1> QED BY <1>1, <1>2

LEMMA FitStep == BudgetInv /\ FitInv /\ [Next]_vars => FitInv'
<1> SUFFICES ASSUME BudgetInv, FitInv, [Next]_vars PROVE FitInv'
  OBVIOUS
<1>a. mem \in sslStatus /\ sp \in Specs /\ certs \in [CertIds -> Certificate \cup {None}]
  BY DEF BudgetInv, TypeOK
<1>1. ASSUME pc' # "act" PROVE FitInv'
  BY <1>1 DEF FitInv
<1>2. CASE Update
  <2> DEFINE out == computeSSL(mem, sp, secret, up)
  <2>1. CASE pc' # "act"
    BY <1>1, <2>1
  <2>2. CASE pc' = "act"
    <3>1. /\ act'.kind = out.action.kind /\ act'.target = out.action.target /\ act'.ident = secret
          /\ sp' = sp /\ certs' = certs
      BY <1>2, <2>2 DEF Update, GoTo, EndPass, upstream
    <3>2. FitOutcome(out, sp.mode, secret)
      BY <1>a, ComputeFit
    <3> HIDE DEF out
    <3>3. /\ act'.kind = "unbind" => sp.mode = "none"
          /\ act'.kind = "bind" => act'.target \in Live /\ Fits(sp.mode, act'.ident, act'.target)
      BY <3>1, <3>2 DEF FitOutcome
    <3> QED BY <3>1, <3>3 DEF FitInv, Fits, Live
  <2> QED BY <2>1, <2>2
<1>3. CASE \/ Observe \/ handlePurge \/ removePurgeAnnotation \/ observeSSL \/ ObserveEnds
           \/ UpdateFails \/ PatchCDNHTTPResource \/ executeSSLAction \/ Crash
  <2>1. pc' # "act"
    BY <1>3 DEF Observe, handlePurge, removePurgeAnnotation, observeSSL, ObserveEnds, UpdateFails,
       PatchCDNHTTPResource, executeSSLAction, Crash, EndPass, GoTo
  <2> QED BY <1>1, <2>1
<1>4. CASE TimePasses \/ EditSpec \/ Annotate \/ RotateSecret \/ UNCHANGED vars
  <2>1. UNCHANGED <<pc, act, sp, foreign, certs>>
    BY <1>4 DEF TimePasses, EditSpec, Annotate, RotateSecret, vars, local, upstream
  <2> QED BY <2>1, LeftFit
<1>5. CASE TaskEnds
  <2>1. UNCHANGED <<pc, act, sp, foreign>>
    BY <1>5 DEF TaskEnds, local
  <2>2. certs' = certs \/ \E c \in Free : \E cert : certs' = [certs EXCEPT ![c] = cert]
    BY <1>5 DEF TaskEnds
  <2>3. \A c \in Live : certs'[c] = certs[c]
    BY <2>2, <1>a DEF Free, Live
  <2> QED BY <2>1, <2>3, LeftFit
<1>6. CASE Panel
  <2>1. UNCHANGED <<pc, act, sp>> /\ foreign' = (pc = "act" \/ foreign)
    BY <1>6 DEF Panel, local
  <2>2. CASE pc = "act"
    BY <2>1, <2>2, LeftFit
  <2>3. CASE pc # "act"
    BY <1>1, <2>1, <2>3
  <2> QED BY <2>2, <2>3
<1> QED BY <1>2, <1>3, <1>4, <1>5, <1>6 DEF Next, Reconcile

\* What a reconcile may do to the resource: sections become as declared, the slot is
\* emptied only where no certificate is declared, and filled with one that fits.
Served ==
  /\ \A x \in Sections : up'.conf[x] # up.conf[x] => sp.conf[x] # None /\ up'.conf[x] = sp.conf[x]
  /\ up.bound # None /\ up'.bound = None => sp.mode = "none"
  /\ up'.bound \notin {up.bound, None} => foreign \/ Fits(sp.mode, act.ident, up'.bound)

\* No reconcile writes a section that is not declared, takes the certificate away from a
\* resource that should have one, however the Secret is rotated, or binds another one
\* than that of the Secret it has read, or of Let's Encrypt: reused ids, crashes, edits,
\* late answers of Let's Encrypt and lost status writes notwithstanding, unless the
\* panel acts between Update's read and its call (ssl.go, Update of external.go).
THEOREM ServesTheDeclared == Spec => [][Reconcile => Served]_vars
<1>1. Init => BudgetInv /\ FitInv
  BY BudgetInit DEF Init, FitInv
<1>2. BudgetInv /\ FitInv /\ [Next]_vars => (BudgetInv /\ FitInv)'
  BY BudgetStep, FitStep
<1>3. ASSUME BudgetInv, FitInv, Reconcile PROVE Served
  <2>a. up \in [conf : [Sections -> Settings], bound : Live \cup {None}, suspended : BOOLEAN]
    BY <1>3 DEF BudgetInv, TypeOK
  <2>1. CASE PatchCDNHTTPResource
    <3> DEFINE conf == [x \in Sections |-> IF x \in act.sections THEN sp.conf[x] ELSE up.conf[x]]
    <3>1. up' = up \/ up' = [up EXCEPT !.conf = conf]
      BY <2>1 DEF PatchCDNHTTPResource
    <3>2. up'.bound = up.bound /\ (up'.conf = up.conf \/ up'.conf = conf)
      BY <2>a, <3>1
    <3>3. \A x \in act.sections : sp.conf[x] # None
      BY <1>3 DEF BudgetInv, Decided
    <3> QED BY <3>2, <3>3 DEF Served
  <2>2. CASE executeSSLAction
    <3>1. \/ up' = up
          \/ /\ pc = "act" /\ act.kind = "bind"
             /\ up' = [up EXCEPT !.bound = IF act.target \in Live THEN act.target ELSE up.bound]
          \/ pc = "act" /\ act.kind = "unbind" /\ up' = [up EXCEPT !.bound = None]
      BY <2>2 DEF executeSSLAction, upload, issue, bind, unbind, deleteOld
    <3>2. CASE up' = up
      BY <3>2 DEF Served
    <3>3. CASE /\ pc = "act" /\ act.kind = "bind"
               /\ up' = [up EXCEPT !.bound = IF act.target \in Live THEN act.target ELSE up.bound]
      <4>1. /\ up'.conf = up.conf
            /\ up'.bound = IF act.target \in Live THEN act.target ELSE up.bound
        BY <2>a, <3>3
      <4>2. foreign \/ Fits(sp.mode, act.ident, act.target)
        BY <1>3, <3>3 DEF FitInv
      <4>3. None \notin Live
        BY CdnAssumption DEF Live
      <4> QED BY <4>1, <4>2, <4>3 DEF Served
    <3>4. CASE pc = "act" /\ act.kind = "unbind" /\ up' = [up EXCEPT !.bound = None]
      <4>1. up'.conf = up.conf /\ up'.bound = None /\ sp.mode = "none"
        BY <1>3, <2>a, <3>4 DEF FitInv
      <4> QED BY <4>1 DEF Served
    <3> QED BY <3>1, <3>2, <3>3, <3>4
  <2>3. CASE ~PatchCDNHTTPResource /\ ~executeSSLAction
    <3>1. up' = up
      BY <1>3, <2>3 DEF Reconcile, Observe, handlePurge, removePurgeAnnotation, observeSSL, ObserveEnds,
         Update, upstream
    <3> QED BY <3>1 DEF Served
  <2> QED BY <2>1, <2>2, <2>3
<1>4. BudgetInv /\ FitInv => [Reconcile => Served]_vars
  BY <1>3
<1> QED BY <1>1, <1>2, <1>4, PTL DEF Spec
=============================================================================
