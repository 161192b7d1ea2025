--------------------------------- MODULE Cdn ---------------------------------
(***************************************************************************)
(* Observe and Update of one existing Cdn (internal/controller/cdn): the   *)
(* settings it owns, the certificate of its delivery domains (ssl.go), and *)
(* the purge and retry-ssl annotations.                                    *)
(*                                                                         *)
(* A reconcile makes one change upstream at most: the settings PATCH, or,  *)
(* once the settings are as declared, one certificate action.  Which       *)
(* certificate belongs to the provider is remembered in the status alone,  *)
(* and so are the attempts made at Let's Encrypt; Timeweb reuses the ids   *)
(* of certificates.                                                        *)
(*                                                                         *)
(* An identity is a pair: the common name and day of expiry, and the       *)
(* domains.  Settings are one section besides the delivery domains.        *)
(***************************************************************************)
EXTENDS Naturals, FiniteSets

CONSTANTS
  None,             \* no certificate, no marker, no Secret, nothing owned
  CertIds,          \* ids of certificates
  Idents,           \* identities of the certificates a TLS Secret may hold
  Trusted,          \* those Timeweb accepts
  Given,            \* the one the Secret starts with
  LE,               \* identity of the certificates Let's Encrypt issues
  Settings,         \* values of a section
  Fresh,            \* the one every section starts with
  Specs,            \* declarations the operator moves between
  MaxIssueAttempts, \* requests to Let's Encrypt in one budget
  MaxFaults,        \* requests that go wrong, and crashes
  MaxEdits,         \* edits, annotations and changes of the Secret
  MaxMoves          \* changes made in the Timeweb panel

Sections == {"domains", "other"}
Modes == {"absent", "none", "letsEncrypt", "custom"}

Certificate == [type : {"lets_encrypt", "custom"}, ident : Idents \cup {LE}]

ASSUME CdnAssumption ==
  /\ CertIds \subseteq Nat /\ Trusted \subseteq Idents /\ Given \in Idents /\ LE \notin Idents
  /\ None \notin CertIds /\ None \notin Idents /\ None \notin Settings /\ None \notin Certificate
  /\ Fresh \in Settings
  /\ Specs \subseteq [conf : [Sections -> Settings \cup {None}], mode : Modes]
  /\ MaxIssueAttempts \in Nat /\ MaxFaults \in Nat /\ MaxEdits \in Nat /\ MaxMoves \in Nat

face(ident) == ident[1]

VARIABLES
  spec,      \* stored spec.forProvider
  secret,    \* identity in the TLS Secret, or None: it is missing
  retry,     \* the retry-ssl annotation is there
  purge,     \* number of the purge request in the annotation, or 0
  st,        \* stored status.atProvider.ssl and managedCertificate
  up,        \* the resource upstream: settings, bound certificate, suspended
  certs,     \* certificates of the account
  task,      \* latest issuance task; "hidden": listed as failed, but tracked
  pc, sp, mem, act, \* of the reconcile: place, declaration, status, what Update will do
  asked,     \* purge request the reconcile has read
  dirty,     \* the stored object changed since the reconcile read it
  held,      \* identities the Secret has had
  purged,    \* purge request that was carried out last
  issued,    \* requests sent to Let's Encrypt in this budget
  lost,      \* charged requests whose status write was lost
  foreign,   \* the panel acted since Update read the certificates
  faults, edits, moves

vars == <<spec, secret, retry, purge, st, up, certs, task, pc, sp, mem, act, asked,
          dirty, held, purged, issued, lost, foreign, faults, edits, moves>>

annotations == <<retry, purge>>
upstream    == <<up, certs, task>>
ghosts      == <<purged, issued, lost>>
counters    == <<faults, edits, moves>>

Live == {c \in CertIds : certs[c] # None}

\* sslBudgetKey.
sslBudgetKey(s, ident) ==
  <<s.conf["domains"], s.mode, IF s.mode = "custom" THEN ident ELSE None>>

Keys == (Settings \cup {None}) \X Modes \X (Idents \cup {None})

Markers == [id : CertIds, type : {"lets_encrypt", "custom"}, face : {face(i) : i \in Idents \cup {LE}}]

sslStatus ==
  [state : {"", "pending", "issuing", "bound", "failed", "exhausted"}, key : Keys \cup {None},
   attempts : 0..MaxIssueAttempts, cooling : BOOLEAN, marker : Markers \cup {None}]

Actions == [kind : {"none", "issue", "upload", "bind", "unbind", "deleteOld"},
            target : CertIds \cup {None}, ident : Idents \cup {None}, sections : SUBSET Sections]

TypeOK ==
  /\ spec \in Specs /\ sp \in Specs
  /\ secret \in Idents \cup {None}
  /\ retry \in BOOLEAN /\ purge \in 0..MaxEdits /\ asked \in 0..MaxEdits /\ purged \in 0..MaxEdits
  /\ st \in sslStatus /\ mem \in sslStatus
  /\ up \in [conf : [Sections -> Settings], bound : Live \cup {None}, suspended : BOOLEAN]
  /\ certs \in [CertIds -> Certificate \cup {None}]
  /\ task \in {"none", "in_progress", "failed", "hidden"}
  /\ pc \in {"idle", "purge", "unannotate", "ssl", "update", "patch", "act"}
  /\ act \in Actions
  /\ dirty \in BOOLEAN /\ foreign \in BOOLEAN /\ held \subseteq Idents
  /\ issued \in Nat /\ lost \in Nat
  /\ faults \in 0..MaxFaults /\ edits \in 0..MaxEdits /\ moves \in 0..MaxMoves

NoAction == [kind |-> "none", target |-> None, ident |-> None, sections |-> {}]

Blank == CHOOSE s \in Specs : TRUE

\* A resource that was just created or adopted.
Init ==
  /\ spec \in Specs /\ sp = Blank
  /\ secret = Given /\ retry = FALSE /\ purge = 0 /\ asked = 0
  /\ st = [state |-> "", key |-> None, attempts |-> 0, cooling |-> FALSE, marker |-> None]
  /\ mem = st
  /\ up = [conf |-> [s \in Sections |-> Fresh], bound |-> None, suspended |-> FALSE]
  /\ act = NoAction
  /\ certs = [c \in CertIds |-> None] /\ task = "none"
  /\ pc = "idle" /\ dirty = FALSE /\ foreign = FALSE /\ held = {secret}
  /\ purged = 0 /\ issued = 0 /\ lost = 0
  /\ faults = 0 /\ edits = 0 /\ moves = 0

Fault == faults < MaxFaults /\ faults' = faults + 1

LostCharge(m) == IF m.attempts > st.attempts THEN lost + 1 ELSE lost

\* The runtime's status write ends every reconcile and is refused on a stale object.
EndPass ==
  /\ pc' = "idle" /\ act' = NoAction /\ sp' = Blank /\ asked' = 0
  /\ IF dirty THEN st' = st /\ lost' = LostCharge(mem') ELSE st' = mem' /\ lost' = lost

GoTo(step) == pc' = step /\ UNCHANGED <<st, lost, sp, asked>>

(***************************************************************************)
(* computeSSL: the one certificate action a reconcile may take, and what   *)
(* becomes of the status.  m is the status, ident the identity in the      *)
(* Secret, bound the certificate the resource serves.                      *)
(***************************************************************************)
\* Mistake: uploads are looked for among the certificates of the resource.
ScopedToResource(mode) == {c \in Live : certs[c].type = "lets_encrypt"}

\* Uploaded certificates belong to the account and are never listed for a resource.
certificatesForMode(mode) ==
  IF mode = "custom" THEN Live ELSE {c \in Live : certs[c].type = "lets_encrypt"}

markerFor(c) == [id |-> c, type |-> certs[c].type, face |-> face(certs[c].ident)]

\* Mistake: an id is enough.
IdMatches(m, c) == m # None /\ m.id = c

managedMatches(m, c) == m # None /\ m = markerFor(c)

First(ids) == CHOOSE c \in ids : \A d \in ids : c <= d

Outcome(m, state, marker, kind, target) ==
  [st |-> [m EXCEPT !.state = state, !.marker = marker],
   action |-> [kind |-> kind, target |-> target]]

\* Nothing matches: upload, once for an identity.
uploadStep(m, fresh) ==
  IF ~fresh /\ m.state = "failed" THEN Outcome(m, "failed", m.marker, "none", None)
                                  ELSE Outcome(m, "pending", m.marker, "upload", None)

\* Mistake: the marker moves on at once.
MarkerMovesOn(m, ident, match) ==
  LET copies == {c \in Live : c # match /\ certs[c].ident = ident}
  IN IF copies # {} THEN Outcome(m, "bound", markerFor(match), "deleteOld", First(copies))
                    ELSE Outcome(m, "bound", markerFor(match), "none", None)

\* The bound certificate is the declared one: what is left of a rotation, then what
\* is left of duplicate uploads, is deleted.
boundStep(m, ident, match) ==
  LET marker == IF m.marker = None THEN markerFor(match) ELSE m.marker
      old    == {c \in Live : marker.id # match /\ managedMatches(marker, c)}
      now    == IF marker.id # match /\ old = {} THEN markerFor(match) ELSE marker
      copies == {c \in Live : c # match /\ certs[c].ident = ident}
  IN CASE old # {}    -> Outcome(m, "bound", now, "deleteOld", First(old))
       [] old = {} /\ copies # {} -> Outcome(m, "bound", now, "deleteOld", First(copies))
       [] OTHER       -> Outcome(m, "bound", now, "none", None)

customSSL(m, ident, bound, fresh) ==
  LET matches == {c \in certificatesForMode("custom") : certs[c].ident = ident}
      match   == First(matches)
  IN CASE matches = {} -> uploadStep(m, fresh)
       [] matches # {} /\ bound # match -> Outcome(m, "pending", m.marker, "bind", match)
       [] OTHER -> boundStep(m, ident, match)

\* No certificate yet: wait for a task, for the domains, for the budget, for its
\* spacing; then ask.
issueStep(m, attached) ==
  CASE task = "in_progress" -> Outcome(m, "issuing", m.marker, "none", None)
    [] task # "in_progress" /\ ~attached -> Outcome(m, "pending", m.marker, "none", None)
    [] task # "in_progress" /\ attached /\ m.attempts >= MaxIssueAttempts ->
         Outcome(m, "exhausted", m.marker, "none", None)
    [] task # "in_progress" /\ attached /\ m.attempts < MaxIssueAttempts ->
         IF m.attempts > 0 /\ m.cooling THEN Outcome(m, "failed", m.marker, "none", None)
                                        ELSE Outcome(m, "pending", m.marker, "issue", None)

\* The branches for a certificate of another type in the slot search the list of the
\* resource, which holds none.
letsEncryptSSL(m, bound, attached) ==
  LET le == certificatesForMode("letsEncrypt")
  IN CASE le = {} -> issueStep(m, attached)
       [] le # {} /\ bound # First(le) -> Outcome(m, "pending", m.marker, "bind", First(le))
       [] OTHER -> Outcome(m, "bound", IF m.marker = None THEN markerFor(First(le)) ELSE m.marker,
                           "none", None)

noneSSL(m, bound) ==
  LET old == {c \in certificatesForMode("none") : managedMatches(m.marker, c)}
  IN CASE bound # None -> Outcome(m, "pending", m.marker, "unbind", None)
       [] bound = None /\ old # {} -> Outcome(m, "pending", m.marker, "deleteOld", First(old))
       [] OTHER -> Outcome(m, "", None, "none", None)

\* A change of the key restarts the budget.
computeSSL(m, s, ident, read) ==
  LET key   == sslBudgetKey(s, ident)
      fresh == key # m.key
      now   == IF fresh THEN [m EXCEPT !.attempts = 0] ELSE m
      ready == s.conf["domains"] \in {None, read.conf["domains"]}
  IN CASE s.mode = "custom" -> customSSL(now, ident, read.bound, fresh)
       [] s.mode = "letsEncrypt" -> letsEncryptSSL(now, read.bound, ready)
       [] s.mode = "none" -> noneSSL(now, read.bound)
       [] s.mode = "absent" -> Outcome(m, m.state, m.marker, "none", None)

\* buildDesiredWrite: only declared sections are owned.
Drifted(s, conf) == {x \in Sections : s.conf[x] \notin {None, conf[x]}}

(***************************************************************************)
(* Observe.                                                                *)
(***************************************************************************)
Observe ==
  /\ pc = "idle" /\ pc' = IF purge # 0 THEN "purge" ELSE "ssl"
  /\ sp' = spec /\ mem' = st /\ asked' = purge /\ dirty' = FALSE /\ foreign' = FALSE
  /\ UNCHANGED <<spec, secret, held, annotations, st, upstream, act, ghosts, counters>>

\* Mistake: the annotation is removed before the purge is sent.
UnannotateFirst ==
  /\ pc = "purge"
  /\ purge' = 0 /\ GoTo("ssl")
  /\ purged' \in {purged, asked}
  /\ UNCHANGED <<spec, secret, held, retry, upstream, mem, act, dirty, issued,
                 foreign, counters>>

\* A purge is put off while the resource is suspended, and retried when it fails.
handlePurge ==
  /\ pc = "purge"
  /\ \/ up.suspended /\ GoTo("ssl") /\ UNCHANGED <<purged, faults>>
     \/ ~up.suspended /\ purged' = asked /\ GoTo("unannotate") /\ UNCHANGED faults
     \/ ~up.suspended /\ Fault /\ purged' \in {purged, asked} /\ GoTo("ssl")
  /\ UNCHANGED <<spec, secret, held, annotations, upstream, mem, act, dirty, issued,
                 foreign, edits, moves>>

\* A merge patch without precondition: whatever the annotation holds by now goes.
removePurgeAnnotation ==
  /\ pc = "unannotate" /\ mem' = mem
  /\ \/ purge' = 0 /\ GoTo("ssl") /\ act' = act /\ UNCHANGED faults
     \/ Fault /\ purge' \in {0, purge} /\ EndPass
  /\ UNCHANGED <<spec, secret, held, retry, upstream, dirty, purged, issued, foreign,
                 edits, moves>>

SecretResolves(s) == s.mode = "custom" => secret # None

\* The retry annotation resets the budget and is removed.
afterRetry == IF retry /\ sp.mode # "absent"
                THEN [mem EXCEPT !.attempts = 0, !.cooling = FALSE] ELSE mem

Restarts == retry \/ sslBudgetKey(sp, secret) # mem.key

\* The rest of Observe: the Secret, observeSSL with mirrorSSL, and the diff.
observeSSL ==
  /\ pc = "ssl" /\ ~up.suspended /\ SecretResolves(sp)
  /\ LET out == computeSSL(afterRetry, sp, secret, up)
     IN /\ mem' = IF sp.mode = "absent" THEN mem
                  ELSE [out.st EXCEPT !.key = sslBudgetKey(sp, secret)]
        /\ IF Drifted(sp, up.conf) = {} /\ out.action.kind = "none"
             THEN EndPass ELSE GoTo("update") /\ act' = act
        /\ issued' = IF sp.mode # "absent" /\ Restarts THEN 0 ELSE issued
  /\ retry' = (retry /\ sp.mode = "absent")
  /\ UNCHANGED <<spec, secret, held, purge, upstream, dirty, purged, foreign, counters>>

\* Suspended, or an error: the pass ends, with the retry annotation removed or not.
ObserveEnds ==
  /\ pc = "ssl"
  /\ \/ /\ up.suspended \/ ~SecretResolves(sp)
        /\ mem' = mem /\ UNCHANGED <<retry, issued, faults>>
     \/ /\ ~up.suspended /\ SecretResolves(sp) /\ sp.mode # "absent" /\ Fault
        /\ mem' = afterRetry /\ retry' = FALSE /\ issued' = IF retry THEN 0 ELSE issued
  /\ EndPass
  /\ UNCHANGED <<spec, secret, held, purge, upstream, dirty, purged, foreign,
                 edits, moves>>

(***************************************************************************)
(* Update.                                                                 *)
(***************************************************************************)
\* Mistake: certificates before settings.
SSLFirst ==
  LET out == computeSSL(mem, sp, secret, up)
  IN IF out.action.kind # "none" THEN "act" ELSE IF Drifted(sp, up.conf) # {} THEN "patch" ELSE "end"

\* Settings go first; what a certificate waits for must not keep them waiting.
updateStep ==
  LET out == computeSSL(mem, sp, secret, up)
  IN IF Drifted(sp, up.conf) # {} THEN "patch" ELSE IF out.action.kind # "none" THEN "act" ELSE "end"

\* Everything is read again.  computeSSL's bookkeeping is not mirrored here.
Update ==
  /\ pc = "update" /\ mem' = mem
  /\ IF up.suspended \/ ~SecretResolves(sp) \/ updateStep = "end" THEN EndPass
     ELSE /\ GoTo(updateStep)
          /\ LET a == computeSSL(mem, sp, secret, up).action
             IN act' = [kind |-> a.kind, target |-> a.target, ident |-> secret,
                        sections |-> Drifted(sp, up.conf)]
  /\ UNCHANGED <<spec, secret, held, annotations, upstream, dirty, purged, issued, foreign, counters>>

UpdateFails ==
  /\ pc = "update" /\ Fault /\ mem' = mem /\ EndPass
  /\ UNCHANGED <<spec, secret, held, annotations, upstream, dirty, purged, issued,
                 foreign, edits, moves>>

\* A write: carried out, acknowledged and dropped, refused, or carried out with the
\* answer lost; the pass ends with it in any case.
PatchCDNHTTPResource ==
  /\ pc = "patch" /\ mem' = mem /\ EndPass
  /\ LET carried == [up EXCEPT !.conf = [x \in Sections |->
                       IF x \in act.sections THEN sp.conf[x] ELSE up.conf[x]]]
     IN \/ up' = carried /\ UNCHANGED faults
        \/ up' \in {up, carried} /\ Fault
  /\ UNCHANGED <<spec, secret, held, annotations, certs, task, dirty, purged,
                 issued, foreign, edits, moves>>

Free == CertIds \ Live

\* The new certificate of an upload gets some id that is free; without one the account
\* is full and the upload fails.
Uploaded ==
  \/ \E c \in Free : certs' = [certs EXCEPT ![c] = [type |-> "custom", ident |-> act.ident]]
  \/ Free = {} /\ certs' = certs

\* Refused for good, for the certificate or, with a good one, for anything that is not
\* transient: the state says so, and that is no error.
upload ==
  /\ act.kind = "upload"
  /\ \/ act.ident \in Trusted /\ mem' = mem /\ Uploaded /\ UNCHANGED faults
     \/ /\ mem' = [mem EXCEPT !.state = "failed"] /\ UNCHANGED certs
        /\ IF act.ident \in Trusted THEN Fault ELSE UNCHANGED faults
     \/ act.ident \in Trusted /\ mem' = mem /\ Fault /\ (Uploaded \/ certs' = certs)
  /\ UNCHANGED <<up, task, issued>>

SlotTaken == up.bound # None /\ certs[up.bound].type # "lets_encrypt"

\* Mistake: only what Timeweb accepts is charged.
IssueUncharged ==
  /\ act.kind = "issue" /\ issued' = issued + 1
  /\ \/ /\ task' = "in_progress"
        /\ mem' = [mem EXCEPT !.attempts = mem.attempts + 1, !.cooling = TRUE]
     \/ mem' = mem /\ task' = task
  /\ UNCHANGED <<up, certs, faults>>

\* An attempt is charged unless Timeweb says that one is under way; its outcome is
\* never an error.
issue ==
  /\ act.kind = "issue"
  /\ LET charged == [mem EXCEPT !.attempts = mem.attempts + 1, !.cooling = TRUE]
     IN \/ /\ task \in {"in_progress", "hidden"}
           /\ mem' = [mem EXCEPT !.cooling = TRUE] /\ UNCHANGED <<task, issued>>
        \/ /\ task \notin {"in_progress", "hidden"} /\ mem' = charged /\ issued' = issued + 1
           /\ task' \in IF SlotTaken THEN {task} ELSE {task, "in_progress"}
  /\ UNCHANGED <<up, certs, faults>>

bind ==
  /\ act.kind = "bind" /\ mem' = mem
  /\ \/ up' = [up EXCEPT !.bound = IF act.target \in Live THEN act.target ELSE up.bound]
        /\ UNCHANGED faults
     \/ up' = up /\ Fault
  /\ UNCHANGED <<certs, task, issued>>

unbind ==
  /\ act.kind = "unbind" /\ mem' = mem
  /\ \/ up' = [up EXCEPT !.bound = None] /\ UNCHANGED faults
     \/ up' = up /\ Fault
  /\ UNCHANGED <<certs, task, issued>>

\* Refused while the certificate is bound.  The marker goes with its certificate.
deleteOld ==
  /\ act.kind = "deleteOld"
  /\ LET gone == [c \in CertIds |-> IF c = act.target THEN None ELSE certs[c]]
         refused == act.target = up.bound \/ act.target \notin Live
     IN \/ /\ ~refused /\ certs' = gone /\ UNCHANGED faults
           /\ mem' = IF mem.marker # None /\ mem.marker.id = act.target
                       THEN [mem EXCEPT !.marker = None] ELSE mem
        \/ refused /\ mem' = mem /\ UNCHANGED <<certs, faults>>
        \/ ~refused /\ Fault /\ mem' = mem /\ certs' \in {certs, gone}
  /\ UNCHANGED <<up, task, issued>>

executeSSLAction ==
  /\ pc = "act" /\ (upload \/ issue \/ bind \/ unbind \/ deleteOld) /\ EndPass
  /\ UNCHANGED <<spec, secret, held, annotations, dirty, purged, foreign, edits, moves>>

(***************************************************************************)
(* Everything else.                                                        *)
(***************************************************************************)
local == <<pc, sp, act, asked>>

TimePasses ==
  /\ st.cooling \/ mem.cooling
  /\ st' = [st EXCEPT !.cooling = FALSE] /\ mem' = [mem EXCEPT !.cooling = FALSE]
  /\ UNCHANGED <<spec, secret, held, annotations, upstream, local, dirty, ghosts, foreign, counters>>

\* Let's Encrypt succeeds, and Timeweb binds the certificate, or fails.
TaskEnds ==
  /\ task \in {"in_progress", "hidden"}
  /\ \/ /\ \E c \in Free : /\ certs' = [certs EXCEPT ![c] = [type |-> "lets_encrypt", ident |-> LE]]
                           /\ up' = [up EXCEPT !.bound = c]
        /\ task' = "none"
     \/ task' = "failed" /\ UNCHANGED <<up, certs>>
     \/ task = "in_progress" /\ task' = "hidden" /\ UNCHANGED <<up, certs>>
  /\ UNCHANGED <<spec, secret, held, annotations, st, mem, local, dirty, ghosts, foreign, counters>>

PanelChanges ==
  \/ \E c \in Free, i \in Idents :
       certs' = [certs EXCEPT ![c] = [type |-> "custom", ident |-> i]] /\ up' = up
  \/ \E c \in Live \ {up.bound} : certs' = [certs EXCEPT ![c] = None] /\ up' = up
  \/ \E c \in Live \cup {None} : up' = [up EXCEPT !.bound = c] /\ certs' = certs
  \/ \E x \in Sections, v \in Settings : up' = [up EXCEPT !.conf[x] = v] /\ certs' = certs
  \/ up' = [up EXCEPT !.suspended = ~up.suspended] /\ certs' = certs

Panel ==
  /\ moves < MaxMoves /\ moves' = moves + 1
  /\ PanelChanges /\ foreign' = (pc = "act" \/ foreign)
  /\ UNCHANGED <<spec, secret, held, annotations, st, mem, task, local, dirty, ghosts, faults, edits>>

Edit == edits < MaxEdits /\ edits' = edits + 1

EditSpec ==
  /\ Edit /\ spec' \in Specs \ {spec} /\ dirty' = TRUE
  /\ UNCHANGED <<secret, held, annotations, st, mem, upstream, local, ghosts, foreign, faults, moves>>

Annotate ==
  /\ Edit /\ dirty' = TRUE
  /\ \/ retry' = TRUE /\ UNCHANGED purge
     \/ purge' = edits' /\ UNCHANGED retry
  /\ UNCHANGED <<spec, secret, held, st, mem, upstream, local, ghosts, foreign, faults, moves>>

RotateSecret ==
  /\ Edit /\ secret' \in (Idents \cup {None}) \ {secret}
  /\ held' = held \cup ({secret'} \cap Idents)
  /\ UNCHANGED <<spec, annotations, st, mem, upstream, local, dirty, ghosts, foreign, faults, moves>>

Crash ==
  /\ pc # "idle" /\ Fault /\ pc' = "idle" /\ act' = NoAction /\ lost' = LostCharge(mem)
  /\ sp' = Blank /\ asked' = 0
  /\ UNCHANGED <<spec, secret, held, annotations, st, mem, upstream, dirty, purged,
                 issued, foreign, edits, moves>>

Reconcile ==
  \/ Observe \/ handlePurge \/ removePurgeAnnotation \/ observeSSL \/ ObserveEnds
  \/ Update \/ PatchCDNHTTPResource \/ executeSSLAction

Next == \/ Reconcile \/ UpdateFails
        \/ TimePasses \/ TaskEnds \/ Panel \/ EditSpec \/ Annotate \/ RotateSecret \/ Crash

Spec == Init /\ [][Next]_vars

\* The work queue requeues the Cdn for ever, tasks end and time passes.  Faults are
\* bounded.
FairSpec == Spec /\ WF_vars(Reconcile) /\ WF_vars(TaskEnds) /\ WF_vars(TimePasses)

(***************************************************************************)
(* Properties.                                                             *)
(***************************************************************************)
\* "at most maxIssueAttempts per budget window (inside LE's own failed-validation rate
\* limit)" (ssl.go): Let's Encrypt is asked no more often than that after an edit or
\* the retry annotation, but for once for each request whose status write was lost.
BudgetKept == issued <= MaxIssueAttempts + lost

\* "upstream reuses ids, so id alone must never authorize a delete" (managedMatches): a
\* certificate that Let's Encrypt did not issue, and whose identity the Secret never
\* had, is not deleted, rotations, duplicates and reused ids notwithstanding, unless
\* somebody works in the panel between Update's read and its call.
ForeignKept ==
  [][\A c \in Live : certs'[c] = None /\ moves' = moves =>
       certs[c].type = "lets_encrypt" \/ certs[c].ident \in held \/ foreign]_vars

\* "An unresolved SSL action must never starve settings" (Update): whatever becomes of
\* the certificate, the owned sections end up as declared.
SettingsConverge ==
  <>[](~up.suspended /\ SecretResolves(spec)) => <>[](Drifted(spec, up.conf) = {})

Serves(i) == up.bound # None /\ certs[up.bound].ident = i

\* There is no certificate i and no room for one.
NoRoom(i) == Free = {} /\ \A c \in CertIds : certs[c].ident # i

\* A resource that asks for a certificate ends up serving it or saying why not: a
\* refused upload, a spent budget, an account that is full.
Secured ==
  /\ \A i \in Idents :
       <>[](~up.suspended /\ spec.mode = "custom" /\ secret = i) =>
         <>[](Serves(i) \/ st.state = "failed" \/ NoRoom(i))
  /\ <>[](~up.suspended /\ spec.mode = "letsEncrypt") =>
       <>[](Serves(LE) \/ st.state = "exhausted" \/ NoRoom(LE))

\* docs/cdn.md, "the provider uploads the new certificate, rebinds, and deletes its old
\* one": a certificate that the marker names is deleted after the Secret has changed.
RotatesOut ==
  \A c \in CertIds, i \in Trusted :
    (/\ pc = "idle" /\ spec.mode = "custom" /\ secret = i
     /\ st.marker # None /\ c \in Live /\ st.marker = markerFor(c) /\ certs[c].ident # i) ~>
      (\/ certs[c] = None \/ spec.mode # "custom" \/ secret # i
       \/ up.suspended \/ st.state = "failed" \/ NoRoom(i))

\* "Removal after the 2xx is the one-shot guarantee" (handlePurge): a purge requested
\* between reconciles is carried out, whatever fails or crashes, unless the operator
\* replaces it.
PurgeServed ==
  \A n \in 1..MaxEdits :
    (purge = n /\ pc = "idle") ~> (purged >= n \/ purge \notin {0, n} \/ up.suspended)
=============================================================================
