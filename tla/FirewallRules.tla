---------------------------- MODULE FirewallRules ----------------------------
(***************************************************************************)
(* Observe and Update of one existing firewall group                       *)
(* (internal/controller/network/firewall_external.go): its name, its rules *)
(* and the services it governs, with a budget of calls for each reconcile. *)
(*                                                                         *)
(* A rule is its canonical key (direction, protocol, port, cidr).  Upstream*)
(* a key may occur more than once, with different ids.  A service belongs  *)
(* to one group at most, which Timeweb enforces.  The three GETs of Observe*)
(* are one step; every write is a step of its own, which may be refused,   *)
(* dropped though acknowledged, or carried out with the answer lost.       *)
(***************************************************************************)
EXTENDS Naturals, FiniteSets

CONSTANTS
  Rules,      \* canonical keys of rules
  Services,   \* services that can be attached
  Specs,      \* declarations the operator moves between
  MaxOps,     \* maxFirewallMutationsPerReconcile
  MaxCopies,  \* how many rules of one key a group can hold
  MaxFaults,  \* requests that go wrong, and crashes
  MaxEdits,   \* edits of the declaration
  MaxMoves    \* changes made in the Timeweb panel and by other groups

\* dup: spec.rules lists one key twice.
ASSUME FirewallAssumption ==
  /\ \A s \in Specs : s.rules \subseteq Rules /\ s.svcs \subseteq Services /\ s.dup \in BOOLEAN
  /\ MaxOps \in Nat \ {0} /\ MaxCopies \in Nat \ {0, 1}
  /\ MaxFaults \in Nat /\ MaxEdits \in Nat /\ MaxMoves \in Nat

VARIABLES
  spec,      \* stored spec.forProvider
  name,      \* name and description of the group upstream
  policy,    \* its policy, fixed when it was created
  rules,     \* key -> how many of its rules have it
  svcs,      \* services attached to it
  elsewhere, \* services attached to other groups
  pc,        \* where the reconcile is
  sp,        \* the declaration this reconcile has read
  left,      \* what is left of the budget
  dels,      \* rules or services still to remove, as listed
  adds,      \* keys or services still to add
  touched,   \* a write was dropped, or others changed the rules, since they were listed
  faults, edits, moves

vars == <<spec, name, policy, rules, svcs, elsewhere, pc, sp, left, dels, adds, touched,
          faults, edits, moves>>

group    == <<name, rules, svcs>>
work     == <<left, dels, adds>>
counters == <<faults, edits, moves>>

\* Upstream rules have ids; the copies of a key are told apart by a number.
RuleIds == Rules \X (1..MaxCopies)

TypeOK ==
  /\ spec \in Specs /\ sp \in Specs
  /\ name \in {s.name : s \in Specs} /\ policy \in {s.policy : s \in Specs}
  /\ rules \in [Rules -> 0..MaxCopies]
  /\ svcs \subseteq Services /\ elsewhere \subseteq Services \ svcs
  /\ pc \in {"idle", "group", "list", "rules", "services"}
  /\ left \in 0..MaxOps
  /\ IF pc = "services" THEN dels \subseteq Services /\ adds \subseteq Services
                        ELSE dels \subseteq RuleIds /\ adds \subseteq Rules
  /\ touched \in BOOLEAN
  /\ faults \in 0..MaxFaults /\ edits \in 0..MaxEdits /\ moves \in 0..MaxMoves

\* Whatever Create got to, or an adopted group of another declaration.
Init ==
  /\ spec \in Specs /\ sp = spec
  /\ \E s \in Specs : name = s.name /\ policy = s.policy
  /\ rules \in [Rules -> 0..1]
  /\ svcs \in SUBSET Services /\ elsewhere \in SUBSET (Services \ svcs)
  /\ pc = "idle" /\ left = 0 /\ dels = {} /\ adds = {} /\ touched = FALSE
  /\ faults = 0 /\ edits = 0 /\ moves = 0

(***************************************************************************)
(* Observe.                                                                *)
(***************************************************************************)
\* listRules: every upstream rule, by key and copy.
Listed == {x \in RuleIds : x[2] <= rules[x[1]]}

Present == {r \in Rules : rules[r] > 0}

Duplicated == \E r \in Rules : rules[r] > 1

\* Mistake: only rules that should not be there count as drift.
NothingExtra(desired) == Present \subseteq desired

\* As many rules as declared keys, and each of a declared key: a second copy of one
\* declared rule makes up for another one that is missing.
rulesConverged(desired) ==
  Cardinality(Listed) = Cardinality(desired) /\ Present \subseteq desired

attachConverged(desired) == svcs = desired

UpToDate(s) ==
  /\ ~s.dup
  /\ name = s.name /\ policy = s.policy
  /\ rulesConverged(s.rules) /\ attachConverged(s.svcs)

\* Without drift the reconcile ends and nothing changes.
Observe ==
  /\ pc = "idle" /\ ~UpToDate(spec)
  /\ pc' = "group" /\ sp' = spec
  /\ UNCHANGED <<spec, group, policy, elsewhere, work, touched, counters>>

(***************************************************************************)
(* Update.                                                                 *)
(***************************************************************************)
\* Back to the work queue.
EndPass == pc' = "idle" /\ dels' = {} /\ adds' = {} /\ UNCHANGED left

\* A write: carried out, or acknowledged and dropped, and the pass goes on; refused,
\* or carried out without an answer, and it ends.
Write(done, notDone, goOn) ==
  \/ done /\ goOn /\ UNCHANGED <<touched, faults>>
  \/ /\ faults < MaxFaults /\ faults' = faults + 1
     /\ \/ notDone /\ goOn /\ touched' = TRUE
        \/ notDone /\ EndPass /\ UNCHANGED touched
        \/ done /\ EndPass /\ UNCHANGED touched

\* Duplicate rules and a changed policy are refused before anything is written.
Refused(s) == s.dup \/ s.policy # policy

Reject ==
  /\ pc = "group" /\ Refused(sp) /\ EndPass
  /\ UNCHANGED <<spec, group, policy, elsewhere, sp, touched, counters>>

ToList == pc' = "list" /\ UNCHANGED work

\* Name and description, which do not count towards the budget.
PatchFirewallGroup ==
  /\ pc = "group" /\ ~Refused(sp)
  /\ \/ name = sp.name /\ ToList /\ UNCHANGED <<name, touched, faults>>
     \/ name # sp.name /\ Write(name' = sp.name, name' = name, ToList)
  /\ UNCHANGED <<spec, policy, rules, svcs, elsewhere, sp, edits, moves>>

\* Mistake: the rules that are there already are not left out.
AllDeclared(desired) == desired

\* The declared keys that the listing did not show.
Missing(desired) == desired \ Present

\* reconcileRules: list, delete what is not declared, create what is missing.
reconcileRules ==
  /\ pc = "list"
  /\ pc' = "rules" /\ left' = MaxOps /\ touched' = FALSE
  /\ dels' = {x \in Listed : x[1] \notin sp.rules}
  /\ adds' = Missing(sp.rules)
  /\ UNCHANGED <<spec, group, policy, elsewhere, sp, counters>>

\* Mistake: the budget is not looked at.
Unpaced == left >= 0

\* Every loop returns once the budget is used up.
Paced == left > 0

Spend(todo) == left' = left - 1 /\ pc' = pc /\ todo

\* The copies of a key are alike, and are deleted from the last one on.  A rule that
\* was deleted in the panel is answered with 404, an error here.
DeleteFirewallRule(x) ==
  LET gone == [rules EXCEPT ![x[1]] = @ - 1]
      next == Spend(dels' = dels \ {x} /\ adds' = adds)
  IN  /\ pc = "rules" /\ Paced
      /\ x \in dels /\ <<x[1], x[2] + 1>> \notin dels
      /\ \/ rules[x[1]] > 0 /\ Write(rules' = gone, rules' = rules, next)
         \/ rules[x[1]] = 0 /\ rules' = rules /\ EndPass /\ UNCHANGED <<touched, faults>>
      /\ UNCHANGED <<spec, name, policy, svcs, elsewhere, sp, edits, moves>>

\* Creations come after all deletions.
CreateFirewallRule(r) ==
  LET more == [rules EXCEPT ![r] = IF @ < MaxCopies THEN @ + 1 ELSE @]
      next == Spend(adds' = adds \ {r} /\ dels' = dels)
  IN  /\ pc = "rules" /\ Paced /\ dels = {} /\ r \in adds
      /\ Write(rules' = more, rules' = rules, next)
      /\ UNCHANGED <<spec, name, policy, svcs, elsewhere, sp, edits, moves>>

LoopOver == ~Paced \/ (dels = {} /\ adds = {})

\* Mistake: the attachments have a budget of their own.
OwnBudget ==
  /\ pc = "rules" /\ LoopOver
  /\ pc' = "services"
  /\ dels' = svcs \ sp.svcs /\ adds' = sp.svcs \ svcs /\ left' = MaxOps
  /\ UNCHANGED <<spec, group, policy, elsewhere, sp, touched, counters>>

\* reconcileAttachments runs in any case, with what is left of the budget.
reconcileAttachments ==
  /\ pc = "rules" /\ LoopOver
  /\ pc' = "services"
  /\ dels' = svcs \ sp.svcs /\ adds' = sp.svcs \ svcs
  /\ UNCHANGED <<spec, group, policy, elsewhere, sp, left, touched, counters>>

\* What Timeweb says of a service that was detached in the panel meanwhile is not
\* known: the pass goes on or ends.
UnlinkFirewallResource(s) ==
  LET next == Spend(dels' = dels \ {s} /\ adds' = adds)
  IN  /\ pc = "services" /\ Paced /\ s \in dels
      /\ \/ s \in svcs /\ Write(svcs' = svcs \ {s}, svcs' = svcs, next)
         \/ s \notin svcs /\ svcs' = svcs /\ (next \/ EndPass) /\ UNCHANGED <<touched, faults>>
      /\ UNCHANGED <<spec, name, policy, rules, elsewhere, sp, edits, moves>>

\* attach: a service of another group is an error, whether the lookup finds out
\* (boundElsewhere) or, when the lookup fails, Timeweb refuses the link.
attach(s) ==
  LET next == Spend(adds' = adds \ {s} /\ dels' = dels)
  IN  /\ pc = "services" /\ Paced /\ dels = {} /\ s \in adds
      /\ \/ s \in elsewhere /\ svcs' = svcs /\ EndPass /\ UNCHANGED <<touched, faults>>
         \/ s \notin elsewhere /\ Write(svcs' = svcs \cup {s}, svcs' = svcs, next)
      /\ UNCHANGED <<spec, name, policy, rules, elsewhere, sp, edits, moves>>

Finish ==
  /\ pc = "services" /\ LoopOver /\ EndPass
  /\ UNCHANGED <<spec, group, policy, elsewhere, sp, touched, counters>>

(***************************************************************************)
(* Everything else.                                                        *)
(***************************************************************************)
\* The process dies, or a read fails: the reconcile starts again.
Crash ==
  /\ pc # "idle" /\ faults < MaxFaults /\ faults' = faults + 1
  /\ EndPass
  /\ UNCHANGED <<spec, group, policy, elsewhere, sp, touched, edits, moves>>

EditSpec ==
  /\ edits < MaxEdits /\ edits' = edits + 1
  /\ spec' \in Specs \ {spec}
  /\ UNCHANGED <<group, policy, elsewhere, pc, sp, work, touched, faults, moves>>

\* A rule is added or removed in the panel.
PanelRules ==
  /\ moves < MaxMoves /\ moves' = moves + 1 /\ touched' = TRUE
  /\ \E r \in Rules, n \in 0..MaxCopies :
       n \in {rules[r] - 1, rules[r] + 1} /\ rules' = [rules EXCEPT ![r] = n]
  /\ UNCHANGED <<spec, name, svcs, policy, elsewhere, pc, sp, work, faults, edits>>

\* A service is attached to another group, or detached from any.
PanelServices ==
  /\ moves < MaxMoves /\ moves' = moves + 1
  /\ \E s \in Services :
       \/ /\ s \in svcs /\ svcs' = svcs \ {s} /\ elsewhere' = elsewhere
       \/ /\ s \in elsewhere /\ elsewhere' = elsewhere \ {s} /\ svcs' = svcs
       \/ /\ s \notin svcs \cup elsewhere
          /\ elsewhere' = elsewhere \cup {s} /\ svcs' = svcs
  /\ UNCHANGED <<spec, name, rules, policy, pc, sp, work, touched, faults, edits>>

Reconcile ==
  \/ Observe \/ Reject \/ PatchFirewallGroup \/ reconcileRules \/ reconcileAttachments
  \/ \E x \in RuleIds : DeleteFirewallRule(x)
  \/ \E r \in Rules : CreateFirewallRule(r)
  \/ \E s \in Services : UnlinkFirewallResource(s) \/ attach(s)
  \/ Finish

Next == Reconcile \/ Crash \/ EditSpec \/ PanelRules \/ PanelServices

Spec == Init /\ [][Next]_vars

\* The work queue requeues the MR for ever; faults are bounded.
FairSpec == Spec /\ WF_vars(Reconcile)

(***************************************************************************)
(* Properties.                                                             *)
(***************************************************************************)
\* However often a create is lost, refused, dropped or interrupted, and the pass
\* paced or repeated, the provider never makes a second rule of one key.  (Update
\* would not remove it, for both copies are declared, and rulesConverged compares
\* lengths, so that it can stand in for a missing rule.)
NoDuplicates == moves = 0 => ~Duplicated

\* docs/firewall.md, "adds/removes converge by diff (paced per reconcile)": a
\* service is put behind the group only when the group has exactly the declared
\* rules, also when the budget or an edit cuts the pass in two, unless a write was
\* dropped or the rules were changed in the panel since they were listed.
LinksBehindRules ==
  [][\A s \in svcs' \ svcs : touched \/ Present = sp.rules]_vars

\* The group ends up as declared for good, whatever fails, is paced or changed by
\* others on the way, if the declaration is one that is accepted, its services are
\* free and nobody duplicated a rule.
Converges ==
  <>[](~Refused(spec) /\ ~Duplicated /\ spec.svcs \cap elsewhere = {})
    => <>[](Present = spec.rules /\ svcs = spec.svcs /\ name = spec.name)
=============================================================================
