------------------------- MODULE FirewallRulesProofs -------------------------
(***************************************************************************)
(* Type correctness of FirewallRules, that the provider never duplicates a *)
(* rule, that services are linked only behind the declared rules, that     *)
(* Observe overlooks no drift and that every write goes towards the        *)
(* declaration, for any rules, services and declarations, any budget and   *)
(* any number of faults.                                                   *)
(***************************************************************************)
EXTENDS FirewallRules, FiniteSetTheorems, TLAPS

\* While nobody works in the panel, what is still to be created is not there, and
\* no key has two rules.
AddsAreMissing ==
  moves = 0 => /\ \A r \in Rules : rules[r] <= 1
               /\ pc = "rules" => \A r \in adds : rules[r] = 0

\* Unless a write was dropped or the panel interfered, the rules are the declared
\* ones up to what is still to be deleted and created ...
RulesTracked ==
  pc = "rules" /\ ~touched =>
    /\ adds \subseteq sp.rules
    /\ \A x \in dels : x[1] \notin sp.rules
    /\ \A r \in Rules \ sp.rules, i \in 1..MaxCopies : <<r, i>> \in dels <=> i <= rules[r]
    /\ \A r \in sp.rules : rules[r] > 0 \/ r \in adds

\* ... and exactly the declared ones when some budget is left for the services.
RulesDone == pc = "services" /\ ~touched /\ left > 0 => Present = sp.rules

FirewallInv == TypeOK /\ AddsAreMissing /\ RulesTracked /\ RulesDone

(***************************************************************************)
(* Parts of a step.                                                        *)
(***************************************************************************)
LEMMA ConstantFacts ==
  /\ MaxOps \in Nat /\ MaxOps > 0 /\ MaxCopies \in Nat /\ MaxCopies >= 2
  /\ MaxFaults \in Nat /\ MaxEdits \in Nat /\ MaxMoves \in Nat
BY FirewallAssumption

\* Ending a pass in any way keeps the types of its work.
LEMMA EndPassType ==
  ASSUME TypeOK, EndPass
  PROVE  /\ pc' = "idle" /\ left' \in 0..MaxOps
         /\ dels' \subseteq RuleIds /\ adds' \subseteq Rules
BY DEF TypeOK, EndPass

\* A pass that ends leaves nothing to prove but the types and the copies.
LEMMA EndedInv ==
  ASSUME FirewallInv, TypeOK', pc' = "idle",
         moves' = 0 => moves = 0 /\ \A r \in Rules : rules'[r] <= 1
  PROVE  FirewallInv'
BY DEF FirewallInv, AddsAreMissing, RulesTracked, RulesDone

LEMMA InitInv == Init => FirewallInv
<1> SUFFICES ASSUME Init PROVE FirewallInv
  OBVIOUS
<1>1. rules \in [Rules -> 0..MaxCopies] /\ \A r \in Rules : rules[r] <= 1
  BY ConstantFacts DEF Init
<1>2. name \in {s.name : s \in Specs} /\ policy \in {s.policy : s \in Specs}
  BY DEF Init
<1>3. /\ left \in 0..MaxOps /\ faults \in 0..MaxFaults
      /\ edits \in 0..MaxEdits /\ moves \in 0..MaxMoves
  BY ConstantFacts DEF Init
<1>4. TypeOK
  BY <1>1, <1>2, <1>3 DEF Init, TypeOK
<1> QED  BY <1>1, <1>4 DEF Init, FirewallInv, AddsAreMissing, RulesTracked, RulesDone

(***************************************************************************)
(* The steps around the writes.                                            *)
(***************************************************************************)
LEMMA QuietSteps ==
  FirewallInv /\ (Observe \/ Reject \/ PatchFirewallGroup \/ Finish \/ Crash) => FirewallInv'
<1> SUFFICES ASSUME FirewallInv, Observe \/ Reject \/ PatchFirewallGroup \/ Finish \/ Crash
             PROVE  FirewallInv'
  OBVIOUS
<1>0. TypeOK /\ AddsAreMissing
  BY DEF FirewallInv
<1>1. CASE Observe
  <2>1. TypeOK'
    BY <1>0, <1>1 DEF Observe, TypeOK, group, work, counters
  <2> QED  BY <1>0, <1>1, <2>1 DEF Observe, group, work, counters, FirewallInv, AddsAreMissing,
                                   RulesTracked, RulesDone
<1>2. CASE Reject
  <2>1. TypeOK' /\ pc' = "idle"
    BY <1>0, <1>2, EndPassType DEF Reject, TypeOK, group, counters
  <2> QED  BY <1>0, <1>2, <2>1, EndedInv DEF Reject, group, counters, AddsAreMissing
<1>3. CASE PatchFirewallGroup
  <2>0. faults' \in 0..MaxFaults
    BY <1>0, <1>3, ConstantFacts DEF PatchFirewallGroup, Write, TypeOK
  <2>1. name' \in {s.name : s \in Specs} /\ touched' \in BOOLEAN
    BY <1>0, <1>3 DEF PatchFirewallGroup, Write, TypeOK
  <2>2. /\ pc' \in {"idle", "list"} /\ left' = left
        /\ dels' \subseteq RuleIds /\ adds' \subseteq Rules
    BY <1>0, <1>3, EndPassType DEF PatchFirewallGroup, Write, ToList, work, TypeOK, EndPass
  <2>3. UNCHANGED <<spec, policy, rules, svcs, elsewhere, sp, edits, moves>>
    BY <1>3 DEF PatchFirewallGroup
  <2>4. TypeOK'
    BY <1>0, <2>0, <2>1, <2>2, <2>3 DEF TypeOK
  <2> QED  BY <1>0, <2>2, <2>3, <2>4 DEF FirewallInv, AddsAreMissing, RulesTracked, RulesDone
<1>4. CASE Finish
  <2>1. TypeOK' /\ pc' = "idle"
    BY <1>0, <1>4, EndPassType DEF Finish, TypeOK, group, counters
  <2> QED  BY <1>0, <1>4, <2>1, EndedInv DEF Finish, group, counters, AddsAreMissing
<1>5. CASE Crash
  <2>1. faults' \in 0..MaxFaults
    BY <1>0, <1>5, ConstantFacts DEF Crash, TypeOK
  <2>2. TypeOK' /\ pc' = "idle"
    BY <1>0, <1>5, <2>1, EndPassType DEF Crash, TypeOK, group
  <2> QED  BY <1>0, <1>5, <2>2, EndedInv DEF Crash, group, AddsAreMissing
<1> QED  BY <1>1, <1>2, <1>3, <1>4, <1>5

\* The listing of the rules establishes what the writes then maintain.
LEMMA ListStep == FirewallInv /\ reconcileRules => FirewallInv'
<1> SUFFICES ASSUME FirewallInv, reconcileRules PROVE FirewallInv'
  OBVIOUS
<1>0. TypeOK /\ AddsAreMissing
  BY DEF FirewallInv
<1>1. UNCHANGED <<spec, name, rules, svcs, policy, elsewhere, sp, faults, edits, moves>>
  BY DEF reconcileRules, group, counters
<1>2. pc' = "rules" /\ left' = MaxOps /\ touched' = FALSE
  BY DEF reconcileRules
<1>3. dels' = {x \in RuleIds : x[2] <= rules[x[1]] /\ x[1] \notin sp.rules}
  BY DEF reconcileRules, Listed
<1>4. adds' = {r \in sp.rules : ~(r \in Rules /\ rules[r] > 0)}
  BY DEF reconcileRules, Missing, Present
<1>5. sp.rules \subseteq Rules /\ rules \in [Rules -> 0..MaxCopies]
  BY <1>0, FirewallAssumption DEF TypeOK
<1>6. TypeOK'
  <2>1. dels' \subseteq RuleIds /\ adds' \subseteq Rules
    BY <1>3, <1>4, <1>5
  <2>2. left' \in 0..MaxOps
    BY <1>2, ConstantFacts
  <2> QED  BY <1>0, <1>1, <1>2, <2>1, <2>2 DEF TypeOK
<1>7. AddsAreMissing'
  BY <1>0, <1>1, <1>4, <1>5, ConstantFacts DEF AddsAreMissing
<1>8. RulesTracked'
  <2>1. \A r \in Rules \ sp.rules, i \in 1..MaxCopies : <<r, i>> \in dels' <=> i <= rules[r]
    BY <1>3 DEF RuleIds
  <2> QED  BY <1>1, <1>2, <1>3, <1>4, <1>5, <2>1, ConstantFacts DEF RulesTracked
<1>9. RulesDone'
  BY <1>2 DEF RulesDone
<1> QED  BY <1>6, <1>7, <1>8, <1>9 DEF FirewallInv

\* When the loop over the rules is over, they are done or no budget is left.
LEMMA ServicesStep == FirewallInv /\ reconcileAttachments => FirewallInv'
<1> SUFFICES ASSUME FirewallInv, reconcileAttachments PROVE FirewallInv'
  OBVIOUS
<1>0. TypeOK /\ AddsAreMissing /\ RulesTracked
  BY DEF FirewallInv
<1>1. UNCHANGED <<spec, name, rules, svcs, policy, elsewhere, sp, left, touched, faults, edits, moves>>
  BY DEF reconcileAttachments, group, counters
<1>2. pc = "rules" /\ pc' = "services" /\ (left > 0 => dels = {} /\ adds = {})
  BY DEF reconcileAttachments, LoopOver, Paced
<1>3. dels' \subseteq Services /\ adds' \subseteq Services
  BY <1>0, FirewallAssumption DEF reconcileAttachments, TypeOK
<1>4. TypeOK'
  BY <1>0, <1>1, <1>2, <1>3 DEF TypeOK
<1>5. RulesDone'
  <2> SUFFICES ASSUME ~touched, left > 0 PROVE Present = sp.rules
    BY <1>1 DEF RulesDone, Present
  <2>1. sp.rules \subseteq Rules /\ rules \in [Rules -> 0..MaxCopies]
    BY <1>0, FirewallAssumption DEF TypeOK
  <2>2. \A r \in Rules \ sp.rules : ~(1 <= rules[r])
    <3>1. 1 \in 1..MaxCopies
      BY ConstantFacts
    <3> QED  BY <1>0, <1>2, <3>1 DEF RulesTracked
  <2>3. \A r \in sp.rules : rules[r] > 0
    BY <1>0, <1>2 DEF RulesTracked
  <2> QED  BY <2>1, <2>2, <2>3 DEF Present
<1> QED  BY <1>0, <1>1, <1>2, <1>4, <1>5 DEF FirewallInv, AddsAreMissing, RulesTracked

(***************************************************************************)
(* The writes.                                                             *)
(***************************************************************************)
LEMMA DeleteStep ==
  ASSUME FirewallInv, NEW x \in RuleIds, DeleteFirewallRule(x)
  PROVE  FirewallInv'
<1> DEFINE gone == [rules EXCEPT ![x[1]] = @ - 1]
<1>0. TypeOK /\ AddsAreMissing /\ RulesTracked
  BY DEF FirewallInv
<1>1. PICK k \in Rules, n \in 1..MaxCopies : x = <<k, n>>
  BY DEF RuleIds
<1>2. /\ pc = "rules" /\ left > 0 /\ x \in dels /\ <<k, n + 1>> \notin dels
      /\ UNCHANGED <<spec, name, policy, svcs, elsewhere, sp, edits, moves>>
  BY <1>1 DEF DeleteFirewallRule, Paced
<1>3. rules' \in {rules, gone} /\ (rules' = gone => rules[k] > 0 \/ rules' = rules)
  BY <1>1 DEF DeleteFirewallRule, Write
<1>4. /\ rules' \in [Rules -> 0..MaxCopies]
      /\ \A r \in Rules : rules'[r] <= rules[r]
  BY <1>0, <1>1, <1>3, ConstantFacts DEF TypeOK
<1>5. touched' \in BOOLEAN /\ faults' \in 0..MaxFaults
  <2>1. faults' \in 0..MaxFaults
    BY <1>0, ConstantFacts DEF DeleteFirewallRule, Write, TypeOK
  <2>2. touched' \in BOOLEAN
    BY <1>0 DEF DeleteFirewallRule, Write, TypeOK
  <2> QED  BY <2>1, <2>2
<1>6. \/ EndPass
      \/ /\ pc' = pc /\ left' = left - 1 /\ dels' = dels \ {x} /\ adds' = adds
         /\ touched' \/ (rules[k] > 0 /\ rules' = gone /\ touched' = touched)
  BY <1>1 DEF DeleteFirewallRule, Write, Spend
<1>7. CASE EndPass
  <2>1. TypeOK' /\ pc' = "idle"
    BY <1>0, <1>2, <1>4, <1>5, <1>7, EndPassType DEF TypeOK
  <2>2. moves' = 0 => moves = 0 /\ \A r \in Rules : rules'[r] <= 1
    BY <1>0, <1>2, <1>4 DEF AddsAreMissing, TypeOK
  <2> QED  BY <2>1, <2>2, EndedInv
<1>8. CASE /\ pc' = pc /\ left' = left - 1 /\ dels' = dels \ {x} /\ adds' = adds
           /\ touched' \/ (rules[k] > 0 /\ rules' = gone /\ touched' = touched)
  <2>1. left' \in 0..MaxOps
    BY <1>0, <1>2, <1>8, ConstantFacts DEF TypeOK
  <2>2. TypeOK'
    BY <1>0, <1>2, <1>4, <1>5, <1>8, <2>1 DEF TypeOK
  <2>3. AddsAreMissing'
    BY <1>0, <1>2, <1>4, <1>8 DEF AddsAreMissing, TypeOK
  <2>4. RulesTracked'
    <3> SUFFICES ASSUME ~touched' PROVE RulesTracked'
      BY DEF RulesTracked
    <3>1. rules[k] > 0 /\ rules' = gone /\ ~touched
      BY <1>8
    <3>2. k \notin sp.rules
      BY <1>0, <1>1, <1>2, <3>1 DEF RulesTracked
    <3>3. n = rules[k]
      <4>1. \A i \in 1..MaxCopies : <<k, i>> \in dels <=> i <= rules[k]
        BY <1>0, <1>2, <3>1, <3>2 DEF RulesTracked
      <4>2. n <= rules[k] /\ rules[k] \in 0..MaxCopies
        BY <1>0, <1>1, <1>2, <4>1 DEF TypeOK
      <4>3. n + 1 \in 1..MaxCopies => ~(n + 1 <= rules[k])
        BY <1>2, <4>1
      <4> QED  BY <4>2, <4>3, ConstantFacts
    <3>4. \A r \in Rules : rules'[r] = IF r = k THEN rules[k] - 1 ELSE rules[r]
      BY <1>0, <1>1, <3>1 DEF TypeOK
    <3>5. \A r \in Rules \ sp.rules, i \in 1..MaxCopies : <<r, i>> \in dels' <=> i <= rules'[r]
      <4> SUFFICES ASSUME NEW r \in Rules \ sp.rules, NEW i \in 1..MaxCopies
                   PROVE  <<r, i>> \in dels' <=> i <= rules'[r]
        OBVIOUS
      <4>1. <<r, i>> \in dels <=> i <= rules[r]
        BY <1>0, <1>2, <3>1 DEF RulesTracked
      <4>2. <<r, i>> \in dels' <=> <<r, i>> \in dels /\ ~(r = k /\ i = n)
        BY <1>1, <1>8
      <4>3. rules[r] \in Nat
        BY <1>0 DEF TypeOK
      <4> QED  BY <3>3, <3>4, <4>1, <4>2, <4>3
    <3>6. \A r \in sp.rules : rules'[r] > 0 \/ r \in adds
      <4>1. sp.rules \subseteq Rules
        BY <1>0, FirewallAssumption DEF TypeOK
      <4> QED  BY <1>0, <1>2, <3>1, <3>2, <3>4, <4>1 DEF RulesTracked
    <3>7. adds' \subseteq sp.rules /\ \A y \in dels' : y[1] \notin sp.rules
      BY <1>0, <1>2, <1>8, <3>1 DEF RulesTracked
    <3> QED  BY <1>2, <1>8, <3>5, <3>6, <3>7 DEF RulesTracked
  <2>5. RulesDone'
    BY <1>2, <1>8 DEF RulesDone
  <2> QED  BY <2>2, <2>3, <2>4, <2>5 DEF FirewallInv
<1> QED  BY <1>6, <1>7, <1>8

LEMMA CreateStep ==
  ASSUME FirewallInv, NEW k \in Rules, CreateFirewallRule(k)
  PROVE  FirewallInv'
<1> DEFINE more == [rules EXCEPT ![k] = IF @ < MaxCopies THEN @ + 1 ELSE @]
<1>0. TypeOK /\ AddsAreMissing /\ RulesTracked
  BY DEF FirewallInv
<1>1. /\ pc = "rules" /\ left > 0 /\ dels = {} /\ k \in adds
      /\ UNCHANGED <<spec, name, policy, svcs, elsewhere, sp, edits, moves>>
  BY DEF CreateFirewallRule, Paced
<1>2. rules' \in {rules, more}
  BY DEF CreateFirewallRule, Write
<1>3. rules \in [Rules -> 0..MaxCopies] /\ rules' \in [Rules -> 0..MaxCopies]
  BY <1>0, <1>2, ConstantFacts DEF TypeOK
<1>4. touched' \in BOOLEAN /\ faults' \in 0..MaxFaults
  <2>1. faults' \in 0..MaxFaults
    BY <1>0, ConstantFacts DEF CreateFirewallRule, Write, TypeOK
  <2>2. touched' \in BOOLEAN
    BY <1>0 DEF CreateFirewallRule, Write, TypeOK
  <2> QED  BY <2>1, <2>2
<1>5. \/ EndPass
      \/ /\ pc' = pc /\ left' = left - 1 /\ adds' = adds \ {k} /\ dels' = dels
         /\ touched' \/ (rules' = more /\ touched' = touched)
  BY DEF CreateFirewallRule, Write, Spend
<1>6. \A r \in Rules : r # k => rules'[r] = rules[r]
  BY <1>2, <1>3
<1>7. moves' = 0 => moves = 0 /\ \A r \in Rules : rules'[r] <= 1
  <2> SUFFICES ASSUME moves = 0 PROVE \A r \in Rules : rules'[r] <= 1
    BY <1>1
  <2>1. rules[k] = 0 /\ \A r \in Rules : rules[r] <= 1
    BY <1>0, <1>1 DEF AddsAreMissing
  <2>2. rules'[k] \in {0, 1}
    BY <1>2, <1>3, <2>1, ConstantFacts
  <2> QED  BY <1>6, <2>1, <2>2
<1>8. CASE EndPass
  <2>1. TypeOK' /\ pc' = "idle"
    BY <1>0, <1>1, <1>3, <1>4, <1>8, EndPassType DEF TypeOK
  <2> QED  BY <1>7, <2>1, EndedInv
<1>9. CASE /\ pc' = pc /\ left' = left - 1 /\ adds' = adds \ {k} /\ dels' = dels
           /\ touched' \/ (rules' = more /\ touched' = touched)
  <2>1. left' \in 0..MaxOps
    BY <1>0, <1>1, <1>9, ConstantFacts DEF TypeOK
  <2>2. TypeOK'
    BY <1>0, <1>1, <1>3, <1>4, <1>9, <2>1 DEF TypeOK
  <2>3. AddsAreMissing'
    <3>1. adds \subseteq Rules
      BY <1>0, <1>1 DEF TypeOK
    <3> QED  BY <1>0, <1>1, <1>6, <1>7, <1>9, <3>1 DEF AddsAreMissing
  <2>4. RulesTracked'
    <3> SUFFICES ASSUME ~touched' PROVE RulesTracked'
      BY DEF RulesTracked
    <3>1. rules' = more /\ ~touched
      BY <1>9
    <3>2. k \in sp.rules /\ sp.rules \subseteq Rules
      BY <1>0, <1>1, <3>1, FirewallAssumption DEF RulesTracked, TypeOK
    <3>3. rules'[k] > 0
      BY <1>3, <3>1, ConstantFacts
    <3>4. \A r \in sp.rules : rules'[r] > 0 \/ r \in adds'
      BY <1>0, <1>1, <1>6, <1>9, <3>1, <3>2, <3>3 DEF RulesTracked
    <3>5. \A r \in Rules \ sp.rules, i \in 1..MaxCopies : <<r, i>> \in dels' <=> i <= rules'[r]
      BY <1>0, <1>1, <1>6, <1>9, <3>1, <3>2 DEF RulesTracked
    <3>6. adds' \subseteq sp.rules /\ \A y \in dels' : y[1] \notin sp.rules
      BY <1>0, <1>1, <1>9, <3>1 DEF RulesTracked
    <3> QED  BY <1>1, <3>4, <3>5, <3>6 DEF RulesTracked
  <2>5. RulesDone'
    BY <1>1, <1>9 DEF RulesDone
  <2> QED  BY <2>2, <2>3, <2>4, <2>5 DEF FirewallInv
<1> QED  BY <1>5, <1>8, <1>9

LEMMA LinkStep ==
  ASSUME FirewallInv, NEW s \in Services, UnlinkFirewallResource(s) \/ attach(s)
  PROVE  FirewallInv'
<1>0. TypeOK /\ AddsAreMissing /\ RulesDone
  BY DEF FirewallInv
<1>1. /\ pc = "services" /\ left > 0
      /\ UNCHANGED <<spec, name, policy, rules, elsewhere, sp, edits, moves>>
  BY DEF UnlinkFirewallResource, attach, Paced
<1>2. svcs' \subseteq Services /\ elsewhere' \subseteq Services \ svcs'
  BY <1>0 DEF UnlinkFirewallResource, attach, Write, TypeOK
<1>3. touched' \in BOOLEAN /\ faults' \in 0..MaxFaults /\ (~touched' => ~touched)
  <2>1. faults' \in 0..MaxFaults
    BY <1>0, ConstantFacts DEF UnlinkFirewallResource, attach, Write, TypeOK
  <2>2. touched' \in BOOLEAN /\ (~touched' => ~touched)
    BY <1>0 DEF UnlinkFirewallResource, attach, Write, TypeOK
  <2> QED  BY <2>1, <2>2
<1>4. \/ EndPass
      \/ pc' = pc /\ left' = left - 1 /\ dels' \subseteq dels /\ adds' \subseteq adds
  BY DEF UnlinkFirewallResource, attach, Write, Spend
<1>5. CASE EndPass
  <2>1. TypeOK' /\ pc' = "idle"
    BY <1>0, <1>1, <1>2, <1>3, <1>5, EndPassType DEF TypeOK
  <2> QED  BY <1>0, <1>1, <2>1, EndedInv DEF AddsAreMissing
<1>6. CASE pc' = pc /\ left' = left - 1 /\ dels' \subseteq dels /\ adds' \subseteq adds
  <2>1. left' \in 0..MaxOps
    BY <1>0, <1>1, <1>6, ConstantFacts DEF TypeOK
  <2>2. TypeOK'
    BY <1>0, <1>1, <1>2, <1>3, <1>6, <2>1 DEF TypeOK
  <2>3. RulesDone'
    BY <1>0, <1>1, <1>3, <1>6 DEF RulesDone, Present
  <2> QED  BY <1>0, <1>1, <1>6, <2>2, <2>3 DEF FirewallInv, AddsAreMissing, RulesTracked
<1> QED  BY <1>4, <1>5, <1>6

LEMMA OthersStep ==
  FirewallInv /\ (EditSpec \/ PanelRules \/ PanelServices) => FirewallInv'
<1> SUFFICES ASSUME FirewallInv, EditSpec \/ PanelRules \/ PanelServices PROVE FirewallInv'
  OBVIOUS
<1>0. TypeOK
  BY DEF FirewallInv
<1>1. CASE EditSpec
  <2>1. TypeOK'
    BY <1>0, <1>1, ConstantFacts DEF EditSpec, TypeOK, group, work
  <2> QED  BY <1>1, <2>1 DEF EditSpec, group, work, FirewallInv, AddsAreMissing, RulesTracked,
                             RulesDone, Present
<1>2. CASE PanelRules
  <2>1. rules' \in [Rules -> 0..MaxCopies] /\ moves' \in 0..MaxMoves /\ moves' # 0
    BY <1>0, <1>2, ConstantFacts DEF PanelRules, TypeOK
  <2>2. TypeOK'
    BY <1>0, <1>2, <2>1 DEF PanelRules, TypeOK, work
  <2> QED  BY <1>2, <2>1, <2>2 DEF PanelRules, FirewallInv, AddsAreMissing, RulesTracked, RulesDone
<1>3. CASE PanelServices
  <2>1. moves' \in 0..MaxMoves /\ moves' # 0
    BY <1>0, <1>3, ConstantFacts DEF PanelServices, TypeOK
  <2>2. svcs' \subseteq Services /\ elsewhere' \subseteq Services \ svcs'
    BY <1>0, <1>3 DEF PanelServices, TypeOK
  <2>3. TypeOK'
    BY <1>0, <1>3, <2>1, <2>2 DEF PanelServices, TypeOK, work
  <2> QED  BY <1>3, <2>1, <2>3 DEF PanelServices, work, FirewallInv, AddsAreMissing, RulesTracked,
                                   RulesDone, Present
<1> QED  BY <1>1, <1>2, <1>3

LEMMA NextStep == FirewallInv /\ [Next]_vars => FirewallInv'
<1>1. FirewallInv /\ UNCHANGED vars => FirewallInv'
  BY DEF vars, FirewallInv, TypeOK, AddsAreMissing, RulesTracked, RulesDone, Present
<1>2. FirewallInv /\ Reconcile => FirewallInv'
  BY QuietSteps, ListStep, ServicesStep, DeleteStep, CreateStep, LinkStep DEF Reconcile
<1> QED  BY <1>1, <1>2, QuietSteps, OthersStep DEF Next

LEMMA Invariance == Spec => []FirewallInv
BY InitInv, NextStep, PTL DEF Spec

(***************************************************************************)
(* The theorems.                                                           *)
(***************************************************************************)
\* Every behaviour keeps its types; the budget is never overdrawn, and no service
\* is in two groups.
THEOREM TypeCorrect == Spec => []TypeOK
<1>1. FirewallInv => TypeOK
  BY DEF FirewallInv
<1> QED  BY <1>1, Invariance, PTL

\* As long as nobody works in the panel, no key ever has two rules, under every
\* fault (reconcileRules of firewall_external.go).
THEOREM NoDuplicateRules == Spec => []NoDuplicates
<1>1. FirewallInv => NoDuplicates
  <2> SUFFICES ASSUME FirewallInv, moves = 0, NEW r \in Rules, rules[r] > 1 PROVE FALSE
    BY DEF NoDuplicates, Duplicated
  <2> QED  BY DEF FirewallInv, TypeOK, AddsAreMissing
<1> QED  BY <1>1, Invariance, PTL

\* A service is put behind the group only when the group has exactly the rules this
\* pass was asked for (Update of firewall_external.go: rules first, one budget).
THEOREM RulesBeforeServices == Spec => LinksBehindRules
<1>1. FirewallInv /\ [Next]_vars => [\A s \in svcs' \ svcs : touched \/ Present = sp.rules]_vars
  <2> SUFFICES ASSUME FirewallInv, Next, NEW t \in svcs' \ svcs
               PROVE  touched \/ Present = sp.rules
    OBVIOUS
  <2>1. PICK s \in Services : attach(s)
    <3>1. Reconcile
      BY DEF Next, Crash, EditSpec, PanelRules, PanelServices, group
    <3>2. \A s \in Services : ~UnlinkFirewallResource(s)
      BY DEF UnlinkFirewallResource, Write
    <3>3. ~(Observe \/ Reject \/ PatchFirewallGroup \/ reconcileRules \/ reconcileAttachments \/ Finish)
      BY DEF Observe, Reject, PatchFirewallGroup, reconcileRules, reconcileAttachments, Finish, group
    <3>4. /\ \A x \in RuleIds : ~DeleteFirewallRule(x)
          /\ \A r \in Rules : ~CreateFirewallRule(r)
      BY DEF DeleteFirewallRule, CreateFirewallRule
    <3> QED  BY <3>1, <3>2, <3>3, <3>4 DEF Reconcile
  <2>2. pc = "services" /\ left > 0
    BY <2>1 DEF attach, Paced
  <2> QED  BY <2>2 DEF FirewallInv, RulesDone
<1> QED  BY <1>1, Invariance, PTL DEF Spec, LinksBehindRules

(***************************************************************************)
(* What rulesConverged, which compares lengths, tells about the group.     *)
(***************************************************************************)
\* Without duplicates there are as many listed rules as keys present.
LEMMA ListedAsPresent ==
  ASSUME TypeOK, ~Duplicated, IsFiniteSet(Rules)
  PROVE  IsFiniteSet(Present) /\ Cardinality(Listed) = Cardinality(Present)
<1> DEFINE f == [r \in Present |-> <<r, 1>>]
<1>1. IsFiniteSet(Present)
  BY FS_Subset DEF Present
<1>2. Listed = {<<r, 1>> : r \in Present}
  <2>1. ASSUME NEW x \in Listed PROVE \E r \in Present : x = <<r, 1>>
    <3>1. x \in RuleIds /\ x[2] <= rules[x[1]]
      BY DEF Listed
    <3>2. PICK r \in Rules, i \in 1..MaxCopies : x = <<r, i>>
      BY <3>1 DEF RuleIds
    <3>3. rules[r] \in Nat /\ rules[r] <= 1 /\ i <= rules[r]
      BY <3>1, <3>2, ConstantFacts DEF TypeOK, Duplicated
    <3>4. i = 1 /\ rules[r] > 0
      BY <3>3
    <3> QED  BY <3>2, <3>4 DEF Present
  <2>2. ASSUME NEW r \in Present PROVE <<r, 1>> \in Listed
    <3>1. r \in Rules /\ rules[r] > 0 /\ rules[r] \in Nat
      BY ConstantFacts DEF Present, TypeOK
    <3>2. <<r, 1>> \in RuleIds /\ 1 <= rules[r]
      BY <3>1, ConstantFacts DEF RuleIds
    <3> QED  BY <3>2 DEF Listed
  <2> QED  BY <2>1, <2>2
<1>3. f \in Bijection(Present, Listed)
  <2>1. f \in [Present -> Listed]
    BY <1>2
  <2>2. \A a, b \in Present : f[a] = f[b] => a = b
    OBVIOUS
  <2>3. \A t \in Listed : \E r \in Present : f[r] = t
    BY <1>2
  <2> QED  BY <2>1, <2>2, <2>3 DEF Bijection, Injection, Surjection, IsInjective
<1> QED  BY <1>1, <1>3, FS_Bijection DEF ExistsBijection

\* The rules, the services and the name are the declared ones.
Declared(s) == Present = s.rules /\ svcs = s.svcs /\ name = s.name

\* As long as nobody works in the panel, Observe finds an accepted declaration up to
\* date exactly when the group is as declared, at every point of every behaviour:
\* the comparison of lengths in rulesConverged (firewall_external.go) neither takes
\* a missing rule for present nor makes Update run for ever on a group that is right.
THEOREM QuietIffDeclared ==
  ASSUME IsFiniteSet(Rules)
  PROVE  Spec => [](moves = 0 => (UpToDate(spec) <=> ~Refused(spec) /\ Declared(spec)))
<1>1. FirewallInv /\ moves = 0 => (UpToDate(spec) <=> ~Refused(spec) /\ Declared(spec))
  <2> SUFFICES ASSUME FirewallInv, moves = 0
               PROVE  UpToDate(spec) <=> ~Refused(spec) /\ Declared(spec)
    OBVIOUS
  <2>1. TypeOK /\ ~Duplicated
    <3>1. TypeOK /\ \A r \in Rules : rules[r] <= 1
      BY DEF FirewallInv, AddsAreMissing
    <3> QED  BY <3>1, ConstantFacts DEF TypeOK, Duplicated
  <2>2. spec.rules \subseteq Rules /\ spec.dup \in BOOLEAN
    BY <2>1, FirewallAssumption DEF TypeOK
  <2>3. IsFiniteSet(spec.rules) /\ Cardinality(Listed) = Cardinality(Present)
    BY <2>1, <2>2, ListedAsPresent, FS_Subset
  <2>4. Cardinality(Listed) = Cardinality(spec.rules) /\ Present \subseteq spec.rules
          <=> Present = spec.rules
    BY <2>3, FS_Subset
  <2> QED  BY <2>2, <2>4 DEF UpToDate, Refused, Declared, rulesConverged, attachConverged
<1> QED  BY <1>1, Invariance, PTL

(***************************************************************************)
(* Every write goes towards the declaration.                               *)
(***************************************************************************)
\* What is still to be done was asked for by the declaration this pass has read.
WorkIsDue ==
  /\ pc = "rules" => adds \subseteq sp.rules /\ \A x \in dels : x[1] \notin sp.rules
  /\ pc = "services" => adds \subseteq sp.svcs /\ dels \cap sp.svcs = {}

LEMMA DueStep == WorkIsDue /\ [Next]_vars => WorkIsDue'
<1> SUFFICES ASSUME WorkIsDue, [Next]_vars PROVE WorkIsDue'
  OBVIOUS
<1> USE DEF WorkIsDue
<1>1. CASE UNCHANGED vars
  BY <1>1 DEF vars
<1>2. CASE Observe \/ Reject \/ PatchFirewallGroup \/ Finish \/ Crash
  BY <1>2 DEF Observe, Reject, PatchFirewallGroup, Finish, Crash, Write, ToList, EndPass
<1>3. CASE reconcileRules
  BY <1>3 DEF reconcileRules, Missing
<1>4. CASE reconcileAttachments
  BY <1>4 DEF reconcileAttachments
<1>5. ASSUME NEW x \in RuleIds, DeleteFirewallRule(x) PROVE WorkIsDue'
  BY <1>5 DEF DeleteFirewallRule, Write, Spend, EndPass
<1>6. ASSUME NEW r \in Rules, CreateFirewallRule(r) PROVE WorkIsDue'
  BY <1>6 DEF CreateFirewallRule, Write, Spend, EndPass
<1>7. ASSUME NEW s \in Services, UnlinkFirewallResource(s) PROVE WorkIsDue'
  BY <1>7 DEF UnlinkFirewallResource, Write, Spend, EndPass
<1>8. ASSUME NEW s \in Services, attach(s) PROVE WorkIsDue'
  BY <1>8 DEF attach, Write, Spend, EndPass
<1>9. CASE EditSpec \/ PanelRules \/ PanelServices
  BY <1>9 DEF EditSpec, PanelRules, PanelServices, work
<1> QED  BY <1>1, <1>2, <1>3, <1>4, <1>5, <1>6, <1>7, <1>8, <1>9 DEF Next, Reconcile

\* A change of the group that brings it nearer to a declaration: only rules that are
\* not declared disappear, only declared ones appear, and likewise the services.
Towards(s) ==
  /\ \A r \in Rules : /\ rules'[r] < rules[r] => r \notin s.rules
                      /\ rules'[r] > rules[r] => r \in s.rules
  /\ svcs' \ svcs \subseteq s.svcs /\ (svcs \ svcs') \cap s.svcs = {}
  /\ name' \in {name, s.name}

\* No reconcile ever removes a rule or a service of the declaration it has read, or
\* adds one that is not in it, whatever was paced, lost or dropped before, and also
\* when the panel changed the group after it was listed (reconcileRules and
\* reconcileAttachments of firewall_external.go).
THEOREM WritesTowardsDeclared == Spec => [][Reconcile => Towards(sp)]_vars
<1>1. TypeOK /\ WorkIsDue /\ Reconcile => Towards(sp)
  <2> SUFFICES ASSUME TypeOK, WorkIsDue, Reconcile PROVE Towards(sp)
    OBVIOUS
  <2>0. \A r \in Rules : rules[r] \in Nat
    BY ConstantFacts DEF TypeOK
  <2>1. CASE Observe \/ Reject \/ PatchFirewallGroup \/ reconcileRules \/ reconcileAttachments \/ Finish
    BY <2>0, <2>1 DEF Observe, Reject, PatchFirewallGroup, reconcileRules, reconcileAttachments,
                      Finish, Write, group, Towards
  <2>2. ASSUME NEW x \in RuleIds, DeleteFirewallRule(x) PROVE Towards(sp)
    <3>1. /\ x[1] \in Rules /\ x[1] \notin sp.rules
          /\ rules' \in {rules, [rules EXCEPT ![x[1]] = @ - 1]}
          /\ svcs' = svcs /\ name' = name
      BY <2>2 DEF DeleteFirewallRule, Write, WorkIsDue, RuleIds
    <3>2. rules \in [Rules -> 0..MaxCopies]
      BY DEF TypeOK
    <3> QED  BY <2>0, <3>1, <3>2 DEF Towards
  <2>3. ASSUME NEW q \in Rules, CreateFirewallRule(q) PROVE Towards(sp)
    <3>1. /\ q \in sp.rules /\ svcs' = svcs /\ name' = name
          /\ rules' \in {rules, [rules EXCEPT ![q] = IF @ < MaxCopies THEN @ + 1 ELSE @]}
      BY <2>3 DEF CreateFirewallRule, Write, WorkIsDue
    <3>2. rules \in [Rules -> 0..MaxCopies]
      BY DEF TypeOK
    <3> QED  BY <2>0, <3>1, <3>2 DEF Towards
  <2>4. ASSUME NEW s \in Services, UnlinkFirewallResource(s) \/ attach(s) PROVE Towards(sp)
    <3>1. CASE UnlinkFirewallResource(s)
      BY <2>0, <3>1 DEF UnlinkFirewallResource, Write, WorkIsDue, Towards
    <3>2. CASE attach(s)
      BY <2>0, <3>2 DEF attach, Write, WorkIsDue, Towards
    <3> QED  BY <2>4, <3>1, <3>2
  <2> QED  BY <2>1, <2>2, <2>3, <2>4 DEF Reconcile
<1>2. Init => WorkIsDue
  BY DEF Init, WorkIsDue
<1> QED  BY <1>1, <1>2, DueStep, TypeCorrect, PTL DEF Spec
=============================================================================
