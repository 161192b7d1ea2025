--------------------------- MODULE MCFirewallRules ---------------------------
(***************************************************************************)
(* A small instance of FirewallRules: three keys, two services, and        *)
(* declarations that differ in more than one pass of two calls can change. *)
(***************************************************************************)
EXTENDS FirewallRules

CONSTANTS r1, r2, r3, s1, s2

Base    == [name |-> "web", policy |-> "DROP", dup |-> FALSE, rules |-> {r1}, svcs |-> {s1}]
Other   == [Base EXCEPT !.name = "edge", !.rules = {r2, r3}, !.svcs = {s1, s2}]
Twice   == [Base EXCEPT !.dup = TRUE]
Opened  == [Base EXCEPT !.policy = "ACCEPT"]

Edits == {Base, Other, Twice, Opened}
=============================================================================
