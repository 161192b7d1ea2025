--------------------------- MODULE MCRouterUpdate ---------------------------
(***************************************************************************)
(* Small instances of RouterUpdate: two networks, two addresses, one       *)
(* subnet, and the declarations an operator moves between.                 *)
(***************************************************************************)
EXTENDS RouterUpdate, TLC

CONSTANTS n1, n2, a1, a2, s1

Declare(label, nets, nat1, nat2, dhcp, hop) ==
  [label |-> label, tier |-> Tier, nets |-> nets, dhcp |-> dhcp,
   nat |-> (n1 :> nat1) @@ (n2 :> nat2), routes |-> (s1 :> hop)]

OneNAT   == Declare("edge", {n1}, a1, NoAddr, {}, "hop1")
Swapped  == Declare("edge", {n1, n2}, a2, a1, {n1}, NoHop)
Moved    == Declare("core", {n2}, NoAddr, NoAddr, {n2}, "hop2")
Drained  == Declare("edge", {}, NoAddr, NoAddr, {}, NoHop)
Retiered == [OneNAT EXCEPT !.tier = "other"]

\* Attach, detach, NAT moves, DHCP and route changes, and two rejected edits.
AnyEdit == {OneNAT, Swapped, Moved, Drained, Retiered}
=============================================================================
