-------------------------- MODULE MCClusterUpdate --------------------------
(***************************************************************************)
(* ClusterUpdate on two routers.  The declarations differ in their router, *)
(* in a rename, and in a version: an upgrade, a downgrade, a lateral change *)
(* and one that is not offered.  One leaves the zone to be derived.        *)
(***************************************************************************)
EXTENDS ClusterUpdate

CONSTANTS r1, r2

Decl(name, version, router, zone) ==
  [name |-> name, version |-> version, router |-> router, zone |-> zone]

MCSpecs == {
  Decl("a", <<1, 0>>, NoRouter, "pinned"), Decl("a", <<1, 0>>, r1, "pinned"),
  Decl("b", <<2, 0>>, r2, "pinned"), Decl("b", <<2, 1>>, NoRouter, "pinned"),
  Decl("a", <<4, 0>>, r1, "pinned"), Decl("a", <<1, 0>>, r1, "derived") }

MCCatalog == { <<1, 0>>, <<2, 0>>, <<2, 1>> }
=============================================================================
