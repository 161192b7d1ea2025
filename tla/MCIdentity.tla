----------------------------- MODULE MCIdentity -----------------------------
(***************************************************************************)
(* The three shapes of Create side by side: a kind that looks when it is   *)
(* in doubt (the one the constants give), one that always looks and one    *)
(* that never does, each with the faults it can stand.  The shape is chosen*)
(* in the initial state and stays.  Two MRs share a name and differ in     *)
(* their preset.  Firewalls are told apart by the name alone, and those of *)
(* different names do not meet: one of them takes steps.  Only the first   *)
(* shape reads the clock, and gets a third second for it.                  *)
(***************************************************************************)
EXTENDS ExternalCreate, TLC

CONSTANTS a, b

VARIABLE shape

Pool(preset) == [name |-> "pool", preset |-> preset, configurator |-> Unset]

SameName == (a :> Pool("small")) @@ (b :> Pool("large"))

IdSymmetry == Permutations(Ids)

Firewall == INSTANCE ExternalCreate WITH
  MaxTime <- 2, Kind <- "Firewall", Faults <- {"crash", "lostAnswer", "partialCreate", "stomp"}
Server == INSTANCE ExternalCreate WITH
  MaxTime <- 2, Kind <- "Server", Faults <- {"outOfBand"}

NextFirewall ==
  \/ Firewall!Reconcile(a) \/ Firewall!Operator(a) \/ Firewall!Stomp(a)
  \/ Firewall!Tick \/ Firewall!Crash

InitShapes == shape \in {"Nodepool", "Firewall", "Server"} /\ Init

NextShapes ==
  /\ shape' = shape
  /\ \/ shape = "Nodepool" /\ Next
     \/ shape = "Firewall" /\ NextFirewall
     \/ shape = "Server" /\ Server!Next

SpecShapes == InitShapes /\ [][NextShapes]_<<shape, vars>>
=============================================================================
