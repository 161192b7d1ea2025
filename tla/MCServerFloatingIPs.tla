------------------------- MODULE MCServerFloatingIPs -------------------------
(***************************************************************************)
(* Small instances of ServerFloatingIPs for TLC.                           *)
(***************************************************************************)
EXTENDS ServerFloatingIPs, TLC

CONSTANTS f1, f2

\* f1 is listed before f2.
Listed == [f \in FIPs |-> IF f = f1 THEN 1 ELSE 2]

\* Every order of the lists is possible, and may differ from Server to Server.
AnyOrder == [f \in FIPs |-> 1]

\* With AnyOrder, Servers and addresses are interchangeable; not used with liveness.
Symmetry == Permutations(Servers) \cup Permutations(FIPs)
=============================================================================
