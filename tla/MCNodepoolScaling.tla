-------------------------- MODULE MCNodepoolScaling --------------------------
(***************************************************************************)
(* A small instance of NodepoolScaling: one and three declared nodes, an   *)
(* autoscaled pool that may rest at zero, and a change of labels.          *)
(***************************************************************************)
EXTENDS NodepoolScaling

One        == [meta |-> "plain", on |-> FALSE, min |-> NoSize, max |-> NoSize, count |-> 1]
Three      == [One EXCEPT !.meta = "tainted", !.count = 3]
Autoscaled == [meta |-> "plain", on |-> TRUE, min |-> 0, max |-> 2, count |-> 2]

Edits == {One, Three, Autoscaled}
=============================================================================
