-------------------------- MODULE MCExternalCreate --------------------------
(***************************************************************************)
(* Small instances of ExternalCreate for nodepools.                        *)
(***************************************************************************)
EXTENDS ExternalCreate, TLC

CONSTANT a

\* One MR.
OneMR == (a :> [name |-> "pool", preset |-> "small", configurator |-> Unset])
=============================================================================
