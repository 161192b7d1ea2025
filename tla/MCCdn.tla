-------------------------------- MODULE MCCdn --------------------------------
(***************************************************************************)
(* Cdn with three certificates for the Secret, one of which Timeweb        *)
(* refuses, and a declaration of each mode.                                *)
(***************************************************************************)
EXTENDS Cdn

CONSTANTS x, y

MCIdents  == { <<"a", 1>>, <<"b", 1>>, <<"c", 1>> }
MCTrusted == { <<"a", 1>>, <<"b", 1>> }
MCGiven   == <<"a", 1>>
MCLE      == <<"le", 1>>

Decl(domains, other, mode) ==
  [conf |-> [s \in Sections |-> IF s = "domains" THEN domains ELSE other], mode |-> mode]

MCSpecs == { Decl(y, y, "custom"), Decl(y, None, "letsEncrypt"), Decl(None, y, "none"),
             Decl(y, y, "absent") }
=============================================================================
