--------------------------- MODULE MCCffSubroutines ---------------------------
(***************************************************************************)
(* Charstrings over three units, one of which ends a charstring and one of *)
(* which is long enough to become a subroutine alone.                      *)
(***************************************************************************)
EXTENDS CffSubroutines

CONSTANTS a, b, final

MCOperators == {a, b, final}
MCEndings == {final}
MCSize == [t \in MCOperators |-> IF t = a THEN 16 ELSE 6]
===============================================================================
