--------------------------- MODULE MCConditionals ---------------------------
(***************************************************************************)
(* Conditionals for TLC.                                                   *)
(***************************************************************************)
EXTENDS Conditionals

TwoAtoms == <<"a", "b">>
FourAtoms == <<"a", "b", "c", "d">>
=============================================================================
