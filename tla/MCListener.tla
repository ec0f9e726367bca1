----------------------------- MODULE MCListener -----------------------------
(***************************************************************************)
(* Trees for TLC: those on which the handlers count right.                 *)
(***************************************************************************)
EXTENDS Listener

\* What the theorems about the listener have as hypothesis holds of the run.
ASSUME CountedAssumption == Counted
=============================================================================
