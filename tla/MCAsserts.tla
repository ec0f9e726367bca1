----------------------------- MODULE MCAsserts ------------------------------
(***************************************************************************)
(* What && and || join in TLC's runs: comparisons that are not inverted,   *)
(* one with a number and one with a Boolean.                               *)
(***************************************************************************)
EXTENDS Asserts

MCOperands == {[op |-> "!=", with |-> "number"], [op |-> "==", with |-> "true"]}
=============================================================================
