------------------------------- MODULE Verdict ------------------------------
(***************************************************************************)
(* What a run of the command promises its user, without how it gets there: *)
(* it shows something once and is over, what it shows is true of the       *)
(* formula and is what was asked for, and it is kept from ending only by a *)
(* solver that gives no model where it had said that there is one.         *)
(***************************************************************************)
CONSTANT Outputs      \* what a run may show

VARIABLES asked,      \* the mode that was asked for and what is configured
          satisfiable, \* whether the formula has a model
          shown, over, stuck

vars == <<asked, satisfiable, shown, over, stuck>>

Configured == asked.cmd /\ asked.arg

\* A failure case is claimed, or denied, only as it is; a tree or the IR is shown to
\* those who asked for it, SMT also to those who have no solver.
Honest(s) ==
  /\ "no failure" \in s => ~satisfiable /\ Configured
  /\ "scenario" \in s => satisfiable /\ Configured
  /\ "tree" \in s => asked.mode = "ast"
  /\ "ir" \in s => asked.mode = "ir"
  /\ "smt" \in s => asked.mode = "smt" \/ ~Configured
  /\ "error" \in s => s = {"error"}

Init == satisfiable \in BOOLEAN /\ shown = {} /\ over = FALSE /\ stuck = FALSE

Finish ==
  /\ ~over /\ ~stuck /\ over' = TRUE
  /\ shown' \in SUBSET Outputs /\ Honest(shown')
  /\ UNCHANGED <<asked, satisfiable, stuck>>

Stall == ~over /\ ~stuck /\ stuck' = TRUE /\ UNCHANGED <<asked, satisfiable, shown, over>>

Next == Finish \/ Stall

Safe == Init /\ [][Next]_vars
Ending == <>(over \/ stuck)
=============================================================================
