------------------------------ MODULE Pipeline ------------------------------
(***************************************************************************)
(* main.go and execute/execute.go: the phases of a run of the command, and *)
(* the two processes of the solver that it starts.  Check asks whether the *)
(* formula has a model; Solve starts the solver again, with the same       *)
(* formula, for the model, and hands what the second process prints to the *)
(* listener of SmtListener without looking at its sat or unsat.            *)
(*                                                                         *)
(* The phases up to the formula are abstracted to what they decide: that   *)
(* they fail, that there is something to run, and the formula, of which    *)
(* only 'satisfiable' is kept.  The solver is external: it does not say    *)
(* sat or unsat wrongly, but either process may fail, and the second one   *)
(* may end without a model although the first one found it.                *)
(***************************************************************************)
EXTENDS SmtListener

CONSTANT Uncertains \* the variables with a distribution

ASSUME UncertainsAssumption == Uncertains \subseteq {id \in Ids : Sort[id] # "Bool"}

VARIABLES asked,       \* mode and input that are asked for; SOLVERCMD and SOLVERARG
          satisfiable, \* the formula has a model
          phase,       \* what the run does next
          mode,        \* main's mode
          lines,       \* what is left of the second answer
          weights,     \* the versions of a variable that Filter has weighted
          shown        \* what has been printed

driverVars == <<asked, satisfiable, phase, mode, lines, weights, shown>>
vars == <<driverVars, listenerVars>>

Modes == {"ast", "ir", "smt", "check", "visualize"}
Inputs == {"fspec", "ll", "smt2"}
Outputs == {"tree", "ir", "smt", "graph", "diagram", "nothing to run", "no failure", "scenario", "error"}

Init ==
  /\ asked \in [mode : Modes, input : Inputs, cmd : BOOLEAN, arg : BOOLEAN]
  /\ satisfiable \in BOOLEAN
  /\ phase = "main" /\ mode = asked.mode /\ lines = <<>> /\ shown = {}
  /\ weights = [id \in Ids |-> {}]
  /\ walk = <<>> /\ fuel = AnswerFuel /\ NewSMTListener

Go(p) == phase' = p /\ UNCHANGED shown
Over(s) == phase' = "over" /\ shown' = shown \cup s
\* log.Fatal, os.Exit(1) or a panic
Die == Over({"error"})

-----------------------------------------------------------------------------
(***************************************************************************)
(* main.go                                                                 *)
(***************************************************************************)

\* && binds tighter than ||: without SOLVERARG the mode is smt, whatever was asked.
SolverMode(m) ==
  IF (m \in {"check", "visualize"} /\ ~asked.cmd) \/ ~asked.arg THEN "smt" ELSE m

Main ==
  /\ phase = "main"
  /\ \/ Die /\ UNCHANGED mode
     \/ Go("run") /\ mode' = SolverMode(asked.mode)
  /\ UNCHANGED <<asked, satisfiable, lines, weights, listenerVars>>

\* The file is read; the modes are looked at later, if the input has them.
Run ==
  /\ phase = "run"
  /\ \/ Die
     \/ asked.input = "fspec" /\ Go("parse")
     \/ asked.input = "ll" /\ Go("generate")
     \/ asked.input = "smt2" /\ Go("probability")
  /\ UNCHANGED <<asked, satisfiable, mode, lines, weights, listenerVars>>

\* Listener, preprocessor, type checker, visualisation, reachability.
Parse ==
  /\ phase = "parse"
  /\ \/ Die
     \/ mode = "ast" /\ Over({"tree"})
     \/ mode # "ast" /\ Go("compile")
  /\ UNCHANGED <<asked, satisfiable, mode, lines, weights, listenerVars>>

\* Without a run block there is nothing to run.
Compile ==
  /\ phase = "compile"
  /\ \/ Die
     \/ mode = "ir" /\ Over({"ir"})
     \/ mode = "visualize" /\ Over({"graph"})
     \/ mode \notin {"ir", "visualize"} /\ Over({"nothing to run"})
     \/ mode # "ir" /\ Go("generate")
  /\ UNCHANGED <<asked, satisfiable, mode, lines, weights, listenerVars>>

Generate ==
  /\ phase = "generate"
  /\ \/ Die
     \/ mode = "smt" /\ Over({"smt"})
     \/ mode # "smt" /\ Go("probability")
  /\ UNCHANGED <<asked, satisfiable, mode, lines, weights, listenerVars>>

\* Mermaid draws the results of the generator; with input smt2 there are none.
Drawing ==
  CASE mode # "visualize" \/ asked.input = "smt2" -> {}
    [] mode = "visualize" /\ asked.input = "ll" -> {"diagram"}
    [] mode = "visualize" /\ asked.input = "fspec" -> {"graph", "diagram"}

-----------------------------------------------------------------------------
(***************************************************************************)
(* execute.go                                                              *)
(***************************************************************************)

\* What an answer to (check-sat) may be, and which of the two words it ends in.
Answers == {"unknown"} \cup (IF satisfiable THEN {"sat"} ELSE {"unsat"})
FromEnd(answer) == {w \in {"sat", "unsat"} : answer = w \/ answer = "unsat"}

\* Mutant: "sat" is looked for first, which "unsat" ends in as well.
SatFirst(answer) ==
  CASE "sat" \in FromEnd(answer) -> "ok"
    [] "sat" \notin FromEnd(answer) /\ "unsat" \in FromEnd(answer) -> "not ok"
    [] OTHER -> "error"

Checked(answer) ==
  CASE "unsat" \in FromEnd(answer) -> "not ok"
    [] "unsat" \notin FromEnd(answer) /\ "sat" \in FromEnd(answer) -> "ok"
    [] OTHER -> "error"

\* GenerateSolver panics without a solver; Check fails with the process.
Check ==
  /\ phase = "probability"
  /\ \/ Die
     \/ /\ asked.cmd /\ asked.arg
        /\ \E answer \in Answers :
             \/ Checked(answer) = "error" /\ Die
             \/ Checked(answer) = "not ok" /\ Over({"no failure"} \cup Drawing)
             \/ Checked(answer) = "ok" /\ Go("solve")
  /\ UNCHANGED <<asked, satisfiable, mode, lines, weights, listenerVars>>

\* The second process: a line with its word and the model or an error in parentheses,
\* the word alone, or nothing.
Solve ==
  /\ phase = "solve"
  /\ \/ Die /\ UNCHANGED lines
     \/ Go("clean") /\ lines' \in {<<"word", "paren">>, <<"word">>, <<>>}
  /\ UNCHANGED <<asked, satisfiable, mode, weights, listenerVars>>

\* Mutant: the newline is kept, results[newline:], and is found again.
CleanKept ==
  /\ phase = "clean"
  /\ \/ lines = <<>> /\ Die /\ UNCHANGED walk
     \/ lines # <<>> /\ Head(lines) = "paren" /\ Go("listen") /\ walk' = <<Rule("start")>>
     \/ lines # <<>> /\ Head(lines) # "paren" /\ UNCHANGED <<phase, shown, walk>>
  /\ UNCHANGED <<asked, satisfiable, mode, lines, weights>>
  /\ UNCHANGED <<fuel, stack, Results, meant, said, malformed>>

\* cleanExtraOutputs takes lines off until one begins with a parenthesis.  Index gives
\* -1 for the last one, which takes off nothing.
CleanExtraOutputs ==
  /\ phase = "clean"
  /\ \/ lines = <<>> /\ Die /\ UNCHANGED <<lines, walk>>
     \/ /\ lines # <<>> /\ Head(lines) = "paren"
        /\ Go("listen") /\ walk' = <<Rule("start")>> /\ UNCHANGED lines
     \/ /\ lines # <<>> /\ Head(lines) # "paren"
        /\ lines' = (IF Len(lines) > 1 THEN Tail(lines) ELSE lines)
        /\ UNCHANGED <<phase, shown, walk>>
  /\ UNCHANGED <<asked, satisfiable, mode, weights>>
  /\ UNCHANGED <<fuel, stack, Results, meant, said, malformed>>

Walk ==
  /\ phase = "listen" /\ Listen
  /\ UNCHANGED driverVars

\* Filter weighs the values of uncertain variables; an error in place of a model has
\* left an empty map, which is not nil.
Show ==
  /\ phase = "listen" /\ walk = <<>>
  /\ \/ malformed /\ Die /\ UNCHANGED weights
     \/ /\ ~malformed
        /\ weights' = [id \in Ids |-> IF id \in Uncertains THEN DOMAIN Results[id] ELSE {}]
        /\ Over(IF mode = "visualize" THEN Drawing ELSE {"scenario"})
  /\ UNCHANGED <<asked, satisfiable, mode, lines, listenerVars>>

-----------------------------------------------------------------------------
Done == phase = "over" /\ UNCHANGED vars

Next ==
  \/ Main \/ Run \/ Parse \/ Compile \/ Generate \/ Check \/ Solve
  \/ CleanExtraOutputs \/ Walk \/ Show \/ Done

\* One process without waits but for the solver, whose processes end.
Spec == Init /\ [][Next]_vars /\ WF_vars(Next)

\* No line of the second answer begins with a parenthesis.
Wordy == phase = "clean" /\ lines # <<>> /\ \A i \in DOMAIN lines : lines[i] # "paren"

V == INSTANCE Verdict WITH over <- phase = "over", stuck <- Wordy

\* The command shows what Verdict allows: "no failure" and a scenario only where the
\* formula says so and the solver was asked, a milestone only to those who asked for it.
HonestVerdict == V!Safe

\* A run ends, unless the second process gives no line that begins with a parenthesis.
RunEnds == V!Ending
=============================================================================
