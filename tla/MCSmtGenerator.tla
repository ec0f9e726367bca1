--------------------------- MODULE MCSmtGenerator ---------------------------
(***************************************************************************)
(* Small LLVM modules for SmtGenerator.  Blocks are laid out the way       *)
(* compileIf in package llvm creates them: entry, after, true, false.      *)
(***************************************************************************)
EXTENDS SmtGenerator

MCVars   == {"x", "y", "k"}                  \* k is a global constant
MCBlocks == {"run", "run-after", "run-true", "run-false", "in-after", "in-true",
             "f", "f-after", "f-true", "f-false", "g", "h"}
MCFuns   == {"Run", "F", "G", "H"}
MCGroups == {"g1", "g2"}

Const(v)       == [do |-> "const", dst |-> v]
Infix(v, x, y) == [do |-> "infix", dst |-> v, x |-> x, y |-> y]
Copy(v, x)     == [do |-> "copy", dst |-> v, x |-> x]
Cmp(x)         == [do |-> "cmp", x |-> x, y |-> "lit"]
Advance(t, f)  == [do |-> "advance", to |-> t, from |-> f]
Call(f, m)     == [do |-> "call", f |-> f, m |-> m]
Round          == [do |-> "round"]

Ret == [do |-> "ret"]
Br  == [do |-> "br"]
If(t, a)     == [do |-> "cond", t |-> t, f |-> "nil", a |-> a]
IfElse(t, f) == [do |-> "cond", t |-> t, f |-> f, a |-> "nil"]

Straight == [b \in MCBlocks |-> Ret]
Empty    == [b \in MCBlocks |-> <<>>]
Plain    == [f \in MCFuns |->
               CASE f = "Run" -> <<"run">> [] f = "F" -> <<"f">>
                 [] f = "G" -> <<"g">> [] f = "H" -> <<"h">>]

Module(order, insts, term) ==
  [globals |-> <<"k">>, order |-> order, insts |-> insts, term |-> term]

\* The properties of components are initialised before the first round, those
\* of instances in it.
Inits       == <<Const("x"), Const("y"), Round>>
RoundInits  == <<Round, Const("x"), Const("y")>>

(***************************************************************************)
(* Conditionals without else in the run block, in its true branch and in a *)
(* function that it calls; two rounds.                                     *)
(***************************************************************************)
Body == {<<Const("x")>>, <<Infix("y", "x", "y")>>,
         <<Infix("x", "y", "lit"), Infix("y", "x", "x")>>, <<Advance("x", "y")>>}

IfOrder == [Plain EXCEPT !["Run"] = <<"run", "run-after", "run-true", "in-after", "in-true">>,
                         !["F"] = <<"f", "f-after", "f-true">>]
IfTerm  == [Straight EXCEPT !["run"] = If("run-true", "run-after"),
                            !["run-true"] = If("in-true", "in-after"),
                            !["in-true"] = Br, !["in-after"] = Br,
                            !["f"] = If("f-true", "f-after"), !["f-true"] = Br]

IfPrograms ==
  {Module(IfOrder,
     [Empty EXCEPT !["run"] = RoundInits \o a \o <<Cmp("x")>>,
                   !["run-true"] = b \o <<Cmp("y")>>,
                   !["in-true"] = c,
                   !["in-after"] = t,
                   !["run-after"] = b \o <<Infix("x", k, "x"), Round, Call("F", "g1"), Call("F", "g2")>>,
                   !["f"] = <<Cmp("y")>>,
                   !["f-true"] = c,
                   !["f-after"] = <<Infix("x", "y", "x")>>],
     IfTerm) : a \in {<<>>, <<Copy("y", "x")>>} \cup Body, b \in Body, c \in {<<>>} \cup Body,
               t \in {<<Const("y")>>, <<Call("F", "none")>>}, k \in {"k", "y"}}

(***************************************************************************)
(* Conditionals with an else that does not read what the true branch       *)
(* assigns, in the run block and in a function.                            *)
(***************************************************************************)
ThenBody == {<<>>, <<Const("x")>>, <<Infix("x", "x", "lit")>>,
             <<Const("x"), Infix("x", "x", "y")>>}
ElseBody == {<<>>, <<Const("x")>>, <<Infix("y", "y", "lit")>>, <<Const("x"), Infix("y", "x", "y")>>}

ElseOrder == [Plain EXCEPT !["Run"] = <<"run", "run-after", "run-true", "run-false">>,
                           !["F"] = <<"f", "f-after", "f-true", "f-false">>]
ElseTerm  == [Straight EXCEPT !["run"] = IfElse("run-true", "run-false"),
                              !["run-true"] = Br, !["run-false"] = Br,
                              !["f"] = IfElse("f-true", "f-false"),
                              !["f-true"] = Br, !["f-false"] = Br]
ElsePrograms ==
  {Module(ElseOrder,
     [Empty EXCEPT !["run"] = Inits \o <<Cmp("x")>>,
                   !["run-true"] = a,
                   !["run-false"] = b \o c,
                   !["run-after"] = <<Infix("y", "x", "y"), Round, Call("F", "g1")>>,
                   !["f"] = <<Cmp("y")>>,
                   !["f-true"] = d,
                   !["f-false"] = b,
                   !["f-after"] = <<Infix("y", "x", "y")>>],
     ElseTerm) : a \in ThenBody, b \in ElseBody, d \in ThenBody,
                 c \in {<<>>, <<Call("G", "g1")>>, <<Call("G", "g1"), Call("H", "none")>>}}

(***************************************************************************)
(* Parallel groups of two and three functions in two rounds.  A function   *)
(* reads one variable that others may assign, and then what it assigned.   *)
(***************************************************************************)
Step1(v) == {<<Const(v)>>, <<Infix(v, "x", "k")>>, <<Infix(v, "lit", "y")>>,
             <<Infix(v, "y", "lit"), Infix(v, v, v)>>}

ParallelPrograms ==
  {Module(Plain,
     [Empty EXCEPT !["run"] = Inits \o <<Call("F", "g1"), Call("G", "g1")>> \o t
                                \o <<Round, Call("G", "g2"), Call("F", "g2")>>,
                   !["f"] = a, !["g"] = b, !["h"] = <<Infix("x", "x", "lit")>>],
     Straight) : a \in Step1("x"), b \in Step1("y"), t \in {<<>>, <<Call("H", "g1")>>}}

PathPrograms == IfPrograms \cup ElsePrograms \cup ParallelPrograms

\* The classes of modules of the theorems about paths have members here.
ASSUME ClassesAssumption ==
  /\ \A p \in PathPrograms : Initialised(p)
  /\ \A p \in IfPrograms : NoElse(p) /\ CallsLast(p) /\ Sequential(p)
  /\ \A p \in ElsePrograms : NoCopies(p) /\ Sequential(p) /\ OwnState(p)
  /\ \E p, q \in IfPrograms : NoCopies(p) /\ OwnState(p) /\ NoCopies(q) /\ ~OwnState(q)

(***************************************************************************)
(* Everything nested in everything: parallel groups in both branches of a  *)
(* conditional, after it and in the next round, functions with             *)
(* conditionals, an else that reads what the true branch assigns.          *)
(***************************************************************************)
NestBody == {<<Infix("x", "y", "k")>>, <<Call("F", "g1"), Call("G", "g1")>>,
             <<Infix("y", "x", "y"), Call("F", "none")>>}

NestedPrograms ==
  {Module(o,
     [Empty EXCEPT !["run"] = Inits \o a \o <<Cmp("x")>>,
                   !["run-true"] = b,
                   !["run-false"] = c,
                   !["run-after"] = <<Round>> \o a \o <<Round, Infix("x", "x", "y")>>,
                   !["f"] = <<Cmp("y")>>,
                   !["f-true"] = <<Infix("x", "x", "y")>>,
                   !["f-false"] = <<Infix("y", "x", "lit")>>,
                   !["g"] = <<Infix("y", "x", "y")>>],
     [ElseTerm EXCEPT !["run"] = r]) :
     o \in {ElseOrder}, r \in {IfElse("run-true", "run-false"), If("run-true", "run-after")},
     a \in NestBody, b \in NestBody, c \in NestBody}

(***************************************************************************)
(* A model on which the code does not do what its comment says.            *)
(***************************************************************************)

\* The second operand of x = x + y is assigned by the other function.
SecondOperandPrograms ==
  {Module(Plain, [Empty EXCEPT !["run"] = Inits \o <<Call("G", "g1"), Call("F", "g1")>>,
                               !["f"] = <<Infix("x", "x", "y")>>,
                               !["g"] = <<Infix("y", "y", "lit")>>], Straight)}

=============================================================================
