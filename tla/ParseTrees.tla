----------------------------- MODULE ParseTrees -----------------------------
(***************************************************************************)
(* Parse trees as ANTLR's parsers make them, and what is left of a walk.   *)
(* A rule is the set of its alternatives.  Tokens are all alike; they are  *)
(* only counted, because listeners count children.                         *)
(*                                                                         *)
(* A tree has no bound, so a choice has a cost.  The choice a rule makes   *)
(* most often is free, any other costs 1, and a tree is made within a      *)
(* budget.  A repetition is free if it is taken once.                      *)
(***************************************************************************)
EXTENDS Integers, Sequences, FiniteSets

CONSTANT MaxRepeat \* how often a repeated element is taken at most

ASSUME MaxRepeatAssumption == MaxRepeat \in Nat \ {0}

\* The context that a rule makes, its tokens and its rules, and what the choice costs.
Alt(label, tokens, body, cost) == [label |-> label, tokens |-> tokens, body |-> body, cost |-> cost]

\* A rule that has a single alternative.
Only(label, tokens, body) == {Alt(label, tokens, body, 0)}

Times(rule, n) == [i \in 1..n |-> rule]

Many == 0..MaxRepeat
Extra(n) == IF n = 1 THEN 0 ELSE 1
Maybe == 0..1

(***************************************************************************)
(* A walk is a sequence of rules that are still to be parsed and of Exit   *)
(* events of contexts that are open.                                       *)
(***************************************************************************)
Rule(rule) == [enter |-> TRUE, of |-> rule, tokens |-> 0, body |-> <<>>, base |-> 0]
Exit(alt, base) ==
  [enter |-> FALSE, of |-> alt.label, tokens |-> alt.tokens, body |-> alt.body, base |-> base]
Parsed(body) == [i \in DOMAIN body |-> Rule(body[i])]
IsExit(w) == ~w.enter

\* GetChildCount, and the children of one rule.
Width(c) == c.tokens + Len(c.body)
Children(c, rule) == Cardinality({i \in DOMAIN c.body : c.body[i] = rule})
=============================================================================
