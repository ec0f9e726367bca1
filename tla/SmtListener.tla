----------------------------- MODULE SmtListener ----------------------------
(***************************************************************************)
(* execute/responses.go: SMTListener walks a solver's answer and keeps the *)
(* value of every version of every variable.  The handlers work on texts;  *)
(* a text is what it spells: a variable with the number behind its last    *)
(* '_', a sort, a boolean, or a number.                                    *)
(*                                                                         *)
(* The answer is external: a solver defines a variable by a literal, by    *)
(* (- x), by (/ x y) or by (- (/ x y)), according to its sort.  'meant'    *)
(* and 'said' record what the answer says.                                 *)
(***************************************************************************)
EXTENDS SmtlibGrammar, SequencesExt

CONSTANTS Ids,        \* the variables of the formula
          Sort,       \* the sort of each
          Versions,   \* the numbers of versions in an answer
          MaxInt16,   \* the largest of them that parses as an int16
          Literals,   \* the literals of an answer
          Scale,      \* units of the last digit that the format %f prints
          Negatives,  \* whether an answer has negative numbers
          AnswerFuel  \* what the choices in an answer may cost together

ASSUME SmtListenerAssumption ==
  /\ Sort \in [Ids -> {"Real", "Int", "Bool"}]
  /\ Versions \subseteq Nat /\ MaxInt16 \in Nat
  /\ Literals \subseteq Nat \ {0} /\ Scale \in Nat \ {0}
  /\ Negatives \in BOOLEAN /\ AnswerFuel \in Nat

VARIABLES walk,    \* what is left of the answer
          fuel,    \* what is left of its budget
          stack,   \* SMTListener.stack
          Results, \* SMTListener.Results: a variable's values by version
          meant,   \* what the terms on the stack mean
          said,    \* the definitions that the answer has made
          malformed \* a panic

listenerVars == <<walk, fuel, stack, Results, meant, said, malformed>>

Var(id, n) == [is |-> "var", name |-> id, n |-> n]
SortText(s) == [is |-> "sort", name |-> s, n |-> 0]
Bool(b) == [is |-> "bool", name |-> b, n |-> 0]
Num(n) == [is |-> "num", name |-> "", n |-> n]

\* What a term means: a fraction, or a boolean.
Fraction(a, b) == [bool |-> "", num |-> a, den |-> b]
Truth(b) == [bool |-> b, num |-> 0, den |-> 1]

NewSMTListener ==
  /\ stack = <<>> /\ Results = [i \in Ids |-> <<>>] /\ meant = <<>> /\ said = <<>>
  /\ malformed = FALSE

-----------------------------------------------------------------------------
(***************************************************************************)
(* External: the terms that a solver answers with.  (/ x y) has literals   *)
(* only; (- x) has a literal or a quotient.                                *)
(***************************************************************************)
Around == {i \in 2..Len(walk) : walk[i].of = "Term" /\ \A j \in 2..i : walk[j].of # "Function_def"}
SortOfTerm == Sort[Head(stack).name]
Sorted(alt) ==
  LET args == Children(alt, "term") IN
  CASE SortOfTerm = "Bool" -> alt.body = <<"qual_identifer">>
    [] SortOfTerm # "Bool" /\ args = 0 -> alt.body = <<"spec_constant">>
    [] SortOfTerm # "Bool" /\ args = 1 -> Negatives /\ Around = {}
    [] SortOfTerm # "Bool" /\ args = 2 ->
         SortOfTerm = "Real" /\ \A i \in Around : Children(walk[i], "term") = 1
    [] OTHER -> FALSE

Handled == {"Function_def", "Variable", "Term", "Sort"}

Enter ==
  /\ walk # <<>> /\ Head(walk).enter
  /\ \E alt \in Rules[Head(walk).of] :
       /\ alt.cost <= fuel /\ (alt.label = "Term" => Sorted(alt))
       /\ fuel' = fuel - alt.cost
       /\ walk' = Parsed(alt.body)
                    \o (IF alt.label \in Handled THEN <<Exit(alt, Len(stack))>>
                        ELSE <<>>) \o Tail(walk)
  /\ UNCHANGED <<stack, Results, meant, said, malformed>>

At(label) == walk # <<>> /\ IsExit(Head(walk)) /\ Head(walk).of = label
Push(text) == stack' = Append(stack, text) /\ walk' = Tail(walk)

\* A version is defined once.
ExitVariable ==
  /\ At("Variable")
  /\ \E id \in Ids, n \in Versions :
       /\ \A i \in DOMAIN said : said[i].id # id \/ said[i].version # n
       /\ Push(Var(id, n))
  /\ UNCHANGED <<fuel, Results, meant, said, malformed>>

ExitSort ==
  /\ At("Sort")
  /\ Push(SortText(Sort[Last(stack).name]))
  /\ UNCHANGED <<fuel, Results, meant, said, malformed>>

-----------------------------------------------------------------------------
(***************************************************************************)
(* Terms.                                                                  *)
(***************************************************************************)

\* The quotient is printed with %f, which rounds to the nearest unit.
Quotient(a, b) == (2 * a * Scale + b) \div (2 * b)

\* Mutant: the parts come in the order in which they are popped.
MergeReversed(parts) ==
  IF Len(parts) = 1 THEN parts[1] ELSE Num(Quotient(parts[2].n, parts[1].n))

\* The operator is not among the parts, only its arguments are.
MergeTermParts(parts) ==
  IF Len(parts) = 1 THEN parts[1] ELSE Num(Quotient(parts[1].n, parts[2].n))

ExitTerm ==
  /\ At("Term")
  /\ LET args == Children(Head(walk), "term")
         keep == Len(stack) - args
         parts == SubSeq(stack, keep + 1, Len(stack))
         means == SubSeq(meant, Len(meant) - args + 1, Len(meant))
         before == SubSeq(meant, 1, Len(meant) - args)
     IN  \/ /\ Head(walk).body = <<"spec_constant">>
            /\ \E n \in Literals : Push(Num(n * Scale)) /\ meant' = Append(meant, Fraction(n, 1))
         \/ /\ Head(walk).body = <<"qual_identifer">>
            /\ \E b \in {"true", "false"} : Push(Bool(b)) /\ meant' = Append(meant, Truth(b))
         \/ /\ args = 1
            /\ stack' = Append(SubSeq(stack, 1, keep), MergeTermParts(parts))
            /\ meant' = Append(before, [means[1] EXCEPT !.num = -@])
            /\ walk' = Tail(walk)
         \/ /\ args = 2
            /\ stack' = Append(SubSeq(stack, 1, keep), MergeTermParts(parts))
            /\ meant' = Append(before, Fraction(means[1].num * means[2].den, means[2].num * means[1].den))
            /\ walk' = Tail(walk)
  /\ UNCHANGED <<fuel, Results, said, malformed>>

\* convertTerm: by the sort; a number stays one, a boolean one of two.
ConvertTerm(sortText, t) == IF sortText.name = "Bool" THEN t.name ELSE t.n

\* Trace.Add
AddValue(trace, k, v) == [j \in DOMAIN trace \cup {k} |-> IF j = k THEN v ELSE trace[j]]

\* splitIdent and ParseInt: the number of the version must be an int16.
ExitFunction_def ==
  /\ At("Function_def")
  /\ LET t == stack[Len(stack)]
         sortText == stack[Len(stack) - 1]
         sym == stack[Len(stack) - 2]
     IN  /\ stack' = SubSeq(stack, 1, Len(stack) - 3)
         /\ said' = Append(said, [id |-> sym.name, version |-> sym.n, value |-> Last(meant)])
         /\ meant' = Front(meant)
         /\ IF sym.n > MaxInt16
            THEN malformed' = TRUE /\ walk' = <<>> /\ UNCHANGED Results
            ELSE /\ Results' = [Results EXCEPT ![sym.name] = AddValue(@, sym.n, ConvertTerm(sortText, t))]
                 /\ walk' = Tail(walk) /\ UNCHANGED malformed
  /\ UNCHANGED fuel

Listen == Enter \/ ExitVariable \/ ExitSort \/ ExitTerm \/ ExitFunction_def

-----------------------------------------------------------------------------
\* What is kept of a definition: the boolean, or the number up to half a unit, but
\* nothing is said of a negative number, which loses its sign.
Kept(d) ==
  LET v == Results[d.id][d.version] IN
  /\ d.version \in DOMAIN Results[d.id]
  /\ IF Sort[d.id] = "Bool" THEN v = d.value.bool
     ELSE d.value.num >= 0 =>
          LET off == v * d.value.den - d.value.num * Scale
          IN  2 * (IF off < 0 THEN -off ELSE off) <= d.value.den

\* Every value that the solver gave is kept under its variable and version, and
\* nothing else is, also next to negative numbers.
AnswerKept ==
  ~malformed =>
    /\ \A i \in DOMAIN said : Kept(said[i])
    /\ \A id \in Ids : DOMAIN Results[id] = {said[i].version : i \in {j \in DOMAIN said : said[j].id = id}}
=============================================================================
