------------------------------ MODULE Asserts -------------------------------
(***************************************************************************)
(* How an assertion becomes a clause of the formula: compileAssert in      *)
(* llvm/compiler.go negates it, so that the solver looks for a failure,    *)
(* and parseAssert in smt/asserts.go expands it over the versions that the *)
(* generator has put into RoundVars.  An assumption is not negated.        *)
(*                                                                         *)
(* A constraint is a comparison of x with a literal ("atom"), of x with y  *)
(* ("pair"), or two comparisons of x with literals joined by && or ||.     *)
(* Clauses are texts; here a clause is its truth under a valuation 'val',  *)
(* which says in which versions x equals what it is compared with, or,     *)
(* compared with true or false, in which versions x is true.  A property   *)
(* quantifies over all valuations.                                         *)
(***************************************************************************)
EXTENDS Integers, SequencesExt, FiniteSetsExt

CONSTANTS MaxEntries, \* versions in RoundVars at most
          MaxRounds,  \* rounds in it at most
          MaxTimes,   \* the largest number behind nmt or nft
          Operands    \* the comparisons that && and || join

\* "==" stands for every operator but "!=": <, for one, whose negation is >=.
Operators == {"==", "!="}
Comparisons == [op : Operators, with : {"number", "true", "false"}]

ASSUME AssertsAssumption ==
  MaxEntries \in Nat /\ MaxRounds \in Nat /\ MaxTimes \in Nat /\ Operands \subseteq Comparisons

VARIABLES RoundVars, \* Generator.RoundVars: the versions of each round, in order
          written,   \* the assertion in the source
          compiled   \* what compileAssert makes of it

vars == <<RoundVars, written, compiled>>

None == [form |-> "none"]

Forms == {"atom", "pair", "and", "or"}
Temporals == {"no", "always", "eventually", "eventually-always"}

\* !x; that x alone is asserted is the same as x == true.
NotVariable == [op |-> "!", with |-> "true"]

Sides(form) ==
  CASE form = "atom" -> [1..1 -> Comparisons \cup {NotVariable}]
    [] form = "pair" -> [1..1 -> [op : Operators, with : {"y"}]]
    [] form \in {"and", "or"} -> [1..2 -> Operands]

\* The grammar has a temporal keyword or a filter, not both.
Words == [temporal : Temporals, filter : {"no"}, n : {0}]
           \cup [temporal : {"no"}, filter : {"nmt", "nft"}, n : 0..MaxTimes]

Assertions ==
  UNION {{[form |-> form, sides |-> sides, assume |-> assume,
           temporal |-> w.temporal, filter |-> w.filter, n |-> w.n] :
            sides \in Sides(form), assume \in BOOLEAN, w \in Words} : form \in Forms}

Flat == FlattenSeq(RoundVars)

\* The versions of a variable in all rounds: they are numbered from 0.
EntriesOf(base) == {p \in UNION {{i} \X DOMAIN RoundVars[i] : i \in DOMAIN RoundVars} :
                      RoundVars[p[1]][p[2]].base = base}
VersionsOf(base) == [k \in 1..Cardinality(EntriesOf(base)) |-> k - 1]

-----------------------------------------------------------------------------
(***************************************************************************)
(* generator.go: the versions that are there to assert about.              *)
(***************************************************************************)
Init == RoundVars = <<>> /\ written = None /\ compiled = None

\* The first entry opens a round if none has begun.
AddVarToRound(base) ==
  /\ written = None /\ Len(Flat) < MaxEntries
  /\ LET entry == [base |-> base, num |-> Len(VersionsOf(base))] IN
     RoundVars' = IF RoundVars = <<>> THEN <<<<entry>>>>
                  ELSE [RoundVars EXCEPT ![Len(RoundVars)] = Append(@, entry)]
  /\ UNCHANGED <<written, compiled>>

NewRound ==
  /\ written = None /\ Len(RoundVars) < MaxRounds
  /\ RoundVars' = Append(RoundVars, <<>>)
  /\ UNCHANGED <<written, compiled>>

-----------------------------------------------------------------------------
(***************************************************************************)
(* listener.go: the constraint of an assertion or an assumption.           *)
(***************************************************************************)

\* !x is x != true.  An assumption that is itself an inequality is compared with true
\* once more, as true != (x != e); an assertion, and !x, are left.
Constraint(a) ==
  [form |-> a.form,
   sides |-> [i \in DOMAIN a.sides |->
                IF a.sides[i] = NotVariable THEN [op |-> "!=", with |-> "true"] ELSE a.sides[i]],
   wrapped |-> a.assume /\ a.form \in {"atom", "pair"} /\ a.sides[1].op = "!=",
   filter |-> a.filter, n |-> a.n]

(***************************************************************************)
(* llvm/compiler.go                                                        *)
(***************************************************************************)

\* negate: the operator is turned round and a Boolean literal too.
Negate(c) ==
  [op |-> IF c.op = "==" THEN "!=" ELSE "==",
   with |-> CASE c.with = "true" -> "false" [] c.with = "false" -> "true" [] OTHER -> c.with]

\* Mutant: the bound is turned round and not moved.
NegateSameBound(op, n) ==
  IF op = "nmt" THEN [filter |-> "nft", n |-> n] ELSE [filter |-> "nmt", n |-> n]

NegateTemporal(op, n) ==
  IF op = "nmt" THEN [filter |-> "nft", n |-> n + 1] ELSE [filter |-> "nmt", n |-> n - 1]

\* With a filter it is the filter that is negated, otherwise the constraint: '&&' and
\* '||' are swapped and the comparisons under them are negated.
Compiled(a) ==
  LET c == Constraint(a)
      neg == NegateTemporal(a.filter, a.n)
  IN  CASE a.assume -> c
        [] ~a.assume /\ a.filter = "no" ->
             [c EXCEPT !.form = CASE @ = "and" -> "or" [] @ = "or" -> "and" [] OTHER -> @,
                       !.sides = [i \in DOMAIN @ |-> Negate(@[i])]]
        [] ~a.assume /\ a.filter # "no" -> [c EXCEPT !.filter = neg.filter, !.n = neg.n]

\* A negative number is refused.  What is asserted about has versions.
CompileAssert(a) ==
  /\ written = None
  /\ VersionsOf("x") # <<>> /\ (a.form = "pair" => VersionsOf("y") # <<>>)
  /\ Compiled(a).n >= 0
  /\ written' = a /\ compiled' = Compiled(a)
  /\ UNCHANGED RoundVars

-----------------------------------------------------------------------------
(***************************************************************************)
(* smt/asserts.go.  The states of x and y as pairs, and as clauses.        *)
(***************************************************************************)

\* Mutant: the last version of the left variable is forgotten with the round.
TermCombosByRound ==
  FlattenSeq([i \in DOMAIN RoundVars |->
    FoldLeft(LAMBDA acc, e :
               LET l == IF e.base = "x" THEN e.num ELSE acc.l
                   r == IF e.base = "y" THEN e.num ELSE acc.r
               IN  [l |-> l, r |-> r,
                    combos |-> IF l # -1 /\ r # -1 THEN Append(acc.combos, <<l, r>>) ELSE acc.combos],
             [l |-> -1, r |-> -1, combos |-> <<>>], RoundVars[i]).combos])

\* termCombos: whenever one of the two changes, it and the last version of the other.
TermCombos ==
  FoldLeft(LAMBDA acc, e :
             LET l == IF e.base = "x" THEN e.num ELSE acc.l
                 r == IF e.base = "y" THEN e.num ELSE acc.r
             IN  [l |-> l, r |-> r,
                  combos |-> IF l # -1 /\ r # -1 THEN Append(acc.combos, <<l, r>>) ELSE acc.combos],
           [l |-> -1, r |-> -1, combos |-> <<>>], Flat).combos

\* Mutant: the two are read in step.
CartesianInStep(s, t) ==
  [k \in DOMAIN s |-> <<s[k], IF k \in DOMAIN t THEN t[k] ELSE Last(t)>>]

\* util.Cartesian
Cartesian(s, t) == FlattenSeq([i \in DOMAIN s |-> [j \in DOMAIN t |-> <<s[i], t[j]>>]])

\* packageStateGraph: != is written as (not (= x e)), but with the literal false as
\* (not x); v says that x equals e, or that x is true.
Says(c, v) == IF c.op = "!=" \/ c.with = "false" THEN ~v ELSE v
Literally(states, val) ==
  [k \in DOMAIN states |-> compiled.wrapped # Says(compiled.sides[1], val[states[k]])]

\* mergeByRound for one variable: its comparisons in the same version are paired.
MergeByRound(val) ==
  [k \in DOMAIN VersionsOf("x") |->
     LET v == val[VersionsOf("x")[k]]
         l == Says(compiled.sides[1], v[1])
         r == Says(compiled.sides[2], v[2])
     IN  IF compiled.form = "and" THEN l /\ r ELSE l \/ r]

\* The wraps of both sides one after the other.
BothSides(val) ==
  LET xs == VersionsOf("x") IN
  [k \in DOMAIN xs |-> Says(compiled.sides[1], val[xs[k]][1])]
    \o [k \in DOMAIN xs |-> Says(compiled.sides[2], val[xs[k]][2])]

\* writeAssertlessRule: (and ...) or (or ...)
Write(op, clauses) ==
  IF op = "and" THEN \A k \in DOMAIN clauses : clauses[k] ELSE \E k \in DOMAIN clauses : clauses[k]

EventuallyAlways(clauses) ==
  \E i \in DOMAIN clauses : \A j \in i..Len(clauses) : clauses[j]

\* A filter that comes here, from what is merged, is an or.
ApplyTemporalLogic(clauses, on, off) ==
  CASE written.temporal = "eventually" -> Write(on, clauses)
    [] written.temporal = "always" -> Write(off, clauses)
    [] written.temporal = "eventually-always" -> EventuallyAlways(clauses)
    [] written.temporal = "no" -> Write(IF compiled.filter # "no" THEN "or" ELSE off, clauses)

(***************************************************************************)
(* Filters on the states of a comparison.                                  *)
(***************************************************************************)

\* util.Combinations: every item with the windows of n - 1 items that follow it.
Combinations(m, n) ==
  IF m <= n THEN {1..m}
  ELSE IF n = 1 THEN {{i} : i \in 1..m}
  ELSE UNION {{{idx} \cup (i + 1)..(i + n - 1) : i \in idx..(m - n + 1)} : idx \in 1..(m - 1)}

\* A slice that ends before it begins, or the first of no clauses.
PanicsOn(m) == compiled.filter # "no" /\ compiled.n = 0 /\ compiled.form \in {"atom", "pair"} /\ m > 0

\* nft: all items of a combination are on; nmt: one is, and all others are off.
ExpandAssertStateGraph(clauses) ==
  LET m == Len(clauses)
      on(c) == IF compiled.filter = "nft" THEN \A i \in c : clauses[i]
               ELSE (\E i \in c : clauses[i]) /\ \A i \in (1..m) \ c : ~clauses[i]
  IN  \E c \in Combinations(m, compiled.n) : on(c)

-----------------------------------------------------------------------------
\* What is joined or wrapped has lost its bases and is merged as it would be without
\* the words.
Merged == compiled.form \in {"and", "or"} \/ compiled.wrapped

\* Under a filter != is written (not x e), which is no formula.
Malformed == compiled.filter # "no" /\ ~Merged /\ compiled.sides[1].op = "!="

\* The text that is asserted, or assumed.  What is no formula has no model.
ParseAssert(val) ==
  LET on == IF written.assume THEN "or" ELSE "and"
      off == IF written.assume THEN "and" ELSE "or"
      temporal == written.temporal # "no" \/ compiled.filter # "no"
      pairs == IF temporal /\ ~Merged THEN Cartesian(VersionsOf("x"), VersionsOf("y")) ELSE TermCombos
      clauses == CASE compiled.form \in {"and", "or"} -> MergeByRound(val)
                   [] compiled.form = "atom" -> Literally(VersionsOf("x"), val)
                   [] compiled.form = "pair" -> Literally(pairs, val)
  IN  CASE ~temporal -> Write(off, IF compiled.form = off THEN BothSides(val) ELSE clauses)
        [] temporal /\ (Merged \/ compiled.filter = "no") -> ApplyTemporalLogic(clauses, on, off)
        [] compiled.filter # "no" /\ ~Merged -> ~Malformed /\ ExpandAssertStateGraph(clauses)

-----------------------------------------------------------------------------
Next ==
  \/ \E base \in {"x", "y"} : AddVarToRound(base)
  \/ NewRound
  \/ \E a \in Assertions : CompileAssert(a)

Spec == Init /\ [][Next]_vars

-----------------------------------------------------------------------------
(***************************************************************************)
(* What the words of an assertion mean, over the states of a run in order. *)
(***************************************************************************)

\* The versions that x and y have at the same time.
Moments ==
  LET last(k, b) == Max({i \in 1..k : Flat[i].base = b})
      both == {k \in DOMAIN Flat : \A b \in {"x", "y"} : \E i \in 1..k : Flat[i].base = b}
  IN  [j \in 1..Cardinality(both) |->
         LET k == Max(both) - Cardinality(both) + j
         IN  <<Flat[last(k, "x")].num, Flat[last(k, "y")].num>>]

\* What a comparison means where v says that x equals e, or that x is true.
Means(c, v) == (c.op # "==") # (IF c.with = "false" THEN ~v ELSE v)

Truths(val) ==
  LET l == written.sides[1]
      r == written.sides[2]
      xs == VersionsOf("x")
  IN  CASE written.form = "pair" -> [k \in DOMAIN Moments |-> Means(l, val[Moments[k]])]
        [] written.form = "atom" -> [k \in DOMAIN xs |-> Means(l, val[k - 1])]
        [] written.form = "and" -> [k \in DOMAIN xs |-> Means(l, val[k - 1][1]) /\ Means(r, val[k - 1][2])]
        [] written.form = "or" -> [k \in DOMAIN xs |-> Means(l, val[k - 1][1]) \/ Means(r, val[k - 1][2])]

Times(truths) == Cardinality({k \in DOMAIN truths : truths[k]})

Holds(truths) ==
  CASE written.filter = "nmt" -> Times(truths) <= written.n
    [] written.filter = "nft" -> Times(truths) >= written.n
    [] written.filter = "no" /\ written.temporal \in {"no", "always"} -> \A k \in DOMAIN truths : truths[k]
    [] written.filter = "no" /\ written.temporal = "eventually" -> \E k \in DOMAIN truths : truths[k]
    [] written.filter = "no" /\ written.temporal = "eventually-always" ->
         \E k \in DOMAIN truths : \A j \in k..Len(truths) : truths[j]

\* An assertion is to be broken, an assumption is to be kept.
Meant(val) == IF written.assume THEN Holds(Truths(val)) ELSE ~Holds(Truths(val))

\* Which comparisons hold where.
Valuations ==
  LET xs == Range(VersionsOf("x")) IN
  CASE written.form = "atom" -> [xs -> BOOLEAN]
    [] written.form \in {"and", "or"} -> [xs -> BOOLEAN \X BOOLEAN]
    [] written.form = "pair" -> [xs \X Range(VersionsOf("y")) -> BOOLEAN]

-----------------------------------------------------------------------------
\* Comparisons that come out the wrong way round.  In an assertion both halves of a
\* comparison with a Boolean are negated, which is no negation, and only that of
\* x == true is written as one.  In an assumption x != false is written (not x), and
\* what is compared with true once more is thereby negated, which undoes the former.
Inverted(c) ==
  IF written.assume
  THEN compiled.wrapped # (c = [op |-> "!=", with |-> "false"])
  ELSE c.with \in {"true", "false"} /\ c # [op |-> "==", with |-> "true"]

Upright == \A i \in DOMAIN written.sides : ~Inverted(written.sides[i])

\* Without filters, and without temporal words between two variables, the clause is
\* true exactly where the assertion is broken, or the assumption kept, if no comparison
\* in it is inverted.
ExpandedAsMeant ==
  written # None /\ written.filter = "no" /\ (written.form = "pair" => written.temporal = "no")
      /\ Upright =>
    \A val \in Valuations : ParseAssert(val) <=> Meant(val)

\* 'always' between two variables is expanded over all pairs of versions, also those of
\* different moments: no failure is missed, and no assumption is too weak, but for the
\* inequalities that are inverted in one.
AlwaysCovers ==
  written # None /\ written.form = "pair" /\ written.temporal = "always" /\ Upright =>
    \A val \in Valuations :
      IF written.assume THEN ParseAssert(val) => Meant(val) ELSE Meant(val) => ParseAssert(val)

\* Assertions are negated, so that the solver looks for a run that breaks them, and
\* assumptions are not, so that the runs that keep them remain; here for one comparison
\* with a literal.
OnlyAssertionsNegated ==
  written # None /\ written.form = "atom" /\ written.filter = "no" =>
    \A val \in Valuations : ParseAssert(val) <=> Meant(val)

\* Filters on a comparison with a literal, not by !=, for numbers below that of the states: no
\* false alarm, and for combinations of at most two nothing is missed but that nothing
\* holds at all, which a compiled nmt leaves out.
CountsSound ==
  written # None /\ written.form = "atom" /\ written.sides[1].op = "==" /\ compiled.filter # "no"
      /\ compiled.n \in 1..(Len(VersionsOf("x")) - 1) =>
    \A val \in Valuations :
      /\ ParseAssert(val) => Meant(val)
      /\ compiled.n <= 2 /\ Meant(val) =>
           ParseAssert(val) \/ (compiled.filter = "nmt" /\ Times(Truths(val)) = 0)

=============================================================================
