---------------------------- MODULE MCScenarios ----------------------------
(***************************************************************************)
(* Traces of a variable that is forked by a conditional, by a parallel run *)
(* or by one after the other, as the generator numbers its versions.       *)
(***************************************************************************)
EXTENDS Scenarios, SequencesExt

MCValues == {"u", "v"}

\* A fork at version s: the branches assign n versions each and mention the version
\* they begin with if r says so.  That is the start of the fork in an option of a
\* parallel run, if it is a first operand, and the last version so far (late) if it
\* is a second operand or in a conditional.
Shapes == [kind: {"cond", "par"}, n: [1..2 -> 0..2], r: [1..2 -> BOOLEAN], late: BOOLEAN, take: 1..2]

Written(s, x) == <<(s + 1)..(s + x.n[1]), (s + x.n[1] + 1)..(s + x.n[1] + x.n[2])>>
Begin(s, x, i) == IF x.late /\ i = 2 THEN s + x.n[1] ELSE s
Trail(s, x, i) == Written(s, x)[i] \cup (IF x.r[i] THEN {Begin(s, x, i)} ELSE {})
PhiAt(s, x)    == s + x.n[1] + x.n[2] + 1
EndAt(s, x)    == Max({s} \cup Trail(s, x, x.take))

ReadOf(s, x)   == Trail(s, x, 3 - x.take) \ Written(s, x)[3 - x.take]

\* An option of a parallel run runs the same functions as the others.
Sound(x) == IF x.kind = "par" THEN x.n[1] > 0 /\ x.n[1] = x.n[2] /\ x.r[1] = x.r[2]
                              ELSE x.late /\ x.n[1] + x.n[2] > 0

Fork(s, x) == SelectSeq(<<Trail(s, x, 1), Trail(s, x, 2)>>, LAMBDA c : c # {})

\* All that the solver may answer: the phi has the value of the end taken.
One(kind, x) ==
  {[kind |-> kind, values |-> f, forks |-> <<Fork(0, x)>>,
    left |-> <<Written(0, x)[3 - x.take]>>, read |-> <<ReadOf(0, x)>>, phi |-> <<PhiAt(0, x)>>] :
     f \in {g \in [0..PhiAt(0, x) -> MCValues] : g[PhiAt(0, x)] = g[EndAt(0, x)]}}

Two(kind, x, y) ==
  LET s == PhiAt(0, x) IN
  {[kind |-> kind, values |-> f, forks |-> <<Fork(0, x), Fork(s, y)>>,
    left |-> <<Written(0, x)[3 - x.take], Written(s, y)[3 - y.take]>>,
    read |-> <<ReadOf(0, x), ReadOf(s, y)>>,
    phi |-> <<s, PhiAt(s, y)>>] :
     f \in {g \in [0..PhiAt(s, y) -> MCValues] :
              g[s] = g[EndAt(0, x)] /\ g[PhiAt(s, y)] = g[EndAt(s, y)]}}

Forks == {x \in Shapes : Sound(x)}
Small == {x \in Forks : x.n[1] <= 1 /\ x.n[2] <= 1}
TwoOf(kind) ==
  UNION {Two(kind, x, y) : x \in {z \in Small : z.kind = "cond"}, y \in {z \in Small : z.kind = "par"}}

\* One fork with at most two assignments a branch, or a conditional and a parallel
\* run with one each.
FloatTraces == (UNION {One("float", x) : x \in Forks}) \cup TwoOf("float")

\* And bools with one fork.
AllTraces == FloatTraces \cup (UNION {One("bool", x) : x \in Small})

\* The answers checked are among those that the proofs are about.
ASSUME AnswersAssumption == \A a \in Traces : ForksInOrder(a) /\ OneTaken(a)
=============================================================================
