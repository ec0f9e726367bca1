----------------------------- MODULE Scenarios -----------------------------
(***************************************************************************)
(* Package execute after the solver has answered: what ModelChecker shows  *)
(* of one variable.  LoadMeta turns the forks that the generator has left  *)
(* into branches, deadBranches takes the branches out of the trace that    *)
(* the solver's model did not go through, and generateRows lays out what   *)
(* is left.  The trace is a Go map: rows are placed in any order.          *)
(***************************************************************************)
EXTENDS Integers, FiniteSetsExt, Sequences, FiniteSets

CONSTANTS
  Values,      \* values in the solver's model
  Blank,       \* an empty row
  Traces       \* the answers under consideration

(***************************************************************************)
(* A choice is the set of versions that a branch of a fork mentions; it is *)
(* kept sorted, so that its end is its maximum.  Three parts of a trace    *)
(* are for the properties only: the versions that fork i assigns (left[i]) *)
(* and reads (read[i]) on the branch that was not taken, and the version   *)
(* phi[i] that ends it.                                                    *)
(***************************************************************************)
Trails == SUBSET Nat

ASSUME TracesAssumption ==
  /\ Blank \notin Values
  /\ \A a \in Traces :
       /\ a.kind \in {"float", "int", "bool"}
       /\ DOMAIN a.values \subseteq Nat
       /\ a.values \in [DOMAIN a.values -> Values]
       /\ a.forks \in Seq(Seq(Trails))
       /\ \A i \in DOMAIN a.forks : \A j \in DOMAIN a.forks[i] :
            a.forks[i][j] # {} /\ IsFiniteSet(a.forks[i][j])

VARIABLES
  trace,       \* the answer, never changed
  forks,       \* forks not loaded yet
  branches,    \* ModelChecker.forks of the variable
  todo,        \* branches that deadBranches has not looked at
  phis,        \* local to deadBranches
  shown,       \* the versions left in the trace
  rest,        \* versions that generateRows has not placed
  rows,
  phase        \* "load", "dead", "phis", "rows", "done" or "panic"

vars == <<trace, forks, branches, todo, phis, shown, rest, rows, phase>>

Branches == [trail: Trails, phi: Nat]

\* Branches have ends and phis that are versions, what is shown is part of the
\* solver's model, and what is placed is part of what is shown.
TypeOK ==
  /\ forks \in Seq(Seq(Trails))
  /\ branches \in Seq(Branches)
  /\ todo \in Seq(Branches)
  /\ phis \in Seq(Nat)
  /\ shown \in SUBSET DOMAIN trace.values
  /\ rest \in SUBSET shown
  /\ rows \in Seq(Values \cup {Blank})
  /\ phase \in {"load", "dead", "phis", "rows", "done", "panic"}

Init ==
  /\ trace \in Traces
  /\ forks = trace.forks
  /\ branches = <<>>
  /\ todo = <<>>
  /\ phis = <<>>
  /\ shown = DOMAIN trace.values
  /\ rest = {}
  /\ rows = <<>>
  /\ phase = "load"

-----------------------------------------------------------------------------
\* Mutants: the phi of a fork is its highest end; the start of the trail stands
\* for its end; the version after a trail is removed too; a phi stays on the list;
\* rows are made of the whole trace.
PhiIsEnd(choices)   == Max({0} \cup {Max(choices[i]) : i \in DOMAIN choices})
StartOfTrail(trail) == Min(trail)
OneTooMany(b)       == b.trail \cup {Max(b.trail) + 1}
PhiStays ==
  /\ phase = "phis" /\ phis # <<>>
  /\ shown' = shown \ {Head(phis)}
  /\ UNCHANGED <<trace, forks, branches, todo, phis, rest, rows, phase>>
AllRows ==
  /\ phase = "phis" /\ phis = <<>>
  /\ rest' = DOMAIN trace.values
  /\ phase' = "rows"
  /\ UNCHANGED <<trace, forks, branches, todo, phis, shown, rows>>

GetEnd(trail) == Max(trail)

\* LoadMeta assumes that the phi follows the highest end of the fork.
PhiOf(choices) == Max({0} \cup {GetEnd(choices[i]) : i \in DOMAIN choices}) + 1

\* The versions that go with a dead branch: InTrail.
InTrail(b) == b.trail

LoadFork ==
  /\ phase = "load" /\ forks # <<>>
  /\ forks' = Tail(forks)
  /\ branches' = branches \o
       [i \in DOMAIN Head(forks) |-> [trail |-> Head(forks)[i], phi |-> PhiOf(Head(forks))]]
  /\ UNCHANGED <<trace, todo, phis, shown, rest, rows, phase>>

\* Format calls deadBranches.
Format ==
  /\ phase = "load" /\ forks = <<>>
  /\ todo' = branches
  /\ phase' = "dead"
  /\ UNCHANGED <<trace, forks, branches, phis, shown, rest, rows>>

\* One branch: it panics if an end is no longer in the trace, and removes what
\* the branch mentions if its end is not the value of the phi.
DeadBranch ==
  /\ phase = "dead" /\ todo # <<>>
  /\ LET b == Head(todo)
         e == GetEnd(b.trail)
     IN /\ phis' = Append(phis, b.phi)
        /\ IF {e, b.phi} \subseteq shown
             THEN /\ shown' = IF trace.values[e] # trace.values[b.phi]
                                THEN shown \ InTrail(b) ELSE shown
                  /\ UNCHANGED phase
             ELSE phase' = "panic" /\ UNCHANGED shown
  /\ todo' = Tail(todo)
  /\ UNCHANGED <<trace, forks, branches, rest, rows>>

BranchesDone ==
  /\ phase = "dead" /\ todo = <<>>
  /\ phase' = "phis"
  /\ UNCHANGED <<trace, forks, branches, todo, phis, shown, rest, rows>>

RemovePhi ==
  /\ phase = "phis" /\ phis # <<>>
  /\ shown' = shown \ {Head(phis)}
  /\ phis' = Tail(phis)
  /\ UNCHANGED <<trace, forks, branches, todo, rest, rows, phase>>

\* Format calls generateRows.
GenerateRows ==
  /\ phase = "phis" /\ phis = <<>>
  /\ rest' = shown
  /\ phase' = "rows"
  /\ UNCHANGED <<trace, forks, branches, todo, phis, shown, rows>>

Blanks(n) == [j \in 1..n |-> Blank]

\* Mutant: one blank less before a row past the end.
BlankShort(r, i, v) ==
  IF i < Len(r) THEN [r EXCEPT ![i + 1] = v] ELSE r \o Blanks(i - Len(r) - 1) \o <<v>>

\* FloatTrace: the value of version i becomes row i.
FloatRow(r, i, v) ==
  IF i < Len(r) THEN [r EXCEPT ![i + 1] = v] ELSE r \o Blanks(i - Len(r)) \o <<v>>

\* IntTrace and BoolTrace: the loop that makes room runs once more.
IntRow(r, i, v) ==
  CASE i = Len(r) -> Append(r, v)
    [] i > Len(r) -> r \o Blanks(i - Len(r) + 1) \o <<v>>
    [] OTHER      -> [r EXCEPT ![i + 1] = v]

\* The next version that the range over the map yields.
Row ==
  /\ phase = "rows"
  /\ \E i \in rest :
       /\ rest' = rest \ {i}
       /\ rows' = IF trace.kind = "float" THEN FloatRow(rows, i, trace.values[i])
                                          ELSE IntRow(rows, i, trace.values[i])
  /\ UNCHANGED <<trace, forks, branches, todo, phis, shown, phase>>

RowsDone ==
  /\ phase = "rows" /\ rest = {}
  /\ phase' = "done"
  /\ UNCHANGED <<trace, forks, branches, todo, phis, shown, rest, rows>>

Step == LoadFork \/ Format \/ DeadBranch \/ BranchesDone \/ RemovePhi
          \/ GenerateRows \/ Row \/ RowsDone

Next == Step \/ (phase \in {"done", "panic"} /\ UNCHANGED vars)

\* One goroutine, loops over finite slices and maps.
Spec == Init /\ [][Next]_vars /\ WF_vars(Step)

-----------------------------------------------------------------------------
(***************************************************************************)
(* The answers that deadBranches is written for.  The generator numbers    *)
(* the versions of a fork after those of the forks before it, its phi last *)
(* (ForksInOrder); the branches mention no version from before the last    *)
(* phi, and the solver's model goes through one of the two (OneTaken).     *)
(***************************************************************************)
ForksInOrder(a) ==
  \A f \in DOMAIN a.forks :
    LET choices == a.forks[f] IN
      /\ Len(choices) \in 1..2
      /\ Len(choices) = 2 => Max(choices[1]) =< Max(choices[2])
      /\ a.phi[f] = Max({0} \cup {Max(choices[j]) : j \in DOMAIN choices}) + 1
      /\ a.phi[f] \in DOMAIN a.values
      /\ \A j \in DOMAIN choices :
           /\ choices[j] \subseteq DOMAIN a.values
           /\ \A g \in 1..(f - 1) : \A n \in choices[j] : a.phi[g] =< n

\* The branch t is taken; it is 0 if the branch taken mentions no version.
OneTaken(a) ==
  \A f \in DOMAIN a.forks :
    LET choices == a.forks[f] IN
      \E t \in 0..Len(choices) :
        /\ t = 0 => Len(choices) = 1
        /\ t # 0 => a.values[Max(choices[t])] = a.values[a.phi[f]]
        /\ \A j \in DOMAIN choices \ {t} : choices[j] = a.left[f] \cup a.read[f]
        /\ \A n \in a.left[f] : \A m \in a.read[f] : m < n
        /\ a.left[f] # {} => DOMAIN choices # {t}

-----------------------------------------------------------------------------
(***************************************************************************)
(* Properties.                                                             *)
(***************************************************************************)
\* In whatever order the map yields the versions, each of those placed so far is
\* in the row of its number, every other row is blank and no row follows the last.
RowsInPlace ==
  LET placed == shown \ rest IN
    phase \in {"rows", "done"} =>
      /\ \A i \in placed : i + 1 \in DOMAIN rows /\ rows[i + 1] = trace.values[i]
      /\ \A j \in DOMAIN rows : j - 1 \notin placed => rows[j] = Blank
      /\ rows # <<>> => Len(rows) - 1 \in placed

\* So it is for a FloatTrace; the loops for ints and bools make room for one row more.
FloatRows == trace.kind = "float" => RowsInPlace

\* A branch that was taken is displayed, up to the versions that the branch left out
\* mentions too: deadBranches never takes a branch for dead that the model went
\* through, whichever fork comes before it.
TakenKept ==
  phase \in {"rows", "done"} =>
    \A i \in DOMAIN trace.values \ shown :
      \E f \in DOMAIN trace.forks : i \in trace.left[f] \cup trace.read[f] \cup {trace.phi[f]}

\* What is displayed of a branch that was left out is of a branch that ends in the
\* value of the phi (the open question in the comment on deadBranches), and no phi
\* is displayed.
DeadGone ==
  phase \in {"rows", "done"} =>
    \A f \in DOMAIN trace.forks :
      /\ trace.phi[f] \notin shown
      /\ trace.left[f] \cap shown # {} =>
           trace.values[Max(trace.left[f])] = trace.values[trace.phi[f]]

\* deadBranches finds the end and the phi of every branch in the trace: no branch
\* that it removed earlier held them.
EndsFound == phase # "panic"

\* Every trace is displayed, or the display panics.
Displayed == <>(phase \in {"done", "panic"})
=============================================================================
