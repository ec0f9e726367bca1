--------------------------- MODULE MCReachability ---------------------------
(***************************************************************************)
(* Specs with two components and a start block, for Reachability.          *)
(***************************************************************************)
EXTENDS Reachability

MCStates == {"a_one", "a_two", "b_one"}

To(s)    == [to |-> s, chain |-> FALSE]
Chain(s) == [to |-> s, chain |-> TRUE]

Component(ps) == [do |-> "component", pairs |-> ps]
Start(S)      == [do |-> "start", ids |-> S]
State(s, ts)  == [id |-> s, body |-> ts]

\* Nothing, one transition, or two of an if, to any state.
Bodies  == {<<>>} \cup {<<To(s)>> : s \in MCStates}
Choices == Bodies \cup {<<To(s), To(t)>> : s \in {"a_two"}, t \in {"a_one", "b_one"}}

Plain(first, second, last, start) ==
  <<Component({State("a_one", first), State("a_two", second)}),
    Component({State("b_one", last)}), Start(start)>>

\* Transitions to states of the same, a later and an earlier component, of an
\* undefined state, and of chains; with and without a start block.
MCSpecs ==
  {Plain(x, y, z, S) : x \in Choices, y \in Bodies, z \in Bodies, S \in {{"a_one"}, {"a_one", "b_one"}}}
  \cup {<<Component({State("a_one", x \o y)}), Component({State("b_one", y)})>> : x \in Choices, y \in Bodies}
  \cup {Plain(<<Chain("a_two"), Chain("b_one")>> \o x, y, <<>>, {"a_one"}) : x \in Bodies, y \in Bodies}

=============================================================================
