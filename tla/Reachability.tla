---------------------------- MODULE Reachability ----------------------------
(***************************************************************************)
(* Package reachability: Tracer looks, before a model is compiled, for     *)
(* states of components that no transition leads to.                       *)
(*                                                                         *)
(* The walk goes over the statements of a spec in order, but over the      *)
(* states of a component in the order of a Go map, that is in any order.   *)
(* It may meet a transition before or after the state it leads to.         *)
(***************************************************************************)
EXTENDS Integers, FiniteSets, Sequences

CONSTANTS
  States,      \* names of states of components, as component_state
  Specs        \* the specs under consideration

(***************************************************************************)
(* A transition is the parameter of one advance(); in a chain it is joined *)
(* to others by && or ||.  A component is the set of its states, each with *)
(* the transitions in its function, those of both branches of an if.       *)
(***************************************************************************)
Transitions == [to: States, chain: BOOLEAN]
Functions   == [id: States, body: Seq(Transitions)]
Statements  == [do: {"component"}, pairs: SUBSET Functions] \cup
               [do: {"start"}, ids: SUBSET States]

ASSUME SpecsAssumption == Specs \subseteq Seq(Statements)

VARIABLES
  spec,        \* never changed
  rest,        \* statements not walked yet
  pairs,       \* states of the current component not walked yet
  body,        \* transitions of the current state not walked yet
  graph,       \* the keys of Tracer.graph
  found,       \* the keys of Tracer.graph that are true
  undefined,   \* Tracer.undefined
  verdict      \* "walking", then what check() returns

vars == <<spec, rest, pairs, body, graph, found, undefined, verdict>>

\* Every part of the walk has its type, and only defined states are marked found.
TypeOK ==
  /\ spec \in Seq(Statements)
  /\ rest \in Seq(Statements)
  /\ pairs \in SUBSET Functions
  /\ body \in Seq(Transitions)
  /\ graph \in SUBSET States
  /\ found \in SUBSET graph
  /\ undefined \in SUBSET States
  /\ verdict \in {"walking", "ok", "error"}

Init ==
  /\ spec \in Specs
  /\ rest = spec
  /\ pairs = {}
  /\ body = <<>>
  /\ graph = {}
  /\ found = {}
  /\ undefined = {}
  /\ verdict = "walking"

Walking == verdict = "walking"

-----------------------------------------------------------------------------
\* Mutants: a known state is only marked, its earlier mentions stay undefined;
\* seenBefore is not asked when a state is defined; a state is marked that is not
\* defined yet; the walk does not get past a chain.
MarkOnly(ids) ==
  /\ found' = found \cup (ids \cap graph)
  /\ undefined' = undefined \cup ids
NotSeenBefore(id) == UNCHANGED <<found, undefined>>
MarkUnknown(ids) ==
  /\ found' = found \cup ids
  /\ undefined' = (undefined \ (ids \cap graph)) \cup (ids \ graph)
ChainStays ==
  /\ Walking /\ body # <<>> /\ Head(body).chain
  /\ UNCHANGED vars

\* A mention of the states ids, in a transition or in the start block.
Mention(ids) ==
  /\ found' = found \cup (ids \cap graph)
  /\ undefined' = (undefined \ (ids \cap graph)) \cup (ids \ graph)

\* A state that is defined may have been mentioned before.
SeenBefore(id) ==
  /\ found' = IF id \in undefined THEN found \cup {id} ELSE found
  /\ undefined' = undefined \ {id}

\* The next statement; nothing of the one before is left.
WalkComponent ==
  /\ Walking /\ pairs = {} /\ body = <<>>
  /\ rest # <<>> /\ Head(rest).do = "component"
  /\ pairs' = Head(rest).pairs
  /\ rest' = Tail(rest)
  /\ UNCHANGED <<spec, body, graph, found, undefined, verdict>>

WalkStart ==
  /\ Walking /\ pairs = {} /\ body = <<>>
  /\ rest # <<>> /\ Head(rest).do = "start"
  /\ Mention(Head(rest).ids)
  /\ rest' = Tail(rest)
  /\ UNCHANGED <<spec, pairs, body, graph, verdict>>

\* One state of the component.
WalkFunction ==
  /\ Walking /\ body = <<>>
  /\ \E f \in pairs :
       /\ pairs' = pairs \ {f}
       /\ body' = f.body
       /\ graph' = graph \cup {f.id}
       /\ SeenBefore(f.id)
  /\ UNCHANGED <<spec, rest, verdict>>

\* An advance() that stands alone.
WalkBuiltIn ==
  /\ Walking /\ body # <<>> /\ ~Head(body).chain
  /\ Mention({Head(body).to})
  /\ body' = Tail(body)
  /\ UNCHANGED <<spec, rest, pairs, graph, verdict>>

\* A chain is an InfixExpression, which walk does not look into.
WalkChain ==
  /\ Walking /\ body # <<>> /\ Head(body).chain
  /\ body' = Tail(body)
  /\ UNCHANGED <<spec, rest, pairs, graph, found, undefined, verdict>>

\* check(): the states that are not true join the undefined ones.
Check ==
  /\ Walking /\ pairs = {} /\ body = <<>> /\ rest = <<>>
  /\ undefined' = undefined \cup (graph \ found)
  /\ verdict' = IF undefined' = {} THEN "ok" ELSE "error"
  /\ UNCHANGED <<spec, rest, pairs, body, graph, found>>

Step == WalkComponent \/ WalkStart \/ WalkFunction \/ WalkBuiltIn \/ WalkChain \/ Check

Next == Step \/ (~Walking /\ UNCHANGED vars)

\* The walk is a plain recursion that nothing preempts.
Spec == Init /\ [][Next]_vars /\ WF_vars(Step)

-----------------------------------------------------------------------------
(***************************************************************************)
(* Properties.                                                             *)
(***************************************************************************)
Pairs(s)     == IF s.do = "component" THEN s.pairs ELSE {}
Targets(ts)  == {ts[i].to : i \in {j \in DOMAIN ts : ~ts[j].chain}}
Mentioned(s) == IF s.do = "start" THEN s.ids ELSE UNION {Targets(f.body) : f \in Pairs(s)}
Defined(s)   == {f.id : f \in Pairs(s)}

AllMentioned(ss) == UNION {Mentioned(ss[i]) : i \in DOMAIN ss}
AllDefined(ss)   == UNION {Defined(ss[i]) : i \in DOMAIN ss}

\* Whatever the order in which the states of the components are walked, check()
\* reports the states that are defined and never mentioned and those that are
\* mentioned and never defined, and no other; it succeeds if there is none.
VerdictExact ==
  ~Walking =>
    /\ undefined = (AllDefined(spec) \ AllMentioned(spec))
                     \cup (AllMentioned(spec) \ AllDefined(spec))
    /\ verdict = "ok" <=> undefined = {}

\* The walk over a finite spec ends with a verdict.
Decides == <>(~Walking)
=============================================================================
