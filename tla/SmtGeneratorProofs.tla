------------------------ MODULE SmtGeneratorProofs ------------------------
(***************************************************************************)
(* Proofs about SmtGenerator for every set of variables and every LLVM     *)
(* module.                                                                 *)
(***************************************************************************)
EXTENDS SmtGenerator, FiniteSetTheorems, TLAPS

-----------------------------------------------------------------------------
(***************************************************************************)
(* The operations on the stacks of package smt/variables.                  *)
(***************************************************************************)

\* A stack of non-empty lists has a last entry and a start entry in S.
LEMMA StackReads ==
  ASSUME NEW S, 0 \in S, NEW p \in Seq(NonEmpty(S))
  PROVE  GetLastState(p) \in S /\ GetStartState(p) \in S
<1>1. CASE p = <<>>
  BY <1>1 DEF GetLastState, GetStartState
<1>2. CASE p # <<>>
  <2>1. Last(p) \in NonEmpty(S)
    BY <1>2 DEF Last
  <2>2. Last(Last(p)) \in S /\ Head(Last(p)) \in S
    BY <2>1 DEF Last, NonEmpty
  <2> QED BY <1>2, <2>2 DEF GetLastState, GetStartState
<1> QED BY <1>1, <1>2

\* NewPhi, InitPhis, PopPhi and StoreLastState keep a stack of non-empty lists.
LEMMA StackWrites ==
  ASSUME NEW S, 0 \in S, NEW p \in Seq(NonEmpty(S)), NEW n \in S
  PROVE  /\ NewPhi(p, n) \in Seq(NonEmpty(S))
         /\ InitPhi(p) \in Seq(NonEmpty(S))
         /\ PopPhi(p) \in Seq(NonEmpty(S))
         /\ StoreLastState(p, n) \in Seq(NonEmpty(S))
<1>1. \A m \in S : <<m>> \in NonEmpty(S)
  BY DEF NonEmpty
<1>2. \A m \in S : NewPhi(p, m) \in Seq(NonEmpty(S))
  <2> SUFFICES ASSUME NEW m \in S PROVE NewPhi(p, m) \in Seq(NonEmpty(S))
    OBVIOUS
  <2>1. <<m>> \in NonEmpty(S) /\ <<0>> \in NonEmpty(S)
    BY <1>1
  <2>2. << <<0>> >> \in Seq(NonEmpty(S))
    BY <2>1
  <2>3. Append(p, <<m>>) \in Seq(NonEmpty(S))
    BY <2>1
  <2> QED BY <2>2, <2>3 DEF NewPhi
<1>3. InitPhi(p) \in Seq(NonEmpty(S))
  BY <1>1, StackReads DEF InitPhi
<1>4. PopPhi(p) \in Seq(NonEmpty(S))
  BY DEF PopPhi, Front
<1>5. CASE p = <<>>
  BY <1>2, <1>3, <1>4, <1>5 DEF StoreLastState
<1>6. CASE p # <<>>
  <2>1. Len(p) \in 1..Len(p) /\ Last(p) \in NonEmpty(S)
    BY <1>6 DEF Last
  <2>2. Append(Last(p), n) \in NonEmpty(S)
    BY <2>1 DEF NonEmpty
  <2>3. StoreLastState(p, n) = [p EXCEPT ![Len(p)] = Append(Last(p), n)]
    BY <1>6 DEF StoreLastState
  <2>4. [p EXCEPT ![Len(p)] = Append(Last(p), n)] \in Seq(NonEmpty(S))
    BY <2>1, <2>2
  <2> QED BY <1>2, <1>3, <1>4, <2>3, <2>4
<1> QED BY <1>5, <1>6

\* A stack over S is a stack over every larger set.
LEMMA StackWiden ==
  ASSUME NEW S, NEW T, S \subseteq T, NEW p \in Seq(NonEmpty(S))
  PROVE  p \in Seq(NonEmpty(T))
<1>1. NonEmpty(S) \subseteq NonEmpty(T)
  BY DEF NonEmpty
<1> QED BY <1>1

\* Numbers handed out are natural numbers and grow.
LEMMA Numbers ==
  ASSUME NEW n \in Nat \cup {Absent}
  PROVE  /\ GetSSA(n) \in Nat
         /\ AdvanceSSA(n) \in Nat
         /\ GetSSA(AdvanceSSA(n)) = AdvanceSSA(n)
         /\ GetSSA(n) <= AdvanceSSA(n)
         /\ AdvanceSSA(n) <= GetSSA(n) + 1
         /\ GetSSA(GetSSA(n)) = GetSSA(n)
         /\ 0..AdvanceSSA(n) = (0..GetSSA(n)) \cup {AdvanceSSA(n)}
BY DEF GetSSA, AdvanceSSA, Absent

-----------------------------------------------------------------------------
(***************************************************************************)
(* The fields of the entries of the agenda.                                *)
(***************************************************************************)

\* An entry of a kind has the fields of that kind.
LEMMA ItemFields ==
  ASSUME NEW h \in Items
  PROVE
    /\ h.do = "const" => h.dst \in Vars
    /\ h.do = "infix" => h.dst \in Vars /\ h.x \in Operands /\ h.y \in Operands
    /\ h.do = "copy" => h.dst \in Vars /\ h.x \in Vars
    /\ h.do = "cmp" => h.x \in Operands /\ h.y \in Operands
    /\ h.do = "advance" => h.to \in Vars /\ h.from \in Vars
    /\ h.do = "call" => h.f \in Funs /\ h.m \in Groups \cup {NoGroup}
    /\ h.do = "function" => h.f \in Funs /\ h.i \in Nat \ {0}
    /\ h.do \in {"block", "term"} => h.b \in Blocks
    /\ h.do = "else" =>
         /\ h.b \in Blocks \cup {NoBlock}
         /\ h.outer \in Trails
         /\ h.start \in Versions
    /\ h.do = "capCond" => h.outer \in Trails /\ h.true \in Trails /\ h.end \in Versions
    /\ h.do = "options" =>
         /\ h.ps \in Orders
         /\ h.start \in Versions
         /\ h.ends \in Seq(Versions)
    /\ h.do = "calls" => h.fs \in NonEmpty(Funs)
    /\ h.do = "endOption" =>
         /\ h.ps \in Seq(NonEmpty(Funs))
         /\ h.outer \in Trails
         /\ h.state \in [Vars -> Nat \cup {Absent}]
         /\ h.start \in Versions
         /\ h.ends \in Seq(Versions)
    /\ h.do = "capParallel" => h.ends \in Seq(Versions)
    /\ h.do = "called" =>
         /\ h.f \in Funs
         /\ h.m \in Groups \cup {NoGroup}
         /\ h.push \in BOOLEAN
    /\ h.do = "global" => h.v \in Vars
    /\ h.do = "state" => h.dst \in Vars
BY DEF Items, Insts

\* What the walk puts on the agenda.
LEMMA ItemsMade ==
  /\ \A f \in Funs, k \in Nat \ {0} : Function(f, k) \in Items
  /\ \A b \in Blocks : Block(b) \in Items /\ Term(b) \in Items
  /\ Flush \in Items /\ EndElse \in Items /\ EndCall \in Items
  /\ \A b \in Blocks \cup {NoBlock}, o \in Trails, c \in Versions : Else(b, o, c) \in Items
  /\ \A o \in Trails, t \in Trails, c \in Versions : CapCond(o, t, c) \in Items
  /\ \A ps \in Orders, c \in Versions, es \in Seq(Versions) : Options(ps, c, es) \in Items
  /\ \A fs \in NonEmpty(Funs) : Calls(fs) \in Items
  /\ \A ps \in Seq(NonEmpty(Funs)), o \in Trails, st \in [Vars -> Nat \cup {Absent}],
        c \in Versions, es \in Seq(Versions) : EndOption(ps, o, st, c, es) \in Items
  /\ \A es \in Seq(Versions) : CapParallel(es) \in Items
  /\ \A f \in Funs, m \in Groups \cup {NoGroup}, push \in BOOLEAN : Called(f, m, push) \in Items
  /\ \A v \in Vars : Global(v) \in Items /\ State(v) \in Items
  /\ [do |-> "round"] \in Items
  /\ Insts \subseteq Items
BY DEF Items, Insts, Function, Block, Term, Flush, EndElse, EndCall, Else, CapCond, Options,
       Calls, EndOption, CapParallel, Called, Global, State

\* The head of the agenda is an entry.
LEMMA HeadItem ==
  ASSUME TypeOK, NEW d, At(d)
  PROVE  agenda # <<>> /\ Head(agenda) \in Items /\ Head(agenda).do = d
BY DEF TypeOK, At

-----------------------------------------------------------------------------
(***************************************************************************)
(* The inductive invariant.  TypeOK is not inductive by itself: the        *)
(* permutations of the callstack are defined up to MaxParallel calls, and  *)
(* the end of a parallel run reads the last fork.                          *)
(***************************************************************************)
CallsBounded == Len(callstack) <= MaxParallel

IInv == TypeOK /\ CallsBounded /\ ForkOpen /\ VersionsContiguous /\ PhisHandedOut

\* The entries allowed by ForkOpen and PhisHandedOut, given the forks fs and the
\* numbers ns.
Entries(fs, ns) ==
  {h \in Items : /\ h.do \in InRun => fs # <<>>
                 /\ h.do = "endOption" => \A v \in Vars : h.state[v] <= ns[v]}

\* The agenda holds allowed entries only.
LEMMA AgendaEntries ==
  ASSUME IInv
  PROVE  agenda \in Seq(Entries(forks, ssa))
<1>1. agenda \in Seq(Items)
  BY DEF IInv, TypeOK
<1>2. \A i \in 1..Len(agenda) : agenda[i] \in Entries(forks, ssa)
  <2> SUFFICES ASSUME NEW i \in 1..Len(agenda) PROVE agenda[i] \in Entries(forks, ssa)
    OBVIOUS
  <2>1. agenda[i] \in Items /\ i \in DOMAIN agenda
    BY <1>1
  <2>2. agenda[i].do \in InRun => forks # <<>>
    BY <2>1 DEF IInv, ForkOpen
  <2>3. agenda[i].do = "endOption" => \A v \in Vars : agenda[i].state[v] <= ssa[v]
    BY <2>1 DEF IInv, PhisHandedOut
  <2> QED BY <2>1, <2>2, <2>3 DEF Entries
<1> QED BY <1>1, <1>2

\* The entries that stay are still allowed, as versions grow and forks stay open.
LEMMA EntriesKept ==
  ASSUME IInv, ssa' \in [Vars -> Nat \cup {Absent}],
         \A v \in Vars : ssa[v] <= ssa'[v],
         forks # <<>> => forks' # <<>>
  PROVE  Entries(forks, ssa) \subseteq Entries(forks', ssa')
<1> SUFFICES ASSUME NEW h \in Entries(forks, ssa) PROVE h \in Entries(forks', ssa')
  OBVIOUS
<1>1. h \in Items /\ (h.do \in InRun => forks' # <<>>)
  BY DEF Entries
<1>2. ASSUME h.do = "endOption", NEW v \in Vars
      PROVE  h.state[v] <= ssa'[v]
  <2>1. h.state[v] <= ssa[v]
    BY <1>2 DEF Entries
  <2>2. h.state[v] \in Nat \cup {Absent}
    BY <1>1, <1>2, ItemFields
  <2>3. ssa[v] \in Nat \cup {Absent} /\ ssa'[v] \in Nat \cup {Absent} /\ ssa[v] <= ssa'[v]
    BY DEF IInv, TypeOK
  <2> QED BY <2>1, <2>2, <2>3 DEF Absent
<1> QED BY <1>1, <1>2 DEF Entries

\* Executing the head of the agenda: only the new entries have to be checked.
LEMMA AgendaKept ==
  ASSUME IInv, agenda # <<>>, ssa' \in [Vars -> Nat \cup {Absent}],
         \A v \in Vars : ssa[v] <= ssa'[v],
         forks # <<>> => forks' # <<>>,
         NEW s \in Seq(Entries(forks', ssa')), Do(s)
  PROVE  /\ agenda' \in Seq(Items)
         /\ ForkOpen'
         /\ \A i \in DOMAIN agenda' : agenda'[i].do = "endOption" =>
              \A v \in Vars : agenda'[i].state[v] <= ssa'[v]
<1>1. Tail(agenda) \in Seq(Entries(forks', ssa'))
  <2>1. agenda \in Seq(Entries(forks, ssa))
    BY AgendaEntries
  <2>2. Entries(forks, ssa) \subseteq Entries(forks', ssa')
    BY EntriesKept
  <2>3. Tail(agenda) \in Seq(Entries(forks, ssa))
    BY <2>1
  <2> QED BY <2>2, <2>3
<1>2. agenda' \in Seq(Entries(forks', ssa'))
  BY <1>1 DEF Do
<1>3. \A i \in DOMAIN agenda' : agenda'[i] \in Entries(forks', ssa')
  BY <1>2
<1>4. Entries(forks', ssa') \subseteq Items
  BY DEF Entries
<1>5. agenda' \in Seq(Items)
  BY <1>2, <1>4
<1>6. ForkOpen'
  BY <1>3 DEF ForkOpen, Entries
<1> QED BY <1>3, <1>5, <1>6 DEF Entries

\* Numbers that do not change are numbers and do not shrink.
LEMMA SameNumbers ==
  ASSUME IInv, ssa' = ssa
  PROVE  ssa' \in [Vars -> Nat \cup {Absent}] /\ \A v \in Vars : ssa[v] <= ssa'[v]
<1>1. \A n \in Nat \cup {Absent} : n <= n
  BY DEF Absent
<1> QED BY <1>1 DEF IInv, TypeOK

\* A step that hands out no version.
LEMMA ControlStep ==
  ASSUME IInv, agenda # <<>>, ssa' = ssa, phis' = phis, declared' = declared,
         forks # <<>> => forks' # <<>>,
         NEW s \in Seq(Entries(forks', ssa')), Do(s)
  PROVE  agenda' \in Seq(Items) /\ ForkOpen' /\ VersionsContiguous' /\ PhisHandedOut'
<1>1. ssa' \in [Vars -> Nat \cup {Absent}] /\ \A v \in Vars : ssa[v] <= ssa'[v]
  BY SameNumbers
<1>2. /\ agenda' \in Seq(Items)
      /\ ForkOpen'
      /\ \A i \in DOMAIN agenda' : agenda'[i].do = "endOption" =>
              \A v \in Vars : agenda'[i].state[v] <= ssa'[v]
  BY <1>1, AgendaKept
<1>3. VersionsContiguous'
  BY DEF IInv, VersionsContiguous
<1>4. PhisHandedOut'
  BY <1>2 DEF IInv, PhisHandedOut
<1> QED BY <1>2, <1>3, <1>4

\* A variable without a number has an empty stack.
LEMMA AbsentStack ==
  ASSUME NEW p \in Seq(NonEmpty(0..Absent))
  PROVE  p = <<>>
<1>1. NonEmpty(0..Absent) = {}
  BY DEF NonEmpty, Absent
<1> QED BY <1>1

\* Stacks that do not change hold versions handed out as long as numbers grow.
LEMMA PhisWiden ==
  ASSUME IInv, phis' = phis, ssa' \in [Vars -> Nat \cup {Absent}],
         \A v \in Vars : ssa[v] <= ssa'[v]
  PROVE  \A v \in Vars : phis'[v] \in Seq(NonEmpty(0..ssa'[v]))
<1> SUFFICES ASSUME NEW v \in Vars PROVE phis'[v] \in Seq(NonEmpty(0..ssa'[v]))
  OBVIOUS
<1>1. ssa[v] \in Nat \cup {Absent} /\ ssa'[v] \in Nat \cup {Absent} /\ ssa[v] <= ssa'[v]
  BY DEF IInv, TypeOK
<1>2. 0..ssa[v] \subseteq 0..ssa'[v]
  BY <1>1 DEF Absent
<1>3. phis[v] \in Seq(NonEmpty(0..ssa[v]))
  BY DEF IInv, PhisHandedOut
<1> QED BY <1>2, <1>3, StackWiden

\* The entries that the walk makes outside of parallel runs are allowed.
LEMMA EntriesMade ==
  ASSUME NEW fs, NEW ns
  PROVE
  /\ \A f \in Funs, k \in Nat \ {0} : Function(f, k) \in Entries(fs, ns)
  /\ \A b \in Blocks : Block(b) \in Entries(fs, ns) /\ Term(b) \in Entries(fs, ns)
  /\ Flush \in Entries(fs, ns) /\ EndElse \in Entries(fs, ns) /\ EndCall \in Entries(fs, ns)
  /\ \A b \in Blocks \cup {NoBlock}, o \in Trails, c \in Versions :
       Else(b, o, c) \in Entries(fs, ns)
  /\ \A o \in Trails, t \in Trails, c \in Versions : CapCond(o, t, c) \in Entries(fs, ns)
  /\ \A gs \in NonEmpty(Funs) : Calls(gs) \in Entries(fs, ns)
  /\ \A f \in Funs, m \in Groups \cup {NoGroup}, push \in BOOLEAN :
       Called(f, m, push) \in Entries(fs, ns)
  /\ \A v \in Vars : Global(v) \in Entries(fs, ns) /\ State(v) \in Entries(fs, ns)
  /\ [do |-> "round"] \in Entries(fs, ns)
  /\ Insts \subseteq Entries(fs, ns)
<1>1. \A h \in Insts : h.do \notin InRun
  BY DEF Insts, InRun
<1> QED BY <1>1, ItemsMade
        DEF Entries, InRun, Function, Block, Term, Flush, EndElse, EndCall, Else, CapCond, Calls,
            Called, Global, State

-----------------------------------------------------------------------------
(***************************************************************************)
(* One lemma per action.                                                   *)
(***************************************************************************)

\* The loop over the blocks of a function.
LEMMA ParseFunctionInv == IInv /\ ParseFunction => IInv'
<1> SUFFICES ASSUME IInv, ParseFunction PROVE IInv'
  OBVIOUS
<1> DEFINE f == Head(agenda).f
           i == Head(agenda).i
           E == Entries(forks', ssa')
<1>1. agenda # <<>> /\ f \in Funs /\ i \in Nat \ {0}
  BY HeadItem, ItemFields DEF IInv, ParseFunction
<1>2. code.order[f] \in Seq(Blocks) /\ returnVoid \in Nat
  BY <1>1 DEF IInv, TypeOK, Modules
<1>3. UNCHANGED <<code, genVars, level, runStart, callstack, grouping, ruleVars,
                 panicked, histVars>>
  BY DEF ParseFunction
<1>4. /\ agenda' \in Seq(Items) /\ ForkOpen' /\ VersionsContiguous' /\ PhisHandedOut'
      /\ returnVoid' \in Nat
  <2>1. CASE i <= Len(code.order[f])
    <3>1. Block(code.order[f][i]) \in E /\ Function(f, i + 1) \in E
      BY <1>1, <1>2, <2>1, EntriesMade
    <3>2. Do(BlockStep(f, i)) /\ UNCHANGED returnVoid
      BY <1>1, <1>2, <2>1 DEF ParseFunction
    <3>3. BlockStep(f, i) \in Seq(E)
      BY <3>1 DEF BlockStep
    <3> QED BY <1>1, <1>2, <1>3, <3>2, <3>3, ControlStep DEF genVars, ruleVars
  <2>2. CASE ~(i <= Len(code.order[f]))
    <3>1. Do(<<>>) /\ returnVoid' = Out(returnVoid) /\ <<>> \in Seq(E)
      BY <2>2, <1>1, <1>2 DEF ParseFunction
    <3>2. returnVoid' \in Nat
      BY <1>2, <3>1 DEF Out
    <3> QED BY <1>1, <1>3, <3>1, <3>2, ControlStep DEF genVars, ruleVars
  <2> QED BY <2>1, <2>2
<1>5. TypeOK' /\ CallsBounded'
  BY <1>3, <1>4 DEF IInv, TypeOK, CallsBounded, genVars, ruleVars, histVars
<1> QED BY <1>4, <1>5 DEF IInv

\* A block, with its instructions.
LEMMA ParseBlockInv == IInv /\ ParseBlock => IInv'
<1> SUFFICES ASSUME IInv, ParseBlock PROVE IInv'
  OBVIOUS
<1> DEFINE b == Head(agenda).b
           E == Entries(forks', ssa')
<1>1. agenda # <<>> /\ b \in Blocks
  BY HeadItem, ItemFields DEF IInv, ParseBlock
<1>2. /\ UNCHANGED <<code, genVars, ctlVars, ruleVars, panicked, cur>>
      /\ visits' = [visits EXCEPT ![b] = @ + 1]
      /\ Do(BlockItems(b))
  BY DEF ParseBlock
<1>3. code.insts[b] \in Seq(Insts)
  BY <1>1 DEF IInv, TypeOK, Modules
<1>4. BlockItems(b) \in Seq(E)
  <2>1. code.insts[b] \in Seq(E)
    BY <1>3, EntriesMade
  <2>2. <<Flush, Term(b)>> \in Seq(E)
    BY <1>1, EntriesMade
  <2> QED BY <2>1, <2>2 DEF BlockItems
<1>5. agenda' \in Seq(Items) /\ ForkOpen' /\ VersionsContiguous' /\ PhisHandedOut'
  BY <1>1, <1>2, <1>4, ControlStep DEF genVars, ruleVars
<1>6. visits' \in [Blocks -> Nat]
  BY <1>1, <1>2 DEF IInv, TypeOK
<1>7. TypeOK' /\ CallsBounded'
  BY <1>2, <1>5, <1>6 DEF IInv, TypeOK, CallsBounded, genVars, ctlVars, ruleVars
<1> QED BY <1>5, <1>7 DEF IInv

\* The terminator: a conditional one adds a list to every stack, with the last
\* version of the list before it.
LEMMA ParseTermInv == IInv /\ ParseTerm => IInv'
<1> SUFFICES ASSUME IInv, ParseTerm PROVE IInv'
  OBVIOUS
<1> DEFINE term == code.term[Head(agenda).b]
           E == Entries(forks', ssa')
<1>1. agenda # <<>> /\ Head(agenda).b \in Blocks
  BY HeadItem, ItemFields DEF IInv, ParseTerm
<1>2. UNCHANGED <<code, ssa, declared, rounds, results, runStart, callstack,
                 grouping, forks, panicked, cur, visits>>
  BY DEF ParseTerm
<1>3. /\ term \in Terms /\ returnVoid \in Nat /\ level \in Nat /\ trail \in Trails
      /\ cur \in Versions /\ phis \in [Vars -> Seq(NonEmpty(Nat))]
  BY <1>1 DEF IInv, TypeOK, Modules
<1>4. CASE term.do # "cond"
  <2>1. Do(<<>>) /\ <<>> \in Seq(E) /\ UNCHANGED <<phis, level, trail>>
    BY <1>4 DEF ParseTerm
  <2>2. returnVoid' \in Nat
    BY <1>3, <1>4 DEF ParseTerm, In
  <2>3. agenda' \in Seq(Items) /\ ForkOpen' /\ VersionsContiguous' /\ PhisHandedOut'
    BY <1>1, <1>2, <2>1, ControlStep
  <2>4. TypeOK' /\ CallsBounded'
    BY <1>2, <2>1, <2>2, <2>3 DEF IInv, TypeOK, CallsBounded
  <2> QED BY <2>3, <2>4 DEF IInv
<1>5. CASE term.do = "cond"
  <2> DEFINE s == <<Block(term.t), Flush, Else(term.f, trail, cur)>>
                  \o IF term.a = NoBlock THEN <<>> ELSE <<Block(term.a), Flush>>
  <2>1. /\ phis' = [v \in Vars |-> InitPhi(phis[v])]
        /\ level' = In(level)
        /\ trail' = NoTrails
        /\ Do(s)
        /\ UNCHANGED returnVoid
    BY <1>5 DEF ParseTerm
  <2>2. term.t \in Blocks /\ term.f \in Blocks \cup {NoBlock} /\ term.a \in Blocks \cup {NoBlock}
    BY <1>3, <1>5 DEF Terms
  <2>3. s \in Seq(E)
    <3>1. Block(term.t) \in E /\ Flush \in E /\ Else(term.f, trail, cur) \in E
      BY <1>3, <2>2, EntriesMade
    <3>2. term.a # NoBlock => Block(term.a) \in E
      BY <2>2, EntriesMade
    <3> QED BY <3>1, <3>2
  <2>4. level' \in Nat /\ trail' \in Trails
    BY <1>3, <2>1 DEF In, NoTrails, NoTrail, Trails
  <2>5. phis' \in [Vars -> Seq(NonEmpty(Nat))]
    BY <1>3, <2>1, StackWrites
  <2>6. \A v \in Vars : phis'[v] \in Seq(NonEmpty(0..ssa'[v]))
    <3> SUFFICES ASSUME NEW v \in Vars PROVE phis'[v] \in Seq(NonEmpty(0..ssa'[v]))
      OBVIOUS
    <3>1. phis'[v] = InitPhi(phis[v]) /\ phis[v] \in Seq(NonEmpty(0..ssa[v])) /\ ssa' = ssa
      BY <1>2, <2>1 DEF IInv, PhisHandedOut
    <3>2. ssa[v] \in Nat \cup {Absent}
      BY DEF IInv, TypeOK
    <3>3. CASE ssa[v] = Absent
      BY <3>1, <3>3, AbsentStack DEF InitPhi
    <3>4. CASE ssa[v] \in Nat
      <4>1. 0 \in 0..ssa[v]
        BY <3>4
      <4> QED BY <3>1, <4>1, StackWrites
    <3> QED BY <3>2, <3>3, <3>4
  <2>7. ssa' \in [Vars -> Nat \cup {Absent}] /\ \A v \in Vars : ssa[v] <= ssa'[v]
    BY <1>2, SameNumbers
  <2>8. /\ agenda' \in Seq(Items) /\ ForkOpen'
        /\ \A i \in DOMAIN agenda' : agenda'[i].do = "endOption" =>
              \A v \in Vars : agenda'[i].state[v] <= ssa'[v]
    BY <1>1, <1>2, <2>1, <2>3, <2>7, AgendaKept
  <2>9. VersionsContiguous'
    BY <1>2 DEF IInv, VersionsContiguous
  <2>10. PhisHandedOut'
    BY <2>6, <2>8 DEF PhisHandedOut
  <2>11. TypeOK' /\ CallsBounded'
    BY <1>2, <2>1, <2>4, <2>5, <2>8 DEF IInv, TypeOK, CallsBounded
  <2> QED BY <2>8, <2>9, <2>10, <2>11 DEF IInv
<1> QED BY <1>4, <1>5

\* The switch from the true to the false branch.
LEMMA ParseElseInv == IInv /\ ParseElse => IInv'
<1> SUFFICES ASSUME IInv, ParseElse PROVE IInv'
  OBVIOUS
<1> DEFINE e == Head(agenda)
           cap == CapCond(e.outer, trail, cur)
           E == Entries(forks', ssa')
<1>1. agenda # <<>> /\ e.b \in Blocks \cup {NoBlock} /\ e.outer \in Trails /\ e.start \in Versions
  BY HeadItem, ItemFields DEF IInv, ParseElse
<1>2. /\ UNCHANGED <<code, genVars, returnVoid, runStart, callstack, grouping, forks,
                 panicked, visits>>
      /\ cur' = e.start
      /\ trail' = NoTrails
  BY DEF ParseElse
<1>3. trail \in Trails /\ cur \in Versions /\ level \in Nat
  BY DEF IInv, TypeOK
<1>4. trail' \in Trails /\ cur' \in Versions
  BY <1>1, <1>2 DEF NoTrails, NoTrail, Trails
<1>5. cap \in E /\ EndElse \in E
  BY <1>1, <1>3, EntriesMade
<1>6. /\ agenda' \in Seq(Items) /\ ForkOpen' /\ VersionsContiguous' /\ PhisHandedOut'
      /\ level' \in Nat
  <2>1. CASE e.b = NoBlock
    <3>1. Do(<<cap>>) /\ <<cap>> \in Seq(E)
      BY <1>5, <2>1 DEF ParseElse
    <3>2. level' \in Nat
      BY <1>3, <2>1 DEF ParseElse, Out
    <3> QED BY <1>1, <1>2, <3>1, <3>2, ControlStep DEF genVars
  <2>2. CASE e.b # NoBlock
    <3>1. Do(<<Block(e.b), EndElse, cap>>) /\ Block(e.b) \in E
      BY <1>1, <2>2, EntriesMade DEF ParseElse
    <3>2. <<Block(e.b), EndElse, cap>> \in Seq(E)
      BY <1>5, <3>1
    <3>3. level' \in Nat
      BY <1>3, <2>2 DEF ParseElse, Out, In
    <3> QED BY <1>1, <1>2, <3>1, <3>2, <3>3, ControlStep DEF genVars
  <2> QED BY <2>1, <2>2
<1>7. TypeOK' /\ CallsBounded'
  BY <1>2, <1>4, <1>6 DEF IInv, TypeOK, CallsBounded, genVars
<1> QED BY <1>6, <1>7 DEF IInv

\* The end of the false branch.
LEMMA EndFalseInv == IInv /\ EndFalse => IInv'
<1> SUFFICES ASSUME IInv, EndFalse PROVE IInv'
  OBVIOUS
<1>1. agenda # <<>> /\ Do(<<>>) /\ <<>> \in Seq(Entries(forks', ssa'))
  BY DEF EndFalse, At
<1>2. UNCHANGED <<code, genVars, returnVoid, runStart, grouping, ruleVars, panicked,
                 histVars>>
  BY DEF EndFalse
<1>3. callstack' \in Seq(Funs) /\ CallsBounded'
  BY ConstantsAssumption DEF EndFalse, CallsBounded
<1>4. level' \in Nat
  BY DEF IInv, TypeOK, EndFalse, Out
<1>5. agenda' \in Seq(Items) /\ ForkOpen' /\ VersionsContiguous' /\ PhisHandedOut'
  BY <1>1, <1>2, ControlStep DEF genVars, ruleVars
<1>6. TypeOK'
  BY <1>2, <1>3, <1>4, <1>5 DEF IInv, TypeOK, genVars, ruleVars, histVars
<1> QED BY <1>3, <1>5, <1>6 DEF IInv

-----------------------------------------------------------------------------
(***************************************************************************)
(* Stores.                                                                 *)
(***************************************************************************)

\* Recording entries in the round keeps RoundVars well formed.
LEMMA RoundWrites ==
  ASSUME NEW rs \in Seq(Seq(Vars \X Nat)), NEW es \in Seq(Vars \X Nat)
  PROVE  AddVarToRound(rs, es) \in Seq(Seq(Vars \X Nat))
<1>1. CASE es = <<>>
  BY <1>1 DEF AddVarToRound
<1>2. CASE es # <<>> /\ rs = <<>>
  <2>1. AddVarToRound(rs, es) = <<es>>
    BY <1>2 DEF AddVarToRound
  <2> QED BY <2>1
<1>3. CASE es # <<>> /\ rs # <<>>
  <2>1. Len(rs) \in 1..Len(rs) /\ rs[Len(rs)] \in Seq(Vars \X Nat)
    BY <1>3
  <2>2. AddVarToRound(rs, es) = [rs EXCEPT ![Len(rs)] = rs[Len(rs)] \o es]
    BY <1>3 DEF AddVarToRound
  <2>3. rs[Len(rs)] \o es \in Seq(Vars \X Nat)
    BY <2>1
  <2> QED BY <2>1, <2>2, <2>3
<1> QED BY <1>1, <1>2, <1>3

\* A rule that mentions a version.
LEMMA Mentions ==
  ASSUME NEW ts \in Trails, NEW v \in Operands, NEW n \in Nat
  PROVE  Mention(ts, v, n) \in Trails
BY DEF Mention, Trails, Operands, AddChoiceValue, Larger

\* The rules of two lists.
LEMMA TrailsJoined ==
  ASSUME NEW t \in [vals: SUBSET Nat, end: Nat], NEW u \in [vals: SUBSET Nat, end: Nat],
         NEW n \in Nat
  PROVE  /\ JoinTrails(t, u) \in [vals: SUBSET Nat, end: Nat]
         /\ AddChoiceValue(t, n) \in [vals: SUBSET Nat, end: Nat]
BY DEF JoinTrails, AddChoiceValue, Larger

\* The parent of a version is a version or missing.
LEMMA Parents ==
  ASSUME NEW id \in Nat, NEW parent \in Nat
  PROVE  VarChange(id, parent) \in VarChanges
BY DEF VarChange, VarChanges

\* One change per choice.
LEMMA Changes ==
  ASSUME NEW n \in Nat, NEW cs \in Seq(ForkChoices)
  PROVE  [i \in DOMAIN cs |-> VarChange(n, cs[i].end)] \in Seq(VarChanges)
<1>1. \A i \in 1..Len(cs) : cs[i] \in ForkChoices /\ DOMAIN cs = 1..Len(cs)
  OBVIOUS
<1>2. \A c \in ForkChoices : c.end \in Nat
  BY DEF ForkChoices
<1>3. \A i \in 1..Len(cs) : VarChange(n, cs[i].end) \in VarChanges
  BY <1>1, <1>2, Parents
<1>4. DOMAIN cs = 1..Len(cs) /\ Len(cs) \in Nat
  OBVIOUS
<1> QED BY <1>3, <1>4

\* A fresh version of v, after operands registered their variables in base.
LEMMA AssignInv ==
  ASSUME IInv, agenda # <<>>, NEW v \in Vars, NEW base \in [Vars -> Nat \cup {Absent}],
         \A w \in Vars : ssa[w] <= base[w] /\ GetSSA(base[w]) = GetSSA(ssa[w]),
         NEW num \in Nat, NEW ts \in Trails,
         Assign(v, base, num, ts), Do(<<>>), runStart' \in BOOLEAN,
         UNCHANGED <<code, level, returnVoid, callstack, grouping, forks, panicked, visits>>
  PROVE  IInv'
<1> DEFINE n  == GetSSA(base[v])
           id == AdvanceSSA(base[v])
<1>1. /\ ssa \in [Vars -> Nat \cup {Absent}] /\ phis \in [Vars -> Seq(NonEmpty(Nat))]
      /\ declared \in [Vars -> SUBSET Nat] /\ rounds \in Seq(Seq(Vars \X Nat))
      /\ results \in [Vars -> Seq(VarChanges)]
      /\ cur \in [Vars -> Nat]
  BY DEF IInv, TypeOK, Versions
<1>2. n \in Nat /\ id \in Nat /\ base[v] <= id /\ ssa[v] <= id /\ id <= n + 1 /\ n + 1 \in Nat
  <2>1. base[v] \in Nat \cup {Absent} /\ ssa[v] \in Nat \cup {Absent} /\ ssa[v] <= base[v]
    BY <1>1
  <2>2. \A m \in Nat \cup {Absent} :
          GetSSA(m) \in Nat /\ AdvanceSSA(m) \in Nat /\ m <= AdvanceSSA(m)
          /\ AdvanceSSA(m) <= GetSSA(m) + 1
    BY DEF GetSSA, AdvanceSSA, Absent
  <2>3. n \in Nat /\ id \in Nat /\ base[v] <= id /\ id <= n + 1
    BY <2>1, <2>2
  <2> QED BY <2>1, <2>3 DEF Absent
<1>3. ssa' = [base EXCEPT ![v] = id] /\ ssa' \in [Vars -> Nat \cup {Absent}]
  BY <1>2 DEF Assign
<1>4. \A w \in Vars : ssa[w] <= ssa'[w]
  BY <1>2, <1>3
<1>5. phis' = [phis EXCEPT ![v] = IF level = 0 THEN NewPhi(phis[v], n + 1)
                                               ELSE StoreLastState(phis[v], n + 1)]
  BY DEF Assign
<1>6. phis' \in [Vars -> Seq(NonEmpty(Nat))]
  <2>1. phis[v] \in Seq(NonEmpty(Nat)) /\ 0 \in Nat
    BY <1>1
  <2>2. /\ NewPhi(phis[v], n + 1) \in Seq(NonEmpty(Nat))
        /\ StoreLastState(phis[v], n + 1) \in Seq(NonEmpty(Nat))
    BY <1>2, <2>1, StackWrites
  <2> QED BY <1>1, <1>5, <2>2
<1>7. rounds' \in Seq(Seq(Vars \X Nat))
  <2>1. << <<v, num>> >> \in Seq(Vars \X Nat)
    OBVIOUS
  <2> QED BY <1>1, <2>1, RoundWrites DEF Assign
<1>8. results' \in [Vars -> Seq(VarChanges)]
  <2>1. VarChange(id, n) \in VarChanges
    BY <1>2, Parents
  <2>2. results' = [results EXCEPT ![v] = Append(results[v], VarChange(id, n))]
    BY DEF Assign
  <2>3. Append(results[v], VarChange(id, n)) \in Seq(VarChanges)
    BY <1>1, <2>1
  <2> QED BY <1>1, <2>2, <2>3
<1>9. trail' \in Trails
  BY <1>2, Mentions DEF Assign, Operands
<1>10. cur' \in Versions
  BY <1>1, <1>2 DEF Assign, Versions
<1>11. declared' = [declared EXCEPT ![v] = declared[v] \cup {id}]
       /\ declared' \in [Vars -> SUBSET Nat]
  BY <1>1, <1>2 DEF Assign
<1>12. /\ agenda' \in Seq(Items) /\ ForkOpen'
       /\ \A i \in DOMAIN agenda' : agenda'[i].do = "endOption" =>
              \A w \in Vars : agenda'[i].state[w] <= ssa'[w]
  <2>1. <<>> \in Seq(Entries(forks', ssa'))
    OBVIOUS
  <2> QED BY <1>3, <1>4, <2>1, AgendaKept
<1>13. VersionsContiguous'
  <2> SUFFICES ASSUME NEW w \in Vars PROVE declared'[w] \cup {0} = 0..GetSSA(ssa'[w])
    BY DEF VersionsContiguous
  <2>1. declared[w] \cup {0} = 0..GetSSA(ssa[w]) /\ GetSSA(base[w]) = GetSSA(ssa[w])
    BY DEF IInv, VersionsContiguous
  <2>2. CASE w = v
    <3>1. declared'[w] = declared[w] \cup {id} /\ ssa'[w] = id
      BY <1>1, <1>3, <1>11, <2>2
    <3>2. GetSSA(id) = id /\ 0..id = (0..n) \cup {id}
      BY <2>2, Numbers
    <3> QED BY <2>1, <2>2, <3>1, <3>2
  <2>3. CASE w # v
    BY <1>1, <1>3, <1>11, <2>1, <2>3
  <2> QED BY <2>2, <2>3
<1>14. \A w \in Vars : phis'[w] \in Seq(NonEmpty(0..ssa'[w]))
  <2> SUFFICES ASSUME NEW w \in Vars PROVE phis'[w] \in Seq(NonEmpty(0..ssa'[w]))
    OBVIOUS
  <2>1. ssa[w] \in Nat \cup {Absent} /\ ssa'[w] \in Nat \cup {Absent} /\ ssa[w] <= ssa'[w]
    BY <1>1, <1>3, <1>4
  <2>2. 0..ssa[w] \subseteq 0..ssa'[w]
    BY <2>1 DEF Absent
  <2>3. phis[w] \in Seq(NonEmpty(0..ssa[w]))
    BY DEF IInv, PhisHandedOut
  <2>4. phis[w] \in Seq(NonEmpty(0..ssa'[w]))
    BY <2>2, <2>3, StackWiden
  <2>5. CASE w # v
    BY <1>1, <1>5, <2>4, <2>5
  <2>6. CASE w = v /\ phis[v] = <<>>
    <3>1. phis'[v] = << <<0>> >> /\ ssa'[v] = id
      BY <1>1, <1>3, <1>5, <2>6 DEF NewPhi, StoreLastState
    <3>2. 0 \in 0..id
      BY <1>2
    <3>3. <<0>> \in NonEmpty(0..id)
      BY <3>2 DEF NonEmpty
    <3> QED BY <2>6, <3>1, <3>3
  <2>7. CASE w = v /\ phis[v] # <<>>
    <3>1. ssa[v] # Absent
      BY <2>3, <2>7, AbsentStack
    <3>2. id = n + 1 /\ ssa'[v] = id /\ 0 \in 0..id /\ n + 1 \in 0..id
      <4>1. base[v] # Absent
        BY <1>1, <3>1 DEF Absent
      <4> QED BY <1>2, <1>3, <4>1 DEF AdvanceSSA, GetSSA
    <3>3. /\ NewPhi(phis[v], n + 1) \in Seq(NonEmpty(0..id))
          /\ StoreLastState(phis[v], n + 1) \in Seq(NonEmpty(0..id))
      BY <2>4, <2>7, <3>2, StackWrites
    <3> QED BY <1>1, <1>5, <2>7, <3>2, <3>3
  <2> QED BY <2>5, <2>6, <2>7
<1>15. PhisHandedOut'
  BY <1>12, <1>14 DEF PhisHandedOut
<1>16. TypeOK' /\ CallsBounded'
  BY <1>3, <1>6, <1>7, <1>8, <1>9, <1>10, <1>11, <1>12 DEF IInv, TypeOK, CallsBounded
<1> QED BY <1>12, <1>13, <1>15, <1>16 DEF IInv

\* A version read is a number, and registering a variable changes no number that
\* GetSSA returns.
LEMMA Reads ==
  ASSUME IInv
  PROVE  /\ \A v \in Vars : GetSSA(ssa[v]) \in Nat /\ GetSSA(ssa[v]) + 1 \in Nat
         /\ \A v \in Vars, start \in BOOLEAN : ReadNum(v, start) \in Nat
         /\ \A S : /\ Registered(S) \in [Vars -> Nat \cup {Absent}]
                   /\ \A w \in Vars : /\ ssa[w] <= Registered(S)[w]
                                      /\ GetSSA(Registered(S)[w]) = GetSSA(ssa[w])
<1>1. ssa \in [Vars -> Nat \cup {Absent}] /\ phis \in [Vars -> Seq(NonEmpty(Nat))]
  BY DEF IInv, TypeOK
<1>2. \A m \in Nat \cup {Absent} : GetSSA(m) \in Nat /\ m <= GetSSA(m) /\ m <= m
                                   /\ GetSSA(GetSSA(m)) = GetSSA(m)
  BY DEF GetSSA, Absent
<1>3. \A v \in Vars : GetStartState(phis[v]) \in Nat
  <2> SUFFICES ASSUME NEW v \in Vars PROVE GetStartState(phis[v]) \in Nat
    OBVIOUS
  <2>1. phis[v] \in Seq(NonEmpty(Nat)) /\ 0 \in Nat
    BY <1>1
  <2> QED BY <2>1, StackReads
<1>4. ASSUME NEW v \in Vars, NEW start \in BOOLEAN PROVE ReadNum(v, start) \in Nat
  BY <1>1, <1>2, <1>3 DEF ReadNum
<1>5. ASSUME NEW S PROVE /\ Registered(S) \in [Vars -> Nat \cup {Absent}]
                         /\ \A w \in Vars : /\ ssa[w] <= Registered(S)[w]
                                            /\ GetSSA(Registered(S)[w]) = GetSSA(ssa[w])
  BY <1>1, <1>2 DEF Registered
<1>6. ASSUME NEW v \in Vars PROVE GetSSA(ssa[v]) \in Nat /\ GetSSA(ssa[v]) + 1 \in Nat
  <2>1. ssa[v] \in Nat \cup {Absent}
    BY <1>1
  <2>2. GetSSA(ssa[v]) \in Nat
    BY <1>2, <2>1
  <2> QED BY <2>2
<1> QED BY <1>4, <1>5, <1>6

\* A literal.
LEMMA StoreConstInv == IInv /\ StoreConst => IInv'
<1> SUFFICES ASSUME IInv, StoreConst PROVE IInv'
  OBVIOUS
<1> DEFINE v == Head(agenda).dst
<1>1. agenda # <<>> /\ v \in Vars
  BY HeadItem, ItemFields DEF IInv, StoreConst
<1>2. ssa \in [Vars -> Nat \cup {Absent}] /\ AdvanceSSA(ssa[v]) \in Nat /\ trail \in Trails
  BY <1>1, Numbers DEF IInv, TypeOK
<1>3. \A w \in Vars : ssa[w] <= ssa[w] /\ GetSSA(ssa[w]) = GetSSA(ssa[w])
  BY <1>2 DEF Absent
<1>4. Assign(v, ssa, AdvanceSSA(ssa[v]), trail) /\ Do(<<>>)
      /\ UNCHANGED <<code, ctlVars, forks, panicked, visits>>
  BY DEF StoreConst
<1>5. runStart' \in BOOLEAN
  BY <1>4 DEF IInv, TypeOK, ctlVars
<1> QED BY <1>1, <1>2, <1>3, <1>4, <1>5, AssignInv DEF ctlVars

\* An arithmetic expression.
LEMMA StoreInfixInv == IInv /\ StoreInfix => IInv'
<1> SUFFICES ASSUME IInv, StoreInfix PROVE IInv'
  OBVIOUS
<1> DEFINE i == Head(agenda)
           yStart == runStart /\ i.x = Lit
           xn == IF i.x = Lit THEN 0 ELSE ReadNum(i.x, runStart)
           yn == IF i.y = Lit THEN 0 ELSE ReadNum(i.y, yStart)
           met == (IF runStart THEN {} ELSE {i.x}) \cup (IF yStart THEN {} ELSE {i.y})
           base == Registered(met)
           ts == Mention(Mention(trail, i.x, xn), i.y, yn)
<1>1. agenda # <<>> /\ i.dst \in Vars /\ i.x \in Operands /\ i.y \in Operands
  BY HeadItem, ItemFields DEF IInv, StoreInfix
<1>2. runStart \in BOOLEAN /\ yStart \in BOOLEAN /\ (yStart /\ i.y = Lit) \in BOOLEAN
  BY DEF IInv, TypeOK
<1>3. xn \in Nat /\ yn \in Nat
  BY <1>1, <1>2, Reads DEF Operands
<1>4. /\ base \in [Vars -> Nat \cup {Absent}]
      /\ \A w \in Vars : ssa[w] <= base[w] /\ GetSSA(base[w]) = GetSSA(ssa[w])
  BY Reads
<1>5. ts \in Trails
  <2>1. trail \in Trails
    BY DEF IInv, TypeOK
  <2>2. Mention(trail, i.x, xn) \in Trails
    BY <1>1, <1>3, <2>1, Mentions
  <2> QED BY <1>1, <1>3, <2>2, Mentions
<1>6. GetSSA(base[i.dst]) + 1 \in Nat
  BY <1>1, <1>4, Reads
<1>7. Assign(i.dst, base, GetSSA(base[i.dst]) + 1, ts) /\ Do(<<>>)
      /\ UNCHANGED <<code, level, returnVoid, callstack, grouping, forks, panicked, visits>>
      /\ runStart' = (yStart /\ i.y = Lit)
  BY DEF StoreInfix
<1> HIDE DEF i, base, ts, yStart
<1> QED BY <1>1, <1>2, <1>4, <1>5, <1>6, <1>7, AssignInv

\* A loaded value.
LEMMA StoreCopyInv == IInv /\ StoreCopy => IInv'
<1> SUFFICES ASSUME IInv, StoreCopy PROVE IInv'
  OBVIOUS
<1> DEFINE i == Head(agenda)
           n == GetSSA(ssa[i.dst])
<1>1. agenda # <<>> /\ i.dst \in Vars /\ i.x \in Operands
  BY HeadItem, ItemFields DEF IInv, StoreCopy, Operands
<1>2. ssa \in [Vars -> Nat \cup {Absent}] /\ n \in Nat /\ n + 1 \in Nat /\ trail \in Trails
  BY <1>1, Reads DEF IInv, TypeOK
<1>3. \A w \in Vars : ssa[w] <= ssa[w] /\ GetSSA(ssa[w]) = GetSSA(ssa[w])
  BY <1>2 DEF Absent
<1>4. Assign(i.dst, ssa, n + 1, Mention(trail, i.x, n)) /\ Do(<<>>)
      /\ UNCHANGED <<code, ctlVars, forks, panicked, visits>>
  BY DEF StoreCopy
<1>5. runStart' \in BOOLEAN /\ Mention(trail, i.x, n) \in Trails
  BY <1>1, <1>2, <1>4, Mentions DEF IInv, TypeOK, ctlVars
<1> HIDE DEF i, n
<1> QED BY <1>1, <1>2, <1>3, <1>4, <1>5, AssignInv DEF ctlVars

\* advance(), and each of its two states.
LEMMA ParseBuiltInInv == IInv /\ ParseBuiltIn => IInv'
<1> SUFFICES ASSUME IInv, ParseBuiltIn PROVE IInv'
  OBVIOUS
<1>1. CASE At("advance")
  <2> DEFINE s == <<State(Head(agenda).to), State(Head(agenda).from)>>
  <2>1. agenda # <<>> /\ Head(agenda).to \in Vars /\ Head(agenda).from \in Vars
    BY <1>1, HeadItem, ItemFields DEF IInv
  <2>2. Do(s) /\ UNCHANGED <<code, genVars, ctlVars, ruleVars, panicked, histVars>>
    BY <1>1 DEF ParseBuiltIn, At
  <2>3. s \in Seq(Entries(forks', ssa'))
    BY <2>1, EntriesMade
  <2>4. agenda' \in Seq(Items) /\ ForkOpen' /\ VersionsContiguous' /\ PhisHandedOut'
    BY <2>1, <2>2, <2>3, ControlStep DEF genVars, ruleVars
  <2>5. TypeOK' /\ CallsBounded'
    BY <2>2, <2>4 DEF IInv, TypeOK, CallsBounded, genVars, ctlVars, ruleVars, histVars
  <2> QED BY <2>4, <2>5 DEF IInv
<1>2. CASE At("state")
  <2> DEFINE v == Head(agenda).dst
  <2>1. agenda # <<>> /\ v \in Vars
    BY <1>2, HeadItem, ItemFields DEF IInv
  <2>2. ssa \in [Vars -> Nat \cup {Absent}] /\ GetSSA(ssa[v]) + 1 \in Nat /\ trail \in Trails
    BY <2>1, Reads DEF IInv, TypeOK
  <2>3. \A w \in Vars : ssa[w] <= ssa[w] /\ GetSSA(ssa[w]) = GetSSA(ssa[w])
    BY <2>2 DEF Absent
  <2>4. Assign(v, ssa, GetSSA(ssa[v]) + 1, trail) /\ Do(<<>>)
        /\ UNCHANGED <<code, ctlVars, forks, panicked, visits>>
    BY <1>2 DEF ParseBuiltIn, At
  <2>5. runStart' \in BOOLEAN
    BY <2>4 DEF IInv, TypeOK, ctlVars
  <2> QED BY <2>1, <2>2, <2>3, <2>4, <2>5, AssignInv DEF ctlVars
<1> QED BY <1>1, <1>2 DEF ParseBuiltIn

\* A comparison registers its operands.
LEMMA ParseCmpInv == IInv /\ ParseCmp => IInv'
<1> SUFFICES ASSUME IInv, ParseCmp PROVE IInv'
  OBVIOUS
<1>1. agenda # <<>> /\ Do(<<>>) /\ <<>> \in Seq(Entries(forks', ssa'))
  BY DEF ParseCmp, At
<1>2. PICK met : ssa' = Registered(met)
  BY DEF ParseCmp
<1>3. /\ ssa' \in [Vars -> Nat \cup {Absent}]
      /\ \A w \in Vars : ssa[w] <= ssa'[w] /\ GetSSA(ssa'[w]) = GetSSA(ssa[w])
  BY <1>2, Reads
<1>4. UNCHANGED <<code, phis, declared, rounds, results, level, returnVoid, callstack,
                 grouping, ruleVars, panicked, histVars>>
  BY DEF ParseCmp
<1>5. runStart' \in BOOLEAN
  BY DEF ParseCmp
<1>6. /\ agenda' \in Seq(Items) /\ ForkOpen'
      /\ \A i \in DOMAIN agenda' : agenda'[i].do = "endOption" =>
              \A v \in Vars : agenda'[i].state[v] <= ssa'[v]
  BY <1>1, <1>3, <1>4, AgendaKept DEF ruleVars
<1>7. VersionsContiguous'
  BY <1>3, <1>4 DEF IInv, VersionsContiguous
<1>8. \A v \in Vars : phis'[v] \in Seq(NonEmpty(0..ssa'[v]))
  BY <1>3, <1>4, PhisWiden
<1>9. PhisHandedOut'
  BY <1>6, <1>8 DEF PhisHandedOut
<1>10. TypeOK' /\ CallsBounded'
  BY <1>3, <1>4, <1>5, <1>6 DEF IInv, TypeOK, CallsBounded, ruleVars, histVars
<1> QED BY <1>6, <1>7, <1>9, <1>10 DEF IInv

\* A global constant.
LEMMA ConstantRuleInv == IInv /\ ConstantRule => IInv'
<1> SUFFICES ASSUME IInv, ConstantRule PROVE IInv'
  OBVIOUS
<1> DEFINE v == Head(agenda).v
           id == AdvanceSSA(ssa[v])
<1>1. agenda # <<>> /\ Do(<<>>) /\ <<>> \in Seq(Entries(forks', ssa')) /\ v \in Vars
  BY HeadItem, ItemFields DEF IInv, ConstantRule
<1>2. /\ ssa' = [ssa EXCEPT ![v] = id]
      /\ declared' = [declared EXCEPT ![v] = declared[v] \cup {id}]
      /\ rounds' = AddVarToRound(rounds, << <<v, 0>> >>)
      /\ cur' = [cur EXCEPT ![v] = id]
      /\ UNCHANGED <<code, phis, results, ctlVars, ruleVars, panicked, visits>>
  BY DEF ConstantRule
<1>3. /\ ssa \in [Vars -> Nat \cup {Absent}] /\ declared \in [Vars -> SUBSET Nat]
      /\ cur \in [Vars -> Nat] /\ rounds \in Seq(Seq(Vars \X Nat))
  BY DEF IInv, TypeOK, Versions
<1>4. ssa' \in [Vars -> Nat \cup {Absent}] /\ \A w \in Vars : ssa[w] <= ssa'[w]
  <2>1. \A m \in Nat \cup {Absent} : AdvanceSSA(m) \in Nat /\ m <= AdvanceSSA(m) /\ m <= m
    BY DEF AdvanceSSA, Absent
  <2> QED BY <1>1, <1>2, <1>3, <2>1
<1>5. id \in Nat /\ GetSSA(id) = id /\ 0..id = (0..GetSSA(ssa[v])) \cup {id}
  BY <1>1, <1>3, Numbers
<1>6. declared' \in [Vars -> SUBSET Nat] /\ cur' \in Versions
  BY <1>1, <1>2, <1>3, <1>5 DEF Versions
<1>7. rounds' \in Seq(Seq(Vars \X Nat))
  <2>1. << <<v, 0>> >> \in Seq(Vars \X Nat)
    BY <1>1
  <2> QED BY <1>2, <1>3, <2>1, RoundWrites
<1>8. /\ agenda' \in Seq(Items) /\ ForkOpen'
      /\ \A i \in DOMAIN agenda' : agenda'[i].do = "endOption" =>
              \A w \in Vars : agenda'[i].state[w] <= ssa'[w]
  BY <1>1, <1>2, <1>4, AgendaKept DEF ruleVars
<1>9. VersionsContiguous'
  <2> SUFFICES ASSUME NEW w \in Vars PROVE declared'[w] \cup {0} = 0..GetSSA(ssa'[w])
    BY DEF VersionsContiguous
  <2>1. declared[w] \cup {0} = 0..GetSSA(ssa[w])
    BY DEF IInv, VersionsContiguous
  <2>2. CASE w = v
    BY <1>1, <1>2, <1>3, <1>5, <2>1, <2>2
  <2>3. CASE w # v
    BY <1>2, <1>3, <2>1, <2>3
  <2> QED BY <2>2, <2>3
<1>10. \A w \in Vars : phis'[w] \in Seq(NonEmpty(0..ssa'[w]))
  BY <1>2, <1>4, PhisWiden
<1>11. PhisHandedOut'
  BY <1>8, <1>10 DEF PhisHandedOut
<1>12. TypeOK' /\ CallsBounded'
  BY <1>2, <1>4, <1>6, <1>7, <1>8 DEF IInv, TypeOK, CallsBounded, ctlVars, ruleVars
<1> QED BY <1>8, <1>9, <1>11, <1>12 DEF IInv

\* A store to @__rounds.
LEMMA StoreRoundInv == IInv /\ StoreRound => IInv'
<1> SUFFICES ASSUME IInv, StoreRound PROVE IInv'
  OBVIOUS
<1> DEFINE E == Entries(forks', ssa')
<1>1. agenda # <<>>
  BY DEF StoreRound, At
<1>2. UNCHANGED <<code, ssa, phis, declared, results, ctlVars, ruleVars, panicked,
                 histVars>>
  BY DEF StoreRound
<1>3. rounds' \in Seq(Seq(Vars \X Nat))
  <2>1. rounds \in Seq(Seq(Vars \X Nat)) /\ <<>> \in Seq(Vars \X Nat)
    BY DEF IInv, TypeOK
  <2>2. rounds' = rounds \/ rounds' = Append(rounds, <<>>)
    BY DEF StoreRound
  <2>3. \A S : rounds \in Seq(S) /\ <<>> \in S => Append(rounds, <<>>) \in Seq(S)
    OBVIOUS
  <2> QED BY <2>1, <2>2, <2>3
<1>4. agenda' \in Seq(Items) /\ ForkOpen' /\ VersionsContiguous' /\ PhisHandedOut'
  <2>1. <<Flush, [do |-> "round"]>> \in Seq(E) /\ <<>> \in Seq(E)
    BY EntriesMade
  <2>2. Do(<<Flush, [do |-> "round"]>>) \/ Do(<<>>)
    BY DEF StoreRound
  <2> QED BY <1>1, <1>2, <2>1, <2>2, ControlStep DEF ruleVars
<1>5. TypeOK' /\ CallsBounded'
  BY <1>2, <1>3, <1>4 DEF IInv, TypeOK, CallsBounded, ctlVars, ruleVars, histVars
<1> QED BY <1>4, <1>5 DEF IInv

-----------------------------------------------------------------------------
(***************************************************************************)
(* Calls and parallel runs.                                                *)
(***************************************************************************)

\* A call is deferred.
LEMMA ParseCallInv == IInv /\ ParseCall => IInv'
<1> SUFFICES ASSUME IInv, ParseCall PROVE IInv'
  OBVIOUS
<1> DEFINE f == Head(agenda).f
           m == Head(agenda).m
           joins == Called(f, m, TRUE)
           called == Called(f, m, FALSE)
           E == Entries(forks', ssa')
<1>1. agenda # <<>> /\ f \in Funs /\ m \in Groups \cup {NoGroup}
  BY HeadItem, ItemFields DEF IInv, ParseCall
<1>2. UNCHANGED <<code, genVars, ctlVars, ruleVars, panicked, histVars>>
  BY DEF ParseCall
<1>3. Flush \in E /\ Function(f, 1) \in E
  BY <1>1, EntriesMade
<1>4. joins \in E /\ called \in E
  BY <1>1 DEF Entries, Items, Called, InRun
<1>5. Do(<<joins>>) \/ Do(<<Flush, Function(f, 1), called>>) \/ Do(<<Flush, joins>>)
  BY DEF ParseCall
<1>6. agenda' \in Seq(Items) /\ ForkOpen' /\ VersionsContiguous' /\ PhisHandedOut'
  <2> HIDE DEF f, m, E, joins, called
  <2>1. <<joins>> \in Seq(E) /\ <<Flush, Function(f, 1), called>> \in Seq(E)
        /\ <<Flush, joins>> \in Seq(E)
    BY <1>3, <1>4
  <2> QED BY <1>1, <1>2, <1>5, <2>1, ControlStep DEF genVars, ruleVars, E
<1>7. TypeOK' /\ CallsBounded'
  BY <1>2, <1>6 DEF IInv, TypeOK, CallsBounded, genVars, ctlVars, ruleVars, histVars
<1> QED BY <1>6, <1>7 DEF IInv

\* A call joins the callstack.
LEMMA EndParseCallInv == IInv /\ EndParseCall => IInv'
<1> SUFFICES ASSUME IInv, EndParseCall PROVE IInv'
  OBVIOUS
<1> DEFINE c == Head(agenda)
<1>1. /\ agenda # <<>> /\ c.f \in Funs /\ c.m \in Groups \cup {NoGroup} /\ c.push \in BOOLEAN
      /\ Do(<<>>) /\ <<>> \in Seq(Entries(forks', ssa'))
  BY HeadItem, ItemFields DEF IInv, EndParseCall
<1>2. UNCHANGED <<code, genVars, level, runStart, ruleVars, panicked, histVars>>
  BY DEF EndParseCall
<1>3. callstack' \in Seq(Funs) /\ CallsBounded'
  <2>1. callstack \in Seq(Funs) /\ Len(callstack) <= MaxParallel
    BY DEF IInv, TypeOK, CallsBounded
  <2>2. CASE c.push
    <3>1. Len(callstack) < MaxParallel /\ callstack' = Append(callstack, c.f)
      BY <2>2 DEF EndParseCall
    <3> QED BY <1>1, <2>1, <3>1, ConstantsAssumption DEF CallsBounded
  <2>3. CASE ~c.push
    BY <2>1, <2>3 DEF EndParseCall, CallsBounded
  <2> QED BY <2>2, <2>3
<1>4. returnVoid' \in Nat /\ grouping' \in Groups \cup {NoGroup}
  BY <1>1 DEF IInv, TypeOK, EndParseCall, Out, UpdateParallelGroup
<1>5. agenda' \in Seq(Items) /\ ForkOpen' /\ VersionsContiguous' /\ PhisHandedOut'
  BY <1>1, <1>2, ControlStep DEF genVars, ruleVars
<1>6. TypeOK'
  BY <1>2, <1>3, <1>4, <1>5 DEF IInv, TypeOK, genVars, ruleVars, histVars
<1> QED BY <1>3, <1>5, <1>6 DEF IInv

\* The permutations of two or three calls are sequences of calls.
LEMMA OrdersMade ==
  ASSUME NEW p \in Seq(Funs), Len(p) \in 2..3
  PROVE  ParallelPermutations(p) \in Orders
<1>1. \A q \in Seq(Funs), i \in 1..3, j \in 1..3 :
        Len(q) = Len(p) /\ i <= Len(p) /\ j <= Len(p) =>
          Swap(q, i, j) \in Seq(Funs) /\ Len(Swap(q, i, j)) = Len(p)
  BY DEF Swap
<1>2. \A q \in Seq(Funs) : Len(q) = Len(p) => q \in NonEmpty(Funs)
  BY DEF NonEmpty
<1>3. CASE Len(p) = 2
  <2>1. ParallelPermutations(p) = <<p, Swap(p, 1, 2)>>
    BY <1>3 DEF ParallelPermutations
  <2>2. p \in NonEmpty(Funs) /\ Swap(p, 1, 2) \in NonEmpty(Funs)
    BY <1>1, <1>2, <1>3
  <2> QED BY <2>1, <2>2 DEF Orders, NonEmpty
<1>4. CASE Len(p) = 3
  <2>1. ParallelPermutations(p) =
          <<p, Swap(p, 2, 3), Swap(p, 1, 2), Swap(Swap(p, 1, 2), 2, 3),
            Swap(p, 1, 3), Swap(Swap(p, 1, 3), 2, 3)>>
    BY <1>4 DEF ParallelPermutations
  <2>2. /\ Swap(p, 1, 2) \in Seq(Funs) /\ Len(Swap(p, 1, 2)) = Len(p)
        /\ Swap(p, 1, 3) \in Seq(Funs) /\ Len(Swap(p, 1, 3)) = Len(p)
        /\ Swap(p, 2, 3) \in Seq(Funs) /\ Len(Swap(p, 2, 3)) = Len(p)
    BY <1>1, <1>4
  <2>3. /\ Swap(Swap(p, 1, 2), 2, 3) \in Seq(Funs) /\ Len(Swap(Swap(p, 1, 2), 2, 3)) = Len(p)
        /\ Swap(Swap(p, 1, 3), 2, 3) \in Seq(Funs) /\ Len(Swap(Swap(p, 1, 3), 2, 3)) = Len(p)
    BY <1>1, <1>4, <2>2
  <2>4. /\ p \in NonEmpty(Funs) /\ Swap(p, 1, 2) \in NonEmpty(Funs)
        /\ Swap(p, 1, 3) \in NonEmpty(Funs) /\ Swap(p, 2, 3) \in NonEmpty(Funs)
        /\ Swap(Swap(p, 1, 2), 2, 3) \in NonEmpty(Funs)
        /\ Swap(Swap(p, 1, 3), 2, 3) \in NonEmpty(Funs)
    BY <1>2, <2>2, <2>3
  <2>5. ParallelPermutations(p) \in Seq(NonEmpty(Funs)) /\ ParallelPermutations(p) # <<>>
    BY <2>1, <2>4
  <2> QED BY <2>5 DEF Orders, NonEmpty
<1> QED BY <1>3, <1>4

\* Opening a fork.
LEMMA ForkMade ==
  ASSUME NEW S, NEW fs \in Seq(S), NEW l \in Nat, NEW fork \in S
  PROVE  NewFork(fs, l, fork) \in Seq(S) /\ NewFork(fs, l, fork) # <<>>
BY DEF NewFork, Front

\* Forks are sequences of choices per variable.
ForkType == [Vars -> Seq(ForkChoices)]

\* The choice that buildForkChoice makes of one variable's rules.
LEMMA ChoiceMade ==
  ASSUME NEW ts \in Trails, NEW v \in Vars, NEW b \in {"true", "false", "option"}
  PROVE  Choice(ts[v], b) \in Seq(ForkChoices)
<1> DEFINE c == [branch |-> b, vals |-> ts[v].vals, end |-> ts[v].end]
<1>1. c \in ForkChoices
  BY DEF Trails, ForkChoices
<1>2. Choice(ts[v], b) = <<>> \/ Choice(ts[v], b) = <<c>>
  BY DEF Choice
<1>3. <<>> \in Seq(ForkChoices)
  OBVIOUS
<1>4. \A h \in ForkChoices : <<h>> \in Seq(ForkChoices)
  OBVIOUS
<1> QED BY <1>1, <1>2, <1>3, <1>4

\* executeCallstack: a single call is parsed, more are run in all orders.
LEMMA ExecuteCallstackInv == IInv /\ ExecuteCallstack => IInv'
<1> SUFFICES ASSUME IInv, ExecuteCallstack PROVE IInv'
  OBVIOUS
<1> DEFINE E == Entries(forks', ssa')
<1>1. agenda # <<>>
  BY DEF ExecuteCallstack, At
<1>2. /\ UNCHANGED <<code, genVars, level, returnVoid, runStart, grouping, trail,
                 panicked, cur, visits>>
      /\ callstack' = <<>>
  BY DEF ExecuteCallstack
<1>3. callstack' \in Seq(Funs) /\ CallsBounded'
  BY <1>2, ConstantsAssumption DEF CallsBounded
<1>4. /\ callstack \in Seq(Funs) /\ Len(callstack) <= MaxParallel
      /\ forks \in Seq(ForkType) /\ level \in Nat /\ cur \in Versions
  BY DEF IInv, TypeOK, CallsBounded, ForkType
<1>5. PICK s \in Seq(E) : /\ Do(s) /\ forks' \in Seq(ForkType)
                          /\ forks # <<>> => forks' # <<>>
  <2>1. CASE callstack = <<>>
    <3>1. Do(<<>>) /\ UNCHANGED forks /\ <<>> \in Seq(E)
      BY <2>1 DEF ExecuteCallstack
    <3> QED BY <1>4, <3>1
  <2>2. CASE Len(callstack) = 1
    <3>1. Do(<<Function(callstack[1], 1)>>) /\ UNCHANGED forks
      BY <2>2 DEF ExecuteCallstack
    <3>2. Function(callstack[1], 1) \in E
      <4>1. callstack[1] \in Funs
        BY <1>4, <2>2
      <4>2. \A f \in Funs, k \in Nat \ {0} : Function(f, k) \in E
        BY EntriesMade
      <4> HIDE DEF E
      <4> QED BY <4>1, <4>2
    <3>3. <<Function(callstack[1], 1)>> \in Seq(E)
      BY <3>2
    <3> QED BY <1>4, <3>1, <3>3
  <2>3. CASE Len(callstack) > 1
    <3> DEFINE o == Options(ParallelPermutations(callstack), cur, <<>>)
    <3>1. Do(<<o>>) /\ forks' = NewFork(forks, level, NoFork)
      <4>1. callstack # <<>>
        BY <1>4, <2>3
      <4>2. \A n \in Nat : n > 1 => n # 1
        OBVIOUS
      <4>3. Len(callstack) # 1
        BY <1>4, <2>3, <4>2
      <4> QED BY <4>1, <4>3 DEF ExecuteCallstack
    <3>2. NoFork \in ForkType
      BY DEF NoFork, ForkType
    <3>3. forks' \in Seq(ForkType) /\ forks' # <<>>
      BY <1>4, <3>1, <3>2, ForkMade
    <3>4. Len(callstack) \in 2..3
      <4> DEFINE n == Len(callstack)
      <4>1. n \in Nat /\ MaxParallel \in 1..3 /\ n <= MaxParallel /\ n > 1
        BY <1>4, <2>3, ConstantsAssumption
      <4> HIDE DEF n
      <4>2. n \in 2..3
        BY <4>1
      <4> QED BY <4>2 DEF n
    <3>5. ParallelPermutations(callstack) \in Orders
      BY <1>4, <3>4, OrdersMade
    <3>6. o \in Items
      <4>1. <<>> \in Seq(Versions)
        OBVIOUS
      <4> QED BY <1>4, <3>5, <4>1, ItemsMade
    <3>7. o \in E
      BY <3>3, <3>6 DEF Entries, Options
    <3> HIDE DEF o, E
    <3>8. <<o>> \in Seq(E)
      BY <3>7
    <3> QED BY <3>1, <3>3, <3>8
  <2>4. callstack = <<>> \/ Len(callstack) = 1 \/ Len(callstack) > 1
    BY <1>4
  <2> QED BY <2>1, <2>2, <2>3, <2>4
<1>6. agenda' \in Seq(Items) /\ ForkOpen' /\ VersionsContiguous' /\ PhisHandedOut'
  BY <1>1, <1>2, <1>5, ControlStep DEF genVars
<1>7. TypeOK'
  BY <1>2, <1>3, <1>5, <1>6 DEF IInv, TypeOK, genVars, ForkType
<1> QED BY <1>3, <1>6, <1>7 DEF IInv

\* SaveState, and the calls of one option.
LEMMA RunOptionInv == IInv /\ RunOption => IInv'
<1> SUFFICES ASSUME IInv, RunOption PROVE IInv'
  OBVIOUS
<1> DEFINE o == Head(agenda)
           state == [v \in Vars |-> IF phis[v] = <<>> THEN Absent ELSE GetStartState(phis[v])]
           end == EndOption(Tail(o.ps), trail, state, o.start, o.ends)
           E == Entries(forks', ssa')
<1>1. /\ agenda # <<>> /\ o \in Items /\ o.do = "options"
      /\ o.ps \in Orders /\ o.start \in Versions /\ o.ends \in Seq(Versions)
  BY HeadItem, ItemFields DEF IInv, RunOption
<1>2. /\ UNCHANGED <<code, genVars, ctlVars, forks, panicked, visits>>
      /\ trail' = NoTrails
      /\ cur' = o.start
      /\ Do(<<Calls(Head(o.ps)), end>>)
  BY DEF RunOption
<1>3. trail' \in Trails /\ cur' \in Versions
  BY <1>1, <1>2 DEF NoTrails, NoTrail, Trails
<1>4. trail \in Trails /\ ssa \in [Vars -> Nat \cup {Absent}]
      /\ phis \in [Vars -> Seq(NonEmpty(Nat))]
  BY DEF IInv, TypeOK
<1>5. forks # <<>>
  <2>1. 1 \in DOMAIN agenda /\ agenda[1] = o
    BY <1>1 DEF IInv, TypeOK
  <2> QED BY <1>1, <2>1 DEF IInv, ForkOpen, InRun
<1>6. state \in [Vars -> Nat \cup {Absent}] /\ \A v \in Vars : state[v] <= ssa[v]
  <2> SUFFICES ASSUME NEW v \in Vars
               PROVE  state[v] \in Nat \cup {Absent} /\ state[v] <= ssa[v]
    OBVIOUS
  <2>1. phis[v] \in Seq(NonEmpty(0..ssa[v])) /\ ssa[v] \in Nat \cup {Absent}
    BY <1>4 DEF IInv, PhisHandedOut
  <2>2. CASE phis[v] = <<>>
    BY <2>1, <2>2 DEF Absent
  <2>3. CASE phis[v] # <<>>
    <3>1. ssa[v] \in Nat
      BY <2>1, <2>3, AbsentStack
    <3>2. 0 \in 0..ssa[v]
      BY <3>1
    <3>3. GetStartState(phis[v]) \in 0..ssa[v]
      BY <2>1, <3>2, StackReads
    <3> QED BY <2>3, <3>1, <3>3
  <2> QED BY <2>2, <2>3
<1>7. <<Calls(Head(o.ps)), end>> \in Seq(E)
  <2>1. Head(o.ps) \in NonEmpty(Funs) /\ Tail(o.ps) \in Seq(NonEmpty(Funs))
    BY <1>1 DEF Orders, NonEmpty
  <2>2. Calls(Head(o.ps)) \in E
    BY <2>1, EntriesMade
  <2>3. end \in Items
    BY <1>1, <1>4, <1>6, <2>1, ItemsMade
  <2>4. end.do = "endOption" /\ end.state = state
    BY DEF EndOption
  <2>5. forks' # <<>> /\ ssa' = ssa
    BY <1>2, <1>5 DEF genVars
  <2> HIDE DEF end, state
  <2>6. end \in E
    BY <1>6, <2>3, <2>4, <2>5 DEF Entries
  <2> HIDE DEF E
  <2> QED BY <2>2, <2>6
<1>8. agenda' \in Seq(Items) /\ ForkOpen' /\ VersionsContiguous' /\ PhisHandedOut'
  <2> HIDE DEF end, o
  <2> QED BY <1>1, <1>2, <1>7, ControlStep DEF genVars
<1>9. TypeOK' /\ CallsBounded'
  BY <1>2, <1>3, <1>8 DEF IInv, TypeOK, CallsBounded, genVars, ctlVars
<1> QED BY <1>8, <1>9 DEF IInv

\* One call of an option.
LEMMA RunCallInv == IInv /\ RunCall => IInv'
<1> SUFFICES ASSUME IInv, RunCall PROVE IInv'
  OBVIOUS
<1> DEFINE fs == Head(agenda).fs
           s == <<Function(Head(fs), 1), EndCall>>
                  \o IF Tail(fs) = <<>> THEN <<>> ELSE <<Calls(Tail(fs))>>
           E == Entries(forks', ssa')
<1>1. agenda # <<>> /\ fs \in NonEmpty(Funs)
  BY HeadItem, ItemFields DEF IInv, RunCall
<1>2. /\ UNCHANGED <<code, genVars, returnVoid, callstack, grouping, ruleVars, panicked,
                 histVars>>
      /\ Do(s)
  BY DEF RunCall
<1>3. level' \in Nat /\ runStart' \in BOOLEAN
  BY DEF IInv, TypeOK, RunCall, Out
<1>4. s \in Seq(E)
  <2>1. Head(fs) \in Funs /\ Tail(fs) \in Seq(Funs)
    BY <1>1 DEF NonEmpty
  <2>2. Function(Head(fs), 1) \in E /\ EndCall \in E
    BY <2>1, EntriesMade
  <2>3. Tail(fs) # <<>> => Calls(Tail(fs)) \in E
    BY <2>1, EntriesMade DEF NonEmpty
  <2> HIDE DEF E, fs
  <2> QED BY <2>2, <2>3
<1>5. agenda' \in Seq(Items) /\ ForkOpen' /\ VersionsContiguous' /\ PhisHandedOut'
  <2> HIDE DEF s
  <2> QED BY <1>1, <1>2, <1>4, ControlStep DEF genVars, ruleVars
<1>6. TypeOK' /\ CallsBounded'
  BY <1>2, <1>3, <1>5 DEF IInv, TypeOK, CallsBounded, genVars, ruleVars, histVars
<1> QED BY <1>5, <1>6 DEF IInv

\* The end of a call of an option.
LEMMA EndRunCallInv == IInv /\ EndRunCall => IInv'
<1> SUFFICES ASSUME IInv, EndRunCall PROVE IInv'
  OBVIOUS
<1>1. agenda # <<>> /\ Do(<<>>) /\ <<>> \in Seq(Entries(forks', ssa'))
  BY DEF EndRunCall, At
<1>2. UNCHANGED <<code, genVars, returnVoid, runStart, callstack, grouping, ruleVars,
                 panicked, histVars>>
  BY DEF EndRunCall
<1>3. level' \in Nat
  BY DEF IInv, TypeOK, EndRunCall, In
<1>4. agenda' \in Seq(Items) /\ ForkOpen' /\ VersionsContiguous' /\ PhisHandedOut'
  BY <1>1, <1>2, ControlStep DEF genVars, ruleVars
<1>5. TypeOK' /\ CallsBounded'
  BY <1>2, <1>3, <1>4 DEF IInv, TypeOK, CallsBounded, genVars, ruleVars, histVars
<1> QED BY <1>4, <1>5 DEF IInv

\* LoadState pushes the saved start states, buildForkChoice extends the fork.
LEMMA EndRunOptionInv == IInv /\ EndRunOption => IInv'
<1> SUFFICES ASSUME IInv, EndRunOption PROVE IInv'
  OBVIOUS
<1> DEFINE o == Head(agenda)
           ends == Append(o.ends, cur)
           E == Entries(forks', ssa')
<1>1. /\ agenda # <<>> /\ o \in Items /\ o.do = "endOption"
      /\ o.ps \in Seq(NonEmpty(Funs)) /\ o.outer \in Trails
      /\ o.state \in [Vars -> Nat \cup {Absent}]
      /\ o.start \in Versions /\ o.ends \in Seq(Versions)
  BY HeadItem, ItemFields DEF IInv, EndRunOption
<1>2. /\ UNCHANGED <<code, ssa, declared, rounds, results, ctlVars, panicked, cur, visits>>
      /\ forks' = [forks EXCEPT ![Len(forks)] =
            [v \in Vars |-> forks[Len(forks)][v] \o Choice(trail[v], "option")]]
      /\ phis' = [v \in Vars |->
            IF o.state[v] = Absent THEN phis[v] ELSE NewPhi(phis[v], o.state[v])]
      /\ trail' = Joined(o.outer, trail)
      /\ Do(IF o.ps = <<>> THEN <<CapParallel(ends)>> ELSE <<Options(o.ps, o.start, ends)>>)
  BY DEF EndRunOption
<1>3. /\ trail \in Trails /\ ssa \in [Vars -> Nat \cup {Absent}] /\ cur \in Versions
      /\ phis \in [Vars -> Seq(NonEmpty(Nat))] /\ forks \in Seq(ForkType)
  BY DEF IInv, TypeOK, ForkType
<1>4. 1 \in DOMAIN agenda /\ agenda[1] = o
  BY <1>1 DEF IInv, TypeOK
<1>5. forks # <<>>
  BY <1>1, <1>4 DEF IInv, ForkOpen, InRun
<1>6. forks' \in Seq(ForkType) /\ forks' # <<>>
  <2> DEFINE fork == [v \in Vars |-> forks[Len(forks)][v] \o Choice(trail[v], "option")]
  <2>1. Len(forks) \in 1..Len(forks) /\ forks[Len(forks)] \in ForkType
    BY <1>3, <1>5
  <2>2. fork \in ForkType
    <3>1. ASSUME NEW v \in Vars PROVE fork[v] \in Seq(ForkChoices)
      <4>1. Choice(trail[v], "option") \in Seq(ForkChoices)
        BY <1>3, ChoiceMade
      <4>2. forks[Len(forks)][v] \in Seq(ForkChoices)
        BY <2>1 DEF ForkType
      <4>3. fork[v] = forks[Len(forks)][v] \o Choice(trail[v], "option")
        OBVIOUS
      <4>4. \A s, t \in Seq(ForkChoices) : s \o t \in Seq(ForkChoices)
        OBVIOUS
      <4> QED BY <4>1, <4>2, <4>3, <4>4
    <3> QED BY <3>1 DEF ForkType
  <2>3. forks' = [forks EXCEPT ![Len(forks)] = fork]
    BY <1>2
  <2> HIDE DEF fork
  <2> QED BY <1>3, <1>5, <2>1, <2>2, <2>3
<1>7. \A v \in Vars : phis'[v] \in Seq(NonEmpty(Nat)) /\ phis'[v] \in Seq(NonEmpty(0..ssa'[v]))
  <2> SUFFICES ASSUME NEW v \in Vars
               PROVE  phis'[v] \in Seq(NonEmpty(Nat)) /\ phis'[v] \in Seq(NonEmpty(0..ssa'[v]))
    OBVIOUS
  <2>1. phis[v] \in Seq(NonEmpty(Nat)) /\ phis[v] \in Seq(NonEmpty(0..ssa[v])) /\ ssa'[v] = ssa[v]
    BY <1>2, <1>3 DEF IInv, PhisHandedOut
  <2>2. CASE o.state[v] = Absent
    BY <1>2, <2>1, <2>2
  <2>3. CASE o.state[v] # Absent
    <3>1. phis'[v] = NewPhi(phis[v], o.state[v]) /\ o.state[v] \in Nat /\ 0 \in Nat
      BY <1>1, <1>2, <2>3
    <3>2. o.state[v] <= ssa[v] /\ ssa[v] \in Nat \cup {Absent}
      BY <1>1, <1>3, <1>4 DEF IInv, PhisHandedOut
    <3>3. o.state[v] \in 0..ssa[v] /\ 0 \in 0..ssa[v]
      BY <3>1, <3>2 DEF Absent
    <3> QED BY <2>1, <3>1, <3>3, StackWrites
  <2> QED BY <2>2, <2>3
<1>8. phis' \in [Vars -> Seq(NonEmpty(Nat))]
  BY <1>2, <1>7
<1>9. trail' \in Trails
  BY <1>1, <1>2, <1>3, TrailsJoined DEF Joined, Trails
<1>10. ssa' \in [Vars -> Nat \cup {Absent}] /\ \A v \in Vars : ssa[v] <= ssa'[v]
  BY <1>2, SameNumbers
<1>11. PICK s \in Seq(E) : Do(s)
  <2>1. ends \in Seq(Versions)
    BY <1>1, <1>3
  <2>2. CASE o.ps = <<>>
    <3>1. CapParallel(ends) \in Items
      BY <2>1, ItemsMade
    <3>2. CapParallel(ends) \in E
      BY <1>6, <3>1 DEF Entries, CapParallel
    <3>3. Do(<<CapParallel(ends)>>)
      BY <1>2, <2>2
    <3>4. \A h \in E : <<h>> \in Seq(E)
      OBVIOUS
    <3> QED BY <3>2, <3>3, <3>4
  <2>3. CASE o.ps # <<>>
    <3>1. Options(o.ps, o.start, ends) \in Items
      BY <1>1, <2>1, <2>3, ItemsMade DEF Orders, NonEmpty
    <3>2. Options(o.ps, o.start, ends) \in E
      BY <1>6, <3>1 DEF Entries, Options
    <3>3. Do(<<Options(o.ps, o.start, ends)>>)
      BY <1>2, <2>3
    <3>4. \A h \in E : <<h>> \in Seq(E)
      OBVIOUS
    <3> QED BY <3>2, <3>3, <3>4
  <2> QED BY <2>2, <2>3
<1>12. /\ agenda' \in Seq(Items) /\ ForkOpen'
       /\ \A i \in DOMAIN agenda' : agenda'[i].do = "endOption" =>
              \A v \in Vars : agenda'[i].state[v] <= ssa'[v]
  BY <1>1, <1>6, <1>10, <1>11, AgendaKept
<1>13. VersionsContiguous'
  BY <1>2 DEF IInv, VersionsContiguous
<1>14. PhisHandedOut'
  BY <1>7, <1>12 DEF PhisHandedOut
<1>15. TypeOK' /\ CallsBounded'
  BY <1>2, <1>6, <1>8, <1>9, <1>12 DEF IInv, TypeOK, CallsBounded, ctlVars, ForkType
<1> QED BY <1>12, <1>13, <1>14, <1>15 DEF IInv

-----------------------------------------------------------------------------
(***************************************************************************)
(* The ends of conditionals and parallel runs.                             *)
(***************************************************************************)

\* Every variable in used gets its phi: capCond and capParallel declare the
\* versions they advance to.
LEMMA PhiNumbers ==
  ASSUME IInv, NEW used \in SUBSET Vars,
         ssa' = [v \in Vars |-> IF v \in used THEN AdvanceSSA(ssa[v]) ELSE ssa[v]],
         declared' = [v \in Vars |->
            IF v \in used THEN declared[v] \cup {AdvanceSSA(ssa[v])} ELSE declared[v]]
  PROVE  /\ ssa' \in [Vars -> Nat \cup {Absent}]
         /\ \A v \in Vars : ssa[v] <= ssa'[v] /\ AdvanceSSA(ssa[v]) \in Nat
         /\ declared' \in [Vars -> SUBSET Nat]
         /\ VersionsContiguous'
<1>1. ssa \in [Vars -> Nat \cup {Absent}] /\ declared \in [Vars -> SUBSET Nat]
  BY DEF IInv, TypeOK
<1>2. \A m \in Nat \cup {Absent} : AdvanceSSA(m) \in Nat /\ m <= AdvanceSSA(m) /\ m <= m
  BY DEF AdvanceSSA, Absent
<1>3. ssa' \in [Vars -> Nat \cup {Absent}] /\ declared' \in [Vars -> SUBSET Nat]
  BY <1>1, <1>2
<1>4. \A v \in Vars : ssa[v] <= ssa'[v] /\ AdvanceSSA(ssa[v]) \in Nat
  BY <1>1, <1>2
<1>5. ASSUME NEW v \in Vars PROVE declared'[v] \cup {0} = 0..GetSSA(ssa'[v])
  <2>1. declared[v] \cup {0} = 0..GetSSA(ssa[v]) /\ ssa[v] \in Nat \cup {Absent}
    BY <1>1 DEF IInv, VersionsContiguous
  <2>2. CASE v \in used
    <3> DEFINE id == AdvanceSSA(ssa[v])
    <3>1. declared'[v] = declared[v] \cup {id} /\ ssa'[v] = id
      BY <2>2
    <3>2. GetSSA(id) = id /\ 0..id = (0..GetSSA(ssa[v])) \cup {id}
      BY <2>1, Numbers
    <3> QED BY <2>1, <3>1, <3>2
  <2>3. CASE v \notin used
    BY <2>1, <2>3
  <2> QED BY <2>2, <2>3
<1> QED BY <1>3, <1>4, <1>5 DEF VersionsContiguous

\* The phis are recorded in the round in some order.
LEMMA PhiRounds ==
  ASSUME IInv, NEW used \in SUBSET Vars, NEW phi \in [Vars -> Nat],
         \E vs \in SetToSeqs(used) :
           rounds' = AddVarToRound(rounds, [i \in DOMAIN vs |-> <<vs[i], phi[vs[i]]>>])
  PROVE  rounds' \in Seq(Seq(Vars \X Nat))
<1>1. PICK vs \in SetToSeqs(used) :
        rounds' = AddVarToRound(rounds, [i \in DOMAIN vs |-> <<vs[i], phi[vs[i]]>>])
  OBVIOUS
<1>2. IsFiniteSet(used)
  BY ConstantsAssumption, FS_Subset
<1>3. Cardinality(used) \in Nat
  BY <1>2, FS_CardinalityType
<1>4. vs \in [1..Cardinality(used) -> used]
  BY DEF SetToSeqs
<1> DEFINE n == Cardinality(used)
           es == [i \in DOMAIN vs |-> <<vs[i], phi[vs[i]]>>]
<1> HIDE DEF n
<1>5. vs \in [1..n -> used] /\ n \in Nat
  BY <1>3, <1>4 DEF n
<1>6. es \in Seq(Vars \X Nat)
  <2>1. es = [i \in 1..n |-> <<vs[i], phi[vs[i]]>>]
    BY <1>5
  <2>2. \A i \in 1..n : <<vs[i], phi[vs[i]]>> \in Vars \X Nat
    BY <1>5
  <2>3. \A S : (\A i \in 1..n : <<vs[i], phi[vs[i]]>> \in S)
                 => [i \in 1..n |-> <<vs[i], phi[vs[i]]>>] \in Seq(S)
    BY <1>5
  <2> QED BY <2>1, <2>2, <2>3
<1>7. rounds \in Seq(Seq(Vars \X Nat))
  BY DEF IInv, TypeOK
<1> HIDE DEF es
<1> QED BY <1>1, <1>6, <1>7, RoundWrites DEF es

\* The stack of a variable that gets its phi n, on top of older versions.
LEMMA PhiStacks ==
  ASSUME NEW m \in Nat \cup {Absent}, NEW n \in Nat, m <= n,
         NEW p \in Seq(NonEmpty(Nat)), p \in Seq(NonEmpty(0..m))
  PROVE  \A S : S \in {Nat, 0..n} =>
           /\ p \in Seq(NonEmpty(S))
           /\ NewPhi(p, n) \in Seq(NonEmpty(S))
           /\ StoreLastState(p, n) \in Seq(NonEmpty(S))
           /\ PopPhi(p) \in Seq(NonEmpty(S))
           /\ PopPhi(NewPhi(p, n)) \in Seq(NonEmpty(S))
           /\ PopPhi(StoreLastState(p, n)) \in Seq(NonEmpty(S))
           /\ StoreLastState(PopPhi(p), n) \in Seq(NonEmpty(S))
           /\ StoreLastState(PopPhi(NewPhi(p, n)), n) \in Seq(NonEmpty(S))
           /\ StoreLastState(PopPhi(StoreLastState(p, n)), n) \in Seq(NonEmpty(S))
<1> SUFFICES ASSUME NEW S, S \in {Nat, 0..n}
             PROVE  /\ p \in Seq(NonEmpty(S))
                    /\ NewPhi(p, n) \in Seq(NonEmpty(S))
                    /\ StoreLastState(p, n) \in Seq(NonEmpty(S))
                    /\ PopPhi(p) \in Seq(NonEmpty(S))
                    /\ PopPhi(NewPhi(p, n)) \in Seq(NonEmpty(S))
                    /\ PopPhi(StoreLastState(p, n)) \in Seq(NonEmpty(S))
                    /\ StoreLastState(PopPhi(p), n) \in Seq(NonEmpty(S))
                    /\ StoreLastState(PopPhi(NewPhi(p, n)), n) \in Seq(NonEmpty(S))
                    /\ StoreLastState(PopPhi(StoreLastState(p, n)), n) \in Seq(NonEmpty(S))
  OBVIOUS
<1>1. 0 \in S /\ n \in S
  OBVIOUS
<1>2. p \in Seq(NonEmpty(S))
  <2>1. 0..m \subseteq 0..n
    BY DEF Absent
  <2>2. p \in Seq(NonEmpty(0..n))
    BY <2>1, StackWiden
  <2> QED BY <2>2
<1>3. \A q \in Seq(NonEmpty(S)) : /\ NewPhi(q, n) \in Seq(NonEmpty(S))
                                  /\ StoreLastState(q, n) \in Seq(NonEmpty(S))
                                  /\ PopPhi(q) \in Seq(NonEmpty(S))
  BY <1>1, StackWrites
<1> QED BY <1>2, <1>3

\* The phi of a parallel run.
LEMMA CapRunParallelInv == IInv /\ CapRunParallel => IInv'
<1> SUFFICES ASSUME IInv, CapRunParallel PROVE IInv'
  OBVIOUS
<1> DEFINE fork == Last(forks)
           used == ForkVars(fork)
           phi  == [v \in Vars |-> AdvanceSSA(ssa[v])]
<1>1. /\ agenda # <<>> /\ Head(agenda) \in Items /\ Head(agenda).do = "capParallel"
      /\ Do(<<>>) /\ <<>> \in Seq(Entries(forks', ssa'))
  BY HeadItem DEF IInv, CapRunParallel
<1>2. /\ UNCHANGED <<code, ctlVars, ruleVars, panicked, visits>>
      /\ ssa' = [v \in Vars |-> IF v \in used THEN phi[v] ELSE ssa[v]]
      /\ declared' = [v \in Vars |->
            IF v \in used THEN declared[v] \cup {phi[v]} ELSE declared[v]]
      /\ results' = [v \in Vars |->
            results[v] \o [i \in DOMAIN fork[v] |-> VarChange(phi[v], fork[v][i].end)]]
      /\ cur' = [v \in Vars |-> IF v \in used THEN phi[v] ELSE cur[v]]
  BY DEF CapRunParallel
<1>3. phis' = [v \in Vars |->
            CASE v \notin used -> phis[v]
              [] v \in used /\ level = 1 -> NewPhi(phis[v], phi[v])
              [] OTHER -> StoreLastState(phis[v], phi[v])]
  BY DEF CapRunParallel
<1>4. \E vs \in SetToSeqs(used) :
        rounds' = AddVarToRound(rounds, [i \in DOMAIN vs |-> <<vs[i], phi[vs[i]]>>])
  BY DEF CapRunParallel
<1>5. /\ ssa \in [Vars -> Nat \cup {Absent}] /\ cur \in [Vars -> Nat]
      /\ phis \in [Vars -> Seq(NonEmpty(Nat))] /\ forks \in Seq(ForkType)
      /\ results \in [Vars -> Seq(VarChanges)]
  BY DEF IInv, TypeOK, ForkType, Versions
<1>6. fork \in ForkType
  <2>1. 1 \in DOMAIN agenda /\ agenda[1] = Head(agenda)
    BY <1>1 DEF IInv, TypeOK
  <2>2. forks # <<>>
    BY <1>1, <2>1 DEF IInv, ForkOpen, InRun
  <2> QED BY <1>5, <2>2 DEF Last
<1>7. used \in SUBSET Vars
  BY DEF ForkVars
<1>8. /\ ssa' \in [Vars -> Nat \cup {Absent}]
      /\ \A v \in Vars : ssa[v] <= ssa'[v] /\ AdvanceSSA(ssa[v]) \in Nat
      /\ declared' \in [Vars -> SUBSET Nat]
      /\ VersionsContiguous'
  <2>1. /\ ssa' = [v \in Vars |-> IF v \in used THEN AdvanceSSA(ssa[v]) ELSE ssa[v]]
        /\ declared' = [v \in Vars |->
            IF v \in used THEN declared[v] \cup {AdvanceSSA(ssa[v])} ELSE declared[v]]
    BY <1>2
  <2> HIDE DEF used
  <2> QED BY <1>7, <2>1, PhiNumbers
<1>9. phi \in [Vars -> Nat] /\ cur' \in Versions
  BY <1>2, <1>5, <1>8 DEF Versions
<1>10. rounds' \in Seq(Seq(Vars \X Nat))
  <2> HIDE DEF used, phi
  <2> QED BY <1>4, <1>7, <1>9, PhiRounds
<1>11. results' \in [Vars -> Seq(VarChanges)]
  <2> SUFFICES ASSUME NEW v \in Vars PROVE results'[v] \in Seq(VarChanges)
    BY <1>2
  <2>1. fork[v] \in Seq(ForkChoices) /\ results[v] \in Seq(VarChanges) /\ phi[v] \in Nat
    BY <1>5, <1>6, <1>9 DEF ForkType
  <2> HIDE DEF fork, phi
  <2>2. [i \in DOMAIN fork[v] |-> VarChange(phi[v], fork[v][i].end)] \in Seq(VarChanges)
    BY <2>1, Changes
  <2>3. \A s, t \in Seq(VarChanges) : s \o t \in Seq(VarChanges)
    OBVIOUS
  <2> QED BY <1>2, <2>1, <2>2, <2>3
<1>12. \A v \in Vars : phis'[v] \in Seq(NonEmpty(Nat)) /\ phis'[v] \in Seq(NonEmpty(0..ssa'[v]))
  <2> SUFFICES ASSUME NEW v \in Vars
               PROVE  phis'[v] \in Seq(NonEmpty(Nat)) /\ phis'[v] \in Seq(NonEmpty(0..ssa'[v]))
    OBVIOUS
  <2>1. /\ phis[v] \in Seq(NonEmpty(Nat)) /\ phis[v] \in Seq(NonEmpty(0..ssa[v]))
        /\ ssa[v] \in Nat \cup {Absent}
    BY <1>5 DEF IInv, PhisHandedOut
  <2>2. CASE v \notin used
    <3>1. phis'[v] = phis[v] /\ ssa'[v] = ssa[v]
      BY <1>2, <1>3, <2>2
    <3> QED BY <2>1, <3>1
  <2>3. CASE v \in used
    <3>1. ssa'[v] = phi[v] /\ phi[v] \in Nat /\ ssa[v] <= phi[v]
      BY <1>2, <1>8, <1>9, <2>3
    <3>2. phis'[v] = NewPhi(phis[v], phi[v]) \/ phis'[v] = StoreLastState(phis[v], phi[v])
      BY <1>3, <2>3
    <3> DEFINE n == phi[v]
    <3> HIDE DEF phi
    <3>3. \A S : S \in {Nat, 0..n} => /\ NewPhi(phis[v], n) \in Seq(NonEmpty(S))
                                     /\ StoreLastState(phis[v], n) \in Seq(NonEmpty(S))
      BY <2>1, <3>1, PhiStacks
    <3>4. \A S : S \in {Nat, 0..n} => phis'[v] \in Seq(NonEmpty(S))
      BY <3>2, <3>3
    <3> QED BY <3>1, <3>4
  <2> QED BY <2>2, <2>3
<1>13. phis' \in [Vars -> Seq(NonEmpty(Nat))]
  BY <1>3, <1>12
<1>14. /\ agenda' \in Seq(Items) /\ ForkOpen'
       /\ \A i \in DOMAIN agenda' : agenda'[i].do = "endOption" =>
              \A v \in Vars : agenda'[i].state[v] <= ssa'[v]
  BY <1>1, <1>2, <1>8, AgendaKept DEF ruleVars
<1>15. PhisHandedOut'
  BY <1>12, <1>14 DEF PhisHandedOut
<1>16. TypeOK' /\ CallsBounded'
  BY <1>2, <1>8, <1>9, <1>10, <1>11, <1>13, <1>14
     DEF IInv, TypeOK, CallsBounded, ctlVars, ruleVars
<1> QED BY <1>8, <1>14, <1>15, <1>16 DEF IInv

\* The phi of a conditional.
LEMMA CapConditionalInv == IInv /\ CapConditional => IInv'
<1> SUFFICES ASSUME IInv, CapConditional PROVE IInv'
  OBVIOUS
<1> DEFINE c     == Head(agenda)
           fork  == CondFork(c.true)
           used  == ForkVars(fork)
           phi   == [v \in Vars |-> AdvanceSSA(ssa[v])]
           start == [v \in Vars |-> GetStartState(phis[v])]
           popped == [v \in Vars |-> SyncedPhis(v, fork, phi[v])]
           Ends(v) == [i \in 1..Len(fork[v]) |-> fork[v][i].end]
                        \o IF Len(fork[v]) = 1 THEN <<start[v]>> ELSE <<>>
<1>1. /\ agenda # <<>> /\ c \in Items
      /\ c.outer \in Trails /\ c.true \in Trails /\ c.end \in Versions
  BY HeadItem, ItemFields DEF IInv, CapConditional
<1>2. /\ ssa \in [Vars -> Nat \cup {Absent}] /\ cur \in [Vars -> Nat]
      /\ phis \in [Vars -> Seq(NonEmpty(Nat))] /\ forks \in Seq(ForkType)
      /\ results \in [Vars -> Seq(VarChanges)] /\ trail \in Trails /\ level \in Nat
  BY DEF IInv, TypeOK, ForkType, Versions
<1>3. /\ UNCHANGED <<code, ctlVars, visits>>
      /\ ssa' = [v \in Vars |-> IF v \in used THEN phi[v] ELSE ssa[v]]
      /\ declared' = [v \in Vars |->
            IF v \in used THEN declared[v] \cup {phi[v]} ELSE declared[v]]
      /\ cur' = [v \in Vars |-> IF v \in used THEN phi[v] ELSE cur[v]]
      /\ forks' = IF used = {} THEN forks ELSE NewFork(forks, In(level), fork)
  BY DEF CapConditional
<1>4. /\ results' = [v \in Vars |-> IF v \in used
            THEN results[v] \o [i \in DOMAIN Ends(v) |-> VarChange(phi[v], Ends(v)[i])]
            ELSE results[v]]
      /\ phis' = [v \in Vars |->
            IF v \in used THEN StoreLastState(popped[v], phi[v]) ELSE popped[v]]
  BY DEF CapConditional
<1>5. trail' = [v \in Vars |-> IF v \in used
            THEN AddChoiceValue(
                   AddChoiceValue(JoinTrails(c.outer[v], JoinTrails(c.true[v], trail[v])),
                                  phi[v]),
                   IF Len(fork[v]) = 1 THEN start[v] ELSE phi[v])
            ELSE c.outer[v]]
  BY DEF CapConditional
<1>6. /\ \E vs \in SetToSeqs(used) :
           rounds' = AddVarToRound(rounds, [i \in DOMAIN vs |-> <<vs[i], phi[vs[i]]>>])
      /\ panicked' \in BOOLEAN
      /\ agenda' = <<>> \/ agenda' = Tail(agenda)
  BY DEF CapConditional
<1>7. used \in SUBSET Vars
  BY DEF ForkVars
<1>8. /\ ssa' \in [Vars -> Nat \cup {Absent}]
      /\ \A v \in Vars : ssa[v] <= ssa'[v] /\ AdvanceSSA(ssa[v]) \in Nat
      /\ declared' \in [Vars -> SUBSET Nat]
      /\ VersionsContiguous'
  <2>1. /\ ssa' = [v \in Vars |-> IF v \in used THEN AdvanceSSA(ssa[v]) ELSE ssa[v]]
        /\ declared' = [v \in Vars |->
            IF v \in used THEN declared[v] \cup {AdvanceSSA(ssa[v])} ELSE declared[v]]
    BY <1>3
  <2> HIDE DEF used
  <2> QED BY <1>7, <2>1, PhiNumbers
<1>9. phi \in [Vars -> Nat] /\ cur' \in Versions
  BY <1>2, <1>3, <1>8 DEF Versions
<1>10. \A v \in Vars : start[v] \in Nat
  <2> SUFFICES ASSUME NEW v \in Vars PROVE start[v] \in Nat
    OBVIOUS
  <2>1. phis[v] \in Seq(NonEmpty(Nat)) /\ 0 \in Nat
    BY <1>2
  <2> QED BY <2>1, StackReads
<1>11. fork \in ForkType
  <2> SUFFICES ASSUME NEW v \in Vars
               PROVE  Choice(c.true[v], "true") \o Choice(trail[v], "false") \in Seq(ForkChoices)
    BY DEF CondFork, ForkType
  <2>1. Choice(c.true[v], "true") \in Seq(ForkChoices)
    BY <1>1, ChoiceMade
  <2>2. Choice(trail[v], "false") \in Seq(ForkChoices)
    BY <1>2, ChoiceMade
  <2>3. \A s, t \in Seq(ForkChoices) : s \o t \in Seq(ForkChoices)
    OBVIOUS
  <2> QED BY <2>1, <2>2, <2>3
<1>12. forks' \in Seq(ForkType) /\ (forks # <<>> => forks' # <<>>)
  <2>1. In(level) \in Nat
    BY <1>2 DEF In
  <2> HIDE DEF fork, used
  <2>2. NewFork(forks, In(level), fork) \in Seq(ForkType) /\ NewFork(forks, In(level), fork) # <<>>
    BY <1>2, <1>11, <2>1, ForkMade
  <2> QED BY <1>2, <1>3, <2>2
<1>13. rounds' \in Seq(Seq(Vars \X Nat))
  <2> HIDE DEF used, phi
  <2> QED BY <1>6, <1>7, <1>9, PhiRounds
<1>14. results' \in [Vars -> Seq(VarChanges)]
  <2> SUFFICES ASSUME NEW v \in Vars PROVE results'[v] \in Seq(VarChanges)
    BY <1>4
  <2>1. /\ fork[v] \in Seq(ForkChoices) /\ results[v] \in Seq(VarChanges)
        /\ phi[v] \in Nat /\ start[v] \in Nat
    BY <1>2, <1>9, <1>10, <1>11 DEF ForkType
  <2> HIDE DEF fork, phi, start
  <2>2. Ends(v) \in Seq(Nat)
    <3>1. [i \in 1..Len(fork[v]) |-> fork[v][i].end] \in Seq(Nat)
      <4>1. \A h \in ForkChoices : h.end \in Nat
        BY DEF ForkChoices
      <4>2. \A i \in 1..Len(fork[v]) : fork[v][i] \in ForkChoices
        BY <2>1
      <4>3. Len(fork[v]) \in Nat
        BY <2>1
      <4> QED BY <4>1, <4>2, <4>3
    <3>2. <<start[v]>> \in Seq(Nat)
      BY <2>1
    <3>3. \A s, t \in Seq(Nat) : s \o t \in Seq(Nat)
      OBVIOUS
    <3> QED BY <3>1, <3>2, <3>3
  <2> HIDE DEF Ends
  <2>3. [i \in DOMAIN Ends(v) |-> VarChange(phi[v], Ends(v)[i])] \in Seq(VarChanges)
    <3>1. DOMAIN Ends(v) = 1..Len(Ends(v)) /\ Len(Ends(v)) \in Nat
      BY <2>2
    <3>2. \A i \in 1..Len(Ends(v)) : Ends(v)[i] \in Nat
      BY <2>2
    <3>3. \A i \in 1..Len(Ends(v)) : VarChange(phi[v], Ends(v)[i]) \in VarChanges
      BY <2>1, <3>2, Parents
    <3> QED BY <3>1, <3>3
  <2>4. \A s, t \in Seq(VarChanges) : s \o t \in Seq(VarChanges)
    OBVIOUS
  <2> QED BY <1>4, <2>1, <2>3, <2>4
<1>15. \A v \in Vars : phis'[v] \in Seq(NonEmpty(Nat)) /\ phis'[v] \in Seq(NonEmpty(0..ssa'[v]))
  <2> SUFFICES ASSUME NEW v \in Vars
               PROVE  phis'[v] \in Seq(NonEmpty(Nat)) /\ phis'[v] \in Seq(NonEmpty(0..ssa'[v]))
    OBVIOUS
  <2>1. /\ phis[v] \in Seq(NonEmpty(Nat)) /\ phis[v] \in Seq(NonEmpty(0..ssa[v]))
        /\ ssa[v] \in Nat \cup {Absent}
    BY <1>2 DEF IInv, PhisHandedOut
  <2>2. CASE v \notin used
    <3>1. Len(fork[v]) # 1
      BY <2>2 DEF ForkVars
    <3>2. phis'[v] = PopPhi(phis[v]) /\ ssa'[v] = ssa[v]
      <4>1. ssa'[v] = ssa[v] /\ phis'[v] = SyncedPhis(v, fork, phi[v])
        BY <1>3, <1>4, <2>2
      <4> HIDE DEF fork, phi
      <4>2. SyncedPhis(v, fork, phi[v]) = PopPhi(phis[v])
        BY <3>1 DEF SyncedPhis
      <4> QED BY <4>1, <4>2
    <3>3. CASE ssa[v] = Absent
      BY <2>1, <3>2, <3>3, AbsentStack DEF PopPhi
    <3>4. CASE ssa[v] \in Nat
      <4>1. 0 \in 0..ssa[v] /\ 0 \in Nat
        BY <3>4
      <4>2. PopPhi(phis[v]) \in Seq(NonEmpty(0..ssa[v])) /\ PopPhi(phis[v]) \in Seq(NonEmpty(Nat))
        BY <2>1, <4>1, StackWrites
      <4> QED BY <3>2, <4>2
    <3> QED BY <2>1, <3>3, <3>4
  <2>3. CASE v \in used
    <3> DEFINE n == phi[v]
    <3>1. ssa'[v] = n /\ n \in Nat /\ ssa[v] <= n
      BY <1>3, <1>8, <1>9, <2>3
    <3>2. phis'[v] = StoreLastState(SyncedPhis(v, fork, n), n)
      BY <1>4, <2>3
    <3>3. \/ SyncedPhis(v, fork, n) = PopPhi(NewPhi(phis[v], n))
          \/ SyncedPhis(v, fork, n) = PopPhi(StoreLastState(phis[v], n))
          \/ SyncedPhis(v, fork, n) = PopPhi(phis[v])
      BY DEF SyncedPhis
    <3> HIDE DEF phi, fork
    <3>4. \A S : S \in {Nat, 0..n} =>
            /\ StoreLastState(PopPhi(phis[v]), n) \in Seq(NonEmpty(S))
            /\ StoreLastState(PopPhi(NewPhi(phis[v], n)), n) \in Seq(NonEmpty(S))
            /\ StoreLastState(PopPhi(StoreLastState(phis[v], n)), n) \in Seq(NonEmpty(S))
      BY <2>1, <3>1, PhiStacks
    <3>5. \A S : S \in {Nat, 0..n} => phis'[v] \in Seq(NonEmpty(S))
      BY <3>2, <3>3, <3>4
    <3> QED BY <3>1, <3>5
  <2> QED BY <2>2, <2>3
<1>16. phis' \in [Vars -> Seq(NonEmpty(Nat))]
  BY <1>4, <1>15
<1>17. trail' \in Trails
  <2> DEFINE T == [vals: SUBSET Nat, end: Nat]
  <2>1. \A v \in Vars : c.outer[v] \in T /\ c.true[v] \in T /\ trail[v] \in T
    BY <1>1, <1>2 DEF Trails
  <2>2. \A v \in Vars : (IF Len(fork[v]) = 1 THEN start[v] ELSE phi[v]) \in Nat /\ phi[v] \in Nat
    BY <1>9, <1>10
  <2>3. \A t, u \in T, n \in Nat : JoinTrails(t, u) \in T /\ AddChoiceValue(t, n) \in T
    BY TrailsJoined
  <2> HIDE DEF T, fork, phi, start, used
  <2>4. trail' \in [Vars -> T]
    BY <1>5, <2>1, <2>2, <2>3
  <2> QED BY <2>4 DEF Trails, T
<1>18. /\ agenda' \in Seq(Items) /\ ForkOpen'
       /\ \A i \in DOMAIN agenda' : agenda'[i].do = "endOption" =>
              \A v \in Vars : agenda'[i].state[v] <= ssa'[v]
  <2>1. CASE agenda' = <<>>
    BY <2>1 DEF ForkOpen
  <2>2. CASE agenda' = Tail(agenda)
    <3>1. Do(<<>>) /\ <<>> \in Seq(Entries(forks', ssa'))
      BY <1>1, <2>2 DEF Do, IInv, TypeOK
    <3> QED BY <1>1, <1>8, <1>12, <3>1, AgendaKept
  <2> QED BY <1>6, <2>1, <2>2
<1>19. PhisHandedOut'
  BY <1>15, <1>18 DEF PhisHandedOut
<1>20. TypeOK' /\ CallsBounded'
  BY <1>3, <1>6, <1>8, <1>9, <1>12, <1>13, <1>14, <1>16, <1>17, <1>18
     DEF IInv, TypeOK, CallsBounded, ctlVars, ForkType
<1> QED BY <1>8, <1>18, <1>19, <1>20 DEF IInv

-----------------------------------------------------------------------------
(***************************************************************************)
(* The theorems.                                                           *)
(***************************************************************************)

\* The walk starts in the invariant.
LEMMA InitInv == Init => IInv
<1> SUFFICES ASSUME Init PROVE IInv
  OBVIOUS
<1>1. code \in Modules
  BY ProgramsAssumption DEF Init
<1>2. agenda \in Seq(Entries(forks, ssa))
  <2> DEFINE gs == [i \in DOMAIN code.globals |-> Global(code.globals[i])]
             E == Entries(forks, ssa)
  <2>1. code.globals \in Seq(Vars)
    BY <1>1 DEF Modules
  <2>2. \A v \in Vars : Global(v) \in E
    BY EntriesMade
  <2> HIDE DEF E
  <2>3. gs \in Seq(E)
    <3>1. DOMAIN code.globals = 1..Len(code.globals) /\ Len(code.globals) \in Nat
      BY <2>1
    <3>2. \A i \in 1..Len(code.globals) : Global(code.globals[i]) \in E
      BY <2>1, <2>2
    <3> QED BY <3>1, <3>2
  <2>4. <<Function(Run, 1)>> \in Seq(E)
    <3>1. Function(Run, 1) \in E
      BY ConstantsAssumption, EntriesMade DEF E
    <3> QED BY <3>1
  <2>5. \A s, t \in Seq(E) : s \o t \in Seq(E)
    OBVIOUS
  <2>6. agenda = gs \o <<Function(Run, 1)>>
    BY DEF Init
  <2> QED BY <2>3, <2>4, <2>5, <2>6 DEF E
<1>3. agenda \in Seq(Items) /\ \A i \in DOMAIN agenda : agenda[i] \in Entries(forks, ssa)
  <2>1. Entries(forks, ssa) \subseteq Items
    BY DEF Entries
  <2>2. agenda \in Seq(Items)
    BY <1>2, <2>1
  <2> QED BY <1>2, <2>2
<1>4. ForkOpen
  BY <1>3 DEF ForkOpen, Entries
<1>5. VersionsContiguous
  BY DEF Init, VersionsContiguous, GetSSA, Absent
<1>6. PhisHandedOut
  BY <1>3 DEF Init, PhisHandedOut, Entries
<1>7. CallsBounded
  BY ConstantsAssumption DEF Init, CallsBounded
<1>8. TypeOK
  <2>1. trail \in Trails /\ cur \in Versions /\ visits \in [Blocks -> Nat]
    BY DEF Init, NoTrails, NoTrail, Trails, Versions
  <2>2. /\ ssa \in [Vars -> Nat \cup {Absent}] /\ declared \in [Vars -> SUBSET Nat]
        /\ level \in Nat /\ returnVoid \in Nat /\ grouping \in Groups \cup {NoGroup}
    BY DEF Init
  <2>3. phis \in [Vars -> Seq(NonEmpty(Nat))]
    BY DEF Init
  <2>4. results \in [Vars -> Seq(VarChanges)]
    BY DEF Init
  <2>5. callstack \in Seq(Funs)
    BY DEF Init
  <2>6. forks \in Seq(ForkType)
    BY DEF Init
  <2>7. \A S : rounds \in Seq(S)
    BY DEF Init
  <2>8. runStart \in BOOLEAN /\ panicked \in BOOLEAN
    BY DEF Init
  <2> QED BY <1>1, <1>3, <2>1, <2>2, <2>3, <2>4, <2>5, <2>6, <2>7, <2>8 DEF TypeOK, ForkType
<1> QED BY <1>4, <1>5, <1>6, <1>7, <1>8 DEF IInv

\* Every step keeps the invariant.
LEMMA NextInv == IInv /\ [Next]_vars => IInv'
<1> SUFFICES ASSUME IInv, [Next]_vars PROVE IInv'
  OBVIOUS
<1>1. CASE Step
  BY <1>1, ParseFunctionInv, ParseBlockInv, ParseTermInv, ParseElseInv, EndFalseInv,
     CapConditionalInv, StoreConstInv, StoreInfixInv, StoreCopyInv, ParseCmpInv,
     ParseBuiltInInv, ConstantRuleInv, StoreRoundInv, ParseCallInv, EndParseCallInv,
     ExecuteCallstackInv, RunOptionInv, RunCallInv, EndRunCallInv, EndRunOptionInv,
     CapRunParallelInv DEF Step
<1>2. CASE UNCHANGED vars
  BY <1>2 DEF IInv, TypeOK, CallsBounded, ForkOpen, VersionsContiguous, PhisHandedOut,
              vars, genVars, ctlVars, ruleVars, histVars
<1> QED BY <1>1, <1>2 DEF Next, Finished

\* The invariant holds in every reachable state.
THEOREM Inductive == Spec => []IInv
BY InitInv, NextInv, PTL DEF Spec

\* The generator keeps the types of its fields, whatever module it walks over.
THEOREM TypeCorrect == Spec => []TypeOK
<1>1. IInv => TypeOK
  BY DEF IInv
<1> QED BY <1>1, Inductive, PTL

\* Every version handed out is declared, and no other: for every module.
THEOREM Contiguous == Spec => []VersionsContiguous
<1>1. IInv => VersionsContiguous
  BY DEF IInv
<1> QED BY <1>1, Inductive, PTL

\* The Phis stacks, and the start states saved for parallel runs, hold only
\* versions that were handed out: for every module.
THEOREM HandedOut == Spec => []PhisHandedOut
<1>1. IInv => PhisHandedOut
  BY DEF IInv
<1> QED BY <1>1, Inductive, PTL

\* getCurrentFork has a fork to return while a parallel run is open.
THEOREM ForkIsOpen == Spec => []ForkOpen
<1>1. IInv => ForkOpen
  BY DEF IInv
<1> QED BY <1>1, Inductive, PTL

-----------------------------------------------------------------------------
(***************************************************************************)
(* Numbers grow.                                                           *)
(***************************************************************************)

\* What VersionsGrow says of a step.
Grows == \A v \in Vars : /\ ssa'[v] >= ssa[v]
                         /\ declared[v] \subseteq declared'[v]
                         /\ ssa'[v] > GetSSA(ssa[v]) => ssa'[v] \notin declared[v]

\* A number above the last one handed out is not declared yet.
LEMMA Fresh ==
  ASSUME IInv, ssa' \in [Vars -> Nat \cup {Absent}],
         \A v \in Vars : ssa[v] <= ssa'[v] /\ declared[v] \subseteq declared'[v]
  PROVE  Grows
<1> SUFFICES ASSUME NEW v \in Vars
             PROVE  ssa'[v] >= ssa[v] /\ (ssa'[v] > GetSSA(ssa[v]) => ssa'[v] \notin declared[v])
  BY DEF Grows
<1>1. /\ ssa[v] \in Nat \cup {Absent} /\ ssa'[v] \in Nat \cup {Absent} /\ ssa[v] <= ssa'[v]
      /\ GetSSA(ssa[v]) \in Nat
  BY Reads DEF IInv, TypeOK
<1>2. declared[v] \subseteq 0..GetSSA(ssa[v])
  BY DEF IInv, VersionsContiguous
<1>3. ssa'[v] >= ssa[v]
  BY <1>1 DEF Absent
<1>4. ASSUME ssa'[v] > GetSSA(ssa[v]) PROVE ssa'[v] \notin declared[v]
  <2>1. ssa'[v] \notin 0..GetSSA(ssa[v])
    BY <1>1, <1>4 DEF Absent
  <2> QED BY <1>2, <2>1
<1> QED BY <1>3, <1>4

\* A store hands out at most one number more.
LEMMA AssignGrows ==
  ASSUME IInv, NEW v \in Vars, NEW base \in [Vars -> Nat \cup {Absent}],
         \A w \in Vars : ssa[w] <= base[w], NEW num, NEW ts, Assign(v, base, num, ts)
  PROVE  Grows
<1>1. ssa' = [base EXCEPT ![v] = AdvanceSSA(base[v])]
      /\ declared' = [declared EXCEPT ![v] = declared[v] \cup {AdvanceSSA(base[v])}]
  BY DEF Assign
<1>2. ssa \in [Vars -> Nat \cup {Absent}] /\ declared \in [Vars -> SUBSET Nat]
  BY DEF IInv, TypeOK
<1>3. \A m \in Nat \cup {Absent} : AdvanceSSA(m) \in Nat /\ m <= AdvanceSSA(m)
  BY DEF AdvanceSSA, Absent
<1>4. \A a, b, d \in Nat \cup {Absent} : a <= b /\ b <= d => a <= d
  BY DEF Absent
<1>5. ssa' \in [Vars -> Nat \cup {Absent}]
  BY <1>1, <1>3
<1>6. \A w \in Vars : ssa[w] <= ssa'[w]
  <2> SUFFICES ASSUME NEW w \in Vars PROVE ssa[w] <= ssa'[w]
    OBVIOUS
  <2>1. ssa[w] <= base[w] /\ base[w] <= ssa'[w]
    <3>1. CASE w = v
      BY <1>1, <1>3, <3>1
    <3>2. CASE w # v
      <4>1. \A m \in Nat \cup {Absent} : m <= m
        BY DEF Absent
      <4> QED BY <1>1, <3>2, <4>1
    <3> QED BY <3>1, <3>2
  <2> QED BY <1>2, <1>4, <1>5, <2>1
<1>7. \A w \in Vars : declared[w] \subseteq declared'[w]
  BY <1>1, <1>2
<1> QED BY <1>5, <1>6, <1>7, Fresh

\* Every step lets the numbers grow.
LEMMA StepGrows == IInv /\ Step => Grows
<1> SUFFICES ASSUME IInv, Step PROVE Grows
  OBVIOUS
<1>1. CASE ssa' = ssa /\ declared' = declared
  BY <1>1, SameNumbers, Fresh
<1>2. ssa \in [Vars -> Nat \cup {Absent}] /\ \A w \in Vars : ssa[w] <= ssa[w]
  <2>1. \A m \in Nat \cup {Absent} : m <= m
    BY DEF Absent
  <2> QED BY <2>1 DEF IInv, TypeOK
<1>3. CASE StoreConst
  <2>1. Head(agenda).dst \in Vars
    BY <1>3, HeadItem, ItemFields DEF IInv, StoreConst
  <2>2. PICK num, ts : Assign(Head(agenda).dst, ssa, num, ts)
    BY <1>3 DEF StoreConst
  <2> QED BY <1>2, <2>1, <2>2, AssignGrows
<1>4. CASE StoreInfix
  <2>1. Head(agenda).dst \in Vars
    BY <1>4, HeadItem, ItemFields DEF IInv, StoreInfix
  <2>2. PICK S, num, ts : Assign(Head(agenda).dst, Registered(S), num, ts)
    BY <1>4 DEF StoreInfix
  <2>3. /\ Registered(S) \in [Vars -> Nat \cup {Absent}]
        /\ \A w \in Vars : ssa[w] <= Registered(S)[w]
    BY Reads
  <2> QED BY <2>1, <2>2, <2>3, AssignGrows
<1>5. CASE StoreCopy
  <2>1. Head(agenda).dst \in Vars
    BY <1>5, HeadItem, ItemFields DEF IInv, StoreCopy
  <2>2. PICK num, ts : Assign(Head(agenda).dst, ssa, num, ts)
    BY <1>5 DEF StoreCopy
  <2> QED BY <1>2, <2>1, <2>2, AssignGrows
<1>6. CASE ParseBuiltIn
  <2>1. CASE At("advance")
    <3>1. ssa' = ssa /\ declared' = declared
      BY <1>6, <2>1 DEF ParseBuiltIn, At, genVars
    <3> QED BY <1>1, <3>1
  <2>2. CASE At("state")
    <3>1. Head(agenda).dst \in Vars
      BY <2>2, HeadItem, ItemFields DEF IInv
    <3>2. PICK num, ts : Assign(Head(agenda).dst, ssa, num, ts)
      BY <1>6, <2>2 DEF ParseBuiltIn, At
    <3> QED BY <1>2, <3>1, <3>2, AssignGrows
  <2> QED BY <1>6, <2>1, <2>2 DEF ParseBuiltIn
<1>7. CASE ParseCmp
  <2>1. PICK met : ssa' = Registered(met)
    BY <1>7 DEF ParseCmp
  <2>2. ssa' \in [Vars -> Nat \cup {Absent}] /\ \A w \in Vars : ssa[w] <= ssa'[w]
    BY <2>1, Reads
  <2>3. declared' = declared
    BY <1>7 DEF ParseCmp
  <2> QED BY <2>2, <2>3, Fresh
<1>8. CASE ConstantRule \/ CapConditional \/ CapRunParallel
  <2>1. PICK used \in SUBSET Vars :
          /\ ssa' = [v \in Vars |-> IF v \in used THEN AdvanceSSA(ssa[v]) ELSE ssa[v]]
          /\ declared' = [v \in Vars |->
               IF v \in used THEN declared[v] \cup {AdvanceSSA(ssa[v])} ELSE declared[v]]
    <3>1. CASE ConstantRule
      <4> DEFINE u == {Head(agenda).v}
      <4>1. Head(agenda).v \in Vars
        BY <3>1, HeadItem, ItemFields DEF IInv, ConstantRule
      <4>2. declared \in [Vars -> SUBSET Nat]
        BY DEF IInv, TypeOK
      <4>3. /\ ssa' = [v \in Vars |-> IF v \in u THEN AdvanceSSA(ssa[v]) ELSE ssa[v]]
            /\ declared' = [v \in Vars |->
                 IF v \in u THEN declared[v] \cup {AdvanceSSA(ssa[v])} ELSE declared[v]]
        BY <1>2, <3>1, <4>1, <4>2 DEF ConstantRule
      <4> QED BY <4>1, <4>3
    <3>2. CASE CapConditional
      <4> DEFINE u == ForkVars(CondFork(Head(agenda).true))
      <4>1. u \in SUBSET Vars
        BY DEF ForkVars
      <4>2. /\ ssa' = [v \in Vars |-> IF v \in u THEN AdvanceSSA(ssa[v]) ELSE ssa[v]]
            /\ declared' = [v \in Vars |->
                 IF v \in u THEN declared[v] \cup {AdvanceSSA(ssa[v])} ELSE declared[v]]
        BY <3>2 DEF CapConditional
      <4> HIDE DEF u
      <4> QED BY <4>1, <4>2
    <3>3. CASE CapRunParallel
      <4> DEFINE u == ForkVars(Last(forks))
      <4>1. u \in SUBSET Vars
        BY DEF ForkVars
      <4>2. /\ ssa' = [v \in Vars |-> IF v \in u THEN AdvanceSSA(ssa[v]) ELSE ssa[v]]
            /\ declared' = [v \in Vars |->
                 IF v \in u THEN declared[v] \cup {AdvanceSSA(ssa[v])} ELSE declared[v]]
        BY <3>3 DEF CapRunParallel
      <4> HIDE DEF u
      <4> QED BY <4>1, <4>2
    <3> QED BY <1>8, <3>1, <3>2, <3>3
  <2>2. ssa' \in [Vars -> Nat \cup {Absent}] /\ \A v \in Vars : ssa[v] <= ssa'[v]
    BY <2>1, PhiNumbers
  <2>3. \A v \in Vars : declared[v] \subseteq declared'[v]
    BY <2>1
  <2> QED BY <2>2, <2>3, Fresh
<1>9. CASE \/ ParseFunction \/ ParseBlock \/ ParseTerm \/ ParseElse \/ EndFalse \/ StoreRound
           \/ ParseCall \/ EndParseCall \/ ExecuteCallstack \/ RunOption \/ RunCall
           \/ EndRunCall \/ EndRunOption
  <2>1. ssa' = ssa /\ declared' = declared
    BY <1>9 DEF ParseFunction, ParseBlock, ParseTerm, ParseElse, EndFalse, StoreRound,
                ParseCall, EndParseCall, ExecuteCallstack, RunOption, RunCall, EndRunCall,
                EndRunOption, genVars
  <2> QED BY <1>1, <2>1
<1> QED BY <1>3, <1>4, <1>5, <1>6, <1>7, <1>8, <1>9 DEF Step

\* Version numbers only grow and no version is declared twice, whatever the
\* nesting of conditionals and parallel runs.
THEOREM Growing == Spec => VersionsGrow
<1>1. IInv /\ [Next]_vars => [Grows]_vars
  BY StepGrows DEF Next, Finished
<1>2. VersionsGrow <=> [][Grows]_vars
  BY DEF VersionsGrow, Grows
<1> QED BY <1>1, <1>2, Inductive, PTL DEF Spec
=============================================================================
