-------------------------- MODULE SmtRoundsProofs --------------------------
(***************************************************************************)
(* What the generator records about versions: proofs of RoundsComplete,    *)
(* ResultsLeadBack and ReadsDeclared for every LLVM module that is         *)
(* Initialised and, for the last two, has NoCopies.  The last part proves  *)
(* of every LLVM module that no call is lost.                              *)
(*                                                                         *)
(* A store that is not of a literal to a variable without a number records *)
(* version 1 and declares version 0.  That it never happens is a statement *)
(* about the start of the walk, `Started': until a variable has its first  *)
(* version, only stores of literals come before the entry that gives it.   *)
(***************************************************************************)
EXTENDS SmtGeneratorProofs, SequenceTheorems

\* v has its first version.
Known(v) == ssa[v] # Absent /\ 0 \in declared[v]

\* Entry h of the agenda gives v its first version, in module p.
Gives(p, h, v) ==
  \/ h.do = "global" /\ h.v = v
  \/ h.do = "const" /\ h.dst = v
  \/ h.do = "function" /\ h.f = Run /\ h.i = 1 /\ StoredFirst(p, v)
  \/ h.do = "block" /\ h.b = FirstBlock(p) /\ StoredFirst(p, v)

\* Agenda a gives v its first version, after nothing but entries that do the
\* same for other variables, or open a round.
Early == {"global", "const", "round"}
Comes(p, a, v) ==
  \E i \in DOMAIN a : Gives(p, a[i], v) /\ \A j \in 1..(i - 1) : a[j].do \in Early

\* The first version of v is still to come.
Coming(v) ==
  /\ ssa[v] = Absent /\ declared[v] = {}
  /\ returnVoid = 0 /\ callstack = <<>>
  /\ Comes(code, agenda, v)

Started == \A v \in Vars : Known(v) \/ Coming(v)

\* Globals come first and only once.
GlobalsFirst ==
  \A i \in DOMAIN agenda : agenda[i].do = "global" =>
    /\ ssa[agenda[i].v] = Absent
    /\ \A j \in 1..(i - 1) : agenda[j].do = "global" /\ agenda[j].v # agenda[i].v

\* RoundVars, as a list of places, holds each declared version once.
RoundsHold(rs, ds) ==
  /\ \A i \in DOMAIN rs : \A j \in DOMAIN rs[i] : rs[i][j][2] \in ds[rs[i][j][1]]
  /\ \A v \in Vars : \A n \in ds[v] : \E i \in DOMAIN rs : \E j \in DOMAIN rs[i] : rs[i][j] = <<v, n>>
  /\ \A i, k \in DOMAIN rs : \A j \in DOMAIN rs[i], l \in DOMAIN rs[k] :
       rs[i][j] = rs[k][l] => i = k /\ j = l

RInv == Initialised(code) /\ Started /\ GlobalsFirst /\ RoundsHold(rounds, declared)

\* Of each variable, the numbers up to ns were handed out: the last version in a
\* list of rules, in the lists kept by a call that is open, and in a fork.
Reached(ns, ts) == \A v \in Vars : ts[v].end <= GetSSA(ns[v])
Kept(ns) ==
  {h \in Items : /\ h.do \in {"else", "capCond", "endOption"} => Reached(ns, h.outer)
                 /\ h.do = "capCond" => Reached(ns, h.true)
                 /\ h.do # "copy"}
UpTo(n) == {c \in ForkChoices : c.end <= n}
ForksUpTo(ns) == {fork \in ForkType : \A v \in Vars : fork[v] \in Seq(UpTo(GetSSA(ns[v])))}

EndsReached ==
  /\ Reached(ssa, trail)
  /\ \A i \in DOMAIN agenda : agenda[i] \in Kept(ssa)
  /\ forks \in Seq(ForksUpTo(ssa))

EInv == RInv /\ NoCopies(code) /\ EndsReached /\ ResultsLeadBack

-----------------------------------------------------------------------------
(***************************************************************************)
(* What a step puts on the agenda: which entry makes it (Origin), and      *)
(* where the lists of rules kept by the new entries come from.             *)
(***************************************************************************)
FromBlock == {"const", "infix", "copy", "cmp", "advance", "call"}
FromRun == {"calls", "endCall", "endOption", "capParallel"}
Runs == {"options", "calls", "endOption"}
Origin(h) ==
  /\ h.do \in FromBlock => /\ Head(agenda).do = "block"
                           /\ \E i \in DOMAIN code.insts[Head(agenda).b] :
                                h = code.insts[Head(agenda).b][i]
  /\ h.do = "state" => Head(agenda).do = "advance" /\ h.dst \in {Head(agenda).to, Head(agenda).from}
  /\ h.do = "called" => Head(agenda).do = "call"
  /\ h.do = "else" => /\ Head(agenda).do = "term" /\ code.term[Head(agenda).b].do = "cond"
                      /\ h.b = code.term[Head(agenda).b].f /\ h.start = cur
  /\ h.do = "endElse" => Head(agenda).do = "else" /\ Head(agenda).b # NoBlock
  /\ h.do = "options" => \/ Head(agenda).do = "endOption"
                         \/ Head(agenda).do = "flush" /\ Len(callstack) > 1
  /\ h.do \in FromRun => Head(agenda).do \in Runs

Made ==
  {h \in Items :
     /\ h.do # "global"
     /\ Origin(h)
     /\ h.do = "copy" => \E b \in Blocks : \E i \in DOMAIN code.insts[b] : h = code.insts[b][i]
     /\ h.do \in {"else", "endOption"} => h.outer = trail
     /\ h.do = "capCond" => /\ Head(agenda).do = "else"
                            /\ h.outer = Head(agenda).outer
                            /\ h.true = trail}

\* The entries without lists of rules.
LEMMA MadePlain ==
  /\ \A f \in Funs, k \in Nat \ {0} : Function(f, k) \in Made
  /\ \A b \in Blocks : Block(b) \in Made /\ Term(b) \in Made
  /\ Flush \in Made
  /\ [do |-> "round"] \in Made
BY ItemsMade DEF Made, Origin, FromBlock, FromRun, Function, Block, Term, Flush

LEMMA MadeEndElse ==
  ASSUME Head(agenda).do = "else", Head(agenda).b # NoBlock
  PROVE  EndElse \in Made
BY ItemsMade DEF Made, Origin, FromBlock, FromRun, EndElse

\* The entries of parallel runs.
LEMMA MadeRun ==
  ASSUME Head(agenda).do \in Runs
  PROVE  /\ EndCall \in Made
         /\ \A fs \in NonEmpty(Funs) : Calls(fs) \in Made
         /\ \A es \in Seq(Versions) : CapParallel(es) \in Made
BY ItemsMade DEF Made, Origin, FromBlock, FromRun, EndCall, Calls, CapParallel

LEMMA MadeOptions ==
  ASSUME Head(agenda).do = "endOption" \/ (Head(agenda).do = "flush" /\ Len(callstack) > 1)
  PROVE  \A ps \in Orders, c \in Versions, es \in Seq(Versions) : Options(ps, c, es) \in Made
BY ItemsMade DEF Made, Origin, FromBlock, FromRun, Options

LEMMA MadeState ==
  ASSUME Head(agenda).do = "advance", NEW v \in Vars, v \in {Head(agenda).to, Head(agenda).from}
  PROVE  State(v) \in Made
BY ItemsMade DEF Made, Origin, FromBlock, FromRun, State

LEMMA MadeCalled ==
  ASSUME Head(agenda).do = "call"
  PROVE  \A f \in Funs, m \in Groups \cup {NoGroup}, push \in BOOLEAN : Called(f, m, push) \in Made
BY ItemsMade DEF Made, Origin, FromBlock, FromRun, Called

\* The instructions of a block.
LEMMA MadeInsts ==
  ASSUME IInv, NEW b \in Blocks, Head(agenda).do = "block", Head(agenda).b = b,
         NEW i \in DOMAIN code.insts[b]
  PROVE  code.insts[b][i] \in Made
<1>1. code.insts[b][i] \in Insts
  BY DEF IInv, TypeOK, Modules
<1>2. \A h \in Insts : h.do \in FromBlock \cup {"round"}
  BY DEF Insts, FromBlock
<1>3. code.insts[b][i] \in Items
  BY <1>1, ItemsMade
<1>4. Origin(code.insts[b][i])
  BY <1>1, <1>2 DEF Origin, FromBlock, FromRun
<1> QED BY <1>1, <1>2, <1>3, <1>4 DEF Made, FromBlock

\* A step puts the entries s in front of the rest of the agenda.
Makes == \E s \in Seq(Made) : Do(s)

LEMMA FunctionMakes ==
  ASSUME IInv, ParseFunction PROVE Makes
<1> DEFINE f == Head(agenda).f
           i == Head(agenda).i
<1>1. agenda # <<>> /\ f \in Funs /\ i \in Nat \ {0} /\ code.order[f] \in Seq(Blocks)
  BY HeadItem, ItemFields DEF IInv, TypeOK, ParseFunction, Modules
<1>2. CASE i <= Len(code.order[f])
  <2>1. Block(code.order[f][i]) \in Made /\ Function(f, i + 1) \in Made
    BY <1>1, <1>2, MadePlain
  <2>2. BlockStep(f, i) \in Seq(Made)
    BY <2>1 DEF BlockStep
  <2>3. Do(BlockStep(f, i))
    BY <1>1, <1>2 DEF ParseFunction
  <2> QED BY <2>2, <2>3 DEF Makes
<1>3. CASE ~(i <= Len(code.order[f]))
  <2>1. Do(<<>>) /\ <<>> \in Seq(Made)
    BY <1>1, <1>3 DEF ParseFunction
  <2> QED BY <2>1 DEF Makes
<1> QED BY <1>2, <1>3

LEMMA BlockMakes ==
  ASSUME IInv, ParseBlock PROVE Makes
<1> DEFINE b == Head(agenda).b
<1>1. b \in Blocks /\ code.insts[b] \in Seq(Insts)
  BY HeadItem, ItemFields DEF IInv, TypeOK, ParseBlock, Modules
<1>0. Head(agenda).do = "block"
  BY DEF ParseBlock, At
<1>2. code.insts[b] \in Seq(Made)
  <2>1. Len(code.insts[b]) \in Nat /\ DOMAIN code.insts[b] = 1..Len(code.insts[b])
    BY <1>1
  <2>2. \A i \in 1..Len(code.insts[b]) : code.insts[b][i] \in Made
    BY <1>0, <1>1, <2>1, MadeInsts
  <2> QED BY <1>1, <2>1, <2>2
<1>3. <<Flush, Term(b)>> \in Seq(Made)
  BY <1>1, MadePlain
<1>4. BlockItems(b) \in Seq(Made)
  BY <1>2, <1>3 DEF BlockItems
<1>5. Do(BlockItems(b))
  BY DEF ParseBlock
<1> QED BY <1>4, <1>5 DEF Makes

LEMMA TermMakes ==
  ASSUME IInv, ParseTerm PROVE Makes
<1> DEFINE term == code.term[Head(agenda).b]
<1>1. term \in Terms /\ trail \in Trails /\ cur \in Versions
  BY HeadItem, ItemFields DEF IInv, TypeOK, ParseTerm, Modules
<1>2. CASE term.do # "cond"
  <2>1. Do(<<>>) /\ <<>> \in Seq(Made)
    BY <1>2 DEF ParseTerm
  <2> QED BY <2>1 DEF Makes
<1>3. CASE term.do = "cond"
  <2> DEFINE a == IF term.a = NoBlock THEN <<>> ELSE <<Block(term.a), Flush>>
             e == Else(term.f, trail, cur)
             s == <<Block(term.t), Flush, e>> \o a
  <2>1. Do(s)
    BY <1>3 DEF ParseTerm
  <2>2. term.t \in Blocks /\ term.f \in Blocks \cup {NoBlock} /\ term.a \in Blocks \cup {NoBlock}
    BY <1>1, <1>3 DEF Terms
  <2>3. e \in Made
    <3>1. e \in Items
      BY <1>1, <2>2, ItemsMade
    <3>2. e.do = "else" /\ e.outer = trail /\ e.start = cur /\ e.b = code.term[Head(agenda).b].f
      BY DEF Else
    <3>3. Origin(e)
      BY <1>3, <3>2 DEF Origin, FromBlock, FromRun, ParseTerm, At
    <3> QED BY <3>1, <3>2, <3>3 DEF Made
  <2>4. Block(term.t) \in Made /\ Flush \in Made /\ (term.a # NoBlock => Block(term.a) \in Made)
    BY <2>2, MadePlain
  <2> HIDE DEF e
  <2>5. s \in Seq(Made)
    <3>1. <<Block(term.t), Flush, e>> \in Seq(Made) /\ a \in Seq(Made)
      BY <2>3, <2>4
    <3> QED BY <3>1, ConcatProperties
  <2> QED BY <2>1, <2>5 DEF Makes, e
<1> QED BY <1>2, <1>3

LEMMA ElseMakes ==
  ASSUME IInv, ParseElse PROVE Makes
<1> DEFINE e == Head(agenda)
           cap == CapCond(e.outer, trail, cur)
<1>1. e.do = "else" /\ e.b \in Blocks \cup {NoBlock} /\ e.outer \in Trails
  BY HeadItem, ItemFields DEF IInv, ParseElse
<1>2. trail \in Trails /\ cur \in Versions
  BY DEF IInv, TypeOK
<1>3. cap \in Made
  <2>1. cap \in Items
    BY <1>1, <1>2, ItemsMade
  <2>2. cap.do = "capCond" /\ cap.outer = e.outer /\ cap.true = trail
    BY DEF CapCond
  <2>3. Origin(cap)
    BY <2>2 DEF Origin, FromBlock, FromRun
  <2> QED BY <1>1, <2>1, <2>2, <2>3 DEF Made
<1>4. Do(<<cap>>) \/ (e.b # NoBlock /\ Do(<<Block(e.b), EndElse, cap>>))
  BY DEF ParseElse
<1>5. e.b # NoBlock => Block(e.b) \in Made
  BY <1>1, MadePlain
<1>6. e.b # NoBlock => EndElse \in Made
  BY <1>1, MadeEndElse
<1> HIDE DEF cap
<1>7. <<cap>> \in Seq(Made) /\ (e.b # NoBlock => <<Block(e.b), EndElse, cap>> \in Seq(Made))
  BY <1>3, <1>5, <1>6
<1> QED BY <1>4, <1>7 DEF Makes

LEMMA CallMakes ==
  ASSUME IInv, ParseCall PROVE Makes
<1> DEFINE f == Head(agenda).f
           m == Head(agenda).m
           c == Called(f, m, TRUE)
           d == Called(f, m, FALSE)
<1>1. f \in Funs /\ m \in Groups \cup {NoGroup}
  BY HeadItem, ItemFields DEF IInv, ParseCall
<1>2. c \in Made /\ d \in Made
  <2>1. TRUE \in BOOLEAN /\ FALSE \in BOOLEAN
    OBVIOUS
  <2>2. Head(agenda).do = "call"
    BY DEF ParseCall, At
  <2> QED BY <1>1, <2>1, <2>2, MadeCalled
<1>3. Flush \in Made /\ Function(f, 1) \in Made
  BY <1>1, MadePlain
<1>4. Do(<<c>>) \/ Do(<<Flush, Function(f, 1), d>>) \/ Do(<<Flush, c>>)
  BY DEF ParseCall
<1> HIDE DEF c, d
<1>5. /\ <<c>> \in Seq(Made) /\ <<Flush, Function(f, 1), d>> \in Seq(Made)
      /\ <<Flush, c>> \in Seq(Made)
  BY <1>2, <1>3
<1> QED BY <1>4, <1>5 DEF Makes

LEMMA FlushMakes ==
  ASSUME IInv, ExecuteCallstack PROVE Makes
<1>1. callstack \in Seq(Funs) /\ Len(callstack) <= MaxParallel /\ cur \in Versions
  BY DEF IInv, TypeOK, CallsBounded
<1>2. CASE callstack = <<>>
  <2>1. Len(<<>>) = 0 /\ ~(0 > 1) /\ 0 # 1
    OBVIOUS
  <2>2. Do(<<>>) /\ <<>> \in Seq(Made)
    BY <1>2, <2>1 DEF ExecuteCallstack
  <2> QED BY <2>2 DEF Makes
<1>3. CASE callstack # <<>> /\ Len(callstack) = 1
  <2>1. callstack[1] \in Funs /\ ~(1 > 1)
    BY <1>1, <1>3
  <2>2. Do(<<Function(callstack[1], 1)>>)
    BY <1>3, <2>1 DEF ExecuteCallstack
  <2>3. <<Function(callstack[1], 1)>> \in Seq(Made)
    BY <2>1, MadePlain
  <2> QED BY <2>2, <2>3 DEF Makes
<1>4. CASE callstack # <<>> /\ Len(callstack) # 1
  <2> DEFINE o == Options(ParallelPermutations(callstack), cur, <<>>)
  <2>1. Do(<<o>>)
    BY <1>4 DEF ExecuteCallstack
  <2>2. Len(callstack) \in 2..3
    <3> DEFINE n == Len(callstack)
    <3>1. n \in Nat /\ n <= MaxParallel /\ MaxParallel \in 1..3 /\ n # 0 /\ n # 1
      BY <1>1, <1>4, ConstantsAssumption, EmptySeq
    <3> HIDE DEF n
    <3>2. n \in 2..3
      BY <3>1
    <3> QED BY <3>2 DEF n
  <2>3. ParallelPermutations(callstack) \in Orders
    BY <1>1, <2>2, OrdersMade
  <2>4. o \in Made
    <3>1. <<>> \in Seq(Versions)
      OBVIOUS
    <3>2. Head(agenda).do = "flush"
      BY DEF ExecuteCallstack, At
    <3>3. \A n \in 2..3 : n > 1
      OBVIOUS
    <3>4. Len(callstack) > 1
      BY <2>2, <3>3
    <3> QED BY <1>1, <2>3, <3>1, <3>2, <3>4, MadeOptions
  <2>5. <<o>> \in Seq(Made)
    BY <2>4
  <2> QED BY <2>1, <2>5 DEF Makes
<1> QED BY <1>2, <1>3, <1>4

LEMMA OptionMakes ==
  ASSUME IInv, RunOption PROVE Makes
<1> DEFINE o == Head(agenda)
           state == [v \in Vars |-> IF phis[v] = <<>> THEN Absent ELSE GetStartState(phis[v])]
           c == Calls(Head(o.ps))
           d == EndOption(Tail(o.ps), trail, state, o.start, o.ends)
<1>1. o.ps \in Orders /\ o.start \in Versions /\ o.ends \in Seq(Versions) /\ trail \in Trails
  BY HeadItem, ItemFields DEF IInv, TypeOK, RunOption
<1>2. Head(o.ps) \in NonEmpty(Funs) /\ Tail(o.ps) \in Seq(NonEmpty(Funs))
  <2>1. o.ps \in Seq(NonEmpty(Funs)) /\ o.ps # <<>>
    BY <1>1 DEF Orders, NonEmpty
  <2> QED BY <2>1
<1>3. state \in [Vars -> Nat \cup {Absent}]
  <2>1. \A v \in Vars : phis[v] \in Seq(NonEmpty(Nat)) /\ 0 \in Nat
    BY DEF IInv, TypeOK
  <2>2. \A v \in Vars : GetStartState(phis[v]) \in Nat
    BY <2>1, StackReads
  <2> QED BY <2>2
<1> HIDE DEF state
<1>0. Head(agenda).do = "options"
  BY DEF RunOption, At
<1>4. c \in Made
  BY <1>0, <1>2, MadeRun DEF Runs
<1>5. d \in Made
  <2>1. d \in Items
    BY <1>1, <1>2, <1>3, ItemsMade
  <2>2. d.do = "endOption" /\ d.outer = trail
    BY DEF EndOption
  <2>3. Origin(d)
    BY <1>0, <2>2 DEF Origin, FromBlock, FromRun, Runs
  <2> QED BY <2>1, <2>2, <2>3 DEF Made
<1>6. Do(<<c, d>>)
  BY DEF RunOption, state
<1> HIDE DEF c, d
<1>7. <<c, d>> \in Seq(Made)
  BY <1>4, <1>5
<1> QED BY <1>6, <1>7 DEF Makes

LEMMA RunCallMakes ==
  ASSUME IInv, RunCall PROVE Makes
<1> DEFINE fs == Head(agenda).fs
           t == IF Tail(fs) = <<>> THEN <<>> ELSE <<Calls(Tail(fs))>>
<1>1. fs \in Seq(Funs) /\ fs # <<>>
  BY HeadItem, ItemFields DEF IInv, RunCall, NonEmpty
<1>2. Head(fs) \in Funs /\ Tail(fs) \in Seq(Funs)
  BY <1>1
<1>0. Head(agenda).do \in Runs
  BY DEF RunCall, At, Runs
<1>3. Tail(fs) # <<>> => Calls(Tail(fs)) \in Made
  BY <1>0, <1>2, MadeRun DEF NonEmpty
<1>4. t \in Seq(Made)
  BY <1>3
<1>5. Function(Head(fs), 1) \in Made /\ EndCall \in Made
  BY <1>0, <1>2, MadePlain, MadeRun
<1>6. <<Function(Head(fs), 1), EndCall>> \in Seq(Made)
  BY <1>5
<1>7. Do(<<Function(Head(fs), 1), EndCall>> \o t)
  BY DEF RunCall
<1> HIDE DEF t
<1>8. <<Function(Head(fs), 1), EndCall>> \o t \in Seq(Made)
  BY <1>4, <1>6, ConcatProperties
<1> QED BY <1>7, <1>8 DEF Makes

LEMMA EndOptionMakes ==
  ASSUME IInv, EndRunOption PROVE Makes
<1> DEFINE o == Head(agenda)
           ends == Append(o.ends, cur)
<1>1. o.ps \in Seq(NonEmpty(Funs)) /\ o.start \in Versions /\ o.ends \in Seq(Versions)
  BY HeadItem, ItemFields DEF IInv, EndRunOption
<1>2. ends \in Seq(Versions)
  BY <1>1 DEF IInv, TypeOK
<1>0. Head(agenda).do = "endOption"
  BY DEF EndRunOption, At
<1>3. CASE o.ps = <<>>
  <2>1. CapParallel(ends) \in Made
    BY <1>0, <1>2, MadeRun DEF Runs
  <2>2. Do(<<CapParallel(ends)>>) /\ <<CapParallel(ends)>> \in Seq(Made)
    BY <1>3, <2>1 DEF EndRunOption
  <2> QED BY <2>2 DEF Makes
<1>4. CASE o.ps # <<>>
  <2> DEFINE n == Options(o.ps, o.start, ends)
  <2>1. o.ps \in Orders
    BY <1>1, <1>4 DEF Orders, NonEmpty
  <2>2. n \in Made
    BY <1>0, <1>1, <1>2, <2>1, MadeOptions
  <2>3. Do(<<n>>) /\ <<n>> \in Seq(Made)
    BY <1>4, <2>2 DEF EndRunOption
  <2> QED BY <2>3 DEF Makes
<1> QED BY <1>3, <1>4

LEMMA InstMakes ==
  ASSUME IInv,
         \/ EndFalse \/ StoreConst \/ StoreInfix \/ StoreCopy \/ ParseCmp \/ ParseBuiltIn
         \/ ConstantRule \/ StoreRound \/ EndParseCall \/ EndRunCall \/ CapRunParallel
  PROVE  Makes
<1>1. CASE Do(<<>>)
  <2>1. <<>> \in Seq(Made)
    OBVIOUS
  <2> QED BY <1>1, <2>1 DEF Makes
<1>2. CASE ParseBuiltIn /\ At("advance")
  <2> DEFINE s == <<State(Head(agenda).to), State(Head(agenda).from)>>
  <2>1. Head(agenda).to \in Vars /\ Head(agenda).from \in Vars
    BY <1>2, HeadItem, ItemFields DEF IInv
  <2>2. State(Head(agenda).to) \in Made /\ State(Head(agenda).from) \in Made
    BY <1>2, <2>1, MadeState DEF At
  <2>3. s \in Seq(Made)
    BY <2>2
  <2>4. Do(s)
    BY <1>2 DEF ParseBuiltIn, At
  <2> QED BY <2>3, <2>4 DEF Makes
<1>3. CASE StoreRound
  <2> DEFINE s == <<Flush, [do |-> "round"]>>
  <2>1. Do(<<>>) \/ Do(s)
    BY <1>3 DEF StoreRound
  <2>2. Flush \in Made /\ [do |-> "round"] \in Made
    BY MadePlain
  <2>3. s \in Seq(Made)
    BY <2>2
  <2> QED BY <1>1, <2>1, <2>3 DEF Makes
<1>4. Do(<<>>) \/ StoreRound \/ (ParseBuiltIn /\ At("advance"))
  BY DEF EndFalse, StoreConst, StoreInfix, StoreCopy, ParseCmp, ParseBuiltIn, ConstantRule,
         EndParseCall, EndRunCall, CapRunParallel
<1> QED BY <1>1, <1>2, <1>3, <1>4

\* Every step takes the head off the agenda and puts made entries in front; the
\* panic in CapConditional drops the whole agenda.
LEMMA StepMakes ==
  ASSUME IInv, Step
  PROVE  agenda # <<>> /\ (Makes \/ agenda' = <<>>) /\ (~CapConditional => Makes)
<1>1. agenda # <<>>
  BY DEF Step, ParseFunction, ParseBlock, ParseTerm, ParseElse, EndFalse, CapConditional,
         StoreConst, StoreInfix, StoreCopy, ParseCmp, ParseBuiltIn, ConstantRule, StoreRound,
         ParseCall, EndParseCall, ExecuteCallstack, RunOption, RunCall, EndRunCall,
         EndRunOption, CapRunParallel, At
<1>2. CASE CapConditional
  <2>1. agenda' = <<>> \/ agenda' = Tail(agenda)
    BY <1>2 DEF CapConditional
  <2>2. agenda \in Seq(Items) /\ <<>> \in Seq(Made)
    BY DEF IInv, TypeOK
  <2>3. Tail(agenda) = <<>> \o Tail(agenda)
    BY <1>1, <2>2
  <2> QED BY <1>1, <1>2, <2>1, <2>2, <2>3 DEF Makes, Do
<1> QED BY <1>1, <1>2, FunctionMakes, BlockMakes, TermMakes, ElseMakes, CallMakes, FlushMakes,
          OptionMakes, RunCallMakes, EndOptionMakes, InstMakes DEF Step

-----------------------------------------------------------------------------
(***************************************************************************)
(* The start of the walk.                                                  *)
(***************************************************************************)

\* No step changes the LLVM module.
LEMMA CodeKept == Step => code' = code
BY DEF Step, ParseFunction, ParseBlock, ParseTerm, ParseElse, EndFalse, CapConditional,
       StoreConst, StoreInfix, StoreCopy, ParseCmp, ParseBuiltIn, ConstantRule, StoreRound,
       ParseCall, EndParseCall, ExecuteCallstack, RunOption, RunCall, EndRunCall,
       EndRunOption, CapRunParallel

\* The head of the agenda says which action a step is.
LEMMA HeadActs ==
  ASSUME Step, agenda # <<>>
  PROVE  /\ Head(agenda).do = "global" => ConstantRule
         /\ Head(agenda).do = "const" => StoreConst
         /\ Head(agenda).do = "round" => StoreRound
         /\ Head(agenda).do = "function" => ParseFunction
         /\ Head(agenda).do = "block" => ParseBlock
BY DEF Step, ParseFunction, ParseBlock, ParseTerm, ParseElse, EndFalse, CapConditional,
       StoreConst, StoreInfix, StoreCopy, ParseCmp, ParseBuiltIn, ConstantRule, StoreRound,
       ParseCall, EndParseCall, ExecuteCallstack, RunOption, RunCall, EndRunCall,
       EndRunOption, CapRunParallel, At

\* A first version is kept.
LEMMA KnownKept ==
  ASSUME IInv, Step, NEW v \in Vars, Known(v)
  PROVE  Known(v)'
<1>1. ssa'[v] >= ssa[v] /\ declared[v] \subseteq declared'[v]
  BY StepGrows DEF Grows
<1>2. IInv'
  BY NextInv DEF Next
<1>3. ssa[v] \in Nat \cup {Absent} /\ ssa'[v] \in Nat \cup {Absent}
  BY <1>2 DEF IInv, TypeOK
<1>4. ssa[v] # Absent /\ 0 \in declared[v]
  BY DEF Known
<1>5. ssa'[v] # Absent
  BY <1>1, <1>3, <1>4 DEF Absent
<1>6. 0 \in declared'[v]
  BY <1>1, <1>4
<1> QED BY <1>5, <1>6 DEF Known

\* Where the first version of v is still to come, the head of the agenda gives
\* it or is early.
LEMMA StillComing ==
  ASSUME IInv, agenda # <<>>, NEW v \in Vars, Coming(v)
  PROVE  Gives(code, Head(agenda), v) \/ Head(agenda).do \in Early
<1>1. PICK i \in DOMAIN agenda : /\ Gives(code, agenda[i], v)
                                 /\ \A j \in 1..(i - 1) : agenda[j].do \in Early
  BY DEF Coming, Comes
<1>2. agenda \in Seq(Items) /\ Head(agenda) = agenda[1] /\ i \in 1..Len(agenda)
  BY DEF IInv, TypeOK
<1>3. CASE i = 1
  BY <1>1, <1>2, <1>3
<1>4. CASE i # 1
  <2>1. 1 \in 1..(i - 1)
    BY <1>2, <1>4
  <2> QED BY <1>1, <1>2, <2>1
<1> QED BY <1>3, <1>4

\* Everything is known once anything else is executed.
LEMMA AllKnown ==
  ASSUME IInv, Started, agenda # <<>>,
         Head(agenda).do \notin Early \cup {"function", "block"}
  PROVE  \A v \in Vars : Known(v)
<1> SUFFICES ASSUME NEW v \in Vars, ~Known(v) PROVE FALSE
  OBVIOUS
<1>1. Coming(v)
  BY DEF Started
<1>2. Gives(code, Head(agenda), v) \/ Head(agenda).do \in Early
  BY <1>1, StillComing
<1> QED BY <1>2 DEF Gives, Early

\* An early entry for another variable is taken off the agenda.
LEMMA ComesLater ==
  ASSUME NEW p, NEW v, NEW a \in Seq(Items), a # <<>>, Comes(p, a, v), ~Gives(p, Head(a), v)
  PROVE  Comes(p, Tail(a), v)
<1>1. PICK i \in DOMAIN a : Gives(p, a[i], v) /\ \A j \in 1..(i - 1) : a[j].do \in Early
  BY DEF Comes
<1>2. PICK l \in Nat : l = Len(a)
  OBVIOUS
<1>3. Head(a) = a[1] /\ i \in 1..l
  BY <1>2
<1>4. i # 1
  BY <1>1, <1>3
<1>5. PICK k \in Int : k = i - 1
  BY <1>3
<1>6. /\ DOMAIN Tail(a) = 1..(l - 1)
      /\ \A j \in 1..(l - 1) : Tail(a)[j] = a[j + 1]
  BY <1>2
<1>7. k \in 1..(l - 1) /\ k + 1 = i
  BY <1>3, <1>4, <1>5
<1>8. \A j \in 1..(k - 1) : j \in 1..(l - 1) /\ j + 1 \in 1..(i - 1)
  BY <1>3, <1>7
<1>9. Gives(p, Tail(a)[k], v)
  BY <1>1, <1>6, <1>7
<1>10. \A j \in 1..(k - 1) : Tail(a)[j].do \in Early
  BY <1>1, <1>6, <1>8
<1> QED BY <1>6, <1>7, <1>9, <1>10 DEF Comes

\* The head of the agenda gives v its first version.
LEMMA ComesFirst ==
  ASSUME NEW p, NEW v, NEW a, 1 \in DOMAIN a, Gives(p, a[1], v)
  PROVE  Comes(p, a, v)
<1>1. \A j \in 1..(1 - 1) : a[j].do \in Early
  OBVIOUS
<1> QED BY <1>1 DEF Comes

\* The instructions of the first block give v its first version.
LEMMA ComesStored ==
  ASSUME NEW p \in Modules, p.order[Run] # <<>>, NEW v \in Vars, StoredFirst(p, v), NEW S,
         NEW r \in Seq(S)
  PROVE  Comes(p, p.insts[FirstBlock(p)] \o r, v)
<1> DEFINE s == p.insts[FirstBlock(p)]
<1>1. PICK i \in DOMAIN s : /\ s[i].do = "const" /\ s[i].dst = v
                            /\ \A j \in 1..(i - 1) : s[j].do \in {"const", "round"}
  BY DEF StoredFirst
<1>2. s \in Seq(Insts)
  <2>1. p.order[Run] \in Seq(Blocks) /\ p.insts \in [Blocks -> Seq(Insts)]
    BY ConstantsAssumption DEF Modules
  <2>2. FirstBlock(p) \in Blocks
    BY <2>1 DEF FirstBlock
  <2> QED BY <2>1, <2>2
<1> HIDE DEF s
<1>3. PICK l \in Nat : l = Len(s) /\ DOMAIN s = 1..l
  BY <1>2
<1>4. PICK m \in Nat : m = Len(r)
  OBVIOUS
<1>5. DOMAIN (s \o r) = 1..(l + m) /\ \A j \in 1..l : (s \o r)[j] = s[j]
  BY <1>2, <1>3, <1>4
<1>6. i \in 1..l /\ i \in 1..(l + m) /\ \A j \in 1..(i - 1) : j \in 1..l
  BY <1>3
<1>7. Gives(p, (s \o r)[i], v)
  BY <1>1, <1>5, <1>6 DEF Gives
<1>8. \A j \in 1..(i - 1) : (s \o r)[j].do \in Early
  BY <1>1, <1>5, <1>6 DEF Early
<1> QED BY <1>5, <1>6, <1>7, <1>8 DEF Comes, s

\* A constant store or a global gives the variable its first version.
LEMMA FirstVersion ==
  ASSUME IInv, Step, NEW v \in Vars, Coming(v), agenda # <<>>,
         \/ Head(agenda).do = "global" /\ Head(agenda).v = v
         \/ Head(agenda).do = "const" /\ Head(agenda).dst = v
  PROVE  Known(v)'
<1>1. ssa \in [Vars -> Nat \cup {Absent}] /\ declared \in [Vars -> SUBSET Nat]
  BY DEF IInv, TypeOK
<1>2. ssa[v] = Absent /\ AdvanceSSA(ssa[v]) = 0
  BY DEF Coming, AdvanceSSA
<1>3. ssa' = [ssa EXCEPT ![v] = 0] /\ declared' = [declared EXCEPT ![v] = @ \cup {0}]
  BY <1>2, HeadActs DEF ConstantRule, StoreConst, Assign
<1>4. 0 # Absent
  BY DEF Absent
<1> QED BY <1>1, <1>3, <1>4 DEF Known

\* An early entry for another variable leaves v to come.
LEMMA ComingNext ==
  ASSUME IInv, Step, NEW v \in Vars, Coming(v), agenda # <<>>,
         ~Gives(code, Head(agenda), v), Head(agenda).do \in Early
  PROVE  Coming(v)'
<1> DEFINE h == Head(agenda)
<1>1. ssa \in [Vars -> Nat \cup {Absent}] /\ declared \in [Vars -> SUBSET Nat]
      /\ agenda \in Seq(Items) /\ h \in Items
  BY DEF IInv, TypeOK
<1>2. callstack = <<>> /\ returnVoid = 0 /\ Comes(code, agenda, v)
  BY DEF Coming
<1>3. h.do \in {"global", "const", "round"}
  BY DEF Early
<1>4. /\ Do(<<>>) /\ callstack' = callstack /\ returnVoid' = returnVoid
      /\ ssa'[v] = ssa[v] /\ declared'[v] = declared[v]
  <2>1. CASE h.do = "global"
    <3>1. h.v # v /\ h.v \in Vars
      BY <1>1, <2>1, ItemFields DEF Gives
    <3>2. ConstantRule
      BY <2>1, HeadActs
    <3> QED BY <1>1, <3>1, <3>2 DEF ConstantRule, ctlVars
  <2>2. CASE h.do = "const"
    <3>1. h.dst # v /\ h.dst \in Vars
      BY <1>1, <2>2, ItemFields DEF Gives
    <3>2. StoreConst
      BY <2>2, HeadActs
    <3> QED BY <1>1, <3>1, <3>2 DEF StoreConst, ctlVars, Assign
  <2>3. CASE h.do = "round"
    <3>1. StoreRound
      BY <2>3, HeadActs
    <3> QED BY <1>2, <3>1 DEF StoreRound, ctlVars
  <2> QED BY <1>3, <2>1, <2>2, <2>3
<1>5. agenda' = Tail(agenda)
  BY <1>1, <1>4 DEF Do
<1>6. Comes(code, Tail(agenda), v)
  BY <1>1, <1>2, ComesLater
<1>7. Comes(code', agenda', v)
  BY <1>5, <1>6, CodeKept
<1> QED BY <1>4, <1>7 DEF Coming

\* The start of the run function leads to its first block, and that to its stores.
LEMMA ComingStored ==
  ASSUME IInv, Initialised(code), Step, NEW v \in Vars, Coming(v), agenda # <<>>,
         Gives(code, Head(agenda), v), Head(agenda).do \in {"function", "block"}
  PROVE  Coming(v)'
<1> DEFINE h == Head(agenda)
<1>1. agenda \in Seq(Items) /\ h \in Items /\ code \in Modules /\ Tail(agenda) \in Seq(Items)
  BY DEF IInv, TypeOK
<1>2. ssa[v] = Absent /\ declared[v] = {} /\ callstack = <<>> /\ returnVoid = 0
  BY DEF Coming
<1>3. StoredFirst(code, v) /\ code.order[Run] # <<>> /\ code' = code
  BY CodeKept DEF Gives, Initialised
<1>4. CASE h.do = "function"
  <2>1. h.f = Run /\ h.i = 1 /\ ParseFunction
    BY <1>4, HeadActs DEF Gives
  <2>2. code.order[Run] \in Seq(Blocks)
    BY <1>1, ConstantsAssumption DEF Modules
  <2>3. 1 <= Len(code.order[Run]) /\ code.order[Run][1] \in Blocks
    BY <1>3, <2>2
  <2> DEFINE g == Function(Run, 1 + 1)
             b == Block(FirstBlock(code))
  <2>4. BlockStep(Run, 1) = <<b>> \o <<g>>
    BY <1>2 DEF BlockStep, FirstBlock
  <2>5. Do(BlockStep(Run, 1)) /\ UNCHANGED <<returnVoid, ssa, declared, callstack>>
    BY <2>1, <2>3 DEF ParseFunction, genVars
  <2>6. agenda' = <<b>> \o <<g>> \o Tail(agenda)
    BY <2>4, <2>5 DEF Do
  <2>7. b \in Items /\ g \in Items
    BY <2>3, ConstantsAssumption, ItemsMade DEF FirstBlock
  <2>8. Gives(code, b, v)
    BY <1>3 DEF Gives, Block
  <2> HIDE DEF b, g
  <2>9. 1 \in DOMAIN agenda' /\ agenda'[1] = b
    BY <1>1, <2>6, <2>7
  <2>10. Comes(code', agenda', v)
    BY <1>3, <2>8, <2>9, ComesFirst
  <2> QED BY <1>2, <2>5, <2>10 DEF Coming
<1>5. CASE h.do = "block"
  <2>1. h.b = FirstBlock(code) /\ ParseBlock
    BY <1>5, HeadActs DEF Gives
  <2>2. h.b \in Blocks
    BY <1>1, <1>5, ItemFields
  <2> DEFINE s == code.insts[FirstBlock(code)]
             r == <<Flush, Term(h.b)>> \o Tail(agenda)
  <2>3. s \in Seq(Insts) /\ Insts \subseteq Items
    BY <1>1, <2>1, <2>2, ItemsMade DEF Modules
  <2>4. Flush \in Items /\ Term(h.b) \in Items
    BY <2>2, ItemsMade
  <2>5. <<Flush, Term(h.b)>> \in Seq(Items) /\ r \in Seq(Items)
    BY <1>1, <2>4
  <2>6. agenda' = s \o <<Flush, Term(h.b)>> \o Tail(agenda)
    BY <2>1 DEF ParseBlock, BlockItems, Do
  <2>7. s \in Seq(Items)
    BY <2>3
  <2> HIDE DEF s
  <2>8. agenda' = s \o r
    BY <1>1, <2>5, <2>6, <2>7, ConcatAssociative
  <2>9. Comes(code, s \o r, v)
    BY <1>1, <1>3, <2>5, ComesStored DEF s
  <2>10. UNCHANGED <<returnVoid, ssa, declared, callstack>>
    BY <2>1 DEF ParseBlock, genVars, ctlVars
  <2>11. Comes(code', agenda', v)
    BY <1>3, <2>8, <2>9
  <2> QED BY <1>2, <2>10, <2>11 DEF Coming
<1> QED BY <1>4, <1>5

\* A variable that has its first version keeps it, and one whose first version
\* is to come gets it before anything else happens.
LEMMA StepStarts ==
  ASSUME IInv, Initialised(code), Started, Step
  PROVE  Started'
<1> SUFFICES ASSUME NEW v \in Vars PROVE Known(v)' \/ Coming(v)'
  BY DEF Started
<1>1. agenda # <<>>
  BY StepMakes
<1>2. CASE Known(v)
  BY <1>2, KnownKept
<1>3. CASE Coming(v) /\ Gives(code, Head(agenda), v)
  BY <1>1, <1>3, FirstVersion, ComingStored DEF Gives
<1>4. CASE Coming(v) /\ ~Gives(code, Head(agenda), v)
  BY <1>1, <1>4, ComingNext, StillComing
<1> QED BY <1>2, <1>3, <1>4 DEF Started

\* A property of entries that the rest of the agenda and the made entries have,
\* the new agenda has.
LEMMA AgendaNext ==
  ASSUME IInv, Step, NEW S,
         \A i \in DOMAIN agenda : i # 1 => agenda[i] \in S,
         Made \subseteq S
  PROVE  \A i \in DOMAIN agenda' : agenda'[i] \in S
<1>1. agenda \in Seq(Items) /\ agenda # <<>>
  BY StepMakes DEF IInv, TypeOK
<1>2. CASE agenda' = <<>>
  BY <1>2
<1>3. CASE Makes
  <2>1. PICK s \in Seq(Made) : agenda' = s \o Tail(agenda)
    BY <1>3 DEF Makes, Do
  <2>2. PICK l \in Nat : l = Len(agenda)
    BY <1>1
  <2>3. Tail(agenda) \in Seq(Items) /\ Len(Tail(agenda)) = l - 1 /\ l - 1 \in Nat
        /\ \A j \in 1..(l - 1) : Tail(agenda)[j] = agenda[j + 1]
    BY <1>1, <2>2
  <2>4. \A j \in 1..(l - 1) : j + 1 \in 1..l /\ j + 1 # 1
    BY <2>2
  <2>5. \A j \in 1..(l - 1) : Tail(agenda)[j] \in S
    BY <1>1, <2>2, <2>3, <2>4
  <2>6. Tail(agenda) \in Seq(S)
    <3> DEFINE t == Tail(agenda)
    <3>1. t \in Seq(Items) /\ Len(t) \in Nat /\ DOMAIN t = 1..Len(t)
      BY <2>3
    <3>2. \A j \in 1..Len(t) : t[j] \in S
      BY <2>3, <2>5
    <3> HIDE DEF t
    <3>3. t \in Seq(S)
      BY <3>1, <3>2
    <3> QED BY <3>3 DEF t
  <2>7. s \in Seq(S)
    OBVIOUS
  <2>8. agenda' \in Seq(S)
    BY <2>1, <2>6, <2>7, ConcatProperties
  <2> QED BY <2>8
<1> QED BY <1>2, <1>3, StepMakes

\* Globals are handled first and have no number before.
LEMMA StepGlobals ==
  ASSUME IInv, GlobalsFirst, Step
  PROVE  GlobalsFirst'
<1>1. agenda \in Seq(Items) /\ agenda # <<>> /\ Head(agenda) = agenda[1] /\ 1 \in DOMAIN agenda
  BY StepMakes DEF IInv, TypeOK
<1>2. CASE Head(agenda).do # "global"
  <2> DEFINE S == {h \in Items : h.do # "global"}
  <2>1. ASSUME NEW i \in DOMAIN agenda, i # 1 PROVE agenda[i] \in S
    <3>1. agenda[i] \in Items /\ 1 \in 1..(i - 1)
      BY <1>1, <2>1
    <3> QED BY <1>1, <1>2, <3>1 DEF GlobalsFirst
  <2>2. Made \subseteq S
    BY DEF Made
  <2>3. \A i \in DOMAIN agenda' : agenda'[i] \in S
    BY <2>1, <2>2, AgendaNext
  <2> QED BY <2>3 DEF GlobalsFirst
<1>3. CASE Head(agenda).do = "global"
  <2> DEFINE v == Head(agenda).v
  <2>1. ConstantRule /\ v \in Vars
    BY <1>1, <1>3, HeadActs, ItemFields
  <2>2. agenda' = Tail(agenda) /\ ssa' = [ssa EXCEPT ![v] = AdvanceSSA(ssa[v])]
    BY <1>1, <2>1 DEF ConstantRule, Do
  <2>3. ssa \in [Vars -> Nat \cup {Absent}]
    BY DEF IInv, TypeOK
  <2>4. PICK l \in Nat : l = Len(agenda)
    BY <1>1
  <2>5. DOMAIN agenda' = 1..(l - 1) /\ \A j \in 1..(l - 1) : agenda'[j] = agenda[j + 1]
    BY <1>1, <2>2, <2>4
  <2>6. SUFFICES ASSUME NEW i \in 1..(l - 1), agenda[i + 1].do = "global"
                 PROVE  /\ ssa'[agenda[i + 1].v] = Absent
                        /\ \A j \in 1..(i - 1) : /\ agenda'[j].do = "global"
                                                 /\ agenda'[j].v # agenda[i + 1].v
    BY <2>5 DEF GlobalsFirst
  <2>7. i + 1 \in 1..l /\ 1 \in 1..(i + 1 - 1)
        /\ \A j \in 1..(i - 1) : j \in 1..(l - 1) /\ j + 1 \in 1..(i + 1 - 1)
    BY <2>4
  <2>8. DOMAIN agenda = 1..l /\ agenda[i + 1] \in Items
    BY <1>1, <2>4, <2>7
  <2>9. agenda[i + 1].v \in Vars
    BY <2>6, <2>8, ItemFields
  <2>10. /\ ssa[agenda[i + 1].v] = Absent
         /\ \A j \in 1..(i + 1 - 1) : agenda[j].do = "global" /\ agenda[j].v # agenda[i + 1].v
    BY <2>6, <2>7, <2>8 DEF GlobalsFirst
  <2>11. v # agenda[i + 1].v
    BY <1>1, <2>7, <2>10
  <2>12. ssa'[agenda[i + 1].v] = Absent
    BY <2>2, <2>3, <2>9, <2>10, <2>11
  <2> QED BY <2>5, <2>7, <2>10, <2>12
<1> QED BY <1>2, <1>3

-----------------------------------------------------------------------------
(***************************************************************************)
(* RoundVars.  Adding the list es of entries to it adds as many places,    *)
(* which hold the entries of es.                                           *)
(***************************************************************************)
Added(rs, es, rt, n, m) ==
  /\ DOMAIN rs \subseteq DOMAIN rt
  /\ \A i \in DOMAIN rt : \A j \in DOMAIN rt[i] :
       \/ i \in DOMAIN rs /\ j \in DOMAIN rs[i] /\ rt[i][j] = rs[i][j] /\ (i = n => j <= m)
       \/ i = n /\ j - m \in DOMAIN es /\ rt[i][j] = es[j - m]
  /\ \A i \in DOMAIN rs : \A j \in DOMAIN rs[i] : j \in DOMAIN rt[i] /\ rt[i][j] = rs[i][j]
  /\ \A j \in DOMAIN es : n \in DOMAIN rt /\ m + j \in DOMAIN rt[n] /\ rt[n][m + j] = es[j]

LEMMA RoundsAdded ==
  ASSUME NEW S, NEW rs \in Seq(Seq(S)), NEW es \in Seq(S), NEW rt,
         rt = AddVarToRound(rs, es)
  PROVE  rt \in Seq(Seq(S)) /\ \E n \in Nat \ {0}, m \in Nat : Added(rs, es, rt, n, m)
<1>1. CASE es = <<>>
  <2>1. rt = rs
    BY <1>1 DEF AddVarToRound
  <2>2. PICK n \in Nat \ {0} : n = Len(rs) + 1
    OBVIOUS
  <2>3. n \notin DOMAIN rs
    BY <2>2
  <2>4. Added(rs, es, rt, n, 0)
    BY <1>1, <2>1, <2>3 DEF Added
  <2> QED BY <2>1, <2>4
<1>2. CASE es # <<>> /\ rs = <<>>
  <2>1. rt = <<es>>
    BY <1>2 DEF AddVarToRound
  <2>2. rt \in Seq(Seq(S)) /\ Len(rt) = 1 /\ rt[1] = es
    BY <2>1
  <2>3. DOMAIN rt = 1..1 /\ DOMAIN rs = {}
    BY <1>2, <2>2
  <2>4. PICK k \in Nat : DOMAIN es = 1..k
    OBVIOUS
  <2>5. \A j \in 1..k : j - 0 = j /\ 0 + j = j
    OBVIOUS
  <2>6. 0 \in Nat /\ 1 \in Nat \ {0} /\ 1 \in 1..1 /\ \A i \in 1..1 : i = 1
    OBVIOUS
  <2>7. \A j \in DOMAIN es : 1 \in DOMAIN rt /\ 0 + j \in DOMAIN rt[1] /\ rt[1][0 + j] = es[j]
    BY <2>2, <2>3, <2>4, <2>5, <2>6
  <2>8. \A i \in DOMAIN rt : \A j \in DOMAIN rt[i] :
          i = 1 /\ j - 0 \in DOMAIN es /\ rt[i][j] = es[j - 0]
    BY <2>2, <2>3, <2>4, <2>5, <2>6
  <2>9. Added(rs, es, rt, 1, 0)
    BY <2>3, <2>7, <2>8 DEF Added
  <2> QED BY <2>2, <2>6, <2>9
<1>3. CASE es # <<>> /\ rs # <<>>
  <2>1. PICK n \in Nat \ {0} : n = Len(rs) /\ n \in DOMAIN rs
    BY <1>3
  <2>2. rs[n] \in Seq(S)
    BY <2>1
  <2>3. PICK m \in Nat : m = Len(rs[n]) /\ DOMAIN rs[n] = 1..m
    BY <2>2
  <2>4. PICK k \in Nat : k = Len(es) /\ DOMAIN es = 1..k
    OBVIOUS
  <2>5. rt = [rs EXCEPT ![n] = rs[n] \o es]
    BY <1>3, <2>1 DEF AddVarToRound
  <2>6. rs[n] \o es \in Seq(S) /\ DOMAIN (rs[n] \o es) = 1..(m + k)
        /\ (\A j \in 1..m : (rs[n] \o es)[j] = rs[n][j])
        /\ (\A j \in (m + 1)..(m + k) : (rs[n] \o es)[j] = es[j - m])
    BY <2>2, <2>3, <2>4
  <2>7. rt \in Seq(Seq(S)) /\ DOMAIN rt = DOMAIN rs /\ rt[n] = rs[n] \o es
        /\ \A i \in DOMAIN rs : i # n => rt[i] = rs[i]
    BY <2>1, <2>5, <2>6
  <2>8. \A j \in 1..(m + k) : (j \in 1..m /\ j <= m) \/ (j \in (m + 1)..(m + k) /\ j - m \in 1..k)
    OBVIOUS
  <2>9. \A j \in 1..k : m + j \in (m + 1)..(m + k) /\ m + j \in 1..(m + k) /\ m + j - m = j
    OBVIOUS
  <2>10. \A j \in 1..m : j \in 1..(m + k)
    OBVIOUS
  <2>11. ASSUME NEW i \in DOMAIN rt, NEW j \in DOMAIN rt[i]
         PROVE  \/ i \in DOMAIN rs /\ j \in DOMAIN rs[i] /\ rt[i][j] = rs[i][j] /\ (i = n => j <= m)
                \/ i = n /\ j - m \in DOMAIN es /\ rt[i][j] = es[j - m]
    <3>1. CASE i # n
      BY <2>7, <2>11, <3>1
    <3>2. CASE i = n
      <4>1. j \in DOMAIN (rs[n] \o es)
        BY <2>7, <2>11, <3>2
      <4> QED BY <2>3, <2>4, <2>6, <2>7, <2>8, <3>2, <4>1
    <3> QED BY <3>1, <3>2
  <2>12. ASSUME NEW i \in DOMAIN rs, NEW j \in DOMAIN rs[i]
         PROVE  j \in DOMAIN rt[i] /\ rt[i][j] = rs[i][j]
    BY <2>3, <2>6, <2>7, <2>10
  <2>13. ASSUME NEW j \in DOMAIN es
         PROVE  n \in DOMAIN rt /\ m + j \in DOMAIN rt[n] /\ rt[n][m + j] = es[j]
    <3>1. n \in DOMAIN rt /\ m + j \in (m + 1)..(m + k) /\ m + j \in 1..(m + k) /\ m + j - m = j
      BY <2>1, <2>4, <2>7, <2>9
    <3>2. PICK q \in Int : q = m + j
      BY <2>4
    <3>3. q \in (m + 1)..(m + k) /\ q \in 1..(m + k) /\ q - m = j
      BY <3>1, <3>2
    <3>4. q \in DOMAIN rt[n] /\ rt[n][q] = es[j]
      BY <2>6, <2>7, <3>3
    <3> QED BY <3>1, <3>2, <3>4
  <2>14. Added(rs, es, rt, n, m)
    BY <2>7, <2>11, <2>12, <2>13 DEF Added
  <2> QED BY <2>7, <2>14
<1> QED BY <1>1, <1>2, <1>3

\* The list es holds the versions declared in dt and not in ds, each once.
Lists(es, ds, dt) ==
  /\ \A v \in Vars : ds[v] \subseteq dt[v]
  /\ \A j \in DOMAIN es : es[j][2] \in dt[es[j][1]] /\ es[j][2] \notin ds[es[j][1]]
  /\ \A v \in Vars : \A n \in dt[v] : n \in ds[v] \/ \E j \in DOMAIN es : es[j] = <<v, n>>
  /\ \A j, l \in DOMAIN es : es[j] = es[l] => j = l

\* The versions that become declared are put in RoundVars, each once.
LEMMA RoundsStill ==
  ASSUME NEW rs \in Seq(Seq(Vars \X Nat)), NEW es \in Seq(Vars \X Nat),
         NEW ds, NEW dt, RoundsHold(rs, ds), Lists(es, ds, dt)
  PROVE  RoundsHold(AddVarToRound(rs, es), dt)
<1> DEFINE rt == AddVarToRound(rs, es)
<1>0. /\ \A v \in Vars : ds[v] \subseteq dt[v]
      /\ \A j \in DOMAIN es : es[j][2] \in dt[es[j][1]] /\ es[j][2] \notin ds[es[j][1]]
      /\ \A v \in Vars : \A n \in dt[v] : n \in ds[v] \/ \E j \in DOMAIN es : es[j] = <<v, n>>
      /\ \A j, l \in DOMAIN es : es[j] = es[l] => j = l
  BY DEF Lists
<1>1. rt \in Seq(Seq(Vars \X Nat)) /\ \E n \in Nat \ {0}, m \in Nat : Added(rs, es, rt, n, m)
  BY RoundsAdded
<1>2. PICK n \in Nat \ {0}, m \in Nat : Added(rs, es, rt, n, m)
  BY <1>1
<1> HIDE DEF rt
<1> DEFINE Old(i, j) == /\ i \in DOMAIN rs /\ j \in DOMAIN rs[i]
                        /\ rt[i][j] = rs[i][j] /\ (i = n => j <= m)
           New(i, j) == i = n /\ j - m \in DOMAIN es /\ rt[i][j] = es[j - m]
<1>3. \A i \in DOMAIN rt : \A j \in DOMAIN rt[i] : Old(i, j) \/ New(i, j)
  BY <1>2 DEF Added
<1>4. \A i \in DOMAIN rs : \A j \in DOMAIN rs[i] :
        i \in DOMAIN rt /\ j \in DOMAIN rt[i] /\ rt[i][j] = rs[i][j]
  BY <1>2 DEF Added
<1>5. \A j \in DOMAIN es : n \in DOMAIN rt /\ m + j \in DOMAIN rt[n] /\ rt[n][m + j] = es[j]
  BY <1>2 DEF Added
<1>6. \A i \in DOMAIN rs : \A j \in DOMAIN rs[i] : rs[i][j] \in Vars \X Nat
  OBVIOUS
<1>7. ASSUME NEW i \in DOMAIN rt, NEW j \in DOMAIN rt[i] PROVE rt[i][j][2] \in dt[rt[i][j][1]]
  <2>1. CASE Old(i, j)
    <3>1. rs[i][j][2] \in ds[rs[i][j][1]]
      BY <2>1 DEF RoundsHold
    <3> QED BY <1>0, <1>6, <2>1, <3>1
  <2>2. CASE New(i, j)
    BY <1>0, <2>2
  <2> QED BY <1>3, <2>1, <2>2
<1>8. ASSUME NEW v \in Vars, NEW k \in dt[v]
      PROVE  \E i \in DOMAIN rt : \E j \in DOMAIN rt[i] : rt[i][j] = <<v, k>>
  <2>1. CASE k \in ds[v]
    <3>1. PICK i \in DOMAIN rs : \E j \in DOMAIN rs[i] : rs[i][j] = <<v, k>>
      BY <2>1 DEF RoundsHold
    <3>2. PICK j \in DOMAIN rs[i] : rs[i][j] = <<v, k>>
      BY <3>1
    <3> QED BY <1>4, <3>2
  <2>2. CASE k \notin ds[v]
    <3>1. PICK j \in DOMAIN es : es[j] = <<v, k>>
      BY <1>0, <2>2
    <3> QED BY <1>5, <3>1
  <2> QED BY <2>1, <2>2
<1>9. ASSUME NEW i \in DOMAIN rt, NEW j \in DOMAIN rt[i],
             NEW k \in DOMAIN rt, NEW l \in DOMAIN rt[k], rt[i][j] = rt[k][l]
      PROVE  i = k /\ j = l
  <2>1. j \in Int /\ l \in Int
    <3>1. rt[i] \in Seq(Vars \X Nat) /\ rt[k] \in Seq(Vars \X Nat)
      BY <1>1
    <3>2. \A s \in Seq(Vars \X Nat) : \A q \in DOMAIN s : q \in Int
      OBVIOUS
    <3> QED BY <3>1, <3>2
  <2>2. CASE Old(i, j) /\ Old(k, l)
    <3>1. /\ i \in DOMAIN rs /\ k \in DOMAIN rs /\ j \in DOMAIN rs[i] /\ l \in DOMAIN rs[k]
          /\ rs[i][j] = rs[k][l]
      BY <1>9, <2>2
    <3>2. \A a, c \in DOMAIN rs : \A b \in DOMAIN rs[a], d \in DOMAIN rs[c] :
            rs[a][b] = rs[c][d] => a = c /\ b = d
      BY DEF RoundsHold
    <3> QED BY <3>1, <3>2
  <2>3. CASE New(i, j) /\ New(k, l)
    <3>1. j - m = l - m /\ i = k
      BY <1>0, <1>9, <2>3
    <3>2. j = l
      BY <2>1, <3>1
    <3> QED BY <3>1, <3>2
  <2>4. CASE Old(i, j) /\ New(k, l)
    <3>1. rs[i][j][2] \in ds[rs[i][j][1]]
      BY <2>4 DEF RoundsHold
    <3>2. es[l - m][2] \notin ds[es[l - m][1]] /\ rs[i][j] = es[l - m]
      BY <1>0, <1>9, <2>4
    <3> QED BY <3>1, <3>2
  <2>5. CASE New(i, j) /\ Old(k, l)
    <3>1. rs[k][l][2] \in ds[rs[k][l][1]]
      BY <2>5 DEF RoundsHold
    <3>2. es[j - m][2] \notin ds[es[j - m][1]] /\ rs[k][l] = es[j - m]
      BY <1>0, <1>9, <2>5
    <3> QED BY <3>1, <3>2
  <2> QED BY <1>3, <2>2, <2>3, <2>4, <2>5
<1>10. RoundsHold(rt, dt)
  BY <1>7, <1>8, <1>9 DEF RoundsHold
<1> QED BY <1>10 DEF rt

\* A new round has no places yet.
LEMMA RoundsOpened ==
  ASSUME NEW rs \in Seq(Seq(Vars \X Nat)), NEW ds, RoundsHold(rs, ds)
  PROVE  RoundsHold(Append(rs, <<>>), ds)
<1> DEFINE rt == Append(rs, <<>>)
<1>1. PICK n \in Nat : n = Len(rs) /\ DOMAIN rs = 1..n
  OBVIOUS
<1>2. DOMAIN rt = 1..(n + 1) /\ rt[n + 1] = <<>> /\ \A i \in 1..n : rt[i] = rs[i]
  BY <1>1
<1>3. \A i \in 1..(n + 1) : i = n + 1 \/ i \in 1..n
  OBVIOUS
<1>4. \A i \in 1..n : i \in 1..(n + 1)
  OBVIOUS
<1> HIDE DEF rt
<1>5. \A i \in DOMAIN rt : \A j \in DOMAIN rt[i] :
        i \in DOMAIN rs /\ j \in DOMAIN rs[i] /\ rt[i][j] = rs[i][j]
  BY <1>1, <1>2, <1>3
<1>6. \A i \in DOMAIN rs : i \in DOMAIN rt /\ rt[i] = rs[i]
  BY <1>1, <1>2, <1>4
<1>7. RoundsHold(rt, ds)
  BY <1>5, <1>6 DEF RoundsHold
<1> QED BY <1>7 DEF rt

\* One version becomes declared and is recorded under its number.
LEMMA RoundsOne ==
  ASSUME IInv, RoundsHold(rounds, declared), NEW v \in Vars, NEW n \in Nat, n \notin declared[v],
         declared' = [declared EXCEPT ![v] = @ \cup {n}],
         rounds' = AddVarToRound(rounds, << <<v, n>> >>)
  PROVE  RoundsHold(rounds', declared')
<1> DEFINE es == << <<v, n>> >>
<1>1. /\ declared \in [Vars -> SUBSET Nat] /\ rounds \in Seq(Seq(Vars \X Nat))
      /\ es \in Seq(Vars \X Nat) /\ DOMAIN es = {1} /\ es[1] = <<v, n>>
  BY DEF IInv, TypeOK
<1> HIDE DEF es
<1>2. declared'[v] = declared[v] \cup {n} /\ \A w \in Vars : w # v => declared'[w] = declared[w]
  BY <1>1
<1>3. \A w \in Vars : declared[w] \subseteq declared'[w]
  BY <1>2
<1>4. \A j \in DOMAIN es : es[j][2] \in declared'[es[j][1]] /\ es[j][2] \notin declared[es[j][1]]
  BY <1>1, <1>2
<1>5. \A w \in Vars : \A k \in declared'[w] :
        k \in declared[w] \/ \E j \in DOMAIN es : es[j] = <<w, k>>
  BY <1>1, <1>2
<1>6. \A j, l \in DOMAIN es : es[j] = es[l] => j = l
  BY <1>1
<1>7. RoundsHold(AddVarToRound(rounds, es), declared')
  <2>1. Lists(es, declared, declared')
    BY <1>3, <1>4, <1>5, <1>6 DEF Lists
  <2> QED BY <1>1, <2>1, RoundsStill
<1> QED BY <1>7 DEF es

\* A version not handed out yet is not declared.
LEMMA NextFresh ==
  ASSUME IInv, Started, NEW v \in Vars
  PROVE  /\ AdvanceSSA(ssa[v]) \in Nat
         /\ AdvanceSSA(ssa[v]) \notin declared[v]
         /\ ssa[v] # Absent => /\ AdvanceSSA(ssa[v]) = GetSSA(ssa[v]) + 1
                               /\ declared[v] = 0..GetSSA(ssa[v])
<1>1. ssa[v] \in Nat \cup {Absent} /\ declared[v] \cup {0} = 0..GetSSA(ssa[v])
  BY DEF IInv, TypeOK, VersionsContiguous
<1>2. CASE ssa[v] = Absent
  <2>1. Coming(v)
    BY <1>2 DEF Started, Known
  <2>2. declared[v] = {}
    BY <2>1 DEF Coming
  <2> QED BY <1>2, <2>2 DEF AdvanceSSA
<1>3. CASE ssa[v] # Absent
  <2>1. Known(v)
    BY <1>3 DEF Started, Coming
  <2>2. declared[v] = 0..GetSSA(ssa[v])
    BY <1>1, <2>1 DEF Known
  <2>3. ssa[v] \in Nat /\ GetSSA(ssa[v]) = ssa[v] /\ AdvanceSSA(ssa[v]) = ssa[v] + 1
    BY <1>1, <1>3 DEF GetSSA, AdvanceSSA
  <2>4. \A n \in Nat : n + 1 \in Nat /\ n + 1 \notin 0..n
    OBVIOUS
  <2> QED BY <2>2, <2>3, <2>4
<1> QED BY <1>2, <1>3

\* What the end of a conditional and of a parallel run record about the phis.
PhisAdded(used, phi) ==
  /\ declared' = [v \in Vars |-> IF v \in used THEN declared[v] \cup {phi[v]} ELSE declared[v]]
  /\ \E vs \in SetToSeqs(used) :
       rounds' = AddVarToRound(rounds, [i \in DOMAIN vs |-> <<vs[i], phi[vs[i]]>>])

\* They are listed once each.
LEMMA PhisListed ==
  ASSUME IInv, Started, RoundsHold(rounds, declared), NEW used \in SUBSET Vars,
         NEW phi, \A v \in Vars : phi[v] = AdvanceSSA(ssa[v]), PhisAdded(used, phi)
  PROVE  RoundsHold(rounds', declared')
<1>1. PICK vs \in SetToSeqs(used) :
        rounds' = AddVarToRound(rounds, [i \in DOMAIN vs |-> <<vs[i], phi[vs[i]]>>])
  BY DEF PhisAdded
<1>2. IsFiniteSet(used)
  BY ConstantsAssumption, FS_Subset
<1>3. PICK n \in Nat : n = Cardinality(used)
  BY <1>2, FS_CardinalityType
<1>4. vs \in [1..n -> used] /\ \A i, j \in 1..n : i # j => vs[i] # vs[j]
  BY <1>3 DEF SetToSeqs
<1>5. \A v \in used : \E i \in 1..n : vs[i] = v
  <2>1. vs \in Injection(1..n, used)
    BY <1>4 DEF Injection, IsInjective
  <2>2. Cardinality(1..n) = n
    <3>1. Cardinality(1..n) = IF 1 > n THEN 0 ELSE n - 1 + 1
      BY FS_Interval
    <3> QED BY <3>1
  <2>3. vs \in Surjection(1..n, used)
    BY <1>2, <1>3, <2>1, <2>2, FS_Injection
  <2> QED BY <2>3 DEF Surjection
<1>6. \A v \in Vars : phi[v] \in Nat /\ phi[v] \notin declared[v]
  BY NextFresh
<1> DEFINE es == [i \in DOMAIN vs |-> <<vs[i], phi[vs[i]]>>]
<1>7. DOMAIN es = 1..n /\ \A i \in 1..n : es[i] = <<vs[i], phi[vs[i]]>>
  BY <1>4
<1>8. es \in Seq(Vars \X Nat)
  <2>1. es = [i \in 1..n |-> <<vs[i], phi[vs[i]]>>]
    BY <1>4
  <2>2. \A i \in 1..n : <<vs[i], phi[vs[i]]>> \in Vars \X Nat
    BY <1>4, <1>6
  <2>3. \A S : (\A i \in 1..n : <<vs[i], phi[vs[i]]>> \in S)
                 => [i \in 1..n |-> <<vs[i], phi[vs[i]]>>] \in Seq(S)
    BY <1>3
  <2> QED BY <2>1, <2>2, <2>3
<1> HIDE DEF es
<1>9. \A v \in Vars : /\ v \in used => declared'[v] = declared[v] \cup {phi[v]}
                      /\ v \notin used => declared'[v] = declared[v]
  BY DEF PhisAdded
<1>10. Lists(es, declared, declared')
  <2>1. \A v \in Vars : declared[v] \subseteq declared'[v]
    BY <1>9
  <2>2. ASSUME NEW j \in DOMAIN es
        PROVE  es[j][2] \in declared'[es[j][1]] /\ es[j][2] \notin declared[es[j][1]]
    <3>1. vs[j] \in used /\ vs[j] \in Vars /\ es[j] = <<vs[j], phi[vs[j]]>>
      BY <1>4, <1>7
    <3> QED BY <1>6, <1>9, <3>1
  <2>3. ASSUME NEW v \in Vars, NEW k \in declared'[v], k \notin declared[v]
        PROVE  \E j \in DOMAIN es : es[j] = <<v, k>>
    <3>1. v \in used /\ k = phi[v]
      BY <1>9, <2>3
    <3> QED BY <1>5, <1>7, <3>1
  <2>4. ASSUME NEW j \in DOMAIN es, NEW l \in DOMAIN es, es[j] = es[l] PROVE j = l
    <3>1. vs[j] = vs[l]
      BY <1>7, <2>4
    <3> QED BY <1>4, <1>7, <3>1
  <2> QED BY <2>1, <2>2, <2>3, <2>4 DEF Lists
<1>11. rounds \in Seq(Seq(Vars \X Nat))
  BY DEF IInv, TypeOK
<1>12. RoundsHold(AddVarToRound(rounds, es), declared')
  BY <1>8, <1>10, <1>11, RoundsStill
<1> QED BY <1>1, <1>12 DEF es

\* A store to a variable that has its first version.
LEMMA RoundsStored ==
  ASSUME IInv, Started, RoundsHold(rounds, declared), NEW v \in Vars, NEW base, NEW ts,
         ssa[v] # Absent, base[v] = ssa[v], Assign(v, base, GetSSA(base[v]) + 1, ts)
  PROVE  RoundsHold(rounds', declared')
<1> DEFINE n == AdvanceSSA(ssa[v])
<1>1. n \in Nat /\ n \notin declared[v] /\ n = GetSSA(base[v]) + 1
  BY NextFresh
<1>2. declared' = [declared EXCEPT ![v] = @ \cup {n}] /\ rounds' = AddVarToRound(rounds, << <<v, n>> >>)
  BY <1>1 DEF Assign
<1> QED BY <1>1, <1>2, RoundsOne

\* Registering the operands changes nothing once every variable has a version.
LEMMA NothingRegistered ==
  ASSUME IInv, \A v \in Vars : Known(v), NEW S
  PROVE  Registered(S) = ssa
<1>1. ssa \in [Vars -> Nat \cup {Absent}]
  BY DEF IInv, TypeOK
<1>2. \A v \in Vars : GetSSA(ssa[v]) = ssa[v]
  BY DEF Known, GetSSA
<1> QED BY <1>1, <1>2 DEF Registered

\* Every step keeps RoundVars complete.
LEMMA StepRounds ==
  ASSUME IInv, Started, GlobalsFirst, RoundsHold(rounds, declared), Step
  PROVE  RoundsHold(rounds', declared')
<1> DEFINE h == Head(agenda)
<1>1. agenda \in Seq(Items) /\ agenda # <<>> /\ h \in Items /\ rounds \in Seq(Seq(Vars \X Nat))
  BY StepMakes DEF IInv, TypeOK
<1>2. CASE UNCHANGED <<rounds, declared>>
  BY <1>2
<1>3. h.do \notin Early \cup {"function", "block"} => \A v \in Vars : Known(v)
  BY <1>1, AllKnown
<1>4. CASE StoreConst
  <2>1. h.dst \in Vars /\ Assign(h.dst, ssa, AdvanceSSA(ssa[h.dst]), trail)
    BY <1>1, <1>4, ItemFields DEF StoreConst, At
  <2>2. /\ declared' = [declared EXCEPT ![h.dst] = @ \cup {AdvanceSSA(ssa[h.dst])}]
        /\ rounds' = AddVarToRound(rounds, << <<h.dst, AdvanceSSA(ssa[h.dst])>> >>)
    BY <2>1 DEF Assign
  <2>3. AdvanceSSA(ssa[h.dst]) \in Nat /\ AdvanceSSA(ssa[h.dst]) \notin declared[h.dst]
    BY <2>1, NextFresh
  <2> QED BY <2>1, <2>2, <2>3, RoundsOne
<1>5. CASE StoreInfix
  <2> DEFINE yStart == runStart /\ h.x = Lit
             xn == IF h.x = Lit THEN 0 ELSE ReadNum(h.x, runStart)
             yn == IF h.y = Lit THEN 0 ELSE ReadNum(h.y, yStart)
             met == (IF runStart THEN {} ELSE {h.x}) \cup (IF yStart THEN {} ELSE {h.y})
             ts == Mention(Mention(trail, h.x, xn), h.y, yn)
  <2>1. h.do = "infix" /\ h.dst \in Vars
    BY <1>1, <1>5, ItemFields DEF StoreInfix, At
  <2>2. Assign(h.dst, Registered(met), GetSSA(Registered(met)[h.dst]) + 1, ts)
    BY <1>5 DEF StoreInfix
  <2>3. \A v \in Vars : Known(v)
    BY <1>3, <2>1 DEF Early
  <2>4. Registered(met) = ssa /\ ssa[h.dst] # Absent
    BY <2>1, <2>3, NothingRegistered DEF Known
  <2> HIDE DEF met, ts
  <2> QED BY <2>1, <2>2, <2>4, RoundsStored
<1>6. CASE StoreCopy
  <2>1. h.do = "copy" /\ h.dst \in Vars
    BY <1>1, <1>6, ItemFields DEF StoreCopy, At
  <2>2. Assign(h.dst, ssa, GetSSA(ssa[h.dst]) + 1, Mention(trail, h.x, GetSSA(ssa[h.dst])))
    BY <1>6 DEF StoreCopy
  <2>3. ssa[h.dst] # Absent
    BY <1>3, <2>1 DEF Early, Known
  <2> QED BY <2>1, <2>2, <2>3, RoundsStored
<1>7. CASE ParseBuiltIn
  <2>1. CASE h.do = "advance"
    BY <1>2, <1>7, <2>1 DEF ParseBuiltIn, At, genVars
  <2>2. CASE h.do # "advance"
    <3>1. h.do = "state" /\ h.dst \in Vars
      BY <1>1, <1>7, <2>2, ItemFields DEF ParseBuiltIn, At
    <3>2. Assign(h.dst, ssa, GetSSA(ssa[h.dst]) + 1, trail)
      BY <1>7, <2>2 DEF ParseBuiltIn, At
    <3>3. ssa[h.dst] # Absent
      BY <1>3, <3>1 DEF Early, Known
    <3> QED BY <3>1, <3>2, <3>3, RoundsStored
  <2> QED BY <2>1, <2>2
<1>8. CASE ConstantRule
  <2>1. h.do = "global" /\ h.v \in Vars
    BY <1>1, <1>8, ItemFields DEF ConstantRule, At
  <2>2. ssa[h.v] = Absent
    <3>1. h = agenda[1] /\ 1 \in DOMAIN agenda
      BY <1>1
    <3> QED BY <2>1, <3>1 DEF GlobalsFirst
  <2>3. AdvanceSSA(ssa[h.v]) = 0 /\ 0 \in Nat /\ 0 \notin declared[h.v]
    BY <2>1, <2>2, NextFresh DEF AdvanceSSA
  <2>4. /\ declared' = [declared EXCEPT ![h.v] = @ \cup {0}]
        /\ rounds' = AddVarToRound(rounds, << <<h.v, 0>> >>)
    BY <1>8, <2>3 DEF ConstantRule
  <2> QED BY <2>1, <2>3, <2>4, RoundsOne
<1>9. CASE StoreRound
  <2>1. declared' = declared /\ (rounds' = rounds \/ rounds' = Append(rounds, <<>>))
    BY <1>9 DEF StoreRound
  <2> QED BY <1>1, <2>1, RoundsOpened
<1>10. CASE CapConditional
  <2> DEFINE used == ForkVars(CondFork(h.true))
             phi  == [v \in Vars |-> AdvanceSSA(ssa[v])]
  <2>1. PhisAdded(used, phi)
    BY <1>10 DEF CapConditional, PhisAdded
  <2>2. used \in SUBSET Vars
    BY DEF ForkVars
  <2>3. \A v \in Vars : phi[v] = AdvanceSSA(ssa[v])
    OBVIOUS
  <2> HIDE DEF used, phi
  <2> QED BY <2>1, <2>2, <2>3, PhisListed
<1>11. CASE CapRunParallel
  <2> DEFINE used == ForkVars(Last(forks))
             phi  == [v \in Vars |-> AdvanceSSA(ssa[v])]
  <2>1. PhisAdded(used, phi)
    BY <1>11 DEF CapRunParallel, PhisAdded
  <2>2. used \in SUBSET Vars
    BY DEF ForkVars
  <2>3. \A v \in Vars : phi[v] = AdvanceSSA(ssa[v])
    OBVIOUS
  <2> HIDE DEF used, phi
  <2> QED BY <2>1, <2>2, <2>3, PhisListed
<1>12. CASE \/ ParseFunction \/ ParseBlock \/ ParseTerm \/ ParseElse \/ EndFalse \/ ParseCmp
            \/ ParseCall \/ EndParseCall \/ ExecuteCallstack \/ RunOption \/ RunCall
            \/ EndRunCall \/ EndRunOption
  <2>1. UNCHANGED <<rounds, declared>>
    BY <1>12 DEF ParseFunction, ParseBlock, ParseTerm, ParseElse, EndFalse, ParseCmp, ParseCall,
           EndParseCall, ExecuteCallstack, RunOption, RunCall, EndRunCall, EndRunOption, genVars
  <2> QED BY <1>2, <2>1
<1> QED BY <1>4, <1>5, <1>6, <1>7, <1>8, <1>9, <1>10, <1>11, <1>12 DEF Step

\* What RoundsHold says place by place, RoundsComplete says by counting.
LEMMA RoundsCounted ==
  ASSUME TypeOK, RoundsHold(rounds, declared)
  PROVE  RoundsComplete
<1> DEFINE places == UNION {{i} \X DOMAIN rounds[i] : i \in DOMAIN rounds}
           recorded == {rounds[p[1]][p[2]] : p \in places}
           f == [p \in places |-> rounds[p[1]][p[2]]]
<1>1. rounds \in Seq(Seq(Vars \X Nat)) /\ declared \in [Vars -> SUBSET Nat]
  BY DEF TypeOK
<1>2. \A p \in places : p[1] \in DOMAIN rounds /\ p[2] \in DOMAIN rounds[p[1]] /\ p = <<p[1], p[2]>>
  OBVIOUS
<1>3. \A i \in DOMAIN rounds : \A j \in DOMAIN rounds[i] : <<i, j>> \in places
  OBVIOUS
<1>4. \A i \in DOMAIN rounds : \A j \in DOMAIN rounds[i] : rounds[i][j] \in Vars \X Nat
  BY <1>1
<1>5. recorded = UNION {{v} \X declared[v] : v \in Vars}
  <2>1. ASSUME NEW p \in places
        PROVE  rounds[p[1]][p[2]] \in UNION {{v} \X declared[v] : v \in Vars}
    <3> DEFINE e == rounds[p[1]][p[2]]
    <3>1. e \in Vars \X Nat /\ e[2] \in declared[e[1]]
      BY <1>2, <1>4 DEF RoundsHold
    <3> HIDE DEF e
    <3>2. e[1] \in Vars /\ e \in {e[1]} \X declared[e[1]]
      BY <3>1
    <3>3. e \in UNION {{v} \X declared[v] : v \in Vars}
      BY <3>2
    <3> QED BY <3>3 DEF e
  <2>2. ASSUME NEW v \in Vars, NEW n \in declared[v] PROVE <<v, n>> \in recorded
    <3>1. PICK i \in DOMAIN rounds : \E j \in DOMAIN rounds[i] : rounds[i][j] = <<v, n>>
      BY DEF RoundsHold
    <3>2. PICK j \in DOMAIN rounds[i] : rounds[i][j] = <<v, n>>
      BY <3>1
    <3>3. <<i, j>> \in places
      BY <1>3
    <3> HIDE DEF places
    <3> QED BY <3>2, <3>3
  <2> HIDE DEF places
  <2> QED BY <2>1, <2>2
<1>6. f \in Bijection(places, recorded)
  <2>1. ASSUME NEW p \in places, NEW q \in places, f[p] = f[q] PROVE p = q
    <3>1. rounds[p[1]][p[2]] = rounds[q[1]][q[2]]
      BY <2>1
    <3>2. p[1] = q[1] /\ p[2] = q[2]
      BY <1>2, <3>1 DEF RoundsHold
    <3> QED BY <1>2, <3>2
  <2> HIDE DEF places
  <2>2. f \in [places -> recorded] /\ \A t \in recorded : \E p \in places : f[p] = t
    OBVIOUS
  <2> HIDE DEF f, recorded
  <2>3. f \in Injection(places, recorded)
    BY <2>1, <2>2 DEF Injection, IsInjective
  <2>4. f \in Surjection(places, recorded)
    BY <2>2 DEF Surjection
  <2> QED BY <2>3, <2>4 DEF Bijection
<1>7. IsFiniteSet(places)
  <2> DEFINE Row(i) == {i} \X DOMAIN rounds[i]
             rows == {Row(i) : i \in DOMAIN rounds}
             g == [i \in DOMAIN rounds |-> Row(i)]
  <2>1. ASSUME NEW i \in DOMAIN rounds PROVE IsFiniteSet(Row(i))
    <3>1. PICK n \in Nat : DOMAIN rounds[i] = 1..n
      BY <1>1
    <3>2. 1 \in Int /\ n \in Int
      OBVIOUS
    <3>3. IsFiniteSet(1..n)
      BY <3>2, FS_Interval
    <3>4. IsFiniteSet({i})
      BY FS_Singleton
    <3>5. IsFiniteSet({i} \X (1..n))
      BY <3>3, <3>4, FS_Product
    <3> QED BY <3>1, <3>5
  <2>2. IsFiniteSet(DOMAIN rounds)
    <3>1. PICK n \in Nat : DOMAIN rounds = 1..n
      BY <1>1
    <3>2. IsFiniteSet(1..n)
      BY FS_Interval
    <3> QED BY <3>1, <3>2
  <2> HIDE DEF Row
  <2>3. g \in Surjection(DOMAIN rounds, rows)
    BY DEF Surjection
  <2>4. IsFiniteSet(rows)
    BY <2>2, <2>3, FS_Surjection
  <2>5. \A T \in rows : IsFiniteSet(T)
    BY <2>1
  <2>6. IsFiniteSet(UNION rows)
    BY <2>4, <2>5, FS_UNION
  <2> QED BY <2>6 DEF Row
<1>8. Cardinality(recorded) = Cardinality(places)
  <2> HIDE DEF places, recorded, f
  <2>1. ExistsBijection(places, recorded)
    BY <1>6 DEF ExistsBijection
  <2> QED BY <1>7, <2>1, FS_Bijection
<1> QED BY <1>5, <1>8 DEF RoundsComplete

-----------------------------------------------------------------------------
(***************************************************************************)
(* RoundsComplete.                                                         *)
(***************************************************************************)
LEMMA InitRounds == Init /\ Initialised(code) => RInv
<1> SUFFICES ASSUME Init, Initialised(code) PROVE RInv
  OBVIOUS
<1> DEFINE gs == [i \in DOMAIN code.globals |-> Global(code.globals[i])]
           g  == Function(Run, 1)
<1>1. code \in Modules
  BY ProgramsAssumption DEF Init
<1>2. code.globals \in Seq(Vars)
  BY <1>1 DEF Modules
<1>3. PICK n \in Nat : n = Len(code.globals) /\ DOMAIN code.globals = 1..n
  BY <1>2
<1>4. gs = [i \in 1..n |-> Global(code.globals[i])] /\ \A i \in 1..n : code.globals[i] \in Vars
  BY <1>2, <1>3
<1>5. gs \in Seq(Items) /\ Len(gs) = n
  <2>1. \A i \in 1..n : Global(code.globals[i]) \in Items
    BY <1>4, ItemsMade
  <2>2. \A S : (\A i \in 1..n : Global(code.globals[i]) \in S)
                 => /\ [i \in 1..n |-> Global(code.globals[i])] \in Seq(S)
                    /\ Len([i \in 1..n |-> Global(code.globals[i])]) = n
    OBVIOUS
  <2> QED BY <1>4, <2>1, <2>2
<1>6. g \in Items /\ g.do = "function" /\ g.f = Run /\ g.i = 1
  BY ItemsMade, ConstantsAssumption DEF Function
<1>7. \A i \in 1..n : gs[i].do = "global" /\ gs[i].v = code.globals[i]
  BY <1>4 DEF Global
<1>8. agenda = gs \o <<g>>
  BY DEF Init
<1> HIDE DEF gs, g
<1>9. /\ DOMAIN agenda = 1..(n + 1) /\ agenda[n + 1] = g
      /\ \A i \in 1..n : agenda[i] = gs[i]
  BY <1>5, <1>6, <1>8
<1>10. ASSUME NEW v \in Vars PROVE Coming(v)
  <2>1. ssa[v] = Absent /\ declared[v] = {} /\ returnVoid = 0 /\ callstack = <<>>
    BY DEF Init
  <2>2. CASE \E i \in DOMAIN code.globals : code.globals[i] = v
    <3>1. PICK i \in 1..n : code.globals[i] = v
      BY <1>3, <2>2
    <3>2. i \in 1..(n + 1) /\ \A j \in 1..(i - 1) : j \in 1..n
      OBVIOUS
    <3>3. Gives(code, agenda[i], v)
      BY <1>7, <1>9, <3>1 DEF Gives
    <3>4. \A j \in 1..(i - 1) : agenda[j].do \in Early
      BY <1>7, <1>9, <3>2 DEF Early
    <3>5. Comes(code, agenda, v)
      BY <1>9, <3>2, <3>3, <3>4 DEF Comes
    <3> QED BY <2>1, <3>5 DEF Coming
  <2>3. CASE StoredFirst(code, v)
    <3>1. PICK k \in Nat : k = n + 1
      OBVIOUS
    <3>2. k \in 1..(n + 1) /\ \A j \in 1..(k - 1) : j \in 1..n
      BY <3>1
    <3>3. Gives(code, agenda[k], v)
      BY <1>6, <1>9, <2>3, <3>1 DEF Gives
    <3>4. \A j \in 1..(k - 1) : agenda[j].do \in Early
      BY <1>7, <1>9, <3>2 DEF Early
    <3>5. Comes(code, agenda, v)
      BY <1>9, <3>2, <3>3, <3>4 DEF Comes
    <3> QED BY <2>1, <3>5 DEF Coming
  <2> QED BY <2>2, <2>3 DEF Initialised
<1>11. Started
  BY <1>10 DEF Started
<1>12. GlobalsFirst
  <2> SUFFICES ASSUME NEW i \in 1..(n + 1), agenda[i].do = "global"
               PROVE  /\ ssa[agenda[i].v] = Absent
                      /\ \A j \in 1..(i - 1) : agenda[j].do = "global" /\ agenda[j].v # agenda[i].v
    BY <1>9 DEF GlobalsFirst
  <2>1. i # n + 1
    BY <1>6, <1>9
  <2>2. i \in 1..n /\ \A j \in 1..(i - 1) : j \in 1..n /\ j # i
    BY <2>1
  <2>3. agenda[i].v = code.globals[i] /\ code.globals[i] \in Vars
    BY <1>4, <1>7, <1>9, <2>2
  <2>4. ssa[agenda[i].v] = Absent
    BY <2>3 DEF Init
  <2>5. ASSUME NEW j \in 1..(i - 1) PROVE agenda[j].do = "global" /\ agenda[j].v # agenda[i].v
    <3>1. j \in 1..n /\ j # i
      BY <2>2
    <3>2. agenda[j].do = "global" /\ agenda[j].v = code.globals[j]
      BY <1>7, <1>9, <3>1
    <3>3. code.globals[i] # code.globals[j]
      BY <1>3, <2>2, <3>1 DEF Initialised
    <3> QED BY <2>3, <3>2, <3>3
  <2> QED BY <2>4, <2>5
<1>13. RoundsHold(rounds, declared)
  BY DEF Init, RoundsHold
<1> QED BY <1>11, <1>12, <1>13 DEF RInv

LEMMA NextRounds == IInv /\ RInv /\ [Next]_vars => RInv'
<1> SUFFICES ASSUME IInv, RInv, [Next]_vars PROVE RInv'
  OBVIOUS
<1>1. CASE Step
  <2>1. Initialised(code)'
    <3>1. code' = code
      BY <1>1, CodeKept
    <3> QED BY <3>1 DEF RInv
  <2> QED BY <1>1, <2>1, StepStarts, StepGlobals, StepRounds DEF RInv
<1>2. CASE UNCHANGED vars
  <2>1. /\ code' = code /\ agenda' = agenda /\ rounds' = rounds /\ ssa' = ssa
        /\ declared' = declared /\ returnVoid' = returnVoid /\ callstack' = callstack
    BY <1>2 DEF vars, genVars, ctlVars
  <2>2. Started'
    BY <2>1 DEF RInv, Started, Known, Coming
  <2>3. GlobalsFirst'
    BY <2>1 DEF RInv, GlobalsFirst
  <2> QED BY <2>1, <2>2, <2>3 DEF RInv
<1> QED BY <1>1, <1>2 DEF Next, Finished

\* RoundVars holds every declared version in exactly one place and nothing else
\* (addVarToRound), in every model that creates its instances first: the
\* assertions expanded over RoundVars miss no version.
THEOREM RoundsKept == Spec /\ Initialised(code) => []RoundsComplete
<1>1. Init /\ Initialised(code) => IInv /\ RInv
  BY InitInv, InitRounds
<1>2. IInv /\ RInv /\ [Next]_vars => (IInv /\ RInv)'
  BY NextInv, NextRounds
<1>3. IInv /\ RInv => RoundsComplete
  BY RoundsCounted DEF IInv, RInv
<1> QED BY <1>1, <1>2, <1>3, PTL DEF Spec

-----------------------------------------------------------------------------
(***************************************************************************)
(* The ends of branches and options.                                       *)
(***************************************************************************)

\* Numbers only grow.
LEMMA NumbersGrow ==
  ASSUME IInv, Step
  PROVE  /\ ssa \in [Vars -> Nat \cup {Absent}] /\ ssa' \in [Vars -> Nat \cup {Absent}]
         /\ \A v \in Vars : /\ GetSSA(ssa[v]) \in Nat /\ GetSSA(ssa'[v]) \in Nat
                            /\ GetSSA(ssa[v]) <= GetSSA(ssa'[v])
<1>1. IInv'
  BY NextInv DEF Next
<1>2. ssa \in [Vars -> Nat \cup {Absent}] /\ ssa' \in [Vars -> Nat \cup {Absent}]
  BY <1>1 DEF IInv, TypeOK
<1>3. \A v \in Vars : ssa'[v] >= ssa[v]
  BY StepGrows DEF Grows
<1>4. \A m, n \in Nat \cup {Absent} :
        /\ GetSSA(m) \in Nat
        /\ n >= m => GetSSA(m) <= GetSSA(n)
  BY DEF GetSSA, Absent
<1> QED BY <1>2, <1>3, <1>4

\* What was reached stays reached.
LEMMA ReachedStill ==
  ASSUME IInv, Step
  PROVE  /\ \A ts \in Trails : Reached(ssa, ts) => Reached(ssa', ts)
         /\ ForksUpTo(ssa) \subseteq ForksUpTo(ssa')
<1>1. \A v \in Vars : /\ GetSSA(ssa[v]) \in Nat /\ GetSSA(ssa'[v]) \in Nat
                      /\ GetSSA(ssa[v]) <= GetSSA(ssa'[v])
  BY NumbersGrow
<1>2. \A e, m, n \in Nat : e <= m /\ m <= n => e <= n
  OBVIOUS
<1>3. ASSUME NEW ts \in Trails, Reached(ssa, ts) PROVE Reached(ssa', ts)
  <2> SUFFICES ASSUME NEW v \in Vars PROVE ts[v].end <= GetSSA(ssa'[v])
    BY DEF Reached
  <2>1. ts[v].end \in Nat /\ ts[v].end <= GetSSA(ssa[v])
    BY <1>3 DEF Trails, Reached
  <2> QED BY <1>1, <1>2, <2>1
<1>4. ASSUME NEW fork \in ForksUpTo(ssa) PROVE fork \in ForksUpTo(ssa')
  <2>1. fork \in ForkType
    BY DEF ForksUpTo
  <2>2. ASSUME NEW v \in Vars PROVE fork[v] \in Seq(UpTo(GetSSA(ssa'[v])))
    <3>1. fork[v] \in Seq(UpTo(GetSSA(ssa[v])))
      BY DEF ForksUpTo
    <3>2. UpTo(GetSSA(ssa[v])) \subseteq UpTo(GetSSA(ssa'[v]))
      BY <1>1, <1>2 DEF UpTo, ForkChoices
    <3> QED BY <3>1, <3>2
  <2> QED BY <2>1, <2>2 DEF ForksUpTo
<1> QED BY <1>3, <1>4

\* The calls that are open keep lists whose ends were handed out.
LEMMA StepKept ==
  ASSUME IInv, Step, EndsReached, NoCopies(code)
  PROVE  \A i \in DOMAIN agenda' : agenda'[i] \in Kept(ssa')
<1>1. agenda \in Seq(Items) /\ agenda # <<>> /\ trail \in Trails
  BY StepMakes DEF IInv, TypeOK
<1>2. \A ts \in Trails : Reached(ssa, ts) => Reached(ssa', ts)
  BY ReachedStill
<1>3. Reached(ssa', trail)
  BY <1>1, <1>2 DEF EndsReached
<1>4. ASSUME NEW h \in Kept(ssa) PROVE h \in Kept(ssa')
  <2>1. h \in Items /\ h.do # "copy"
    BY DEF Kept
  <2>2. h.do \in {"else", "capCond", "endOption"} => h.outer \in Trails
    BY <2>1, ItemFields
  <2>3. h.do = "capCond" => h.true \in Trails
    BY <2>1, ItemFields
  <2> QED BY <1>2, <2>1, <2>2, <2>3 DEF Kept
<1>5. \A i \in DOMAIN agenda : agenda[i] \in Kept(ssa')
  BY <1>4 DEF EndsReached
<1>6. ASSUME NEW h \in Made PROVE h \in Kept(ssa')
  <2>1. h \in Items
    BY DEF Made
  <2>2. h.do # "copy"
    BY DEF Made, NoCopies
  <2>3. h.do \in {"else", "endOption"} => Reached(ssa', h.outer)
    BY <1>3 DEF Made
  <2>4. h.do = "capCond" => Reached(ssa', h.outer) /\ Reached(ssa', h.true)
    <3>1. Head(agenda) = agenda[1] /\ 1 \in DOMAIN agenda
      BY <1>1
    <3>2. Head(agenda).do = "else" => Reached(ssa', Head(agenda).outer)
      BY <1>5, <3>1 DEF Kept
    <3> QED BY <1>3, <3>2 DEF Made
  <2> QED BY <2>1, <2>2, <2>3, <2>4 DEF Kept
<1>7. Made \subseteq Kept(ssa')
  BY <1>6
<1> QED BY <1>5, <1>7, AgendaNext

\* Lists of rules: an empty one, one more version, two lists.
LEMMA ReachedMade ==
  ASSUME NEW ns \in [Vars -> Nat \cup {Absent}]
  PROVE  /\ Reached(ns, NoTrails)
         /\ \A ts \in Trails, v \in Operands, n \in Nat :
              Reached(ns, ts) /\ (v # Lit => n <= GetSSA(ns[v])) => Reached(ns, Mention(ts, v, n))
         /\ \A ts, us \in Trails : Reached(ns, ts) /\ Reached(ns, us) => Reached(ns, Joined(ts, us))
<1>1. \A v \in Vars : GetSSA(ns[v]) \in Nat
  BY Numbers
<1>2. Reached(ns, NoTrails)
  BY <1>1 DEF Reached, NoTrails, NoTrail
<1>3. ASSUME NEW ts \in Trails, NEW v \in Operands, NEW n \in Nat, Reached(ns, ts),
             v # Lit => n <= GetSSA(ns[v])
      PROVE  Reached(ns, Mention(ts, v, n))
  <2>1. CASE v = Lit
    BY <1>3, <2>1 DEF Mention
  <2>2. CASE v # Lit
    <3>1. v \in Vars /\ ts[v].end \in Nat /\ ts[v].end <= GetSSA(ns[v]) /\ n <= GetSSA(ns[v])
      BY <1>3, <2>2 DEF Operands, Trails, Reached
    <3>2. Larger(ts[v].end, n) <= GetSSA(ns[v])
      BY <3>1 DEF Larger
    <3>3. Mention(ts, v, n) = [ts EXCEPT ![v] = AddChoiceValue(ts[v], n)]
      BY <2>2 DEF Mention
    <3>4. Mention(ts, v, n)[v].end = Larger(ts[v].end, n)
      BY <3>1, <3>3 DEF Trails, AddChoiceValue
    <3>5. \A w \in Vars : w # v => Mention(ts, v, n)[w] = ts[w]
      BY <3>3 DEF Trails
    <3> QED BY <1>3, <3>2, <3>4, <3>5 DEF Reached
  <2> QED BY <2>1, <2>2
<1>4. ASSUME NEW ts \in Trails, NEW us \in Trails, Reached(ns, ts), Reached(ns, us)
      PROVE  Reached(ns, Joined(ts, us))
  <2> SUFFICES ASSUME NEW v \in Vars PROVE Joined(ts, us)[v].end <= GetSSA(ns[v])
    BY DEF Reached
  <2>1. /\ ts[v].end \in Nat /\ us[v].end \in Nat
        /\ ts[v].end <= GetSSA(ns[v]) /\ us[v].end <= GetSSA(ns[v])
    BY <1>4 DEF Trails, Reached
  <2>2. Joined(ts, us)[v].end = Larger(ts[v].end, us[v].end)
    BY DEF Joined, JoinTrails
  <2> QED BY <2>1, <2>2 DEF Larger
<1> QED BY <1>2, <1>3, <1>4

\* The version that an operand stands for was handed out.
LEMMA ReadReached ==
  ASSUME IInv, NEW v \in Vars, NEW start \in BOOLEAN
  PROVE  ReadNum(v, start) \in 0..GetSSA(ssa[v]) /\ GetStartState(phis[v]) \in 0..GetSSA(ssa[v])
<1>1. ssa[v] \in Nat \cup {Absent} /\ phis[v] \in Seq(NonEmpty(0..ssa[v]))
  BY DEF IInv, TypeOK, PhisHandedOut
<1>2. GetSSA(ssa[v]) \in Nat
  BY <1>1, Numbers
<1>3. GetStartState(phis[v]) \in 0..GetSSA(ssa[v])
  <2>1. CASE ssa[v] = Absent
    <3>1. phis[v] = <<>>
      BY <1>1, <2>1, AbsentStack
    <3>2. GetStartState(phis[v]) = 0
      BY <3>1 DEF GetStartState
    <3> QED BY <1>2, <3>2
  <2>2. CASE ssa[v] # Absent
    <3>1. GetSSA(ssa[v]) = ssa[v] /\ 0 \in 0..ssa[v]
      BY <1>1, <2>2 DEF GetSSA
    <3> QED BY <1>1, <3>1, StackReads
  <2> QED BY <2>1, <2>2
<1> QED BY <1>2, <1>3 DEF ReadNum

\* A store mentions the version it hands out.
LEMMA TrailStored ==
  ASSUME IInv, Step, NEW v \in Vars, NEW base \in [Vars -> Nat \cup {Absent}], NEW num,
         NEW ts \in Trails, Reached(ssa, ts), Assign(v, base, num, ts)
  PROVE  Reached(ssa', trail')
<1> DEFINE id == AdvanceSSA(base[v])
<1>1. id \in Nat /\ GetSSA(id) = id
  BY Numbers
<1>2. ssa' = [base EXCEPT ![v] = id] /\ trail' = Mention(ts, v, id)
  BY DEF Assign
<1>3. ssa'[v] = id
  BY <1>2
<1>4. Reached(ssa', ts) /\ ssa' \in [Vars -> Nat \cup {Absent}]
  BY ReachedStill, NumbersGrow
<1>5. id <= GetSSA(ssa'[v]) /\ v \in Operands
  BY <1>1, <1>3 DEF Operands
<1> HIDE DEF id
<1> QED BY <1>1, <1>2, <1>4, <1>5, ReachedMade

\* A list that mentions the operands of an instruction.
LEMMA TrailRead ==
  ASSUME IInv, NEW ts \in Trails, Reached(ssa, ts), NEW v \in Operands, NEW start \in BOOLEAN,
         NEW n, n = IF v = Lit THEN 0 ELSE ReadNum(v, start)
  PROVE  Mention(ts, v, n) \in Trails /\ Reached(ssa, Mention(ts, v, n)) /\ n \in Nat
<1>1. ssa \in [Vars -> Nat \cup {Absent}] /\ \A w \in Vars : GetSSA(ssa[w]) \in Nat
  BY Reads DEF IInv, TypeOK
<1>2. n \in Nat /\ (v # Lit => n <= GetSSA(ssa[v]))
  <2>1. CASE v = Lit
    BY <2>1
  <2>2. CASE v # Lit
    <3>1. v \in Vars
      BY <2>2 DEF Operands
    <3>2. n \in 0..GetSSA(ssa[v])
      BY <2>2, <3>1, ReadReached
    <3> QED BY <1>1, <3>1, <3>2
  <2> QED BY <2>1, <2>2
<1>3. Mention(ts, v, n) \in Trails
  BY <1>2, Mentions
<1> QED BY <1>1, <1>2, <1>3, ReachedMade

\* The list of rules under construction.
LEMMA StepTrail ==
  ASSUME IInv, EndsReached, NoCopies(code), Step
  PROVE  Reached(ssa', trail')
<1> DEFINE h == Head(agenda)
<1>1. /\ agenda \in Seq(Items) /\ agenda # <<>> /\ h \in Items
      /\ trail \in Trails /\ runStart \in BOOLEAN
  BY StepMakes DEF IInv, TypeOK
<1>2. ssa \in [Vars -> Nat \cup {Absent}] /\ ssa' \in [Vars -> Nat \cup {Absent}]
  BY NumbersGrow
<1>3. Reached(ssa, trail) /\ h \in Kept(ssa)
  <2>1. h = agenda[1] /\ 1 \in DOMAIN agenda
    BY <1>1
  <2> QED BY <2>1 DEF EndsReached
<1>4. CASE trail' = trail
  BY <1>1, <1>3, <1>4, ReachedStill
<1>5. CASE trail' = NoTrails
  BY <1>2, <1>5, ReachedMade
<1>6. CASE StoreConst
  <2>1. h.dst \in Vars /\ Assign(h.dst, ssa, AdvanceSSA(ssa[h.dst]), trail)
    BY <1>1, <1>6, ItemFields DEF StoreConst, At
  <2> QED BY <1>1, <1>2, <1>3, <2>1, TrailStored
<1>7. CASE StoreInfix
  <2> DEFINE yStart == runStart /\ h.x = Lit
             xn == IF h.x = Lit THEN 0 ELSE ReadNum(h.x, runStart)
             yn == IF h.y = Lit THEN 0 ELSE ReadNum(h.y, yStart)
             base == Registered((IF runStart THEN {} ELSE {h.x}) \cup (IF yStart THEN {} ELSE {h.y}))
             ts == Mention(trail, h.x, xn)
             us == Mention(ts, h.y, yn)
  <2>1. h.dst \in Vars /\ h.x \in Operands /\ h.y \in Operands
    BY <1>1, <1>7, ItemFields DEF StoreInfix, At
  <2>2. Assign(h.dst, base, GetSSA(base[h.dst]) + 1, us)
    BY <1>7 DEF StoreInfix
  <2>3. base \in [Vars -> Nat \cup {Absent}]
    BY Reads
  <2>4. yStart \in BOOLEAN
    BY <1>1
  <2> HIDE DEF base, yStart
  <2>5. ts \in Trails /\ Reached(ssa, ts)
    BY <1>1, <1>3, <2>1, TrailRead
  <2> HIDE DEF ts
  <2>6. us \in Trails /\ Reached(ssa, us)
    BY <2>1, <2>4, <2>5, TrailRead
  <2> HIDE DEF us
  <2> QED BY <2>1, <2>2, <2>3, <2>6, TrailStored
<1>8. CASE ParseBuiltIn
  <2>1. CASE h.do = "advance"
    BY <1>4, <1>8, <2>1 DEF ParseBuiltIn, At, ruleVars
  <2>2. CASE h.do # "advance"
    <3>1. h.dst \in Vars
      BY <1>1, <1>8, <2>2, ItemFields DEF ParseBuiltIn, At
    <3>2. Assign(h.dst, ssa, GetSSA(ssa[h.dst]) + 1, trail)
      BY <1>8, <2>2 DEF ParseBuiltIn, At
    <3> QED BY <1>1, <1>2, <1>3, <3>1, <3>2, TrailStored
  <2> QED BY <2>1, <2>2
<1>9. ~StoreCopy
  BY <1>3 DEF StoreCopy, At, Kept
<1>10. CASE EndRunOption
  <2>1. h.do = "endOption" /\ h.outer \in Trails /\ trail' = Joined(h.outer, trail)
    BY <1>1, <1>10, ItemFields DEF EndRunOption, At
  <2>2. Reached(ssa', h.outer) /\ Reached(ssa', trail)
    BY <1>1, <1>3, <2>1, ReachedStill DEF Kept
  <2> QED BY <1>1, <1>2, <2>1, <2>2, ReachedMade
<1>11. CASE CapConditional
  <2> DEFINE fork == CondFork(h.true)
             used == ForkVars(fork)
             phi(v) == AdvanceSSA(ssa[v])
             start(v) == GetStartState(phis[v])
             all(v) == JoinTrails(h.outer[v], JoinTrails(h.true[v], trail[v]))
             last(v) == IF Len(fork[v]) = 1 THEN start(v) ELSE phi(v)
  <2>1. h.do = "capCond" /\ h.outer \in Trails /\ h.true \in Trails
    BY <1>1, <1>11, ItemFields DEF CapConditional, At
  <2>2. \A v \in Vars : /\ v \in used =>
                             trail'[v] = AddChoiceValue(AddChoiceValue(all(v), phi(v)), last(v))
                        /\ v \notin used => trail'[v] = h.outer[v]
    BY <1>11 DEF CapConditional
  <2>3. \A v \in Vars : v \in used => ssa'[v] = phi(v)
    BY <1>11 DEF CapConditional
  <2>4. Reached(ssa', h.outer) /\ Reached(ssa', h.true) /\ Reached(ssa', trail)
    BY <1>1, <1>3, <2>1, ReachedStill DEF Kept
  <2> HIDE DEF fork, used
  <2> SUFFICES ASSUME NEW v \in Vars PROVE trail'[v].end <= GetSSA(ssa'[v])
    BY DEF Reached
  <2>5. CASE v \notin used
    BY <2>2, <2>4, <2>5 DEF Reached
  <2>6. CASE v \in used
    <3>1. phi(v) \in Nat /\ GetSSA(ssa'[v]) = phi(v) /\ GetSSA(ssa[v]) <= phi(v) /\ GetSSA(ssa[v]) \in Nat
      BY <1>2, <2>3, <2>6, Numbers
    <3>2. start(v) \in Nat /\ start(v) <= phi(v)
      <4>1. start(v) \in 0..GetSSA(ssa[v])
        BY ReadReached
      <4> QED BY <3>1, <4>1
    <3>3. last(v) \in Nat /\ last(v) <= phi(v)
      BY <3>1, <3>2
    <3>4. /\ h.outer[v].end \in Nat /\ h.true[v].end \in Nat /\ trail[v].end \in Nat
          /\ h.outer[v].end <= phi(v) /\ h.true[v].end <= phi(v) /\ trail[v].end <= phi(v)
      BY <1>1, <2>1, <2>4, <3>1 DEF Trails, Reached
    <3>5. all(v).end \in Nat /\ all(v).end <= phi(v)
      BY <3>4 DEF JoinTrails, Larger
    <3> HIDE DEF phi, last, all
    <3>6. \A t, m, n : AddChoiceValue(AddChoiceValue(t, m), n).end = Larger(Larger(t.end, m), n)
      BY DEF AddChoiceValue
    <3>7. trail'[v].end = Larger(Larger(all(v).end, phi(v)), last(v))
      BY <2>2, <2>6, <3>6
    <3>8. Larger(Larger(all(v).end, phi(v)), last(v)) <= phi(v)
      BY <3>1, <3>3, <3>5 DEF Larger
    <3> QED BY <3>1, <3>7, <3>8
  <2> QED BY <2>5, <2>6
<1>12. CASE ParseTerm
  <2>1. trail' = trail \/ trail' = NoTrails
    BY <1>12 DEF ParseTerm
  <2> QED BY <1>4, <1>5, <2>1
<1>13. CASE ParseElse \/ RunOption
  BY <1>5, <1>13 DEF ParseElse, RunOption
<1>14. CASE \/ ParseFunction \/ ParseBlock \/ EndFalse \/ ParseCmp \/ ConstantRule \/ StoreRound
            \/ ParseCall \/ EndParseCall \/ ExecuteCallstack \/ RunCall \/ EndRunCall
            \/ CapRunParallel
  BY <1>4, <1>14 DEF ParseFunction, ParseBlock, EndFalse, ParseCmp, ConstantRule, StoreRound,
         ParseCall, EndParseCall, ExecuteCallstack, RunCall, EndRunCall, CapRunParallel, ruleVars
<1> QED BY <1>6, <1>7, <1>8, <1>9, <1>10, <1>11, <1>12, <1>13, <1>14 DEF Step

\* The choice made of one variable's rules.
LEMMA ChoiceReached ==
  ASSUME NEW ns, NEW ts \in Trails, Reached(ns, ts), NEW v \in Vars,
         NEW b \in {"true", "false", "option"}
  PROVE  Choice(ts[v], b) \in Seq(UpTo(GetSSA(ns[v])))
<1> DEFINE c == [branch |-> b, vals |-> ts[v].vals, end |-> ts[v].end]
<1>1. ts[v].vals \in SUBSET Nat /\ ts[v].end \in Nat /\ ts[v].end <= GetSSA(ns[v])
  BY DEF Trails, Reached
<1>2. c \in UpTo(GetSSA(ns[v]))
  BY <1>1 DEF UpTo, ForkChoices
<1>3. Choice(ts[v], b) \in {<<>>, <<c>>}
  BY DEF Choice
<1> HIDE DEF c
<1>4. \A S : c \in S => <<>> \in Seq(S) /\ <<c>> \in Seq(S)
  OBVIOUS
<1> QED BY <1>2, <1>3, <1>4

\* The forks.
LEMMA StepForks ==
  ASSUME IInv, EndsReached, Step
  PROVE  forks' \in Seq(ForksUpTo(ssa'))
<1> DEFINE h == Head(agenda)
<1>1. /\ agenda \in Seq(Items) /\ agenda # <<>> /\ h \in Items
      /\ trail \in Trails /\ level \in Nat
  BY StepMakes DEF IInv, TypeOK
<1>2. forks \in Seq(ForksUpTo(ssa'))
  BY ReachedStill DEF EndsReached
<1>3. Reached(ssa', trail)
  BY <1>1, ReachedStill DEF EndsReached
<1>4. CASE UNCHANGED forks
  BY <1>2, <1>4
<1>5. CASE ExecuteCallstack
  <2>1. forks' = forks \/ forks' = NewFork(forks, level, NoFork)
    BY <1>5 DEF ExecuteCallstack
  <2>2. NoFork \in ForksUpTo(ssa')
    <3>1. \A S : <<>> \in Seq(S)
      OBVIOUS
    <3> QED BY <3>1 DEF NoFork, ForksUpTo, ForkType
  <2>3. NewFork(forks, level, NoFork) \in Seq(ForksUpTo(ssa'))
    BY <1>1, <1>2, <2>2, ForkMade
  <2> QED BY <1>2, <2>1, <2>3
<1>6. CASE CapConditional
  <2> DEFINE fork == CondFork(h.true)
  <2>1. h.do = "capCond" /\ h.true \in Trails
    BY <1>1, <1>6, ItemFields DEF CapConditional, At
  <2>2. Reached(ssa', h.true)
    <3>1. h = agenda[1] /\ 1 \in DOMAIN agenda
      BY <1>1
    <3>2. Reached(ssa, h.true)
      BY <2>1, <3>1 DEF EndsReached, Kept
    <3> QED BY <2>1, <3>2, ReachedStill
  <2>3. ASSUME NEW v \in Vars
        PROVE  /\ Choice(h.true[v], "true") \o Choice(trail[v], "false")
                    \in Seq(UpTo(GetSSA(ssa'[v])))
               /\ Choice(h.true[v], "true") \o Choice(trail[v], "false") \in Seq(ForkChoices)
    <3>1. Choice(h.true[v], "true") \in Seq(UpTo(GetSSA(ssa'[v])))
      BY <2>1, <2>2, ChoiceReached
    <3>2. Choice(trail[v], "false") \in Seq(UpTo(GetSSA(ssa'[v])))
      BY <1>1, <1>3, ChoiceReached
    <3>3. Choice(h.true[v], "true") \o Choice(trail[v], "false") \in Seq(UpTo(GetSSA(ssa'[v])))
      BY <3>1, <3>2, ConcatProperties
    <3>4. UpTo(GetSSA(ssa'[v])) \subseteq ForkChoices
      BY DEF UpTo
    <3> QED BY <3>3, <3>4
  <2>4. fork \in ForksUpTo(ssa')
    BY <2>3 DEF CondFork, ForksUpTo, ForkType
  <2>5. forks' = forks \/ forks' = NewFork(forks, In(level), fork)
    BY <1>6 DEF CapConditional
  <2>6. In(level) \in Nat
    BY <1>1 DEF In
  <2> HIDE DEF fork
  <2>7. NewFork(forks, In(level), fork) \in Seq(ForksUpTo(ssa'))
    BY <1>2, <2>4, <2>6, ForkMade
  <2> QED BY <1>2, <2>5, <2>7
<1>7. CASE EndRunOption
  <2>1. forks # <<>>
    <3>1. h = agenda[1] /\ 1 \in DOMAIN agenda /\ h.do = "endOption"
      BY <1>1, <1>7 DEF EndRunOption, At
    <3> QED BY <3>1 DEF IInv, ForkOpen, InRun
  <2>2. PICK n \in Nat : n = Len(forks) /\ n \in DOMAIN forks
    BY <1>2, <2>1
  <2> DEFINE last == forks[n]
             fork == [v \in Vars |-> last[v] \o Choice(trail[v], "option")]
  <2>3. last \in ForksUpTo(ssa')
    BY <1>2, <2>2
  <2>4. forks' = [forks EXCEPT ![n] = fork]
    BY <1>7, <2>2 DEF EndRunOption
  <2> HIDE DEF last
  <2>5. ASSUME NEW v \in Vars
        PROVE  /\ last[v] \o Choice(trail[v], "option") \in Seq(UpTo(GetSSA(ssa'[v])))
               /\ last[v] \o Choice(trail[v], "option") \in Seq(ForkChoices)
    <3>1. last[v] \in Seq(UpTo(GetSSA(ssa'[v])))
      BY <2>3 DEF ForksUpTo
    <3>2. Choice(trail[v], "option") \in Seq(UpTo(GetSSA(ssa'[v])))
      BY <1>1, <1>3, ChoiceReached
    <3>3. last[v] \o Choice(trail[v], "option") \in Seq(UpTo(GetSSA(ssa'[v])))
      BY <3>1, <3>2, ConcatProperties
    <3>4. UpTo(GetSSA(ssa'[v])) \subseteq ForkChoices
      BY DEF UpTo
    <3> QED BY <3>3, <3>4
  <2>6. fork \in ForksUpTo(ssa')
    BY <2>5 DEF ForksUpTo, ForkType
  <2> HIDE DEF fork
  <2> QED BY <1>2, <2>2, <2>4, <2>6
<1>8. CASE \/ ParseFunction \/ ParseBlock \/ ParseTerm \/ ParseElse \/ EndFalse
           \/ StoreConst \/ StoreInfix \/ StoreCopy \/ ParseCmp \/ ParseBuiltIn
           \/ ConstantRule \/ StoreRound \/ ParseCall \/ EndParseCall \/ RunOption \/ RunCall
           \/ EndRunCall \/ CapRunParallel
  BY <1>4, <1>8 DEF ParseFunction, ParseBlock, ParseTerm, ParseElse, EndFalse, StoreConst,
         StoreInfix, StoreCopy, ParseCmp, ParseBuiltIn, ConstantRule, StoreRound, ParseCall,
         EndParseCall, RunOption, RunCall, EndRunCall, CapRunParallel, ruleVars
<1> QED BY <1>5, <1>6, <1>7, <1>8 DEF Step

-----------------------------------------------------------------------------
(***************************************************************************)
(* Results.                                                                *)
(***************************************************************************)

\* The changes cs of one variable lead from each version in ds to older ones.
LeadsBack(cs, ds) ==
  /\ \A n \in ds \ {0} : \E i \in DOMAIN cs : cs[i].id = n
  /\ \A i \in DOMAIN cs :
       cs[i].parent \in (IF cs[i].id = 0 THEN {Absent} ELSE ds \cap 0..(cs[i].id - 1))

\* The changes in new do so for the versions in dt that are not in ds.
Follows(new, ds, dt) ==
  /\ ds \subseteq dt
  /\ \A n \in dt : n = 0 \/ n \in ds \/ \E i \in DOMAIN new : new[i].id = n
  /\ \A i \in DOMAIN new :
       new[i].parent \in (IF new[i].id = 0 THEN {Absent} ELSE dt \cap 0..(new[i].id - 1))

LEMMA LeadsFurther ==
  ASSUME NEW cs \in Seq(VarChanges), NEW new \in Seq(VarChanges), NEW ds, NEW dt,
         LeadsBack(cs, ds), Follows(new, ds, dt)
  PROVE  LeadsBack(cs \o new, dt)
<1>0. /\ ds \subseteq dt
      /\ \A n \in dt : n = 0 \/ n \in ds \/ \E i \in DOMAIN new : new[i].id = n
      /\ \A i \in DOMAIN new :
           new[i].parent \in (IF new[i].id = 0 THEN {Absent} ELSE dt \cap 0..(new[i].id - 1))
  BY DEF Follows
<1>1. PICK k \in Nat : k = Len(cs) /\ DOMAIN cs = 1..k
  OBVIOUS
<1>2. PICK l \in Nat : l = Len(new) /\ DOMAIN new = 1..l
  OBVIOUS
<1> DEFINE all == cs \o new
<1>3. DOMAIN all = 1..(k + l)
      /\ (\A i \in 1..k : all[i] = cs[i]) /\ (\A i \in (k + 1)..(k + l) : all[i] = new[i - k])
  BY <1>1, <1>2
<1>4. \A i \in 1..(k + l) : i \in 1..k \/ (i \in (k + 1)..(k + l) /\ i - k \in 1..l)
  OBVIOUS
<1>5. \A i \in 1..l : k + i \in (k + 1)..(k + l) /\ k + i \in 1..(k + l) /\ k + i - k = i
  OBVIOUS
<1>6. \A i \in 1..k : i \in 1..(k + l)
  OBVIOUS
<1> HIDE DEF all
<1>7. ASSUME NEW n \in dt \ {0} PROVE \E i \in DOMAIN all : all[i].id = n
  <2>1. CASE n \in ds
    <3>1. PICK i \in DOMAIN cs : cs[i].id = n
      BY <2>1 DEF LeadsBack
    <3> QED BY <1>1, <1>3, <1>6, <3>1
  <2>2. CASE n \notin ds
    <3>1. PICK i \in DOMAIN new : new[i].id = n
      BY <1>0, <2>2
    <3>2. PICK j \in Int : j = k + i
      BY <1>2
    <3>3. j \in (k + 1)..(k + l) /\ j \in 1..(k + l) /\ j - k = i
      BY <1>2, <1>5, <3>2
    <3>4. all[j] = new[i]
      BY <1>3, <3>3
    <3> QED BY <1>3, <3>1, <3>3, <3>4
  <2> QED BY <2>1, <2>2
<1>8. ASSUME NEW i \in DOMAIN all
      PROVE  all[i].parent \in (IF all[i].id = 0 THEN {Absent} ELSE dt \cap 0..(all[i].id - 1))
  <2>1. CASE i \in 1..k
    <3>1. all[i] = cs[i] /\ i \in DOMAIN cs
      BY <1>1, <1>3, <2>1
    <3>2. cs[i].parent \in (IF cs[i].id = 0 THEN {Absent} ELSE ds \cap 0..(cs[i].id - 1))
      BY <3>1 DEF LeadsBack
    <3> QED BY <1>0, <3>1, <3>2
  <2>2. CASE i \notin 1..k
    <3>1. all[i] = new[i - k] /\ i - k \in DOMAIN new
      BY <1>2, <1>3, <1>4, <2>2
    <3> QED BY <1>0, <3>1
  <2> QED BY <2>1, <2>2
<1>9. LeadsBack(all, dt)
  BY <1>7, <1>8 DEF LeadsBack
<1> QED BY <1>9 DEF all

\* The changes of a phi: one for each end.
LEMMA PhiFollows ==
  ASSUME IInv, Started, NEW v \in Vars, Known(v), NEW new, DOMAIN new # {},
         \A i \in DOMAIN new : \E e \in 0..GetSSA(ssa[v]) : new[i] = VarChange(AdvanceSSA(ssa[v]), e)
  PROVE  Follows(new, declared[v], declared[v] \cup {AdvanceSSA(ssa[v])})
<1> DEFINE phi == AdvanceSSA(ssa[v])
           ds  == declared[v]
           dt  == ds \cup {phi}
<1>1. ssa[v] \in Nat \cup {Absent} /\ ssa[v] # Absent
  BY DEF IInv, TypeOK, Known
<1>2. PICK n \in Nat : n = GetSSA(ssa[v])
  BY <1>1, Numbers
<1>3. phi = n + 1 /\ ds = 0..n
  BY <1>1, <1>2, NextFresh
<1> HIDE DEF phi, ds
<1>4. ASSUME NEW i \in DOMAIN new
      PROVE  new[i].id = phi /\ new[i].parent \in ds \cap 0..(phi - 1) /\ phi # 0
  <2>1. PICK e \in 0..n : new[i] = VarChange(phi, e)
    BY <1>2 DEF phi
  <2>2. e # phi /\ e \in 0..(phi - 1) /\ phi # 0
    BY <1>3
  <2>3. new[i].id = phi /\ new[i].parent = e
    BY <2>1, <2>2 DEF VarChange
  <2> QED BY <1>3, <2>2, <2>3
<1>5. \A m \in dt : m \in ds \/ \E i \in DOMAIN new : new[i].id = m
  BY <1>4
<1>6. Follows(new, ds, dt)
  BY <1>4, <1>5 DEF Follows
<1> QED BY <1>6 DEF phi, ds

\* A store leads from the version it hands out to the one before.
LEMMA ResultsStored ==
  ASSUME IInv, Started, ResultsLeadBack, NEW v \in Vars, NEW base, base[v] = ssa[v],
         NEW num, NEW ts, Assign(v, base, num, ts)
  PROVE  ResultsLeadBack'
<1> DEFINE n  == GetSSA(ssa[v])
           id == AdvanceSSA(ssa[v])
           c  == VarChange(id, n)
<1>1. /\ results \in [Vars -> Seq(VarChanges)] /\ declared \in [Vars -> SUBSET Nat]
      /\ ssa[v] \in Nat \cup {Absent}
  BY DEF IInv, TypeOK
<1>2. /\ declared' = [declared EXCEPT ![v] = @ \cup {id}]
      /\ results' = [results EXCEPT ![v] = Append(@, c)]
  BY DEF Assign
<1>3. n \in Nat /\ id \in Nat
  BY <1>1, Numbers
<1>4. c \in VarChanges /\ c.id = id
  BY <1>3, Parents DEF VarChange
<1>5. c.parent \in (IF id = 0 THEN {Absent} ELSE (declared[v] \cup {id}) \cap 0..(id - 1))
  <2>1. CASE ssa[v] = Absent
    <3>1. id = 0 /\ n = 0
      BY <2>1 DEF AdvanceSSA, GetSSA
    <3> QED BY <3>1 DEF VarChange
  <2>2. CASE ssa[v] # Absent
    <3>1. id = n + 1 /\ declared[v] = 0..n
      BY <2>2, NextFresh
    <3>2. id # 0 /\ id # n /\ n \in 0..n /\ n \in 0..(id - 1)
      BY <1>3, <3>1
    <3>3. c.parent = n
      BY <3>2 DEF VarChange
    <3> QED BY <3>1, <3>2, <3>3
  <2> QED BY <2>1, <2>2
<1> HIDE DEF id, n, c
<1>6. Follows(<<c>>, declared[v], declared[v] \cup {id})
  <2>1. DOMAIN <<c>> = {1} /\ <<c>>[1] = c
    OBVIOUS
  <2> QED BY <1>4, <1>5, <2>1 DEF Follows
<1>7. results'[v] = results[v] \o <<c>> /\ declared'[v] = declared[v] \cup {id}
      /\ <<c>> \in Seq(VarChanges) /\ results[v] \in Seq(VarChanges)
  BY <1>1, <1>2, <1>4
<1>8. LeadsBack(results[v], declared[v])
  BY DEF ResultsLeadBack, LeadsBack
<1>9. LeadsBack(results'[v], declared'[v])
  <2>1. LeadsBack(results[v] \o <<c>>, declared[v] \cup {id})
    BY <1>6, <1>7, <1>8, LeadsFurther
  <2> QED BY <1>7, <2>1
<1>10. ASSUME NEW w \in Vars, w # v PROVE LeadsBack(results'[w], declared'[w])
  <2>1. results'[w] = results[w] /\ declared'[w] = declared[w]
    BY <1>1, <1>2, <1>10
  <2>2. LeadsBack(results[w], declared[w])
    BY DEF ResultsLeadBack, LeadsBack
  <2> QED BY <2>1, <2>2
<1>11. \A w \in Vars : LeadsBack(results'[w], declared'[w])
  BY <1>9, <1>10
<1> QED BY <1>11 DEF ResultsLeadBack, LeadsBack

\* The ends that the phi of a conditional is equated with were handed out.
LEMMA CondEndsReached ==
  ASSUME IInv, NEW fork, NEW v \in Vars, NEW start \in 0..GetSSA(ssa[v]),
         fork[v] \in Seq(UpTo(GetSSA(ssa[v]))), fork[v] # <<>>
  PROVE  LET ends == [i \in 1..Len(fork[v]) |-> fork[v][i].end]
                       \o IF Len(fork[v]) = 1 THEN <<start>> ELSE <<>>
         IN  ends \in Seq(0..GetSSA(ssa[v])) /\ ends # <<>>
<1> DEFINE m == GetSSA(ssa[v])
           a == [i \in 1..Len(fork[v]) |-> fork[v][i].end]
           b == IF Len(fork[v]) = 1 THEN <<start>> ELSE <<>>
<1>1. m \in Nat
  BY Reads
<1> HIDE DEF m
<1>2. fork[v] \in Seq(UpTo(m)) /\ start \in 0..m
  BY DEF m
<1>3. PICK n \in Nat : n = Len(fork[v]) /\ DOMAIN fork[v] = 1..n /\ n # 0
  BY <1>2, EmptySeq
<1>4. \A i \in 1..n : fork[v][i].end \in 0..m
  <2>1. \A i \in 1..n : fork[v][i] \in UpTo(m)
    BY <1>2, <1>3
  <2> QED BY <1>1, <2>1 DEF UpTo, ForkChoices
<1>5. a = [i \in 1..n |-> fork[v][i].end]
  BY <1>3
<1>6. a \in Seq(0..m) /\ Len(a) = n
  <2>1. \A S : (\A i \in 1..n : fork[v][i].end \in S)
                 => /\ [i \in 1..n |-> fork[v][i].end] \in Seq(S)
                    /\ Len([i \in 1..n |-> fork[v][i].end]) = n
    OBVIOUS
  <2> QED BY <1>4, <1>5, <2>1
<1>7. b \in Seq(0..m)
  <2>1. \A S : start \in S => <<start>> \in Seq(S) /\ <<>> \in Seq(S)
    OBVIOUS
  <2> QED BY <1>2, <2>1
<1> HIDE DEF a, b
<1>8. a \o b \in Seq(0..m) /\ Len(a \o b) = n + Len(b) /\ Len(b) \in Nat
  <2>1. \A S : \A x, y \in Seq(S) :
          x \o y \in Seq(S) /\ Len(x \o y) = Len(x) + Len(y) /\ Len(y) \in Nat
    BY ConcatProperties
  <2> QED BY <1>6, <1>7, <2>1
<1>9. Len(a \o b) # 0
  BY <1>3, <1>8
<1>10. a \o b # <<>>
  BY <1>8, <1>9, EmptySeq
<1> QED BY <1>8, <1>10 DEF a, b, m

\* What the end of a conditional and of a parallel run add to Results.
Merges(used, ends) ==
  /\ \A v \in used : ends[v] \in Seq(0..GetSSA(ssa[v])) /\ ends[v] # <<>>
  /\ \A v \in Vars :
       /\ v \in used =>
            /\ results'[v] = results[v] \o [i \in DOMAIN ends[v] |->
                                              VarChange(AdvanceSSA(ssa[v]), ends[v][i])]
            /\ declared'[v] = declared[v] \cup {AdvanceSSA(ssa[v])}
       /\ v \notin used => results'[v] = results[v] /\ declared'[v] = declared[v]

\* The phis lead to the ends they merge.
LEMMA ResultsMerged ==
  ASSUME IInv, Started, \A v \in Vars : Known(v), ResultsLeadBack,
         NEW used \in SUBSET Vars, NEW ends, Merges(used, ends)
  PROVE  ResultsLeadBack'
<1>1. ASSUME NEW v \in Vars PROVE LeadsBack(results'[v], declared'[v])
  <2>1. LeadsBack(results[v], declared[v])
    BY DEF ResultsLeadBack, LeadsBack
  <2>2. CASE v \notin used
    <3>1. results'[v] = results[v] /\ declared'[v] = declared[v]
      BY <2>2 DEF Merges
    <3> QED BY <2>1, <3>1
  <2>3. CASE v \in used
    <3> DEFINE phi == AdvanceSSA(ssa[v])
               es  == ends[v]
               new == [i \in DOMAIN es |-> VarChange(phi, es[i])]
    <3>1. results'[v] = results[v] \o new /\ declared'[v] = declared[v] \cup {phi}
      BY <2>3 DEF Merges
    <3>2. es \in Seq(0..GetSSA(ssa[v])) /\ es # <<>> /\ results[v] \in Seq(VarChanges)
          /\ ssa[v] \in Nat \cup {Absent}
      BY <2>3 DEF IInv, TypeOK, Merges
    <3>3. phi \in Nat /\ GetSSA(ssa[v]) \in Nat
      BY <3>2, Numbers
    <3> HIDE DEF es
    <3>4. PICK k \in Nat : DOMAIN es = 1..k /\ k # 0 /\ \A i \in 1..k : es[i] \in 0..GetSSA(ssa[v])
      <4>1. PICK k \in Nat : k = Len(es)
        BY <3>2
      <4>2. k # 0
        BY <3>2, <4>1, EmptySeq
      <4>3. DOMAIN es = 1..k /\ \A i \in 1..k : es[i] \in 0..GetSSA(ssa[v])
        <5>1. \A S : \A s \in Seq(S) : DOMAIN s = 1..Len(s) /\ \A i \in 1..Len(s) : s[i] \in S
          OBVIOUS
        <5> QED BY <3>2, <4>1, <5>1
      <4> QED BY <4>2, <4>3
    <3> HIDE DEF phi
    <3>5. new \in Seq(VarChanges)
      <4>1. new = [i \in 1..k |-> VarChange(phi, es[i])]
        BY <3>4
      <4>2. \A i \in 1..k : VarChange(phi, es[i]) \in VarChanges
        BY <3>3, <3>4, Parents
      <4>3. \A S : (\A i \in 1..k : VarChange(phi, es[i]) \in S)
                     => [i \in 1..k |-> VarChange(phi, es[i])] \in Seq(S)
        OBVIOUS
      <4> QED BY <4>1, <4>2, <4>3
    <3>6. \A i \in DOMAIN new : \E e \in 0..GetSSA(ssa[v]) : new[i] = VarChange(AdvanceSSA(ssa[v]), e)
      BY <3>4 DEF phi
    <3>7. DOMAIN new # {}
      <4>1. 1 \in DOMAIN new
        BY <3>4
      <4> QED BY <4>1
    <3> HIDE DEF new
    <3>8. Follows(new, declared[v], declared[v] \cup {phi})
      BY <3>6, <3>7, PhiFollows DEF phi
    <3> QED BY <2>1, <3>1, <3>2, <3>5, <3>8, LeadsFurther
  <2> QED BY <2>2, <2>3
<1> QED BY <1>1 DEF ResultsLeadBack, LeadsBack

\* Every step keeps Results leading back.
LEMMA StepResults ==
  ASSUME IInv, Started, GlobalsFirst, EndsReached, ResultsLeadBack, Step
  PROVE  ResultsLeadBack'
<1> DEFINE h == Head(agenda)
<1>1. agenda \in Seq(Items) /\ agenda # <<>> /\ h \in Items /\ h = agenda[1] /\ 1 \in DOMAIN agenda
  BY StepMakes DEF IInv, TypeOK
<1>2. CASE UNCHANGED <<results, declared>>
  <2>1. \A v \in Vars : LeadsBack(results[v], declared[v])
    BY DEF ResultsLeadBack, LeadsBack
  <2>2. \A v \in Vars : LeadsBack(results'[v], declared'[v])
    BY <1>2, <2>1
  <2> QED BY <2>2 DEF ResultsLeadBack, LeadsBack
<1>3. h.do \notin Early \cup {"function", "block"} => \A v \in Vars : Known(v)
  BY <1>1, AllKnown
<1>4. CASE StoreConst
  <2>1. h.dst \in Vars /\ Assign(h.dst, ssa, AdvanceSSA(ssa[h.dst]), trail)
    BY <1>1, <1>4, ItemFields DEF StoreConst, At
  <2> QED BY <2>1, ResultsStored
<1>5. CASE StoreInfix
  <2> DEFINE yStart == runStart /\ h.x = Lit
             xn == IF h.x = Lit THEN 0 ELSE ReadNum(h.x, runStart)
             yn == IF h.y = Lit THEN 0 ELSE ReadNum(h.y, yStart)
             met == (IF runStart THEN {} ELSE {h.x}) \cup (IF yStart THEN {} ELSE {h.y})
             ts == Mention(Mention(trail, h.x, xn), h.y, yn)
  <2>1. h.do = "infix" /\ h.dst \in Vars
    BY <1>1, <1>5, ItemFields DEF StoreInfix, At
  <2>2. Assign(h.dst, Registered(met), GetSSA(Registered(met)[h.dst]) + 1, ts)
    BY <1>5 DEF StoreInfix
  <2>3. \A v \in Vars : Known(v)
    BY <1>3, <2>1 DEF Early
  <2>4. Registered(met) = ssa
    BY <2>3, NothingRegistered
  <2> HIDE DEF met, ts
  <2> QED BY <2>1, <2>2, <2>4, ResultsStored
<1>6. CASE StoreCopy
  <2>1. h.dst \in Vars
    BY <1>1, <1>6, ItemFields DEF StoreCopy, At
  <2>2. Assign(h.dst, ssa, GetSSA(ssa[h.dst]) + 1, Mention(trail, h.x, GetSSA(ssa[h.dst])))
    BY <1>6 DEF StoreCopy
  <2> QED BY <2>1, <2>2, ResultsStored
<1>7. CASE ParseBuiltIn
  <2>1. CASE h.do = "advance"
    BY <1>2, <1>7, <2>1 DEF ParseBuiltIn, At, genVars
  <2>2. CASE h.do # "advance"
    <3>1. h.dst \in Vars
      BY <1>1, <1>7, <2>2, ItemFields DEF ParseBuiltIn, At
    <3>2. Assign(h.dst, ssa, GetSSA(ssa[h.dst]) + 1, trail)
      BY <1>7, <2>2 DEF ParseBuiltIn, At
    <3> QED BY <3>1, <3>2, ResultsStored
  <2> QED BY <2>1, <2>2
<1>8. CASE ConstantRule
  <2>1. h.do = "global" /\ h.v \in Vars
    BY <1>1, <1>8, ItemFields DEF ConstantRule, At
  <2>2. ssa[h.v] = Absent
    BY <1>1, <2>1 DEF GlobalsFirst
  <2>3. results' = results /\ declared' = [declared EXCEPT ![h.v] = @ \cup {0}]
    BY <1>8, <2>2 DEF ConstantRule, AdvanceSSA
  <2>4. declared \in [Vars -> SUBSET Nat]
    BY DEF IInv, TypeOK
  <2>5. ASSUME NEW v \in Vars PROVE LeadsBack(results'[v], declared'[v])
    <3>1. declared[v] \subseteq declared'[v] /\ declared'[v] \subseteq declared[v] \cup {0}
      BY <2>3, <2>4
    <3>2. LeadsBack(results[v], declared[v])
      BY DEF ResultsLeadBack, LeadsBack
    <3> QED BY <2>3, <3>1, <3>2 DEF LeadsBack
  <2> QED BY <2>5 DEF ResultsLeadBack, LeadsBack
<1>9. CASE CapConditional
  <2> DEFINE fork == CondFork(h.true)
             used == ForkVars(fork)
             phi   == [v \in Vars |-> AdvanceSSA(ssa[v])]
             start == [v \in Vars |-> GetStartState(phis[v])]
             Ends(v) == [i \in 1..Len(fork[v]) |-> fork[v][i].end]
                          \o IF Len(fork[v]) = 1 THEN <<start[v]>> ELSE <<>>
             ends == [v \in Vars |-> Ends(v)]
  <2>1. h.do = "capCond" /\ h.true \in Trails /\ trail \in Trails
    BY <1>1, <1>9, ItemFields DEF CapConditional, At, IInv, TypeOK
  <2>2. \A v \in Vars : Known(v)
    BY <1>3, <2>1 DEF Early
  <2>3. used \in SUBSET Vars
    BY DEF ForkVars
  <2>4. \A v \in Vars :
          /\ v \in used =>
               /\ results'[v] = results[v] \o [i \in DOMAIN Ends(v) |-> VarChange(phi[v], Ends(v)[i])]
               /\ declared'[v] = declared[v] \cup {phi[v]}
          /\ v \notin used => results'[v] = results[v] /\ declared'[v] = declared[v]
    BY <1>9 DEF CapConditional
  <2>5. ASSUME NEW v \in used PROVE ends[v] \in Seq(0..GetSSA(ssa[v])) /\ ends[v] # <<>>
    <3>1. v \in Vars /\ fork[v] # <<>>
      BY DEF ForkVars
    <3>2. Reached(ssa, h.true) /\ Reached(ssa, trail)
      BY <1>1, <2>1 DEF EndsReached, Kept
    <3>3. Choice(h.true[v], "true") \in Seq(UpTo(GetSSA(ssa[v])))
      BY <2>1, <3>1, <3>2, ChoiceReached
    <3>4. Choice(trail[v], "false") \in Seq(UpTo(GetSSA(ssa[v])))
      BY <2>1, <3>1, <3>2, ChoiceReached
    <3>5. fork[v] = Choice(h.true[v], "true") \o Choice(trail[v], "false")
      BY <3>1 DEF CondFork
    <3>6. fork[v] \in Seq(UpTo(GetSSA(ssa[v])))
      BY <3>3, <3>4, <3>5, ConcatProperties
    <3>7. start[v] \in 0..GetSSA(ssa[v]) /\ ends[v] = Ends(v)
      BY <3>1, ReadReached
    <3> HIDE DEF fork, start
    <3> QED BY <3>1, <3>6, <3>7, CondEndsReached
  <2>6. \A v \in Vars : phi[v] = AdvanceSSA(ssa[v]) /\ ends[v] = Ends(v)
    OBVIOUS
  <2> HIDE DEF used, phi, Ends, ends
  <2>7. \A v \in Vars :
          /\ v \in used =>
               /\ results'[v] = results[v] \o [i \in DOMAIN ends[v] |->
                                                 VarChange(AdvanceSSA(ssa[v]), ends[v][i])]
               /\ declared'[v] = declared[v] \cup {AdvanceSSA(ssa[v])}
          /\ v \notin used => results'[v] = results[v] /\ declared'[v] = declared[v]
    BY <2>4, <2>6
  <2>8. Merges(used, ends)
    BY <2>5, <2>7 DEF Merges
  <2> QED BY <2>2, <2>3, <2>8, ResultsMerged
<1>10. CASE CapRunParallel
  <2> DEFINE fork == Last(forks)
             used == ForkVars(fork)
             phi  == [v \in Vars |-> AdvanceSSA(ssa[v])]
             ends == [v \in Vars |-> [i \in DOMAIN fork[v] |-> fork[v][i].end]]
  <2>1. h.do = "capParallel"
    BY <1>10 DEF CapRunParallel, At
  <2>2. \A v \in Vars : Known(v)
    BY <1>3, <2>1 DEF Early
  <2>3. used \in SUBSET Vars
    BY DEF ForkVars
  <2>4. fork \in ForksUpTo(ssa)
    <3>1. forks # <<>> /\ forks \in Seq(ForksUpTo(ssa))
      BY <1>1, <2>1 DEF IInv, ForkOpen, InRun, EndsReached
    <3> QED BY <3>1 DEF Last
  <2>5. \A v \in Vars :
          /\ results'[v] = results[v] \o [i \in DOMAIN fork[v] |-> VarChange(phi[v], fork[v][i].end)]
          /\ v \in used => declared'[v] = declared[v] \cup {phi[v]}
          /\ v \notin used => declared'[v] = declared[v]
    BY <1>10 DEF CapRunParallel
  <2>6. \A v \in Vars : v \notin used => fork[v] = <<>>
    BY DEF ForkVars
  <2>7. \A v \in used : fork[v] # <<>>
    BY DEF ForkVars
  <2>8. \A v \in Vars : phi[v] = AdvanceSSA(ssa[v])
    OBVIOUS
  <2> HIDE DEF fork, used, phi
  <2>9. ASSUME NEW v \in used PROVE ends[v] \in Seq(0..GetSSA(ssa[v])) /\ ends[v] # <<>>
    <3>1. v \in Vars /\ fork[v] \in Seq(UpTo(GetSSA(ssa[v]))) /\ fork[v] # <<>>
      BY <2>3, <2>4, <2>7 DEF ForksUpTo
    <3>2. PICK n \in Nat : n = Len(fork[v]) /\ DOMAIN fork[v] = 1..n /\ n # 0
      BY <3>1, EmptySeq
    <3>3. \A i \in 1..n : fork[v][i].end \in 0..GetSSA(ssa[v])
      <4>1. \A i \in 1..n : fork[v][i] \in UpTo(GetSSA(ssa[v]))
        BY <3>1, <3>2
      <4>2. GetSSA(ssa[v]) \in Nat
        BY <3>1, Reads
      <4> QED BY <4>1, <4>2 DEF UpTo, ForkChoices
    <3>4. ends[v] = [i \in 1..n |-> fork[v][i].end]
      BY <3>1, <3>2
    <3>5. \A S : (\A i \in 1..n : fork[v][i].end \in S)
                   => /\ [i \in 1..n |-> fork[v][i].end] \in Seq(S)
                      /\ Len([i \in 1..n |-> fork[v][i].end]) = n
      OBVIOUS
    <3>6. ends[v] \in Seq(0..GetSSA(ssa[v])) /\ Len(ends[v]) = n
      BY <3>3, <3>4, <3>5
    <3>7. ends[v] # <<>>
      <4>1. Len(<<>>) = 0
        OBVIOUS
      <4> QED BY <3>2, <3>6, <4>1
    <3> QED BY <3>6, <3>7
  <2>10. ASSUME NEW v \in Vars
         PROVE
          /\ v \in used =>
               /\ results'[v] = results[v] \o [i \in DOMAIN ends[v] |->
                                                 VarChange(AdvanceSSA(ssa[v]), ends[v][i])]
               /\ declared'[v] = declared[v] \cup {AdvanceSSA(ssa[v])}
          /\ v \notin used => results'[v] = results[v] /\ declared'[v] = declared[v]
    <3>1. [i \in DOMAIN ends[v] |-> VarChange(AdvanceSSA(ssa[v]), ends[v][i])]
            = [i \in DOMAIN fork[v] |-> VarChange(phi[v], fork[v][i].end)]
      BY <2>8
    <3>2. v \notin used => results'[v] = results[v]
      <4> SUFFICES ASSUME v \notin used PROVE results'[v] = results[v]
        OBVIOUS
      <4> DEFINE new == [i \in DOMAIN fork[v] |-> VarChange(phi[v], fork[v][i].end)]
      <4>1. DOMAIN fork[v] = {}
        BY <2>6
      <4>2. new = <<>>
        BY <4>1
      <4>3. results[v] \in Seq(VarChanges) /\ results'[v] = results[v] \o new
        BY <2>5 DEF IInv, TypeOK
      <4> HIDE DEF new
      <4> QED BY <4>2, <4>3
    <3> QED BY <2>5, <2>8, <3>1, <3>2
  <2> HIDE DEF ends
  <2>11. Merges(used, ends)
    BY <2>9, <2>10 DEF Merges
  <2> QED BY <2>2, <2>3, <2>11, ResultsMerged
<1>11. CASE \/ ParseFunction \/ ParseBlock \/ ParseTerm \/ ParseElse \/ EndFalse \/ ParseCmp
            \/ StoreRound \/ ParseCall \/ EndParseCall \/ ExecuteCallstack \/ RunOption
            \/ RunCall \/ EndRunCall \/ EndRunOption
  BY <1>2, <1>11 DEF ParseFunction, ParseBlock, ParseTerm, ParseElse, EndFalse, ParseCmp,
         StoreRound, ParseCall, EndParseCall, ExecuteCallstack, RunOption, RunCall, EndRunCall,
         EndRunOption, genVars
<1> QED BY <1>4, <1>5, <1>6, <1>7, <1>8, <1>9, <1>10, <1>11 DEF Step

-----------------------------------------------------------------------------
(***************************************************************************)
(* ResultsLeadBack and ReadsDeclared.                                      *)
(***************************************************************************)

\* What an operand reads is declared.
LEMMA ReadDeclared ==
  ASSUME IInv, Started, \A v \in Vars : Known(v), NEW x \in Operands, NEW start \in BOOLEAN,
         NEW n, n = IF x = Lit THEN 0 ELSE ReadNum(x, start), NEW r \in Read(x, n)
  PROVE  r.var \in Vars /\ r.got \in declared[r.var]
<1>1. x # Lit /\ r.var = x /\ r.got = n
  BY DEF Read
<1>2. x \in Vars
  BY <1>1 DEF Operands
<1>3. n \in 0..GetSSA(ssa[x])
  BY <1>1, <1>2, ReadReached
<1>4. declared[x] = 0..GetSSA(ssa[x])
  BY <1>2, NextFresh DEF Known
<1> QED BY <1>1, <1>2, <1>3, <1>4

\* No step makes a rule that mentions a version without a declaration.
LEMMA StepReads ==
  ASSUME IInv, Started, EndsReached, Step
  PROVE  ReadsDeclared'
<1> DEFINE h == Head(agenda)
<1>1. /\ agenda \in Seq(Items) /\ agenda # <<>> /\ h \in Items /\ h = agenda[1] /\ 1 \in DOMAIN agenda
      /\ runStart \in BOOLEAN
  BY StepMakes DEF IInv, TypeOK
<1>2. CASE seen'.reads = {}
  BY <1>2 DEF ReadsDeclared
<1>3. CASE StoreInfix \/ ParseCmp
  <2> DEFINE yStart == runStart /\ h.x = Lit
             xn == IF h.x = Lit THEN 0 ELSE ReadNum(h.x, runStart)
             yn == IF h.y = Lit THEN 0 ELSE ReadNum(h.y, yStart)
  <2>1. h.do \in {"infix", "cmp"}
    BY <1>3 DEF StoreInfix, ParseCmp, At
  <2>2. h.x \in Operands /\ h.y \in Operands
    BY <1>1, <2>1, ItemFields
  <2>3. \A v \in Vars : Known(v)
    BY <1>1, <2>1, AllKnown DEF Early
  <2>4. seen'.reads = Read(h.x, xn) \cup Read(h.y, yn)
    BY <1>3 DEF StoreInfix, ParseCmp
  <2>5. yStart \in BOOLEAN
    BY <1>1
  <2> HIDE DEF yStart
  <2>6. ASSUME NEW r \in seen'.reads PROVE r.var \in Vars /\ r.got \in declared[r.var]
    <3>1. CASE r \in Read(h.x, xn)
      BY <1>1, <2>2, <2>3, <3>1, ReadDeclared
    <3>2. CASE r \in Read(h.y, yn)
      BY <2>2, <2>3, <2>5, <3>2, ReadDeclared
    <3> QED BY <2>4, <3>1, <3>2
  <2>7. \A v \in Vars : declared[v] \subseteq declared'[v]
    BY StepGrows DEF Grows
  <2> QED BY <2>6, <2>7 DEF ReadsDeclared
<1>4. ~StoreCopy
  BY <1>1 DEF StoreCopy, At, EndsReached, Kept
<1>5. CASE CapConditional
  <2>1. seen'.reads = {}
    BY <1>5 DEF CapConditional
  <2> QED BY <1>2, <2>1
<1>6. CASE CapRunParallel
  <2>1. seen'.reads = {}
    BY <1>6 DEF CapRunParallel
  <2> QED BY <1>2, <2>1
<1>7. CASE Quiet
  <2>1. seen'.reads = {}
    BY <1>7 DEF Quiet
  <2> QED BY <1>2, <2>1
<1>8. CASE \/ ParseFunction \/ ParseBlock \/ ParseTerm \/ ParseElse \/ EndFalse
           \/ StoreConst \/ ParseBuiltIn \/ ConstantRule \/ StoreRound
           \/ ParseCall \/ EndParseCall \/ ExecuteCallstack \/ RunOption \/ RunCall
           \/ EndRunCall \/ EndRunOption
  <2>1. Quiet
    BY <1>8 DEF ParseFunction, ParseBlock, ParseTerm, ParseElse, EndFalse, StoreConst,
           ParseBuiltIn, ConstantRule, StoreRound, ParseCall, EndParseCall, ExecuteCallstack,
           RunOption, RunCall, EndRunCall, EndRunOption
  <2> QED BY <1>7, <2>1
<1> QED BY <1>3, <1>4, <1>5, <1>6, <1>8 DEF Step

LEMMA InitEnds == Init /\ Initialised(code) /\ NoCopies(code) => EInv /\ ReadsDeclared
<1> SUFFICES ASSUME Init, Initialised(code), NoCopies(code) PROVE EInv /\ ReadsDeclared
  OBVIOUS
<1>1. RInv /\ IInv
  BY InitRounds, InitInv
<1>2. Reached(ssa, trail)
  <2>1. ssa \in [Vars -> Nat \cup {Absent}]
    BY <1>1 DEF IInv, TypeOK
  <2> QED BY <2>1, ReachedMade DEF Init
<1>3. ASSUME NEW i \in DOMAIN agenda PROVE agenda[i] \in Kept(ssa)
  <2> DEFINE gs == [j \in DOMAIN code.globals |-> Global(code.globals[j])]
             g  == Function(Run, 1)
             S  == {h \in Items : h.do \in {"global", "function"}}
  <2>1. code.globals \in Seq(Vars)
    BY <1>1 DEF IInv, TypeOK, Modules
  <2>2. PICK n \in Nat : DOMAIN code.globals = 1..n /\ \A j \in 1..n : code.globals[j] \in Vars
    BY <2>1
  <2>3. gs \in Seq(S)
    <3>1. gs = [j \in 1..n |-> Global(code.globals[j])]
      BY <2>2
    <3>2. \A j \in 1..n : Global(code.globals[j]) \in S
      BY <2>2, ItemsMade DEF Global
    <3>3. \A T : (\A j \in 1..n : Global(code.globals[j]) \in T)
                   => [j \in 1..n |-> Global(code.globals[j])] \in Seq(T)
      OBVIOUS
    <3> QED BY <3>1, <3>2, <3>3
  <2>4. g \in S
    BY ItemsMade, ConstantsAssumption DEF Function
  <2>5. agenda = gs \o <<g>>
    BY DEF Init
  <2> HIDE DEF gs, g, S
  <2>6. agenda \in Seq(S)
    BY <2>3, <2>4, <2>5
  <2>7. agenda[i] \in S
    BY <2>6
  <2> QED BY <2>7 DEF S, Kept
<1>4. forks \in Seq(ForksUpTo(ssa))
  BY DEF Init
<1>5. ResultsLeadBack /\ ReadsDeclared
  BY DEF Init, ResultsLeadBack, ReadsDeclared
<1> QED BY <1>1, <1>2, <1>3, <1>4, <1>5 DEF EInv, EndsReached

LEMMA NextEnds == IInv /\ EInv /\ ReadsDeclared /\ [Next]_vars => EInv' /\ ReadsDeclared'
<1> SUFFICES ASSUME IInv, EInv, ReadsDeclared, [Next]_vars PROVE EInv' /\ ReadsDeclared'
  OBVIOUS
<1>0. RInv /\ RInv'
  BY NextRounds DEF EInv
<1>1. CASE Step
  <2>1. NoCopies(code)'
    BY <1>1, CodeKept DEF EInv, NoCopies
  <2>2. EndsReached'
    <3>1. EndsReached /\ NoCopies(code)
      BY DEF EInv
    <3>2. Reached(ssa', trail') /\ forks' \in Seq(ForksUpTo(ssa'))
      BY <1>1, <3>1, StepTrail, StepForks
    <3>3. \A i \in DOMAIN agenda' : agenda'[i] \in Kept(ssa')
      BY <1>1, <3>1, StepKept
    <3> QED BY <3>2, <3>3 DEF EndsReached
  <2>3. ResultsLeadBack'
    BY <1>0, <1>1, StepResults DEF EInv, RInv
  <2>4. ReadsDeclared'
    BY <1>0, <1>1, StepReads DEF EInv, RInv
  <2> QED BY <1>0, <2>1, <2>2, <2>3, <2>4 DEF EInv
<1>2. CASE UNCHANGED vars
  <2>1. UNCHANGED <<code, agenda, ssa, declared, results, forks, trail, seen>>
    BY <1>2 DEF vars, genVars, ruleVars
  <2>2. NoCopies(code)' /\ ResultsLeadBack' /\ ReadsDeclared'
    BY <2>1 DEF EInv, NoCopies, ResultsLeadBack, ReadsDeclared
  <2>3. EndsReached'
    BY <2>1 DEF EInv, EndsReached
  <2> QED BY <1>0, <2>2, <2>3 DEF EInv
<1> QED BY <1>1, <1>2 DEF Next, Finished

\* Every version after the first has an entry in Results whose parent is an older
\* version of the same variable that has a declare-fun (storeRule, capCond,
\* capParallel), in models that create their instances first and copy no
\* variable.
THEOREM LeadBack == Spec /\ Initialised(code) /\ NoCopies(code) => []ResultsLeadBack
<1>1. Init /\ Initialised(code) /\ NoCopies(code) => IInv /\ EInv /\ ReadsDeclared
  BY InitInv, InitEnds
<1>2. IInv /\ EInv /\ ReadsDeclared /\ [Next]_vars => (IInv /\ EInv /\ ReadsDeclared)'
  BY NextInv, NextEnds
<1>3. EInv => ResultsLeadBack
  BY DEF EInv
<1> QED BY <1>1, <1>2, <1>3, PTL DEF Spec

\* No rule mentions a version without a declare-fun, however conditionals and
\* parallel runs are nested (convertInfixVar), in the same models.
THEOREM Declared == Spec /\ Initialised(code) /\ NoCopies(code) => []ReadsDeclared
<1>1. Init /\ Initialised(code) /\ NoCopies(code) => IInv /\ EInv /\ ReadsDeclared
  BY InitInv, InitEnds
<1>2. IInv /\ EInv /\ ReadsDeclared /\ [Next]_vars => (IInv /\ EInv /\ ReadsDeclared)'
  BY NextInv, NextEnds
<1> QED BY <1>1, <1>2, PTL DEF Spec

-----------------------------------------------------------------------------
(***************************************************************************)
(* No call is lost: the pending calls, for every LLVM module.              *)
(*                                                                         *)
(* NoCallLost speaks of two moments only, so it is not inductive.  What    *)
(* carries it through the walk is a statement about the whole agenda: at   *)
(* the places where the code drops the callstack, or stops, every call     *)
(* that may still be queued before them is also cleared before them.       *)
(***************************************************************************)

\* Entries that put a call on the callstack, entries that leave it empty (a
\* block ends with executeCallstack), and entries where it has to be empty: the
\* end of a false branch, what makes one, and the panic at the end of a conditional.
Queues == {"call", "called"}
Clears == {"flush", "block"}
Needs  == {"else", "endElse", "capCond"}

\* With callstack cs and agenda g the callstack is empty when entry i is reached.
EmptyAt(g, i, cs) ==
  \E j \in 0..(i - 1) :
    /\ IF j = 0 THEN cs = <<>> ELSE g[j].do \in Clears
    /\ \A k \in (j + 1)..(i - 1) : g[k].do \notin Queues

\* Entry j leaves the callstack empty, and no entry between j and i queues a call.
LEMMA EmptyMade ==
  ASSUME NEW g, NEW i, NEW cs, NEW j \in 0..(i - 1),
         IF j = 0 THEN cs = <<>> ELSE g[j].do \in Clears,
         \A k \in (j + 1)..(i - 1) : g[k].do \notin Queues
  PROVE  EmptyAt(g, i, cs)
BY DEF EmptyAt

\* The callstack is empty wherever it has to be, and at the end.
CallsCleared ==
  /\ \A i \in DOMAIN agenda : agenda[i].do \in Needs => EmptyAt(agenda, i, callstack)
  /\ EmptyAt(agenda, Len(agenda) + 1, callstack)

-----------------------------------------------------------------------------
(***************************************************************************)
(* One step of the walk.                                                   *)
(***************************************************************************)

\* The head of the agenda is executed and makes the calls in s: it is enough to
\* look at s, and at what is left of the callstack after it.
LEMMA Executed ==
  ASSUME agenda \in Seq(Items), agenda # <<>>, CallsCleared,
         NEW s \in Seq(Items), Do(s),
         \/ Head(agenda).do \in Clears
         \/ callstack = <<>> /\ Head(agenda).do \notin Queues
         => EmptyAt(s, Len(s) + 1, callstack'),
         \A i \in DOMAIN s : s[i].do \in Needs => EmptyAt(s, i, callstack')
  PROVE  CallsCleared'
<1>0. PICK n \in Nat, l \in Nat : n = Len(s) /\ l = Len(agenda') /\ l >= n
  <2>1. Tail(agenda) \in Seq(Items) /\ Len(Tail(agenda)) \in Nat /\ Len(s) \in Nat
    OBVIOUS
  <2>2. Len(agenda') = Len(s) + Len(Tail(agenda))
    BY <2>1 DEF Do
  <2> QED BY <2>1, <2>2
<1>1. /\ Len(agenda) \in Nat \ {0}
      /\ agenda' \in Seq(Items)
      /\ l = n + Len(agenda) - 1
      /\ \A i \in 1..n : agenda'[i] = s[i]
      /\ \A i \in (n + 1)..l : agenda'[i] = agenda[i - n + 1]
  BY <1>0 DEF Do
<1>2. Head(agenda) = agenda[1]
  OBVIOUS
<1>3. ASSUME NEW i \in 1..n, EmptyAt(s, i, callstack')
      PROVE  EmptyAt(agenda', i, callstack')
  <2>1. PICK j \in 0..(i - 1) :
          /\ IF j = 0 THEN callstack' = <<>> ELSE s[j].do \in Clears
          /\ \A k \in (j + 1)..(i - 1) : s[k].do \notin Queues
    BY <1>3 DEF EmptyAt
  <2>2. (j # 0 => j \in 1..n) /\ \A k \in (j + 1)..(i - 1) : k \in 1..n
    BY <1>0
  <2>3. IF j = 0 THEN callstack' = <<>> ELSE agenda'[j].do \in Clears
    BY <1>1, <2>1, <2>2
  <2>4. \A k \in (j + 1)..(i - 1) : agenda'[k].do \notin Queues
    BY <1>1, <2>1, <2>2
  <2> QED BY <2>3, <2>4, EmptyMade
<1>4. ASSUME NEW i \in (n + 1)..(l + 1), EmptyAt(agenda, i - n + 1, callstack)
      PROVE  EmptyAt(agenda', i, callstack')
  <2>0. i \in Nat /\ i - n + 1 - 1 = i - n /\ i - n \in Nat
    BY <1>0
  <2>1. PICK j \in 0..(i - n) :
          /\ IF j = 0 THEN callstack = <<>> ELSE agenda[j].do \in Clears
          /\ \A k \in (j + 1)..(i - n) : agenda[k].do \notin Queues
    BY <1>4, <2>0 DEF EmptyAt
  <2>2. \A k \in (n + 1)..(i - 1) : k - n + 1 \in 2..(i - n) /\ agenda'[k] = agenda[k - n + 1]
    <3>1. \A k \in (n + 1)..(i - 1) : k - n + 1 \in 2..(i - n) /\ k \in (n + 1)..l
      BY <1>0, <2>0
    <3> QED BY <1>1, <3>1
  <2>3. CASE j > 1
    <3> DEFINE m == j + n - 1
    <3>1. m \in (n + 1)..(i - 1) /\ m - n + 1 = j /\ m # 0
      BY <1>0, <2>0, <2>3
    <3> HIDE DEF m
    <3>2. agenda'[m].do \in Clears
      <4>1. agenda'[m] = agenda[j] /\ j # 0
        BY <2>2, <2>3, <3>1
      <4> QED BY <2>1, <4>1
    <3>3. \A k \in (m + 1)..(i - 1) : k \in (n + 1)..(i - 1) /\ k - n + 1 \in (j + 1)..(i - n)
      BY <1>0, <2>0, <2>3, <3>1
    <3>4. \A k \in (m + 1)..(i - 1) : agenda'[k].do \notin Queues
      BY <2>1, <2>2, <3>3
    <3>5. m \in 0..(i - 1)
      BY <1>0, <3>1
    <3> QED BY <3>1, <3>2, <3>4, <3>5, EmptyMade
  <2>4. CASE j \in {0, 1}
    <3>1. \/ Head(agenda).do \in Clears
          \/ callstack = <<>> /\ Head(agenda).do \notin Queues
      <4>1. CASE j = 1
        BY <1>2, <2>1, <4>1
      <4>2. CASE j = 0
        <5>1. 1 \in (j + 1)..(i - n)
          BY <1>0, <2>0, <4>2
        <5> QED BY <1>2, <2>1, <4>2, <5>1
      <4> QED BY <2>4, <4>1, <4>2
    <3>2. PICK m \in 0..n :
            /\ IF m = 0 THEN callstack' = <<>> ELSE s[m].do \in Clears
            /\ \A k \in (m + 1)..n : s[k].do \notin Queues
      <4>1. EmptyAt(s, n + 1, callstack') /\ n + 1 - 1 = n
        BY <1>0, <3>1
      <4>2. \E m \in 0..(n + 1 - 1) :
              /\ IF m = 0 THEN callstack' = <<>> ELSE s[m].do \in Clears
              /\ \A k \in (m + 1)..(n + 1 - 1) : s[k].do \notin Queues
        BY <4>1 DEF EmptyAt
      <4> QED BY <4>1, <4>2
    <3>3. IF m = 0 THEN callstack' = <<>> ELSE agenda'[m].do \in Clears
      <4>1. m # 0 => m \in 1..n
        BY <1>0
      <4> QED BY <1>1, <3>2, <4>1
    <3>4. ASSUME NEW k \in (m + 1)..(i - 1) PROVE agenda'[k].do \notin Queues
      <4>1. CASE k <= n
        <5>1. k \in 1..n /\ k \in (m + 1)..n
          BY <1>0, <4>1
        <5> QED BY <1>1, <3>2, <5>1
      <4>2. CASE k > n
        <5>1. k \in (n + 1)..(i - 1)
          BY <1>0, <2>0, <4>2
        <5>2. k - n + 1 \in (j + 1)..(i - n)
          BY <1>0, <2>0, <2>4, <5>1
        <5> QED BY <2>1, <2>2, <5>1, <5>2
      <4> QED BY <1>0, <4>1, <4>2
    <3>5. m \in 0..(i - 1)
      BY <1>0, <2>0
    <3> QED BY <3>3, <3>4, <3>5, EmptyMade
  <2> QED BY <1>0, <2>0, <2>3, <2>4
<1>5. EmptyAt(agenda', Len(agenda') + 1, callstack')
  <2>1. EmptyAt(agenda, Len(agenda) + 1, callstack)
    BY DEF CallsCleared
  <2>2. l + 1 \in (n + 1)..(l + 1) /\ l + 1 - n + 1 = Len(agenda) + 1
    BY <1>0, <1>1
  <2>3. EmptyAt(agenda', l + 1, callstack')
    BY <1>4, <2>1, <2>2
  <2> QED BY <1>0, <2>3
<1>6. ASSUME NEW i \in DOMAIN agenda', agenda'[i].do \in Needs
      PROVE  EmptyAt(agenda', i, callstack')
  <2>1. i \in 1..Len(agenda')
    BY <1>1
  <2>2. CASE i <= n
    <3>1. i \in 1..n /\ agenda'[i] = s[i] /\ DOMAIN s = 1..n
      BY <1>0, <1>1, <2>1, <2>2
    <3> QED BY <1>3, <1>6, <3>1
  <2>3. CASE i > n
    <3>1. i \in (n + 1)..l /\ i - n + 1 \in DOMAIN agenda
      BY <1>0, <1>1, <2>1, <2>3
    <3>2. EmptyAt(agenda, i - n + 1, callstack)
      BY <1>1, <1>6, <3>1 DEF CallsCleared
    <3>3. i \in (n + 1)..(l + 1)
      BY <1>0, <3>1
    <3> QED BY <1>4, <3>2, <3>3
  <2> QED BY <1>0, <2>1, <2>2, <2>3
<1> QED BY <1>5, <1>6 DEF CallsCleared

\* Entries that neither queue a call nor need an empty callstack.
Harmless == {h \in Items : h.do \notin Needs \cup Queues}

LEMMA HarmlessMade ==
  /\ \A f \in Funs, k \in Nat \ {0} : Function(f, k) \in Harmless
  /\ \A b \in Blocks : Block(b) \in Harmless /\ Term(b) \in Harmless
  /\ Flush \in Harmless /\ EndCall \in Harmless
  /\ \A ps \in Orders, c \in Versions, es \in Seq(Versions) : Options(ps, c, es) \in Harmless
  /\ \A fs \in NonEmpty(Funs) : Calls(fs) \in Harmless
  /\ \A ps \in Seq(NonEmpty(Funs)), o \in Trails, st \in [Vars -> Nat \cup {Absent}],
        c \in Versions, es \in Seq(Versions) : EndOption(ps, o, st, c, es) \in Harmless
  /\ \A es \in Seq(Versions) : CapParallel(es) \in Harmless
  /\ \A v \in Vars : Global(v) \in Harmless /\ State(v) \in Harmless
  /\ [do |-> "round"] \in Harmless
BY ItemsMade DEF Harmless, Needs, Queues, Function, Block, Term, Flush, EndCall, Options,
       Calls, EndOption, CapParallel, Global, State

\* An entry that leaves the callstack alone and makes harmless entries only.
LEMMA Plainly ==
  ASSUME agenda \in Seq(Items), agenda # <<>>, CallsCleared,
         NEW s \in Seq(Harmless), Do(s), callstack' \in {callstack, <<>>},
         Head(agenda).do \in Clears => callstack' = <<>>
  PROVE  CallsCleared'
<1>1. /\ s \in Seq(Items)
      /\ \A k \in 1..Len(s) : s[k].do \notin Needs \cup Queues
  BY DEF Harmless
<1>2. ASSUME callstack' = <<>> PROVE EmptyAt(s, Len(s) + 1, callstack')
  <2>1. 0 \in 0..Len(s) /\ Len(s) + 1 - 1 = Len(s)
    BY <1>1
  <2> QED BY <1>1, <1>2, <2>1 DEF EmptyAt
<1>3. \A i \in DOMAIN s : s[i].do \in Needs => EmptyAt(s, i, callstack')
  BY <1>1
<1> QED BY <1>1, <1>2, <1>3, Executed

\* An entry that makes no entries at all.
LEMMA Idle ==
  ASSUME agenda \in Seq(Items), agenda # <<>>, CallsCleared, Do(<<>>),
         callstack' = callstack, Head(agenda).do \notin Clears
  PROVE  CallsCleared'
<1>1. <<>> \in Seq(Harmless)
  OBVIOUS
<1> QED BY <1>1, Plainly

-----------------------------------------------------------------------------
(***************************************************************************)
(* One lemma per kind of action.                                           *)
(***************************************************************************)

\* Instructions, and the ends of calls and parallel runs.
LEMMA InstructionsClear ==
  ASSUME IInv, CallsCleared,
         \/ StoreConst \/ StoreInfix \/ StoreCopy \/ ParseCmp \/ ParseBuiltIn
         \/ ConstantRule \/ EndRunCall \/ CapRunParallel
  PROVE  CallsCleared'
<1>1. agenda \in Seq(Items)
  BY DEF IInv, TypeOK
<1>2. CASE ~At("advance")
  <2>1. /\ agenda # <<>> /\ Do(<<>>) /\ callstack' = callstack
        /\ Head(agenda).do \in {"const", "infix", "copy", "cmp", "state", "global", "endCall",
                                "capParallel"}
    BY <1>2 DEF StoreConst, StoreInfix, StoreCopy, ParseCmp, ParseBuiltIn, ConstantRule,
                EndRunCall, CapRunParallel, At, ctlVars
  <2>2. Head(agenda).do \notin Clears
    BY <2>1 DEF Clears
  <2> QED BY <1>1, <2>1, <2>2, Idle
<1>3. CASE At("advance")
  <2> DEFINE s == <<State(Head(agenda).to), State(Head(agenda).from)>>
  <2>1. agenda # <<>> /\ Head(agenda).do = "advance" /\ Head(agenda) \in Items
    BY <1>3, HeadItem DEF IInv
  <2>2. Do(s) /\ callstack' = callstack
    BY <2>1 DEF StoreConst, StoreInfix, StoreCopy, ParseCmp, ParseBuiltIn, ConstantRule,
                EndRunCall, CapRunParallel, At, ctlVars
  <2>3. s \in Seq(Harmless)
    BY <2>1, ItemFields, HarmlessMade
  <2>4. Head(agenda).do \notin Clears
    BY <2>1 DEF Clears
  <2> QED BY <1>1, <2>1, <2>2, <2>3, <2>4, Plainly
<1> QED BY <1>2, <1>3

\* The loop over the blocks of a function.
LEMMA ParseFunctionClears ==
  ASSUME IInv, CallsCleared, ParseFunction
  PROVE  CallsCleared'
<1> DEFINE f == Head(agenda).f
           i == Head(agenda).i
<1>1. /\ agenda \in Seq(Items) /\ agenda # <<>> /\ f \in Funs /\ i \in Nat \ {0}
      /\ Head(agenda).do = "function"
  BY HeadItem, ItemFields DEF IInv, TypeOK, ParseFunction
<1>2. callstack' = callstack /\ Head(agenda).do \notin Clears
  BY <1>1 DEF ParseFunction, Clears
<1>3. CASE i <= Len(code.order[f])
  <2>1. Do(BlockStep(f, i))
    BY <1>1, <1>3 DEF ParseFunction
  <2>2. code.order[f][i] \in Blocks
    BY <1>1, <1>3 DEF IInv, TypeOK, Modules
  <2>3. Block(code.order[f][i]) \in Harmless /\ Function(f, i + 1) \in Harmless
    BY <1>1, <2>2, HarmlessMade
  <2>4. BlockStep(f, i) \in Seq(Harmless)
    BY <2>3 DEF BlockStep
  <2> QED BY <1>1, <1>2, <2>1, <2>4, Plainly
<1>4. CASE ~(i <= Len(code.order[f]))
  <2>1. Do(<<>>)
    BY <1>1, <1>4 DEF ParseFunction
  <2> QED BY <1>1, <1>2, <2>1, Idle
<1> QED BY <1>3, <1>4

\* A block ends by executing the callstack.
LEMMA ParseBlockClears ==
  ASSUME IInv, CallsCleared, ParseBlock
  PROVE  CallsCleared'
<1> DEFINE b == Head(agenda).b
           s == BlockItems(b)
           n == Len(code.insts[b])
<1>1. agenda \in Seq(Items) /\ agenda # <<>> /\ b \in Blocks
  BY HeadItem, ItemFields DEF IInv, TypeOK, ParseBlock
<1>2. Do(s)
  BY DEF ParseBlock
<1>3. code.insts[b] \in Seq(Insts) /\ n \in Nat
  BY <1>1 DEF IInv, TypeOK, Modules
<1>4. /\ s \in Seq(Items)
      /\ Len(s) = n + 2
      /\ \A k \in 1..n : s[k] \in Insts
      /\ s[n + 1] = Flush /\ s[n + 2] = Term(b)
  <2>1. <<Flush, Term(b)>> \in Seq(Items)
    BY <1>1, ItemsMade
  <2>2. code.insts[b] \in Seq(Items)
    BY <1>3, ItemsMade
  <2>3. s = code.insts[b] \o <<Flush, Term(b)>>
    BY DEF BlockItems
  <2>4. s \in Seq(Items) /\ Len(s) = n + 2 /\ \A k \in 1..n : s[k] = code.insts[b][k]
    <3> DEFINE e == <<Flush, Term(b)>>
    <3>1. e \in Seq(Items) /\ Len(e) = 2
      BY <2>1
    <3> DEFINE c == code.insts[b]
    <3>2. s = c \o e /\ c \in Seq(Items) /\ n = Len(c)
      BY <2>2, <2>3
    <3> HIDE DEF e, s, c, n
    <3>3. /\ s \in Seq(Items) /\ Len(s) = Len(c) + Len(e)
          /\ \A k \in 1..(Len(c) + Len(e)) : s[k] = IF k <= Len(c) THEN c[k] ELSE e[k - Len(c)]
      BY <3>1, <3>2, ConcatProperties
    <3>4. n \in Nat /\ Len(s) = n + 2
      BY <3>1, <3>2, <3>3
    <3>5. \A k \in 1..n : k \in 1..(n + 2) /\ k <= n
      BY <3>4
    <3>6. \A k \in 1..n : s[k] = c[k]
      BY <3>1, <3>2, <3>3, <3>5
    <3> QED BY <3>3, <3>4, <3>6 DEF c
  <2>5. s[n + 1] = Flush /\ s[n + 2] = Term(b)
    BY <1>3, <2>1, <2>2, <2>3
  <2>6. \A k \in 1..n : code.insts[b][k] \in Insts
    BY <1>3
  <2> QED BY <2>4, <2>5, <2>6
<1>5. EmptyAt(s, Len(s) + 1, callstack')
  <2>1. n + 1 \in 0..(Len(s) + 1 - 1) /\ n + 1 # 0
    BY <1>3, <1>4
  <2>2. s[n + 1].do \in Clears
    BY <1>4 DEF Flush, Clears
  <2>3. \A k \in (n + 1 + 1)..(Len(s) + 1 - 1) : s[k].do \notin Queues
    BY <1>3, <1>4 DEF Term, Queues
  <2> QED BY <2>1, <2>2, <2>3 DEF EmptyAt
<1>6. ASSUME NEW i \in DOMAIN s PROVE s[i].do \notin Needs
  <2>1. i \in 1..n \/ i = n + 1 \/ i = n + 2
    BY <1>3, <1>4
  <2>2. \A h \in Insts : h.do \notin Needs
    BY DEF Insts, Needs
  <2>3. Flush.do \notin Needs /\ Term(b).do \notin Needs
    BY DEF Flush, Term, Needs
  <2> HIDE DEF s, n
  <2> QED BY <1>4, <2>1, <2>2, <2>3
<1> QED BY <1>1, <1>2, <1>4, <1>5, <1>6, Executed

\* The true branch of a conditional, and the block after it, end like a block.
LEMMA ParseTermClears ==
  ASSUME IInv, CallsCleared, ParseTerm
  PROVE  CallsCleared'
<1> DEFINE term == code.term[Head(agenda).b]
<1>1. agenda \in Seq(Items) /\ agenda # <<>> /\ Head(agenda).b \in Blocks /\ Head(agenda).do = "term"
  BY HeadItem, ItemFields DEF IInv, TypeOK, ParseTerm
<1>2. callstack' = callstack /\ Head(agenda).do \notin Clears
  BY <1>1 DEF ParseTerm, Clears
<1>3. term \in Terms /\ trail \in Trails /\ cur \in Versions
  BY <1>1 DEF IInv, TypeOK, Modules
<1>4. CASE term.do # "cond"
  <2>1. Do(<<>>)
    BY <1>4 DEF ParseTerm
  <2> QED BY <1>1, <1>2, <2>1, Idle
<1>5. CASE term.do = "cond"
  <2> DEFINE a == IF term.a = NoBlock THEN <<>> ELSE <<Block(term.a), Flush>>
             s == <<Block(term.t), Flush, Else(term.f, trail, cur)>> \o a
  <2>1. Do(s)
    BY <1>5 DEF ParseTerm
  <2>2. term.t \in Blocks /\ term.f \in Blocks \cup {NoBlock} /\ term.a \in Blocks \cup {NoBlock}
    BY <1>3, <1>5 DEF Terms
  <2>3. <<Block(term.t), Flush, Else(term.f, trail, cur)>> \in Seq(Items) /\ a \in Seq(Items)
    <3>1. Block(term.t) \in Items /\ Flush \in Items /\ Else(term.f, trail, cur) \in Items
      BY <1>3, <2>2, ItemsMade
    <3>2. term.a # NoBlock => Block(term.a) \in Items
      BY <2>2, ItemsMade
    <3> QED BY <3>1, <3>2
  <2>4. /\ s \in Seq(Items) /\ Len(s) \in {3, 5}
        /\ s[1] = Block(term.t) /\ s[2] = Flush /\ s[3] = Else(term.f, trail, cur)
        /\ Len(s) = 5 => s[4] = Block(term.a) /\ s[5] = Flush
    BY <2>3
  <2>5. EmptyAt(s, Len(s) + 1, callstack')
    <3> HIDE DEF s
    <3>1. CASE Len(s) = 3
      <4>1. s[2].do \in Clears /\ s[3].do \notin Queues
        BY <2>4 DEF Flush, Else, Clears, Queues
      <4>2. EmptyAt(s, 4, callstack')
        <5>1. 2 \in 0..(4 - 1) /\ 2 # 0 /\ (2 + 1)..(4 - 1) = {3}
          OBVIOUS
        <5> QED BY <4>1, <5>1, EmptyMade
      <4> QED BY <3>1, <4>2
    <3>2. CASE Len(s) = 5
      <4>1. s[5].do \in Clears
        BY <2>4, <3>2 DEF Flush, Clears
      <4>2. EmptyAt(s, 6, callstack')
        <5>1. 5 \in 0..(6 - 1) /\ 5 # 0 /\ (5 + 1)..(6 - 1) = {}
          OBVIOUS
        <5> QED BY <4>1, <5>1, EmptyMade
      <4> QED BY <3>2, <4>2
    <3> QED BY <2>4, <3>1, <3>2
  <2>6. ASSUME NEW i \in DOMAIN s, s[i].do \in Needs PROVE EmptyAt(s, i, callstack')
    <3>1. i = 3
      BY <2>4, <2>6 DEF Flush, Block, Needs
    <3>2. 2 \in 0..(3 - 1) /\ s[2].do \in Clears
      BY <2>4 DEF Flush, Clears
    <3>3. \A k \in (2 + 1)..(3 - 1) : s[k].do \notin Queues
      OBVIOUS
    <3> QED BY <3>1, <3>2, <3>3 DEF EmptyAt
  <2> QED BY <1>1, <1>2, <2>1, <2>4, <2>5, <2>6, Executed
<1> QED BY <1>4, <1>5

\* The false branch is a block; its end and the end of the conditional come
\* after it.
LEMMA ParseElseClears ==
  ASSUME IInv, CallsCleared, ParseElse
  PROVE  CallsCleared'
<1> DEFINE e == Head(agenda)
           cap == CapCond(e.outer, trail, cur)
<1>1. /\ agenda \in Seq(Items) /\ agenda # <<>> /\ e.do = "else"
      /\ e.b \in Blocks \cup {NoBlock} /\ e.outer \in Trails
  BY HeadItem, ItemFields DEF IInv, TypeOK, ParseElse
<1>2. callstack' = callstack /\ trail \in Trails /\ cur \in Versions
  BY DEF ParseElse, IInv, TypeOK
<1>3. cap \in Items /\ cap.do = "capCond"
  BY <1>1, <1>2, ItemsMade DEF CapCond
<1>4. callstack = <<>>
  <2>1. 1 \in DOMAIN agenda /\ agenda[1].do \in Needs
    BY <1>1 DEF Needs
  <2> QED BY <2>1 DEF CallsCleared, EmptyAt
<1>5. CASE e.b = NoBlock
  <2>1. Do(<<cap>>) /\ <<cap>> \in Seq(Items)
    BY <1>3, <1>5 DEF ParseElse
  <2>2. \A k \in 1..1 : <<cap>>[k].do \notin Queues
    BY <1>3 DEF Queues
  <2>3. \A i \in 1..2 : EmptyAt(<<cap>>, i, callstack')
    BY <1>2, <1>4, <2>2 DEF EmptyAt
  <2>4. Len(<<cap>>) = 1 /\ DOMAIN <<cap>> = 1..1 /\ 1 \in 1..2 /\ 1 + 1 \in 1..2
    OBVIOUS
  <2> DEFINE s == <<cap>>
  <2>5. /\ s \in Seq(Items) /\ Do(s) /\ EmptyAt(s, Len(s) + 1, callstack')
        /\ \A i \in DOMAIN s : EmptyAt(s, i, callstack')
    BY <2>1, <2>3, <2>4
  <2> HIDE DEF s
  <2> QED BY <1>1, <2>5, Executed
<1>6. CASE e.b # NoBlock
  <2> DEFINE s == <<Block(e.b), EndElse, cap>>
  <2>1. Do(s)
    BY <1>6 DEF ParseElse
  <2>2. s \in Seq(Items)
    BY <1>1, <1>3, <1>6, ItemsMade
  <2>3. \A k \in 1..3 : s[k].do \notin Queues
    BY <1>3 DEF Queues, Block, EndElse
  <2>4. \A i \in 1..4 : EmptyAt(s, i, callstack')
    BY <1>2, <1>4, <2>3 DEF EmptyAt
  <2>5. Len(s) = 3 /\ DOMAIN s = 1..3 /\ 3 + 1 \in 1..4 /\ 1..3 \subseteq 1..4
    OBVIOUS
  <2> QED BY <1>1, <2>1, <2>2, <2>4, <2>5, Executed
<1> QED BY <1>5, <1>6

\* A round marker executes the callstack first.
LEMMA StoreRoundClears ==
  ASSUME IInv, CallsCleared, StoreRound
  PROVE  CallsCleared'
<1>1. /\ agenda \in Seq(Items) /\ agenda # <<>> /\ callstack' = callstack
      /\ Head(agenda).do \notin Clears
  BY DEF IInv, TypeOK, StoreRound, At, ctlVars, Clears
<1>2. CASE callstack = <<>>
  <2>1. Do(<<>>)
    BY <1>2 DEF StoreRound
  <2> QED BY <1>1, <2>1, Idle
<1>3. CASE callstack # <<>>
  <2> DEFINE s == <<Flush, [do |-> "round"]>>
  <2>1. Do(s)
    BY <1>3 DEF StoreRound
  <2>2. s \in Seq(Harmless)
    BY HarmlessMade
  <2> QED BY <1>1, <2>1, <2>2, Plainly
<1> QED BY <1>2, <1>3

\* A call waits on the agenda or on the callstack: nothing that needs an empty
\* callstack comes before the next executeCallstack.
LEMMA CallsClear ==
  ASSUME IInv, CallsCleared, ParseCall \/ EndParseCall
  PROVE  CallsCleared'
<1>1. agenda \in Seq(Items) /\ agenda # <<>> /\ Head(agenda).do \in Queues
  BY DEF IInv, TypeOK, ParseCall, EndParseCall, At, Queues
<1>2. Head(agenda).do \notin Clears
  BY <1>1 DEF Queues, Clears
<1>3. CASE EndParseCall
  <2>1. Do(<<>>) /\ <<>> \in Seq(Items) /\ \A i \in DOMAIN <<>> : <<>>[i].do \notin Needs
    BY <1>3 DEF EndParseCall
  <2> QED BY <1>1, <1>2, <2>1, Executed
<1>4. CASE ParseCall
  <2> DEFINE f == Head(agenda).f
             m == Head(agenda).m
             c == Called(f, m, TRUE)
             d == Called(f, m, FALSE)
  <2>1. f \in Funs /\ m \in Groups \cup {NoGroup}
    BY <1>4, HeadItem, ItemFields DEF ParseCall, IInv
  <2>2. c \in Items /\ d \in Items /\ c.do = "called" /\ d.do = "called"
    <3>1. TRUE \in BOOLEAN /\ FALSE \in BOOLEAN
      OBVIOUS
    <3> QED BY <2>1, <3>1, ItemsMade DEF Called
  <2>3. /\ Function(f, 1) \in Items /\ Flush \in Items
        /\ Function(f, 1).do = "function" /\ Flush.do = "flush"
    BY <2>1, ItemsMade DEF Function, Flush
  <2>4. Do(<<c>>) \/ Do(<<Flush, Function(f, 1), d>>) \/ Do(<<Flush, c>>)
    BY <1>4 DEF ParseCall
  <2> HIDE DEF c, d
  <2>5. CASE Do(<<c>>)
    <3>1. <<c>> \in Seq(Items) /\ \A i \in DOMAIN <<c>> : <<c>>[i].do \notin Needs
      BY <2>2 DEF Needs
    <3> QED BY <1>1, <1>2, <2>5, <3>1, Executed
  <2>6. CASE Do(<<Flush, Function(f, 1), d>>)
    <3> DEFINE s == <<Flush, Function(f, 1), d>>
    <3>1. s \in Seq(Items) /\ \A i \in DOMAIN s : s[i].do \notin Needs
      BY <2>2, <2>3 DEF Needs
    <3> HIDE DEF s
    <3> QED BY <1>1, <1>2, <2>6, <3>1, Executed DEF s
  <2>7. CASE Do(<<Flush, c>>)
    <3> DEFINE s == <<Flush, c>>
    <3>1. s \in Seq(Items) /\ \A i \in DOMAIN s : s[i].do \notin Needs
      BY <2>2, <2>3 DEF Needs
    <3> QED BY <1>1, <1>2, <2>7, <3>1, Executed
  <2> QED BY <2>4, <2>5, <2>6, <2>7
<1> QED BY <1>3, <1>4

\* executeCallstack and the end of a false branch leave the callstack empty.
LEMMA FlushClears ==
  ASSUME IInv, CallsCleared, ExecuteCallstack \/ EndFalse
  PROVE  CallsCleared'
<1>1. agenda \in Seq(Items) /\ agenda # <<>> /\ callstack' = <<>>
  BY DEF IInv, TypeOK, ExecuteCallstack, EndFalse, At
<1>2. CASE Do(<<>>)
  <2>1. <<>> \in Seq(Harmless)
    OBVIOUS
  <2> QED BY <1>1, <1>2, <2>1, Plainly
<1>3. CASE ExecuteCallstack /\ Len(callstack) = 1
  <2>1. callstack[1] \in Funs
    <3>1. callstack \in Seq(Funs)
      BY DEF IInv, TypeOK
    <3> QED BY <1>3, <3>1
  <2>2. Do(<<Function(callstack[1], 1)>>)
    BY <1>3 DEF ExecuteCallstack
  <2>3. <<Function(callstack[1], 1)>> \in Seq(Harmless)
    BY <2>1, HarmlessMade
  <2> QED BY <1>1, <2>2, <2>3, Plainly
<1>4. CASE ExecuteCallstack /\ Len(callstack) > 1
  <2> DEFINE o == Options(ParallelPermutations(callstack), cur, <<>>)
  <2>1. callstack \in Seq(Funs) /\ Len(callstack) \in 2..3
    <3> DEFINE n == Len(callstack)
    <3>1. callstack \in Seq(Funs) /\ n <= MaxParallel
      BY DEF IInv, TypeOK, CallsBounded
    <3>2. n \in Nat /\ MaxParallel \in 1..3 /\ n <= MaxParallel /\ n > 1
      BY <1>4, <3>1, ConstantsAssumption
    <3> HIDE DEF n
    <3>3. n \in 2..3
      BY <3>2
    <3> QED BY <3>1, <3>3 DEF n
  <2>2. ParallelPermutations(callstack) \in Orders
    BY <2>1, OrdersMade
  <2>3. cur \in Versions /\ <<>> \in Seq(Versions)
    BY DEF IInv, TypeOK
  <2>4. o \in Harmless
    BY <2>2, <2>3, HarmlessMade
  <2>5. callstack # <<>> /\ Len(callstack) # 1
    <3>1. Len(<<>>) = 0 /\ ~(0 > 1) /\ ~(1 > 1)
      OBVIOUS
    <3>2. callstack # <<>>
      BY <1>4, <3>1
    <3>3. Len(callstack) # 1
      BY <1>4, <3>1
    <3> QED BY <3>2, <3>3
  <2>6. Do(<<o>>)
    BY <1>4, <2>5 DEF ExecuteCallstack
  <2>7. <<o>> \in Seq(Harmless)
    BY <2>4
  <2> QED BY <1>1, <2>6, <2>7, Plainly
<1> QED BY <1>2, <1>3, <1>4 DEF ExecuteCallstack, EndFalse

\* The permutations of a parallel run.
LEMMA RunOptionClears ==
  ASSUME IInv, CallsCleared, RunOption
  PROVE  CallsCleared'
<1> DEFINE o == Head(agenda)
           state == [v \in Vars |-> IF phis[v] = <<>> THEN Absent ELSE GetStartState(phis[v])]
           c == Calls(Head(o.ps))
           d == EndOption(Tail(o.ps), trail, state, o.start, o.ends)
<1>1. agenda \in Seq(Items) /\ agenda # <<>> /\ o.do = "options" /\ o \in Items
  BY HeadItem DEF RunOption, IInv, TypeOK
<1>2. callstack' = callstack /\ o.do \notin Clears
  BY <1>1 DEF RunOption, ctlVars, Clears
<1>3. o.ps \in Orders /\ o.start \in Versions /\ o.ends \in Seq(Versions) /\ trail \in Trails
  BY <1>1, ItemFields DEF IInv, TypeOK
<1>4. Head(o.ps) \in NonEmpty(Funs) /\ Tail(o.ps) \in Seq(NonEmpty(Funs))
  <2>1. o.ps \in Seq(NonEmpty(Funs)) /\ o.ps # <<>>
    BY <1>3 DEF Orders, NonEmpty
  <2> QED BY <2>1
<1>5. state \in [Vars -> Nat \cup {Absent}]
  <2>1. \A v \in Vars : phis[v] \in Seq(NonEmpty(Nat)) /\ 0 \in Nat
    BY DEF IInv, TypeOK
  <2>2. \A v \in Vars : GetStartState(phis[v]) \in Nat
    BY <2>1, StackReads
  <2> QED BY <2>2
<1>6. c \in Harmless /\ d \in Harmless
  BY <1>3, <1>4, <1>5, HarmlessMade
<1>7. Do(<<c, d>>) /\ <<c, d>> \in Seq(Harmless)
  BY <1>6 DEF RunOption
<1> QED BY <1>1, <1>2, <1>7, Plainly

LEMMA RunCallClears ==
  ASSUME IInv, CallsCleared, RunCall
  PROVE  CallsCleared'
<1> DEFINE fs == Head(agenda).fs
           t == IF Tail(fs) = <<>> THEN <<>> ELSE <<Calls(Tail(fs))>>
           s == <<Function(Head(fs), 1), EndCall>> \o t
<1>1. /\ agenda \in Seq(Items) /\ agenda # <<>> /\ Head(agenda).do = "calls"
      /\ fs \in NonEmpty(Funs)
  BY HeadItem, ItemFields DEF RunCall, IInv, TypeOK
<1>2. callstack' = callstack /\ Head(agenda).do \notin Clears
  BY <1>1 DEF RunCall, Clears
<1>3. fs \in Seq(Funs) /\ fs # <<>>
  BY <1>1 DEF NonEmpty
<1>4. Head(fs) \in Funs /\ Tail(fs) \in Seq(Funs)
  BY <1>3
<1>5. Tail(fs) # <<>> => Tail(fs) \in NonEmpty(Funs)
  BY <1>4 DEF NonEmpty
<1>6. Function(Head(fs), 1) \in Harmless /\ EndCall \in Harmless
  BY <1>4, HarmlessMade
<1>7. t \in Seq(Harmless)
  BY <1>5, HarmlessMade
<1>8. <<Function(Head(fs), 1), EndCall>> \in Seq(Harmless)
  BY <1>6
<1>9. s \in Seq(Harmless)
  <2> HIDE DEF t
  <2> QED BY <1>7, <1>8
<1>10. Do(s)
  BY DEF RunCall
<1> QED BY <1>1, <1>2, <1>9, <1>10, Plainly

LEMMA EndRunOptionClears ==
  ASSUME IInv, CallsCleared, EndRunOption
  PROVE  CallsCleared'
<1> DEFINE o == Head(agenda)
           ends == Append(o.ends, cur)
<1>1. agenda \in Seq(Items) /\ agenda # <<>> /\ o.do = "endOption" /\ o \in Items
  BY HeadItem DEF EndRunOption, IInv, TypeOK
<1>2. callstack' = callstack /\ o.do \notin Clears
  BY <1>1 DEF EndRunOption, ctlVars, Clears
<1>3. o.ps \in Seq(NonEmpty(Funs)) /\ o.start \in Versions /\ o.ends \in Seq(Versions)
  BY <1>1, ItemFields
<1>4. ends \in Seq(Versions)
  BY <1>3 DEF IInv, TypeOK
<1>5. CASE o.ps = <<>>
  <2>1. CapParallel(ends) \in Harmless
    BY <1>4, HarmlessMade
  <2>2. Do(<<CapParallel(ends)>>) /\ <<CapParallel(ends)>> \in Seq(Harmless)
    BY <1>5, <2>1 DEF EndRunOption
  <2> QED BY <1>1, <1>2, <2>2, Plainly
<1>6. CASE o.ps # <<>>
  <2> DEFINE n == Options(o.ps, o.start, ends)
  <2>1. o.ps \in Orders
    BY <1>3, <1>6 DEF Orders, NonEmpty
  <2>2. n \in Harmless
    BY <1>3, <1>4, <2>1, HarmlessMade
  <2>3. Do(<<n>>) /\ <<n>> \in Seq(Harmless)
    BY <1>6, <2>2 DEF EndRunOption
  <2> QED BY <1>1, <1>2, <2>3, Plainly
<1> QED BY <1>5, <1>6

\* The end of a conditional, in the panic of StoreLastState too.
LEMMA CapConditionalClears ==
  ASSUME IInv, CallsCleared, CapConditional
  PROVE  CallsCleared'
<1>1. /\ agenda \in Seq(Items) /\ agenda # <<>> /\ callstack' = callstack
      /\ Head(agenda).do = "capCond"
  BY DEF IInv, TypeOK, CapConditional, At, ctlVars
<1>2. agenda' = <<>> \/ agenda' = Tail(agenda)
  BY DEF CapConditional
<1>3. CASE agenda' = Tail(agenda)
  <2>1. Do(<<>>) /\ Head(agenda).do \notin Clears
    BY <1>1, <1>3 DEF Do, Clears
  <2> QED BY <1>1, <2>1, Idle
<1>4. CASE agenda' = <<>>
  <2>1. 1 \in DOMAIN agenda /\ agenda[1].do \in Needs
    BY <1>1 DEF Needs
  <2>2. callstack = <<>>
    BY <2>1 DEF CallsCleared, EmptyAt
  <2> QED BY <1>1, <1>4, <2>2 DEF CallsCleared, EmptyAt
<1> QED BY <1>2, <1>3, <1>4

-----------------------------------------------------------------------------
\* The callstack is empty before the walk begins, and the walk begins with
\* globals and the run function only.
LEMMA InitClears == Init => CallsCleared
<1> SUFFICES ASSUME Init PROVE CallsCleared
  OBVIOUS
<1> DEFINE gs == [i \in DOMAIN code.globals |-> Global(code.globals[i])]
<1>1. code.globals \in Seq(Vars)
  BY ProgramsAssumption DEF Init, Modules
<1>2. gs \in Seq(Harmless) /\ <<Function(Run, 1)>> \in Seq(Harmless)
  <2>1. \A i \in DOMAIN code.globals : Global(code.globals[i]) \in Harmless
    BY <1>1, HarmlessMade
  <2>2. Function(Run, 1) \in Harmless
    BY HarmlessMade, ConstantsAssumption
  <2> QED BY <1>1, <2>1, <2>2
<1>3. agenda \in Seq(Harmless) /\ callstack = <<>>
  <2> HIDE DEF gs
  <2> QED BY <1>2 DEF Init, gs
<1>4. \A i \in 1..Len(agenda) : agenda[i].do \notin Needs \cup Queues
  BY <1>3 DEF Harmless
<1>5. EmptyAt(agenda, Len(agenda) + 1, callstack)
  <2>1. 0 \in 0..Len(agenda) /\ Len(agenda) + 1 - 1 = Len(agenda)
    BY <1>3
  <2> QED BY <1>3, <1>4, <2>1 DEF EmptyAt
<1>6. DOMAIN agenda = 1..Len(agenda)
  BY <1>3
<1> QED BY <1>4, <1>5, <1>6 DEF CallsCleared

\* Every step keeps it.
LEMMA StepClears == IInv /\ CallsCleared /\ [Next]_vars => CallsCleared'
<1> SUFFICES ASSUME IInv, CallsCleared, [Next]_vars PROVE CallsCleared'
  OBVIOUS
<1>1. CASE UNCHANGED vars
  BY <1>1 DEF vars, ctlVars, CallsCleared
<1>2. CASE Step
  BY <1>2, InstructionsClear, ParseFunctionClears, ParseBlockClears, ParseTermClears,
     ParseElseClears, StoreRoundClears, CallsClear, FlushClears, RunOptionClears,
     RunCallClears, EndRunOptionClears, CapConditionalClears DEF Step
<1> QED BY <1>1, <1>2 DEF Next, Finished

\* No pending call is dropped at the end of a false branch, none is left when
\* the walk ends, whatever the LLVM module.
THEOREM CallsMade == Spec => []NoCallLost
<1>1. CallsCleared => NoCallLost
  <2> SUFFICES ASSUME CallsCleared, At("endElse") \/ agenda = <<>> PROVE callstack = <<>>
    BY DEF NoCallLost
  <2>1. CASE agenda = <<>>
    BY <2>1 DEF CallsCleared, EmptyAt
  <2>2. CASE At("endElse")
    <3>1. CASE 1 \in DOMAIN agenda
      BY <2>2, <3>1 DEF CallsCleared, EmptyAt, At, Needs
    <3> QED BY <2>2, <3>1 DEF At
  <2> QED BY <2>1, <2>2
<1> QED BY <1>1, Inductive, InitClears, StepClears, PTL DEF Spec
=============================================================================
