---------------------------- MODULE SmtGenerator ----------------------------
(***************************************************************************)
(* Package smt: the walk of Generator over the LLVM IR of a model.         *)
(*                                                                         *)
(* The Go code is a set of mutually recursive methods (parseFunction,      *)
(* parseBlock, parseTermCon, executeCallstack, runParallel, ...) over one  *)
(* mutable Generator.  Here the Go call stack is `agenda': a sequence of   *)
(* the calls, and rests of calls, still to be executed.  Every action      *)
(* executes the head of the agenda, updates the fields of the Generator    *)
(* the way that piece of code does, and puts the calls that it makes in    *)
(* front of the rest.                                                      *)
(*                                                                         *)
(* Rules are abstracted to what later code reads back from them: which     *)
(* version of which variable occurs in them (allStateChangesInRule).  The  *)
(* values of the expressions do not matter.                                *)
(***************************************************************************)
EXTENDS SmtVariables, FiniteSets

CONSTANTS
  Vars,        \* base names of the variables of the model
  Blocks,      \* basic blocks
  Funs,        \* LLVM functions
  Run,         \* the function @__run
  Groups,      \* names of parallel groups, the metadata of a call
  NoGroup,     \* a call without metadata; parallelGrouping = ""
  NoBlock,     \* nil *ir.Block
  Lit,         \* an operand that is a literal
  Programs,    \* the LLVM modules under consideration
  MaxParallel  \* bound: calls in one parallel group

(***************************************************************************)
(* LLVM modules.  An instruction carries what parseInstruct looks at; the  *)
(* loads that precede an arithmetic instruction or a store are part of it. *)
(***************************************************************************)
Operands == Vars \cup {Lit}

Insts ==
  [do: {"const"}, dst: Vars] \cup              \* store of a literal
  [do: {"infix"}, dst: Vars, x: Operands, y: Operands] \cup
  [do: {"copy"}, dst: Vars, x: Vars] \cup      \* store of a loaded value
  [do: {"cmp"}, x: Operands, y: Operands] \cup
  [do: {"advance"}, to: Vars, from: Vars] \cup
  [do: {"call"}, f: Funs, m: Groups \cup {NoGroup}] \cup
  [do: {"round"}]                              \* store to @__rounds

Terms == [do: {"ret", "br"}] \cup
         [do: {"cond"}, t: Blocks, f: Blocks \cup {NoBlock},
          a: Blocks \cup {NoBlock}]

Modules == [globals: Seq(Vars), order: [Funs -> Seq(Blocks)],
            insts: [Blocks -> Seq(Insts)], term: [Blocks -> Terms]]

ASSUME ConstantsAssumption ==
  /\ IsFiniteSet(Vars)
  /\ Run \in Funs
  /\ NoBlock \notin Blocks
  /\ Lit \notin Vars
  /\ NoGroup \notin Groups
  /\ MaxParallel \in 1..3

ASSUME ProgramsAssumption == Programs \subseteq Modules

VARIABLES
  code,        \* the LLVM module, never changed
  agenda,      \* calls still to be executed
  ssa,         \* VarData.SSA
  phis,        \* VarData.Phis
  level,       \* inPhiState
  returnVoid,
  runStart,    \* parallelRunStart
  callstack,   \* localCallstack
  grouping,    \* parallelGrouping
  forks,
  trail,       \* versions in the rules of the list under construction
  rounds,      \* RoundVars
  results,     \* Results
  declared,    \* versions that have a declare-fun
  panicked,
  \* History, for the properties only:
  cur,         \* the version that holds a variable's value on this path
  seen,        \* the reads and merges of the last step
  visits       \* how often a block was parsed

genVars  == <<ssa, phis, declared, rounds, results>>
ctlVars  == <<level, returnVoid, runStart, callstack, grouping>>
ruleVars == <<forks, trail>>
histVars == <<cur, visits>>
vars     == <<code, agenda, genVars, ctlVars, ruleVars, panicked, histVars, seen>>

-----------------------------------------------------------------------------
(***************************************************************************)
(* Entries of the agenda.  They hold the local variables of the Go calls   *)
(* they stand for: the rules collected so far by the caller (outer) and in *)
(* the true branch (true), the state saved for a parallel option (state).  *)
(* start and ends are history: the versions at the start of a conditional  *)
(* or a parallel run and at the end of its branches or options.            *)
(***************************************************************************)
Versions    == [Vars -> Nat]
Trails      == [Vars -> [vals: SUBSET Nat, end: Nat]]
NonEmpty(S) == Seq(S) \ {<<>>}
Orders      == NonEmpty(NonEmpty(Funs))

Function(f, i)     == [do |-> "function", f |-> f, i |-> i]
Block(b)           == [do |-> "block", b |-> b]
Flush              == [do |-> "flush"]
Term(b)            == [do |-> "term", b |-> b]
Else(b, outer, start) == [do |-> "else", b |-> b, outer |-> outer, start |-> start]
EndElse            == [do |-> "endElse"]
CapCond(outer, true, end) ==
  [do |-> "capCond", outer |-> outer, true |-> true, end |-> end]
Options(ps, start, ends) == [do |-> "options", ps |-> ps, start |-> start, ends |-> ends]
Calls(fs)          == [do |-> "calls", fs |-> fs]
EndCall            == [do |-> "endCall"]
EndOption(ps, outer, state, start, ends) ==
  [do |-> "endOption", ps |-> ps, outer |-> outer, state |-> state,
   start |-> start, ends |-> ends]
CapParallel(ends)  == [do |-> "capParallel", ends |-> ends]
Called(f, m, push) == [do |-> "called", f |-> f, m |-> m, push |-> push]
Global(v)          == [do |-> "global", v |-> v]
State(v)           == [do |-> "state", dst |-> v]

Items ==
  Insts \cup [do: {"function"}, f: Funs, i: Nat \ {0}] \cup
  [do: {"block", "term"}, b: Blocks] \cup
  [do: {"flush", "endElse", "endCall"}] \cup
  [do: {"else"}, b: Blocks \cup {NoBlock}, outer: Trails, start: Versions] \cup
  [do: {"capCond"}, outer: Trails, true: Trails, end: Versions] \cup
  [do: {"options"}, ps: Orders, start: Versions, ends: Seq(Versions)] \cup
  [do: {"calls"}, fs: NonEmpty(Funs)] \cup
  [do: {"endOption"}, ps: Seq(NonEmpty(Funs)), outer: Trails,
   state: [Vars -> Nat \cup {Absent}], start: Versions, ends: Seq(Versions)] \cup
  [do: {"capParallel"}, ends: Seq(Versions)] \cup
  [do: {"called"}, f: Funs, m: Groups \cup {NoGroup}, push: BOOLEAN] \cup
  [do: {"global"}, v: Vars] \cup
  [do: {"state"}, dst: Vars]

\* The head of the agenda is an entry of kind d.
At(d) == agenda # <<>> /\ Head(agenda).do = d

\* It is executed, making the calls in s.
Do(s) == agenda' = s \o Tail(agenda)

-----------------------------------------------------------------------------
(***************************************************************************)
(* Helpers.                                                                *)
(***************************************************************************)
NoTrails == [v \in Vars |-> NoTrail]
NoFork   == [v \in Vars |-> <<>>]

\* Mutants: the entry that opens round 0 is lost; every entry opens a round.
FirstEntryLost(rs, es) == IF rs = <<>> THEN << <<>> >> ELSE [rs EXCEPT ![Len(rs)] = @ \o es]
RoundPerEntry(rs, es)  == IF es = <<>> THEN rs ELSE Append(rs, es)

\* The first entry of all opens round 0, later ones join the last round.
AddVarToRound(rs, es) ==
  CASE es = <<>> -> rs
    [] es # <<>> /\ rs = <<>> -> <<es>>
    [] OTHER -> [rs EXCEPT ![Len(rs)] = @ \o es]

\* Mutant: a first version is its own parent.
SelfParent(id, parent) == [id |-> id, parent |-> parent]

VarChange(id, parent) ==
  [id |-> id, parent |-> IF id = parent THEN Absent ELSE parent]

\* Mutant: a fork is only opened outside of conditionals and parallel runs.
OuterForkOnly(fs, l, fork) == IF l > 0 THEN fs ELSE Append(fs, fork)

\* newFork at nesting level l.
NewFork(fs, l, fork) ==
  IF fs # <<>> /\ l > 0 THEN Append(Front(fs), fork) ELSE Append(fs, fork)

\* Mutant: the versions of a choice are not sorted, its end is not the highest.
UnsortedChoice(t, b) ==
  IF t.vals = {} THEN <<>> ELSE <<[branch |-> b, vals |-> t.vals, end |-> Min(t.vals)]>>

\* The choices that buildForkChoice adds for one list of rules.  The branch of
\* the options of a parallel run, the empty string, is written "option".
Choice(t, b) == IF t.vals = {} THEN <<>> ELSE <<[branch |-> b, vals |-> t.vals, end |-> t.end]>>

\* Version n of variable v occurs in the list of rules ts.
Mention(ts, v, n) == IF v = Lit THEN ts ELSE [ts EXCEPT ![v] = AddChoiceValue(@, n)]

\* The rules of both lists, appended.
Joined(ts, us) == [v \in Vars |-> JoinTrails(ts[v], us[v])]

\* Mutants: parallelRunStart is ignored; the number is one too high.
IgnoreStart(v, start) == GetSSA(ssa[v])
ReadNext(v, start)    == GetSSA(ssa[v]) + 1

\* convertInfixVar: the version that an operand stands for.
ReadNum(v, start) == IF start THEN GetStartState(phis[v]) ELSE GetSSA(ssa[v])

\* Mutant: GetSSA does not look whether the variable is registered.
Reregistered(S) == [v \in Vars |-> IF v \in S THEN 0 ELSE ssa[v]]

\* GetSSA registers a variable it has not met.
Registered(S) == [v \in Vars |-> IF v \in S THEN GetSSA(ssa[v]) ELSE ssa[v]]

-----------------------------------------------------------------------------
(***************************************************************************)
(* parseFunction and parseBlock.                                           *)
(***************************************************************************)
Quiet == seen' = [reads |-> {}, merges |-> {}]

\* Mutants: returnVoid is not looked at; the loop does not get past a skipped block.
BlockAlways(f, i) == <<Block(code.order[f][i]), Function(f, i + 1)>>
BlockStuck(f, i)  ==
  IF returnVoid = 0 THEN <<Block(code.order[f][i]), Function(f, i + 1)>> ELSE <<Function(f, i)>>

\* The loop over f.Blocks: a block is parsed only while returnVoid is clear.
BlockStep(f, i) ==
  (IF returnVoid = 0 THEN <<Block(code.order[f][i])>> ELSE <<>>) \o <<Function(f, i + 1)>>

ParseFunction ==
  /\ At("function")
  /\ LET f == Head(agenda).f  i == Head(agenda).i IN
       \/ /\ i <= Len(code.order[f])
          /\ Do(BlockStep(f, i))
          /\ UNCHANGED returnVoid
       \/ /\ i > Len(code.order[f])
          /\ Do(<<>>)
          /\ returnVoid' = Out(returnVoid)
  /\ Quiet
  /\ UNCHANGED <<code, genVars, level, runStart, callstack, grouping, ruleVars,
                 panicked, histVars>>

\* Mutant: the callstack is not cleared at the end of a block.
BlockUnflushed(b) == code.insts[b] \o <<Term(b)>>

\* The instructions, then executeCallstack, then the terminator.
BlockItems(b) == code.insts[b] \o <<Flush, Term(b)>>

ParseBlock ==
  /\ At("block")
  /\ LET b == Head(agenda).b IN
       /\ Do(BlockItems(b))
       /\ visits' = [visits EXCEPT ![b] = @ + 1]
  /\ Quiet
  /\ UNCHANGED <<code, genVars, ctlVars, ruleVars, panicked, cur>>

\* The terminator of a block; a conditional one opens the true branch.
ParseTerm ==
  /\ At("term")
  /\ LET term == code.term[Head(agenda).b] IN
       \/ /\ term.do = "ret"
          /\ returnVoid' = In(returnVoid)
          /\ Do(<<>>)
          /\ UNCHANGED <<phis, level, trail>>
       \/ /\ term.do = "br"
          /\ Do(<<>>)
          /\ UNCHANGED <<phis, level, returnVoid, trail>>
       \/ /\ term.do = "cond"
          /\ phis' = [v \in Vars |-> InitPhi(phis[v])]
          /\ level' = In(level)
          /\ trail' = NoTrails
          /\ Do(<<Block(term.t), Flush, Else(term.f, trail, cur)>>
                  \o IF term.a = NoBlock THEN <<>> ELSE <<Block(term.a), Flush>>)
          /\ UNCHANGED returnVoid
  /\ Quiet
  /\ UNCHANGED <<code, ssa, declared, rounds, results, runStart, callstack,
                 grouping, forks, panicked, cur, visits>>

\* The end of the true branch and the start of the false one, if any.
ParseElse ==
  /\ At("else")
  /\ LET e == Head(agenda)
         cap == CapCond(e.outer, trail, cur)
     IN
       /\ \/ /\ e.b = NoBlock
             /\ level' = Out(level)
             /\ Do(<<cap>>)
          \/ /\ e.b # NoBlock
             /\ level' = In(Out(level))
             /\ Do(<<Block(e.b), EndElse, cap>>)
       /\ cur' = e.start
  /\ trail' = NoTrails
  /\ Quiet
  /\ UNCHANGED <<code, genVars, returnVoid, runStart, callstack, grouping, forks,
                 panicked, visits>>

\* The false branch drops the calls that are still pending.
EndFalse ==
  /\ At("endElse")
  /\ callstack' = <<>>
  /\ level' = Out(level)
  /\ Do(<<>>)
  /\ Quiet
  /\ UNCHANGED <<code, genVars, returnVoid, runStart, grouping, ruleVars, panicked,
                 histVars>>

(***************************************************************************)
(* The end of a conditional in parseTermCon: newFork, buildForkChoice,     *)
(* capCond for both branches, capCondSyncRules, PopPhis and AppendState.   *)
(***************************************************************************)
CondFork(true) == [v \in Vars |-> Choice(true[v], "true") \o Choice(trail[v], "false")]

ForkVars(fork) == {v \in Vars : fork[v] # <<>>}

\* The phi of a conditional is equated with the end of the branch, or with
\* the start state where the variable does not occur in the branch.
CondEnd(v, t) == IF t[v].vals = {} THEN GetStartState(phis[v]) ELSE t[v].end

\* Phis of v after capCondSyncRules and PopPhis.
SyncedPhis(v, fork, phi) ==
  PopPhi(CASE Len(fork[v]) = 1 /\ In(level) = 1 -> NewPhi(phis[v], phi)
           [] Len(fork[v]) = 1 /\ In(level) # 1 -> StoreLastState(phis[v], phi)
           [] OTHER -> phis[v])

CapConditional ==
  /\ At("capCond")
  /\ LET c     == Head(agenda)
         fork  == CondFork(c.true)
         used  == ForkVars(fork)
         phi   == [v \in Vars |-> AdvanceSSA(ssa[v])]
         start == [v \in Vars |-> GetStartState(phis[v])]
         popped == [v \in Vars |-> SyncedPhis(v, fork, phi[v])]
         Ends(v) == [i \in 1..Len(fork[v]) |-> fork[v][i].end]
                      \o IF Len(fork[v]) = 1 THEN <<start[v]>> ELSE <<>>
     IN
       /\ ssa' = [v \in Vars |-> IF v \in used THEN phi[v] ELSE ssa[v]]
       /\ declared' = [v \in Vars |->
            IF v \in used THEN declared[v] \cup {phi[v]} ELSE declared[v]]
       /\ forks' = IF used = {} THEN forks ELSE NewFork(forks, In(level), fork)
       /\ results' = [v \in Vars |-> IF v \in used
            THEN results[v] \o [i \in DOMAIN Ends(v) |-> VarChange(phi[v], Ends(v)[i])]
            ELSE results[v]]
       /\ phis' = [v \in Vars |->
            IF v \in used THEN StoreLastState(popped[v], phi[v]) ELSE popped[v]]
       /\ \E vs \in SetToSeqs(used) :
            rounds' = AddVarToRound(rounds, [i \in DOMAIN vs |-> <<vs[i], phi[vs[i]]>>])
       /\ trail' = [v \in Vars |-> IF v \in used
            THEN AddChoiceValue(
                   AddChoiceValue(JoinTrails(c.outer[v], JoinTrails(c.true[v], trail[v])),
                                  phi[v]),
                   IF Len(fork[v]) = 1 THEN start[v] ELSE phi[v])
            ELSE c.outer[v]]
       /\ cur' = [v \in Vars |-> IF v \in used THEN phi[v] ELSE cur[v]]
       /\ seen' = [reads |-> {},
                   merges |-> {[var |-> v, phi |-> phi[v], ends |-> {CondEnd(v, c.true)},
                                want |-> {c.end[v]}] : v \in used}
                         \cup {[var |-> v, phi |-> phi[v], ends |-> {CondEnd(v, trail)},
                                want |-> {cur[v]}] : v \in used}]
       \* StoreLastState indexes the last list of a stack that is now empty.
       /\ panicked' = \E v \in used : /\ popped[v] = <<>>
                                      /\ phis[v] # <<>> \/ Len(fork[v]) = 1
       /\ agenda' = IF panicked' THEN <<>> ELSE Tail(agenda)
  /\ UNCHANGED <<code, ctlVars, visits>>

-----------------------------------------------------------------------------
(***************************************************************************)
(* Instructions.                                                           *)
(***************************************************************************)

(***************************************************************************)
(* What all paths of storeRule, and parseBuiltIn for either state, have in *)
(* common: v gets a fresh version, recorded in the round as num.           *)
(***************************************************************************)
Assign(v, base, num, ts) ==
  LET n  == GetSSA(base[v])
      id == AdvanceSSA(base[v])
  IN
    /\ ssa' = [base EXCEPT ![v] = id]
    /\ phis' = [phis EXCEPT ![v] =
         IF level = 0 THEN NewPhi(@, n + 1) ELSE StoreLastState(@, n + 1)]
    /\ declared' = [declared EXCEPT ![v] = @ \cup {id}]
    /\ rounds' = AddVarToRound(rounds, << <<v, num>> >>)
    /\ results' = [results EXCEPT ![v] = Append(@, VarChange(id, n))]
    /\ trail' = Mention(ts, v, id)
    /\ cur' = [cur EXCEPT ![v] = id]

Read(v, n) == IF v = Lit THEN {} ELSE {[var |-> v, got |-> n, want |-> cur[v],
                                        pending |-> callstack # <<>>]}

StoreConst ==
  /\ At("const")
  /\ LET v == Head(agenda).dst IN Assign(v, ssa, AdvanceSSA(ssa[v]), trail)
  /\ Do(<<>>)
  /\ Quiet
  /\ UNCHANGED <<code, ctlVars, forks, panicked, visits>>

\* createInfixRule converts the operands, storeRule stores the result.
StoreInfix ==
  /\ At("infix")
  /\ LET i  == Head(agenda)
         yStart == runStart /\ i.x = Lit
         xn == IF i.x = Lit THEN 0 ELSE ReadNum(i.x, runStart)
         yn == IF i.y = Lit THEN 0 ELSE ReadNum(i.y, yStart)
         met == (IF runStart THEN {} ELSE {i.x}) \cup (IF yStart THEN {} ELSE {i.y})
         base == Registered(met)
     IN
       /\ Assign(i.dst, base, GetSSA(base[i.dst]) + 1,
                 Mention(Mention(trail, i.x, xn), i.y, yn))
       /\ runStart' = (yStart /\ i.y = Lit)
       /\ seen' = [reads |-> Read(i.x, xn) \cup Read(i.y, yn), merges |-> {}]
  /\ Do(<<>>)
  /\ UNCHANGED <<code, level, returnVoid, callstack, grouping, forks, panicked,
                 visits>>

\* A loaded value is named with the version number of the destination.
StoreCopy ==
  /\ At("copy")
  /\ LET i == Head(agenda)
         n == GetSSA(ssa[i.dst])
     IN
       /\ Assign(i.dst, ssa, n + 1, Mention(trail, i.x, n))
       /\ seen' = [reads |-> Read(i.x, n), merges |-> {}]
  /\ Do(<<>>)
  /\ UNCHANGED <<code, ctlVars, forks, panicked, visits>>

\* InstFCmp and InstICmp: the rule of a condition is built here, before the
\* terminator that uses it.
ParseCmp ==
  /\ At("cmp")
  /\ LET i  == Head(agenda)
         yStart == runStart /\ i.x = Lit
         xn == IF i.x = Lit THEN 0 ELSE ReadNum(i.x, runStart)
         yn == IF i.y = Lit THEN 0 ELSE ReadNum(i.y, yStart)
         met == (IF runStart THEN {} ELSE {i.x}) \cup (IF yStart THEN {} ELSE {i.y})
     IN
       /\ ssa' = Registered(met)
       /\ runStart' = (yStart /\ i.y = Lit)
       /\ seen' = [reads |-> Read(i.x, xn) \cup Read(i.y, yn), merges |-> {}]
  /\ Do(<<>>)
  /\ UNCHANGED <<code, phis, declared, rounds, results, level, returnVoid, callstack,
                 grouping, ruleVars, panicked, histVars>>

\* advance(): the target state becomes true, then the current one false.
ParseBuiltIn ==
  \/ /\ At("advance")
     /\ Do(<<State(Head(agenda).to), State(Head(agenda).from)>>)
     /\ Quiet
     /\ UNCHANGED <<code, genVars, ctlVars, ruleVars, panicked, histVars>>
  \/ /\ At("state")
     /\ LET v == Head(agenda).dst IN Assign(v, ssa, GetSSA(ssa[v]) + 1, trail)
     /\ Do(<<>>)
     /\ Quiet
     /\ UNCHANGED <<code, ctlVars, forks, panicked, visits>>

\* A global constant: declared with version 0 before the run block.
ConstantRule ==
  /\ At("global")
  /\ LET v == Head(agenda).v  id == AdvanceSSA(ssa[v]) IN
       /\ ssa' = [ssa EXCEPT ![v] = id]
       /\ declared' = [declared EXCEPT ![v] = @ \cup {id}]
       /\ rounds' = AddVarToRound(rounds, << <<v, 0>> >>)
       /\ cur' = [cur EXCEPT ![v] = id]
  /\ Do(<<>>)
  /\ Quiet
  /\ UNCHANGED <<code, phis, results, ctlVars, ruleVars, panicked, visits>>

\* A store to @__rounds clears the callstack, then opens a round.
StoreRound ==
  /\ At("round")
  /\ IF callstack # <<>>
       THEN Do(<<Flush, [do |-> "round"]>>) /\ UNCHANGED rounds
       ELSE Do(<<>>) /\ rounds' = Append(rounds, <<>>)
  /\ Quiet
  /\ UNCHANGED <<code, ssa, phis, declared, results, ctlVars, ruleVars, panicked,
                 histVars>>

-----------------------------------------------------------------------------
(***************************************************************************)
(* Calls and parallel runs.                                                *)
(***************************************************************************)
IsSameParallelGroup(m) == m # NoGroup /\ grouping \in {m, NoGroup}
SingleParallelStep(f)  == callstack # <<>> /\ f = Last(callstack)
UpdateParallelGroup(m) == grouping' = IF m = NoGroup THEN grouping ELSE m

\* A call is deferred: it joins the pending group, or the pending group is
\* executed first.
ParseCall ==
  /\ At("call")
  /\ LET f == Head(agenda).f  m == Head(agenda).m IN
       \/ /\ IsSameParallelGroup(m)
          /\ Do(<<Called(f, m, TRUE)>>)
       \/ /\ ~IsSameParallelGroup(m) /\ SingleParallelStep(f)
          /\ Do(<<Flush, Function(f, 1), Called(f, m, FALSE)>>)
       \/ /\ ~IsSameParallelGroup(m) /\ ~SingleParallelStep(f)
          /\ Do(<<Flush, Called(f, m, TRUE)>>)
  /\ Quiet
  /\ UNCHANGED <<code, genVars, ctlVars, ruleVars, panicked, histVars>>

EndParseCall ==
  /\ At("called")
  /\ LET c == Head(agenda) IN
       /\ c.push => Len(callstack) < MaxParallel
       /\ callstack' = IF c.push THEN Append(callstack, c.f) ELSE callstack
       /\ UpdateParallelGroup(c.m)
  /\ returnVoid' = Out(returnVoid)
  /\ Do(<<>>)
  /\ Quiet
  /\ UNCHANGED <<code, genVars, level, runStart, ruleVars, panicked, histVars>>

Swap(p, i, j) == [p EXCEPT ![i] = p[j], ![j] = p[i]]

\* All orders of p, in the order of the swaps that produce them.
ParallelPermutations(p) ==
  CASE Len(p) = 2 -> <<p, Swap(p, 1, 2)>>
    [] Len(p) = 3 -> <<p, Swap(p, 2, 3),
                       Swap(p, 1, 2), Swap(Swap(p, 1, 2), 2, 3),
                       Swap(p, 1, 3), Swap(Swap(p, 1, 3), 2, 3)>>

\* executeCallstack and generateFromCallstack.
ExecuteCallstack ==
  /\ At("flush")
  /\ callstack' = <<>>
  /\ \/ /\ callstack = <<>>
        /\ Do(<<>>)
        /\ UNCHANGED forks
     \/ /\ Len(callstack) = 1
        /\ Do(<<Function(callstack[1], 1)>>)
        /\ UNCHANGED forks
     \/ /\ Len(callstack) > 1
        /\ Do(<<Options(ParallelPermutations(callstack), cur, <<>>)>>)
        /\ forks' = NewFork(forks, level, NoFork)
  /\ Quiet
  /\ UNCHANGED <<code, genVars, level, returnVoid, runStart, grouping, trail,
                 panicked, cur, visits>>

\* runParallel, one permutation: SaveState and the calls.
RunOption ==
  /\ At("options")
  /\ LET o == Head(agenda)
         state == [v \in Vars |-> IF phis[v] = <<>> THEN Absent ELSE GetStartState(phis[v])]
     IN
       /\ Do(<<Calls(Head(o.ps)), EndOption(Tail(o.ps), trail, state, o.start, o.ends)>>)
       /\ cur' = o.start
  /\ trail' = NoTrails
  /\ Quiet
  /\ UNCHANGED <<code, genVars, ctlVars, forks, panicked, visits>>

\* runParallel, one call of a permutation.
RunCall ==
  /\ At("calls")
  /\ runStart' = TRUE
  /\ level' = Out(level)
  /\ LET fs == Head(agenda).fs IN
       Do(<<Function(Head(fs), 1), EndCall>>
            \o IF Tail(fs) = <<>> THEN <<>> ELSE <<Calls(Tail(fs))>>)
  /\ Quiet
  /\ UNCHANGED <<code, genVars, returnVoid, callstack, grouping, ruleVars, panicked,
                 histVars>>

EndRunCall ==
  /\ At("endCall")
  /\ level' = In(level)
  /\ Do(<<>>)
  /\ Quiet
  /\ UNCHANGED <<code, genVars, returnVoid, runStart, callstack, grouping, ruleVars,
                 panicked, histVars>>

\* runParallel, end of a permutation: buildForkChoice and LoadState.
EndRunOption ==
  /\ At("endOption")
  /\ LET o == Head(agenda)
         ends == Append(o.ends, cur)
     IN
       /\ forks' = [forks EXCEPT ![Len(forks)] =
            [v \in Vars |-> @[v] \o Choice(trail[v], "option")]]
       /\ phis' = [v \in Vars |->
            IF o.state[v] = Absent THEN phis[v] ELSE NewPhi(phis[v], o.state[v])]
       /\ trail' = Joined(o.outer, trail)
       /\ Do(IF o.ps = <<>> THEN <<CapParallel(ends)>> ELSE <<Options(o.ps, o.start, ends)>>)
  /\ Quiet
  /\ UNCHANGED <<code, ssa, declared, rounds, results, ctlVars, panicked, cur, visits>>

CapRunParallel ==
  /\ At("capParallel")
  /\ LET fork == Last(forks)
         used == ForkVars(fork)
         phi  == [v \in Vars |-> AdvanceSSA(ssa[v])]
     IN
       /\ ssa' = [v \in Vars |-> IF v \in used THEN phi[v] ELSE ssa[v]]
       /\ declared' = [v \in Vars |->
            IF v \in used THEN declared[v] \cup {phi[v]} ELSE declared[v]]
       /\ results' = [v \in Vars |->
            results[v] \o [i \in DOMAIN fork[v] |-> VarChange(phi[v], fork[v][i].end)]]
       /\ phis' = [v \in Vars |->
            CASE v \notin used -> phis[v]
              [] v \in used /\ level = 1 -> NewPhi(phis[v], phi[v])
              [] OTHER -> StoreLastState(phis[v], phi[v])]
       /\ \E vs \in SetToSeqs(used) :
            rounds' = AddVarToRound(rounds, [i \in DOMAIN vs |-> <<vs[i], phi[vs[i]]>>])
       /\ cur' = [v \in Vars |-> IF v \in used THEN phi[v] ELSE cur[v]]
       /\ seen' = [reads |-> {}, merges |->
            {[var |-> v, phi |-> phi[v],
              ends |-> {fork[v][i].end : i \in DOMAIN fork[v]},
              want |-> {Head(agenda).ends[i][v] : i \in DOMAIN Head(agenda).ends}]
             : v \in used}]
  /\ Do(<<>>)
  /\ UNCHANGED <<code, ctlVars, ruleVars, panicked, visits>>

-----------------------------------------------------------------------------
Init ==
  /\ code \in Programs
  /\ agenda = [i \in DOMAIN code.globals |-> Global(code.globals[i])] \o <<Function(Run, 1)>>
  /\ ssa = [v \in Vars |-> Absent]
  /\ phis = [v \in Vars |-> <<>>]
  /\ declared = [v \in Vars |-> {}]
  /\ rounds = <<>>
  /\ results = [v \in Vars |-> <<>>]
  /\ level = 0
  /\ returnVoid = 0
  /\ runStart = FALSE
  /\ callstack = <<>>
  /\ grouping = NoGroup
  /\ forks = <<>>
  /\ trail = NoTrails
  /\ panicked = FALSE
  /\ cur = [v \in Vars |-> 0]
  /\ seen = [reads |-> {}, merges |-> {}]
  /\ visits = [b \in Blocks |-> 0]

Step == \/ ParseFunction \/ ParseBlock \/ ParseTerm \/ ParseElse \/ EndFalse
        \/ CapConditional
        \/ StoreConst \/ StoreInfix \/ StoreCopy \/ ParseCmp \/ ParseBuiltIn
        \/ ConstantRule \/ StoreRound
        \/ ParseCall \/ EndParseCall \/ ExecuteCallstack \/ RunOption \/ RunCall
        \/ EndRunCall \/ EndRunOption \/ CapRunParallel

Finished == agenda = <<>> /\ UNCHANGED vars

Next == Step \/ Finished

\* The generator is a terminating recursion that nothing preempts.
Spec == Init /\ [][Next]_vars /\ WF_vars(Step)

-----------------------------------------------------------------------------
(***************************************************************************)
(* LLVM modules of models that create their instances before they use      *)
(* them: every variable gets its first version from a global or from one   *)
(* of the stores at the head of the run function.                          *)
(***************************************************************************)
FirstBlock(p) == p.order[Run][1]

StoredFirst(p, v) ==
  \E i \in DOMAIN p.insts[FirstBlock(p)] :
    /\ p.insts[FirstBlock(p)][i].do = "const"
    /\ p.insts[FirstBlock(p)][i].dst = v
    /\ \A j \in 1..(i - 1) : p.insts[FirstBlock(p)][j].do \in {"const", "round"}

Initialised(p) ==
  /\ p.order[Run] # <<>>
  /\ \A i, j \in DOMAIN p.globals : p.globals[i] = p.globals[j] => i = j
  /\ \A v \in Vars : (\E i \in DOMAIN p.globals : p.globals[i] = v) \/ StoredFirst(p, v)

\* No variable is assigned the value of another one as it is.
NoCopies(p) ==
  \A b \in Blocks : \A i \in DOMAIN p.insts[b] : p.insts[b][i].do # "copy"

\* Instruction i reads or assigns v.
Names(i, v) ==
  \/ i.do \in {"const", "infix", "copy"} /\ i.dst = v
  \/ i.do \in {"infix", "copy", "cmp"} /\ i.x = v
  \/ i.do \in {"infix", "cmp"} /\ i.y = v
  \/ i.do = "advance" /\ v \in {i.to, i.from}

\* Nothing but the properties of instances is used: no global constant is.
Own(p, v) == StoredFirst(p, v) /\ \A i \in DOMAIN p.globals : p.globals[i] # v

OwnState(p) ==
  \A v \in Vars :
    Own(p, v) \/ \A b \in Blocks : \A i \in DOMAIN p.insts[b] : ~Names(p.insts[b][i], v)

\* After a call, a call of the same group and the instructions in R come only
\* after the next round.
Apart(is, R) ==
  \A i, j \in DOMAIN is :
    /\ i < j /\ is[i].do = "call"
    /\ is[j].do \in R \/ (is[j].do = "call" /\ is[i].m \in {NoGroup, is[j].m})
    => \E k \in i..j : is[k].do = "round"

\* No step is parallel.
Sequential(p) == \A b \in Blocks : Apart(p.insts[b], {})

\* No step is parallel, and calls are the last steps of a round.
CallsLast(p) == \A b \in Blocks : Apart(p.insts[b], {"infix", "copy", "cmp"})

\* No conditional has an else.
NoElse(p) == \A b \in Blocks : p.term[b].do = "cond" => p.term[b].f = NoBlock

-----------------------------------------------------------------------------
(***************************************************************************)
(* Properties.                                                             *)
(***************************************************************************)

ForkChoices == [branch: {"true", "false", "option"}, vals: SUBSET Nat, end: Nat]
VarChanges  == [id: Nat, parent: Nat \cup {Absent}]

\* The fields of the Generator have the types of their Go declarations and the
\* agenda holds only calls that the walk can make.
TypeOK ==
  /\ code \in Modules
  /\ agenda \in Seq(Items)
  /\ ssa \in [Vars -> Nat \cup {Absent}]
  /\ phis \in [Vars -> Seq(NonEmpty(Nat))]
  /\ level \in Nat
  /\ returnVoid \in Nat
  /\ runStart \in BOOLEAN
  /\ callstack \in Seq(Funs)
  /\ grouping \in Groups \cup {NoGroup}
  /\ forks \in Seq([Vars -> Seq(ForkChoices)])
  /\ trail \in Trails
  /\ rounds \in Seq(Seq(Vars \X Nat))
  /\ results \in [Vars -> Seq(VarChanges)]
  /\ declared \in [Vars -> SUBSET Nat]
  /\ panicked \in BOOLEAN
  /\ cur \in Versions
  /\ visits \in [Blocks -> Nat]

\* Every number from 1 up to the last one handed out by AdvanceSSA has a
\* declare-fun and no other number has one: storeRule, parseBuiltIn, capCond and
\* capParallel declare exactly the versions they advance to.
VersionsContiguous == \A v \in Vars : declared[v] \cup {0} = 0..GetSSA(ssa[v])

\* Every version that the Phis stacks hold, and every start state saved by
\* SaveState, was handed out: NewPhi, StoreLastState, InitPhis and LoadState
\* never invent a version.
PhisHandedOut ==
  /\ \A v \in Vars : phis[v] \in Seq(NonEmpty(0..ssa[v]))
  /\ \A i \in DOMAIN agenda : agenda[i].do = "endOption" =>
       \A v \in Vars : agenda[i].state[v] <= ssa[v]

\* While a parallel run is open there is a fork to put its choices in:
\* getCurrentFork never indexes an empty slice in buildForkChoice and capParallel.
InRun == {"options", "endOption", "capParallel"}
ForkOpen == \A i \in DOMAIN agenda : agenda[i].do \in InRun => forks # <<>>

\* Every version a rule reads is the one that reaches that point on the path of
\* branches and parallel options being parsed, and no call that comes before the
\* read is still waiting on the callstack (convertInfixVar, createInfixRule).
ReadsCurrent == \A r \in seen.reads : ~r.pending /\ r.got = r.want

\* A rule mentions only versions that have a declare-fun, whatever the nesting
\* of conditionals and parallel runs (convertInfixVar).
ReadsDeclared == \A r \in seen.reads : r.got \in declared[r.var]

\* The phi that ends a conditional or a parallel run is equated with the
\* versions the variable has at the end of the branches, or of the options
\* (capCond, capCondSyncRules, capParallel).
MergesPathEnds == \A m \in seen.merges : m.ends = m.want

\* LoadMeta in package execute takes a phi to be the highest end of the fork
\* plus one; the number handed out by capCond and capParallel is that one.
PhiAboveEnds ==
  \A m \in seen.merges :
    m.phi = 1 + Max({Last(forks)[m.var][i].end : i \in DOMAIN Last(forks)[m.var]})

\* All options of a parallel run begin from the same point: a variable that the
\* option has not assigned yet is read in the version it had before the run
\* (runParallel, parallelRunStart).
OptionsSameStart ==
  \A r \in seen.reads : \A i \in DOMAIN agenda :
    (agenda[i].do = "endOption" /\ r.want = agenda[i].start[r.var]) => r.got = r.want

\* Every declared version is recorded in exactly one place of RoundVars, and
\* RoundVars records nothing else: assertions are expanded over RoundVars, so a
\* version that is missing would escape them (addVarToRound).
RoundsComplete ==
  LET places == UNION {{i} \X DOMAIN rounds[i] : i \in DOMAIN rounds}
      recorded == {rounds[p[1]][p[2]] : p \in places}
  IN /\ recorded = UNION {{v} \X declared[v] : v \in Vars}
     /\ Cardinality(recorded) = Cardinality(places)

\* The rounds lie in 0..Rounds, the range of the loops over the rounds in
\* asserts.go: at most the initial values open one more round than the model runs.
RoundMarkers(b) == {i \in DOMAIN code.insts[b] : code.insts[b][i].do = "round"}
RunRounds == Cardinality(UNION {{b} \X RoundMarkers(b) : b \in Blocks})
RoundsCovered == Len(rounds) - 1 <= IF RunRounds = 0 THEN 1 ELSE RunRounds

\* Results leads from every version of a variable back to its first one:
\* every later version has a parent, and parents are older.
ResultsLeadBack ==
  \A v \in Vars :
    /\ \A n \in declared[v] \ {0} : \E i \in DOMAIN results[v] : results[v][i].id = n
    /\ \A i \in DOMAIN results[v] :
         results[v][i].parent \in (IF results[v][i].id = 0 THEN {Absent}
                                   ELSE declared[v] \cap 0..(results[v][i].id - 1))

\* Each block of the run function is parsed once: none is skipped because of
\* returnVoid, none is parsed both as a branch and by the loop of parseFunction.
RunBlocksOnce ==
  \A i \in DOMAIN code.order[Run] : LET b == code.order[Run][i] IN
    visits[b] = 1 \/ (visits[b] = 0 /\ agenda # <<>>)

\* No pending call is dropped where the false branch clears localCallstack, and
\* none is left when the walk ends.
NoCallLost == At("endElse") \/ agenda = <<>> => callstack = <<>>

\* StoreLastState in AppendState never indexes an empty stack, so the sync rules
\* of a conditional (capCondSyncRules) are always written.
NeverPanics == ~panicked

\* Version numbers only grow, and no version gets a second declare-fun: neither
\* LoadState nor a branch that is left takes numbers back.
VersionsGrow ==
  [][\A v \in Vars : /\ ssa'[v] >= ssa[v]
                     /\ declared[v] \subseteq declared'[v]
                     /\ ssa'[v] > GetSSA(ssa[v]) => ssa'[v] \notin declared[v]]_vars

\* parseFunction, parseBlock and executeCallstack call each other only finitely
\* often: the walk comes to an end, normally or in a panic.
Terminates == <>(agenda = <<>>)
=============================================================================
