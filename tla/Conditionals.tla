---------------------------- MODULE Conditionals ----------------------------
(***************************************************************************)
(* From an if statement to LLVM blocks.  The preprocessor walks every      *)
(* conditional twice and merges an if whose block holds only another if    *)
(* (preprocess.go: collapsibleIf, collapse, attachElif, and the case of    *)
(* walk for IfExpression).  It links nodes into each other while it walks  *)
(* them, so nodes and blocks are objects on a heap.  The compiler then     *)
(* makes the blocks (compiler.go: compileIf, compileBlock).                *)
(*                                                                         *)
(* A condition is the text of its nested "&&"; every if of a source has an *)
(* atom of its own.  A block is a sequence of lines: a statement, which is *)
(* a number, or a conditional.                                             *)
(***************************************************************************)
EXTENDS Integers, Sequences, FiniteSets, SequencesExt

CONSTANTS Atoms,     \* the conditions, as a sequence: one for each if
          Sources,   \* the conditionals of the run
          MaxDepth   \* how deep calls nest before the stack of Go overflows

ASSUME ConditionalsAssumption ==
  /\ Atoms # <<>> /\ IsInjective(Atoms)
  /\ MaxDepth \in Nat \ {0}

None == 0
Stmt(n) == [stmt |-> n, cond |-> None]
Cond(i) == [stmt |-> None, cond |-> i]

(***************************************************************************)
(* Sources.  The listener gives an if an else block or an else-if, or      *)
(* neither (assembleIf).  Node i has statement i in its block and -i in    *)
(* its else.                                                               *)
(***************************************************************************)
Ids == 1..Len(Atoms)
Thens(i) == {[form |-> "stmt", of |-> None]}
              \cup [form : {"alone", "after", "before"}, of : {j \in Ids : j > i}]
Rests(i) == [form : {"none", "else"}, of : {None}]
              \cup [form : {"elseAlone", "elif"}, of : {j \in Ids : j > i}]
RECURSIVE ShapesFrom(_)
ShapesFrom(i) == IF i > Len(Atoms) THEN {<<>>}
                 ELSE {<<<<t, r>>>> \o f : t \in Thens(i), r \in Rests(i), f \in ShapesFrom(i + 1)}

\* Every conditional but the first is in one place.
Places(f, j) == {<<i, k>> \in Ids \X {1, 2} : f[i][k].of = j}
AllSources == {f \in ShapesFrom(1) : \A j \in Ids \ {1} : Cardinality(Places(f, j)) = 1}

ThenBlock(f, i) ==
  CASE f[i][1].form = "stmt"   -> <<Stmt(i)>>
    [] f[i][1].form = "alone"  -> <<Cond(f[i][1].of)>>
    [] f[i][1].form = "after"  -> <<Stmt(i), Cond(f[i][1].of)>>
    [] f[i][1].form = "before" -> <<Cond(f[i][1].of), Stmt(i)>>
ElseBlock(f, i) ==
  CASE f[i][2].form = "else"      -> <<Stmt(-i)>>
    [] f[i][2].form = "elseAlone" -> <<Cond(f[i][2].of)>>
    [] OTHER                      -> <<>>

\* The heap that the listener leaves: block i is the block of node i, block
\* Len(Atoms) + i its else.
Parsed(f) ==
  [ifs |-> [i \in Ids |->
              [cond |-> <<Atoms[i]>>, then |-> i,
               elif |-> IF f[i][2].form = "elif" THEN f[i][2].of ELSE None,
               alt  |-> IF f[i][2].form \in {"else", "elseAlone"} THEN Len(Atoms) + i ELSE None]],
   blocks |-> [i \in 1..(2 * Len(Atoms)) |->
                 IF i \in Ids THEN ThenBlock(f, i) ELSE ElseBlock(f, i - Len(Atoms))],
   ok |-> TRUE]

(***************************************************************************)
(* What a conditional means: the first branch whose condition holds.       *)
(***************************************************************************)
RECURSIVE Means(_, _, _), MeansBlock(_, _, _)
Means(h, i, true) ==
  LET n == h.ifs[i] IN
  CASE \A a \in ToSet(n.cond) \cap ToSet(Atoms) : a \in true -> MeansBlock(h, h.blocks[n.then], true)
    [] OTHER -> IF n.elif # None THEN Means(h, n.elif, true)
                ELSE IF n.alt # None THEN MeansBlock(h, h.blocks[n.alt], true)
                ELSE <<>>
MeansBlock(h, lines, true) ==
  IF lines = <<>> THEN <<>>
  ELSE (IF Head(lines).cond = None THEN <<Head(lines).stmt>> ELSE Means(h, Head(lines).cond, true))
         \o MeansBlock(h, Tail(lines), true)

-----------------------------------------------------------------------------
(***************************************************************************)
(* preprocess.go.  An operation takes a heap and returns one, with the     *)
(* node it returns.  ok is FALSE once calls have nested too deep.          *)
(***************************************************************************)

At(h, i) == [heap |-> h, at |-> i]
Alloc(h, n) == At([h EXCEPT !.ifs = Append(@, n)], Len(h.ifs) + 1)
Fresh(cond, then) == [cond |-> cond, then |-> then, elif |-> None, alt |-> None]
SetElif(h, i, el) == [h EXCEPT !.ifs[i].elif = el]
Overflow(h, i) == At([h EXCEPT !.ok = FALSE], i)

\* The conditions joined, as text.
And(a, b) == <<"(">> \o a \o b \o <<")">>

CollapsibleIf(lines) == Len(lines) = 1 /\ lines[1].cond # None

\* The last elif of the chain gets el, unless one on the way has its condition.
RECURSIVE AttachElif(_, _, _, _)
AttachElif(h, n, el, d) ==
  LET next == h.ifs[n].elif IN
  CASE d = 0 -> Overflow(h, n)
    [] d > 0 /\ next = None -> At(SetElif(h, n, el), n)
    [] d > 0 /\ next # None ->
         IF h.ifs[next].cond = h.ifs[el].cond THEN At(h, n) ELSE AttachElif(h, next, el, d - 1)

\* Mutant: the condition of the parent is lost.
CollapseChild(h, parent, child, d) == Alloc(h, Fresh(h.ifs[child].cond, h.ifs[child].then))

\* The elif and the else of the child are hung below the parent itself.
RECURSIVE Collapse(_, _, _, _)
Collapse(h, parent, child, d) ==
  LET p == h.ifs[parent]
      c == h.ifs[child]
      node == Alloc(h, Fresh(And(p.cond, c.cond), c.then))
      inner == Collapse(node.heap, parent, c.elif, d - 1)
      below == AttachElif(inner.heap, parent, inner.at, d - 1)
      h1 == IF c.elif = None THEN node.heap ELSE SetElif(below.heap, node.at, below.at)
      other == Alloc(h1, Fresh(p.cond, c.alt))
      last == AttachElif(other.heap, parent, other.at, d - 1)
  IN  IF d = 0 THEN Overflow(h, child)
      ELSE IF c.alt = None THEN At(h1, node.at)
      ELSE At(SetElif(last.heap, node.at, last.at), node.at)

\* walk: blocks keep their place on the heap, a conditional becomes a new one.
RECURSIVE Walk(_, _, _), WalkBlock(_, _, _, _)
WalkBlock(h, b, i, d) ==
  IF i > Len(h.blocks[b]) \/ ~h.ok THEN h
  ELSE IF h.blocks[b][i].cond = None THEN WalkBlock(h, b, i + 1, d)
  ELSE LET w == Walk(h, h.blocks[b][i].cond, d)
       IN  WalkBlock([w.heap EXCEPT !.blocks[b][i] = Cond(w.at)], b, i + 1, d)

\* The block, then the elif, then the else.  node.Elif may be what collapse hung
\* there a moment ago.
WalkThen(h, i, d) ==
  LET h1 == WalkBlock(h, h.ifs[i].then, 1, d)
      lines == h1.blocks[h1.ifs[i].then]
  IN  IF ~h1.ok THEN Overflow(h1, i)
      ELSE IF CollapsibleIf(lines) THEN Collapse(h1, i, lines[1].cond, d)
      ELSE Alloc(h1, Fresh(h1.ifs[i].cond, h1.ifs[i].then))
\* Mutant: the elif of the new conditional is walked.
WalkElifNew(w, i, d) ==
  LET e == Walk(w.heap, w.heap.ifs[w.at].elif, d) IN
  IF w.heap.ifs[w.at].elif = None \/ ~w.heap.ok THEN w
  ELSE At(SetElif(e.heap, w.at, e.at), w.at)
WalkElif(w, i, d) ==
  LET e == Walk(w.heap, w.heap.ifs[i].elif, d) IN
  IF w.heap.ifs[i].elif = None \/ ~w.heap.ok THEN w
  ELSE At(SetElif(e.heap, w.at, e.at), w.at)
WalkAlt(w, i, d) ==
  LET b == w.heap.ifs[i].alt
      h1 == WalkBlock(w.heap, b, 1, d)
      elif == h1.ifs[i].elif
      el == h1.blocks[b][1].cond
      a == AttachElif(h1, elif, el, d)
  IN  IF b = None \/ ~w.heap.ok THEN w
      ELSE IF ~CollapsibleIf(h1.blocks[b]) THEN At([h1 EXCEPT !.ifs[w.at].alt = b], w.at)
      ELSE IF elif = None THEN At(SetElif(h1, w.at, el), w.at)
      ELSE At(SetElif(a.heap, w.at, a.at), w.at)
Walk(h, i, d) ==
  IF d = 0 THEN Overflow(h, i) ELSE WalkAlt(WalkElif(WalkThen(h, i, d - 1), i, d - 1), i, d - 1)

-----------------------------------------------------------------------------
(***************************************************************************)
(* compiler.go.  The state of the compiler: the LLVM blocks, the block it  *)
(* writes to (contextBlock) and the stack contextCondAfter.                *)
(***************************************************************************)

Ret == [term |-> "ret", cond |-> <<>>, true |-> None, false |-> None]
Br(b) == [term |-> "br", cond |-> <<>>, true |-> b, false |-> None]
CondBr(cond, t, f) == [term |-> "cond", cond |-> cond, true |-> t, false |-> f]
NoTerm == [term |-> "none", cond |-> <<>>, true |-> None, false |-> None]

NewBlocks(c, n) == [c EXCEPT !.blocks = @ \o [i \in 1..n |-> [code |-> <<>>, term |-> NoTerm]]]
Terminate(c, b, term) == [c EXCEPT !.blocks[b].term = term]

\* Mutant: a block without a return is not linked to what follows.
ClosedNever(c, b, after) == c
\* A branch that has not ended goes on after the conditional.
Closed(c, b, after) ==
  IF c.blocks[b].term = NoTerm THEN Terminate(c, b, Br(after)) ELSE c

\* The end of compileIf: contextCondAfter is popped, and what follows the
\* conditional is where the surrounding one ends.
Leave(c, after) ==
  LET outer == Front(c.after) IN
  Terminate([c EXCEPT !.cur = after, !.after = outer], after,
            IF outer = <<>> THEN Ret ELSE Br(Last(outer)))

RECURSIVE CompileIf(_, _, _), CompileBlock(_, _, _)
CompileBlock(h, c, lines) ==
  IF lines = <<>> THEN c
  ELSE CompileBlock(h, IF Head(lines).cond = None
                       THEN [c EXCEPT !.blocks[c.cur].code = Append(@, Head(lines).stmt)]
                       ELSE CompileIf(h, c, Head(lines).cond), Tail(lines))

\* The elif is compiled first, before the condition of the if is looked at.
CompileIf(h, c, i) ==
  LET n == h.ifs[i]
      c1 == IF n.elif = None THEN c ELSE CompileIf(h, c, n.elif)
      after == Len(c1.blocks) + 1
      true == after + 1
      false == IF n.alt = None THEN after ELSE after + 2
      c2 == [NewBlocks(c1, IF n.alt = None THEN 2 ELSE 3) EXCEPT !.after = Append(@, after)]
      c3 == Terminate(c2, c2.cur, CondBr(n.cond, true, false))
      c4 == Closed(CompileBlock(h, [c3 EXCEPT !.cur = true], h.blocks[n.then]), true, after)
      c5 == IF n.alt = None THEN c4
            ELSE Closed(CompileBlock(h, [c4 EXCEPT !.cur = false], h.blocks[n.alt]), false, after)
  IN  Leave(c5, after)

NewCompiler == [blocks |-> <<[code |-> <<>>, term |-> NoTerm]>>, cur |-> 1, after |-> <<>>]

\* What the blocks do when run from block b.
RECURSIVE Runs(_, _, _)
Runs(c, b, true) ==
  LET t == c.blocks[b].term IN
  c.blocks[b].code \o
    (CASE t.term \in {"ret", "none"} -> <<>>
       [] t.term = "br" -> Runs(c, t.true, true)
       [] t.term = "cond" ->
            Runs(c, IF ToSet(t.cond) \cap ToSet(Atoms) \subseteq true THEN t.true ELSE t.false, true))

-----------------------------------------------------------------------------
VARIABLES source, \* the conditional as it was written
          heap,   \* the nodes and blocks of the AST
          root,   \* the conditional in the AST
          pass,   \* how many times it was walked
          code    \* the compiler

vars == <<source, heap, root, pass, code>>

Init ==
  /\ source \in Sources
  /\ heap = Parsed(source) /\ root = 1
  /\ pass = 0 /\ code = NewCompiler

\* Processor.Run walks the spec twice.
Preprocess ==
  /\ pass < 2 /\ heap.ok
  /\ LET w == Walk(heap, root, MaxDepth) IN heap' = w.heap /\ root' = w.at
  /\ pass' = pass + 1
  /\ UNCHANGED <<source, code>>

Compile ==
  /\ pass = 2 /\ heap.ok
  /\ code' = CompileIf(heap, code, root)
  /\ pass' = 3
  /\ UNCHANGED <<source, heap, root>>

Finished == (pass = 3 \/ ~heap.ok) /\ UNCHANGED vars

Next == Preprocess \/ Compile \/ Finished
Spec == Init /\ [][Next]_vars

-----------------------------------------------------------------------------
Valuations == SUBSET ToSet(Atoms)

\* The walks end, whatever is nested, but for one form: an if that is alone in the
\* block of another one and has more than one branch below it.  There collapse may
\* hang the nodes into a cycle, and walk follows it.
RECURSIVE Branches(_, _)
Branches(f, i) ==
  (CASE f[i][2].form = "none" -> 0
     [] f[i][2].form = "else" -> 1
     [] OTHER -> 1 + Branches(f, f[i][2].of))
   + (IF f[i][1].form = "alone" THEN Branches(f, f[i][1].of) ELSE 0)
Cyclic(f) == \E i \in Ids : f[i][1].form = "alone" /\ Branches(f, f[i][1].of) > 1
WalksEnd == heap.ok \/ Cyclic(source)

\* The blocks run the statements of the first branch whose condition holds, and of
\* no other, as it was written.
AsWritten == pass = 3 => \A true \in Valuations :
               Runs(code, 1, true) = Means(Parsed(source), 1, true)

\* So they do where no conditional has an else-if and where neither the if that
\* stands alone in a block nor the one around it has an else: conditions that were
\* joined, and blocks that follow nested conditionals, are as they were written.
Straight(f) == \A i \in Ids :
  /\ f[i][2].form \in {"none", "else"}
  /\ f[i][1].form = "alone" => f[i][2].form = "none" /\ f[f[i][1].of][2].form = "none"
StraightAsWritten == Straight(source) => AsWritten

\* No block is left open, and contextCondAfter is empty again.
BlocksClosed == pass = 3 => /\ code.after = <<>>
                            /\ \A b \in DOMAIN code.blocks : code.blocks[b].term # NoTerm
=============================================================================
