--------------------------- MODULE ListenerProofs ---------------------------
(***************************************************************************)
(* Proofs about listener/listener.go.  The listener records nowhere how    *)
(* many nodes the children of a context left.  What every rule leaves is   *)
(* therefore stated once (Yield), and what every Exit handler finds above  *)
(* the nodes that were there before its context (Takes), and makes of it   *)
(* (Makes).  The proof has three parts: a handler that finds what it takes *)
(* makes what it should (Serves...), the alternatives of the grammar leave *)
(* what the handlers take (Fits_...), and the walk keeps to both, because  *)
(* every place in what is left of it has the stacks it may be reached with *)
(* (Annotation).                                                           *)
(***************************************************************************)
EXTENDS Listener, TLAPS, SequenceTheorems, FiniteSetTheorems

-----------------------------------------------------------------------------
(***************************************************************************)
(* What the nodes are that a rule leaves on the stack, what a handler finds *)
(* above the nodes that were there before its context, and what it makes.  *)
(***************************************************************************)
Of(kinds) == {n \in Nodes : n.kind \in kinds}
Exactly(ns, n) == {s \in Seq(ns) : Len(s) = n}

Statements == Of(StatementKinds)
Values == Of(ExpressionKinds)
Operands == Of(ExpressionKinds \ {"Function"})
Literals == Of(ExpressionKinds \ {"Function", "Identifier"})
Blocks == Of({"Block"})
FullBlocks == {n \in Blocks : n.items # <<>>}
FullFunctions == {n \in Of({"Function"}) : n.items # <<>>}
FullValues == Operands \cup FullFunctions
Lines == Of((ExpressionKinds \ {"Function"}) \cup {"Block"})
Changes == Of({"Advance", "Stay", "Infix"})
Wrapped(kinds) == {n \in Of({"ExpressionStatement"}) : \E k \in kinds : n.items = <<k>>}
StateSteps == Of({"Parallel", "Advance", "Stay", "Infix"}) \cup Wrapped({"If"})
RunSteps == Of({"Parallel", "Instance"}) \cup Wrapped(ExpressionKinds)

\* Names and values in turn.
NamedValues(ns, n) ==
  {s \in Seq(Nodes) : /\ Len(s) = 2 * n
                      /\ \A i \in DOMAIN s : (i % 2 = 1 => s[i].kind = "Identifier")
                                             /\ (i % 2 = 0 => s[i] \in ns)}

Yield ==
  [sysSpec |-> Seq(Statements), sysClause |-> Exactly(Statements, 1),
   globalDecl |-> Exactly(Statements, 1), componentDecl |-> Exactly(Statements, 1),
   startBlock |-> Exactly(Statements, 1), startPair |-> Exactly(Of({"Pair"}), 1),
   spec |-> Seq(Statements), specClause |-> Exactly(Statements, 1),
   importDecl |-> Seq(Statements), importSpec |-> Exactly(Statements, 1),
   importPath |-> Exactly(Literals, 1), declaration |-> Seq(Statements),
   constDecl |-> Seq(Statements), constSpec |-> Seq(Statements),
   identList |-> {s \in Seq(Operands) : Len(s) >= 1}, constants |-> Exactly(Literals, 1),
   nil |-> Exactly(Literals, 1), expressionList |-> Exactly(Operands, 1),
   structDecl |-> Exactly(Statements, 1), structType |-> Exactly(Operands, 1),
   sfProperties |-> NamedValues(Values, 1), comProperties |-> NamedValues(FullValues, 1),
   structProperties |-> NamedValues(Operands, 1), initDecl |-> Exactly(Operands, 1),
   block |-> Exactly(Blocks, 1), statementList |-> Exactly(Blocks, 1),
   statement |-> Exactly(Lines, 1), simpleStmt |-> Exactly(Operands, 1),
   incDecStmt |-> Exactly(Operands, 1), stateChange |-> Exactly(Changes, 1),
   accessHistory |-> Exactly(Operands, 1), assertion |-> Exactly(Statements, 1),
   assumption |-> Exactly(Statements, 1), temporal |-> Exactly(Nodes, 0),
   filter |-> Exactly(Of({"Integer"}), 1), invariant |-> Exactly(Operands, 1),
   assignment |-> Exactly(Operands, 1), emptyStmt |-> Exactly(Nodes, 0),
   ifStmt |-> Exactly(Of({"If"}), 1), ifStmtRun |-> Exactly(Of({"If"}), 1),
   ifStmtState |-> Exactly(Of({"If"}), 1), forStmt |-> Seq(Statements),
   rounds |-> Exactly(Of({"Integer"}), 1), paramCall |-> Exactly(Of({"ParameterCall"}), 1),
   stateBlock |-> Exactly(FullBlocks, 1), stateStep |-> Exactly(StateSteps, 1),
   runBlock |-> Exactly(Blocks, 1), runStep |-> Exactly(RunSteps, 1),
   solvable |-> Exactly(Literals, 1), expression |-> Exactly(Operands, 1),
   operand |-> Exactly(Operands, 1), operandName |-> Exactly(Operands, 1),
   prefix |-> Exactly(Operands, 1), numeric |-> Exactly(Literals, 1),
   integer |-> Exactly(Of({"Integer"}), 1), negative |-> Exactly(Literals, 1),
   float_ |-> Exactly(Literals, 1), string_ |-> Exactly(Literals, 1),
   bool_ |-> Exactly(Literals, 1), functionLit |-> Exactly(Of({"Function"}), 1),
   stateLit |-> Exactly(FullFunctions, 1)]

Branches(n) ==
  {s \in Seq(Nodes) : Len(s) = n /\ s[1] \in Operands /\ s[2] \in Blocks}
Checks(n) ==
  {s \in Seq(Nodes) : Len(s) = n /\ s[1] \in Operands /\ (n = 2 => s[2].kind = "Integer")}
Steps(n) == {s \in Exactly(StateSteps, n) : s # <<>>}
Constants(c) ==
  {s \in Seq(Operands) :
     \/ Children(c, "constants") = 0 /\ Width(c) = 1 /\ Len(s) >= 1
     \/ Children(c, "constants") = 1 /\ Width(c) = 3 /\ Len(s) >= 2 /\ s[Len(s)] \in Literals}

Takes(c) ==
  [Spec |-> Seq(Statements), SysSpec |-> Seq(Statements),
   SpecClause |-> Exactly(Nodes, 0), SysClause |-> Exactly(Nodes, 0),
   OpName |-> Exactly(Nodes, 0), OpInstance |-> Exactly(Nodes, 0),
   OpThis |-> Exactly(Nodes, 0), OpClock |-> Exactly(Nodes, 0),
   ParamCall |-> Exactly(Nodes, 0), Nil |-> Exactly(Nodes, 0), Integer |-> Exactly(Nodes, 0),
   Float_ |-> Exactly(Nodes, 0), String_ |-> Exactly(Nodes, 0), Bool_ |-> Exactly(Nodes, 0),
   StartPair |-> Exactly(Nodes, 0), Stay |-> Exactly(Nodes, 0),
   Negative |-> Exactly(Literals, 1),
   Prefix |-> Exactly(Operands, IF Width(c) = 0 THEN 0 ELSE 1),
   LrExpr |-> Exactly(Operands, 2),
   AccessHistory |-> Exactly(Operands, 1 + Children(c, "expression")),
   Natural |-> Exactly(Operands, 1), Uncertain |-> Exactly(Operands, 2),
   Unknown |-> Exactly(Operands, IF Width(c) > 3 THEN 1 ELSE 0),
   OtherType |-> Seq(Nodes),
   Advance |-> Exactly(Of({"ParameterCall"}), 1), BuiltinInfix |-> Exactly(Changes, 2),
   IncDecStmt |-> Exactly(Operands, 1), FaultAssign |-> Exactly(Operands, 2),
   MiscAssign |-> Exactly(Operands, 2), InitDecl |-> Exactly(Operands, 1),
   StatementList |-> Exactly(Lines, Width(c)),
   Block |-> Exactly(Blocks, IF Width(c) = 2 THEN 0 ELSE 1),
   IfStmt |-> Branches(IF Width(c) > 3 THEN 3 ELSE 2),
   IfStmtState |-> Branches(IF Width(c) > 3 THEN 3 ELSE 2),
   IfStmtRun |-> Branches(IF Width(c) > 3 THEN 3 ELSE 2),
   RunBlock |-> Exactly(RunSteps, Children(c, "runStep")),
   StateBlock |-> Steps(Children(c, "stateStep")),
   RunInit |-> Exactly(Of({"ParameterCall"}), IF Children(c, "paramCall") = 1 THEN 1 ELSE 0),
   RunStepExpr |-> Exactly(Of({"ParameterCall"}), Children(c, "paramCall")),
   StateStepExpr |-> Exactly(Of({"ParameterCall"}), Children(c, "paramCall")),
   RunExpr |-> Exactly(Operands, 1), StateExpr |-> Exactly(Of({"If"}), 1),
   ForStmt |-> Exactly(Nodes, 2), StageInvariant |-> Exactly(Operands, 2),
   Assertion |-> Checks(1 + Children(c, "filter")),
   Assumption |-> Checks(1 + Children(c, "filter")),
   PropInt |-> Exactly(Operands, 1), PropBool |-> Exactly(Operands, 1),
   PropString |-> Exactly(Operands, 1), PropVar |-> Exactly(Operands, 1),
   PropSolvable |-> Exactly(Operands, IF Width(c) = 1 THEN 0 ELSE 1),
   PropFunc |-> Exactly(Of({"Function"}), 1), StateFunc |-> Exactly(FullFunctions, 1),
   FunctionLit |-> Exactly(Blocks, 1), StateLit |-> Exactly(FullBlocks, 1),
   Stock |-> NamedValues(Values, Children(c, "sfProperties")),
   Flow |-> NamedValues(Values, Children(c, "sfProperties")),
   ComponentDecl |-> NamedValues(FullValues, Children(c, "comProperties")),
   StructDecl |-> Exactly(Operands, 1), GlobalDecl |-> Exactly(Operands, 1),
   ConstSpec |-> Constants(c),
   StartBlock |-> Exactly(Of({"Pair"}), Children(c, "startPair")),
   ImportDecl |-> Exactly(Statements, Children(c, "importSpec")),
   ImportSpec |-> Exactly(Literals, 1), DotImport |-> Exactly(Literals, 1)]

Makes ==
  [Spec |-> Seq(Statements), SysSpec |-> Seq(Statements),
   SpecClause |-> Exactly(Statements, 1), SysClause |-> Exactly(Statements, 1),
   OpName |-> Exactly(Operands, 1), OpInstance |-> Exactly(Operands, 1),
   OpThis |-> Exactly(Operands, 1), OpClock |-> Exactly(Operands, 1),
   ParamCall |-> Exactly(Of({"ParameterCall"}), 1), Nil |-> Exactly(Literals, 1),
   Integer |-> Exactly(Of({"Integer"}), 1),
   Float_ |-> Exactly(Literals, 1), String_ |-> Exactly(Literals, 1), Bool_ |-> Exactly(Literals, 1),
   StartPair |-> Exactly(Of({"Pair"}), 1), Stay |-> Exactly(Changes, 1),
   Negative |-> Exactly(Literals, 1),
   Prefix |-> Exactly(Operands, 1),
   LrExpr |-> Exactly(Operands, 1),
   AccessHistory |-> Exactly(Operands, 1),
   Natural |-> Exactly(Literals, 1), Uncertain |-> Exactly(Literals, 1),
   Unknown |-> Exactly(Literals, 1),
   OtherType |-> Exactly(Literals, 1),
   Advance |-> Exactly(Changes, 1), BuiltinInfix |-> Exactly(Changes, 1),
   IncDecStmt |-> Exactly(Operands, 1), FaultAssign |-> Exactly(Operands, 1),
   MiscAssign |-> Exactly(Operands, 1), InitDecl |-> Exactly(Operands, 1),
   StatementList |-> Exactly(Blocks, 1),
   Block |-> Exactly(Blocks, 1),
   IfStmt |-> Exactly(Of({"If"}), 1),
   IfStmtState |-> Exactly(Of({"If"}), 1),
   IfStmtRun |-> Exactly(Of({"If"}), 1),
   RunBlock |-> Exactly(Blocks, 1),
   StateBlock |-> Exactly(FullBlocks, 1),
   RunInit |-> Exactly(RunSteps, 1),
   RunStepExpr |-> Exactly(RunSteps, 1),
   StateStepExpr |-> Exactly(StateSteps, 1),
   RunExpr |-> Exactly(RunSteps, 1), StateExpr |-> Exactly(StateSteps, 1),
   ForStmt |-> Seq(Statements), StageInvariant |-> Exactly(Operands, 1),
   Assertion |-> Exactly(Statements, 1),
   Assumption |-> Exactly(Statements, 1),
   PropInt |-> NamedValues(Operands, 1), PropBool |-> NamedValues(Operands, 1),
   PropString |-> NamedValues(Operands, 1), PropVar |-> NamedValues(Operands, 1),
   PropSolvable |-> NamedValues(Operands, 1),
   PropFunc |-> NamedValues(Values, 1), StateFunc |-> NamedValues(FullValues, 1),
   FunctionLit |-> Exactly(Of({"Function"}), 1), StateLit |-> Exactly(FullFunctions, 1),
   Stock |-> Exactly(Operands, 1),
   Flow |-> Exactly(Operands, 1),
   ComponentDecl |-> Exactly(Statements, 1),
   StructDecl |-> Exactly(Statements, 1), GlobalDecl |-> Exactly(Statements, 1),
   ConstSpec |-> Seq(Statements),
   StartBlock |-> Exactly(Statements, 1),
   ImportDecl |-> Seq(Statements),
   ImportSpec |-> Exactly(Statements, 1), DotImport |-> Exactly(Statements, 1)]


-----------------------------------------------------------------------------
(***************************************************************************)
(* Sequences of nodes.                                                     *)
(***************************************************************************)

LEMMA NoneOf ==
  ASSUME NEW S, NEW s \in Exactly(S, 0)
  PROVE  s = <<>> /\ Len(s) = 0 /\ DOMAIN s = {}
  <1>1. s \in Seq(S) /\ Len(s) = 0
    BY DEF Exactly
  <1>2. DOMAIN s = 1..0
    BY <1>1
  <1> QED BY <1>1, <1>2

LEMMA OneOf ==
  ASSUME NEW S, NEW s \in Exactly(S, 1)
  PROVE  Len(s) = 1 /\ DOMAIN s = {1} /\ s[1] \in S /\ s = <<s[1]>>
  <1>1. s \in Seq(S) /\ Len(s) = 1
    BY DEF Exactly
  <1>2. DOMAIN s = 1..1
    BY <1>1
  <1> QED BY <1>1, <1>2

LEMMA TwoOf ==
  ASSUME NEW S, NEW s \in Exactly(S, 2)
  PROVE  Len(s) = 2 /\ DOMAIN s = {1, 2} /\ s[1] \in S /\ s[2] \in S
  <1>1. s \in Seq(S) /\ Len(s) = 2
    BY DEF Exactly
  <1>2. DOMAIN s = 1..2 /\ 1..2 = {1, 2}
    BY <1>1
  <1>3. s[1] \in S /\ s[2] \in S
    BY <1>1
  <1> QED BY <1>1, <1>2, <1>3

LEMMA Single ==
  ASSUME NEW S, NEW n \in S
  PROVE  <<n>> \in Exactly(S, 1)
  BY DEF Exactly

LEMMA NodeIsNode ==
  ASSUME NEW kind \in Kinds
  PROVE  Node(kind) \in Nodes /\ Node(kind).kind = kind /\ Node(kind).items = <<>>
  BY DEF Node, Nodes

LEMMA NodeOfIsNode ==
  ASSUME NEW kind \in Kinds, NEW items \in Seq((Kinds \ {"ExpressionStatement"}) \cup {Unnamed, "struct", "func"})
  PROVE  NodeOf(kind, items) \in Nodes /\ NodeOf(kind, items).kind = kind /\ NodeOf(kind, items).items = items
  BY DEF NodeOf, Nodes

LEMMA NodeIn ==
  ASSUME NEW kinds, NEW kind \in kinds, kind \in Kinds
  PROVE  Node(kind) \in Of(kinds)
  BY NodeIsNode DEF Of

LEMMA NodeOfIn ==
  ASSUME NEW kinds, NEW kind \in kinds, kind \in Kinds,
         NEW items \in Seq((Kinds \ {"ExpressionStatement"}) \cup {Unnamed, "struct", "func"})
  PROVE  NodeOf(kind, items) \in Of(kinds)
  BY NodeOfIsNode DEF Of

\* The kinds of expressions are items of a node.
LEMMA KindsOfExpressions ==
  ASSUME NEW s, NEW m \in Nat, DOMAIN s = 1..m, \A i \in DOMAIN s : s[i].kind \in ExpressionKinds
  PROVE  /\ KindsOf(s) \in Seq(ExpressionKinds)
         /\ KindsOf(s) \in Seq((Kinds \ {"ExpressionStatement"}) \cup {Unnamed, "struct", "func"})
  <1>1. KindsOf(s) = [i \in 1..m |-> s[i].kind]
    BY DEF KindsOf
  <1>2. ExpressionKinds \subseteq (Kinds \ {"ExpressionStatement"}) \cup {Unnamed, "struct", "func"}
    BY DEF Kinds, ExpressionKinds, OperandKinds, StatementKinds
  <1> QED BY <1>1, <1>2

-----------------------------------------------------------------------------
(***************************************************************************)
(* The handlers.                                                           *)
(***************************************************************************)

\* What the context of a handler has left, and what was there before it.
Own == SubSeq(stack, Head(walk).base + 1, Len(stack))
Below == SubSeq(stack, 1, Head(walk).base)

\* A handler is called with its arguments above what was there before its context.
Ready(label) ==
  /\ At(label) /\ Head(walk).base \in 0..Len(stack) /\ stack \in Seq(Nodes)
  /\ Own \in Takes(Head(walk))[label]
  /\ scope \in Seq({Unnamed, "struct", "func"}) /\ structscope \in {Unnamed, "struct"}

\* It leaves what it makes in their place, or the walk ends without a crash.
Made(made) ==
  outcome' = "walking" /\ walk' = Tail(walk) /\ outer' = outer /\ stack' = Below \o made
EndsIn(how) == outcome' = how /\ UNCHANGED <<walk, stack, outer>>
Served(label) ==
  \/ \E made \in Makes[label] : Made(made)
  \/ EndsIn("refused") \/ EndsIn("exited") \/ (EndsIn("crashed") /\ BareCall)

LEMMA PoppedIsOwn ==
  ASSUME stack \in Seq(Nodes), Head(walk).base \in 0..Len(stack),
         NEW n \in Nat, Len(Own) = n
  PROVE  /\ ~(Len(stack) < n) /\ Popped(n) = Own
         /\ SubSeq(stack, 1, Len(stack) - n) = Below
  <1>0. PICK b \in Nat : b = Head(walk).base
    OBVIOUS
  <1>1. Len(Own) = Len(stack) - b
    BY <1>0, SubSeqProperties DEF Own
  <1>2. Len(stack) - n = Head(walk).base /\ Len(stack) - n + 1 = Head(walk).base + 1 /\ ~(Len(stack) < n)
    BY <1>1, <1>0
  <1>3. Popped(n) = Own
    BY <1>2, Zenon DEF Popped, Own
  <1>4. SubSeq(stack, 1, Len(stack) - n) = Below
    BY <1>2, Zenon DEF Below
  <1> QED BY <1>2, <1>3, <1>4

\* Handlers that pop nothing, one node, two nodes.
LEMMA TopNone ==
  ASSUME NEW label, Ready(label), NEW S, Own \in Exactly(S, 0)
  PROVE  /\ Own = <<>> /\ DOMAIN Own = {}
         /\ Popped(0) = Own /\ ~(Len(stack) < 0) /\ SubSeq(stack, 1, Len(stack) - 0) = Below
  <1>1. Own = <<>> /\ DOMAIN Own = {} /\ Len(Own) = 0
    BY NoneOf
  <1> QED BY <1>1, PoppedIsOwn DEF Ready

LEMMA TopOne ==
  ASSUME NEW label, Ready(label), NEW S, Own \in Exactly(S, 1)
  PROVE  /\ Own[1] \in S /\ DOMAIN Own = {1} /\ Own = <<Own[1]>>
         /\ Popped(1) = Own /\ ~(Len(stack) < 1) /\ SubSeq(stack, 1, Len(stack) - 1) = Below
  <1>1. Own[1] \in S /\ DOMAIN Own = {1} /\ Own = <<Own[1]>> /\ Len(Own) = 1
    BY OneOf
  <1>2. Popped(1) = Own /\ ~(Len(stack) < 1) /\ SubSeq(stack, 1, Len(stack) - 1) = Below
    BY <1>1, PoppedIsOwn DEF Ready
  <1> QED BY <1>1, <1>2

LEMMA TopTwo ==
  ASSUME NEW label, Ready(label), NEW S, Own \in Exactly(S, 2)
  PROVE  /\ Own[1] \in S /\ Own[2] \in S /\ DOMAIN Own = {1, 2}
         /\ Popped(2) = Own /\ ~(Len(stack) < 2) /\ SubSeq(stack, 1, Len(stack) - 2) = Below
  <1>1. Own[1] \in S /\ Own[2] \in S /\ DOMAIN Own = {1, 2} /\ Len(Own) = 2
    BY TwoOf
  <1>2. Popped(2) = Own /\ ~(Len(stack) < 2) /\ SubSeq(stack, 1, Len(stack) - 2) = Below
    BY <1>1, PoppedIsOwn DEF Ready
  <1> QED BY <1>1, <1>2

LEMMA Pushes ==
  ASSUME NEW label, Ready(label), NEW S, NEW n \in S, Makes[label] = Exactly(S, 1),
         Own \in Exactly(Nodes, 0), Push(n)
  PROVE  Served(label)
  <1>1. Popped(0) = Own /\ ~(Len(stack) < 0) /\ SubSeq(stack, 1, Len(stack) - 0) = Below
    BY TopNone
  <1>2. outcome = "walking"
    BY DEF Ready, At
  <1>3. Made(<<n>>)
    BY <1>1, <1>2, Zenon DEF Push, Reduce, Unchecked, Made
  <1> QED BY <1>3, Single DEF Served
LEMMA ServesSpecClause == ASSUME Ready("SpecClause"), ExitSpecClause PROVE Served("SpecClause")
  <1>1. Own \in Exactly(Nodes, 0) /\ Makes.SpecClause = Exactly(Statements, 1)
    BY DEF Ready, Takes, Makes
  <1>2. Node("SpecDecl") \in Statements
    BY NodeIsNode DEF Statements, Of, Kinds, ExpressionKinds, OperandKinds, StatementKinds
  <1> QED BY <1>1, <1>2, Pushes DEF ExitSpecClause

LEMMA ServesSysClause == ASSUME Ready("SysClause"), ExitSysClause PROVE Served("SysClause")
  <1>1. Own \in Exactly(Nodes, 0) /\ Makes.SysClause = Exactly(Statements, 1)
    BY DEF Ready, Takes, Makes
  <1>2. Node("SysDecl") \in Statements
    BY NodeIsNode DEF Statements, Of, Kinds, ExpressionKinds, OperandKinds, StatementKinds
  <1> QED BY <1>1, <1>2, Pushes DEF ExitSysClause

LEMMA ServesOpName == ASSUME Ready("OpName"), ExitOpName PROVE Served("OpName")
  <1>1. Own \in Exactly(Nodes, 0) /\ Makes.OpName = Exactly(Operands, 1)
    BY DEF Ready, Takes, Makes
  <1>2. Node("Identifier") \in Operands
    BY NodeIsNode DEF Operands, Of, Kinds, ExpressionKinds, OperandKinds, StatementKinds
  <1> QED BY <1>1, <1>2, Pushes DEF ExitOpName

LEMMA ServesOpInstance == ASSUME Ready("OpInstance"), ExitOpInstance PROVE Served("OpInstance")
  <1>1. Own \in Exactly(Nodes, 0) /\ Makes.OpInstance = Exactly(Operands, 1)
    BY DEF Ready, Takes, Makes
  <1>2. Node("Instance") \in Operands
    BY NodeIsNode DEF Operands, Of, Kinds, ExpressionKinds, OperandKinds, StatementKinds
  <1> QED BY <1>1, <1>2, Pushes DEF ExitOpInstance

LEMMA ServesOpThis == ASSUME Ready("OpThis"), ExitOpThis PROVE Served("OpThis")
  <1>1. Own \in Exactly(Nodes, 0) /\ Makes.OpThis = Exactly(Operands, 1)
    BY DEF Ready, Takes, Makes
  <1>2. NodeOf("This", scope) \in Operands
    BY NodeOfIsNode DEF Ready, Operands, Of, Kinds, ExpressionKinds, OperandKinds, StatementKinds
  <1> QED BY <1>1, <1>2, Pushes DEF ExitOpThis

LEMMA ServesOpClock == ASSUME Ready("OpClock"), ExitOpClock PROVE Served("OpClock")
  <1>1. Own \in Exactly(Nodes, 0) /\ Makes.OpClock = Exactly(Operands, 1)
    BY DEF Ready, Takes, Makes
  <1>2. NodeOf("Clock", scope) \in Operands
    BY NodeOfIsNode DEF Ready, Operands, Of, Kinds, ExpressionKinds, OperandKinds, StatementKinds
  <1> QED BY <1>1, <1>2, Pushes DEF ExitOpClock

LEMMA ServesParamCall == ASSUME Ready("ParamCall"), ExitParamCall PROVE Served("ParamCall")
  <1>1. Own \in Exactly(Nodes, 0) /\ Makes.ParamCall = Exactly(Of({"ParameterCall"}), 1)
    BY DEF Ready, Takes, Makes
  <1>0. <<structscope>> \in Seq((Kinds \ {"ExpressionStatement"}) \cup {Unnamed, "struct", "func"})
    BY DEF Ready
  <1>2. NodeOf("ParameterCall", <<structscope>>) \in Of({"ParameterCall"})
    BY <1>0, NodeOfIn DEF Kinds, ExpressionKinds, OperandKinds
  <1> QED BY <1>1, <1>2, Pushes DEF ExitParamCall

LEMMA ServesNil == ASSUME Ready("Nil"), ExitNil PROVE Served("Nil")
  <1>1. Own \in Exactly(Nodes, 0) /\ Makes.Nil = Exactly(Literals, 1)
    BY DEF Ready, Takes, Makes
  <1>2. Node("Nil") \in Literals
    BY NodeIsNode DEF Literals, Of, Kinds, ExpressionKinds, OperandKinds, StatementKinds
  <1> QED BY <1>1, <1>2, Pushes DEF ExitNil

LEMMA ServesInteger == ASSUME Ready("Integer"), ExitInteger PROVE Served("Integer")
  <1>1. Own \in Exactly(Nodes, 0) /\ Makes.Integer = Exactly(Of({"Integer"}), 1)
    BY DEF Ready, Takes, Makes
  <1>2. Node("Integer") \in Of({"Integer"})
    BY NodeIsNode DEF Of, Kinds, ExpressionKinds, OperandKinds, StatementKinds
  <1>3. CASE Push(Node("Integer"))
    BY <1>1, <1>2, <1>3, Pushes
  <1>4. CASE Stop("refused") /\ UNCHANGED <<fuel, skipRun, outer>>
    BY <1>4 DEF Stop, EndsIn, Served
  <1> QED BY <1>3, <1>4, Zenon DEF ExitInteger, Number

LEMMA ServesFloat_ == ASSUME Ready("Float_"), ExitFloat_ PROVE Served("Float_")
  <1>1. Own \in Exactly(Nodes, 0) /\ Makes.Float_ = Exactly(Literals, 1)
    BY DEF Ready, Takes, Makes
  <1>2. Node("Float") \in Literals
    BY NodeIsNode DEF Literals, Of, Kinds, ExpressionKinds, OperandKinds, StatementKinds
  <1>3. CASE Push(Node("Float"))
    BY <1>1, <1>2, <1>3, Pushes
  <1>4. CASE Stop("refused") /\ UNCHANGED <<fuel, skipRun, outer>>
    BY <1>4 DEF Stop, EndsIn, Served
  <1> QED BY <1>3, <1>4, Zenon DEF ExitFloat_, Number

LEMMA ServesString_ == ASSUME Ready("String_"), ExitString_ PROVE Served("String_")
  <1>1. Own \in Exactly(Nodes, 0) /\ Makes.String_ = Exactly(Literals, 1)
    BY DEF Ready, Takes, Makes
  <1>2. Node("String") \in Literals
    BY NodeIsNode DEF Literals, Of, Kinds, ExpressionKinds, OperandKinds, StatementKinds
  <1> QED BY <1>1, <1>2, Pushes DEF ExitString_

LEMMA ServesBool_ == ASSUME Ready("Bool_"), ExitBool_ PROVE Served("Bool_")
  <1>1. Own \in Exactly(Nodes, 0) /\ Makes.Bool_ = Exactly(Literals, 1)
    BY DEF Ready, Takes, Makes
  <1>2. Node("Boolean") \in Literals
    BY NodeIsNode DEF Literals, Of, Kinds, ExpressionKinds, OperandKinds, StatementKinds
  <1> QED BY <1>1, <1>2, Pushes DEF ExitBool_

LEMMA ServesStartPair == ASSUME Ready("StartPair"), ExitStartPair PROVE Served("StartPair")
  <1>1. Own \in Exactly(Nodes, 0) /\ Makes.StartPair = Exactly(Of({"Pair"}), 1)
    BY DEF Ready, Takes, Makes
  <1>2. Node("Pair") \in Of({"Pair"})
    BY NodeIsNode DEF Of, Kinds, ExpressionKinds, OperandKinds, StatementKinds
  <1> QED BY <1>1, <1>2, Pushes DEF ExitStartPair
\* Handlers that pop n nodes.
LEMMA TopMany ==
  ASSUME NEW label, Ready(label), NEW S, NEW n, Own \in Exactly(S, n)
  PROVE  /\ n \in Nat /\ DOMAIN Own = 1..n /\ Own \in Seq(S) /\ \A i \in DOMAIN Own : Own[i] \in S
         /\ Popped(n) = Own /\ ~(Len(stack) < n) /\ SubSeq(stack, 1, Len(stack) - n) = Below
  <1>1. Own \in Seq(S) /\ Len(Own) = n
    BY DEF Exactly
  <1>2. n \in Nat /\ DOMAIN Own = 1..n /\ \A i \in DOMAIN Own : Own[i] \in S
    BY <1>1
  <1>3. Popped(n) = Own /\ ~(Len(stack) < n) /\ SubSeq(stack, 1, Len(stack) - n) = Below
    BY <1>1, <1>2, PoppedIsOwn DEF Ready
  <1> QED BY <1>1, <1>2, <1>3

LEMMA CutInTwo ==
  ASSUME NEW S, NEW s \in Seq(S), NEW b \in 0..Len(s)
  PROVE  /\ s = SubSeq(s, 1, b) \o SubSeq(s, b + 1, Len(s))
         /\ SubSeq(s, 1, b) \in Seq(S) /\ Len(SubSeq(s, 1, b)) = b
         /\ SubSeq(s, b + 1, Len(s)) \in Seq(S) /\ Len(SubSeq(s, b + 1, Len(s))) = Len(s) - b
         /\ \A i \in 1..Len(s) - b : b + i \in DOMAIN s /\ SubSeq(s, b + 1, Len(s))[i] = s[b + i]
  <1> DEFINE own == SubSeq(s, b + 1, Len(s))
  <1>1. /\ own \in Seq(S) /\ Len(own) = (IF b + 1 <= Len(s) THEN Len(s) - (b + 1) + 1 ELSE 0)
        /\ \A i \in 1..Len(s) - (b + 1) + 1 : own[i] = s[b + 1 + i - 1]
    BY SubSeqProperties
  <1>2. SubSeq(s, 1, b) \in Seq(S) /\ Len(SubSeq(s, 1, b)) = b
    BY SubSeqProperties
  <1>3. s = SubSeq(s, 1, b) \o own
    <2>1. 1 \in 1..Len(s) + 1 /\ b \in (1 - 1)..Len(s) /\ Len(s) \in b..Len(s)
      OBVIOUS
    <2>2. SubSeq(s, 1, b) \o SubSeq(s, b + 1, Len(s)) = SubSeq(s, 1, Len(s))
      BY <2>1, ConcatAdjacentSubSeq, Zenon
    <2> QED BY <2>2, SubSeqFull
  <1> HIDE DEF own
  <1>4. PICK m \in Nat : m = Len(s)
    OBVIOUS
  <1>5. Len(own) = m - b /\ \A i \in 1..m - b : own[i] = s[b + i] /\ b + i \in DOMAIN s
    BY <1>1, <1>4
  <1>6. Len(own) = Len(s) - b /\ \A i \in 1..Len(s) - b : own[i] = s[b + i] /\ b + i \in DOMAIN s
    BY <1>4, <1>5
  <1> QED BY <1>1, <1>2, <1>3, <1>6 DEF own

LEMMA OwnOnTop ==
  ASSUME NEW label, Ready(label)
  PROVE  /\ stack = Below \o Own /\ Below \in Seq(Nodes) /\ Len(Below) = Head(walk).base
         /\ \A i \in DOMAIN Own : \E j \in DOMAIN stack : stack[j] = Own[i]
  <1>1. stack \in Seq(Nodes) /\ Head(walk).base \in 0..Len(stack)
    BY DEF Ready
  <1>2. /\ stack = Below \o Own /\ Below \in Seq(Nodes) /\ Len(Below) = Head(walk).base
        /\ Own \in Seq(Nodes) /\ Len(Own) = Len(stack) - Head(walk).base
        /\ \A i \in 1..Len(stack) - Head(walk).base :
             Head(walk).base + i \in DOMAIN stack /\ Own[i] = stack[Head(walk).base + i]
    BY <1>1, CutInTwo, Zenon DEF Own, Below
  <1>3. \A i \in DOMAIN Own : i \in 1..Len(stack) - Head(walk).base
    BY <1>2
  <1> QED BY <1>2, <1>3

\* A node that is made of expressions.
LEMMA MadeOfExpressions ==
  ASSUME NEW s, NEW m \in Nat, DOMAIN s = 1..m, \A i \in DOMAIN s : s[i].kind \in ExpressionKinds,
         NEW kinds, NEW kind \in kinds, kind \in Kinds
  PROVE  NodeOf(kind, KindsOf(s)) \in Of(kinds) /\ NodeOf(kind, KindsOf(s)).items = KindsOf(s)
  <1>1. KindsOf(s) \in Seq((Kinds \ {"ExpressionStatement"}) \cup {Unnamed, "struct", "func"})
    BY KindsOfExpressions
  <1> QED BY <1>1, NodeOfIsNode DEF Of

\* The kinds of the statements of a block are items of a node.
LEMMA ItemsOfStatements ==
  ASSUME NEW s, NEW m \in Nat, DOMAIN s = 1..m,
         \A i \in DOMAIN s : s[i] \in Nodes /\ (s[i].kind = "ExpressionStatement" => s[i].items[1] \in ExpressionKinds)
  PROVE  ItemsOf(s) \in Seq((Kinds \ {"ExpressionStatement"}) \cup {Unnamed, "struct", "func"}) /\ DOMAIN ItemsOf(s) = 1..m
  <1>1. ItemsOf(s) = [i \in 1..m |-> IF s[i].kind = "ExpressionStatement" THEN s[i].items[1] ELSE s[i].kind]
    BY DEF ItemsOf
  <1>2. ExpressionKinds \subseteq Kinds \ {"ExpressionStatement"}
    BY DEF Kinds, ExpressionKinds, OperandKinds, StatementKinds
  <1>3. \A i \in 1..m : (IF s[i].kind = "ExpressionStatement" THEN s[i].items[1] ELSE s[i].kind)
                           \in Kinds \ {"ExpressionStatement"}
    BY <1>2 DEF Nodes
  <1> QED BY <1>1, <1>3

LEMMA Binaries ==
  ASSUME NEW label, Ready(label), NEW S, Own \in Exactly(S, 2), \A n \in S : n.kind \in ExpressionKinds,
         NEW kinds, NEW kind \in kinds, kind \in Kinds, Binary(kind)
  PROVE  Made(<<NodeOf(kind, KindsOf(Own))>>) /\ NodeOf(kind, KindsOf(Own)) \in Of(kinds)
  <1>1. /\ Own[1] \in S /\ Own[2] \in S /\ DOMAIN Own = {1, 2}
        /\ Popped(2) = Own /\ ~(Len(stack) < 2) /\ SubSeq(stack, 1, Len(stack) - 2) = Below
    BY TopTwo
  <1>2. outcome = "walking" /\ \A i \in DOMAIN Own : Own[i].kind \in ExpressionKinds
    BY <1>1 DEF Ready, At
  <1>3. Made(<<NodeOf(kind, KindsOf(Own))>>)
    BY <1>1, <1>2, Zenon DEF Binary, Reduce, Unchecked, Expressions, Made
  <1>4. DOMAIN Own = 1..2
    BY <1>1
  <1> QED BY <1>2, <1>3, <1>4, MadeOfExpressions

-----------------------------------------------------------------------------
(***************************************************************************)
(* Expressions.                                                            *)
(***************************************************************************)

LEMMA ServesNegative == ASSUME Ready("Negative"), ExitNegative PROVE Served("Negative")
  <1>1. Own \in Exactly(Literals, 1) /\ Makes.Negative = Exactly(Literals, 1) /\ outcome = "walking"
    BY DEF Ready, At, Takes, Makes
  <1>2. /\ Own[1] \in Literals /\ DOMAIN Own = {1}
        /\ Popped(1) = Own /\ ~(Len(stack) < 1) /\ SubSeq(stack, 1, Len(stack) - 1) = Below
    BY <1>1, TopOne
  <1>3. Own[1].kind # "Identifier"
    BY <1>2 DEF Literals, Of
  <1>4. Made(Own) \/ EndsIn("refused")
    BY <1>1, <1>2, <1>3, Zenon DEF ExitNegative, Reduce, Stop, Unchecked, Made, EndsIn
  <1> QED BY <1>1, <1>4 DEF Served

LEMMA ServesPrefix == ASSUME Ready("Prefix"), ExitPrefix PROVE Served("Prefix")
  <1>1. /\ Own \in Exactly(Operands, IF Width(Head(walk)) = 0 THEN 0 ELSE 1)
        /\ Makes.Prefix = Exactly(Operands, 1) /\ outcome = "walking"
    BY DEF Ready, At, Takes, Makes
  <1>2. CASE Width(Head(walk)) = 0
    <2>1. Popped(0) = Own /\ ~(Len(stack) < 0) /\ SubSeq(stack, 1, Len(stack) - 0) = Below
      BY <1>1, <1>2, TopNone
    <2>2. Made(<<Node("Prefix")>>)
      BY <1>1, <1>2, <2>1, Zenon DEF ExitPrefix, Reduce, Stop, Unchecked, Made
    <2>3. Node("Prefix") \in Operands
      BY NodeIn DEF Operands, Kinds, ExpressionKinds
    <2> QED BY <1>1, <2>2, <2>3, Single DEF Served
  <1>3. CASE Width(Head(walk)) # 0
    <2>1. /\ Own[1] \in Operands /\ DOMAIN Own = {1}
          /\ Popped(1) = Own /\ ~(Len(stack) < 1) /\ SubSeq(stack, 1, Len(stack) - 1) = Below
      BY <1>1, <1>3, TopOne
    <2>2. \A i \in DOMAIN Own : Own[i].kind \in ExpressionKinds
      BY <2>1 DEF Operands, Of
    <2>3. Made(<<NodeOf("Prefix", KindsOf(Own))>>)
      BY <1>1, <1>3, <2>1, <2>2, Zenon DEF ExitPrefix, Reduce, Stop, Unchecked, Expressions, Made
    <2>4. DOMAIN Own = 1..1
      BY <2>1
    <2>5. NodeOf("Prefix", KindsOf(Own)) \in Operands
      BY <2>2, <2>4, MadeOfExpressions DEF Operands, Kinds, ExpressionKinds
    <2> QED BY <1>1, <2>3, <2>5, Single DEF Served
  <1> QED BY <1>2, <1>3

LEMMA ServesLrExpr == ASSUME Ready("LrExpr"), ExitLrExpr PROVE Served("LrExpr")
  <1>1. Own \in Exactly(Operands, 2) /\ Makes.LrExpr = Exactly(Operands, 1) /\ outcome = "walking"
    BY DEF Ready, At, Takes, Makes
  <1>2. /\ Own[1] \in Operands /\ Own[2] \in Operands /\ DOMAIN Own = {1, 2}
        /\ Popped(2) = Own /\ ~(Len(stack) < 2) /\ SubSeq(stack, 1, Len(stack) - 2) = Below
    BY <1>1, TopTwo
  <1>3. \A i \in DOMAIN Own : Own[i].kind \in ExpressionKinds
    BY <1>2 DEF Operands, Of
  <1>4. Made(IF Own[1] = Node("Prefix") THEN <<NodeOf("Prefix", <<Own[2].kind>>)>>
             ELSE <<NodeOf("Infix", KindsOf(Own))>>)
    BY <1>1, <1>2, <1>3, Zenon DEF ExitLrExpr, Reduce, Stop, Unchecked, Expressions, Made
  <1>5. DOMAIN Own = 1..2
    BY <1>2
  <1>6. <<Own[2].kind>> \in Seq((Kinds \ {"ExpressionStatement"}) \cup {Unnamed, "struct", "func"})
    BY <1>2 DEF Operands, Of, Kinds, ExpressionKinds, OperandKinds
  <1>7. NodeOf("Prefix", <<Own[2].kind>>) \in Operands
    BY <1>6, NodeOfIn DEF Operands, Kinds, ExpressionKinds
  <1>8. NodeOf("Infix", KindsOf(Own)) \in Operands
    BY <1>3, <1>5, MadeOfExpressions DEF Operands, Kinds, ExpressionKinds
  <1> QED BY <1>1, <1>4, <1>7, <1>8, Single DEF Served

LEMMA ServesAccessHistory == ASSUME Ready("AccessHistory"), ExitAccessHistory PROVE Served("AccessHistory")
  <1> DEFINE n == 1 + Children(Head(walk), "expression")
  <1>1. Own \in Exactly(Operands, n) /\ Makes.AccessHistory = Exactly(Operands, 1) /\ outcome = "walking"
    BY DEF Ready, At, Takes, Makes
  <1>2. /\ \A i \in DOMAIN Own : Own[i] \in Operands
        /\ Popped(n) = Own /\ ~(Len(stack) < n) /\ SubSeq(stack, 1, Len(stack) - n) = Below
    BY <1>1, TopMany
  <1>3. \A i \in DOMAIN Own : Own[i].kind \in ExpressionKinds
    BY <1>2 DEF Operands, Of
  <1>4. Made(<<Node("Index")>>)
    BY <1>1, <1>2, <1>3, Zenon DEF ExitAccessHistory, Reduce, Stop, Unchecked, Expressions, Made
  <1>5. Node("Index") \in Operands
    BY NodeIn DEF Operands, Kinds, ExpressionKinds
  <1> QED BY <1>1, <1>4, <1>5, Single DEF Served

LEMMA ServesNatural == ASSUME Ready("Natural"), ExitSolvable PROVE Served("Natural")
  <1>1. Own \in Exactly(Operands, 1) /\ Makes.Natural = Exactly(Literals, 1) /\ outcome = "walking"
    BY DEF Ready, At, Takes, Makes
  <1>2. /\ Own[1] \in Operands /\ DOMAIN Own = {1}
        /\ Popped(1) = Own /\ ~(Len(stack) < 1) /\ SubSeq(stack, 1, Len(stack) - 1) = Below
    BY <1>1, TopOne
  <1>3. Head(walk).of = "Natural"
    BY DEF Ready, At
  <1>4. Made(<<Node("Natural")>>) \/ EndsIn("refused")
    BY <1>1, <1>2, <1>3, Zenon DEF ExitSolvable, Reduce, Stop, Unchecked, Made, EndsIn, At
  <1>5. Node("Natural") \in Literals
    BY NodeIn DEF Literals, Kinds, ExpressionKinds
  <1> QED BY <1>1, <1>4, <1>5, Single DEF Served

LEMMA ServesUncertain == ASSUME Ready("Uncertain"), ExitSolvable PROVE Served("Uncertain")
  <1>1. Own \in Exactly(Operands, 2) /\ Makes.Uncertain = Exactly(Literals, 1) /\ outcome = "walking"
    BY DEF Ready, At, Takes, Makes
  <1>2. Popped(2) = Own /\ ~(Len(stack) < 2) /\ SubSeq(stack, 1, Len(stack) - 2) = Below
    BY <1>1, TopTwo
  <1>3. Head(walk).of = "Uncertain"
    BY DEF Ready, At
  <1>4. Made(<<Node("Uncertain")>>) \/ EndsIn("refused")
    BY <1>1, <1>2, <1>3, Zenon DEF ExitSolvable, Reduce, Stop, Unchecked, Made, EndsIn, At
  <1>5. Node("Uncertain") \in Literals
    BY NodeIn DEF Literals, Kinds, ExpressionKinds
  <1> QED BY <1>1, <1>4, <1>5, Single DEF Served

LEMMA ServesUnknown == ASSUME Ready("Unknown"), ExitSolvable PROVE Served("Unknown")
  <1> DEFINE n == IF Width(Head(walk)) > 3 THEN 1 ELSE 0
  <1>1. Own \in Exactly(Operands, n) /\ Makes.Unknown = Exactly(Literals, 1) /\ outcome = "walking"
    BY DEF Ready, At, Takes, Makes
  <1>2. Popped(n) = Own /\ ~(Len(stack) < n) /\ SubSeq(stack, 1, Len(stack) - n) = Below
    BY <1>1, TopMany
  <1>3. Head(walk).of = "Unknown"
    BY DEF Ready, At
  <1>4. Made(<<Node("Unknown")>>)
    BY <1>1, <1>2, <1>3, Zenon DEF ExitSolvable, Reduce, Stop, Unchecked, Made, At
  <1>5. Node("Unknown") \in Literals
    BY NodeIn DEF Literals, Kinds, ExpressionKinds
  <1> QED BY <1>1, <1>4, <1>5, Single DEF Served

LEMMA ServesOtherType == ASSUME Ready("OtherType"), ExitSolvable PROVE Served("OtherType")
  <1>1. Head(walk).of = "OtherType"
    BY DEF Ready, At
  <1>2. EndsIn("exited")
    BY <1>1, Zenon DEF ExitSolvable, Stop, EndsIn, At
  <1> QED BY <1>2 DEF Served

LEMMA ServesAdvance == ASSUME Ready("Advance"), ExitBuiltins PROVE Served("Advance")
  <1>1. /\ Own \in Exactly(Of({"ParameterCall"}), 1) /\ Makes.Advance = Exactly(Changes, 1)
        /\ outcome = "walking" /\ Head(walk).of = "Advance"
    BY DEF Ready, At, Takes, Makes
  <1>2. /\ Own[1] \in Of({"ParameterCall"})
        /\ Popped(1) = Own /\ ~(Len(stack) < 1) /\ SubSeq(stack, 1, Len(stack) - 1) = Below
    BY <1>1, TopOne
  <1>3. Own[1].kind \in OperandKinds
    BY <1>2 DEF Of, OperandKinds
  <1>4. Made(<<Node("Advance")>>)
    BY <1>1, <1>2, <1>3, Zenon DEF ExitBuiltins, Reduce, Stop, Unchecked, Made, At
  <1>5. Node("Advance") \in Changes
    BY NodeIn DEF Changes, Kinds, ExpressionKinds
  <1> QED BY <1>1, <1>4, <1>5, Single DEF Served

LEMMA ServesStay == ASSUME Ready("Stay"), ExitBuiltins PROVE Served("Stay")
  <1>1. /\ Own \in Exactly(Nodes, 0) /\ Makes.Stay = Exactly(Changes, 1)
        /\ outcome = "walking" /\ Head(walk).of = "Stay"
    BY DEF Ready, At, Takes, Makes
  <1>2. Popped(0) = Own /\ ~(Len(stack) < 0) /\ SubSeq(stack, 1, Len(stack) - 0) = Below
    BY <1>1, TopNone
  <1>3. Made(<<Node("Stay")>>)
    BY <1>1, <1>2, Zenon DEF ExitBuiltins, Reduce, Stop, Unchecked, Made, At
  <1>4. Node("Stay") \in Changes
    BY NodeIn DEF Changes, Kinds, ExpressionKinds
  <1> QED BY <1>1, <1>3, <1>4, Single DEF Served

LEMMA ServesBuiltinInfix == ASSUME Ready("BuiltinInfix"), ExitBuiltinInfix PROVE Served("BuiltinInfix")
  <1>1. /\ Own \in Exactly(Changes, 2) /\ Makes.BuiltinInfix = Exactly(Changes, 1)
        /\ \A n \in Changes : n.kind \in ExpressionKinds
    BY DEF Ready, Takes, Makes, Changes, Of, ExpressionKinds
  <1>2. Made(<<NodeOf("Infix", KindsOf(Own))>>) /\ NodeOf("Infix", KindsOf(Own)) \in Changes
    BY <1>1, Binaries DEF ExitBuiltinInfix, Changes, Kinds, ExpressionKinds
  <1> QED BY <1>1, <1>2, Single DEF Served

-----------------------------------------------------------------------------
(***************************************************************************)
(* Statements.                                                             *)
(***************************************************************************)

LEMMA ServesIncDecStmt == ASSUME Ready("IncDecStmt"), ExitIncDecStmt PROVE Served("IncDecStmt")
  <1>1. Own \in Exactly(Operands, 1) /\ Makes.IncDecStmt = Exactly(Operands, 1) /\ outcome = "walking"
    BY DEF Ready, At, Takes, Makes
  <1>2. /\ Own[1] \in Operands /\ DOMAIN Own = {1}
        /\ Popped(1) = Own /\ ~(Len(stack) < 1) /\ SubSeq(stack, 1, Len(stack) - 1) = Below
    BY <1>1, TopOne
  <1>3. \A i \in DOMAIN Own : Own[i].kind \in ExpressionKinds
    BY <1>2 DEF Operands, Of
  <1>4. Made(<<NodeOf("Infix", <<Own[1].kind, "Integer">>)>>)
    BY <1>1, <1>2, <1>3, Zenon DEF ExitIncDecStmt, Reduce, Stop, Unchecked, Expressions, Made
  <1>5. <<Own[1].kind, "Integer">> \in Seq((Kinds \ {"ExpressionStatement"}) \cup {Unnamed, "struct", "func"})
    BY <1>2 DEF Operands, Of, Kinds, ExpressionKinds, OperandKinds
  <1>6. NodeOf("Infix", <<Own[1].kind, "Integer">>) \in Operands
    BY <1>5, NodeOfIn DEF Operands, Kinds, ExpressionKinds
  <1> QED BY <1>1, <1>4, <1>6, Single DEF Served

LEMMA ServesFaultAssign == ASSUME Ready("FaultAssign"), ExitFaultAssign PROVE Served("FaultAssign")
  <1>1. /\ Own \in Exactly(Operands, 2) /\ Makes.FaultAssign = Exactly(Operands, 1)
        /\ \A n \in Operands : n.kind \in ExpressionKinds
    BY DEF Ready, Takes, Makes, Operands, Of
  <1>2. Made(<<NodeOf("Infix", KindsOf(Own))>>) /\ NodeOf("Infix", KindsOf(Own)) \in Operands
    BY <1>1, Binaries DEF ExitFaultAssign, Operands, Kinds, ExpressionKinds
  <1> QED BY <1>1, <1>2, Single DEF Served

LEMMA ServesStageInvariant == ASSUME Ready("StageInvariant"), ExitStageInvariant PROVE Served("StageInvariant")
  <1>1. /\ Own \in Exactly(Operands, 2) /\ Makes.StageInvariant = Exactly(Operands, 1)
        /\ \A n \in Operands : n.kind \in ExpressionKinds
    BY DEF Ready, Takes, Makes, Operands, Of
  <1>2. Made(<<NodeOf("Invariant", KindsOf(Own))>>) /\ NodeOf("Invariant", KindsOf(Own)) \in Operands
    BY <1>1, Binaries DEF ExitStageInvariant, Operands, Kinds, ExpressionKinds
  <1> QED BY <1>1, <1>2, Single DEF Served

LEMMA ServesMiscAssign == ASSUME Ready("MiscAssign"), ExitMiscAssign PROVE Served("MiscAssign")
  <1>1. Own \in Exactly(Operands, 2) /\ Makes.MiscAssign = Exactly(Operands, 1) /\ outcome = "walking"
    BY DEF Ready, At, Takes, Makes
  <1>2. /\ Own[1] \in Operands /\ Own[2] \in Operands /\ DOMAIN Own = {1, 2}
        /\ Popped(2) = Own /\ ~(Len(stack) < 2) /\ SubSeq(stack, 1, Len(stack) - 2) = Below
    BY <1>1, TopTwo
  <1>3. \A i \in DOMAIN Own : Own[i].kind \in ExpressionKinds
    BY <1>2 DEF Operands, Of
  <1>4. Made(<<NodeOf("Infix", KindsOf(Own))>>) \/ EndsIn("refused")
    BY <1>1, <1>2, <1>3, Zenon DEF ExitMiscAssign, Reduce, Stop, Expressions, Made, EndsIn
  <1>5. DOMAIN Own = 1..2
    BY <1>2
  <1>6. NodeOf("Infix", KindsOf(Own)) \in Operands
    BY <1>3, <1>5, MadeOfExpressions DEF Operands, Kinds, ExpressionKinds
  <1> QED BY <1>1, <1>4, <1>6, Single DEF Served

LEMMA ServesInitDecl == ASSUME Ready("InitDecl"), ExitInitDecl PROVE Served("InitDecl")
  <1>1. Own \in Exactly(Operands, 1) /\ Makes.InitDecl = Exactly(Operands, 1) /\ outcome = "walking"
    BY DEF Ready, At, Takes, Makes
  <1>2. /\ Own[1] \in Operands /\ DOMAIN Own = {1}
        /\ Popped(1) = Own /\ ~(Len(stack) < 1) /\ SubSeq(stack, 1, Len(stack) - 1) = Below
    BY <1>1, TopOne
  <1>3. \A i \in DOMAIN Own : Own[i].kind \in ExpressionKinds
    BY <1>2 DEF Operands, Of
  <1>4. Made(<<Node("Init")>>)
    BY <1>1, <1>2, <1>3, Zenon DEF ExitInitDecl, Reduce, Stop, Unchecked, Expressions, Made
  <1>5. Node("Init") \in Operands
    BY NodeIn DEF Operands, Kinds, ExpressionKinds
  <1> QED BY <1>1, <1>4, <1>5, Single DEF Served

LEMMA ServesStatementList == ASSUME Ready("StatementList"), ExitStatementList PROVE Served("StatementList")
  <1> DEFINE n == Width(Head(walk))
  <1>1. Own \in Exactly(Lines, n) /\ Makes.StatementList = Exactly(Blocks, 1) /\ outcome = "walking"
    BY DEF Ready, At, Takes, Makes
  <1>2. /\ n \in Nat /\ DOMAIN Own = 1..n /\ \A i \in DOMAIN Own : Own[i] \in Lines
        /\ Popped(n) = Own /\ ~(Len(stack) < n) /\ SubSeq(stack, 1, Len(stack) - n) = Below
    BY <1>1, TopMany
  <1>3. Made(<<NodeOf("Block", ItemsOf(Own))>>) \/ EndsIn("refused")
    BY <1>1, <1>2, Zenon DEF ExitStatementList, Reduce, Stop, Unchecked, Made, EndsIn
  <1>4. \A i \in DOMAIN Own : Own[i] \in Nodes /\ Own[i].kind # "ExpressionStatement"
    BY <1>2 DEF Lines, Of, ExpressionKinds, OperandKinds
  <1>5. ItemsOf(Own) \in Seq((Kinds \ {"ExpressionStatement"}) \cup {Unnamed, "struct", "func"})
    BY <1>2, <1>4, ItemsOfStatements
  <1>6. NodeOf("Block", ItemsOf(Own)) \in Blocks
    BY <1>5, NodeOfIn DEF Blocks, Kinds, StatementKinds
  <1> QED BY <1>1, <1>3, <1>6, Single DEF Served

LEMMA ServesBlock == ASSUME Ready("Block"), ExitBlock PROVE Served("Block")
  <1>1. /\ Own \in Exactly(Blocks, IF Width(Head(walk)) = 2 THEN 0 ELSE 1)
        /\ Makes.Block = Exactly(Blocks, 1) /\ outcome = "walking" /\ stack \in Seq(Nodes)
    BY DEF Ready, At, Takes, Makes
  <1>2. CASE Width(Head(walk)) = 2
    <2>1. Popped(0) = Own /\ ~(Len(stack) < 0) /\ SubSeq(stack, 1, Len(stack) - 0) = Below
      BY <1>1, <1>2, TopNone
    <2>2. Made(<<Node("Block")>>)
      BY <1>1, <1>2, <2>1, Zenon DEF ExitBlock, Reduce, Stop, Unchecked, Made
    <2>3. Node("Block") \in Blocks
      BY NodeIn DEF Blocks, Kinds, StatementKinds
    <2> QED BY <1>1, <2>2, <2>3, Single DEF Served
  <1>3. CASE Width(Head(walk)) # 2
    <2>1. ~(Len(stack) < 0) /\ SubSeq(stack, 1, Len(stack) - 0) = stack /\ stack \o <<>> = stack
      BY <1>1, SubSeqFull, ConcatEmptySeq
    <2>2. /\ outcome' = "walking" /\ walk' = Tail(walk) /\ outer' = outer /\ stack' = stack
      BY <1>1, <1>3, <2>1, Zenon DEF ExitBlock, Reduce, Stop, Unchecked
    <2>3. Made(Own)
      BY <2>2, OwnOnTop DEF Made
    <2> QED BY <1>1, <1>3, <2>3 DEF Served
  <1> QED BY <1>2, <1>3

LEMMA AssemblesIf ==
  ASSUME NEW label, Ready(label), Own \in Branches(IF Width(Head(walk)) > 3 THEN 3 ELSE 2), AssembleIf,
         Makes[label] = Exactly(Of({"If"}), 1)
  PROVE  Served(label)
  <1> DEFINE n == 2 + (IF Width(Head(walk)) > 3 THEN 1 ELSE 0)
  <1>1. n = (IF Width(Head(walk)) > 3 THEN 3 ELSE 2) /\ n \in Nat
    OBVIOUS
  <1>2. Len(Own) = n /\ Own[1] \in Operands /\ Own[2] \in Blocks
    BY <1>1 DEF Branches
  <1>3. Popped(n) = Own /\ ~(Len(stack) < n) /\ SubSeq(stack, 1, Len(stack) - n) = Below
    BY <1>1, <1>2, PoppedIsOwn DEF Ready
  <1>4. Own[1].kind \in ExpressionKinds /\ Own[1].kind # "Parallel" /\ IsBranch(Own[2])
    BY <1>2 DEF Operands, Blocks, Of, IsBranch, ExpressionKinds, OperandKinds
  <1>5. outcome = "walking"
    BY DEF Ready, At
  <1>6. Made(<<Node("If")>>) \/ EndsIn("refused")
    BY <1>3, <1>4, <1>5, Zenon DEF AssembleIf, Reduce, Stop, Made, EndsIn
  <1>7. Node("If") \in Of({"If"})
    BY NodeIn DEF Kinds, ExpressionKinds
  <1> QED BY <1>6, <1>7, Single DEF Served

LEMMA ServesIfStmt == ASSUME Ready("IfStmt"), ExitIfStmt PROVE Served("IfStmt")
  BY AssemblesIf DEF Ready, Takes, Makes, ExitIfStmt

LEMMA ServesIfStmtState == ASSUME Ready("IfStmtState"), ExitIfStmtState PROVE Served("IfStmtState")
  BY AssemblesIf DEF Ready, Takes, Makes, ExitIfStmtState

LEMMA ServesIfStmtRun == ASSUME Ready("IfStmtRun"), ExitIfStmtRun PROVE Served("IfStmtRun")
  BY AssemblesIf DEF Ready, Takes, Makes, ExitIfStmtRun

LEMMA ServesRunBlock == ASSUME Ready("RunBlock"), ExitRunBlock PROVE Served("RunBlock")
  <1> DEFINE n == Children(Head(walk), "runStep")
  <1>1. /\ Own \in Exactly(RunSteps, n) /\ Makes.RunBlock = Exactly(Blocks, 1)
        /\ outcome = "walking" /\ Head(walk).of = "RunBlock"
    BY DEF Ready, At, Takes, Makes
  <1>2. /\ n \in Nat /\ DOMAIN Own = 1..n /\ \A i \in DOMAIN Own : Own[i] \in RunSteps
        /\ Popped(n) = Own /\ ~(Len(stack) < n) /\ SubSeq(stack, 1, Len(stack) - n) = Below
    BY <1>1, TopMany
  <1>3. \A i \in DOMAIN Own : Own[i].kind \notin ExpressionKinds \ {"Instance"}
    BY <1>2 DEF RunSteps, Wrapped, Of, ExpressionKinds, OperandKinds
  <1>4. ASSUME NEW i \in DOMAIN Own, PackageCallsAsRunSteps(Own[i]).kind # Own[i].kind
        PROVE  BareCall
    <2>1. Own[i] = NodeOf("ExpressionStatement", <<"ParameterCall">>)
      BY <1>4 DEF PackageCallsAsRunSteps
    <2> QED BY <1>1, <2>1, OwnOnTop DEF BareCall
  <1>5. Made(<<NodeOf("Block", ItemsOf(Own))>>) \/ EndsIn("refused") \/ (EndsIn("crashed") /\ BareCall)
    BY <1>1, <1>2, <1>3, <1>4, Zenon DEF ExitRunBlock, Reduce, Stop, Made, EndsIn
  <1>6. \A i \in DOMAIN Own : Own[i] \in Nodes /\ (Own[i].kind = "ExpressionStatement" => Own[i].items[1] \in ExpressionKinds)
    BY <1>2 DEF RunSteps, Wrapped, Of
  <1>7. ItemsOf(Own) \in Seq((Kinds \ {"ExpressionStatement"}) \cup {Unnamed, "struct", "func"})
    BY <1>2, <1>6, ItemsOfStatements
  <1>8. NodeOf("Block", ItemsOf(Own)) \in Blocks
    BY <1>7, NodeOfIn DEF Blocks, Kinds, StatementKinds
  <1> QED BY <1>1, <1>5, <1>8, Single DEF Served

LEMMA ServesStateBlock == ASSUME Ready("StateBlock"), ExitStateBlock PROVE Served("StateBlock")
  <1> DEFINE n == Children(Head(walk), "stateStep")
  <1>1. /\ Own \in Exactly(StateSteps, n) /\ Own # <<>> /\ Makes.StateBlock = Exactly(FullBlocks, 1)
        /\ outcome = "walking"
    BY DEF Ready, At, Takes, Makes, Steps
  <1>2. /\ n \in Nat /\ DOMAIN Own = 1..n /\ \A i \in DOMAIN Own : Own[i] \in StateSteps
        /\ Own \in Seq(StateSteps)
        /\ Popped(n) = Own /\ ~(Len(stack) < n) /\ SubSeq(stack, 1, Len(stack) - n) = Below
    BY <1>1, TopMany
  <1>3. \A i \in DOMAIN Own : Own[i] # NodeOf("ExpressionStatement", <<"ParameterCall">>)
    BY <1>2 DEF StateSteps, Wrapped, Of, NodeOf
  <1>4. \A i \in DOMAIN Own : PackageCallsAsRunSteps(Own[i]).kind = Own[i].kind
    BY <1>3 DEF PackageCallsAsRunSteps
  <1>5. Made(<<NodeOf("Block", ItemsOf(Own))>>) \/ EndsIn("refused")
    BY <1>1, <1>2, <1>4, Zenon DEF ExitStateBlock, Reduce, Stop, Made, EndsIn
  <1>6. \A i \in DOMAIN Own : Own[i] \in Nodes /\ (Own[i].kind = "ExpressionStatement" => Own[i].items[1] \in ExpressionKinds)
    BY <1>2 DEF StateSteps, Wrapped, Of, ExpressionKinds
  <1>7. ItemsOf(Own) \in Seq((Kinds \ {"ExpressionStatement"}) \cup {Unnamed, "struct", "func"}) /\ DOMAIN ItemsOf(Own) = 1..n
    BY <1>2, <1>6, ItemsOfStatements
  <1>8. n # 0
    BY <1>1, <1>2
  <1>9. ItemsOf(Own) # <<>>
    BY <1>2, <1>7, <1>8
  <1>10. NodeOf("Block", ItemsOf(Own)) \in FullBlocks
    <2>1. "Block" \in Kinds
      BY DEF Kinds, StatementKinds
    <2>2. /\ NodeOf("Block", ItemsOf(Own)) \in Nodes /\ NodeOf("Block", ItemsOf(Own)).kind = "Block"
          /\ NodeOf("Block", ItemsOf(Own)).items = ItemsOf(Own)
      BY <1>7, <2>1, NodeOfIsNode
    <2> QED BY <1>9, <2>2, Zenon DEF FullBlocks, Blocks, Of
  <1> QED BY <1>1, <1>5, <1>10, Single DEF Served

LEMMA ServesRunInit == ASSUME Ready("RunInit"), ExitRunInit PROVE Served("RunInit")
  <1>1. /\ Own \in Exactly(Of({"ParameterCall"}), IF Children(Head(walk), "paramCall") = 1 THEN 1 ELSE 0)
        /\ Makes.RunInit = Exactly(RunSteps, 1) /\ outcome = "walking"
    BY DEF Ready, At, Takes, Makes
  <1>2. Node("Instance") \in RunSteps
    BY NodeIn DEF RunSteps, Kinds, ExpressionKinds
  <1>3. CASE Children(Head(walk), "paramCall") = 1
    <2>1. Popped(1) = Own /\ ~(Len(stack) < 1) /\ SubSeq(stack, 1, Len(stack) - 1) = Below
      BY <1>1, <1>3, TopOne
    <2>2. Made(<<Node("Instance")>>) \/ EndsIn("refused")
      BY <1>1, <1>3, <2>1, Zenon DEF ExitRunInit, Reduce, Stop, Unchecked, Made, EndsIn
    <2> QED BY <1>1, <1>2, <2>2, Single DEF Served
  <1>4. CASE Children(Head(walk), "paramCall") # 1
    <2>1. Popped(0) = Own /\ ~(Len(stack) < 0) /\ SubSeq(stack, 1, Len(stack) - 0) = Below
      BY <1>1, <1>4, TopNone
    <2>2. Made(<<Node("Instance")>>)
      BY <1>1, <1>4, <2>1, Zenon DEF ExitRunInit, Reduce, Stop, Unchecked, Made
    <2> QED BY <1>1, <1>2, <2>2, Single DEF Served
  <1> QED BY <1>3, <1>4

LEMMA CallsInParallel ==
  ASSUME NEW label, Ready(label), Own \in Exactly(Of({"ParameterCall"}), Children(Head(walk), "paramCall")),
         Calls
  PROVE  Made(<<Node("Parallel")>>)
  <1> DEFINE n == Children(Head(walk), "paramCall")
  <1>1. /\ \A i \in DOMAIN Own : Own[i] \in Of({"ParameterCall"})
        /\ Popped(n) = Own /\ ~(Len(stack) < n) /\ SubSeq(stack, 1, Len(stack) - n) = Below
    BY TopMany
  <1>2. outcome = "walking" /\ \A i \in DOMAIN Own : Own[i].kind \in ExpressionKinds
    BY <1>1 DEF Ready, At, Of, ExpressionKinds, OperandKinds
  <1> QED BY <1>1, <1>2, Zenon DEF Calls, Reduce, Stop, Unchecked, Expressions, Made

LEMMA ServesRunStepExpr == ASSUME Ready("RunStepExpr"), ExitRunStepExpr PROVE Served("RunStepExpr")
  <1>1. /\ Own \in Exactly(Of({"ParameterCall"}), Children(Head(walk), "paramCall"))
        /\ Makes.RunStepExpr = Exactly(RunSteps, 1)
    BY DEF Ready, Takes, Makes
  <1>2. Made(<<Node("Parallel")>>)
    BY <1>1, CallsInParallel DEF ExitRunStepExpr
  <1>3. Node("Parallel") \in RunSteps
    BY NodeIn DEF RunSteps, Kinds, StatementKinds
  <1> QED BY <1>1, <1>2, <1>3, Single DEF Served

LEMMA ServesStateStepExpr == ASSUME Ready("StateStepExpr"), ExitStateStepExpr PROVE Served("StateStepExpr")
  <1>1. /\ Own \in Exactly(Of({"ParameterCall"}), Children(Head(walk), "paramCall"))
        /\ Makes.StateStepExpr = Exactly(StateSteps, 1)
    BY DEF Ready, Takes, Makes
  <1>2. Made(<<Node("Parallel")>>)
    BY <1>1, CallsInParallel DEF ExitStateStepExpr
  <1>3. Node("Parallel") \in StateSteps
    BY NodeIn DEF StateSteps, Kinds, StatementKinds
  <1> QED BY <1>1, <1>2, <1>3, Single DEF Served

LEMMA Wraps ==
  ASSUME NEW label, Ready(label), NEW S, Own \in Exactly(S, 1), NEW kinds \in SUBSET ExpressionKinds,
         \A n \in S : n.kind \in kinds, Wrap
  PROVE  \/ EndsIn("refused")
         \/ /\ Made(<<NodeOf("ExpressionStatement", KindsOf(Own))>>)
            /\ NodeOf("ExpressionStatement", KindsOf(Own)) \in Wrapped(kinds)
  <1>1. /\ Own[1] \in S /\ DOMAIN Own = {1}
        /\ Popped(1) = Own /\ ~(Len(stack) < 1) /\ SubSeq(stack, 1, Len(stack) - 1) = Below
    BY TopOne
  <1>2. outcome = "walking"
    BY DEF Ready, At
  <1>3. Made(<<NodeOf("ExpressionStatement", KindsOf(Own))>>) \/ EndsIn("refused")
    BY <1>1, <1>2, Zenon DEF Wrap, Reduce, Stop, Unchecked, Made, EndsIn
  <1>4. DOMAIN Own = 1..1 /\ \A i \in DOMAIN Own : Own[i].kind \in kinds
    BY <1>1
  <1>5. KindsOf(Own) = <<Own[1].kind>>
    BY <1>4 DEF KindsOf
  <1>6. /\ NodeOf("ExpressionStatement", KindsOf(Own)) \in Of({"ExpressionStatement"})
        /\ NodeOf("ExpressionStatement", KindsOf(Own)).items = KindsOf(Own)
    <2>1. "ExpressionStatement" \in {"ExpressionStatement"} /\ "ExpressionStatement" \in Kinds
      BY DEF Kinds, StatementKinds
    <2> QED BY <1>4, <2>1, MadeOfExpressions
  <1>7. NodeOf("ExpressionStatement", KindsOf(Own)) \in Wrapped(kinds)
    BY <1>1, <1>4, <1>5, <1>6 DEF Wrapped
  <1> QED BY <1>3, <1>7

LEMMA ServesRunExpr == ASSUME Ready("RunExpr"), ExitRunExpr PROVE Served("RunExpr")
  <1>1. /\ Own \in Exactly(Operands, 1) /\ Makes.RunExpr = Exactly(RunSteps, 1)
        /\ \A n \in Operands : n.kind \in ExpressionKinds
    BY DEF Ready, Takes, Makes, Operands, Of
  <1>2. \/ EndsIn("refused")
        \/ /\ Made(<<NodeOf("ExpressionStatement", KindsOf(Own))>>)
           /\ NodeOf("ExpressionStatement", KindsOf(Own)) \in Wrapped(ExpressionKinds)
    BY <1>1, Wraps DEF ExitRunExpr
  <1> QED BY <1>1, <1>2, Single DEF Served, RunSteps

LEMMA ServesStateExpr == ASSUME Ready("StateExpr"), ExitStateExpr PROVE Served("StateExpr")
  <1>1. /\ Own \in Exactly(Of({"If"}), 1) /\ Makes.StateExpr = Exactly(StateSteps, 1)
        /\ \A n \in Of({"If"}) : n.kind \in {"If"}
        /\ {"If"} \in SUBSET ExpressionKinds
    BY DEF Ready, Takes, Makes, Of, ExpressionKinds
  <1>2. \/ EndsIn("refused")
        \/ /\ Made(<<NodeOf("ExpressionStatement", KindsOf(Own))>>)
           /\ NodeOf("ExpressionStatement", KindsOf(Own)) \in Wrapped({"If"})
    BY <1>1, Wraps DEF ExitStateExpr
  <1> QED BY <1>1, <1>2, Single DEF Served, StateSteps

LEMMA ServesForStmt == ASSUME Ready("ForStmt"), ExitForStmt PROVE Served("ForStmt")
  <1>1. Own \in Exactly(Nodes, 2) /\ Makes.ForStmt = Seq(Statements) /\ outcome = "walking"
    BY DEF Ready, At, Takes, Makes
  <1>2. Popped(2) = Own /\ ~(Len(stack) < 2) /\ SubSeq(stack, 1, Len(stack) - 2) = Below
    BY <1>1, TopTwo
  <1>3. Made(IF skipRun THEN <<>> ELSE <<Node("For")>>) \/ EndsIn("refused")
    BY <1>1, <1>2, Zenon DEF ExitForStmt, Reduce, Stop, Unchecked, Made, EndsIn
  <1>4. Node("For") \in Statements
    BY NodeIn DEF Statements, Kinds, StatementKinds
  <1>5. (IF skipRun THEN <<>> ELSE <<Node("For")>>) \in Seq(Statements)
    BY <1>4
  <1> QED BY <1>1, <1>3, <1>5 DEF Served

LEMMA AssertsThat ==
  ASSUME NEW label, Ready(label), Own \in Checks(1 + Children(Head(walk), "filter")), NEW kinds, AssertThat(kinds),
         Makes[label] = Exactly(Statements, 1)
  PROVE  Served(label)
  <1> DEFINE n == 1 + Children(Head(walk), "filter")
  <1>1. Own \in Seq(Nodes) /\ Len(Own) = n /\ (n = 2 => Own[2].kind = "Integer") /\ n \in Nat
    BY DEF Checks
  <1>2. Popped(n) = Own /\ ~(Len(stack) < n) /\ SubSeq(stack, 1, Len(stack) - n) = Below
    BY <1>1, PoppedIsOwn DEF Ready
  <1>3. outcome = "walking"
    BY DEF Ready, At
  <1>4. Made(<<Node("Assertion")>>) \/ EndsIn("refused")
    BY <1>1, <1>2, <1>3, Zenon DEF AssertThat, Reduce, Stop, Made, EndsIn
  <1>5. Node("Assertion") \in Statements
    BY NodeIn DEF Statements, Kinds, StatementKinds
  <1> QED BY <1>4, <1>5, Single DEF Served

LEMMA ServesAssertion == ASSUME Ready("Assertion"), ExitAssertion PROVE Served("Assertion")
  BY AssertsThat DEF Ready, Takes, Makes, ExitAssertion

LEMMA ServesAssumption == ASSUME Ready("Assumption"), ExitAssumption PROVE Served("Assumption")
  BY AssertsThat DEF Ready, Takes, Makes, ExitAssumption

-----------------------------------------------------------------------------
(***************************************************************************)
(* Declarations.                                                           *)
(***************************************************************************)

LEMMA NameAndValue ==
  ASSUME NEW ns \in SUBSET Nodes, NEW v \in ns
  PROVE  <<Node("Identifier"), v>> \in NamedValues(ns, 1)
  <1> DEFINE s == <<Node("Identifier"), v>>
  <1>1. Node("Identifier") \in Nodes /\ Node("Identifier").kind = "Identifier"
    BY NodeIsNode DEF Kinds, ExpressionKinds, OperandKinds
  <1>2. s \in Seq(Nodes) /\ Len(s) = 2 * 1 /\ DOMAIN s = {1, 2} /\ s[1] = Node("Identifier") /\ s[2] = v
    BY <1>1
  <1>3. 1 % 2 = 1 /\ 2 % 2 = 0
    OBVIOUS
  <1> HIDE DEF s
  <1>4. \A i \in DOMAIN s : (i % 2 = 1 => s[i].kind = "Identifier") /\ (i % 2 = 0 => s[i] \in ns)
    BY <1>1, <1>2, <1>3
  <1>5. s \in NamedValues(ns, 1)
    BY <1>2, <1>4 DEF NamedValues
  <1> QED BY <1>5 DEF s

LEMMA ServesPropInt == ASSUME Ready("PropInt"), ExitPropInt PROVE Served("PropInt")
  <1>1. Own \in Exactly(Operands, 1) /\ Makes.PropInt = NamedValues(Operands, 1) /\ outcome = "walking"
    BY DEF Ready, At, Takes, Makes
  <1>2. /\ Own[1] \in Operands /\ DOMAIN Own = {1}
        /\ Popped(1) = Own /\ ~(Len(stack) < 1) /\ SubSeq(stack, 1, Len(stack) - 1) = Below
    BY <1>1, TopOne
  <1>3. Made(<<Node("Identifier"), Own[1]>>)
    BY <1>1, <1>2, Zenon DEF ExitPropInt, Property, Reduce, Stop, Unchecked, Made, EndsIn
  <1>4. Own[1] \in Operands /\ Operands \in SUBSET Nodes
    BY <1>2 DEF Operands, Values, FullValues, FullFunctions, Of, ExpressionKinds
  <1> QED BY <1>1, <1>3, <1>4, NameAndValue DEF Served

LEMMA ServesPropBool == ASSUME Ready("PropBool"), ExitPropBool PROVE Served("PropBool")
  <1>1. Own \in Exactly(Operands, 1) /\ Makes.PropBool = NamedValues(Operands, 1) /\ outcome = "walking"
    BY DEF Ready, At, Takes, Makes
  <1>2. /\ Own[1] \in Operands /\ DOMAIN Own = {1}
        /\ Popped(1) = Own /\ ~(Len(stack) < 1) /\ SubSeq(stack, 1, Len(stack) - 1) = Below
    BY <1>1, TopOne
  <1>3. Made(<<Node("Identifier"), Own[1]>>)
    BY <1>1, <1>2, Zenon DEF ExitPropBool, Property, Reduce, Stop, Unchecked, Made, EndsIn
  <1>4. Own[1] \in Operands /\ Operands \in SUBSET Nodes
    BY <1>2 DEF Operands, Values, FullValues, FullFunctions, Of, ExpressionKinds
  <1> QED BY <1>1, <1>3, <1>4, NameAndValue DEF Served

LEMMA ServesPropString == ASSUME Ready("PropString"), ExitPropString PROVE Served("PropString")
  <1>1. Own \in Exactly(Operands, 1) /\ Makes.PropString = NamedValues(Operands, 1) /\ outcome = "walking"
    BY DEF Ready, At, Takes, Makes
  <1>2. /\ Own[1] \in Operands /\ DOMAIN Own = {1}
        /\ Popped(1) = Own /\ ~(Len(stack) < 1) /\ SubSeq(stack, 1, Len(stack) - 1) = Below
    BY <1>1, TopOne
  <1>3. Made(<<Node("Identifier"), Own[1]>>)
    BY <1>1, <1>2, Zenon DEF ExitPropString, Property, Reduce, Stop, Unchecked, Made, EndsIn
  <1>4. Own[1] \in Operands /\ Operands \in SUBSET Nodes
    BY <1>2 DEF Operands, Values, FullValues, FullFunctions, Of, ExpressionKinds
  <1> QED BY <1>1, <1>3, <1>4, NameAndValue DEF Served

LEMMA ServesPropVar == ASSUME Ready("PropVar"), ExitPropVar PROVE Served("PropVar")
  <1>1. Own \in Exactly(Operands, 1) /\ Makes.PropVar = NamedValues(Operands, 1) /\ outcome = "walking"
    BY DEF Ready, At, Takes, Makes
  <1>2. /\ Own[1] \in Operands /\ DOMAIN Own = {1}
        /\ Popped(1) = Own /\ ~(Len(stack) < 1) /\ SubSeq(stack, 1, Len(stack) - 1) = Below
    BY <1>1, TopOne
  <1>3. Made(<<Node("Identifier"), Own[1]>>) \/ EndsIn("refused")
    BY <1>1, <1>2, Zenon DEF ExitPropVar, Property, Reduce, Stop, Unchecked, Made, EndsIn
  <1>4. Own[1] \in Operands /\ Operands \in SUBSET Nodes
    BY <1>2 DEF Operands, Values, FullValues, FullFunctions, Of, ExpressionKinds
  <1> QED BY <1>1, <1>3, <1>4, NameAndValue DEF Served

LEMMA ServesPropSolvable == ASSUME Ready("PropSolvable"), ExitPropSolvable PROVE Served("PropSolvable")
  <1>1. /\ Own \in Exactly(Operands, IF Width(Head(walk)) = 1 THEN 0 ELSE 1)
        /\ Makes.PropSolvable = NamedValues(Operands, 1) /\ outcome = "walking"
        /\ Operands \in SUBSET Nodes
    BY DEF Ready, At, Takes, Makes, Operands, Of
  <1>2. CASE Width(Head(walk)) = 1
    <2>1. Popped(0) = Own /\ ~(Len(stack) < 0) /\ SubSeq(stack, 1, Len(stack) - 0) = Below
      BY <1>1, <1>2, TopNone
    <2>2. Made(<<Node("Identifier"), Node("Unknown")>>)
      BY <1>1, <1>2, <2>1, Zenon DEF ExitPropSolvable, Reduce, Stop, Unchecked, Made
    <2>3. Node("Unknown") \in Operands
      BY NodeIn DEF Operands, Kinds, ExpressionKinds
    <2> QED BY <1>1, <2>2, <2>3, NameAndValue DEF Served
  <1>3. CASE Width(Head(walk)) # 1
    <2>1. /\ Own[1] \in Operands
          /\ Popped(1) = Own /\ ~(Len(stack) < 1) /\ SubSeq(stack, 1, Len(stack) - 1) = Below
      BY <1>1, <1>3, TopOne
    <2>2. Made(<<Node("Identifier"), Own[1]>>)
      BY <1>1, <1>3, <2>1, Zenon DEF ExitPropSolvable, Property, Reduce, Stop, Unchecked, Made
    <2> QED BY <1>1, <2>1, <2>2, NameAndValue DEF Served
  <1> QED BY <1>2, <1>3

LEMMA ServesPropFunc == ASSUME Ready("PropFunc"), ExitPropFunc PROVE Served("PropFunc")
  <1>1. Own \in Exactly(Of({"Function"}), 1) /\ Makes.PropFunc = NamedValues(Values, 1) /\ outcome = "walking"
    BY DEF Ready, At, Takes, Makes
  <1>2. /\ Own[1] \in Of({"Function"}) /\ DOMAIN Own = {1}
        /\ Popped(1) = Own /\ ~(Len(stack) < 1) /\ SubSeq(stack, 1, Len(stack) - 1) = Below
    BY <1>1, TopOne
  <1>3. Made(<<Node("Identifier"), Own[1]>>)
    BY <1>1, <1>2, Zenon DEF ExitPropFunc, Property, Reduce, Stop, Unchecked, Made, EndsIn
  <1>4. Own[1] \in Values /\ Values \in SUBSET Nodes
    BY <1>2 DEF Operands, Values, FullValues, FullFunctions, Of, ExpressionKinds
  <1> QED BY <1>1, <1>3, <1>4, NameAndValue DEF Served

LEMMA ServesStateFunc == ASSUME Ready("StateFunc"), ExitStateFunc PROVE Served("StateFunc")
  <1>1. Own \in Exactly(FullFunctions, 1) /\ Makes.StateFunc = NamedValues(FullValues, 1) /\ outcome = "walking"
    BY DEF Ready, At, Takes, Makes
  <1>2. /\ Own[1] \in FullFunctions /\ DOMAIN Own = {1}
        /\ Popped(1) = Own /\ ~(Len(stack) < 1) /\ SubSeq(stack, 1, Len(stack) - 1) = Below
    BY <1>1, TopOne
  <1>3. Made(<<Node("Identifier"), Own[1]>>)
    BY <1>1, <1>2, Zenon DEF ExitStateFunc, Property, Reduce, Stop, Unchecked, Made, EndsIn
  <1>4. Own[1] \in FullValues /\ FullValues \in SUBSET Nodes
    BY <1>2 DEF Operands, Values, FullValues, FullFunctions, Of, ExpressionKinds
  <1> QED BY <1>1, <1>3, <1>4, NameAndValue DEF Served

LEMMA ServesFunctionLit == ASSUME Ready("FunctionLit"), ExitFunctionLit PROVE Served("FunctionLit")
  <1>1. Own \in Exactly(Blocks, 1) /\ Makes.FunctionLit = Exactly(Of({"Function"}), 1) /\ outcome = "walking"
    BY DEF Ready, At, Takes, Makes
  <1>2. /\ Own[1] \in Blocks
        /\ Popped(1) = Own /\ ~(Len(stack) < 1) /\ SubSeq(stack, 1, Len(stack) - 1) = Below
    BY <1>1, TopOne
  <1>3. /\ Own[1].kind = "Block"
        /\ Own[1].items \in Seq((Kinds \ {"ExpressionStatement"}) \cup {Unnamed, "struct", "func"})
    BY <1>2 DEF Blocks, Of, Nodes
  <1>4. Made(<<NodeOf("Function", Own[1].items)>>)
    BY <1>1, <1>2, <1>3, Zenon DEF ExitFunctionLit, Literal, Reduce, Stop, Unchecked, Made
  <1>5. NodeOf("Function", Own[1].items) \in Of({"Function"})
    BY <1>3, NodeOfIn DEF Kinds, ExpressionKinds
  <1> QED BY <1>1, <1>4, <1>5, Single DEF Served

LEMMA ServesStateLit == ASSUME Ready("StateLit"), ExitStateLit PROVE Served("StateLit")
  <1>1. Own \in Exactly(FullBlocks, 1) /\ Makes.StateLit = Exactly(FullFunctions, 1) /\ outcome = "walking"
    BY DEF Ready, At, Takes, Makes
  <1>2. /\ Own[1] \in FullBlocks
        /\ Popped(1) = Own /\ ~(Len(stack) < 1) /\ SubSeq(stack, 1, Len(stack) - 1) = Below
    BY <1>1, TopOne
  <1>3. /\ Own[1].kind = "Block"
        /\ Own[1].items \in Seq((Kinds \ {"ExpressionStatement"}) \cup {Unnamed, "struct", "func"})
    BY <1>2 DEF FullBlocks, Blocks, Of, Nodes
  <1>4. Made(<<NodeOf("Function", Own[1].items)>>)
    BY <1>1, <1>2, <1>3, Zenon DEF ExitStateLit, Literal, Reduce, Stop, Unchecked, Made
  <1>5. NodeOf("Function", Own[1].items) \in FullFunctions
    <2>1. "Function" \in Kinds
      BY DEF Kinds, ExpressionKinds
    <2>2. /\ NodeOf("Function", Own[1].items) \in Nodes /\ NodeOf("Function", Own[1].items).kind = "Function"
          /\ NodeOf("Function", Own[1].items).items = Own[1].items
      BY <1>3, <2>1, NodeOfIsNode
    <2>3. Own[1].items # <<>>
      BY <1>2 DEF FullBlocks
    <2> QED BY <2>2, <2>3, Zenon DEF FullFunctions, Of
  <1> QED BY <1>1, <1>4, <1>5, Single DEF Served

\* Names and values that lie on top.
LEMMA TopPairs ==
  ASSUME NEW label, Ready(label), NEW ns, NEW n, Own \in NamedValues(ns, n),
         \A v \in ns : v.kind \in ExpressionKinds
  PROVE  /\ Popped(2 * n) = Own /\ ~(Len(stack) < 2 * n) /\ SubSeq(stack, 1, Len(stack) - 2 * n) = Below
         /\ \A i \in DOMAIN Own : i % 2 = 1 => Own[i].kind = "Identifier"
         /\ \A i \in DOMAIN Own : i % 2 = 0 => Own[i].kind \in ExpressionKinds
         /\ \A i \in DOMAIN Own : i % 2 = 1 \/ i % 2 = 0
  <1>1. /\ Own \in Seq(Nodes) /\ Len(Own) = 2 * n
        /\ \A i \in DOMAIN Own : (i % 2 = 1 => Own[i].kind = "Identifier") /\ (i % 2 = 0 => Own[i] \in ns)
    BY DEF NamedValues
  <1>2. 2 * n \in Nat
    BY <1>1
  <1>3. Popped(2 * n) = Own /\ ~(Len(stack) < 2 * n) /\ SubSeq(stack, 1, Len(stack) - 2 * n) = Below
    BY <1>1, <1>2, PoppedIsOwn DEF Ready
  <1>4. \A i \in DOMAIN Own : i \in Nat
    BY <1>1
  <1>5. \A i \in Nat : i % 2 = 1 \/ i % 2 = 0
    OBVIOUS
  <1> QED BY <1>1, <1>3, <1>4, <1>5

LEMMA ServesStock == ASSUME Ready("Stock"), ExitStock PROVE Served("Stock")
  <1> DEFINE n == Children(Head(walk), "sfProperties")
  <1>1. /\ Own \in NamedValues(Values, n) /\ Makes.Stock = Exactly(Operands, 1) /\ outcome = "walking"
        /\ \A v \in Values : v.kind \in ExpressionKinds
    BY DEF Ready, At, Takes, Makes, Values, Of
  <1>3. /\ Popped(2 * n) = Own /\ ~(Len(stack) < 2 * n) /\ SubSeq(stack, 1, Len(stack) - 2 * n) = Below
        /\ \A i \in DOMAIN Own : i % 2 = 1 => Own[i].kind = "Identifier"
        /\ \A i \in DOMAIN Own : i % 2 = 0 => Own[i].kind \in ExpressionKinds
    BY <1>1, TopPairs
  <1>4. Made(<<Node("Stock")>>)
    BY <1>1, <1>3, Zenon DEF ExitStock, GetPairs, Named, Valued, Reduce, Stop, Made
  <1>5. Node("Stock") \in Operands
    BY NodeIn DEF Operands, Kinds, ExpressionKinds
  <1> QED BY <1>1, <1>4, <1>5, Single DEF Served

LEMMA ServesFlow == ASSUME Ready("Flow"), ExitFlow PROVE Served("Flow")
  <1> DEFINE n == Children(Head(walk), "sfProperties")
  <1>1. /\ Own \in NamedValues(Values, n) /\ Makes.Flow = Exactly(Operands, 1) /\ outcome = "walking"
        /\ \A v \in Values : v.kind \in ExpressionKinds
    BY DEF Ready, At, Takes, Makes, Values, Of
  <1>3. /\ Popped(2 * n) = Own /\ ~(Len(stack) < 2 * n) /\ SubSeq(stack, 1, Len(stack) - 2 * n) = Below
        /\ \A i \in DOMAIN Own : i % 2 = 1 => Own[i].kind = "Identifier"
        /\ \A i \in DOMAIN Own : i % 2 = 0 => Own[i].kind \in ExpressionKinds
    BY <1>1, TopPairs
  <1>4. Made(<<Node("Flow")>>)
    BY <1>1, <1>3, Zenon DEF ExitFlow, GetPairs, Named, Valued, Reduce, Stop, Made
  <1>5. Node("Flow") \in Operands
    BY NodeIn DEF Operands, Kinds, ExpressionKinds
  <1> QED BY <1>1, <1>4, <1>5, Single DEF Served

LEMMA ServesComponentDecl == ASSUME Ready("ComponentDecl"), ExitComponentDecl PROVE Served("ComponentDecl")
  <1> DEFINE n == Children(Head(walk), "comProperties")
  <1>1. /\ Own \in NamedValues(FullValues, n) /\ Makes.ComponentDecl = Exactly(Statements, 1)
        /\ outcome = "walking"
    BY DEF Ready, At, Takes, Makes
  <1>2. \A v \in FullValues : v.kind \in ExpressionKinds /\ (v.kind = "Function" => v.items # <<>>)
    BY DEF FullValues, FullFunctions, Operands, Of, ExpressionKinds
  <1>3. /\ Popped(2 * n) = Own /\ ~(Len(stack) < 2 * n) /\ SubSeq(stack, 1, Len(stack) - 2 * n) = Below
        /\ \A i \in DOMAIN Own : i % 2 = 1 => Own[i].kind = "Identifier"
        /\ \A i \in DOMAIN Own : i % 2 = 0 => Own[i].kind \in ExpressionKinds
        /\ \A i \in DOMAIN Own : i % 2 = 1 \/ i % 2 = 0
    BY <1>1, <1>2, TopPairs
  <1>4. \A i \in DOMAIN Own : Own[i].kind = "Function" => Own[i].items # <<>>
    BY <1>1, <1>2, <1>3 DEF NamedValues
  <1>5. Made(<<Node("Def")>>)
    BY <1>1, <1>3, <1>4, Zenon DEF ExitComponentDecl, Named, Valued, Reduce, Stop, Made
  <1>6. Node("Def") \in Statements
    BY NodeIn DEF Statements, Kinds, StatementKinds
  <1> QED BY <1>1, <1>5, <1>6, Single DEF Served

LEMMA ServesStructDecl == ASSUME Ready("StructDecl"), ExitStructDecl PROVE Served("StructDecl")
  <1>1. Own \in Exactly(Operands, 1) /\ Makes.StructDecl = Exactly(Statements, 1) /\ outcome = "walking"
    BY DEF Ready, At, Takes, Makes
  <1>2. Popped(1) = Own /\ ~(Len(stack) < 1) /\ SubSeq(stack, 1, Len(stack) - 1) = Below
    BY <1>1, TopOne
  <1>3. Made(<<Node("Def")>>) \/ EndsIn("refused")
    BY <1>1, <1>2, Zenon DEF ExitStructDecl, Reduce, Stop, Unchecked, Made, EndsIn
  <1>4. Node("Def") \in Statements
    BY NodeIn DEF Statements, Kinds, StatementKinds
  <1> QED BY <1>1, <1>3, <1>4, Single DEF Served

LEMMA ServesGlobalDecl == ASSUME Ready("GlobalDecl"), ExitGlobalDecl PROVE Served("GlobalDecl")
  <1>1. Own \in Exactly(Operands, 1) /\ Makes.GlobalDecl = Exactly(Statements, 1) /\ outcome = "walking"
    BY DEF Ready, At, Takes, Makes
  <1>2. /\ Own[1] \in Operands /\ DOMAIN Own = {1}
        /\ Popped(1) = Own /\ ~(Len(stack) < 1) /\ SubSeq(stack, 1, Len(stack) - 1) = Below
    BY <1>1, TopOne
  <1>3. \A i \in DOMAIN Own : Own[i].kind \in ExpressionKinds
    BY <1>2 DEF Operands, Of
  <1>4. Made(<<Node("Def")>>)
    BY <1>1, <1>2, <1>3, Zenon DEF ExitGlobalDecl, Reduce, Stop, Unchecked, Expressions, Made
  <1>5. Node("Def") \in Statements
    BY NodeIn DEF Statements, Kinds, StatementKinds
  <1> QED BY <1>1, <1>4, <1>5, Single DEF Served

LEMMA ServesStartBlock == ASSUME Ready("StartBlock"), ExitStartBlock PROVE Served("StartBlock")
  <1> DEFINE n == Children(Head(walk), "startPair")
  <1>1. Own \in Exactly(Of({"Pair"}), n) /\ Makes.StartBlock = Exactly(Statements, 1) /\ outcome = "walking"
    BY DEF Ready, At, Takes, Makes
  <1>2. /\ \A i \in DOMAIN Own : Own[i] \in Of({"Pair"})
        /\ Popped(n) = Own /\ ~(Len(stack) < n) /\ SubSeq(stack, 1, Len(stack) - n) = Below
    BY <1>1, TopMany
  <1>3. \A i \in DOMAIN Own : Own[i].kind = "Pair"
    BY <1>2 DEF Of
  <1>4. Made(<<Node("Start")>>)
    BY <1>1, <1>2, <1>3, Zenon DEF ExitStartBlock, Reduce, Stop, Unchecked, Made
  <1>5. Node("Start") \in Statements
    BY NodeIn DEF Statements, Kinds, StatementKinds
  <1> QED BY <1>1, <1>4, <1>5, Single DEF Served

LEMMA ServesImportDecl == ASSUME Ready("ImportDecl"), ExitImportDecl PROVE Served("ImportDecl")
  <1> DEFINE n == Children(Head(walk), "importSpec")
  <1>1. Own \in Exactly(Statements, n) /\ Makes.ImportDecl = Seq(Statements) /\ outcome = "walking"
    BY DEF Ready, At, Takes, Makes
  <1>2. /\ Own \in Seq(Statements)
        /\ Popped(n) = Own /\ ~(Len(stack) < n) /\ SubSeq(stack, 1, Len(stack) - n) = Below
    BY <1>1, TopMany
  <1>3. Made(Own)
    BY <1>1, <1>2, Zenon DEF ExitImportDecl, Reduce, Stop, Unchecked, Made
  <1> QED BY <1>1, <1>2, <1>3 DEF Served

\* The names of a declaration, and the value if there is one.
LEMMA ConstantsMade ==
  ASSUME NEW names \in Nat
  PROVE  [i \in 1..names |-> Node("Constant")] \in Seq(Statements)
  <1>1. Node("Constant") \in Statements
    BY NodeIn DEF Statements, Kinds, StatementKinds
  <1> QED BY <1>1

LEMMA ServesConstSpec == ASSUME Ready("ConstSpec"), ExitConstSpec PROVE Served("ConstSpec")
  <1> DEFINE names == Len(stack) - Head(walk).base - Children(Head(walk), "constants")
             value == IF Width(Head(walk)) - names > 0 THEN 1 ELSE 0
  <1>1. Own \in Constants(Head(walk)) /\ Makes.ConstSpec = Seq(Statements) /\ outcome = "walking"
        /\ stack \in Seq(Nodes) /\ Head(walk).base \in 0..Len(stack)
    BY DEF Ready, At, Takes, Makes
  <1>2. PICK m \in Nat : m = Len(Own)
    BY <1>1 DEF Constants
  <1>3. Len(stack) - Head(walk).base = m
    <2>1. PICK b \in Nat, l \in Nat : b = Head(walk).base /\ l = Len(stack)
      BY <1>1
    <2>2. Len(Own) = l - b
      BY <1>1, <2>1, CutInTwo DEF Own
    <2> QED BY <1>2, <2>1, <2>2
  <1>4. /\ Own \in Seq(Operands)
        /\ \/ Children(Head(walk), "constants") = 0 /\ Width(Head(walk)) = 1 /\ m >= 1
           \/ Children(Head(walk), "constants") = 1 /\ Width(Head(walk)) = 3 /\ m >= 2 /\ Own[m] \in Literals
    BY <1>1, <1>2 DEF Constants
  <1>5. DOMAIN Own = 1..m /\ \A i \in 1..m : Own[i].kind \in ExpressionKinds
    BY <1>2, <1>4 DEF Operands, Of
  <1>6. CASE names + value = m
    <2>1. names \in Nat
      BY <1>3, <1>4
    <2>2. Popped(names + value) = Own /\ ~(Len(stack) < names + value)
          /\ SubSeq(stack, 1, Len(stack) - (names + value)) = Below
      BY <1>1, <1>2, <1>6, PoppedIsOwn
    <2>3. value = 1 => Own[names + 1].kind \in ExpressionKinds
      <3>1. value = 1 => names + 1 \in 1..m
        BY <1>6, <2>1
      <3> QED BY <1>5, <3>1
    <2>4. Made([i \in 1..names |-> Node("Constant")]) \/ EndsIn("refused")
      BY <1>1, <2>2, <2>3, Zenon DEF ExitConstSpec, Reduce, Stop, Made, EndsIn
    <2> QED BY <1>1, <2>1, <2>4, ConstantsMade DEF Served
  <1>7. CASE names + value # m
    <2>1. m >= 4 /\ names = m - 1 /\ value = 0 /\ Own[m] \in Literals
      BY <1>3, <1>4, <1>7
    <2>2. PICK k \in Nat : k = names /\ k + value = k /\ k = m - 1 /\ k >= 1
      BY <2>1
    <2>3. ~(Len(stack) < k) /\ Len(Popped(k)) = k /\ Popped(k)[k] = Own[m]
      <3>1. PICK b \in Nat, l \in Nat : b = Head(walk).base /\ l = Len(stack) /\ l - b = m
        BY <1>1, <1>3
      <3>2. Own[m] = stack[l]
        <4>1. \A i \in 1..Len(stack) - Head(walk).base : Own[i] = stack[Head(walk).base + i]
          BY <1>1, CutInTwo DEF Own
        <4>2. m \in 1..m
          BY <2>1
        <4>3. Own[m] = stack[b + m]
          BY <1>3, <3>1, <4>1, <4>2
        <4>4. b + m = l
          BY <3>1
        <4> QED BY <4>3, <4>4
      <3>3. l - k + 1 \in 1..l + 1 /\ l - k + 1 <= l
        BY <3>1, <2>2
      <3>4. Popped(k) = SubSeq(stack, l - k + 1, l)
        BY <3>1 DEF Popped
      <3>5. /\ Len(Popped(k)) = l - (l - k + 1) + 1
            /\ \A i \in 1..l - (l - k + 1) + 1 : Popped(k)[i] = stack[l - k + 1 + i - 1]
        BY <1>1, <3>1, <3>3, <3>4, SubSeqProperties
      <3>6. l - (l - k + 1) + 1 = k /\ l - k + 1 + k - 1 = l /\ k \in 1..k /\ ~(l < k)
        BY <3>1, <2>2
      <3> QED BY <3>1, <3>2, <3>5, <3>6
    <2>4. ~(\A i \in 1..names : Popped(names + value)[i].kind = "Identifier")
      <3>1. names \in 1..names /\ names + value = k
        BY <2>2, <2>1
      <3>2. Own[m].kind # "Identifier"
        BY <2>1 DEF Literals, Of
      <3> QED BY <3>1, <3>2, <2>2, <2>3
    <2>5. ~(Len(stack) < names + value)
      BY <2>2, <2>3, <2>1
    <2>6. EndsIn("refused")
      BY <2>4, <2>5, Zenon DEF ExitConstSpec, Reduce, Stop, EndsIn
    <2> QED BY <2>6 DEF Served
  <1> QED BY <1>6, <1>7

\* The whole file: nothing was there before it.
LEMMA Wholes ==
  ASSUME NEW label \in {"Spec", "SysSpec"}, Ready(label), Head(walk).base = 0, Whole
  PROVE  Served(label)
  <1>1. Own \in Seq(Statements) /\ Makes[label] = Seq(Statements) /\ outcome = "walking"
    BY DEF Ready, At, Takes, Makes
  <1>2. stack = Below \o Own /\ stack = Own
    <2>1. stack \in Seq(Nodes) /\ stack = Below \o Own
      BY OwnOnTop DEF Ready
    <2>2. Head(walk).base + 1 = 1
      OBVIOUS
    <2>3. Own = SubSeq(stack, 1, Len(stack))
      BY <2>2, Zenon DEF Own
    <2> QED BY <2>1, <2>3, SubSeqFull
  <1>3. ~(\E i \in DOMAIN stack : stack[i].kind \notin StatementKinds)
    BY <1>1, <1>2 DEF Statements, Of
  <1>4. Made(Own) \/ EndsIn("exited")
    BY <1>1, <1>2, <1>3, Zenon DEF Whole, Stop, Made, EndsIn
  <1> QED BY <1>1, <1>4 DEF Served
-----------------------------------------------------------------------------
(***************************************************************************)
(* The invariant.  Every place in what is left of the walk has a set of the *)
(* stacks, with the listeners that wait, that the walk may have when it is  *)
(* there; a place is counted by the items that are left.  An item leads     *)
(* from each stack of its place to stacks of the next.                      *)
(***************************************************************************)
Scopes == Seq({Unnamed, "struct", "func"})
Saved == [stack : Seq(Nodes), scope : Scopes, structscope : {Unnamed, "struct"}, skipRun : BOOLEAN]
Files == {"spec", "sysSpec"}
Items ==
  [enter : {TRUE}, of : DOMAIN Rules, tokens : {0}, body : {<<>>}, base : {0}] \cup
  [enter : {FALSE}, of : Handled \cup {"Imported"}, tokens : Nat, body : Seq(DOMAIN Rules), base : Nat]

Parses(rule, s, o, Q) ==
  (rule \in Files => s = <<>>) /\ \A x \in Yield[rule] : <<s \o x, o>> \in Q
Resumes(w, o, Q) ==
  /\ o # <<>> /\ Len(Head(o).stack) = w.base
  /\ <<Append(Head(o).stack, Node("Import")), Tail(o)>> \in Q
Reduces(w, s, o, Q) ==
  /\ w.base \in 0..Len(s) /\ (w.of \in {"Spec", "SysSpec"} => w.base = 0)
  /\ SubSeq(s, w.base + 1, Len(s)) \in Takes(w)[w.of]
  /\ \A x \in Makes[w.of] : <<SubSeq(s, 1, w.base) \o x, o>> \in Q
Leads(w, P, Q) ==
  \A p \in P : /\ w.enter => Parses(w.of, p[1], p[2], Q)
               /\ ~w.enter /\ w.of = "Imported" => Resumes(w, p[2], Q)
               /\ ~w.enter /\ w.of # "Imported" => Reduces(w, p[1], p[2], Q)
AllLead(w, C) == \A j \in 1..Len(w) : Leads(w[Len(w) + 1 - j], C[j], C[j - 1])
Annotated(w, s, o, C) == <<s, o>> \in C[Len(w)] /\ AllLead(w, C)

Annotation == outcome = "walking" => \E C : Annotated(walk, stack, outer, C)
WellTyped == TypeOK /\ walk \in Seq(Items) /\ outer \in Seq(Saved)

\* The children of a context leave what its handler takes, or what the rule leaves.
Fits(body, L) ==
  \E Ls \in [0..Len(body) -> SUBSET Seq(Nodes)] :
    /\ <<>> \in Ls[0] /\ Ls[Len(body)] \subseteq L
    /\ \A i \in 1..Len(body) : \A x \in Ls[i - 1], y \in Yield[body[i]] : x \o y \in Ls[i]
Left(rule, alt) == IF alt.label \in Handled THEN Takes(alt)[alt.label] ELSE Yield[rule]
AltFits(rule, alt) ==
  /\ alt.tokens \in Nat /\ alt.cost \in Nat /\ alt.body \in Seq(DOMAIN Rules \ Files)
  /\ alt.label \in {"Spec", "SysSpec"} => rule \in Files
  /\ alt.label # "Imported"
  /\ alt.label \in Handled => Makes[alt.label] \subseteq Yield[rule]
  /\ Fits(alt.body, Left(rule, alt))

-----------------------------------------------------------------------------
LEMMA TakesAtExit ==
  ASSUME NEW alt, NEW base
  PROVE  Takes(Exit(alt, base)) = Takes(alt)
  <1>1. Width(Exit(alt, base)) = Width(alt)
    BY DEF Width, Exit
  <1>2. \A rule : Children(Exit(alt, base), rule) = Children(alt, rule)
    BY DEF Children, Exit
  <1>3. Constants(Exit(alt, base)) = Constants(alt)
    BY <1>1, <1>2 DEF Constants
  <1> QED BY <1>1, <1>2, <1>3 DEF Takes

LEMMA YieldsNodes ==
  ASSUME NEW rule \in DOMAIN Rules
  PROVE  Yield[rule] \subseteq Seq(Nodes)
  <1>1. \A ns \in SUBSET Nodes : \A n : Exactly(ns, n) \subseteq Seq(Nodes)
    BY DEF Exactly
  <1>2. \A ns \in SUBSET Nodes : Seq(ns) \subseteq Seq(Nodes)
    OBVIOUS
  <1>3. \A kinds : Of(kinds) \in SUBSET Nodes
    BY DEF Of
  <1>4. /\ Statements \in SUBSET Nodes /\ Operands \in SUBSET Nodes /\ Literals \in SUBSET Nodes
        /\ Blocks \in SUBSET Nodes /\ FullBlocks \in SUBSET Nodes /\ FullFunctions \in SUBSET Nodes
        /\ Lines \in SUBSET Nodes /\ Changes \in SUBSET Nodes /\ StateSteps \in SUBSET Nodes
        /\ RunSteps \in SUBSET Nodes /\ Nodes \in SUBSET Nodes
    BY <1>3 DEF Statements, Operands, Literals, Blocks, FullBlocks, FullFunctions, Lines, Changes, StateSteps,
       RunSteps, Wrapped
  <1>5. \A ns, n : NamedValues(ns, n) \subseteq Seq(Nodes)
    BY DEF NamedValues
  <1>6. {s \in Seq(Operands) : Len(s) >= 1} \subseteq Seq(Nodes)
    BY <1>2, <1>4
  <1>7. \A r \in DOMAIN Rules : Yield[r] \subseteq Seq(Nodes)
    BY <1>1, <1>2, <1>3, <1>4, <1>5, <1>6 DEF Rules, Yield
  <1> QED BY <1>7

\* What was said of a walk's items and of its rest, item by item.
LEMMA PlacesOf ==
  ASSUME NEW A, NEW B \in Seq(A), NEW T \in Seq(A), NEW b \in Nat, NEW t \in Nat,
         b = Len(B), t = Len(T), NEW j \in 1..Len(B \o T)
  PROVE  /\ Len(B \o T) = b + t
         /\ j <= t => j \in 1..t /\ (B \o T)[Len(B \o T) + 1 - j] = T[t + 1 - j]
         /\ j > t => /\ b + 1 - (j - t) \in 1..b
                     /\ (B \o T)[Len(B \o T) + 1 - j] = B[b + 1 - (j - t)]
  <1>1. b = Len(B) /\ t = Len(T)
    OBVIOUS
  <1>2. /\ Len(B \o T) = b + t /\ \A i \in 1..b + t : (B \o T)[i] = IF i <= b THEN B[i] ELSE T[i - b]
    BY <1>1, ConcatProperties
  <1>3. j \in 1..b + t
    BY <1>2
  <1>4. j <= t => b + t + 1 - j \in 1..b + t /\ ~(b + t + 1 - j <= b) /\ b + t + 1 - j - b = t + 1 - j
    BY <1>3
  <1>5. j > t => b + t + 1 - j \in 1..b + t /\ b + t + 1 - j <= b /\ b + t + 1 - j = b + 1 - (j - t)
    BY <1>3
  <1>6. ASSUME j <= t PROVE j \in 1..t /\ (B \o T)[b + t + 1 - j] = T[t + 1 - j]
    <2>1. PICK i \in 1..b + t : i = b + t + 1 - j
      <3>1. b + t + 1 - j \in 1..b + t
        BY <1>4, <1>6
      <3> QED BY <3>1, Zenon
    <2>4. ~(i <= b) /\ i - b = t + 1 - j
      BY <1>4, <1>6, <2>1
    <2>2. (B \o T)[i] = T[i - b]
      BY <1>2, <2>1, <2>4
    <2>3. j \in 1..t
      BY <1>3, <1>6
    <2> QED BY <2>1, <2>2, <2>3, <2>4, Zenon
  <1>7. ASSUME j > t PROVE b + 1 - (j - t) \in 1..b /\ (B \o T)[b + t + 1 - j] = B[b + 1 - (j - t)]
    <2>1. PICK i \in 1..b + t : i = b + t + 1 - j /\ i <= b /\ i = b + 1 - (j - t)
      <3>1. /\ b + t + 1 - j \in 1..b + t /\ b + t + 1 - j <= b
            /\ b + t + 1 - j = b + 1 - (j - t)
        BY <1>5, <1>7
      <3> QED BY <3>1, Zenon
    <2>2. (B \o T)[i] = B[i] /\ i \in 1..b
      BY <1>2, <2>1
    <2> QED BY <2>1, <2>2, Zenon
  <1> QED BY <1>1, <1>2, <1>6, <1>7

\* An item is put before a walk.
LEMMA OneAhead ==
  ASSUME NEW S, NEW e \in S, NEW T \in Seq(S)
  PROVE  <<e>> \o T \in Seq(S) /\ Len(<<e>> \o T) = Len(T) + 1
  <1>1. <<e>> \in Seq(S) /\ Len(<<e>>) = 1
    OBVIOUS
  <1>2. <<e>> \o T \in Seq(S) /\ Len(<<e>> \o T) = Len(<<e>>) + Len(T)
    BY <1>1, ConcatProperties, Zenon
  <1> QED BY <1>1, <1>2

LEMMA OneBetween ==
  ASSUME NEW S, NEW e \in S, NEW T \in Seq(S), NEW x \in Seq(S)
  PROVE  x \o (<<e>> \o T) = x \o <<e>> \o T
  <1>1. <<e>> \in Seq(S)
    OBVIOUS
  <1> QED BY <1>1, ConcatAssociative

LEMMA AppendsInTurn ==
  \A s, x, y \in Seq(Nodes) : (s \o x) \o y = s \o (x \o y)
  BY ConcatAssociative

\* Stacks that have one more of some sequences on top.
Over(s, o, X) == {<<s \o x, o>> : x \in X}

\* A rule is replaced by its children, which leave what fits the place after it.
LEMMA ChildrenLead ==
  ASSUME NEW T \in Seq(Items), NEW C, AllLead(T, C),
         NEW s \in Seq(Nodes), NEW o, NEW body \in Seq(DOMAIN Rules \ Files), NEW L, Fits(body, L),
         \A x \in L : <<s \o x, o>> \in C[Len(T)]
  PROVE  \E D : Annotated(Parsed(body) \o T, s, o, D)
  <1>1. PICK m \in Nat, k \in Nat : m = Len(T) /\ k = Len(body)
    OBVIOUS
  <1>2. PICK Ls \in [0..k -> SUBSET Seq(Nodes)] :
          /\ <<>> \in Ls[0] /\ Ls[k] \subseteq L
          /\ \A i \in 1..k : \A x \in Ls[i - 1], y \in Yield[body[i]] : x \o y \in Ls[i]
    BY <1>1 DEF Fits
  <1>0. PICK B : B = Parsed(body)
    OBVIOUS
  <1> DEFINE D == [j \in Nat |-> IF j <= m THEN C[j] ELSE Over(s, o, Ls[k - (j - m)])]
  <1>3. B \in Seq(Items) /\ Len(B) = k /\ \A i \in 1..k : B[i] = Rule(body[i])
    <2>1. B = [i \in 1..k |-> Rule(body[i])]
      BY <1>0, <1>1 DEF Parsed
    <2>2. \A i \in 1..k : Rule(body[i]) \in Items
      BY <1>1 DEF Items, Rule
    <2> QED BY <2>1, <2>2
  <1>4. Len(B \o T) = k + m
    BY <1>1, <1>3, ConcatProperties
  <1>5. \A i \in 0..k : \A x \in Ls[i] : <<s \o x, o>> \in D[m + (k - i)]
    <2> SUFFICES ASSUME NEW i \in 0..k, NEW x \in Ls[i] PROVE <<s \o x, o>> \in D[m + (k - i)]
      OBVIOUS
    <2>1. CASE i = k
      <3>1. m + (k - i) = m /\ m \in Nat /\ D[m] = C[m]
        BY <2>1
      <3> QED BY <1>1, <1>2, <2>1, <3>1
    <2>2. CASE i # k
      <3>1. m + (k - i) \in Nat /\ ~(m + (k - i) <= m) /\ k - ((m + (k - i)) - m) = i
        BY <2>2
      <3>2. D[m + (k - i)] = Over(s, o, Ls[k - ((m + (k - i)) - m)])
        BY <3>1
      <3>3. D[m + (k - i)] = Over(s, o, Ls[i])
        BY <3>1, <3>2
      <3> HIDE DEF D
      <3> QED BY <3>3, Zenon DEF Over
    <2> QED BY <2>1, <2>2
  <1>6. \A j \in Nat : j > m => \A p \in D[j] : \E x \in Ls[k - (j - m)] : p = <<s \o x, o>>
    <2>1. \A j \in Nat : j > m => D[j] = Over(s, o, Ls[k - (j - m)])
      OBVIOUS
    <2> QED BY <2>1 DEF Over
  <1>7. \A j \in Nat : j <= m => D[j] = C[j]
    OBVIOUS
  <1> HIDE DEF D
  <1>8. <<s, o>> \in D[Len(B \o T)]
    <2>1. s \o <<>> = s
      BY ConcatEmptySeq
    <2>2. m + (k - 0) = k + m /\ 0 \in 0..k
      OBVIOUS
    <2>3. <<s \o <<>>, o>> \in D[m + (k - 0)]
      BY <1>2, <1>5, <2>2, Zenon
    <2> QED BY <1>4, <2>1, <2>2, <2>3, Zenon
  <1>9. ASSUME NEW j \in 1..Len(B \o T)
        PROVE  Leads((B \o T)[Len(B \o T) + 1 - j], D[j], D[j - 1])
    <2>0. j \in 1..k + m /\ j \in Nat /\ j - 1 \in Nat
      BY <1>4
    <2>1. /\ j <= m => j \in 1..m /\ (B \o T)[Len(B \o T) + 1 - j] = T[m + 1 - j]
          /\ j > m => /\ k + 1 - (j - m) \in 1..k
                      /\ (B \o T)[Len(B \o T) + 1 - j] = B[k + 1 - (j - m)]
      <3>1. k = Len(B) /\ m = Len(T) /\ B \in Seq(Items)
        BY <1>1, <1>3
      <3> QED BY <3>1, PlacesOf
    <2>2. CASE j <= m
      <3>1. D[j] = C[j] /\ D[j - 1] = C[j - 1]
        BY <1>7, <2>0, <2>2
      <3> QED BY <1>1, <2>1, <2>2, <3>1 DEF AllLead
    <2>3. CASE j > m
      <3>1. PICK i \in 1..k : i = k + 1 - (j - m)
        BY <2>0, <2>1, <2>3
      <3>2. k - (j - m) = i - 1 /\ m + (k - i) = j - 1 /\ i \in 0..k /\ i - 1 \in 0..k
        BY <3>1, <2>0
      <3>3. /\ (B \o T)[Len(B \o T) + 1 - j] = Rule(body[i])
            /\ body[i] \in DOMAIN Rules \ Files
        BY <1>1, <1>3, <2>1, <2>3, <3>1
      <3>4. ASSUME NEW p \in D[j] PROVE Parses(body[i], p[1], p[2], D[j - 1])
        <4>1. PICK x \in Ls[i - 1] : p = <<s \o x, o>>
          BY <1>6, <2>0, <2>3, <3>2
        <4>2. x \in Seq(Nodes)
          <5>1. Ls[i - 1] \in SUBSET Seq(Nodes)
            BY <3>2
          <5> QED BY <4>1, <5>1
        <4>3. ASSUME NEW y \in Yield[body[i]] PROVE <<(s \o x) \o y, o>> \in D[j - 1]
          <5>1. y \in Seq(Nodes)
            BY <3>3, YieldsNodes
          <5>2. (s \o x) \o y = s \o (x \o y)
            BY <4>2, <5>1, AppendsInTurn
          <5>3. x \o y \in Ls[i]
            BY <1>2
          <5> QED BY <1>5, <3>2, <5>2, <5>3
        <4> QED BY <3>3, <4>1, <4>3 DEF Parses
      <3> QED BY <3>3, <3>4 DEF Leads, Rule
    <2> QED BY <2>2, <2>3
  <1> QED BY <1>0, <1>8, <1>9 DEF Annotated, AllLead

LEMMA CutAgain ==
  ASSUME NEW s \in Seq(Nodes), NEW x \in Seq(Nodes)
  PROVE  /\ Len(s \o x) = Len(s) + Len(x) /\ s \o x \in Seq(Nodes)
         /\ SubSeq(s \o x, 1, Len(s)) = s /\ SubSeq(s \o x, Len(s) + 1, Len(s \o x)) = x
  <1>1. Len(s \o x) = Len(s) + Len(x) /\ s \o x \in Seq(Nodes)
    BY ConcatProperties
  <1>2. SubSeq(s \o x, 1, Len(s)) = s /\ SubSeq(s \o x, Len(s) + 1, Len(s \o x)) = x
    OBVIOUS
  <1> QED BY <1>1, <1>2

LEMMA FitsNodes ==
  ASSUME NEW body \in Seq(DOMAIN Rules \ Files), NEW L, Fits(body, L)
  PROVE  Fits(body, L \cap Seq(Nodes))
  <1>1. PICK k \in Nat : k = Len(body)
    OBVIOUS
  <1>2. PICK Ls \in [0..k -> SUBSET Seq(Nodes)] :
          /\ <<>> \in Ls[0] /\ Ls[k] \subseteq L
          /\ \A i \in 1..k : \A x \in Ls[i - 1], y \in Yield[body[i]] : x \o y \in Ls[i]
    BY <1>1 DEF Fits
  <1>3. Ls[k] \subseteq L \cap Seq(Nodes)
    BY <1>2
  <1> QED BY <1>1, <1>2, <1>3 DEF Fits

LEMMA ItemsTyped ==
  ASSUME NEW w \in Seq(Items), w # <<>>
  PROVE  /\ Head(w) \in Items /\ Tail(w) \in Seq(Items) /\ Len(w) \in Nat /\ Len(w) >= 1
         /\ Len(Tail(w)) = Len(w) - 1 /\ \A i \in 1..Len(w) - 1 : Tail(w)[i] = w[i + 1]
         /\ Head(w) = w[1]
  <1>1. w[1] \in Items /\ Head(w) = w[1]
    BY EmptySeq
  <1> QED BY <1>1

\* The first item leads from the stack to the place of the rest, and so does every
\* item of the rest.
LEMMA FirstLeads ==
  ASSUME NEW w \in Seq(Items), w # <<>>, NEW s, NEW o, NEW C, Annotated(w, s, o, C)
  PROVE  LET Q == C[Len(Tail(w))]
         IN  /\ Head(w).enter => Parses(Head(w).of, s, o, Q)
             /\ ~Head(w).enter /\ Head(w).of = "Imported" => Resumes(Head(w), o, Q)
             /\ ~Head(w).enter /\ Head(w).of # "Imported" => Reduces(Head(w), s, o, Q)
             /\ AllLead(Tail(w), C)
  <1>1. PICK n \in Nat : n = Len(w) /\ n >= 1 /\ Len(Tail(w)) = n - 1 /\ Head(w) = w[1]
    BY ItemsTyped
  <1>2. \A i \in 1..n - 1 : Tail(w)[i] = w[i + 1]
    BY <1>1, ItemsTyped
  <1>3. <<s, o>> \in C[n] /\ \A j \in 1..n : Leads(w[n + 1 - j], C[j], C[j - 1])
    BY <1>1 DEF Annotated, AllLead
  <1>4. Leads(Head(w), C[n], C[n - 1])
    <2>1. n \in 1..n /\ n + 1 - n = 1
      BY <1>1
    <2> QED BY <1>1, <1>3, <2>1
  <1>5. ASSUME NEW j \in 1..n - 1 PROVE Leads(Tail(w)[n - 1 + 1 - j], C[j], C[j - 1])
    <2>1. n - 1 + 1 - j \in 1..n - 1 /\ (n - 1 + 1 - j) + 1 = n + 1 - j /\ j \in 1..n
      BY <1>1
    <2> QED BY <1>2, <1>3, <2>1
  <1>6. <<s, o>>[1] = s /\ <<s, o>>[2] = o
    OBVIOUS
  <1>7. /\ Head(w).enter => Parses(Head(w).of, s, o, C[n - 1])
        /\ ~Head(w).enter /\ Head(w).of = "Imported" => Resumes(Head(w), o, C[n - 1])
        /\ ~Head(w).enter /\ Head(w).of # "Imported" => Reduces(Head(w), s, o, C[n - 1])
    BY <1>3, <1>4, <1>6, Zenon DEF Leads
  <1> QED BY <1>1, <1>5, <1>7 DEF AllLead

\* A step that leads where the first item leads keeps the annotation.
LEMMA RestAnnotated ==
  ASSUME NEW w \in Seq(Items), w # <<>>, NEW s, NEW o, NEW C, Annotated(w, s, o, C),
         NEW s2, NEW o2, <<s2, o2>> \in C[Len(Tail(w))]
  PROVE  Annotated(Tail(w), s2, o2, C)
  BY FirstLeads DEF Annotated

\* One more item in front.
LEMMA ItemAhead ==
  ASSUME NEW T \in Seq(Items), NEW C, AllLead(T, C), NEW w \in Items, NEW P, Leads(w, P, C[Len(T)])
  PROVE  \E D : D[Len(<<w>> \o T)] = P /\ AllLead(<<w>> \o T, D)
  <1>1. PICK m \in Nat : m = Len(T)
    OBVIOUS
  <1> DEFINE D == [j \in Nat |-> IF j <= m THEN C[j] ELSE P]
  <1>2. D[m + 1] = P /\ \A j \in 0..m : D[j] = C[j]
    OBVIOUS
  <1> HIDE DEF D
  <1>3. <<w>> \in Seq(Items) /\ Len(<<w>>) = 1 /\ <<w>>[1] = w
    OBVIOUS
  <1>4. PICK W : W = <<w>> \o T
    OBVIOUS
  <1>5. Len(W) = m + 1 /\ W[1] = w /\ \A i \in 2..m + 1 : W[i] = T[i - 1]
    <2>1. Len(W) = 1 + m /\ \A i \in 1..1 + m : W[i] = IF i <= 1 THEN <<w>>[i] ELSE T[i - 1]
      BY <1>1, <1>3, <1>4, ConcatProperties
    <2> QED BY <1>3, <2>1
  <1>6. ASSUME NEW j \in 1..m + 1 PROVE Leads(W[m + 1 + 1 - j], D[j], D[j - 1])
    <2>1. CASE j = m + 1
      <3>1. m + 1 + 1 - j = 1 /\ j - 1 = m /\ m \in 0..m
        BY <2>1
      <3> QED BY <1>1, <1>2, <1>5, <2>1, <3>1
    <2>2. CASE j # m + 1
      <3>1. PICK i \in 2..m + 1 : i = m + 1 + 1 - j /\ i - 1 = m + 1 - j
        BY <2>2
      <3>2. j \in 1..m /\ j \in 0..m /\ j - 1 \in 0..m
        BY <2>2
      <3> QED BY <1>1, <1>2, <1>5, <3>1, <3>2 DEF AllLead
    <2> QED BY <2>1, <2>2
  <1>7. D[Len(W)] = P /\ AllLead(W, D)
    BY <1>2, <1>5, <1>6 DEF AllLead
  <1> QED BY <1>4, <1>7

\* Enter: the children of an alternative that fits, then its Exit.
LEMMA Entering ==
  ASSUME NEW w \in Seq(Items), w # <<>>, Head(w).enter, NEW s \in Seq(Nodes), NEW o, NEW C, Annotated(w, s, o, C),
         NEW alt, AltFits(Head(w).of, alt)
  PROVE  /\ \E D : Annotated(Parsed(alt.body) \o (IF alt.label \in Handled THEN <<Exit(alt, Len(s))>>
                                                   ELSE <<>>) \o Tail(w), s, o, D)
         /\ Parsed(alt.body) \o (IF alt.label \in Handled THEN <<Exit(alt, Len(s))>>
                                 ELSE <<>>) \o Tail(w) \in Seq(Items)
  <1>1. PICK T \in Seq(Items) : T = Tail(w)
    BY ItemsTyped
  <1>2. PICK rule \in DOMAIN Rules : rule = Head(w).of
    BY ItemsTyped DEF Items
  <1>3. /\ Parses(rule, s, o, C[Len(T)])
        /\ AllLead(T, C)
    BY <1>1, <1>2, FirstLeads, Zenon
  <1>4. PICK body \in Seq(DOMAIN Rules \ Files) : body = alt.body
    BY DEF AltFits
  <1>5. Parsed(body) \in Seq(Items)
    <2>1. PICK k \in Nat : k = Len(body)
      OBVIOUS
    <2>2. Parsed(body) = [i \in 1..k |-> Rule(body[i])]
      BY <2>1 DEF Parsed
    <2>3. \A i \in 1..k : Rule(body[i]) \in Items
      BY <2>1 DEF Items, Rule
    <2> QED BY <2>2, <2>3
  <1>6. CASE alt.label \in Handled
    <2>1. PICK e : e = Exit(alt, Len(s))
      OBVIOUS
    <2>2. e \in Items /\ ~e.enter /\ e.of = alt.label /\ e.base = Len(s)
      BY <1>4, <1>6, <2>1 DEF Exit, Items, AltFits
    <2>3. PICK L : L = Takes(alt)[alt.label]
      OBVIOUS
    <2>4. Fits(body, L) /\ Makes[alt.label] \subseteq Yield[rule] /\ Takes(e)[alt.label] = L
      BY <1>2, <1>4, <1>6, <2>1, <2>3, TakesAtExit DEF AltFits, Left
    <2>5. Leads(e, Over(s, o, L \cap Seq(Nodes)), C[Len(T)])
      <3>1. ASSUME NEW x \in L \cap Seq(Nodes) PROVE Reduces(e, s \o x, o, C[Len(T)])
        <4>1. /\ Len(s \o x) = Len(s) + Len(x) /\ s \o x \in Seq(Nodes)
              /\ SubSeq(s \o x, 1, Len(s)) = s /\ SubSeq(s \o x, Len(s) + 1, Len(s \o x)) = x
          BY CutAgain
        <4>2. e.base \in 0..Len(s \o x)
          BY <2>2, <4>1
        <4>3. e.of \in {"Spec", "SysSpec"} => e.base = 0
          BY <1>2, <1>3, <2>2 DEF AltFits, Parses
        <4>4. \A y \in Makes[alt.label] : <<s \o y, o>> \in C[Len(T)]
          BY <1>3, <2>4 DEF Parses
        <4> QED BY <2>2, <2>4, <4>1, <4>2, <4>3, <4>4 DEF Reduces
      <3>2. ASSUME NEW p \in Over(s, o, L \cap Seq(Nodes)) PROVE Reduces(e, p[1], p[2], C[Len(T)])
        <4>1. PICK x \in L \cap Seq(Nodes) : p = <<s \o x, o>>
          BY DEF Over
        <4>2. p[1] = s \o x /\ p[2] = o
          BY <4>1
        <4> QED BY <3>1, <4>2
      <3>3. e.of # "Imported"
        BY <2>2 DEF AltFits
      <3> QED BY <2>2, <3>2, <3>3 DEF Leads
    <2>6. PICK T2 : T2 = <<e>> \o T
      OBVIOUS
    <2>7. T2 \in Seq(Items) /\ Len(T2) = Len(T) + 1
      BY <1>1, <2>2, <2>6, OneAhead
    <2>8. PICK D : D[Len(T2)] = Over(s, o, L \cap Seq(Nodes)) /\ AllLead(T2, D)
      BY <1>3, <2>2, <2>5, <2>6, ItemAhead
    <2>10. Fits(body, L \cap Seq(Nodes))
      BY <2>4, FitsNodes
    <2>11. \A x \in L \cap Seq(Nodes) : <<s \o x, o>> \in D[Len(T2)]
      BY <2>8 DEF Over
    <2>12. \E E : Annotated(Parsed(body) \o T2, s, o, E)
      BY <2>7, <2>8, <2>10, <2>11, ChildrenLead
    <2>13. Parsed(body) \o T2 = Parsed(body) \o <<e>> \o T
      BY <1>1, <1>5, <2>2, <2>6, OneBetween
    <2>14. Parsed(body) \o T2 \in Seq(Items)
      BY <1>5, <2>7, ConcatProperties
    <2> QED BY <1>1, <1>4, <1>6, <2>1, <2>12, <2>13, <2>14
  <1>7. CASE alt.label \notin Handled
    <2>1. PICK L : L = Yield[rule]
      OBVIOUS
    <2>2. Fits(body, L)
      BY <1>2, <1>4, <1>7, <2>1 DEF AltFits, Left
    <2>3. \A x \in L : <<s \o x, o>> \in C[Len(T)]
      BY <1>3, <2>1 DEF Parses
    <2>4. \E E : Annotated(Parsed(body) \o T, s, o, E)
      BY <1>3, <2>2, <2>3, ChildrenLead
    <2>5. Parsed(body) \o <<>> = Parsed(body)
      BY <1>5, ConcatEmptySeq
    <2>6. Parsed(body) \o T \in Seq(Items)
      BY <1>5
    <2> QED BY <1>1, <1>4, <1>7, <2>4, <2>5, <2>6
  <1> QED BY <1>6, <1>7

-----------------------------------------------------------------------------
(***************************************************************************)
(* The steps.                                                              *)
(***************************************************************************)

\* A handler is called with what it takes.
LEMMA Readiness ==
  ASSUME WellTyped, Annotation, NEW label \in Handled, At(label)
  PROVE  Ready(label) /\ (label \in {"Spec", "SysSpec"} => Head(walk).base = 0)
  <1>1. PICK C : Annotated(walk, stack, outer, C)
    BY DEF At, Annotation
  <1>2. /\ walk \in Seq(Items) /\ walk # <<>> /\ ~Head(walk).enter /\ Head(walk).of = label
        /\ stack \in Seq(Nodes) /\ scope \in Scopes /\ structscope \in {Unnamed, "struct"}
    BY DEF At, IsExit, WellTyped, TypeOK, Scopes
  <1>3. label # "Imported"
    BY DEF Handled
  <1>4. Reduces(Head(walk), stack, outer, C[Len(Tail(walk))])
    BY <1>1, <1>2, <1>3, FirstLeads, Zenon
  <1>5. /\ Head(walk).base \in 0..Len(stack) /\ Own \in Takes(Head(walk))[label]
        /\ (label \in {"Spec", "SysSpec"} => Head(walk).base = 0)
    BY <1>2, <1>4, Zenon DEF Reduces, Own
  <1> QED BY <1>2, <1>5, Zenon DEF Ready, Scopes

LEMMA MakesNodes ==
  ASSUME NEW label \in Handled, NEW x \in Makes[label]
  PROVE  x \in Seq(Nodes)
  <1>1. \A ns \in SUBSET Nodes : \A n : Exactly(ns, n) \subseteq Seq(Nodes)
    BY DEF Exactly
  <1>2. \A ns \in SUBSET Nodes : Seq(ns) \subseteq Seq(Nodes)
    OBVIOUS
  <1>3. \A kinds : Of(kinds) \in SUBSET Nodes
    BY DEF Of
  <1>4. /\ Statements \in SUBSET Nodes /\ Operands \in SUBSET Nodes /\ Literals \in SUBSET Nodes
        /\ Blocks \in SUBSET Nodes /\ FullBlocks \in SUBSET Nodes /\ FullFunctions \in SUBSET Nodes
        /\ Lines \in SUBSET Nodes /\ Changes \in SUBSET Nodes /\ StateSteps \in SUBSET Nodes
        /\ RunSteps \in SUBSET Nodes /\ Nodes \in SUBSET Nodes
    BY <1>3 DEF Statements, Operands, Literals, Blocks, FullBlocks, FullFunctions, Lines, Changes, StateSteps,
       RunSteps, Wrapped
  <1>5. \A ns, n : NamedValues(ns, n) \subseteq Seq(Nodes)
    BY DEF NamedValues
  <1>6. \A l \in Handled : Makes[l] \subseteq Seq(Nodes)
    BY <1>1, <1>2, <1>3, <1>4, <1>5 DEF Handled, Makes
  <1> QED BY <1>6

\* What a handler leaves is what the next item counts on.
LEMMA ServedAnnotated ==
  ASSUME WellTyped, Annotation, NEW label \in Handled, Ready(label), Served(label)
  PROVE  /\ Annotation' /\ walk' \in Seq(Items) /\ outer' = outer /\ stack' \in Seq(Nodes)
         /\ outcome' \in {"walking", "exited", "refused", "crashed"}
         /\ (outcome' = "crashed" => BareCall')
  <1>1. PICK C : Annotated(walk, stack, outer, C)
    BY DEF Ready, At, Annotation
  <1>2. /\ walk \in Seq(Items) /\ walk # <<>> /\ ~Head(walk).enter /\ Head(walk).of = label
        /\ stack \in Seq(Nodes) /\ label # "Imported"
    BY DEF Ready, At, IsExit, WellTyped, TypeOK, Handled
  <1>3. Reduces(Head(walk), stack, outer, C[Len(Tail(walk))])
    BY <1>1, <1>2, FirstLeads, Zenon
  <1>4. ASSUME NEW made \in Makes[label], Made(made)
        PROVE  /\ Annotation' /\ walk' \in Seq(Items) /\ outer' = outer /\ stack' \in Seq(Nodes)
               /\ outcome' = "walking"
    <2>1. <<Below \o made, outer>> \in C[Len(Tail(walk))]
      BY <1>2, <1>3, <1>4, Zenon DEF Reduces, Below
    <2>2. Annotated(Tail(walk), Below \o made, outer, C)
      BY <1>1, <1>2, <2>1, RestAnnotated, Zenon
    <2>3. walk' = Tail(walk) /\ stack' = Below \o made /\ outer' = outer /\ outcome' = "walking"
      BY <1>4, Zenon DEF Made
    <2>4. Below \in Seq(Nodes) /\ made \in Seq(Nodes)
      BY <1>4, OwnOnTop, MakesNodes
    <2>5. Below \o made \in Seq(Nodes)
      BY <2>4, ConcatProperties
    <2>6. Annotated(walk', stack', outer', C)
      BY <2>2, <2>3, Zenon
    <2>7. Annotation'
      BY <2>6, Zenon DEF Annotation
    <2> QED BY <1>2, <2>3, <2>5, <2>7, ItemsTyped
  <1>5. ASSUME NEW how \in {"exited", "refused", "crashed"}, EndsIn(how)
        PROVE  /\ Annotation' /\ walk' \in Seq(Items) /\ outer' = outer /\ stack' \in Seq(Nodes)
               /\ outcome' = how /\ walk' = walk /\ stack' = stack
    BY <1>2, <1>5 DEF EndsIn, Annotation
  <1>6. CASE \E made \in Makes[label] : Made(made)
    BY <1>4, <1>6
  <1>7. CASE EndsIn("refused") \/ EndsIn("exited")
    BY <1>5, <1>7
  <1>8. CASE EndsIn("crashed") /\ BareCall
    <2>1. walk' = walk /\ stack' = stack /\ outcome' = "crashed"
      BY <1>5, <1>8
    <2>2. BareCall'
      BY <1>8, <2>1 DEF BareCall
    <2> QED BY <1>5, <1>8, <2>1, <2>2
  <1> QED BY <1>6, <1>7, <1>8 DEF Served

LEMMA TwoInTurn ==
  ASSUME NEW S, NEW a \in S, NEW b \in S
  PROVE  <<a>> \o <<b>> = <<a, b>>
  <1>1. <<a>> \in Seq(S) /\ <<b>> \in Seq(S) /\ Len(<<a>>) = 1 /\ Len(<<b>>) = 1 /\ <<a>>[1] = a /\ <<b>>[1] = b
    OBVIOUS
  <1>2. PICK s : s = <<a>> \o <<b>>
    OBVIOUS
  <1>3. s \in Seq(S) /\ Len(s) = 2 /\ s[1] = a /\ s[2] = b
    BY <1>1, <1>2, ConcatProperties
  <1>4. s = <<a, b>>
    BY <1>3
  <1> QED BY <1>2, <1>4

\* What is left of an import is an Exit at its place.
LEMMA ImportedItem ==
  ASSUME NEW w \in Seq(Items), w # <<>>
  PROVE  /\ ImportedFile(Head(w)) \in Items /\ ~ImportedFile(Head(w)).enter
         /\ ImportedFile(Head(w)).of = "Imported" /\ ImportedFile(Head(w)).base = Head(w).base
  <1>1. PICK c : c = Head(w) /\ c \in Items
    BY ItemsTyped
  <1>2. PICK n : n = (IF c.of = "DotImport" THEN 1 ELSE 0) /\ n \in Nat
    OBVIOUS
  <1>3. c.base \in Nat
    <2>1. CASE c \in [enter : {TRUE}, of : DOMAIN Rules, tokens : {0}, body : {<<>>}, base : {0}]
      <3>1. c.base \in {0}
        BY <2>1, Zenon
      <3> QED BY <3>1
    <2>2. CASE c \in [enter : {FALSE}, of : Handled \cup {"Imported"}, tokens : Nat, body : Seq(DOMAIN Rules), base : Nat]
      BY <2>2, Zenon
    <2> QED BY <1>1, <2>1, <2>2, Zenon DEF Items
  <1>4. PICK e : e = [enter |-> FALSE, of |-> "Imported", tokens |-> n, body |-> <<>>, base |-> c.base]
    OBVIOUS
  <1>5. ImportedFile(c) = e
    BY <1>2, <1>4 DEF ImportedFile, Exit, Alt
  <1>6. e \in Items
    <2>1. <<>> \in Seq(DOMAIN Rules)
      OBVIOUS
    <2> QED BY <1>2, <1>3, <1>4, <2>1 DEF Items
  <1>7. ~e.enter /\ e.of = "Imported" /\ e.base = c.base
    BY <1>4
  <1> QED BY <1>1, <1>5, <1>6, <1>7

\* The walk of an imported file begins with an empty stack and ends where the
\* importing listener went on.
LEMMA ImportAnnotated ==
  ASSUME WellTyped, Annotation, ExitImportSpec
  PROVE  /\ Annotation' /\ walk' \in Seq(Items) /\ outer' \in Seq(Saved) /\ stack' \in Seq(Nodes)
         /\ outcome' \in {"walking", "refused"}
         /\ outcome' = "walking" => Len(outer') > Len(outer) /\ Head(outer').stack = Below
         /\ Below \in Seq(Nodes) /\ Len(Below) = Head(walk).base
  <1>1. PICK C : Annotated(walk, stack, outer, C)
    BY DEF ExitImportSpec, At, Annotation
  <1>2. /\ walk \in Seq(Items) /\ walk # <<>> /\ ~Head(walk).enter
        /\ Head(walk).of \in {"ImportSpec", "DotImport"}
        /\ stack \in Seq(Nodes) /\ outer \in Seq(Saved) /\ outcome = "walking"
    BY DEF ExitImportSpec, At, IsExit, WellTyped, TypeOK
  <1>3. AllLead(Tail(walk), C) /\ Reduces(Head(walk), stack, outer, C[Len(Tail(walk))])
    BY <1>1, <1>2, FirstLeads, Zenon
  <1>4. PICK label \in {"ImportSpec", "DotImport"} : label = Head(walk).of /\ Ready(label)
    <2>1. PICK label \in {"ImportSpec", "DotImport"} : label = Head(walk).of
      BY <1>2
    <2>2. At(label) /\ label \in Handled
      BY <1>2, <2>1 DEF At, IsExit, Handled
    <2> QED BY <2>1, <2>2, Readiness
  <1>5. Own \in Exactly(Literals, 1) /\ Makes[label] = Exactly(Statements, 1)
    BY <1>4 DEF Ready, Takes, Makes
  <1>6. /\ ~(Len(stack) < 1) /\ SubSeq(stack, 1, Len(stack) - 1) = Below
    BY <1>4, <1>5, TopOne
  <1>7. stack # <<>>
    BY <1>6
  <1>10. Below \in Seq(Nodes) /\ Len(Below) = Head(walk).base
    BY <1>4, OwnOnTop
  <1>8. CASE Stop(IF stack = <<>> THEN "crashed" ELSE "refused") /\ UNCHANGED outer
    BY <1>2, <1>7, <1>8, <1>10 DEF Stop, Annotation
  <1>9. CASE /\ outer' = <<[stack |-> Front(stack), scope |-> scope, structscope |-> structscope,
                            skipRun |-> skipRun]>> \o outer
             /\ walk' = <<Rule("spec"), ImportedFile(Head(walk))>> \o Tail(walk)
             /\ stack' = <<>> /\ outcome' = outcome
    <2>1. PICK T \in Seq(Items) : T = Tail(walk)
      BY <1>2, ItemsTyped
    <2>2. PICK l : l = [stack |-> Front(stack), scope |-> scope, structscope |-> structscope, skipRun |-> skipRun]
      OBVIOUS
    <2>3. l \in Saved /\ l.stack = Below
      BY <1>4, <1>6, <2>2, OwnOnTop DEF Saved, Front, WellTyped, TypeOK, Scopes
    <2>4. PICK o : o = <<l>> \o outer
      OBVIOUS
    <2>5. o \in Seq(Saved) /\ o # <<>> /\ Head(o) = l /\ Tail(o) = outer /\ Len(o) > Len(outer)
      BY <1>2, <2>3, <2>4
    <2>6. PICK r, e : r = Rule("spec") /\ e = ImportedFile(Head(walk))
      OBVIOUS
    <2>7. /\ r \in Items /\ r.enter /\ r.of = "spec"
          /\ e \in Items /\ ~e.enter /\ e.of = "Imported" /\ e.base = Head(walk).base
      <3>1. r \in Items /\ r.enter /\ r.of = "spec"
        BY <2>6 DEF Items, Rule, Rules
      <3>2. e \in Items /\ ~e.enter /\ e.of = "Imported" /\ e.base = Head(walk).base
        BY <1>2, <2>6, ImportedItem
      <3> QED BY <3>1, <3>2
    <2>8. <<Append(Below, Node("Import")), outer>> \in C[Len(T)]
      <3>1. Node("Import") \in Statements
        BY NodeIn DEF Statements, Kinds, StatementKinds
      <3>2. <<Node("Import")>> \in Makes[label]
        BY <1>5, <3>1, Single
      <3>3. <<Below \o <<Node("Import")>>, outer>> \in C[Len(T)]
        BY <1>2, <1>3, <1>4, <2>1, <3>2, Zenon DEF Reduces, Below
      <3>4. Below \in Seq(Nodes)
        BY <1>4, OwnOnTop
      <3>5. Below \o <<Node("Import")>> = Append(Below, Node("Import"))
        BY <3>1, <3>4 DEF Statements, Of
      <3> QED BY <3>3, <3>5
    <2>9. Resumes(e, o, C[Len(T)])
      BY <1>10, <2>3, <2>5, <2>7, <2>8 DEF Resumes
    <2>10. PICK P : P = Over(<<>>, o, Seq(Nodes))
      OBVIOUS
    <2>11. Leads(e, P, C[Len(T)])
      <3>1. \A p \in P : p[2] = o
        BY <2>10 DEF Over
      <3> QED BY <2>7, <2>9, <3>1 DEF Leads
    <2>12. PICK T2 : T2 = <<e>> \o T
      OBVIOUS
    <2>13. T2 \in Seq(Items)
      BY <2>7, <2>12
    <2>14. PICK D : D[Len(T2)] = P /\ AllLead(T2, D)
      BY <1>3, <2>1, <2>7, <2>11, <2>12, ItemAhead, Zenon
    <2>15. Leads(r, {<< <<>>, o>>}, D[Len(T2)])
      <3>1. \A x \in Yield.spec : << <<>> \o x, o>> \in D[Len(T2)]
        <4>1. "spec" \in DOMAIN Rules
          BY DEF Rules
        <4> QED BY <2>10, <2>14, <4>1, YieldsNodes DEF Over
      <3>2. Parses("spec", <<>>, o, D[Len(T2)])
        BY <3>1 DEF Parses
      <3> QED BY <2>7, <3>2 DEF Leads
    <2>16. PICK E : E[Len(<<r>> \o T2)] = {<< <<>>, o>>} /\ AllLead(<<r>> \o T2, E)
      BY <2>7, <2>13, <2>14, <2>15, ItemAhead
    <2>17. Annotated(<<r>> \o T2, <<>>, o, E)
      BY <2>16 DEF Annotated
    <2>18. <<r>> \o T2 = <<r, e>> \o T /\ <<r>> \o T2 \in Seq(Items)
      <3>0. <<r>> \in Seq(Items) /\ <<e>> \in Seq(Items)
        BY <2>7
      <3>1. <<r>> \in Seq(Items) /\ <<e>> \in Seq(Items) /\ <<r>> \o <<e>> = <<r, e>>
        BY <2>7, <3>0, TwoInTurn
      <3>2. (<<r>> \o <<e>>) \o T = <<r>> \o (<<e>> \o T)
        BY <3>1, ConcatAssociative
      <3>3. <<r>> \o T2 \in Seq(Items)
        BY <2>13, <3>1, ConcatProperties
      <3> QED BY <2>12, <3>1, <3>2, <3>3
    <2>19. walk' = <<r>> \o T2 /\ stack' = <<>> /\ outer' = o /\ outcome' = "walking"
      BY <1>2, <1>9, <2>1, <2>2, <2>4, <2>6, <2>18
    <2>20. Annotation'
      BY <2>17, <2>19, Zenon DEF Annotation
    <2> QED BY <1>10, <2>3, <2>5, <2>18, <2>19, <2>20
  <1> QED BY <1>8, <1>9, Zenon DEF ExitImportSpec, NewListener

LEMMA ImportedAnnotated ==
  ASSUME WellTyped, Annotation, Imported
  PROVE  /\ Annotation' /\ walk' \in Seq(Items) /\ outer' \in Seq(Saved) /\ stack' \in Seq(Nodes)
         /\ outer # <<>> /\ Head(outer) \in Saved /\ Len(Head(outer).stack) = Head(walk).base
         /\ \/ outcome' = "crashed" /\ DotImport'
            \/ outcome' = "walking" /\ ~DotImport
  <1>1. PICK C : Annotated(walk, stack, outer, C)
    BY DEF Imported, At, Annotation
  <1>2. /\ walk \in Seq(Items) /\ walk # <<>> /\ ~Head(walk).enter /\ Head(walk).of = "Imported"
        /\ outer \in Seq(Saved) /\ outcome = "walking"
    BY DEF Imported, At, IsExit, WellTyped, TypeOK
  <1>3. Resumes(Head(walk), outer, C[Len(Tail(walk))])
    BY <1>1, <1>2, FirstLeads, Zenon
  <1>4. /\ outer # <<>> /\ Len(Head(outer).stack) = Head(walk).base
        /\ <<Append(Head(outer).stack, Node("Import")), Tail(outer)>> \in C[Len(Tail(walk))]
    BY <1>3 DEF Resumes
  <1>5. Head(outer) \in Saved /\ Tail(outer) \in Seq(Saved)
    BY <1>2, <1>4
  <1>6. CASE DotImport
    <2>1. UNCHANGED <<walk, stack, outer>> /\ outcome' = "crashed"
      BY <1>6, Zenon DEF Imported, Stop
    <2>2. DotImport'
      BY <1>6, <2>1 DEF DotImport
    <2>3. stack' \in Seq(Nodes)
      BY <2>1 DEF WellTyped, TypeOK
    <2>4. Annotation'
      BY <2>1 DEF Annotation
    <2> QED BY <1>2, <1>4, <1>5, <2>1, <2>2, <2>3, <2>4
  <1>7. CASE ~DotImport
    <2>1. /\ walk' = Tail(walk) /\ stack' = Append(Head(outer).stack, Node("Import")) /\ outer' = Tail(outer)
          /\ outcome' = outcome
      BY <1>7, Zenon DEF Imported
    <2>2. Annotated(walk', stack', outer', C)
      BY <1>1, <1>2, <1>4, <2>1, RestAnnotated, Zenon
    <2>3. Node("Import") \in Nodes
      BY NodeIsNode DEF Kinds, StatementKinds
    <2>4. Append(Head(outer).stack, Node("Import")) \in Seq(Nodes)
      BY <1>5, <2>3 DEF Saved
    <2>5. Annotation'
      BY <2>2, Zenon DEF Annotation
    <2> QED BY <1>2, <1>4, <1>5, <1>7, <2>1, <2>4, <2>5, ItemsTyped
  <1> QED BY <1>6, <1>7

-----------------------------------------------------------------------------
(***************************************************************************)
(* The grammar: the alternatives of a rule on which handlers count right    *)
(* leave what the rule leaves.                                             *)
(***************************************************************************)
LEMMA Kept ==
  ASSUME NEW S \in SUBSET Nodes
  PROVE  /\ \A n : Exactly(S, n) \in SUBSET Seq(Nodes)
         /\ Seq(S) \in SUBSET Seq(Nodes)
  BY DEF Exactly

LEMMA OneMore ==
  ASSUME NEW S, NEW n \in Nat, NEW x \in Exactly(S, n), NEW y \in Exactly(S, 1)
  PROVE  x \o y \in Exactly(S, n + 1)
  <1>1. x \in Seq(S) /\ Len(x) = n /\ y \in Seq(S) /\ Len(y) = 1
    BY DEF Exactly
  <1>2. x \o y \in Seq(S) /\ Len(x \o y) = Len(x) + Len(y)
    BY <1>1, ConcatProperties, Zenon
  <1>3. Len(x \o y) = n + 1
    BY <1>1, <1>2
  <1> QED BY <1>2, <1>3 DEF Exactly

LEMMA FitsNone ==
  ASSUME NEW L, <<>> \in L
  PROVE  Fits(<<>>, L)
  <1>1. PICK body : body = <<>> /\ Len(body) = 0
    OBVIOUS
  <1> DEFINE Ls == [i \in 0..0 |-> {<<>>}]
  <1>2. Ls \in [0..0 -> SUBSET Seq(Nodes)] /\ Ls[0] = {<<>>}
    OBVIOUS
  <1> HIDE DEF Ls
  <1>3. Fits(body, L)
    BY <1>1, <1>2 DEF Fits
  <1> QED BY <1>1, <1>3

LEMMA FitsAll ==
  ASSUME NEW S \in SUBSET Nodes, NEW body \in Seq(DOMAIN Rules), NEW L, Exactly(S, Len(body)) \subseteq L,
         \A i \in DOMAIN body : Yield[body[i]] \subseteq Exactly(S, 1)
  PROVE  Fits(body, L)
  <1>1. PICK k \in Nat : k = Len(body)
    OBVIOUS
  <1> DEFINE Ls == [i \in 0..k |-> Exactly(S, i)]
  <1>2. Ls \in [0..k -> SUBSET Seq(Nodes)] /\ \A i \in 0..k : Ls[i] = Exactly(S, i)
    BY Kept
  <1> HIDE DEF Ls
  <1>3. <<>> \in Exactly(S, 0)
    BY DEF Exactly
  <1>4. ASSUME NEW i \in 1..k, NEW x \in Ls[i - 1], NEW y \in Yield[body[i]] PROVE x \o y \in Ls[i]
    <2>1. x \in Exactly(S, i - 1) /\ i - 1 \in Nat /\ i - 1 + 1 = i /\ i \in 0..k
      BY <1>2, <1>4
    <2>2. y \in Exactly(S, 1)
      BY <1>1, <1>4
    <2>3. x \o y \in Exactly(S, i - 1 + 1)
      BY <2>1, <2>2, OneMore
    <2> QED BY <1>2, <2>1, <2>3
  <1>5. <<>> \in Ls[0] /\ Ls[k] \subseteq L
    BY <1>1, <1>2, <1>3
  <1> QED BY <1>1, <1>2, <1>4, <1>5 DEF Fits

LEMMA FitsList ==
  ASSUME NEW S \in SUBSET Nodes, NEW body \in Seq(DOMAIN Rules),
         \A i \in DOMAIN body : Yield[body[i]] \subseteq Seq(S)
  PROVE  Fits(body, Seq(S))
  <1>1. PICK k \in Nat : k = Len(body)
    OBVIOUS
  <1> DEFINE Ls == [i \in 0..k |-> Seq(S)]
  <1>2. Ls \in [0..k -> SUBSET Seq(Nodes)] /\ \A i \in 0..k : Ls[i] = Seq(S)
    BY Kept
  <1> HIDE DEF Ls
  <1>4. ASSUME NEW i \in 1..k, NEW x \in Ls[i - 1], NEW y \in Yield[body[i]] PROVE x \o y \in Ls[i]
    <2>1. x \in Seq(S) /\ y \in Seq(S) /\ i \in 0..k
      BY <1>1, <1>2, <1>4
    <2>2. x \o y \in Seq(S)
      BY <2>1, ConcatProperties
    <2> QED BY <1>2, <2>1, <2>2
  <1>5. <<>> \in Ls[0] /\ Ls[k] \subseteq Seq(S)
    <2>1. 0 \in 0..k /\ k \in 0..k /\ <<>> \in Seq(S)
      OBVIOUS
    <2> QED BY <1>2, <2>1
  <1> QED BY <1>1, <1>2, <1>4, <1>5 DEF Fits

LEMMA FitsOne ==
  ASSUME NEW r \in DOMAIN Rules, NEW L, Yield[r] \subseteq L
  PROVE  Fits(<<r>>, L)
  <1>0. Len(<<r>>) = 1 /\ <<r>>[1] = r
    OBVIOUS
  <1>1. PICK body : body = <<r>> /\ Len(body) = 1 /\ body[1] = r
    BY <1>0, Zenon
  <1> DEFINE Ls == [i \in 0..1 |-> IF i = 0 THEN {<<>>} ELSE Yield[r]]
  <1>2. Ls \in [0..1 -> SUBSET Seq(Nodes)] /\ Ls[0] = {<<>>} /\ Ls[1] = Yield[r]
    BY YieldsNodes
  <1> HIDE DEF Ls
  <1>3. ASSUME NEW i \in 1..1, NEW x \in Ls[i - 1], NEW y \in Yield[body[i]] PROVE x \o y \in Ls[i]
    <2>1. i = 1 /\ i - 1 = 0
      OBVIOUS
    <2>2. x = <<>> /\ y \in Yield[r] /\ y \in Seq(Nodes)
      BY <1>1, <1>2, <1>3, <2>1, YieldsNodes
    <2> QED BY <1>2, <2>1, <2>2, ConcatEmptySeq
  <1>4. Fits(body, L)
    BY <1>1, <1>2, <1>3 DEF Fits
  <1> QED BY <1>1, <1>4

LEMMA FitsTwo ==
  ASSUME NEW r \in DOMAIN Rules, NEW q \in DOMAIN Rules, NEW L \in SUBSET Seq(Nodes),
         \A x \in Yield[r], y \in Yield[q] : x \o y \in L
  PROVE  Fits(<<r, q>>, L)
  <1>0. Len(<<r, q>>) = 2 /\ <<r, q>>[1] = r /\ <<r, q>>[2] = q
    OBVIOUS
  <1>1. PICK body : body = <<r, q>> /\ Len(body) = 2 /\ body[1] = r /\ body[2] = q
    BY <1>0, Zenon
  <1> DEFINE Ls == [i \in 0..2 |-> IF i = 0 THEN {<<>>} ELSE IF i = 1 THEN Yield[r] ELSE L]
  <1>2. Ls \in [0..2 -> SUBSET Seq(Nodes)] /\ Ls[0] = {<<>>} /\ Ls[1] = Yield[r] /\ Ls[2] = L
    BY YieldsNodes
  <1> HIDE DEF Ls
  <1>3. ASSUME NEW i \in 1..2, NEW x \in Ls[i - 1], NEW y \in Yield[body[i]] PROVE x \o y \in Ls[i]
    <2>1. CASE i = 1
      <3>1. x = <<>> /\ y \in Yield[r] /\ y \in Seq(Nodes)
        BY <1>1, <1>2, <1>3, <2>1, YieldsNodes
      <3> QED BY <1>2, <2>1, <3>1, ConcatEmptySeq
    <2>2. CASE i = 2
      <3>1. x \in Yield[r] /\ y \in Yield[q]
        BY <1>1, <1>2, <1>3, <2>2
      <3> QED BY <1>2, <2>2, <3>1
    <2> QED BY <2>1, <2>2
  <1>4. Fits(body, L)
    BY <1>1, <1>2, <1>3 DEF Fits
  <1> QED BY <1>1, <1>4

LEMMA FitsThree ==
  ASSUME NEW r \in DOMAIN Rules, NEW q \in DOMAIN Rules, NEW p \in DOMAIN Rules, NEW M \in SUBSET Seq(Nodes),
         NEW L \in SUBSET Seq(Nodes),
         \A x \in Yield[r], y \in Yield[q] : x \o y \in M,
         \A x \in M, y \in Yield[p] : x \o y \in L
  PROVE  Fits(<<r, q, p>>, L)
  <1>0. Len(<<r, q, p>>) = 3 /\ <<r, q, p>>[1] = r /\ <<r, q, p>>[2] = q /\ <<r, q, p>>[3] = p
    OBVIOUS
  <1>1. PICK body :
          body = <<r, q, p>> /\ Len(body) = 3 /\ body[1] = r /\ body[2] = q /\ body[3] = p
    BY <1>0, Zenon
  <1> DEFINE Ls == [i \in 0..3 |-> IF i = 0 THEN {<<>>} ELSE IF i = 1 THEN Yield[r] ELSE IF i = 2 THEN M ELSE L]
  <1>2. /\ Ls \in [0..3 -> SUBSET Seq(Nodes)] /\ Ls[0] = {<<>>} /\ Ls[1] = Yield[r] /\ Ls[2] = M
        /\ Ls[3] = L
    BY YieldsNodes
  <1> HIDE DEF Ls
  <1>3. ASSUME NEW i \in 1..3, NEW x \in Ls[i - 1], NEW y \in Yield[body[i]] PROVE x \o y \in Ls[i]
    <2>1. CASE i = 1
      <3>1. x = <<>> /\ y \in Yield[r] /\ y \in Seq(Nodes)
        BY <1>1, <1>2, <1>3, <2>1, YieldsNodes
      <3> QED BY <1>2, <2>1, <3>1, ConcatEmptySeq
    <2>2. CASE i = 2
      <3>1. x \in Yield[r] /\ y \in Yield[q]
        BY <1>1, <1>2, <1>3, <2>2
      <3> QED BY <1>2, <2>2, <3>1
    <2>3. CASE i = 3
      <3>1. x \in M /\ y \in Yield[p]
        BY <1>1, <1>2, <1>3, <2>3
      <3> QED BY <1>2, <2>3, <3>1
    <2> QED BY <2>1, <2>2, <2>3
  <1>4. Fits(body, L)
    BY <1>1, <1>2, <1>3 DEF Fits
  <1> QED BY <1>1, <1>4

LEMMA OneMorePair ==
  ASSUME NEW S \in SUBSET Nodes, NEW n \in Nat, NEW x \in NamedValues(S, n), NEW y \in NamedValues(S, 1)
  PROVE  x \o y \in NamedValues(S, n + 1)
  <1>1. /\ x \in Seq(Nodes) /\ Len(x) = 2 * n
        /\ \A i \in 1..2 * n : (i % 2 = 1 => x[i].kind = "Identifier") /\ (i % 2 = 0 => x[i] \in S)
    BY DEF NamedValues
  <1>2. y \in Seq(Nodes) /\ Len(y) = 2 /\ y[1].kind = "Identifier" /\ y[2] \in S
    <2>1. /\ y \in Seq(Nodes) /\ Len(y) = 2
          /\ \A i \in 1..2 : (i % 2 = 1 => y[i].kind = "Identifier") /\ (i % 2 = 0 => y[i] \in S)
      BY DEF NamedValues
    <2>2. 1 % 2 = 1 /\ 2 % 2 = 0 /\ 1 \in 1..2 /\ 2 \in 1..2
      OBVIOUS
    <2> QED BY <2>1, <2>2
  <1>3. PICK z : z = x \o y
    OBVIOUS
  <1>4. /\ z \in Seq(Nodes) /\ Len(z) = 2 * n + 2
        /\ \A i \in 1..2 * n : z[i] = x[i]
        /\ z[2 * n + 1] = y[1] /\ z[2 * n + 2] = y[2]
    <2>1. PICK m \in Nat : m = 2 * n
      OBVIOUS
    <2>2. /\ z \in Seq(Nodes) /\ Len(z) = m + 2
          /\ \A i \in 1..m + 2 : z[i] = IF i <= m THEN x[i] ELSE y[i - m]
      <3>1. x \in Seq(Nodes) /\ Len(x) = m
        BY <1>1, <2>1
      <3>2. y \in Seq(Nodes) /\ Len(y) = 2
        BY <1>2
      <3>3. /\ z \in Seq(Nodes) /\ Len(z) = Len(x) + Len(y)
            /\ \A i \in 1..Len(x) + Len(y) : z[i] = IF i <= Len(x) THEN x[i] ELSE y[i - Len(x)]
        BY <1>3, <3>1, <3>2, ConcatProperties, Zenon
      <3> QED BY <3>1, <3>2, <3>3
    <2>3. \A i \in 1..m : i \in 1..m + 2 /\ i <= m
      OBVIOUS
    <2>4. /\ m + 1 \in 1..m + 2 /\ ~(m + 1 <= m) /\ m + 1 - m = 1
          /\ m + 2 \in 1..m + 2 /\ ~(m + 2 <= m) /\ m + 2 - m = 2
      OBVIOUS
    <2>5. z[m + 1] = y[1] /\ z[m + 2] = y[2] /\ \A i \in 1..m : z[i] = x[i]
      BY <2>2, <2>3, <2>4
    <2> QED BY <2>1, <2>2, <2>5
  <1>5. (2 * n + 1) % 2 = 1 /\ (2 * n + 2) % 2 = 0 /\ 2 * (n + 1) = 2 * n + 2
    OBVIOUS
  <1>6. \A i \in 1..2 * n + 2 : i \in 1..2 * n \/ i = 2 * n + 1 \/ i = 2 * n + 2
    OBVIOUS
  <1>7. \A i \in 1..2 * n + 2 : (i % 2 = 1 => z[i].kind = "Identifier") /\ (i % 2 = 0 => z[i] \in S)
    BY <1>1, <1>2, <1>4, <1>5, <1>6
  <1>8. DOMAIN z = 1..2 * n + 2
    BY <1>4
  <1>9. \A i \in DOMAIN z : (i % 2 = 1 => z[i].kind = "Identifier") /\ (i % 2 = 0 => z[i] \in S)
    BY <1>7, <1>8, Zenon
  <1>10. z \in Seq(Nodes) /\ Len(z) = 2 * (n + 1)
    BY <1>4, <1>5
  <1>11. z \in NamedValues(S, n + 1)
    BY <1>9, <1>10, Zenon DEF NamedValues
  <1> QED BY <1>3, <1>11

LEMMA FitsPairs ==
  ASSUME NEW S \in SUBSET Nodes, NEW body \in Seq(DOMAIN Rules),
         \A i \in DOMAIN body : Yield[body[i]] \subseteq NamedValues(S, 1)
  PROVE  Fits(body, NamedValues(S, Len(body)))
  <1>1. PICK k \in Nat : k = Len(body)
    OBVIOUS
  <1> DEFINE Ls == [i \in 0..k |-> NamedValues(S, i)]
  <1>0. \A i : NamedValues(S, i) \in SUBSET Seq(Nodes)
    BY DEF NamedValues
  <1>2. Ls \in [0..k -> SUBSET Seq(Nodes)] /\ \A i \in 0..k : Ls[i] = NamedValues(S, i)
    BY <1>0
  <1> HIDE DEF Ls
  <1>3. <<>> \in NamedValues(S, 0)
    BY DEF NamedValues
  <1>4. ASSUME NEW i \in 1..k, NEW x \in Ls[i - 1], NEW y \in Yield[body[i]] PROVE x \o y \in Ls[i]
    <2>1. x \in NamedValues(S, i - 1) /\ i - 1 \in Nat /\ i - 1 + 1 = i /\ i \in 0..k
      BY <1>2, <1>4
    <2>2. y \in NamedValues(S, 1)
      BY <1>1, <1>4
    <2>3. x \o y \in NamedValues(S, i - 1 + 1)
      BY <2>1, <2>2, OneMorePair
    <2> QED BY <1>2, <2>1, <2>3
  <1>5. <<>> \in Ls[0] /\ Ls[k] \subseteq NamedValues(S, k)
    BY <1>2, <1>3
  <1> QED BY <1>1, <1>2, <1>4, <1>5 DEF Fits

LEMMA Repeated ==
  ASSUME NEW r, NEW n \in Nat
  PROVE  /\ Len(Times(r, n)) = n /\ DOMAIN Times(r, n) = 1..n /\ Times(r, n) = [i \in 1..n |-> r]
         /\ \A S : r \in S => Times(r, n) \in Seq(S)
         /\ \A i \in DOMAIN Times(r, n) : Times(r, n)[i] = r
  BY DEF Times

\* How many children of a rule a context has.
LEMMA CountAll ==
  ASSUME NEW r, NEW n \in Nat, NEW alt, alt.body = Times(r, n)
  PROVE  Children(alt, r) = n
  <1>1. {i \in DOMAIN alt.body : alt.body[i] = r} = 1..n
    BY Repeated
  <1>2. Cardinality(1..n) = n
    BY FS_Interval
  <1> QED BY <1>1, <1>2 DEF Children

\* What the nodes of one set are besides.
LEMMA Inclusions ==
  /\ Statements \in SUBSET Nodes /\ Values \in SUBSET Nodes /\ Operands \in SUBSET Nodes
  /\ Literals \in SUBSET Nodes /\ Blocks \in SUBSET Nodes /\ FullBlocks \in SUBSET Nodes
  /\ FullFunctions \in SUBSET Nodes /\ FullValues \in SUBSET Nodes /\ Lines \in SUBSET Nodes
  /\ Changes \in SUBSET Nodes /\ StateSteps \in SUBSET Nodes /\ RunSteps \in SUBSET Nodes
  /\ \A kinds : Of(kinds) \in SUBSET Nodes
  /\ Literals \in SUBSET Operands /\ Operands \in SUBSET Values /\ Operands \in SUBSET Lines
  /\ Operands \in SUBSET FullValues /\ Blocks \in SUBSET Lines /\ FullBlocks \in SUBSET Blocks
  /\ Changes \in SUBSET StateSteps /\ Of({"Integer"}) \in SUBSET Literals
  /\ Of({"Integer"}) \in SUBSET Operands /\ Of({"If"}) \in SUBSET Operands
  /\ Of({"If"}) \in SUBSET Lines
  /\ Of({"ParameterCall"}) \in SUBSET Operands
  <1>1. \A kinds : Of(kinds) \in SUBSET Nodes
    BY DEF Of
  <1>2. \A kinds, more : kinds \subseteq more => Of(kinds) \in SUBSET Of(more)
    BY DEF Of
  <1>3. /\ Statements \in SUBSET Nodes /\ Values \in SUBSET Nodes /\ Operands \in SUBSET Nodes
        /\ Literals \in SUBSET Nodes /\ Blocks \in SUBSET Nodes /\ Lines \in SUBSET Nodes
        /\ Changes \in SUBSET Nodes
    BY <1>1 DEF Statements, Values, Operands, Literals, Blocks, Lines, Changes
  <1>4. /\ FullBlocks \in SUBSET Blocks /\ FullBlocks \in SUBSET Nodes /\ FullFunctions \in SUBSET Nodes
        /\ FullValues \in SUBSET Nodes /\ StateSteps \in SUBSET Nodes /\ RunSteps \in SUBSET Nodes
    BY <1>1, <1>3 DEF FullBlocks, FullFunctions, FullValues, StateSteps, RunSteps, Wrapped
  <1>5. /\ Literals \in SUBSET Operands /\ Operands \in SUBSET Values /\ Operands \in SUBSET Lines
        /\ Blocks \in SUBSET Lines
    BY <1>2 DEF Literals, Operands, Values, Lines, Blocks
  <1>6. /\ Of({"Integer"}) \in SUBSET Literals /\ Of({"Integer"}) \in SUBSET Operands
        /\ Of({"If"}) \in SUBSET Operands /\ Of({"If"}) \in SUBSET Lines
        /\ Of({"ParameterCall"}) \in SUBSET Operands
    BY <1>2 DEF Literals, Operands, Lines, ExpressionKinds, OperandKinds
  <1>7. Changes \in SUBSET StateSteps /\ Operands \in SUBSET FullValues
    <2>1. {"Advance", "Stay", "Infix"} \subseteq {"Parallel", "Advance", "Stay", "Infix"}
      OBVIOUS
    <2> QED BY <1>2, <2>1 DEF Changes, StateSteps, FullValues
  <1> QED BY <1>1, <1>3, <1>4, <1>5, <1>6, <1>7

LEMMA Wider ==
  /\ \A S : \A R \in SUBSET S : \A n : Exactly(R, n) \in SUBSET Exactly(S, n)
  /\ \A S : \A R \in SUBSET S : \A n : Exactly(R, n) \in SUBSET Seq(S)
  /\ \A S : \A R \in SUBSET S : \A n : NamedValues(R, n) \in SUBSET NamedValues(S, n)
  /\ \A S : <<>> \in Exactly(S, 0)
  <1>1. \A S : \A R \in SUBSET S : Seq(R) \in SUBSET Seq(S)
    OBVIOUS
  <1>2. \A S : <<>> \in Exactly(S, 0)
    BY DEF Exactly
  <1>3. \A S : \A R \in SUBSET S : \A n : NamedValues(R, n) \in SUBSET NamedValues(S, n)
    BY DEF NamedValues
  <1> QED BY <1>1, <1>2, <1>3 DEF Exactly

RuleNames ==
  {"sysClause", "globalDecl", "componentDecl", "startBlock", "startPair", "specClause", "importDecl",
   "importSpec", "importPath", "declaration", "constDecl", "constSpec", "identList", "constants", "nil",
   "expressionList", "structDecl", "structType", "sfProperties", "comProperties", "structProperties",
   "initDecl", "block", "statementList", "statement", "simpleStmt", "incDecStmt", "stateChange",
   "accessHistory", "assertion", "assumption", "temporal", "filter", "invariant", "assignment",
   "emptyStmt", "ifStmt", "ifStmtRun", "ifStmtState", "forStmt", "rounds", "paramCall", "stateBlock",
   "stateStep", "runBlock", "runStep", "solvable", "expression", "operand", "operandName", "prefix",
   "numeric", "integer", "negative", "float_", "string_", "bool_", "functionLit", "stateLit"}

LEMMA NamesOfRules == RuleNames = DOMAIN Rules \ Files /\ Files \subseteq DOMAIN Rules
  BY DEF RuleNames, Rules, Files

\* The forms of alternatives: a context without a handler and with one child, and
\* contexts with a handler and with no child, one, two, any number.
LEMMA PassFits ==
  ASSUME NEW rule, NEW label, label \notin Handled \cup {"Imported", "Spec", "SysSpec"}, NEW t \in Nat, NEW k \in Nat,
         NEW c \in RuleNames, Yield[c] \subseteq Yield[rule]
  PROVE  AltFits(rule, Alt(label, t, <<c>>, k))
  <1>1. PICK alt : alt = Alt(label, t, <<c>>, k)
    OBVIOUS
  <1>2. alt.label = label /\ alt.tokens = t /\ alt.body = <<c>> /\ alt.cost = k
    BY <1>1 DEF Alt
  <1>3. c \in DOMAIN Rules \ Files /\ <<c>> \in Seq(DOMAIN Rules \ Files)
    BY NamesOfRules
  <1>4. Fits(<<c>>, Yield[rule])
    BY <1>3, FitsOne
  <1>5. AltFits(rule, alt)
    BY <1>2, <1>3, <1>4 DEF AltFits, Left
  <1> QED BY <1>1, <1>5

LEMMA HandledFits ==
  ASSUME NEW rule, NEW label \in Handled, label \in {"Spec", "SysSpec"} => rule \in Files, NEW t \in Nat, NEW k \in Nat,
         NEW body \in Seq(RuleNames), NEW L, Fits(body, L), Takes(Alt(label, t, body, k))[label] = L,
         NEW M, Makes[label] = M, M \subseteq Yield[rule]
  PROVE  AltFits(rule, Alt(label, t, body, k))
  <1>1. PICK alt : alt = Alt(label, t, body, k)
    OBVIOUS
  <1>2. alt.label = label /\ alt.tokens = t /\ alt.body = body /\ alt.cost = k
    BY <1>1 DEF Alt
  <1>3. body \in Seq(DOMAIN Rules \ Files) /\ label # "Imported"
    BY NamesOfRules DEF Handled
  <1>4. AltFits(rule, alt)
    BY <1>1, <1>2, <1>3, Zenon DEF AltFits, Left
  <1> QED BY <1>1, <1>4

\* Counts of an alternative.
LEMMA WidthOf ==
  \A label, t, k :
    /\ Width(Alt(label, t, <<>>, k)) = t + 0
    /\ \A c : Width(Alt(label, t, <<c>>, k)) = t + 1
    /\ \A c, d : Width(Alt(label, t, <<c, d>>, k)) = t + 2
    /\ \A c, d, e : Width(Alt(label, t, <<c, d, e>>, k)) = t + 3
    /\ \A n \in Nat : \A r : Width(Alt(label, t, Times(r, n), k)) = t + n
  <1> TAKE label, t, k
  <1>1. /\ Len(<<>>) = 0
        /\ \A c : Len(<<c>>) = 1
        /\ \A c, d : Len(<<c, d>>) = 2
        /\ \A c, d, e : Len(<<c, d, e>>) = 3
    OBVIOUS
  <1>2. \A body : Width(Alt(label, t, body, k)) = t + Len(body)
    BY DEF Width, Alt
  <1>3. ASSUME NEW n \in Nat, NEW r PROVE Width(Alt(label, t, Times(r, n), k)) = t + n
    BY <1>2, Repeated
  <1>4. /\ Width(Alt(label, t, <<>>, k)) = t + 0
        /\ \A c : Width(Alt(label, t, <<c>>, k)) = t + 1
        /\ \A c, d : Width(Alt(label, t, <<c, d>>, k)) = t + 2
        /\ \A c, d, e : Width(Alt(label, t, <<c, d, e>>, k)) = t + 3
    BY <1>1, <1>2, Zenon
  <1> QED BY <1>3, <1>4

LEMMA ChildrenOf ==
  \A label, t, k, r :
    /\ Children(Alt(label, t, <<>>, k), r) = 0
    /\ \A c : c = r => Children(Alt(label, t, <<c>>, k), r) = 1
    /\ \A c : c # r => Children(Alt(label, t, <<c>>, k), r) = 0
    /\ \A c, d : c # r /\ d = r => Children(Alt(label, t, <<c, d>>, k), r) = 1
    /\ \A c, d : c # r /\ d # r => Children(Alt(label, t, <<c, d>>, k), r) = 0
    /\ \A n \in Nat : Children(Alt(label, t, Times(r, n), k), r) = n
  <1> TAKE label, t, k, r
  <1>1. \A body : Children(Alt(label, t, body, k), r) = Cardinality({i \in DOMAIN body : body[i] = r})
    BY DEF Children, Alt
  <1>2. Cardinality({}) = 0 /\ Cardinality({1}) = 1 /\ Cardinality({2}) = 1
    BY FS_EmptySet, FS_Singleton
  <1>3. {i \in DOMAIN <<>> : <<>>[i] = r} = {}
    OBVIOUS
  <1>4. ASSUME NEW c PROVE /\ c = r => {i \in DOMAIN <<c>> : <<c>>[i] = r} = {1}
                           /\ c # r => {i \in DOMAIN <<c>> : <<c>>[i] = r} = {}
    OBVIOUS
  <1>5. ASSUME NEW c, NEW d
        PROVE  /\ c # r /\ d = r => {i \in DOMAIN <<c, d>> : <<c, d>>[i] = r} = {2}
               /\ c # r /\ d # r => {i \in DOMAIN <<c, d>> : <<c, d>>[i] = r} = {}
    OBVIOUS
  <1>6. ASSUME NEW n \in Nat PROVE Children(Alt(label, t, Times(r, n), k), r) = n
    <2>1. PICK alt : alt = Alt(label, t, Times(r, n), k)
      OBVIOUS
    <2>2. alt.body = Times(r, n)
      BY <2>1 DEF Alt
    <2> QED BY <2>1, <2>2, CountAll
  <1> QED BY <1>1, <1>2, <1>3, <1>4, <1>5, <1>6


LEMMA FitsBoth ==
  ASSUME NEW S \in SUBSET Nodes, NEW c, NEW d, <<c, d>> \in Seq(RuleNames),
         Yield[c] \subseteq Exactly(S, 1), Yield[d] \subseteq Exactly(S, 1)
  PROVE  Fits(<<c, d>>, Exactly(S, 2))
  <1>0. Len(<<c, d>>) = 2 /\ DOMAIN <<c, d>> = {1, 2} /\ <<c, d>>[1] = c /\ <<c, d>>[2] = d
    OBVIOUS
  <1>1. PICK body : /\ body = <<c, d>> /\ Len(body) = 2 /\ DOMAIN body = {1, 2} /\ body[1] = c /\ body[2] = d
    BY <1>0, Zenon
  <1>2. body \in Seq(DOMAIN Rules)
    <2>1. body \in Seq(RuleNames) /\ RuleNames \subseteq DOMAIN Rules
      BY <1>1, NamesOfRules
    <2> QED BY <2>1
  <1>3. \A i \in DOMAIN body : Yield[body[i]] \subseteq Exactly(S, 1)
    BY <1>1
  <1>4. Exactly(S, Len(body)) \subseteq Exactly(S, 2)
    BY <1>1
  <1>5. Fits(body, Exactly(S, 2))
    BY <1>2, <1>3, <1>4, FitsAll
  <1> QED BY <1>1, <1>5

LEMMA Fits_sysClause == \A alt \in Rules.sysClause : ~Miscounted(alt) => AltFits("sysClause", alt)
  <1>1. AltFits("sysClause", Alt("SysClause", 3, <<>>, 0))
    <2>1. Takes(Alt("SysClause", 3, <<>>, 0)).SysClause = Exactly(Nodes, 0) /\ Makes.SysClause = Exactly(Statements, 1)
      BY WidthOf, ChildrenOf DEF Takes, Makes
    <2>2. Fits(<<>>, Exactly(Nodes, 0))
      BY Wider, FitsNone
    <2>3. Exactly(Statements, 1) \subseteq Yield.sysClause
      BY Inclusions, Wider DEF Yield
    <2>4. <<>> \in Seq(RuleNames) /\ "SysClause" \in Handled /\ 3 \in Nat
      BY DEF Handled
    <2> QED BY <2>1, <2>2, <2>3, <2>4, HandledFits
  <1> QED BY <1>1 DEF Rules, sysClause, Only

LEMMA Fits_globalDecl == \A alt \in Rules.globalDecl : ~Miscounted(alt) => AltFits("globalDecl", alt)
  <1>1. AltFits("globalDecl", Alt("GlobalDecl", 4, <<"operand">>, 0))
    <2>0. Width(Alt("GlobalDecl", 4, <<"operand">>, 0)) = 5
      <3>1. Width(Alt("GlobalDecl", 4, <<"operand">>, 0)) = 4 + 1
        BY WidthOf
      <3> QED BY <3>1
    <2>1. Takes(Alt("GlobalDecl", 4, <<"operand">>, 0)).GlobalDecl = Exactly(Operands, 1) /\ Makes.GlobalDecl = Exactly(Statements, 1)
      BY <2>0 DEF Takes, Makes
    <2>2. Yield.operand \subseteq Exactly(Operands, 1)
      BY Inclusions, Wider DEF Yield
    <2>3. <<"operand">> \in Seq(RuleNames) /\ "operand" \in DOMAIN Rules /\ "GlobalDecl" \in Handled
      BY NamesOfRules DEF RuleNames, Handled
    <2>4. Fits(<<"operand">>, Exactly(Operands, 1))
      BY <2>2, <2>3, FitsOne
    <2>5. Exactly(Statements, 1) \subseteq Yield.globalDecl
      BY Inclusions, Wider DEF Yield
    <2> QED BY <2>1, <2>3, <2>4, <2>5, HandledFits
  <1> QED BY <1>1 DEF Rules, globalDecl, Only

LEMMA Fits_startPair == \A alt \in Rules.startPair : ~Miscounted(alt) => AltFits("startPair", alt)
  <1>1. AltFits("startPair", Alt("StartPair", 3, <<>>, 0))
    <2>1. Takes(Alt("StartPair", 3, <<>>, 0)).StartPair = Exactly(Nodes, 0) /\ Makes.StartPair = Exactly(Of({"Pair"}), 1)
      BY WidthOf, ChildrenOf DEF Takes, Makes
    <2>2. Fits(<<>>, Exactly(Nodes, 0))
      BY Wider, FitsNone
    <2>3. Exactly(Of({"Pair"}), 1) \subseteq Yield.startPair
      BY Inclusions, Wider DEF Yield
    <2>4. <<>> \in Seq(RuleNames) /\ "StartPair" \in Handled /\ 3 \in Nat
      BY DEF Handled
    <2> QED BY <2>1, <2>2, <2>3, <2>4, HandledFits
  <1> QED BY <1>1 DEF Rules, startPair, Only

LEMMA Fits_specClause == \A alt \in Rules.specClause : ~Miscounted(alt) => AltFits("specClause", alt)
  <1>1. AltFits("specClause", Alt("SpecClause", 3, <<>>, 0))
    <2>1. Takes(Alt("SpecClause", 3, <<>>, 0)).SpecClause = Exactly(Nodes, 0) /\ Makes.SpecClause = Exactly(Statements, 1)
      BY WidthOf, ChildrenOf DEF Takes, Makes
    <2>2. Fits(<<>>, Exactly(Nodes, 0))
      BY Wider, FitsNone
    <2>3. Exactly(Statements, 1) \subseteq Yield.specClause
      BY Inclusions, Wider DEF Yield
    <2>4. <<>> \in Seq(RuleNames) /\ "SpecClause" \in Handled /\ 3 \in Nat
      BY DEF Handled
    <2> QED BY <2>1, <2>2, <2>3, <2>4, HandledFits
  <1> QED BY <1>1 DEF Rules, specClause, Only

LEMMA Fits_importPath == \A alt \in Rules.importPath : ~Miscounted(alt) => AltFits("importPath", alt)
  <1>1. AltFits("importPath", Alt("ImportPath", 0, <<"string_">>, 0))
    <2>1. Yield.string_ \subseteq Yield.importPath
      BY Inclusions, Wider DEF Yield
    <2> QED BY <2>1, PassFits, Zenon DEF Handled, RuleNames
  <1> QED BY <1>1 DEF Rules, importPath, Only

LEMMA Fits_declaration == \A alt \in Rules.declaration : ~Miscounted(alt) => AltFits("declaration", alt)
  <1>1. AltFits("declaration", Alt("Declaration", 0, <<"structDecl">>, 0))
    <2>1. Yield.structDecl \subseteq Yield.declaration
      BY Inclusions, Wider DEF Yield
    <2> QED BY <2>1, PassFits, Zenon DEF Handled, RuleNames
  <1>2. AltFits("declaration", Alt("Declaration", 0, <<"constDecl">>, 1))
    <2>1. Yield.constDecl \subseteq Yield.declaration
      BY Inclusions, Wider DEF Yield
    <2> QED BY <2>1, PassFits, Zenon DEF Handled, RuleNames
  <1>3. AltFits("declaration", Alt("Declaration", 0, <<"assertion">>, 1))
    <2>1. Yield.assertion \subseteq Yield.declaration
      BY Inclusions, Wider DEF Yield
    <2> QED BY <2>1, PassFits, Zenon DEF Handled, RuleNames
  <1>4. AltFits("declaration", Alt("Declaration", 0, <<"assumption">>, 1))
    <2>1. Yield.assumption \subseteq Yield.declaration
      BY Inclusions, Wider DEF Yield
    <2> QED BY <2>1, PassFits, Zenon DEF Handled, RuleNames
  <1> QED BY <1>1, <1>2, <1>3, <1>4 DEF Rules, declaration

LEMMA Fits_constants == \A alt \in Rules.constants : ~Miscounted(alt) => AltFits("constants", alt)
  <1>1. AltFits("constants", Alt("Constants", 0, <<"numeric">>, 0))
    <2>1. Yield.numeric \subseteq Yield.constants
      BY Inclusions, Wider DEF Yield
    <2> QED BY <2>1, PassFits, Zenon DEF Handled, RuleNames
  <1>2. ASSUME NEW c \in {"string_", "bool_", "solvable", "nil"} PROVE AltFits("constants", Alt("Constants", 0, <<c>>, 1))
    <2>1. Yield[c] \subseteq Yield.constants
      BY Inclusions, Wider DEF Yield
    <2>2. c \in RuleNames
      BY DEF RuleNames
    <2> QED BY <2>1, <2>2, PassFits DEF Handled
  <1> QED BY <1>1, <1>2 DEF Rules, constants

LEMMA Fits_nil == \A alt \in Rules.nil : ~Miscounted(alt) => AltFits("nil", alt)
  <1>1. AltFits("nil", Alt("Nil", 1, <<>>, 0))
    <2>1. Takes(Alt("Nil", 1, <<>>, 0)).Nil = Exactly(Nodes, 0) /\ Makes.Nil = Exactly(Literals, 1)
      BY WidthOf, ChildrenOf DEF Takes, Makes
    <2>2. Fits(<<>>, Exactly(Nodes, 0))
      BY Wider, FitsNone
    <2>3. Exactly(Literals, 1) \subseteq Yield.nil
      BY Inclusions, Wider DEF Yield
    <2>4. <<>> \in Seq(RuleNames) /\ "Nil" \in Handled /\ 1 \in Nat
      BY DEF Handled
    <2> QED BY <2>1, <2>2, <2>3, <2>4, HandledFits
  <1> QED BY <1>1 DEF Rules, nil, Only

LEMMA Fits_structDecl == \A alt \in Rules.structDecl : ~Miscounted(alt) => AltFits("structDecl", alt)
  <1>1. AltFits("structDecl", Alt("StructDecl", 4, <<"structType">>, 0))
    <2>0. Width(Alt("StructDecl", 4, <<"structType">>, 0)) = 5
      <3>1. Width(Alt("StructDecl", 4, <<"structType">>, 0)) = 4 + 1
        BY WidthOf
      <3> QED BY <3>1
    <2>1. Takes(Alt("StructDecl", 4, <<"structType">>, 0)).StructDecl = Exactly(Operands, 1) /\ Makes.StructDecl = Exactly(Statements, 1)
      BY <2>0 DEF Takes, Makes
    <2>2. Yield.structType \subseteq Exactly(Operands, 1)
      BY Inclusions, Wider DEF Yield
    <2>3. <<"structType">> \in Seq(RuleNames) /\ "structType" \in DOMAIN Rules /\ "StructDecl" \in Handled
      BY NamesOfRules DEF RuleNames, Handled
    <2>4. Fits(<<"structType">>, Exactly(Operands, 1))
      BY <2>2, <2>3, FitsOne
    <2>5. Exactly(Statements, 1) \subseteq Yield.structDecl
      BY Inclusions, Wider DEF Yield
    <2> QED BY <2>1, <2>3, <2>4, <2>5, HandledFits
  <1> QED BY <1>1 DEF Rules, structDecl, Only

LEMMA Fits_sfProperties == \A alt \in Rules.sfProperties : ~Miscounted(alt) => AltFits("sfProperties", alt)
  <1>1. AltFits("sfProperties", Alt("PropFunc", 2, <<"functionLit">>, 0))
    <2>0. Width(Alt("PropFunc", 2, <<"functionLit">>, 0)) = 3
      <3>1. Width(Alt("PropFunc", 2, <<"functionLit">>, 0)) = 2 + 1
        BY WidthOf
      <3> QED BY <3>1
    <2>1. Takes(Alt("PropFunc", 2, <<"functionLit">>, 0)).PropFunc = Exactly(Of({"Function"}), 1) /\ Makes.PropFunc = NamedValues(Values, 1)
      BY <2>0 DEF Takes, Makes
    <2>2. Yield.functionLit \subseteq Exactly(Of({"Function"}), 1)
      BY Inclusions, Wider DEF Yield
    <2>3. <<"functionLit">> \in Seq(RuleNames) /\ "functionLit" \in DOMAIN Rules /\ "PropFunc" \in Handled
      BY NamesOfRules DEF RuleNames, Handled
    <2>4. Fits(<<"functionLit">>, Exactly(Of({"Function"}), 1))
      BY <2>2, <2>3, FitsOne
    <2>5. NamedValues(Values, 1) \subseteq Yield.sfProperties
      BY Inclusions, Wider DEF Yield
    <2> QED BY <2>1, <2>3, <2>4, <2>5, HandledFits
  <1>2. AltFits("sfProperties", Alt("SfMisc", 0, <<"structProperties">>, 1))
    <2>1. Yield.structProperties \subseteq Yield.sfProperties
      BY Inclusions, Wider DEF Yield
    <2> QED BY <2>1, PassFits, Zenon DEF Handled, RuleNames
  <1> QED BY <1>1, <1>2 DEF Rules, sfProperties, PropFunc, SfMisc

LEMMA Fits_comProperties == \A alt \in Rules.comProperties : ~Miscounted(alt) => AltFits("comProperties", alt)
  <1>1. AltFits("comProperties", Alt("StateFunc", 2, <<"stateLit">>, 0))
    <2>0. Width(Alt("StateFunc", 2, <<"stateLit">>, 0)) = 3
      <3>1. Width(Alt("StateFunc", 2, <<"stateLit">>, 0)) = 2 + 1
        BY WidthOf
      <3> QED BY <3>1
    <2>1. Takes(Alt("StateFunc", 2, <<"stateLit">>, 0)).StateFunc = Exactly(FullFunctions, 1) /\ Makes.StateFunc = NamedValues(FullValues, 1)
      BY <2>0 DEF Takes, Makes
    <2>2. Yield.stateLit \subseteq Exactly(FullFunctions, 1)
      BY Inclusions, Wider DEF Yield
    <2>3. <<"stateLit">> \in Seq(RuleNames) /\ "stateLit" \in DOMAIN Rules /\ "StateFunc" \in Handled
      BY NamesOfRules DEF RuleNames, Handled
    <2>4. Fits(<<"stateLit">>, Exactly(FullFunctions, 1))
      BY <2>2, <2>3, FitsOne
    <2>5. NamedValues(FullValues, 1) \subseteq Yield.comProperties
      BY Inclusions, Wider DEF Yield
    <2> QED BY <2>1, <2>3, <2>4, <2>5, HandledFits
  <1>2. AltFits("comProperties", Alt("CompMisc", 0, <<"structProperties">>, 1))
    <2>1. Yield.structProperties \subseteq Yield.comProperties
      BY Inclusions, Wider DEF Yield
    <2> QED BY <2>1, PassFits, Zenon DEF Handled, RuleNames
  <1> QED BY <1>1, <1>2 DEF Rules, comProperties, StateFunc, CompMisc

LEMMA Fits_structProperties == \A alt \in Rules.structProperties : ~Miscounted(alt) => AltFits("structProperties", alt)
  <1>1. AltFits("structProperties", Alt("PropInt", 2, <<"numeric">>, 0))
    <2>0. Width(Alt("PropInt", 2, <<"numeric">>, 0)) = 3
      <3>1. Width(Alt("PropInt", 2, <<"numeric">>, 0)) = 2 + 1
        BY WidthOf
      <3> QED BY <3>1
    <2>1. Takes(Alt("PropInt", 2, <<"numeric">>, 0)).PropInt = Exactly(Operands, 1) /\ Makes.PropInt = NamedValues(Operands, 1)
      BY <2>0 DEF Takes, Makes
    <2>2. Yield.numeric \subseteq Exactly(Operands, 1)
      BY Inclusions, Wider DEF Yield
    <2>3. <<"numeric">> \in Seq(RuleNames) /\ "numeric" \in DOMAIN Rules /\ "PropInt" \in Handled
      BY NamesOfRules DEF RuleNames, Handled
    <2>4. Fits(<<"numeric">>, Exactly(Operands, 1))
      BY <2>2, <2>3, FitsOne
    <2>5. NamedValues(Operands, 1) \subseteq Yield.structProperties
      BY Inclusions, Wider DEF Yield
    <2> QED BY <2>1, <2>3, <2>4, <2>5, HandledFits
  <1>2. AltFits("structProperties", Alt("PropString", 2, <<"string_">>, 1))
    <2>0. Width(Alt("PropString", 2, <<"string_">>, 1)) = 3
      <3>1. Width(Alt("PropString", 2, <<"string_">>, 1)) = 2 + 1
        BY WidthOf
      <3> QED BY <3>1
    <2>1. Takes(Alt("PropString", 2, <<"string_">>, 1)).PropString = Exactly(Operands, 1) /\ Makes.PropString = NamedValues(Operands, 1)
      BY <2>0 DEF Takes, Makes
    <2>2. Yield.string_ \subseteq Exactly(Operands, 1)
      BY Inclusions, Wider DEF Yield
    <2>3. <<"string_">> \in Seq(RuleNames) /\ "string_" \in DOMAIN Rules /\ "PropString" \in Handled
      BY NamesOfRules DEF RuleNames, Handled
    <2>4. Fits(<<"string_">>, Exactly(Operands, 1))
      BY <2>2, <2>3, FitsOne
    <2>5. NamedValues(Operands, 1) \subseteq Yield.structProperties
      BY Inclusions, Wider DEF Yield
    <2> QED BY <2>1, <2>3, <2>4, <2>5, HandledFits
  <1>3. AltFits("structProperties", Alt("PropBool", 2, <<"bool_">>, 1))
    <2>0. Width(Alt("PropBool", 2, <<"bool_">>, 1)) = 3
      <3>1. Width(Alt("PropBool", 2, <<"bool_">>, 1)) = 2 + 1
        BY WidthOf
      <3> QED BY <3>1
    <2>1. Takes(Alt("PropBool", 2, <<"bool_">>, 1)).PropBool = Exactly(Operands, 1) /\ Makes.PropBool = NamedValues(Operands, 1)
      BY <2>0 DEF Takes, Makes
    <2>2. Yield.bool_ \subseteq Exactly(Operands, 1)
      BY Inclusions, Wider DEF Yield
    <2>3. <<"bool_">> \in Seq(RuleNames) /\ "bool_" \in DOMAIN Rules /\ "PropBool" \in Handled
      BY NamesOfRules DEF RuleNames, Handled
    <2>4. Fits(<<"bool_">>, Exactly(Operands, 1))
      BY <2>2, <2>3, FitsOne
    <2>5. NamedValues(Operands, 1) \subseteq Yield.structProperties
      BY Inclusions, Wider DEF Yield
    <2> QED BY <2>1, <2>3, <2>4, <2>5, HandledFits
  <1>4. ASSUME NEW c \in {"operandName", "prefix"} PROVE AltFits("structProperties", Alt("PropVar", 2, <<c>>, 1))
    <2>0. Width(Alt("PropVar", 2, <<c>>, 1)) = 3
      <3>1. Width(Alt("PropVar", 2, <<c>>, 1)) = 2 + 1
        BY WidthOf
      <3> QED BY <3>1
    <2>1. Takes(Alt("PropVar", 2, <<c>>, 1)).PropVar = Exactly(Operands, 1) /\ Makes.PropVar = NamedValues(Operands, 1)
      BY <2>0 DEF Takes, Makes
    <2>2. Yield[c] \subseteq Exactly(Operands, 1)
      BY Inclusions, Wider DEF Yield
    <2>3. <<c>> \in Seq(RuleNames) /\ c \in DOMAIN Rules /\ "PropVar" \in Handled
      BY NamesOfRules DEF RuleNames, Handled
    <2>4. Fits(<<c>>, Exactly(Operands, 1))
      BY <2>2, <2>3, FitsOne
    <2>5. NamedValues(Operands, 1) \subseteq Yield.structProperties
      BY Inclusions, Wider DEF Yield
    <2> QED BY <2>1, <2>3, <2>4, <2>5, HandledFits
  <1>5. AltFits("structProperties", Alt("PropSolvable", 2, <<"solvable">>, 1))
    <2>0. Width(Alt("PropSolvable", 2, <<"solvable">>, 1)) = 3
      <3>1. Width(Alt("PropSolvable", 2, <<"solvable">>, 1)) = 2 + 1
        BY WidthOf
      <3> QED BY <3>1
    <2>1. Takes(Alt("PropSolvable", 2, <<"solvable">>, 1)).PropSolvable = Exactly(Operands, 1) /\ Makes.PropSolvable = NamedValues(Operands, 1)
      BY <2>0 DEF Takes, Makes
    <2>2. Yield.solvable \subseteq Exactly(Operands, 1)
      BY Inclusions, Wider DEF Yield
    <2>3. <<"solvable">> \in Seq(RuleNames) /\ "solvable" \in DOMAIN Rules /\ "PropSolvable" \in Handled
      BY NamesOfRules DEF RuleNames, Handled
    <2>4. Fits(<<"solvable">>, Exactly(Operands, 1))
      BY <2>2, <2>3, FitsOne
    <2>5. NamedValues(Operands, 1) \subseteq Yield.structProperties
      BY Inclusions, Wider DEF Yield
    <2> QED BY <2>1, <2>3, <2>4, <2>5, HandledFits
  <1>6. AltFits("structProperties", Alt("PropSolvable", 1, <<>>, 1))
    <2>1. Takes(Alt("PropSolvable", 1, <<>>, 1)).PropSolvable = Exactly(Operands, 0) /\ Makes.PropSolvable = NamedValues(Operands, 1)
      BY WidthOf, ChildrenOf DEF Takes, Makes
    <2>2. Fits(<<>>, Exactly(Operands, 0))
      BY Wider, FitsNone
    <2>3. NamedValues(Operands, 1) \subseteq Yield.structProperties
      BY Inclusions, Wider DEF Yield
    <2>4. <<>> \in Seq(RuleNames) /\ "PropSolvable" \in Handled /\ 1 \in Nat
      BY DEF Handled
    <2> QED BY <2>1, <2>2, <2>3, <2>4, HandledFits
  <1> QED BY <1>1, <1>2, <1>3, <1>4, <1>5, <1>6 DEF Rules, structProperties, PropInt, PropString, PropBool, PropVar, PropSolvable

LEMMA Fits_initDecl == \A alt \in Rules.initDecl : ~Miscounted(alt) => AltFits("initDecl", alt)
  <1>1. AltFits("initDecl", Alt("InitDecl", 2, <<"operand">>, 0))
    <2>0. Width(Alt("InitDecl", 2, <<"operand">>, 0)) = 3
      <3>1. Width(Alt("InitDecl", 2, <<"operand">>, 0)) = 2 + 1
        BY WidthOf
      <3> QED BY <3>1
    <2>1. Takes(Alt("InitDecl", 2, <<"operand">>, 0)).InitDecl = Exactly(Operands, 1) /\ Makes.InitDecl = Exactly(Operands, 1)
      BY <2>0 DEF Takes, Makes
    <2>2. Yield.operand \subseteq Exactly(Operands, 1)
      BY Inclusions, Wider DEF Yield
    <2>3. <<"operand">> \in Seq(RuleNames) /\ "operand" \in DOMAIN Rules /\ "InitDecl" \in Handled
      BY NamesOfRules DEF RuleNames, Handled
    <2>4. Fits(<<"operand">>, Exactly(Operands, 1))
      BY <2>2, <2>3, FitsOne
    <2>5. Exactly(Operands, 1) \subseteq Yield.initDecl
      BY Inclusions, Wider DEF Yield
    <2> QED BY <2>1, <2>3, <2>4, <2>5, HandledFits
  <1> QED BY <1>1 DEF Rules, initDecl, Only

LEMMA Fits_block == \A alt \in Rules.block : ~Miscounted(alt) => AltFits("block", alt)
  <1>1. AltFits("block", Alt("Block", 2, <<"statementList">>, 0))
    <2>0. Width(Alt("Block", 2, <<"statementList">>, 0)) = 3
      <3>1. Width(Alt("Block", 2, <<"statementList">>, 0)) = 2 + 1
        BY WidthOf
      <3> QED BY <3>1
    <2>1. Takes(Alt("Block", 2, <<"statementList">>, 0)).Block = Exactly(Blocks, 1) /\ Makes.Block = Exactly(Blocks, 1)
      BY <2>0 DEF Takes, Makes
    <2>2. Yield.statementList \subseteq Exactly(Blocks, 1)
      BY Inclusions, Wider DEF Yield
    <2>3. <<"statementList">> \in Seq(RuleNames) /\ "statementList" \in DOMAIN Rules /\ "Block" \in Handled
      BY NamesOfRules DEF RuleNames, Handled
    <2>4. Fits(<<"statementList">>, Exactly(Blocks, 1))
      BY <2>2, <2>3, FitsOne
    <2>5. Exactly(Blocks, 1) \subseteq Yield.block
      BY Inclusions, Wider DEF Yield
    <2> QED BY <2>1, <2>3, <2>4, <2>5, HandledFits
  <1>2. AltFits("block", Alt("Block", 2, <<>>, 1))
    <2>1. Takes(Alt("Block", 2, <<>>, 1)).Block = Exactly(Blocks, 0) /\ Makes.Block = Exactly(Blocks, 1)
      BY WidthOf, ChildrenOf DEF Takes, Makes
    <2>2. Fits(<<>>, Exactly(Blocks, 0))
      BY Wider, FitsNone
    <2>3. Exactly(Blocks, 1) \subseteq Yield.block
      BY Inclusions, Wider DEF Yield
    <2>4. <<>> \in Seq(RuleNames) /\ "Block" \in Handled /\ 2 \in Nat
      BY DEF Handled
    <2> QED BY <2>1, <2>2, <2>3, <2>4, HandledFits
  <1> QED BY <1>1, <1>2 DEF Rules, block

LEMMA Fits_incDecStmt == \A alt \in Rules.incDecStmt : ~Miscounted(alt) => AltFits("incDecStmt", alt)
  <1>1. AltFits("incDecStmt", Alt("IncDecStmt", 1, <<"expression">>, 0))
    <2>0. Width(Alt("IncDecStmt", 1, <<"expression">>, 0)) = 2
      <3>1. Width(Alt("IncDecStmt", 1, <<"expression">>, 0)) = 1 + 1
        BY WidthOf
      <3> QED BY <3>1
    <2>1. Takes(Alt("IncDecStmt", 1, <<"expression">>, 0)).IncDecStmt = Exactly(Operands, 1) /\ Makes.IncDecStmt = Exactly(Operands, 1)
      BY <2>0 DEF Takes, Makes
    <2>2. Yield.expression \subseteq Exactly(Operands, 1)
      BY Inclusions, Wider DEF Yield
    <2>3. <<"expression">> \in Seq(RuleNames) /\ "expression" \in DOMAIN Rules /\ "IncDecStmt" \in Handled
      BY NamesOfRules DEF RuleNames, Handled
    <2>4. Fits(<<"expression">>, Exactly(Operands, 1))
      BY <2>2, <2>3, FitsOne
    <2>5. Exactly(Operands, 1) \subseteq Yield.incDecStmt
      BY Inclusions, Wider DEF Yield
    <2> QED BY <2>1, <2>3, <2>4, <2>5, HandledFits
  <1> QED BY <1>1 DEF Rules, incDecStmt, Only

LEMMA Fits_stateChange == \A alt \in Rules.stateChange : ~Miscounted(alt) => AltFits("stateChange", alt)
  <1>1. AltFits("stateChange", Alt("Advance", 3, <<"paramCall">>, 0))
    <2>0. Width(Alt("Advance", 3, <<"paramCall">>, 0)) = 4
      <3>1. Width(Alt("Advance", 3, <<"paramCall">>, 0)) = 3 + 1
        BY WidthOf
      <3> QED BY <3>1
    <2>1. Takes(Alt("Advance", 3, <<"paramCall">>, 0)).Advance = Exactly(Of({"ParameterCall"}), 1) /\ Makes.Advance = Exactly(Changes, 1)
      BY <2>0 DEF Takes, Makes
    <2>2. Yield.paramCall \subseteq Exactly(Of({"ParameterCall"}), 1)
      BY Inclusions, Wider DEF Yield
    <2>3. <<"paramCall">> \in Seq(RuleNames) /\ "paramCall" \in DOMAIN Rules /\ "Advance" \in Handled
      BY NamesOfRules DEF RuleNames, Handled
    <2>4. Fits(<<"paramCall">>, Exactly(Of({"ParameterCall"}), 1))
      BY <2>2, <2>3, FitsOne
    <2>5. Exactly(Changes, 1) \subseteq Yield.stateChange
      BY Inclusions, Wider DEF Yield
    <2> QED BY <2>1, <2>3, <2>4, <2>5, HandledFits
  <1>2. AltFits("stateChange", Alt("Stay", 3, <<>>, 1))
    <2>1. Takes(Alt("Stay", 3, <<>>, 1)).Stay = Exactly(Nodes, 0) /\ Makes.Stay = Exactly(Changes, 1)
      BY WidthOf, ChildrenOf DEF Takes, Makes
    <2>2. Fits(<<>>, Exactly(Nodes, 0))
      BY Wider, FitsNone
    <2>3. Exactly(Changes, 1) \subseteq Yield.stateChange
      BY Inclusions, Wider DEF Yield
    <2>4. <<>> \in Seq(RuleNames) /\ "Stay" \in Handled /\ 3 \in Nat
      BY DEF Handled
    <2> QED BY <2>1, <2>2, <2>3, <2>4, HandledFits
  <1>3. AltFits("stateChange", Alt("BuiltinInfix", 1, <<"stateChange", "stateChange">>, 1))
    <2>1. Takes(Alt("BuiltinInfix", 1, <<"stateChange", "stateChange">>, 1)).BuiltinInfix = Exactly(Changes, 2) /\ Makes.BuiltinInfix = Exactly(Changes, 1)
      BY WidthOf DEF Takes, Makes
    <2>2. Yield.stateChange \subseteq Exactly(Changes, 1) /\ Yield.stateChange \subseteq Exactly(Changes, 1) /\ Changes \in SUBSET Nodes
      BY Inclusions, Wider DEF Yield
    <2>3. <<"stateChange", "stateChange">> \in Seq(RuleNames) /\ "BuiltinInfix" \in Handled
      BY DEF RuleNames, Handled
    <2>4. Fits(<<"stateChange", "stateChange">>, Exactly(Changes, 2))
      BY <2>2, <2>3, FitsBoth
    <2>5. Exactly(Changes, 1) \subseteq Yield.stateChange
      BY Inclusions, Wider DEF Yield
    <2> QED BY <2>1, <2>3, <2>4, <2>5, HandledFits
  <1> QED BY <1>1, <1>2, <1>3 DEF Rules, stateChange, Builtins, BuiltinInfix

LEMMA Fits_filter == \A alt \in Rules.filter : ~Miscounted(alt) => AltFits("filter", alt)
  <1>1. AltFits("filter", Alt("Temporal", 1, <<"integer">>, 0))
    <2>1. Yield.integer \subseteq Yield.filter
      BY Inclusions, Wider DEF Yield
    <2> QED BY <2>1, PassFits, Zenon DEF Handled, RuleNames
  <1> QED BY <1>1 DEF Rules, filter, Only

LEMMA Fits_invariant == \A alt \in Rules.invariant : ~Miscounted(alt) => AltFits("invariant", alt)
  <1>1. AltFits("invariant", Alt("Invar", 0, <<"expression">>, 0))
    <2>1. Yield.expression \subseteq Yield.invariant
      BY Inclusions, Wider DEF Yield
    <2> QED BY <2>1, PassFits, Zenon DEF Handled, RuleNames
  <1>2. AltFits("invariant", Alt("StageInvariant", 2, <<"expression", "expression">>, 1))
    <2>1. Takes(Alt("StageInvariant", 2, <<"expression", "expression">>, 1)).StageInvariant = Exactly(Operands, 2) /\ Makes.StageInvariant = Exactly(Operands, 1)
      BY WidthOf DEF Takes, Makes
    <2>2. Yield.expression \subseteq Exactly(Operands, 1) /\ Yield.expression \subseteq Exactly(Operands, 1) /\ Operands \in SUBSET Nodes
      BY Inclusions, Wider DEF Yield
    <2>3. <<"expression", "expression">> \in Seq(RuleNames) /\ "StageInvariant" \in Handled
      BY DEF RuleNames, Handled
    <2>4. Fits(<<"expression", "expression">>, Exactly(Operands, 2))
      BY <2>2, <2>3, FitsBoth
    <2>5. Exactly(Operands, 1) \subseteq Yield.invariant
      BY Inclusions, Wider DEF Yield
    <2> QED BY <2>1, <2>3, <2>4, <2>5, HandledFits
  <1> QED BY <1>1, <1>2 DEF Rules, invariant, Invar, StageInvariant

LEMMA Fits_assignment == \A alt \in Rules.assignment : ~Miscounted(alt) => AltFits("assignment", alt)
  <1>1. AltFits("assignment", Alt("MiscAssign", 1, <<"expressionList", "expressionList">>, 0))
    <2>1. Takes(Alt("MiscAssign", 1, <<"expressionList", "expressionList">>, 0)).MiscAssign = Exactly(Operands, 2) /\ Makes.MiscAssign = Exactly(Operands, 1)
      BY WidthOf DEF Takes, Makes
    <2>2. Yield.expressionList \subseteq Exactly(Operands, 1) /\ Yield.expressionList \subseteq Exactly(Operands, 1) /\ Operands \in SUBSET Nodes
      BY Inclusions, Wider DEF Yield
    <2>3. <<"expressionList", "expressionList">> \in Seq(RuleNames) /\ "MiscAssign" \in Handled
      BY DEF RuleNames, Handled
    <2>4. Fits(<<"expressionList", "expressionList">>, Exactly(Operands, 2))
      BY <2>2, <2>3, FitsBoth
    <2>5. Exactly(Operands, 1) \subseteq Yield.assignment
      BY Inclusions, Wider DEF Yield
    <2> QED BY <2>1, <2>3, <2>4, <2>5, HandledFits
  <1>2. AltFits("assignment", Alt("FaultAssign", 1, <<"expressionList", "expressionList">>, 1))
    <2>1. Takes(Alt("FaultAssign", 1, <<"expressionList", "expressionList">>, 1)).FaultAssign = Exactly(Operands, 2) /\ Makes.FaultAssign = Exactly(Operands, 1)
      BY WidthOf DEF Takes, Makes
    <2>2. Yield.expressionList \subseteq Exactly(Operands, 1) /\ Yield.expressionList \subseteq Exactly(Operands, 1) /\ Operands \in SUBSET Nodes
      BY Inclusions, Wider DEF Yield
    <2>3. <<"expressionList", "expressionList">> \in Seq(RuleNames) /\ "FaultAssign" \in Handled
      BY DEF RuleNames, Handled
    <2>4. Fits(<<"expressionList", "expressionList">>, Exactly(Operands, 2))
      BY <2>2, <2>3, FitsBoth
    <2>5. Exactly(Operands, 1) \subseteq Yield.assignment
      BY Inclusions, Wider DEF Yield
    <2> QED BY <2>1, <2>3, <2>4, <2>5, HandledFits
  <1> QED BY <1>1, <1>2 DEF Rules, assignment, MiscAssign, FaultAssign

LEMMA Fits_forStmt == \A alt \in Rules.forStmt : ~Miscounted(alt) => AltFits("forStmt", alt)
  <1>1. ASSUME NEW e \in Maybe PROVE AltFits("forStmt", Alt("ForStmt", 2 + e, <<"rounds", "runBlock">>, Extra(e)))
    <2>1. Takes(Alt("ForStmt", 2 + e, <<"rounds", "runBlock">>, Extra(e))).ForStmt = Exactly(Nodes, 2) /\ Makes.ForStmt = Seq(Statements)
      BY WidthOf DEF Takes, Makes
    <2>2. Yield.rounds \subseteq Exactly(Nodes, 1) /\ Yield.runBlock \subseteq Exactly(Nodes, 1) /\ Nodes \in SUBSET Nodes
      BY Inclusions, Wider DEF Yield
    <2>3. <<"rounds", "runBlock">> \in Seq(RuleNames) /\ "ForStmt" \in Handled
      BY DEF RuleNames, Handled
    <2>4. Fits(<<"rounds", "runBlock">>, Exactly(Nodes, 2))
      BY <2>2, <2>3, FitsBoth
    <2>5. Seq(Statements) \subseteq Yield.forStmt
      BY Inclusions, Wider DEF Yield
    <2>6. 2 + e \in Nat /\ Extra(e) \in Nat
      BY DEF Maybe, Extra
    <2> QED BY <2>1, <2>3, <2>4, <2>5, <2>6, HandledFits
  <1> QED BY <1>1 DEF Rules, forStmt

LEMMA Fits_rounds == \A alt \in Rules.rounds : ~Miscounted(alt) => AltFits("rounds", alt)
  <1>1. AltFits("rounds", Alt("Rounds", 0, <<"integer">>, 0))
    <2>1. Yield.integer \subseteq Yield.rounds
      BY Inclusions, Wider DEF Yield
    <2> QED BY <2>1, PassFits, Zenon DEF Handled, RuleNames
  <1> QED BY <1>1 DEF Rules, rounds, Only

LEMMA Fits_paramCall == \A alt \in Rules.paramCall : ~Miscounted(alt) => AltFits("paramCall", alt)
  <1>1. AltFits("paramCall", Alt("ParamCall", 3, <<>>, 0))
    <2>1. Takes(Alt("ParamCall", 3, <<>>, 0)).ParamCall = Exactly(Nodes, 0) /\ Makes.ParamCall = Exactly(Of({"ParameterCall"}), 1)
      BY WidthOf, ChildrenOf DEF Takes, Makes
    <2>2. Fits(<<>>, Exactly(Nodes, 0))
      BY Wider, FitsNone
    <2>3. Exactly(Of({"ParameterCall"}), 1) \subseteq Yield.paramCall
      BY Inclusions, Wider DEF Yield
    <2>4. <<>> \in Seq(RuleNames) /\ "ParamCall" \in Handled /\ 3 \in Nat
      BY DEF Handled
    <2> QED BY <2>1, <2>2, <2>3, <2>4, HandledFits
  <1> QED BY <1>1 DEF Rules, paramCall, Only

LEMMA Fits_expression == \A alt \in Rules.expression : ~Miscounted(alt) => AltFits("expression", alt)
  <1>1. AltFits("expression", Alt("Expr", 0, <<"operand">>, 0))
    <2>1. Yield.operand \subseteq Yield.expression
      BY Inclusions, Wider DEF Yield
    <2> QED BY <2>1, PassFits, Zenon DEF Handled, RuleNames
  <1>2. AltFits("expression", Alt("Typed", 0, <<"solvable">>, 1))
    <2>1. Yield.solvable \subseteq Yield.expression
      BY Inclusions, Wider DEF Yield
    <2> QED BY <2>1, PassFits, Zenon DEF Handled, RuleNames
  <1>3. AltFits("expression", Alt("ExprPrefix", 0, <<"prefix">>, 1))
    <2>1. Yield.prefix \subseteq Yield.expression
      BY Inclusions, Wider DEF Yield
    <2> QED BY <2>1, PassFits, Zenon DEF Handled, RuleNames
  <1>4. AltFits("expression", Alt("LrExpr", 1, <<"expression", "expression">>, 1))
    <2>1. Takes(Alt("LrExpr", 1, <<"expression", "expression">>, 1)).LrExpr = Exactly(Operands, 2) /\ Makes.LrExpr = Exactly(Operands, 1)
      BY WidthOf DEF Takes, Makes
    <2>2. Yield.expression \subseteq Exactly(Operands, 1) /\ Yield.expression \subseteq Exactly(Operands, 1) /\ Operands \in SUBSET Nodes
      BY Inclusions, Wider DEF Yield
    <2>3. <<"expression", "expression">> \in Seq(RuleNames) /\ "LrExpr" \in Handled
      BY DEF RuleNames, Handled
    <2>4. Fits(<<"expression", "expression">>, Exactly(Operands, 2))
      BY <2>2, <2>3, FitsBoth
    <2>5. Exactly(Operands, 1) \subseteq Yield.expression
      BY Inclusions, Wider DEF Yield
    <2> QED BY <2>1, <2>3, <2>4, <2>5, HandledFits
  <1> QED BY <1>1, <1>2, <1>3, <1>4 DEF Rules, expression, Expr, Typed, ExprPrefix, LrExpr

LEMMA Fits_operand == \A alt \in Rules.operand : ~Miscounted(alt) => AltFits("operand", alt)
  <1>1. AltFits("operand", Alt("Operand", 0, <<"operandName">>, 0))
    <2>1. Yield.operandName \subseteq Yield.operand
      BY Inclusions, Wider DEF Yield
    <2> QED BY <2>1, PassFits, Zenon DEF Handled, RuleNames
  <1>2. AltFits("operand", Alt("Operand", 2, <<"expression">>, 1))
    <2>1. Yield.expression \subseteq Yield.operand
      BY Inclusions, Wider DEF Yield
    <2> QED BY <2>1, PassFits, Zenon DEF Handled, RuleNames
  <1>3. ASSUME NEW c \in {"nil", "numeric", "string_", "bool_", "accessHistory"} PROVE AltFits("operand", Alt("Operand", 0, <<c>>, 1))
    <2>1. Yield[c] \subseteq Yield.operand
      BY Inclusions, Wider DEF Yield
    <2>2. c \in RuleNames
      BY DEF RuleNames
    <2> QED BY <2>1, <2>2, PassFits DEF Handled
  <1> QED BY <1>1, <1>2, <1>3 DEF Rules, operand

LEMMA Fits_operandName == \A alt \in Rules.operandName : ~Miscounted(alt) => AltFits("operandName", alt)
  <1>1. AltFits("operandName", Alt("OpName", 1, <<>>, 0))
    <2>1. Takes(Alt("OpName", 1, <<>>, 0)).OpName = Exactly(Nodes, 0) /\ Makes.OpName = Exactly(Operands, 1)
      BY WidthOf, ChildrenOf DEF Takes, Makes
    <2>2. Fits(<<>>, Exactly(Nodes, 0))
      BY Wider, FitsNone
    <2>3. Exactly(Operands, 1) \subseteq Yield.operandName
      BY Inclusions, Wider DEF Yield
    <2>4. <<>> \in Seq(RuleNames) /\ "OpName" \in Handled /\ 1 \in Nat
      BY DEF Handled
    <2> QED BY <2>1, <2>2, <2>3, <2>4, HandledFits
  <1>2. AltFits("operandName", Alt("OpParam", 0, <<"paramCall">>, 1))
    <2>1. Yield.paramCall \subseteq Yield.operandName
      BY Inclusions, Wider DEF Yield
    <2> QED BY <2>1, PassFits, Zenon DEF Handled, RuleNames
  <1>3. AltFits("operandName", Alt("OpThis", 1, <<>>, 1))
    <2>1. Takes(Alt("OpThis", 1, <<>>, 1)).OpThis = Exactly(Nodes, 0) /\ Makes.OpThis = Exactly(Operands, 1)
      BY WidthOf, ChildrenOf DEF Takes, Makes
    <2>2. Fits(<<>>, Exactly(Nodes, 0))
      BY Wider, FitsNone
    <2>3. Exactly(Operands, 1) \subseteq Yield.operandName
      BY Inclusions, Wider DEF Yield
    <2>4. <<>> \in Seq(RuleNames) /\ "OpThis" \in Handled /\ 1 \in Nat
      BY DEF Handled
    <2> QED BY <2>1, <2>2, <2>3, <2>4, HandledFits
  <1>4. AltFits("operandName", Alt("OpClock", 1, <<>>, 1))
    <2>1. Takes(Alt("OpClock", 1, <<>>, 1)).OpClock = Exactly(Nodes, 0) /\ Makes.OpClock = Exactly(Operands, 1)
      BY WidthOf, ChildrenOf DEF Takes, Makes
    <2>2. Fits(<<>>, Exactly(Nodes, 0))
      BY Wider, FitsNone
    <2>3. Exactly(Operands, 1) \subseteq Yield.operandName
      BY Inclusions, Wider DEF Yield
    <2>4. <<>> \in Seq(RuleNames) /\ "OpClock" \in Handled /\ 1 \in Nat
      BY DEF Handled
    <2> QED BY <2>1, <2>2, <2>3, <2>4, HandledFits
  <1>5. AltFits("operandName", Alt("OpInstance", 1 + 1, <<>>, 1))
    <2>1. Takes(Alt("OpInstance", 1 + 1, <<>>, 1)).OpInstance = Exactly(Nodes, 0) /\ Makes.OpInstance = Exactly(Operands, 1)
      BY WidthOf, ChildrenOf DEF Takes, Makes
    <2>2. Fits(<<>>, Exactly(Nodes, 0))
      BY Wider, FitsNone
    <2>3. Exactly(Operands, 1) \subseteq Yield.operandName
      BY Inclusions, Wider DEF Yield
    <2>4. <<>> \in Seq(RuleNames) /\ "OpInstance" \in Handled /\ 1 + 1 \in Nat
      BY DEF Handled
    <2> QED BY <2>1, <2>2, <2>3, <2>4, HandledFits
  <1>6. AltFits("operandName", Alt("OpInstance", 3 + 1, <<>>, 1))
    <2>1. Takes(Alt("OpInstance", 3 + 1, <<>>, 1)).OpInstance = Exactly(Nodes, 0) /\ Makes.OpInstance = Exactly(Operands, 1)
      BY WidthOf, ChildrenOf DEF Takes, Makes
    <2>2. Fits(<<>>, Exactly(Nodes, 0))
      BY Wider, FitsNone
    <2>3. Exactly(Operands, 1) \subseteq Yield.operandName
      BY Inclusions, Wider DEF Yield
    <2>4. <<>> \in Seq(RuleNames) /\ "OpInstance" \in Handled /\ 3 + 1 \in Nat
      BY DEF Handled
    <2> QED BY <2>1, <2>2, <2>3, <2>4, HandledFits
  <1> QED BY <1>1, <1>2, <1>3, <1>4, <1>5, <1>6 DEF Rules, operandName, OpName, OpParam, OpThis, OpClock, OpInstance

LEMMA Fits_prefix == \A alt \in Rules.prefix : ~Miscounted(alt) => AltFits("prefix", alt)
  <1>1. AltFits("prefix", Alt("Prefix", 1, <<"expression">>, 0))
    <2>0. Width(Alt("Prefix", 1, <<"expression">>, 0)) = 2
      <3>1. Width(Alt("Prefix", 1, <<"expression">>, 0)) = 1 + 1
        BY WidthOf
      <3> QED BY <3>1
    <2>1. Takes(Alt("Prefix", 1, <<"expression">>, 0)).Prefix = Exactly(Operands, 1) /\ Makes.Prefix = Exactly(Operands, 1)
      BY <2>0 DEF Takes, Makes
    <2>2. Yield.expression \subseteq Exactly(Operands, 1)
      BY Inclusions, Wider DEF Yield
    <2>3. <<"expression">> \in Seq(RuleNames) /\ "expression" \in DOMAIN Rules /\ "Prefix" \in Handled
      BY NamesOfRules DEF RuleNames, Handled
    <2>4. Fits(<<"expression">>, Exactly(Operands, 1))
      BY <2>2, <2>3, FitsOne
    <2>5. Exactly(Operands, 1) \subseteq Yield.prefix
      BY Inclusions, Wider DEF Yield
    <2> QED BY <2>1, <2>3, <2>4, <2>5, HandledFits
  <1>2. AltFits("prefix", Alt("Prefix", 0, <<>>, 1))
    <2>1. Takes(Alt("Prefix", 0, <<>>, 1)).Prefix = Exactly(Operands, 0) /\ Makes.Prefix = Exactly(Operands, 1)
      BY WidthOf, ChildrenOf DEF Takes, Makes
    <2>2. Fits(<<>>, Exactly(Operands, 0))
      BY Wider, FitsNone
    <2>3. Exactly(Operands, 1) \subseteq Yield.prefix
      BY Inclusions, Wider DEF Yield
    <2>4. <<>> \in Seq(RuleNames) /\ "Prefix" \in Handled /\ 0 \in Nat
      BY DEF Handled
    <2> QED BY <2>1, <2>2, <2>3, <2>4, HandledFits
  <1> QED BY <1>1, <1>2 DEF Rules, prefix

LEMMA Fits_numeric == \A alt \in Rules.numeric : ~Miscounted(alt) => AltFits("numeric", alt)
  <1>1. AltFits("numeric", Alt("Numeric", 0, <<"integer">>, 0))
    <2>1. Yield.integer \subseteq Yield.numeric
      BY Inclusions, Wider DEF Yield
    <2> QED BY <2>1, PassFits, Zenon DEF Handled, RuleNames
  <1>2. AltFits("numeric", Alt("Numeric", 0, <<"negative">>, 1))
    <2>1. Yield.negative \subseteq Yield.numeric
      BY Inclusions, Wider DEF Yield
    <2> QED BY <2>1, PassFits, Zenon DEF Handled, RuleNames
  <1>3. AltFits("numeric", Alt("Numeric", 0, <<"float_">>, 1))
    <2>1. Yield.float_ \subseteq Yield.numeric
      BY Inclusions, Wider DEF Yield
    <2> QED BY <2>1, PassFits, Zenon DEF Handled, RuleNames
  <1> QED BY <1>1, <1>2, <1>3 DEF Rules, numeric

LEMMA Fits_integer == \A alt \in Rules.integer : ~Miscounted(alt) => AltFits("integer", alt)
  <1>1. AltFits("integer", Alt("Integer", 1, <<>>, 0))
    <2>1. Takes(Alt("Integer", 1, <<>>, 0)).Integer = Exactly(Nodes, 0) /\ Makes.Integer = Exactly(Of({"Integer"}), 1)
      BY WidthOf, ChildrenOf DEF Takes, Makes
    <2>2. Fits(<<>>, Exactly(Nodes, 0))
      BY Wider, FitsNone
    <2>3. Exactly(Of({"Integer"}), 1) \subseteq Yield.integer
      BY Inclusions, Wider DEF Yield
    <2>4. <<>> \in Seq(RuleNames) /\ "Integer" \in Handled /\ 1 \in Nat
      BY DEF Handled
    <2> QED BY <2>1, <2>2, <2>3, <2>4, HandledFits
  <1> QED BY <1>1 DEF Rules, integer, Only

LEMMA Fits_negative == \A alt \in Rules.negative : ~Miscounted(alt) => AltFits("negative", alt)
  <1>1. AltFits("negative", Alt("Negative", 1, <<"integer">>, 0))
    <2>0. Width(Alt("Negative", 1, <<"integer">>, 0)) = 2
      <3>1. Width(Alt("Negative", 1, <<"integer">>, 0)) = 1 + 1
        BY WidthOf
      <3> QED BY <3>1
    <2>1. Takes(Alt("Negative", 1, <<"integer">>, 0)).Negative = Exactly(Literals, 1) /\ Makes.Negative = Exactly(Literals, 1)
      BY <2>0 DEF Takes, Makes
    <2>2. Yield.integer \subseteq Exactly(Literals, 1)
      BY Inclusions, Wider DEF Yield
    <2>3. <<"integer">> \in Seq(RuleNames) /\ "integer" \in DOMAIN Rules /\ "Negative" \in Handled
      BY NamesOfRules DEF RuleNames, Handled
    <2>4. Fits(<<"integer">>, Exactly(Literals, 1))
      BY <2>2, <2>3, FitsOne
    <2>5. Exactly(Literals, 1) \subseteq Yield.negative
      BY Inclusions, Wider DEF Yield
    <2> QED BY <2>1, <2>3, <2>4, <2>5, HandledFits
  <1>2. AltFits("negative", Alt("Negative", 1, <<"float_">>, 1))
    <2>0. Width(Alt("Negative", 1, <<"float_">>, 1)) = 2
      <3>1. Width(Alt("Negative", 1, <<"float_">>, 1)) = 1 + 1
        BY WidthOf
      <3> QED BY <3>1
    <2>1. Takes(Alt("Negative", 1, <<"float_">>, 1)).Negative = Exactly(Literals, 1) /\ Makes.Negative = Exactly(Literals, 1)
      BY <2>0 DEF Takes, Makes
    <2>2. Yield.float_ \subseteq Exactly(Literals, 1)
      BY Inclusions, Wider DEF Yield
    <2>3. <<"float_">> \in Seq(RuleNames) /\ "float_" \in DOMAIN Rules /\ "Negative" \in Handled
      BY NamesOfRules DEF RuleNames, Handled
    <2>4. Fits(<<"float_">>, Exactly(Literals, 1))
      BY <2>2, <2>3, FitsOne
    <2>5. Exactly(Literals, 1) \subseteq Yield.negative
      BY Inclusions, Wider DEF Yield
    <2> QED BY <2>1, <2>3, <2>4, <2>5, HandledFits
  <1> QED BY <1>1, <1>2 DEF Rules, negative

LEMMA Fits_float_ == \A alt \in Rules.float_ : ~Miscounted(alt) => AltFits("float_", alt)
  <1>1. AltFits("float_", Alt("Float_", 1, <<>>, 0))
    <2>1. Takes(Alt("Float_", 1, <<>>, 0)).Float_ = Exactly(Nodes, 0) /\ Makes.Float_ = Exactly(Literals, 1)
      BY WidthOf, ChildrenOf DEF Takes, Makes
    <2>2. Fits(<<>>, Exactly(Nodes, 0))
      BY Wider, FitsNone
    <2>3. Exactly(Literals, 1) \subseteq Yield.float_
      BY Inclusions, Wider DEF Yield
    <2>4. <<>> \in Seq(RuleNames) /\ "Float_" \in Handled /\ 1 \in Nat
      BY DEF Handled
    <2> QED BY <2>1, <2>2, <2>3, <2>4, HandledFits
  <1> QED BY <1>1 DEF Rules, float_, Only

LEMMA Fits_string_ == \A alt \in Rules.string_ : ~Miscounted(alt) => AltFits("string_", alt)
  <1>1. AltFits("string_", Alt("String_", 1, <<>>, 0))
    <2>1. Takes(Alt("String_", 1, <<>>, 0)).String_ = Exactly(Nodes, 0) /\ Makes.String_ = Exactly(Literals, 1)
      BY WidthOf, ChildrenOf DEF Takes, Makes
    <2>2. Fits(<<>>, Exactly(Nodes, 0))
      BY Wider, FitsNone
    <2>3. Exactly(Literals, 1) \subseteq Yield.string_
      BY Inclusions, Wider DEF Yield
    <2>4. <<>> \in Seq(RuleNames) /\ "String_" \in Handled /\ 1 \in Nat
      BY DEF Handled
    <2> QED BY <2>1, <2>2, <2>3, <2>4, HandledFits
  <1> QED BY <1>1 DEF Rules, string_, Only

LEMMA Fits_bool_ == \A alt \in Rules.bool_ : ~Miscounted(alt) => AltFits("bool_", alt)
  <1>1. AltFits("bool_", Alt("Bool_", 1, <<>>, 0))
    <2>1. Takes(Alt("Bool_", 1, <<>>, 0)).Bool_ = Exactly(Nodes, 0) /\ Makes.Bool_ = Exactly(Literals, 1)
      BY WidthOf, ChildrenOf DEF Takes, Makes
    <2>2. Fits(<<>>, Exactly(Nodes, 0))
      BY Wider, FitsNone
    <2>3. Exactly(Literals, 1) \subseteq Yield.bool_
      BY Inclusions, Wider DEF Yield
    <2>4. <<>> \in Seq(RuleNames) /\ "Bool_" \in Handled /\ 1 \in Nat
      BY DEF Handled
    <2> QED BY <2>1, <2>2, <2>3, <2>4, HandledFits
  <1> QED BY <1>1 DEF Rules, bool_, Only

LEMMA Fits_functionLit == \A alt \in Rules.functionLit : ~Miscounted(alt) => AltFits("functionLit", alt)
  <1>1. AltFits("functionLit", Alt("FunctionLit", 1, <<"block">>, 0))
    <2>0. Width(Alt("FunctionLit", 1, <<"block">>, 0)) = 2
      <3>1. Width(Alt("FunctionLit", 1, <<"block">>, 0)) = 1 + 1
        BY WidthOf
      <3> QED BY <3>1
    <2>1. Takes(Alt("FunctionLit", 1, <<"block">>, 0)).FunctionLit = Exactly(Blocks, 1) /\ Makes.FunctionLit = Exactly(Of({"Function"}), 1)
      BY <2>0 DEF Takes, Makes
    <2>2. Yield.block \subseteq Exactly(Blocks, 1)
      BY Inclusions, Wider DEF Yield
    <2>3. <<"block">> \in Seq(RuleNames) /\ "block" \in DOMAIN Rules /\ "FunctionLit" \in Handled
      BY NamesOfRules DEF RuleNames, Handled
    <2>4. Fits(<<"block">>, Exactly(Blocks, 1))
      BY <2>2, <2>3, FitsOne
    <2>5. Exactly(Of({"Function"}), 1) \subseteq Yield.functionLit
      BY Inclusions, Wider DEF Yield
    <2> QED BY <2>1, <2>3, <2>4, <2>5, HandledFits
  <1> QED BY <1>1 DEF Rules, functionLit, Only

LEMMA Fits_stateLit == \A alt \in Rules.stateLit : ~Miscounted(alt) => AltFits("stateLit", alt)
  <1>1. AltFits("stateLit", Alt("StateLit", 1, <<"stateBlock">>, 0))
    <2>0. Width(Alt("StateLit", 1, <<"stateBlock">>, 0)) = 2
      <3>1. Width(Alt("StateLit", 1, <<"stateBlock">>, 0)) = 1 + 1
        BY WidthOf
      <3> QED BY <3>1
    <2>1. Takes(Alt("StateLit", 1, <<"stateBlock">>, 0)).StateLit = Exactly(FullBlocks, 1) /\ Makes.StateLit = Exactly(FullFunctions, 1)
      BY <2>0 DEF Takes, Makes
    <2>2. Yield.stateBlock \subseteq Exactly(FullBlocks, 1)
      BY Inclusions, Wider DEF Yield
    <2>3. <<"stateBlock">> \in Seq(RuleNames) /\ "stateBlock" \in DOMAIN Rules /\ "StateLit" \in Handled
      BY NamesOfRules DEF RuleNames, Handled
    <2>4. Fits(<<"stateBlock">>, Exactly(FullBlocks, 1))
      BY <2>2, <2>3, FitsOne
    <2>5. Exactly(FullFunctions, 1) \subseteq Yield.stateLit
      BY Inclusions, Wider DEF Yield
    <2> QED BY <2>1, <2>3, <2>4, <2>5, HandledFits
  <1> QED BY <1>1 DEF Rules, stateLit, Only

LEMMA HowMany ==
  /\ \A n \in Many : n \in Nat /\ n + 1 \in Nat
  /\ \A n \in Maybe : n \in Nat
  /\ \A n : Extra(n) \in Nat /\ 1 + Extra(n) \in Nat
  BY MaxRepeatAssumption DEF Many, Maybe, Extra

LEMMA OpenFits ==
  ASSUME NEW rule, NEW label, label \notin Handled \cup {"Imported", "Spec", "SysSpec"}, NEW t \in Nat, NEW k \in Nat,
         NEW body \in Seq(RuleNames), Fits(body, Yield[rule])
  PROVE  AltFits(rule, Alt(label, t, body, k))
  <1>1. PICK alt : alt = Alt(label, t, body, k)
    OBVIOUS
  <1>2. alt.label = label /\ alt.tokens = t /\ alt.body = body /\ alt.cost = k
    BY <1>1 DEF Alt
  <1>3. AltFits(rule, alt)
    BY <1>2, NamesOfRules DEF AltFits, Left
  <1> QED BY <1>1, <1>3

\* Repeated children.
LEMMA FitsRepeated ==
  ASSUME NEW S \in SUBSET Nodes, NEW r \in RuleNames, NEW n \in Nat
  PROVE  /\ Times(r, n) \in Seq(RuleNames)
         /\ Yield[r] \subseteq Exactly(S, 1) => Fits(Times(r, n), Exactly(S, n))
         /\ Yield[r] \subseteq Seq(S) => Fits(Times(r, n), Seq(S))
         /\ Yield[r] \subseteq NamedValues(S, 1) => Fits(Times(r, n), NamedValues(S, n))
  <1>1. PICK body : /\ body = Times(r, n) /\ Len(body) = n /\ body \in Seq(RuleNames) /\ body \in Seq(DOMAIN Rules)
                    /\ \A i \in DOMAIN body : body[i] = r
    BY Repeated, NamesOfRules
  <1>2. ASSUME Yield[r] \subseteq Exactly(S, 1) PROVE Fits(body, Exactly(S, n))
    <2>1. \A i \in DOMAIN body : Yield[body[i]] \subseteq Exactly(S, 1)
      BY <1>1, <1>2
    <2>2. Exactly(S, Len(body)) \subseteq Exactly(S, n)
      BY <1>1
    <2> QED BY <1>1, <2>1, <2>2, FitsAll
  <1>3. ASSUME Yield[r] \subseteq Seq(S) PROVE Fits(body, Seq(S))
    <2>1. \A i \in DOMAIN body : Yield[body[i]] \subseteq Seq(S)
      BY <1>1, <1>3
    <2> QED BY <1>1, <2>1, FitsList
  <1>4. ASSUME Yield[r] \subseteq NamedValues(S, 1) PROVE Fits(body, NamedValues(S, n))
    <2>1. \A i \in DOMAIN body : Yield[body[i]] \subseteq NamedValues(S, 1)
      BY <1>1, <1>4
    <2>2. Fits(body, NamedValues(S, Len(body)))
      BY <1>1, <2>1, FitsPairs
    <2> QED BY <1>1, <2>2
  <1> QED BY <1>1, <1>2, <1>3, <1>4

LEMMA JoinedOne ==
  ASSUME NEW S, NEW x \in Seq(S), NEW y \in Seq(S), Len(y) = 1
  PROVE  /\ x \o y \in Seq(S) /\ Len(x \o y) = Len(x) + 1
         /\ \A i \in 1..Len(x) : (x \o y)[i] = x[i]
         /\ (x \o y)[Len(x) + 1] = y[1]
  <1>1. x \o y \in Seq(S) /\ Len(x \o y) = Len(x) + Len(y)
    BY ConcatProperties, Zenon
  <1>2. \A i \in 1..Len(x) + Len(y) : (x \o y)[i] = IF i <= Len(x) THEN x[i] ELSE y[i - Len(x)]
    BY ConcatProperties, Zenon
  <1>3. Len(x) \in Nat
    OBVIOUS
  <1>4. PICK n \in Nat : n = Len(x)
    BY <1>3
  <1>5. n + 1 \in 1..n + 1 /\ ~(n + 1 <= n) /\ n + 1 - n = 1 /\ \A i \in 1..n : i \in 1..n + 1 /\ i <= n
    OBVIOUS
  <1> QED BY <1>1, <1>2, <1>4, <1>5

LEMMA JoinedBody ==
  /\ \A a, b : <<>> \o <<a, b>> \o <<>> = <<a, b>>
  /\ \A a, b, c : <<>> \o <<a, b>> \o <<c>> = <<a, b, c>>
  /\ \A a, b : (<<"simpleStmt">> \o <<a, b>> \o <<>>)[1] = "simpleStmt"
  /\ \A a, b, c : (<<"simpleStmt">> \o <<a, b>> \o <<c>>)[1] = "simpleStmt"
  <1>1. \A a, b : <<>> \o <<a, b>> \o <<>> = <<a, b>>
    OBVIOUS
  <1>2. \A a, b, c : <<>> \o <<a, b>> \o <<c>> = <<a, b, c>>
    <2> TAKE a, b, c
    <2>1. <<>> \o <<a, b>> = <<a, b>>
      OBVIOUS
    <2>2. <<a, b>> \o <<c>> = <<a, b, c>>
      <3>1. PICK S : S = {a, b, c}
        OBVIOUS
      <3>2. <<a, b>> \in Seq(S) /\ <<c>> \in Seq(S) /\ Len(<<a, b>>) = 2 /\ Len(<<c>>) = 1
        BY <3>1
      <3>3. PICK s \in Seq(S) : s = <<a, b>>
        BY <3>2
      <3>4. PICK t \in Seq(S) : t = <<c>>
        BY <3>2
      <3>5. Len(s) = 2 /\ Len(t) = 1 /\ s[1] = a /\ s[2] = b /\ t[1] = c
        BY <3>3, <3>4
      <3>6. PICK z : z = s \o t
        OBVIOUS
      <3>7. Len(z) = 3 /\ z \in Seq(S) /\ z[1] = a /\ z[2] = b /\ z[3] = c
        <4>1. /\ z \in Seq(S) /\ Len(z) = Len(s) + 1 /\ z[Len(s) + 1] = t[1]
              /\ \A i \in 1..Len(s) : z[i] = s[i]
          BY <3>3, <3>4, <3>5, <3>6, JoinedOne
        <4> QED BY <3>5, <4>1
      <3>8. z = <<a, b, c>>
        BY <3>7
      <3> QED BY <3>3, <3>4, <3>6, <3>8
    <2> QED BY <2>1, <2>2
  <1>3. \A a, b : (<<"simpleStmt">> \o <<a, b>> \o <<>>)[1] = "simpleStmt"
    OBVIOUS
  <1>4. \A a, b, c : (<<"simpleStmt">> \o <<a, b>> \o <<c>>)[1] = "simpleStmt"
    OBVIOUS
  <1> QED BY <1>1, <1>2, <1>3, <1>4

LEMMA Fits_componentDecl == \A alt \in Rules.componentDecl : ~Miscounted(alt) => AltFits("componentDecl", alt)
  <1>1. ASSUME NEW n \in Many PROVE AltFits("componentDecl", Alt("ComponentDecl", 7 + n, Times("comProperties", n), Extra(n)))
    <2>1. n \in Nat /\ n \in Nat /\ 7 + n \in Nat /\ Extra(n) \in Nat
      BY HowMany
    <2>2. "comProperties" \in RuleNames /\ "ComponentDecl" \in Handled
      BY DEF RuleNames, Handled
    <2>3. FullValues \in SUBSET Nodes /\ Yield.comProperties \subseteq NamedValues(FullValues, 1)
      BY Inclusions, Wider DEF Yield
    <2>4. PICK m \in Nat : m = n
      BY <2>1
    <2>5. Times("comProperties", m) \in Seq(RuleNames) /\ Fits(Times("comProperties", m), NamedValues(FullValues, m))
      BY <2>2, <2>3, FitsRepeated
    <2>6. Children(Alt("ComponentDecl", 7 + n, Times("comProperties", m), Extra(n)), "comProperties") = m
      BY <2>4, ChildrenOf
    <2>7. Takes(Alt("ComponentDecl", 7 + n, Times("comProperties", m), Extra(n))).ComponentDecl = NamedValues(FullValues, m) /\ Makes.ComponentDecl = Exactly(Statements, 1)
      BY <2>6 DEF Takes, Makes
    <2>8. Exactly(Statements, 1) \subseteq Yield.componentDecl
      BY Inclusions, Wider DEF Yield
    <2> QED BY <2>1, <2>2, <2>4, <2>5, <2>7, <2>8, HandledFits
  <1> QED BY <1>1 DEF Rules, componentDecl

LEMMA Fits_startBlock == \A alt \in Rules.startBlock : ~Miscounted(alt) => AltFits("startBlock", alt)
  <1>1. ASSUME NEW n \in Many PROVE AltFits("startBlock", Alt("StartBlock", 4 + n, Times("startPair", n), Extra(n)))
    <2>1. n \in Nat /\ n \in Nat /\ 4 + n \in Nat /\ Extra(n) \in Nat
      BY HowMany
    <2>2. "startPair" \in RuleNames /\ "StartBlock" \in Handled
      BY DEF RuleNames, Handled
    <2>3. Of({"Pair"}) \in SUBSET Nodes /\ Yield.startPair \subseteq Exactly(Of({"Pair"}), 1)
      BY Inclusions, Wider DEF Yield
    <2>4. PICK m \in Nat : m = n
      BY <2>1
    <2>5. Times("startPair", m) \in Seq(RuleNames) /\ Fits(Times("startPair", m), Exactly(Of({"Pair"}), m))
      BY <2>2, <2>3, FitsRepeated
    <2>6. Children(Alt("StartBlock", 4 + n, Times("startPair", m), Extra(n)), "startPair") = m
      BY <2>4, ChildrenOf
    <2>7. Takes(Alt("StartBlock", 4 + n, Times("startPair", m), Extra(n))).StartBlock = Exactly(Of({"Pair"}), m) /\ Makes.StartBlock = Exactly(Statements, 1)
      BY <2>6 DEF Takes, Makes
    <2>8. Exactly(Statements, 1) \subseteq Yield.startBlock
      BY Inclusions, Wider DEF Yield
    <2> QED BY <2>1, <2>2, <2>4, <2>5, <2>7, <2>8, HandledFits
  <1> QED BY <1>1 DEF Rules, startBlock

LEMMA Fits_structType == \A alt \in Rules.structType : ~Miscounted(alt) => AltFits("structType", alt)
  <1>1. ASSUME NEW n \in Many PROVE AltFits("structType", Alt("Flow", 3 + n, Times("sfProperties", n), 1 + Extra(n)))
    <2>1. n \in Nat /\ n \in Nat /\ 3 + n \in Nat /\ 1 + Extra(n) \in Nat
      BY HowMany
    <2>2. "sfProperties" \in RuleNames /\ "Flow" \in Handled
      BY DEF RuleNames, Handled
    <2>3. Values \in SUBSET Nodes /\ Yield.sfProperties \subseteq NamedValues(Values, 1)
      BY Inclusions, Wider DEF Yield
    <2>4. PICK m \in Nat : m = n
      BY <2>1
    <2>5. Times("sfProperties", m) \in Seq(RuleNames) /\ Fits(Times("sfProperties", m), NamedValues(Values, m))
      BY <2>2, <2>3, FitsRepeated
    <2>6. Children(Alt("Flow", 3 + n, Times("sfProperties", m), 1 + Extra(n)), "sfProperties") = m
      BY <2>4, ChildrenOf
    <2>7. Takes(Alt("Flow", 3 + n, Times("sfProperties", m), 1 + Extra(n))).Flow = NamedValues(Values, m) /\ Makes.Flow = Exactly(Operands, 1)
      BY <2>6 DEF Takes, Makes
    <2>8. Exactly(Operands, 1) \subseteq Yield.structType
      BY Inclusions, Wider DEF Yield
    <2> QED BY <2>1, <2>2, <2>4, <2>5, <2>7, <2>8, HandledFits
  <1>2. ASSUME NEW n \in Many PROVE AltFits("structType", Alt("Stock", 3 + n, Times("sfProperties", n), Extra(n)))
    <2>1. n \in Nat /\ n \in Nat /\ 3 + n \in Nat /\ Extra(n) \in Nat
      BY HowMany
    <2>2. "sfProperties" \in RuleNames /\ "Stock" \in Handled
      BY DEF RuleNames, Handled
    <2>3. Values \in SUBSET Nodes /\ Yield.sfProperties \subseteq NamedValues(Values, 1)
      BY Inclusions, Wider DEF Yield
    <2>4. PICK m \in Nat : m = n
      BY <2>1
    <2>5. Times("sfProperties", m) \in Seq(RuleNames) /\ Fits(Times("sfProperties", m), NamedValues(Values, m))
      BY <2>2, <2>3, FitsRepeated
    <2>6. Children(Alt("Stock", 3 + n, Times("sfProperties", m), Extra(n)), "sfProperties") = m
      BY <2>4, ChildrenOf
    <2>7. Takes(Alt("Stock", 3 + n, Times("sfProperties", m), Extra(n))).Stock = NamedValues(Values, m) /\ Makes.Stock = Exactly(Operands, 1)
      BY <2>6 DEF Takes, Makes
    <2>8. Exactly(Operands, 1) \subseteq Yield.structType
      BY Inclusions, Wider DEF Yield
    <2> QED BY <2>1, <2>2, <2>4, <2>5, <2>7, <2>8, HandledFits
  <1> QED BY <1>1, <1>2 DEF Rules, structType, Flow, Stock

LEMMA Fits_runBlock == \A alt \in Rules.runBlock : ~Miscounted(alt) => AltFits("runBlock", alt)
  <1>1. ASSUME NEW n \in Many PROVE AltFits("runBlock", Alt("RunBlock", 2, Times("runStep", n), Extra(n)))
    <2>1. n \in Nat /\ n \in Nat /\ 2 \in Nat /\ Extra(n) \in Nat
      BY HowMany
    <2>2. "runStep" \in RuleNames /\ "RunBlock" \in Handled
      BY DEF RuleNames, Handled
    <2>3. RunSteps \in SUBSET Nodes /\ Yield.runStep \subseteq Exactly(RunSteps, 1)
      BY Inclusions, Wider DEF Yield
    <2>4. PICK m \in Nat : m = n
      BY <2>1
    <2>5. Times("runStep", m) \in Seq(RuleNames) /\ Fits(Times("runStep", m), Exactly(RunSteps, m))
      BY <2>2, <2>3, FitsRepeated
    <2>6. Children(Alt("RunBlock", 2, Times("runStep", m), Extra(n)), "runStep") = m
      BY <2>4, ChildrenOf
    <2>7. Takes(Alt("RunBlock", 2, Times("runStep", m), Extra(n))).RunBlock = Exactly(RunSteps, m) /\ Makes.RunBlock = Exactly(Blocks, 1)
      BY <2>6 DEF Takes, Makes
    <2>8. Exactly(Blocks, 1) \subseteq Yield.runBlock
      BY Inclusions, Wider DEF Yield
    <2> QED BY <2>1, <2>2, <2>4, <2>5, <2>7, <2>8, HandledFits
  <1> QED BY <1>1 DEF Rules, runBlock

LEMMA Fits_stateStep == \A alt \in Rules.stateStep : ~Miscounted(alt) => AltFits("stateStep", alt)
  <1>1. ASSUME NEW n \in Many PROVE AltFits("stateStep", Alt("StateStepExpr", n + 1, Times("paramCall", n + 1), 1))
    <2>1. n \in Nat /\ n + 1 \in Nat /\ n + 1 \in Nat /\ 1 \in Nat
      BY HowMany
    <2>2. "paramCall" \in RuleNames /\ "StateStepExpr" \in Handled
      BY DEF RuleNames, Handled
    <2>3. Of({"ParameterCall"}) \in SUBSET Nodes /\ Yield.paramCall \subseteq Exactly(Of({"ParameterCall"}), 1)
      BY Inclusions, Wider DEF Yield
    <2>4. PICK m \in Nat : m = n + 1
      BY <2>1
    <2>5. Times("paramCall", m) \in Seq(RuleNames) /\ Fits(Times("paramCall", m), Exactly(Of({"ParameterCall"}), m))
      BY <2>2, <2>3, FitsRepeated
    <2>6. Children(Alt("StateStepExpr", n + 1, Times("paramCall", m), 1), "paramCall") = m
      BY <2>4, ChildrenOf
    <2>7. Takes(Alt("StateStepExpr", n + 1, Times("paramCall", m), 1)).StateStepExpr = Exactly(Of({"ParameterCall"}), m) /\ Makes.StateStepExpr = Exactly(StateSteps, 1)
      BY <2>6 DEF Takes, Makes
    <2>8. Exactly(StateSteps, 1) \subseteq Yield.stateStep
      BY Inclusions, Wider DEF Yield
    <2> QED BY <2>1, <2>2, <2>4, <2>5, <2>7, <2>8, HandledFits
  <1>2. AltFits("stateStep", Alt("StateChain", 1, <<"stateChange">>, 0))
    <2>1. Yield.stateChange \subseteq Yield.stateStep
      BY Inclusions, Wider DEF Yield
    <2> QED BY <2>1, PassFits, Zenon DEF Handled, RuleNames
  <1>3. AltFits("stateStep", Alt("StateExpr", 0, <<"ifStmtState">>, 1))
    <2>0. Width(Alt("StateExpr", 0, <<"ifStmtState">>, 1)) = 1
      <3>1. Width(Alt("StateExpr", 0, <<"ifStmtState">>, 1)) = 0 + 1
        BY WidthOf
      <3> QED BY <3>1
    <2>1. Takes(Alt("StateExpr", 0, <<"ifStmtState">>, 1)).StateExpr = Exactly(Of({"If"}), 1) /\ Makes.StateExpr = Exactly(StateSteps, 1)
      BY <2>0 DEF Takes, Makes
    <2>2. Yield.ifStmtState \subseteq Exactly(Of({"If"}), 1)
      BY Inclusions, Wider DEF Yield
    <2>3. <<"ifStmtState">> \in Seq(RuleNames) /\ "ifStmtState" \in DOMAIN Rules /\ "StateExpr" \in Handled
      BY NamesOfRules DEF RuleNames, Handled
    <2>4. Fits(<<"ifStmtState">>, Exactly(Of({"If"}), 1))
      BY <2>2, <2>3, FitsOne
    <2>5. Exactly(StateSteps, 1) \subseteq Yield.stateStep
      BY Inclusions, Wider DEF Yield
    <2> QED BY <2>1, <2>3, <2>4, <2>5, HandledFits
  <1> QED BY <1>1, <1>2, <1>3 DEF Rules, stateStep, StateStepExpr, StateChain, StateExpr

LEMMA Fits_runStep == \A alt \in Rules.runStep : ~Miscounted(alt) => AltFits("runStep", alt)
  <1>1. ASSUME NEW n \in Many PROVE AltFits("runStep", Alt("RunStepExpr", n + 1, Times("paramCall", n + 1), Extra(n + 1)))
    <2>1. n \in Nat /\ n + 1 \in Nat /\ n + 1 \in Nat /\ Extra(n + 1) \in Nat
      BY HowMany
    <2>2. "paramCall" \in RuleNames /\ "RunStepExpr" \in Handled
      BY DEF RuleNames, Handled
    <2>3. Of({"ParameterCall"}) \in SUBSET Nodes /\ Yield.paramCall \subseteq Exactly(Of({"ParameterCall"}), 1)
      BY Inclusions, Wider DEF Yield
    <2>4. PICK m \in Nat : m = n + 1
      BY <2>1
    <2>5. Times("paramCall", m) \in Seq(RuleNames) /\ Fits(Times("paramCall", m), Exactly(Of({"ParameterCall"}), m))
      BY <2>2, <2>3, FitsRepeated
    <2>6. Children(Alt("RunStepExpr", n + 1, Times("paramCall", m), Extra(n + 1)), "paramCall") = m
      BY <2>4, ChildrenOf
    <2>7. Takes(Alt("RunStepExpr", n + 1, Times("paramCall", m), Extra(n + 1))).RunStepExpr = Exactly(Of({"ParameterCall"}), m) /\ Makes.RunStepExpr = Exactly(RunSteps, 1)
      BY <2>6 DEF Takes, Makes
    <2>8. Exactly(RunSteps, 1) \subseteq Yield.runStep
      BY Inclusions, Wider DEF Yield
    <2> QED BY <2>1, <2>2, <2>4, <2>5, <2>7, <2>8, HandledFits
  <1>2. AltFits("runStep", Alt("RunInit", 4, <<"paramCall">>, 1))
    <2>1. Children(Alt("RunInit", 4, <<"paramCall">>, 1), "paramCall") = 1
      BY ChildrenOf
    <2>2. Takes(Alt("RunInit", 4, <<"paramCall">>, 1)).RunInit = Exactly(Of({"ParameterCall"}), 1) /\ Makes.RunInit = Exactly(RunSteps, 1)
      BY <2>1 DEF Takes, Makes
    <2>3. <<"paramCall">> \in Seq(RuleNames) /\ "RunInit" \in Handled /\ "paramCall" \in DOMAIN Rules
      BY NamesOfRules DEF RuleNames, Handled
    <2>4. Fits(<<"paramCall">>, Exactly(Of({"ParameterCall"}), 1))
      <3>1. Yield.paramCall \subseteq Exactly(Of({"ParameterCall"}), 1)
        BY DEF Yield
      <3> QED BY <2>3, <3>1, FitsOne
    <2>5. Exactly(RunSteps, 1) \subseteq Yield.runStep
      BY DEF Yield
    <2> QED BY <2>2, <2>3, <2>4, <2>5, HandledFits
  <1>3. AltFits("runStep", Alt("RunInit", 5, <<>>, 1))
    <2>1. Children(Alt("RunInit", 5, <<>>, 1), "paramCall") = 0
      BY ChildrenOf
    <2>2. Takes(Alt("RunInit", 5, <<>>, 1)).RunInit = Exactly(Of({"ParameterCall"}), 0) /\ Makes.RunInit = Exactly(RunSteps, 1)
      BY <2>1 DEF Takes, Makes
    <2>3. <<>> \in Seq(RuleNames) /\ "RunInit" \in Handled /\ "paramCall" \in DOMAIN Rules
      BY NamesOfRules DEF RuleNames, Handled
    <2>4. Fits(<<>>, Exactly(Of({"ParameterCall"}), 0))
      <3>1. Yield.paramCall \subseteq Exactly(Of({"ParameterCall"}), 1)
        BY DEF Yield
      <3> QED BY Wider, FitsNone
    <2>5. Exactly(RunSteps, 1) \subseteq Yield.runStep
      BY DEF Yield
    <2> QED BY <2>2, <2>3, <2>4, <2>5, HandledFits
  <1>4. AltFits("runStep", Alt("RunExpr", 1, <<"simpleStmt">>, 1))
    <2>0. Width(Alt("RunExpr", 1, <<"simpleStmt">>, 1)) = 2
      <3>1. Width(Alt("RunExpr", 1, <<"simpleStmt">>, 1)) = 1 + 1
        BY WidthOf
      <3> QED BY <3>1
    <2>1. Takes(Alt("RunExpr", 1, <<"simpleStmt">>, 1)).RunExpr = Exactly(Operands, 1) /\ Makes.RunExpr = Exactly(RunSteps, 1)
      BY <2>0 DEF Takes, Makes
    <2>2. Yield.simpleStmt \subseteq Exactly(Operands, 1)
      BY Inclusions, Wider DEF Yield
    <2>3. <<"simpleStmt">> \in Seq(RuleNames) /\ "simpleStmt" \in DOMAIN Rules /\ "RunExpr" \in Handled
      BY NamesOfRules DEF RuleNames, Handled
    <2>4. Fits(<<"simpleStmt">>, Exactly(Operands, 1))
      BY <2>2, <2>3, FitsOne
    <2>5. Exactly(RunSteps, 1) \subseteq Yield.runStep
      BY Inclusions, Wider DEF Yield
    <2> QED BY <2>1, <2>3, <2>4, <2>5, HandledFits
  <1>5. AltFits("runStep", Alt("RunExpr", 0, <<"ifStmtRun">>, 1))
    <2>0. Width(Alt("RunExpr", 0, <<"ifStmtRun">>, 1)) = 1
      <3>1. Width(Alt("RunExpr", 0, <<"ifStmtRun">>, 1)) = 0 + 1
        BY WidthOf
      <3> QED BY <3>1
    <2>1. Takes(Alt("RunExpr", 0, <<"ifStmtRun">>, 1)).RunExpr = Exactly(Operands, 1) /\ Makes.RunExpr = Exactly(RunSteps, 1)
      BY <2>0 DEF Takes, Makes
    <2>2. Yield.ifStmtRun \subseteq Exactly(Operands, 1)
      BY Inclusions, Wider DEF Yield
    <2>3. <<"ifStmtRun">> \in Seq(RuleNames) /\ "ifStmtRun" \in DOMAIN Rules /\ "RunExpr" \in Handled
      BY NamesOfRules DEF RuleNames, Handled
    <2>4. Fits(<<"ifStmtRun">>, Exactly(Operands, 1))
      BY <2>2, <2>3, FitsOne
    <2>5. Exactly(RunSteps, 1) \subseteq Yield.runStep
      BY Inclusions, Wider DEF Yield
    <2> QED BY <2>1, <2>3, <2>4, <2>5, HandledFits
  <1> QED BY <1>1, <1>2, <1>3, <1>4, <1>5 DEF Rules, runStep, RunStepExpr, RunInit, RunExpr

LEMMA Fits_importDecl == \A alt \in Rules.importDecl : ~Miscounted(alt) => AltFits("importDecl", alt)
  <1>1. AltFits("importDecl", Alt("ImportDecl", 2, <<"importSpec">>, 0))
    <2>1. Children(Alt("ImportDecl", 2, <<"importSpec">>, 0), "importSpec") = 1
      BY ChildrenOf
    <2>2. Takes(Alt("ImportDecl", 2, <<"importSpec">>, 0)).ImportDecl = Exactly(Statements, 1) /\ Makes.ImportDecl = Seq(Statements)
      BY <2>1 DEF Takes, Makes
    <2>3. <<"importSpec">> \in Seq(RuleNames) /\ "ImportDecl" \in Handled /\ "importSpec" \in DOMAIN Rules
      BY NamesOfRules DEF RuleNames, Handled
    <2>4. Yield.importSpec \subseteq Exactly(Statements, 1) /\ Seq(Statements) \subseteq Yield.importDecl
      BY DEF Yield
    <2>5. Fits(<<"importSpec">>, Exactly(Statements, 1))
      BY <2>3, <2>4, FitsOne
    <2> QED BY <2>2, <2>3, <2>4, <2>5, HandledFits
  <1>2. ASSUME NEW n \in Many PROVE AltFits("importDecl", Alt("ImportDecl", 4, Times("importSpec", n), 1))
    <2>1. n \in Nat /\ n \in Nat /\ 4 \in Nat /\ 1 \in Nat
      BY HowMany
    <2>2. "importSpec" \in RuleNames /\ "ImportDecl" \in Handled
      BY DEF RuleNames, Handled
    <2>3. Statements \in SUBSET Nodes /\ Yield.importSpec \subseteq Exactly(Statements, 1)
      BY Inclusions, Wider DEF Yield
    <2>4. PICK m \in Nat : m = n
      BY <2>1
    <2>5. Times("importSpec", m) \in Seq(RuleNames) /\ Fits(Times("importSpec", m), Exactly(Statements, m))
      BY <2>2, <2>3, FitsRepeated
    <2>6. Children(Alt("ImportDecl", 4, Times("importSpec", m), 1), "importSpec") = m
      BY <2>4, ChildrenOf
    <2>7. Takes(Alt("ImportDecl", 4, Times("importSpec", m), 1)).ImportDecl = Exactly(Statements, m) /\ Makes.ImportDecl = Seq(Statements)
      BY <2>6 DEF Takes, Makes
    <2>8. Seq(Statements) \subseteq Yield.importDecl
      BY Inclusions, Wider DEF Yield
    <2> QED BY <2>1, <2>2, <2>4, <2>5, <2>7, <2>8, HandledFits
  <1> QED BY <1>1, <1>2 DEF Rules, importDecl

LEMMA Fits_importSpec == \A alt \in Rules.importSpec : ~Miscounted(alt) => AltFits("importSpec", alt)
  <1>1. ASSUME NEW label \in {"ImportSpec", "DotImport"}, NEW t \in Nat, NEW k \in Nat
        PROVE  AltFits("importSpec", Alt(label, t, <<"importPath">>, k))
    <2>1. Takes(Alt(label, t, <<"importPath">>, k))[label] = Exactly(Literals, 1) /\ Makes[label] = Exactly(Statements, 1)
      BY DEF Takes, Makes
    <2>2. <<"importPath">> \in Seq(RuleNames) /\ label \in Handled /\ "importPath" \in DOMAIN Rules
      BY NamesOfRules DEF RuleNames, Handled
    <2>3. Yield.importPath \subseteq Exactly(Literals, 1) /\ Exactly(Statements, 1) \subseteq Yield.importSpec
      BY DEF Yield
    <2>4. Fits(<<"importPath">>, Exactly(Literals, 1))
      BY <2>2, <2>3, FitsOne
    <2> QED BY <2>1, <2>2, <2>3, <2>4, HandledFits
  <1>2. \A name, comma \in Maybe : name + comma \in Nat /\ 1 + comma \in Nat
    BY HowMany
  <1> QED BY <1>1, <1>2 DEF Rules, importSpec

LEMMA Fits_constDecl == \A alt \in Rules.constDecl : ~Miscounted(alt) => AltFits("constDecl", alt)
  <1>1. AltFits("constDecl", Alt("ConstDecl", 2, <<"constSpec">>, 0))
    <2>1. Yield.constSpec \subseteq Yield.constDecl
      BY Inclusions, Wider DEF Yield
    <2> QED BY <2>1, PassFits, Zenon DEF Handled, RuleNames
  <1>2. ASSUME NEW n \in Many PROVE AltFits("constDecl", Alt("ConstDecl", 4, Times("constSpec", n), 1))
    <2>1. n \in Nat /\ Statements \in SUBSET Nodes
      BY HowMany, Inclusions
    <2>2. Yield.constSpec = Seq(Statements) /\ Yield.constDecl = Seq(Statements)
      BY DEF Yield
    <2>3. "constSpec" \in RuleNames /\ "ConstDecl" \notin Handled \cup {"Imported", "Spec", "SysSpec"}
      BY DEF RuleNames, Handled
    <2>4. Times("constSpec", n) \in Seq(RuleNames) /\ Fits(Times("constSpec", n), Seq(Statements))
      BY <2>1, <2>2, <2>3, FitsRepeated
    <2> QED BY <2>2, <2>3, <2>4, OpenFits
  <1> QED BY <1>1, <1>2 DEF Rules, constDecl

LEMMA Fits_identList == \A alt \in Rules.identList : ~Miscounted(alt) => AltFits("identList", alt)
  <1>1. ASSUME NEW n \in Many \ {0} PROVE AltFits("identList", Alt("IdentList", n - 1, Times("operandName", n), Extra(n)))
    <2>1. n \in Nat /\ n - 1 \in Nat /\ Extra(n) \in Nat /\ n >= 1 /\ Operands \in SUBSET Nodes
      BY HowMany, Inclusions
    <2>2. Yield.operandName = Exactly(Operands, 1) /\ Exactly(Operands, n) \subseteq Yield.identList
      BY <2>1 DEF Yield, Exactly
    <2>3. "operandName" \in RuleNames /\ "IdentList" \notin Handled \cup {"Imported", "Spec", "SysSpec"}
      BY DEF RuleNames, Handled
    <2>4. PICK body : /\ body = Times("operandName", n) /\ Len(body) = n /\ body \in Seq(RuleNames) /\ body \in Seq(DOMAIN Rules)
                      /\ \A j \in DOMAIN body : body[j] = "operandName"
      BY <2>1, <2>3, Repeated, NamesOfRules
    <2>5. \A j \in DOMAIN body : Yield[body[j]] \subseteq Exactly(Operands, 1)
      BY <2>2, <2>4
    <2>6. Exactly(Operands, Len(body)) \subseteq Yield.identList
      BY <2>2, <2>4
    <2>7. Fits(body, Yield.identList)
      BY <2>1, <2>4, <2>5, <2>6, FitsAll
    <2> QED BY <2>1, <2>3, <2>4, <2>7, OpenFits
  <1> QED BY <1>1 DEF Rules, identList

LEMMA Fits_expressionList == \A alt \in Rules.expressionList : ~Miscounted(alt) => AltFits("expressionList", alt)
  <1>1. ASSUME NEW n \in Many \ {0}, ~Miscounted(Alt("ExpressionList", n - 1, Times("expression", n), Extra(n))) PROVE AltFits("expressionList", Alt("ExpressionList", n - 1, Times("expression", n), Extra(n)))
    <2>1. n \in Nat /\ n >= 1 /\ Operands \in SUBSET Nodes
      BY HowMany, Inclusions
    <2>2. Len(Times("expression", n)) = n
      BY <2>1, Repeated
    <2>3. ~(Len(Times("expression", n)) > 1)
      <3>1. Alt("ExpressionList", n - 1, Times("expression", n), Extra(n)).label = "ExpressionList" /\ Alt("ExpressionList", n - 1, Times("expression", n), Extra(n)).body = Times("expression", n)
        BY DEF Alt
      <3> QED BY <1>1, <3>1 DEF Miscounted
    <2>4. n = 1 /\ n - 1 \in Nat /\ Extra(n) \in Nat
      BY <2>1, <2>2, <2>3, HowMany
    <2>5. Yield.expression = Exactly(Operands, 1) /\ Yield.expressionList = Exactly(Operands, 1)
      BY DEF Yield
    <2>6. "expression" \in RuleNames /\ "ExpressionList" \notin Handled \cup {"Imported", "Spec", "SysSpec"}
      BY DEF RuleNames, Handled
    <2>7. Times("expression", n) \in Seq(RuleNames) /\ Fits(Times("expression", n), Exactly(Operands, n))
      BY <2>1, <2>5, <2>6, FitsRepeated
    <2> QED BY <2>4, <2>5, <2>6, <2>7, OpenFits
  <1> QED BY <1>1 DEF Rules, expressionList

LEMMA Fits_statementList == \A alt \in Rules.statementList : ~Miscounted(alt) => AltFits("statementList", alt)
  <1>1. ASSUME NEW n \in Many \ {0} PROVE AltFits("statementList", Alt("StatementList", 0, Times("statement", n), Extra(n)))
    <2>1. n \in Nat /\ Extra(n) \in Nat /\ Lines \in SUBSET Nodes
      BY HowMany, Inclusions
    <2>2. Width(Alt("StatementList", 0, Times("statement", n), Extra(n))) = n
      <3>1. Width(Alt("StatementList", 0, Times("statement", n), Extra(n))) = 0 + n
        BY <2>1, WidthOf
      <3> QED BY <2>1, <3>1
    <2>3. Takes(Alt("StatementList", 0, Times("statement", n), Extra(n))).StatementList = Exactly(Lines, n) /\ Makes.StatementList = Exactly(Blocks, 1)
      BY <2>2 DEF Takes, Makes
    <2>4. Yield.statement = Exactly(Lines, 1) /\ Exactly(Blocks, 1) \subseteq Yield.statementList
      BY DEF Yield
    <2>5. "statement" \in RuleNames /\ "StatementList" \in Handled
      BY DEF RuleNames, Handled
    <2>6. Times("statement", n) \in Seq(RuleNames) /\ Fits(Times("statement", n), Exactly(Lines, n))
      BY <2>1, <2>4, <2>5, FitsRepeated
    <2> QED BY <2>1, <2>3, <2>4, <2>5, <2>6, HandledFits
  <1> QED BY <1>1 DEF Rules, statementList

LEMMA Fits_stateBlock == \A alt \in Rules.stateBlock : ~Miscounted(alt) => AltFits("stateBlock", alt)
  <1>1. ASSUME NEW n \in Many, ~Miscounted(Alt("StateBlock", 2, Times("stateStep", n), Extra(n))) PROVE AltFits("stateBlock", Alt("StateBlock", 2, Times("stateStep", n), Extra(n)))
    <2>1. n \in Nat /\ Extra(n) \in Nat /\ StateSteps \in SUBSET Nodes
      BY HowMany, Inclusions
    <2>2. n # 0
      <3>1. Alt("StateBlock", 2, Times("stateStep", n), Extra(n)).label = "StateBlock" /\ Alt("StateBlock", 2, Times("stateStep", n), Extra(n)).body = Times("stateStep", n)
        BY DEF Alt
      <3>2. Times("stateStep", n) # <<>>
        BY <1>1, <3>1 DEF Miscounted
      <3>3. ASSUME n = 0 PROVE FALSE
        <4>1. Len(Times("stateStep", n)) = 0 /\ Times("stateStep", n) \in Seq({"stateStep"})
          BY <2>1, <3>3, Repeated
        <4> QED BY <3>2, <4>1
      <3> QED BY <3>3
    <2>3. Children(Alt("StateBlock", 2, Times("stateStep", n), Extra(n)), "stateStep") = n
      BY <2>1, ChildrenOf
    <2>4. Takes(Alt("StateBlock", 2, Times("stateStep", n), Extra(n))).StateBlock = Steps(n) /\ Makes.StateBlock = Exactly(FullBlocks, 1)
      BY <2>3 DEF Takes, Makes
    <2>5. Yield.stateStep = Exactly(StateSteps, 1) /\ Exactly(FullBlocks, 1) \subseteq Yield.stateBlock
      BY DEF Yield
    <2>6. "stateStep" \in RuleNames /\ "StateBlock" \in Handled
      BY DEF RuleNames, Handled
    <2>7. PICK body : /\ body = Times("stateStep", n) /\ Len(body) = n /\ body \in Seq(RuleNames) /\ body \in Seq(DOMAIN Rules)
                      /\ \A j \in DOMAIN body : body[j] = "stateStep"
      BY <2>1, <2>6, Repeated, NamesOfRules
    <2>8. \A j \in DOMAIN body : Yield[body[j]] \subseteq Exactly(StateSteps, 1)
      BY <2>5, <2>7
    <2>9. Exactly(StateSteps, Len(body)) \subseteq Steps(n)
      BY <2>1, <2>2, <2>7 DEF Exactly, Steps
    <2>10. Fits(body, Steps(n))
      BY <2>1, <2>7, <2>8, <2>9, FitsAll
    <2> QED BY <2>1, <2>4, <2>5, <2>6, <2>7, <2>10, HandledFits
  <1> QED BY <1>1 DEF Rules, stateBlock

LEMMA Fits_statement == \A alt \in Rules.statement : ~Miscounted(alt) => AltFits("statement", alt)
  <1>1. AltFits("statement", Alt("Statement", 1, <<"simpleStmt">>, 0))
    <2>1. Yield.simpleStmt \subseteq Yield.statement
      BY Inclusions, Wider DEF Yield
    <2> QED BY <2>1, PassFits, Zenon DEF Handled, RuleNames
  <1>2. ASSUME NEW c \in {"initDecl", "block", "ifStmt"} PROVE AltFits("statement", Alt("Statement", 0, <<c>>, 1))
    <2>1. Yield[c] \subseteq Yield.statement
      BY Inclusions, Wider DEF Yield
    <2>2. c \in RuleNames
      BY DEF RuleNames
    <2> QED BY <2>1, <2>2, PassFits DEF Handled
  <1>3. Miscounted(Alt("Statement", 0, <<"constDecl">>, 1))
    BY DEF Alt, Miscounted
  <1> QED BY <1>1, <1>2, <1>3 DEF Rules, statement

LEMMA Fits_simpleStmt == \A alt \in Rules.simpleStmt : ~Miscounted(alt) => AltFits("simpleStmt", alt)
  <1>1. AltFits("simpleStmt", Alt("SimpleStmt", 0, <<"expression">>, 0))
    <2>1. Yield.expression \subseteq Yield.simpleStmt
      BY Inclusions, Wider DEF Yield
    <2> QED BY <2>1, PassFits, Zenon DEF Handled, RuleNames
  <1>2. ASSUME NEW c \in {"incDecStmt", "assignment"} PROVE AltFits("simpleStmt", Alt("SimpleStmt", 0, <<c>>, 1))
    <2>1. Yield[c] \subseteq Yield.simpleStmt
      BY Inclusions, Wider DEF Yield
    <2>2. c \in RuleNames
      BY DEF RuleNames
    <2> QED BY <2>1, <2>2, PassFits DEF Handled
  <1>3. Miscounted(Alt("SimpleStmt", 0, <<"emptyStmt">>, 1))
    BY DEF Alt, Miscounted
  <1> QED BY <1>1, <1>2, <1>3 DEF Rules, simpleStmt

LEMMA Fits_emptyStmt == \A alt \in Rules.emptyStmt : ~Miscounted(alt) => AltFits("emptyStmt", alt)
  <1>1. Miscounted(Alt("EmptyStmt", 1, <<>>, 0))
    BY DEF Alt, Miscounted
  <1> QED BY <1>1 DEF Rules, emptyStmt, Only

LEMMA Fits_temporal == \A alt \in Rules.temporal : ~Miscounted(alt) => AltFits("temporal", alt)
  <1>1. <<>> \in Yield.temporal
    BY Wider DEF Yield
  <1>2. Fits(<<>>, Yield.temporal) /\ <<>> \in Seq(RuleNames)
    BY <1>1, FitsNone
  <1>3. "Temporal" \notin Handled \cup {"Imported", "Spec", "SysSpec"}
    BY DEF Handled
  <1>4. AltFits("temporal", Alt("Temporal", 1, <<>>, 0))
    BY <1>2, <1>3, OpenFits
  <1> QED BY <1>4 DEF Rules, temporal, Only

LEMMA CheckedAlone ==
  /\ Exactly(Operands, 1) \subseteq Checks(1) /\ Checks(1) \in SUBSET Seq(Nodes)
  /\ \A x \in Exactly(Operands, 1), y \in Exactly(Nodes, 0) : x \o y \in Checks(1)
  <1>1. Exactly(Operands, 1) \subseteq Checks(1) /\ Checks(1) \in SUBSET Seq(Nodes)
    BY Inclusions DEF Exactly, Checks
  <1>2. ASSUME NEW x \in Exactly(Operands, 1), NEW y \in Exactly(Nodes, 0) PROVE x \o y = x
    <2>1. x \in Seq(Operands) /\ y \in Seq(Nodes) /\ Len(y) = 0
      BY DEF Exactly
    <2>2. y = <<>>
      BY <2>1
    <2> QED BY <2>1, <2>2, ConcatEmptySeq
  <1> QED BY <1>1, <1>2

LEMMA CheckedBoth ==
  /\ Checks(2) \in SUBSET Seq(Nodes)
  /\ \A x \in Exactly(Operands, 1), y \in Exactly(Of({"Integer"}), 1) : x \o y \in Checks(2)
  <1>1. Checks(2) \in SUBSET Seq(Nodes)
    BY DEF Checks
  <1>2. ASSUME NEW x \in Exactly(Operands, 1), NEW y \in Exactly(Of({"Integer"}), 1) PROVE x \o y \in Checks(2)
    <2>1. x \in Seq(Nodes) /\ y \in Seq(Nodes) /\ Len(x) = 1 /\ Len(y) = 1
      BY Inclusions DEF Exactly
    <2>2. x[1] \in Operands /\ y[1].kind = "Integer"
      BY DEF Exactly, Of
    <2>3. PICK z : z = x \o y
      OBVIOUS
    <2>4. z \in Seq(Nodes) /\ Len(z) = 2 /\ z[1] = x[1] /\ z[2] = y[1]
      <3>1. /\ z \in Seq(Nodes) /\ Len(z) = Len(x) + 1 /\ z[Len(x) + 1] = y[1]
            /\ \A i \in 1..Len(x) : z[i] = x[i]
        BY <2>1, <2>3, JoinedOne
      <3> QED BY <2>1, <3>1
    <2>5. z \in Checks(2)
      BY <2>2, <2>4 DEF Checks
    <2> QED BY <2>3, <2>5
  <1> QED BY <1>1, <1>2

LEMMA Fits_assertion == \A alt \in Rules.assertion : ~Miscounted(alt) => AltFits("assertion", alt)
  <1>1. /\ "Assertion" \in Handled /\ {"invariant", "temporal", "filter"} \subseteq RuleNames
        /\ {"invariant", "temporal", "filter"} \subseteq DOMAIN Rules
    BY NamesOfRules DEF Handled, RuleNames
  <1>2. /\ Yield.invariant = Exactly(Operands, 1) /\ Yield.temporal = Exactly(Nodes, 0)
        /\ Yield.filter = Exactly(Of({"Integer"}), 1) /\ Yield.assertion = Exactly(Statements, 1)
        /\ Makes.Assertion = Exactly(Statements, 1)
    BY DEF Yield, Makes
  <1>3. AltFits("assertion", Alt("Assertion", 2, <<"invariant">>, 0))
    <2>1. Children(Alt("Assertion", 2, <<"invariant">>, 0), "filter") = 0
      BY ChildrenOf
    <2>2. Takes(Alt("Assertion", 2, <<"invariant">>, 0)).Assertion = Checks(1)
      BY <2>1 DEF Takes
    <2>3. <<"invariant">> \in Seq(RuleNames)
      BY <1>1
    <2>4. Fits(<<"invariant">>, Checks(1))
      BY <1>1, <1>2, CheckedAlone, FitsOne
    <2> QED BY <1>1, <1>2, <2>2, <2>3, <2>4, HandledFits
  <1>4. AltFits("assertion", Alt("Assertion", 2, <<"invariant", "temporal">>, 1))
    <2>1. Children(Alt("Assertion", 2, <<"invariant", "temporal">>, 1), "filter") = 0
      BY ChildrenOf
    <2>2. Takes(Alt("Assertion", 2, <<"invariant", "temporal">>, 1)).Assertion = Checks(1)
      BY <2>1 DEF Takes
    <2>3. <<"invariant", "temporal">> \in Seq(RuleNames)
      BY <1>1
    <2>4. Fits(<<"invariant", "temporal">>, Checks(1))
      BY <1>1, <1>2, CheckedAlone, FitsTwo
    <2> QED BY <1>1, <1>2, <2>2, <2>3, <2>4, HandledFits
  <1>5. AltFits("assertion", Alt("Assertion", 2, <<"invariant", "filter">>, 1))
    <2>1. Children(Alt("Assertion", 2, <<"invariant", "filter">>, 1), "filter") = 1
      BY ChildrenOf
    <2>2. Takes(Alt("Assertion", 2, <<"invariant", "filter">>, 1)).Assertion = Checks(2)
      BY <2>1 DEF Takes
    <2>3. <<"invariant", "filter">> \in Seq(RuleNames)
      BY <1>1
    <2>4. Fits(<<"invariant", "filter">>, Checks(2))
      BY <1>1, <1>2, CheckedBoth, FitsTwo
    <2> QED BY <1>1, <1>2, <2>2, <2>3, <2>4, HandledFits
  <1> QED BY <1>3, <1>4, <1>5 DEF Rules, assertion

LEMMA Fits_assumption == \A alt \in Rules.assumption : ~Miscounted(alt) => AltFits("assumption", alt)
  <1>1. /\ "Assumption" \in Handled /\ {"invariant", "temporal", "filter"} \subseteq RuleNames
        /\ {"invariant", "temporal", "filter"} \subseteq DOMAIN Rules
    BY NamesOfRules DEF Handled, RuleNames
  <1>2. /\ Yield.invariant = Exactly(Operands, 1) /\ Yield.temporal = Exactly(Nodes, 0)
        /\ Yield.filter = Exactly(Of({"Integer"}), 1) /\ Yield.assumption = Exactly(Statements, 1)
        /\ Makes.Assumption = Exactly(Statements, 1)
    BY DEF Yield, Makes
  <1>3. AltFits("assumption", Alt("Assumption", 2, <<"invariant">>, 0))
    <2>1. Children(Alt("Assumption", 2, <<"invariant">>, 0), "filter") = 0
      BY ChildrenOf
    <2>2. Takes(Alt("Assumption", 2, <<"invariant">>, 0)).Assumption = Checks(1)
      BY <2>1 DEF Takes
    <2>3. <<"invariant">> \in Seq(RuleNames)
      BY <1>1
    <2>4. Fits(<<"invariant">>, Checks(1))
      BY <1>1, <1>2, CheckedAlone, FitsOne
    <2> QED BY <1>1, <1>2, <2>2, <2>3, <2>4, HandledFits
  <1>4. AltFits("assumption", Alt("Assumption", 2, <<"invariant", "temporal">>, 1))
    <2>1. Children(Alt("Assumption", 2, <<"invariant", "temporal">>, 1), "filter") = 0
      BY ChildrenOf
    <2>2. Takes(Alt("Assumption", 2, <<"invariant", "temporal">>, 1)).Assumption = Checks(1)
      BY <2>1 DEF Takes
    <2>3. <<"invariant", "temporal">> \in Seq(RuleNames)
      BY <1>1
    <2>4. Fits(<<"invariant", "temporal">>, Checks(1))
      BY <1>1, <1>2, CheckedAlone, FitsTwo
    <2> QED BY <1>1, <1>2, <2>2, <2>3, <2>4, HandledFits
  <1>5. AltFits("assumption", Alt("Assumption", 2, <<"invariant", "filter">>, 1))
    <2>1. Children(Alt("Assumption", 2, <<"invariant", "filter">>, 1), "filter") = 1
      BY ChildrenOf
    <2>2. Takes(Alt("Assumption", 2, <<"invariant", "filter">>, 1)).Assumption = Checks(2)
      BY <2>1 DEF Takes
    <2>3. <<"invariant", "filter">> \in Seq(RuleNames)
      BY <1>1
    <2>4. Fits(<<"invariant", "filter">>, Checks(2))
      BY <1>1, <1>2, CheckedBoth, FitsTwo
    <2> QED BY <1>1, <1>2, <2>2, <2>3, <2>4, HandledFits
  <1> QED BY <1>3, <1>4, <1>5 DEF Rules, assumption

LEMMA BranchesFit ==
  ASSUME NEW body \in RuleNames, NEW rule \in RuleNames, Yield[body] \subseteq Exactly(Blocks, 1),
         Yield[rule] \subseteq Exactly(Nodes, 1)
  PROVE  Fits(<<"expression", body>>, Branches(2)) /\ Fits(<<"expression", body, rule>>, Branches(3))
  <1>1. Branches(2) \in SUBSET Seq(Nodes) /\ Branches(3) \in SUBSET Seq(Nodes)
    BY DEF Branches
  <1>2. Yield.expression = Exactly(Operands, 1)
    BY DEF Yield
  <1>3. "expression" \in DOMAIN Rules /\ body \in DOMAIN Rules /\ rule \in DOMAIN Rules
    BY NamesOfRules DEF RuleNames
  <1>4. ASSUME NEW x \in Exactly(Operands, 1), NEW y \in Exactly(Blocks, 1) PROVE x \o y \in Branches(2)
    <2>1. x \in Seq(Nodes) /\ y \in Seq(Nodes) /\ Len(x) = 1 /\ Len(y) = 1
      BY Inclusions DEF Exactly
    <2>2. x[1] \in Operands /\ y[1] \in Blocks
      BY DEF Exactly
    <2>3. PICK z : z = x \o y
      OBVIOUS
    <2>4. z \in Seq(Nodes) /\ Len(z) = 2 /\ z[1] = x[1] /\ z[2] = y[1]
      <3>1. /\ z \in Seq(Nodes) /\ Len(z) = Len(x) + 1 /\ z[Len(x) + 1] = y[1]
            /\ \A i \in 1..Len(x) : z[i] = x[i]
        BY <2>1, <2>3, JoinedOne
      <3> QED BY <2>1, <3>1
    <2>5. z \in Branches(2)
      BY <2>2, <2>4 DEF Branches
    <2> QED BY <2>3, <2>5
  <1>5. ASSUME NEW x \in Branches(2), NEW y \in Exactly(Nodes, 1) PROVE x \o y \in Branches(3)
    <2>1. x \in Seq(Nodes) /\ y \in Seq(Nodes) /\ Len(x) = 2 /\ Len(y) = 1 /\ x[1] \in Operands /\ x[2] \in Blocks
      BY DEF Exactly, Branches
    <2>2. PICK z : z = x \o y
      OBVIOUS
    <2>3. z \in Seq(Nodes) /\ Len(z) = 3 /\ z[1] = x[1] /\ z[2] = x[2]
      <3>1. z \in Seq(Nodes) /\ Len(z) = Len(x) + 1 /\ \A i \in 1..Len(x) : z[i] = x[i]
        <4>1. x \in Seq(Nodes) /\ y \in Seq(Nodes) /\ Len(y) = 1
          BY <2>1
        <4>2. /\ x \o y \in Seq(Nodes) /\ Len(x \o y) = Len(x) + 1
              /\ \A i \in 1..Len(x) : (x \o y)[i] = x[i]
          BY <4>1, JoinedOne
        <4> QED BY <2>2, <4>2
      <3> QED BY <2>1, <3>1
    <2>4. z \in Branches(3)
      BY <2>1, <2>3 DEF Branches
    <2> QED BY <2>2, <2>4
  <1>6. Fits(<<"expression", body>>, Branches(2))
    BY <1>1, <1>2, <1>3, <1>4, FitsTwo
  <1>7. Fits(<<"expression", body, rule>>, Branches(3))
    <2>1. \A x \in Yield.expression, y \in Yield[body] : x \o y \in Branches(2)
      BY <1>2, <1>4
    <2>2. \A x \in Branches(2), y \in Yield[rule] : x \o y \in Branches(3)
      BY <1>5
    <2> QED BY <1>1, <1>3, <2>1, <2>2, FitsThree
  <1> QED BY <1>6, <1>7

LEMMA IfFits ==
  ASSUME NEW label \in {"IfStmt", "IfStmtRun", "IfStmtState"}, NEW rule \in RuleNames, NEW body \in RuleNames,
         Yield[body] \subseteq Exactly(Blocks, 1), Yield[rule] = Exactly(Of({"If"}), 1),
         NEW alt \in If(label, rule, body), ~Miscounted(alt)
  PROVE  AltFits(rule, alt)
  <1>1. PICK first \in {<<>>, <<"simpleStmt">>}, last \in {<<>>, <<rule>>, <<body>>} :
          alt = Alt(label, 1 + Len(first) + Len(last), first \o <<"expression", body>> \o last, Len(first) + Len(last))
    BY DEF If
  <1>2. alt.label = label /\ alt.body = first \o <<"expression", body>> \o last
    BY <1>1 DEF Alt
  <1>3. alt.body[1] # "simpleStmt"
    BY <1>2 DEF Miscounted
  <1>4. first = <<>>
    <2>1. ASSUME first = <<"simpleStmt">> PROVE alt.body[1] = "simpleStmt"
      BY <1>2, <2>1, JoinedBody
    <2> QED BY <1>3, <2>1
  <1>5. label \in Handled /\ "expression" \in RuleNames /\ label \notin {"Spec", "SysSpec"}
    BY DEF Handled, RuleNames
  <1>6. Makes[label] = Exactly(Of({"If"}), 1)
    BY DEF Makes
  <1>7. Yield[rule] \subseteq Exactly(Nodes, 1) /\ Exactly(Blocks, 1) \subseteq Exactly(Nodes, 1)
    BY Inclusions, Wider
  <1>8. CASE last = <<>>
    <2>1. Len(<<>>) = 0 /\ <<>> \o <<"expression", body>> \o <<>> = <<"expression", body>>
      BY JoinedBody
    <2>2. alt = Alt(label, 1, <<"expression", body>>, 0)
      BY <1>1, <1>4, <1>8, <2>1
    <2>3. Width(Alt(label, 1, <<"expression", body>>, 0)) = 1 + 2
      BY WidthOf
    <2>4. Width(alt) = 3
      BY <2>2, <2>3
    <2>5. Takes(alt)[label] = Branches(2)
      BY <2>4 DEF Takes
    <2>6. <<"expression", body>> \in Seq(RuleNames)
      BY <1>5
    <2>7. Fits(<<"expression", body>>, Branches(2))
      BY <1>7, BranchesFit
    <2> QED BY <1>5, <1>6, <2>2, <2>5, <2>6, <2>7, HandledFits
  <1>9. ASSUME NEW r \in RuleNames, Yield[r] \subseteq Exactly(Nodes, 1), last = <<r>> PROVE AltFits(rule, alt)
    <2>1. Len(<<>>) = 0 /\ Len(<<r>>) = 1 /\ <<>> \o <<"expression", body>> \o <<r>> = <<"expression", body, r>>
      BY JoinedBody
    <2>2. alt = Alt(label, 2, <<"expression", body, r>>, 1)
      <3>1. 1 + 0 + 1 = 2 /\ 0 + 1 = 1
        OBVIOUS
      <3> QED BY <1>1, <1>4, <1>9, <2>1, <3>1, Zenon
    <2>3. Width(Alt(label, 2, <<"expression", body, r>>, 1)) = 2 + 3
      BY WidthOf
    <2>4. Width(alt) = 5
      BY <2>2, <2>3
    <2>5. Takes(alt)[label] = Branches(3)
      BY <2>4 DEF Takes
    <2>6. <<"expression", body, r>> \in Seq(RuleNames)
      BY <1>5
    <2>7. Fits(<<"expression", body, r>>, Branches(3))
      BY <1>9, BranchesFit
    <2> QED BY <1>5, <1>6, <2>2, <2>5, <2>6, <2>7, HandledFits
  <1>10. CASE last = <<rule>>
    BY <1>7, <1>9, <1>10
  <1>11. CASE last = <<body>>
    BY <1>7, <1>9, <1>11
  <1> QED BY <1>8, <1>10, <1>11

LEMMA Fits_ifStmt == \A alt \in Rules.ifStmt : ~Miscounted(alt) => AltFits("ifStmt", alt)
  <1>1. "ifStmt" \in RuleNames /\ "block" \in RuleNames
    BY DEF RuleNames
  <1>2. Yield.block \subseteq Exactly(Blocks, 1) /\ Yield.ifStmt = Exactly(Of({"If"}), 1)
    BY Inclusions, Wider DEF Yield
  <1>3. Rules.ifStmt = If("IfStmt", "ifStmt", "block")
    BY DEF Rules, ifStmt
  <1> QED BY <1>1, <1>2, <1>3, IfFits

LEMMA Fits_ifStmtRun == \A alt \in Rules.ifStmtRun : ~Miscounted(alt) => AltFits("ifStmtRun", alt)
  <1>1. "ifStmtRun" \in RuleNames /\ "runBlock" \in RuleNames
    BY DEF RuleNames
  <1>2. Yield.runBlock \subseteq Exactly(Blocks, 1) /\ Yield.ifStmtRun = Exactly(Of({"If"}), 1)
    BY Inclusions, Wider DEF Yield
  <1>3. Rules.ifStmtRun = If("IfStmtRun", "ifStmtRun", "runBlock")
    BY DEF Rules, ifStmtRun
  <1> QED BY <1>1, <1>2, <1>3, IfFits

LEMMA Fits_ifStmtState == \A alt \in Rules.ifStmtState : ~Miscounted(alt) => AltFits("ifStmtState", alt)
  <1>1. "ifStmtState" \in RuleNames /\ "stateBlock" \in RuleNames
    BY DEF RuleNames
  <1>2. Yield.stateBlock \subseteq Exactly(Blocks, 1) /\ Yield.ifStmtState = Exactly(Of({"If"}), 1)
    BY Inclusions, Wider DEF Yield
  <1>3. Rules.ifStmtState = If("IfStmtState", "ifStmtState", "stateBlock")
    BY DEF Rules, ifStmtState
  <1> QED BY <1>1, <1>2, <1>3, IfFits

LEMMA Fits_solvable == \A alt \in Rules.solvable : ~Miscounted(alt) => AltFits("solvable", alt)
  <1>1. ASSUME NEW ty \in faultType, NEW n \in Nat, NEW t \in Nat, NEW k \in Nat, NEW body, Len(body) = n,
               body \in Seq(RuleNames), t = (IF n = 0 THEN 3 ELSE n + 2), Fits(body, Exactly(Operands, n)),
               ~Miscounted(Alt(ty, t, body, k))
        PROVE  AltFits("solvable", Alt(ty, t, body, k))
    <2>1. PICK alt : alt = Alt(ty, t, body, k)
      OBVIOUS
    <2>2. alt.label = ty /\ alt.body = body /\ alt.tokens = t
      BY <2>1 DEF Alt
    <2>3. /\ ty = "Natural" => n = 1
          /\ ty = "Uncertain" => n = 2
          /\ ty = "Unknown" => n \in {0, 1}
      BY <1>1, <2>1, <2>2 DEF Miscounted, Arguments
    <2>4. Width(alt) = t + n
      BY <1>1, <2>2 DEF Width
    <2>5. ty = "Unknown" => (IF Width(alt) > 3 THEN 1 ELSE 0) = n
      BY <1>1, <2>3, <2>4
    <2>6. Exactly(Operands, n) \subseteq Seq(Nodes)
      BY Inclusions, Wider
    <2>7. Fits(body, Takes(alt)[ty])
      <3>1. CASE ty = "Natural"
        BY <1>1, <2>3, <3>1 DEF Takes
      <3>2. CASE ty = "Uncertain"
        BY <1>1, <2>3, <3>2 DEF Takes
      <3>3. CASE ty = "Unknown"
        <4>1. Takes(alt).Unknown = Exactly(Operands, n)
          BY <2>5, <3>3 DEF Takes
        <4> QED BY <1>1, <3>3, <4>1
      <3>4. CASE ty = "OtherType"
        <4>1. Takes(alt).OtherType = Seq(Nodes)
          BY DEF Takes
        <4>2. Fits(body, Seq(Nodes))
          BY <1>1, <2>6 DEF Fits
        <4> QED BY <3>4, <4>1, <4>2
      <3> QED BY <3>1, <3>2, <3>3, <3>4 DEF faultType
    <2>8. ty \in Handled /\ ty \notin {"Spec", "SysSpec"}
      BY DEF Handled, faultType
    <2>9. Makes[ty] = Exactly(Literals, 1) /\ Exactly(Literals, 1) \subseteq Yield.solvable
      BY DEF Makes, Yield, faultType
    <2> QED BY <1>1, <2>1, <2>7, <2>8, <2>9, HandledFits
  <1>2. Operands \in SUBSET Nodes /\ "operand" \in RuleNames /\ Yield.operand \subseteq Exactly(Operands, 1)
    BY Inclusions DEF RuleNames, Yield
  <1>3. ASSUME NEW ty \in faultType, NEW n \in Many \ {0}, NEW k \in Nat, ~Miscounted(Alt(ty, n + 2, Times("operand", n), k))
        PROVE  AltFits("solvable", Alt(ty, n + 2, Times("operand", n), k))
    <2>1. n \in Nat /\ n # 0
      BY HowMany
    <2>2. PICK t \in Nat : t = n + 2
      BY <2>1
    <2>3. t = (IF n = 0 THEN 3 ELSE n + 2)
      BY <2>1, <2>2
    <2>4. PICK body : body = Times("operand", n)
      OBVIOUS
    <2>5. Len(body) = n /\ body \in Seq(RuleNames) /\ Fits(body, Exactly(Operands, n))
      BY <1>2, <2>1, <2>4, Repeated, FitsRepeated
    <2>6. ~Miscounted(Alt(ty, t, body, k))
      BY <1>3, <2>2, <2>4
    <2> QED BY <1>1, <2>1, <2>2, <2>3, <2>4, <2>5, <2>6
  <1>4. ASSUME NEW ty \in faultType, ~Miscounted(Alt(ty, 3, <<>>, 1))
        PROVE  AltFits("solvable", Alt(ty, 3, <<>>, 1))
    <2>1. Len(<<>>) = 0 /\ <<>> \in Seq(RuleNames)
      OBVIOUS
    <2>2. PICK body : body = <<>> /\ Len(body) = 0 /\ body \in Seq(RuleNames)
      BY <2>1, Zenon
    <2>3. Fits(body, Exactly(Operands, 0))
      BY <2>2, Wider, FitsNone
    <2>4. 0 \in Nat /\ 3 \in Nat /\ 1 \in Nat /\ 3 = (IF 0 = 0 THEN 3 ELSE 0 + 2) /\ ~Miscounted(Alt(ty, 3, body, 1))
      BY <1>4, <2>2
    <2>5. AltFits("solvable", Alt(ty, 3, body, 1))
      BY <1>1, <2>2, <2>3, <2>4
    <2> QED BY <2>2, <2>5
  <1>5. \A ty, n : (IF ty = "Unknown" THEN Extra(n) ELSE 1) \in Nat
    BY HowMany
  <1> QED BY <1>3, <1>4, <1>5 DEF Rules, solvable

LEMMA Fits_constSpec == \A alt \in Rules.constSpec : ~Miscounted(alt) => AltFits("constSpec", alt)
  <1>1. /\ "ConstSpec" \in Handled /\ "identList" \in RuleNames /\ "constants" \in RuleNames
        /\ "identList" \in DOMAIN Rules /\ "constants" \in DOMAIN Rules
    BY NamesOfRules DEF Handled, RuleNames
  <1>2. /\ Yield.identList = {s \in Seq(Operands) : Len(s) >= 1} /\ Yield.constants = Exactly(Literals, 1)
        /\ Makes.ConstSpec = Seq(Statements) /\ Yield.constSpec = Seq(Statements)
    BY DEF Yield, Makes
  <1>3. AltFits("constSpec", Alt("ConstSpec", 1, <<"identList", "constants">>, 0))
    <2>1. PICK c : c = Alt("ConstSpec", 1, <<"identList", "constants">>, 0)
      OBVIOUS
    <2>2. Width(c) = 1 + 2 /\ Children(c, "constants") = 1
      BY <2>1, WidthOf, ChildrenOf
    <2>3. Width(c) = 3
      BY <2>2
    <2>4. ASSUME NEW x \in Yield.identList, NEW y \in Yield.constants PROVE x \o y \in Constants(c)
      <3>1. x \in Seq(Operands) /\ Len(x) >= 1 /\ y \in Seq(Operands) /\ Len(y) = 1 /\ y[1] \in Literals
        <4>1. x \in Seq(Operands) /\ Len(x) >= 1
          BY <1>2
        <4>2. y \in Seq(Literals) /\ Len(y) = 1
          BY <1>2 DEF Exactly
        <4>3. Literals \in SUBSET Operands
          BY Inclusions
        <4>4. y[1] \in Literals
          BY <4>2
        <4>5. Exactly(Literals, 1) \subseteq Seq(Operands)
          BY <4>3, Wider
        <4> QED BY <1>2, <4>1, <4>2, <4>4, <4>5
      <3>2. PICK z : z = x \o y
        OBVIOUS
      <3>3. /\ z \in Seq(Operands) /\ Len(z) = Len(x) + 1 /\ z[Len(x) + 1] = y[1]
        BY <3>1, <3>2, JoinedOne
      <3>4. Len(z) >= 2 /\ z[Len(z)] \in Literals
        BY <3>1, <3>3
      <3>5. z \in Constants(c)
        BY <2>2, <2>3, <3>3, <3>4 DEF Constants
      <3> QED BY <3>2, <3>5
    <2>5. Constants(c) \in SUBSET Seq(Nodes)
      BY Inclusions DEF Constants
    <2>6. Fits(<<"identList", "constants">>, Constants(c))
      BY <1>1, <2>4, <2>5, FitsTwo
    <2>7. Takes(c).ConstSpec = Constants(c)
      BY DEF Takes
    <2>8. <<"identList", "constants">> \in Seq(RuleNames)
      BY <1>1
    <2> QED BY <1>1, <1>2, <2>1, <2>6, <2>7, <2>8, HandledFits
  <1>4. AltFits("constSpec", Alt("ConstSpec", 0, <<"identList">>, 1))
    <2>1. PICK c : c = Alt("ConstSpec", 0, <<"identList">>, 1)
      OBVIOUS
    <2>2. Width(c) = 0 + 1 /\ Children(c, "constants") = 0
      BY <2>1, WidthOf, ChildrenOf
    <2>3. Width(c) = 1
      BY <2>2
    <2>4. Yield.identList \subseteq Constants(c)
      BY <1>2, <2>2, <2>3 DEF Constants
    <2>5. Fits(<<"identList">>, Constants(c))
      BY <1>1, <2>4, FitsOne
    <2>6. Takes(c).ConstSpec = Constants(c)
      BY DEF Takes
    <2>7. <<"identList">> \in Seq(RuleNames)
      BY <1>1
    <2> QED BY <1>1, <1>2, <2>1, <2>5, <2>6, <2>7, HandledFits
  <1> QED BY <1>3, <1>4 DEF Rules, constSpec

LEMMA Fits_accessHistory == \A alt \in Rules.accessHistory : ~Miscounted(alt) => AltFits("accessHistory", alt)
  <1>1. /\ "AccessHistory" \in Handled /\ "operandName" \in RuleNames /\ "expression" \in RuleNames
        /\ Operands \in SUBSET Nodes
    BY Inclusions DEF Handled, RuleNames
  <1>2. /\ Yield.operandName = Exactly(Operands, 1) /\ Yield.expression = Exactly(Operands, 1)
        /\ Makes.AccessHistory = Exactly(Operands, 1) /\ Yield.accessHistory = Exactly(Operands, 1)
    BY DEF Yield, Makes
  <1>3. ASSUME NEW n \in Nat, NEW k \in Nat
        PROVE  AltFits("accessHistory", Alt("AccessHistory", 2 * n, <<"operandName">> \o Times("expression", n), k))
    <2>1. PICK e : /\ e = Times("expression", n) /\ Len(e) = n /\ e \in Seq(RuleNames)
                   /\ \A i \in 1..n : e[i] = "expression"
      BY <1>1, Repeated
    <2>2. PICK f : f = <<"operandName">> /\ Len(f) = 1 /\ f[1] = "operandName"
      <3>1. Len(<<"operandName">>) = 1 /\ <<"operandName">>[1] = "operandName"
        OBVIOUS
      <3> QED BY <3>1, Zenon
    <2>3. f \in Seq(RuleNames)
      BY <1>1, <2>2
    <2>4. PICK body : body = f \o e
      OBVIOUS
    <2>5. /\ body \in Seq(RuleNames) /\ Len(body) = Len(f) + Len(e)
          /\ \A i \in 1..Len(f) + Len(e) : body[i] = IF i <= Len(f) THEN f[i] ELSE e[i - Len(f)]
      BY <2>1, <2>3, <2>4, ConcatProperties, Zenon
    <2>6. /\ Len(body) = n + 1 /\ DOMAIN body = 1..n + 1 /\ body[1] = "operandName"
          /\ \A i \in 2..n + 1 : body[i] = "expression"
      <3>1. \A i \in 1..1 + n : body[i] = IF i <= 1 THEN f[i] ELSE e[i - 1]
        BY <2>1, <2>2, <2>5
      <3>2. \A i \in 2..n + 1 : i \in 1..1 + n /\ ~(i <= 1) /\ i - 1 \in 1..n
        OBVIOUS
      <3>3. \A i \in 2..n + 1 : body[i] = "expression"
        BY <2>1, <3>1, <3>2
      <3>4. 1 \in 1..1 + n /\ 1 <= 1
        OBVIOUS
      <3>5. body[1] = "operandName"
        BY <2>2, <3>1, <3>4
      <3>6. Len(body) = n + 1
        BY <2>1, <2>2, <2>5
      <3> QED BY <2>5, <3>3, <3>5, <3>6
    <2>7. {i \in DOMAIN body : body[i] = "expression"} = 2..n + 1
      BY <2>6
    <2>8. Cardinality(2..n + 1) = n
      BY FS_Interval
    <2>9. PICK c : c = Alt("AccessHistory", 2 * n, body, k)
      OBVIOUS
    <2>10. c.body = body
      BY <2>9 DEF Alt
    <2>11. Children(c, "expression") = n
      BY <2>7, <2>8, <2>10 DEF Children
    <2>12. Takes(c).AccessHistory = Exactly(Operands, 1 + n)
      BY <2>11 DEF Takes
    <2>13. \A i \in DOMAIN body : Yield[body[i]] \subseteq Exactly(Operands, 1)
      BY <1>2, <2>6
    <2>14. Exactly(Operands, Len(body)) \subseteq Exactly(Operands, 1 + n) /\ body \in Seq(DOMAIN Rules)
      BY <2>5, <2>6, NamesOfRules
    <2>15. Fits(body, Exactly(Operands, 1 + n))
      BY <1>1, <2>13, <2>14, FitsAll
    <2>16. 2 * n \in Nat
      OBVIOUS
    <2>17. AltFits("accessHistory", c)
      BY <1>1, <1>2, <2>5, <2>9, <2>12, <2>15, <2>16, HandledFits
    <2> QED BY <2>1, <2>2, <2>4, <2>9, <2>17
  <1> QED BY <1>3, HowMany DEF Rules, accessHistory

\* A file is a list of statements.
LEMMA FileFits ==
  ASSUME NEW rule \in Files, NEW label \in {"Spec", "SysSpec"}, NEW k \in Nat,
         NEW body \in Seq({"sysClause", "globalDecl", "componentDecl", "startBlock", "importDecl", "forStmt",
                           "specClause", "declaration", "assertion", "assumption"})
  PROVE  AltFits(rule, Alt(label, 0, body, k))
  <1>1. label \in Handled /\ body \in Seq(RuleNames) /\ body \in Seq(DOMAIN Rules)
    BY NamesOfRules DEF Handled, RuleNames
  <1>2. Statements \in SUBSET Nodes /\ Exactly(Statements, 1) \subseteq Seq(Statements)
    BY Inclusions, Wider
  <1>3. \A i \in DOMAIN body : Yield[body[i]] \subseteq Seq(Statements)
    BY <1>2 DEF Yield
  <1>4. Fits(body, Seq(Statements))
    BY <1>1, <1>2, <1>3, FitsList
  <1>5. PICK c : c = Alt(label, 0, body, k)
    OBVIOUS
  <1>6. Takes(c)[label] = Seq(Statements) /\ Makes[label] = Seq(Statements)
    BY DEF Takes, Makes
  <1>7. Yield[rule] = Seq(Statements)
    BY DEF Yield, Files
  <1> QED BY <1>1, <1>4, <1>5, <1>6, <1>7, HandledFits

LEMMA Fits_sysSpec == \A alt \in Rules.sysSpec : ~Miscounted(alt) => AltFits("sysSpec", alt)
  <1> DEFINE S == {"sysClause", "globalDecl", "componentDecl", "startBlock", "importDecl", "forStmt",
                   "specClause", "declaration", "assertion", "assumption"}
  <1>1. ASSUME NEW i \in Many, NEW g \in Many, NEW c \in Many, NEW a \in {<<>>, <<"assertion">>, <<"assumption">>},
               NEW s \in Maybe, NEW f \in Maybe
        PROVE  AltFits("sysSpec", Alt("SysSpec", 0,
                 <<"sysClause">> \o Times("importDecl", i) \o Times("globalDecl", g)
                   \o Times("componentDecl", c) \o a \o Times("startBlock", s) \o Times("forStmt", f),
                 Extra(i) + Extra(g) + Extra(c) + Extra(Len(a)) + Extra(s) + Extra(f)))
    <2>1. i \in Nat /\ g \in Nat /\ c \in Nat /\ s \in Nat /\ f \in Nat
      BY HowMany
    <2>2. /\ Times("importDecl", i) \in Seq(S) /\ Times("globalDecl", g) \in Seq(S) /\ Times("componentDecl", c) \in Seq(S)
          /\ Times("startBlock", s) \in Seq(S) /\ Times("forStmt", f) \in Seq(S)
      BY <2>1, Repeated
    <2>3. a \in Seq(S) /\ <<"sysClause">> \in Seq(S)
      <3>1. <<>> \in Seq(S) /\ <<"assertion">> \in Seq(S) /\ <<"assumption">> \in Seq(S) /\ <<"sysClause">> \in Seq(S)
        OBVIOUS
      <3> QED BY <3>1, Zenon
    <2> HIDE DEF S
    <2>4. <<"sysClause">> \o Times("importDecl", i) \o Times("globalDecl", g)
            \o Times("componentDecl", c) \o a \o Times("startBlock", s) \o Times("forStmt", f) \in Seq(S)
      BY <2>2, <2>3
    <2>5. Extra(i) + Extra(g) + Extra(c) + Extra(Len(a)) + Extra(s) + Extra(f) \in Nat
      <3>1. /\ Extra(i) \in Nat /\ Extra(g) \in Nat /\ Extra(c) \in Nat /\ Extra(Len(a)) \in Nat /\ Extra(s) \in Nat
            /\ Extra(f) \in Nat
        BY HowMany
      <3> QED BY <3>1
    <2> QED BY <2>4, <2>5, FileFits DEF S, Files
  <1> QED BY <1>1 DEF Rules, sysSpec

LEMMA Fits_spec == \A alt \in Rules.spec : ~Miscounted(alt) => AltFits("spec", alt)
  <1> DEFINE S == {"sysClause", "globalDecl", "componentDecl", "startBlock", "importDecl", "forStmt",
                   "specClause", "declaration", "assertion", "assumption"}
  <1>1. ASSUME NEW d \in Many, NEW f \in Maybe
        PROVE  AltFits("spec", Alt("Spec", 0, <<"specClause">> \o Times("declaration", d) \o Times("forStmt", f),
                                   Extra(d) + Extra(f)))
    <2>1. d \in Nat /\ f \in Nat
      BY HowMany
    <2>2. Times("declaration", d) \in Seq(S) /\ Times("forStmt", f) \in Seq(S) /\ <<"specClause">> \in Seq(S)
      BY <2>1, Repeated
    <2> HIDE DEF S
    <2>3. <<"specClause">> \o Times("declaration", d) \o Times("forStmt", f) \in Seq(S)
      BY <2>2
    <2>4. Extra(d) + Extra(f) \in Nat
      <3>1. Extra(d) \in Nat /\ Extra(f) \in Nat
        BY HowMany
      <3> QED BY <3>1
    <2> QED BY <2>3, <2>4, FileFits DEF S, Files
  <1> QED BY <1>1 DEF Rules, spec

\* Every alternative that no handler miscounts leaves what its rule leaves.
LEMMA GrammarFits ==
  ASSUME Counted, NEW rule \in DOMAIN Rules, NEW alt \in Rules[rule], ~Avoid(alt)
  PROVE  AltFits(rule, alt)
  <1>1. ~Miscounted(alt)
    BY DEF Counted
  <1>2. \A r \in DOMAIN Rules : \A a \in Rules[r] : ~Miscounted(a) => AltFits(r, a)
    <2>1. DOMAIN Rules = RuleNames \cup {"spec", "sysSpec"}
      BY NamesOfRules DEF Files
    <2>2. SUFFICES ASSUME NEW r \in DOMAIN Rules PROVE \A a \in Rules[r] : ~Miscounted(a) => AltFits(r, a)
      OBVIOUS
    <2> QED BY <2>1, Fits_spec, Fits_sysSpec, Fits_sysClause, Fits_globalDecl, Fits_componentDecl, Fits_startBlock,
           Fits_startPair, Fits_specClause, Fits_importDecl, Fits_importSpec, Fits_importPath,
           Fits_declaration, Fits_constDecl, Fits_constSpec, Fits_identList, Fits_constants, Fits_nil,
           Fits_expressionList, Fits_structDecl, Fits_structType, Fits_sfProperties, Fits_comProperties,
           Fits_structProperties, Fits_initDecl, Fits_block, Fits_statementList, Fits_statement,
           Fits_simpleStmt, Fits_incDecStmt, Fits_stateChange, Fits_accessHistory, Fits_assertion,
           Fits_assumption, Fits_temporal, Fits_filter, Fits_invariant, Fits_assignment, Fits_emptyStmt,
           Fits_ifStmt, Fits_ifStmtRun, Fits_ifStmtState, Fits_forStmt, Fits_rounds, Fits_paramCall,
           Fits_stateBlock, Fits_stateStep, Fits_runBlock, Fits_runStep, Fits_solvable, Fits_expression,
           Fits_operand, Fits_operandName, Fits_prefix, Fits_numeric, Fits_integer, Fits_negative, Fits_float_,
           Fits_string_, Fits_bool_, Fits_functionLit, Fits_stateLit DEF RuleNames
  <1> QED BY <1>1, <1>2

-----------------------------------------------------------------------------
(***************************************************************************)
(* Every handler is called when its children have left what it takes.      *)
(***************************************************************************)
\* What a handler does besides: only functions and structs leave a scope.
Steady(label) ==
  /\ fuel' = fuel /\ skipRun' = skipRun
  /\ label \in {"PropFunc", "StateFunc"} => scope' = Front(scope) /\ structscope' = structscope
  /\ label = "StructDecl" => scope' = <<Unnamed>> /\ structscope' = Unnamed
  /\ label \notin {"PropFunc", "StateFunc", "StructDecl"} => scope' = scope /\ structscope' = structscope
  /\ label = "ForStmt" => ExitForStmt
Handles(label) ==
  /\ label \in Handled /\ label \notin {"ImportSpec", "DotImport"}
  /\ Ready(label) /\ Served(label) /\ Steady(label)


LEMMA HandlesSpecClause == ASSUME WellTyped, Annotation, ExitSpecClause PROVE Handles("SpecClause")
  <1>1. At("SpecClause") /\ "SpecClause" \in Handled
    BY Zenon DEF ExitSpecClause, Handled
  <1>2. Ready("SpecClause")
    BY <1>1, Readiness
  <1>3. Served("SpecClause")
    BY <1>2, ServesSpecClause
  <1>4. Steady("SpecClause")
    BY Zenon DEF ExitSpecClause, Push, Reduce, Stop, SameScope, Steady
  <1> QED BY <1>1, <1>2, <1>3, <1>4 DEF Handles

LEMMA HandlesSysClause == ASSUME WellTyped, Annotation, ExitSysClause PROVE Handles("SysClause")
  <1>1. At("SysClause") /\ "SysClause" \in Handled
    BY Zenon DEF ExitSysClause, Handled
  <1>2. Ready("SysClause")
    BY <1>1, Readiness
  <1>3. Served("SysClause")
    BY <1>2, ServesSysClause
  <1>4. Steady("SysClause")
    BY Zenon DEF ExitSysClause, Push, Reduce, Stop, SameScope, Steady
  <1> QED BY <1>1, <1>2, <1>3, <1>4 DEF Handles

LEMMA HandlesOpName == ASSUME WellTyped, Annotation, ExitOpName PROVE Handles("OpName")
  <1>1. At("OpName") /\ "OpName" \in Handled
    BY Zenon DEF ExitOpName, Handled
  <1>2. Ready("OpName")
    BY <1>1, Readiness
  <1>3. Served("OpName")
    BY <1>2, ServesOpName
  <1>4. Steady("OpName")
    BY Zenon DEF ExitOpName, Push, Reduce, Stop, SameScope, Steady
  <1> QED BY <1>1, <1>2, <1>3, <1>4 DEF Handles

LEMMA HandlesOpInstance == ASSUME WellTyped, Annotation, ExitOpInstance PROVE Handles("OpInstance")
  <1>1. At("OpInstance") /\ "OpInstance" \in Handled
    BY Zenon DEF ExitOpInstance, Handled
  <1>2. Ready("OpInstance")
    BY <1>1, Readiness
  <1>3. Served("OpInstance")
    BY <1>2, ServesOpInstance
  <1>4. Steady("OpInstance")
    BY Zenon DEF ExitOpInstance, Push, Reduce, Stop, SameScope, Steady
  <1> QED BY <1>1, <1>2, <1>3, <1>4 DEF Handles

LEMMA HandlesOpThis == ASSUME WellTyped, Annotation, ExitOpThis PROVE Handles("OpThis")
  <1>1. At("OpThis") /\ "OpThis" \in Handled
    BY Zenon DEF ExitOpThis, Handled
  <1>2. Ready("OpThis")
    BY <1>1, Readiness
  <1>3. Served("OpThis")
    BY <1>2, ServesOpThis
  <1>4. Steady("OpThis")
    BY Zenon DEF ExitOpThis, Push, Reduce, Stop, SameScope, Steady
  <1> QED BY <1>1, <1>2, <1>3, <1>4 DEF Handles

LEMMA HandlesOpClock == ASSUME WellTyped, Annotation, ExitOpClock PROVE Handles("OpClock")
  <1>1. At("OpClock") /\ "OpClock" \in Handled
    BY Zenon DEF ExitOpClock, Handled
  <1>2. Ready("OpClock")
    BY <1>1, Readiness
  <1>3. Served("OpClock")
    BY <1>2, ServesOpClock
  <1>4. Steady("OpClock")
    BY Zenon DEF ExitOpClock, Push, Reduce, Stop, SameScope, Steady
  <1> QED BY <1>1, <1>2, <1>3, <1>4 DEF Handles

LEMMA HandlesParamCall == ASSUME WellTyped, Annotation, ExitParamCall PROVE Handles("ParamCall")
  <1>1. At("ParamCall") /\ "ParamCall" \in Handled
    BY Zenon DEF ExitParamCall, Handled
  <1>2. Ready("ParamCall")
    BY <1>1, Readiness
  <1>3. Served("ParamCall")
    BY <1>2, ServesParamCall
  <1>4. Steady("ParamCall")
    BY Zenon DEF ExitParamCall, Push, Reduce, Stop, SameScope, Steady
  <1> QED BY <1>1, <1>2, <1>3, <1>4 DEF Handles

LEMMA HandlesNil == ASSUME WellTyped, Annotation, ExitNil PROVE Handles("Nil")
  <1>1. At("Nil") /\ "Nil" \in Handled
    BY Zenon DEF ExitNil, Handled
  <1>2. Ready("Nil")
    BY <1>1, Readiness
  <1>3. Served("Nil")
    BY <1>2, ServesNil
  <1>4. Steady("Nil")
    BY Zenon DEF ExitNil, Push, Reduce, Stop, SameScope, Steady
  <1> QED BY <1>1, <1>2, <1>3, <1>4 DEF Handles

LEMMA HandlesInteger == ASSUME WellTyped, Annotation, ExitInteger PROVE Handles("Integer")
  <1>1. At("Integer") /\ "Integer" \in Handled
    BY Zenon DEF ExitInteger, Handled
  <1>2. Ready("Integer")
    BY <1>1, Readiness
  <1>3. Served("Integer")
    BY <1>2, ServesInteger
  <1>4. Steady("Integer")
    BY Zenon DEF ExitInteger, Number, Push, Reduce, Stop, SameScope, Steady
  <1> QED BY <1>1, <1>2, <1>3, <1>4 DEF Handles

LEMMA HandlesFloat_ == ASSUME WellTyped, Annotation, ExitFloat_ PROVE Handles("Float_")
  <1>1. At("Float_") /\ "Float_" \in Handled
    BY Zenon DEF ExitFloat_, Handled
  <1>2. Ready("Float_")
    BY <1>1, Readiness
  <1>3. Served("Float_")
    BY <1>2, ServesFloat_
  <1>4. Steady("Float_")
    BY Zenon DEF ExitFloat_, Number, Push, Reduce, Stop, SameScope, Steady
  <1> QED BY <1>1, <1>2, <1>3, <1>4 DEF Handles

LEMMA HandlesString_ == ASSUME WellTyped, Annotation, ExitString_ PROVE Handles("String_")
  <1>1. At("String_") /\ "String_" \in Handled
    BY Zenon DEF ExitString_, Handled
  <1>2. Ready("String_")
    BY <1>1, Readiness
  <1>3. Served("String_")
    BY <1>2, ServesString_
  <1>4. Steady("String_")
    BY Zenon DEF ExitString_, Push, Reduce, Stop, SameScope, Steady
  <1> QED BY <1>1, <1>2, <1>3, <1>4 DEF Handles

LEMMA HandlesBool_ == ASSUME WellTyped, Annotation, ExitBool_ PROVE Handles("Bool_")
  <1>1. At("Bool_") /\ "Bool_" \in Handled
    BY Zenon DEF ExitBool_, Handled
  <1>2. Ready("Bool_")
    BY <1>1, Readiness
  <1>3. Served("Bool_")
    BY <1>2, ServesBool_
  <1>4. Steady("Bool_")
    BY Zenon DEF ExitBool_, Push, Reduce, Stop, SameScope, Steady
  <1> QED BY <1>1, <1>2, <1>3, <1>4 DEF Handles

LEMMA HandlesStartPair == ASSUME WellTyped, Annotation, ExitStartPair PROVE Handles("StartPair")
  <1>1. At("StartPair") /\ "StartPair" \in Handled
    BY Zenon DEF ExitStartPair, Handled
  <1>2. Ready("StartPair")
    BY <1>1, Readiness
  <1>3. Served("StartPair")
    BY <1>2, ServesStartPair
  <1>4. Steady("StartPair")
    BY Zenon DEF ExitStartPair, Push, Reduce, Stop, SameScope, Steady
  <1> QED BY <1>1, <1>2, <1>3, <1>4 DEF Handles

LEMMA HandlesNegative == ASSUME WellTyped, Annotation, ExitNegative PROVE Handles("Negative")
  <1>1. At("Negative") /\ "Negative" \in Handled
    BY Zenon DEF ExitNegative, Handled
  <1>2. Ready("Negative")
    BY <1>1, Readiness
  <1>3. Served("Negative")
    BY <1>2, ServesNegative
  <1>4. Steady("Negative")
    BY Zenon DEF ExitNegative, Reduce, Stop, SameScope, Steady
  <1> QED BY <1>1, <1>2, <1>3, <1>4 DEF Handles

LEMMA HandlesPrefix == ASSUME WellTyped, Annotation, ExitPrefix PROVE Handles("Prefix")
  <1>1. At("Prefix") /\ "Prefix" \in Handled
    BY Zenon DEF ExitPrefix, Handled
  <1>2. Ready("Prefix")
    BY <1>1, Readiness
  <1>3. Served("Prefix")
    BY <1>2, ServesPrefix
  <1>4. Steady("Prefix")
    BY Zenon DEF ExitPrefix, Reduce, Stop, SameScope, Steady
  <1> QED BY <1>1, <1>2, <1>3, <1>4 DEF Handles

LEMMA HandlesLrExpr == ASSUME WellTyped, Annotation, ExitLrExpr PROVE Handles("LrExpr")
  <1>1. At("LrExpr") /\ "LrExpr" \in Handled
    BY Zenon DEF ExitLrExpr, Handled
  <1>2. Ready("LrExpr")
    BY <1>1, Readiness
  <1>3. Served("LrExpr")
    BY <1>2, ServesLrExpr
  <1>4. Steady("LrExpr")
    BY Zenon DEF ExitLrExpr, Reduce, Stop, SameScope, Steady
  <1> QED BY <1>1, <1>2, <1>3, <1>4 DEF Handles

LEMMA HandlesAccessHistory == ASSUME WellTyped, Annotation, ExitAccessHistory PROVE Handles("AccessHistory")
  <1>1. At("AccessHistory") /\ "AccessHistory" \in Handled
    BY Zenon DEF ExitAccessHistory, Handled
  <1>2. Ready("AccessHistory")
    BY <1>1, Readiness
  <1>3. Served("AccessHistory")
    BY <1>2, ServesAccessHistory
  <1>4. Steady("AccessHistory")
    BY Zenon DEF ExitAccessHistory, Reduce, Stop, SameScope, Steady
  <1> QED BY <1>1, <1>2, <1>3, <1>4 DEF Handles

LEMMA HandlesNatural == ASSUME WellTyped, Annotation, ExitSolvable, At("Natural") PROVE Handles("Natural")
  <1>1. At("Natural") /\ "Natural" \in Handled
    BY Zenon DEF Handled
  <1>2. Ready("Natural")
    BY <1>1, Readiness
  <1>3. Served("Natural")
    BY <1>2, ServesNatural
  <1>4. Steady("Natural")
    BY Zenon DEF ExitSolvable, Reduce, Stop, SameScope, Steady
  <1> QED BY <1>1, <1>2, <1>3, <1>4 DEF Handles

LEMMA HandlesUncertain == ASSUME WellTyped, Annotation, ExitSolvable, At("Uncertain") PROVE Handles("Uncertain")
  <1>1. At("Uncertain") /\ "Uncertain" \in Handled
    BY Zenon DEF Handled
  <1>2. Ready("Uncertain")
    BY <1>1, Readiness
  <1>3. Served("Uncertain")
    BY <1>2, ServesUncertain
  <1>4. Steady("Uncertain")
    BY Zenon DEF ExitSolvable, Reduce, Stop, SameScope, Steady
  <1> QED BY <1>1, <1>2, <1>3, <1>4 DEF Handles

LEMMA HandlesUnknown == ASSUME WellTyped, Annotation, ExitSolvable, At("Unknown") PROVE Handles("Unknown")
  <1>1. At("Unknown") /\ "Unknown" \in Handled
    BY Zenon DEF Handled
  <1>2. Ready("Unknown")
    BY <1>1, Readiness
  <1>3. Served("Unknown")
    BY <1>2, ServesUnknown
  <1>4. Steady("Unknown")
    BY Zenon DEF ExitSolvable, Reduce, Stop, SameScope, Steady
  <1> QED BY <1>1, <1>2, <1>3, <1>4 DEF Handles

LEMMA HandlesOtherType == ASSUME WellTyped, Annotation, ExitSolvable, At("OtherType") PROVE Handles("OtherType")
  <1>1. At("OtherType") /\ "OtherType" \in Handled
    BY Zenon DEF Handled
  <1>2. Ready("OtherType")
    BY <1>1, Readiness
  <1>3. Served("OtherType")
    BY <1>2, ServesOtherType
  <1>4. Steady("OtherType")
    BY Zenon DEF ExitSolvable, Reduce, Stop, SameScope, Steady
  <1> QED BY <1>1, <1>2, <1>3, <1>4 DEF Handles

LEMMA HandlesAdvance == ASSUME WellTyped, Annotation, ExitBuiltins, At("Advance") PROVE Handles("Advance")
  <1>1. At("Advance") /\ "Advance" \in Handled
    BY Zenon DEF Handled
  <1>2. Ready("Advance")
    BY <1>1, Readiness
  <1>3. Served("Advance")
    BY <1>2, ServesAdvance
  <1>4. Steady("Advance")
    BY Zenon DEF ExitBuiltins, Reduce, Stop, SameScope, Steady
  <1> QED BY <1>1, <1>2, <1>3, <1>4 DEF Handles

LEMMA HandlesStay == ASSUME WellTyped, Annotation, ExitBuiltins, At("Stay") PROVE Handles("Stay")
  <1>1. At("Stay") /\ "Stay" \in Handled
    BY Zenon DEF Handled
  <1>2. Ready("Stay")
    BY <1>1, Readiness
  <1>3. Served("Stay")
    BY <1>2, ServesStay
  <1>4. Steady("Stay")
    BY Zenon DEF ExitBuiltins, Reduce, Stop, SameScope, Steady
  <1> QED BY <1>1, <1>2, <1>3, <1>4 DEF Handles

LEMMA HandlesBuiltinInfix == ASSUME WellTyped, Annotation, ExitBuiltinInfix PROVE Handles("BuiltinInfix")
  <1>1. At("BuiltinInfix") /\ "BuiltinInfix" \in Handled
    BY Zenon DEF ExitBuiltinInfix, Handled
  <1>2. Ready("BuiltinInfix")
    BY <1>1, Readiness
  <1>3. Served("BuiltinInfix")
    BY <1>2, ServesBuiltinInfix
  <1>4. Steady("BuiltinInfix")
    BY Zenon DEF ExitBuiltinInfix, Binary, Reduce, Stop, SameScope, Steady
  <1> QED BY <1>1, <1>2, <1>3, <1>4 DEF Handles

LEMMA HandlesIncDecStmt == ASSUME WellTyped, Annotation, ExitIncDecStmt PROVE Handles("IncDecStmt")
  <1>1. At("IncDecStmt") /\ "IncDecStmt" \in Handled
    BY Zenon DEF ExitIncDecStmt, Handled
  <1>2. Ready("IncDecStmt")
    BY <1>1, Readiness
  <1>3. Served("IncDecStmt")
    BY <1>2, ServesIncDecStmt
  <1>4. Steady("IncDecStmt")
    BY Zenon DEF ExitIncDecStmt, Reduce, Stop, SameScope, Steady
  <1> QED BY <1>1, <1>2, <1>3, <1>4 DEF Handles

LEMMA HandlesFaultAssign == ASSUME WellTyped, Annotation, ExitFaultAssign PROVE Handles("FaultAssign")
  <1>1. At("FaultAssign") /\ "FaultAssign" \in Handled
    BY Zenon DEF ExitFaultAssign, Handled
  <1>2. Ready("FaultAssign")
    BY <1>1, Readiness
  <1>3. Served("FaultAssign")
    BY <1>2, ServesFaultAssign
  <1>4. Steady("FaultAssign")
    BY Zenon DEF ExitFaultAssign, Binary, Reduce, Stop, SameScope, Steady
  <1> QED BY <1>1, <1>2, <1>3, <1>4 DEF Handles

LEMMA HandlesMiscAssign == ASSUME WellTyped, Annotation, ExitMiscAssign PROVE Handles("MiscAssign")
  <1>1. At("MiscAssign") /\ "MiscAssign" \in Handled
    BY Zenon DEF ExitMiscAssign, Handled
  <1>2. Ready("MiscAssign")
    BY <1>1, Readiness
  <1>3. Served("MiscAssign")
    BY <1>2, ServesMiscAssign
  <1>4. Steady("MiscAssign")
    BY Zenon DEF ExitMiscAssign, Reduce, Stop, SameScope, Steady
  <1> QED BY <1>1, <1>2, <1>3, <1>4 DEF Handles

LEMMA HandlesInitDecl == ASSUME WellTyped, Annotation, ExitInitDecl PROVE Handles("InitDecl")
  <1>1. At("InitDecl") /\ "InitDecl" \in Handled
    BY Zenon DEF ExitInitDecl, Handled
  <1>2. Ready("InitDecl")
    BY <1>1, Readiness
  <1>3. Served("InitDecl")
    BY <1>2, ServesInitDecl
  <1>4. Steady("InitDecl")
    BY Zenon DEF ExitInitDecl, Reduce, Stop, SameScope, Steady
  <1> QED BY <1>1, <1>2, <1>3, <1>4 DEF Handles

LEMMA HandlesStatementList == ASSUME WellTyped, Annotation, ExitStatementList PROVE Handles("StatementList")
  <1>1. At("StatementList") /\ "StatementList" \in Handled
    BY Zenon DEF ExitStatementList, Handled
  <1>2. Ready("StatementList")
    BY <1>1, Readiness
  <1>3. Served("StatementList")
    BY <1>2, ServesStatementList
  <1>4. Steady("StatementList")
    BY Zenon DEF ExitStatementList, Reduce, Stop, SameScope, Steady
  <1> QED BY <1>1, <1>2, <1>3, <1>4 DEF Handles

LEMMA HandlesBlock == ASSUME WellTyped, Annotation, ExitBlock PROVE Handles("Block")
  <1>1. At("Block") /\ "Block" \in Handled
    BY Zenon DEF ExitBlock, Handled
  <1>2. Ready("Block")
    BY <1>1, Readiness
  <1>3. Served("Block")
    BY <1>2, ServesBlock
  <1>4. Steady("Block")
    BY Zenon DEF ExitBlock, Reduce, Stop, SameScope, Steady
  <1> QED BY <1>1, <1>2, <1>3, <1>4 DEF Handles

LEMMA HandlesIfStmt == ASSUME WellTyped, Annotation, ExitIfStmt PROVE Handles("IfStmt")
  <1>1. At("IfStmt") /\ "IfStmt" \in Handled
    BY Zenon DEF ExitIfStmt, Handled
  <1>2. Ready("IfStmt")
    BY <1>1, Readiness
  <1>3. Served("IfStmt")
    BY <1>2, ServesIfStmt
  <1>4. Steady("IfStmt")
    BY Zenon DEF ExitIfStmt, AssembleIf, Reduce, Stop, SameScope, Steady
  <1> QED BY <1>1, <1>2, <1>3, <1>4 DEF Handles

LEMMA HandlesIfStmtState == ASSUME WellTyped, Annotation, ExitIfStmtState PROVE Handles("IfStmtState")
  <1>1. At("IfStmtState") /\ "IfStmtState" \in Handled
    BY Zenon DEF ExitIfStmtState, Handled
  <1>2. Ready("IfStmtState")
    BY <1>1, Readiness
  <1>3. Served("IfStmtState")
    BY <1>2, ServesIfStmtState
  <1>4. Steady("IfStmtState")
    BY Zenon DEF ExitIfStmtState, AssembleIf, Reduce, Stop, SameScope, Steady
  <1> QED BY <1>1, <1>2, <1>3, <1>4 DEF Handles

LEMMA HandlesIfStmtRun == ASSUME WellTyped, Annotation, ExitIfStmtRun PROVE Handles("IfStmtRun")
  <1>1. At("IfStmtRun") /\ "IfStmtRun" \in Handled
    BY Zenon DEF ExitIfStmtRun, Handled
  <1>2. Ready("IfStmtRun")
    BY <1>1, Readiness
  <1>3. Served("IfStmtRun")
    BY <1>2, ServesIfStmtRun
  <1>4. Steady("IfStmtRun")
    BY Zenon DEF ExitIfStmtRun, AssembleIf, Reduce, Stop, SameScope, Steady
  <1> QED BY <1>1, <1>2, <1>3, <1>4 DEF Handles

LEMMA HandlesRunBlock == ASSUME WellTyped, Annotation, ExitRunBlock PROVE Handles("RunBlock")
  <1>1. At("RunBlock") /\ "RunBlock" \in Handled
    BY Zenon DEF ExitRunBlock, Handled
  <1>2. Ready("RunBlock")
    BY <1>1, Readiness
  <1>3. Served("RunBlock")
    BY <1>2, ServesRunBlock
  <1>4. Steady("RunBlock")
    BY Zenon DEF ExitRunBlock, Reduce, Stop, SameScope, Steady
  <1> QED BY <1>1, <1>2, <1>3, <1>4 DEF Handles

LEMMA HandlesStateBlock == ASSUME WellTyped, Annotation, ExitStateBlock PROVE Handles("StateBlock")
  <1>1. At("StateBlock") /\ "StateBlock" \in Handled
    BY Zenon DEF ExitStateBlock, Handled
  <1>2. Ready("StateBlock")
    BY <1>1, Readiness
  <1>3. Served("StateBlock")
    BY <1>2, ServesStateBlock
  <1>4. Steady("StateBlock")
    BY Zenon DEF ExitStateBlock, Reduce, Stop, SameScope, Steady
  <1> QED BY <1>1, <1>2, <1>3, <1>4 DEF Handles

LEMMA HandlesRunInit == ASSUME WellTyped, Annotation, ExitRunInit PROVE Handles("RunInit")
  <1>1. At("RunInit") /\ "RunInit" \in Handled
    BY Zenon DEF ExitRunInit, Handled
  <1>2. Ready("RunInit")
    BY <1>1, Readiness
  <1>3. Served("RunInit")
    BY <1>2, ServesRunInit
  <1>4. Steady("RunInit")
    BY Zenon DEF ExitRunInit, Reduce, Stop, SameScope, Steady
  <1> QED BY <1>1, <1>2, <1>3, <1>4 DEF Handles

LEMMA HandlesRunStepExpr == ASSUME WellTyped, Annotation, ExitRunStepExpr PROVE Handles("RunStepExpr")
  <1>1. At("RunStepExpr") /\ "RunStepExpr" \in Handled
    BY Zenon DEF ExitRunStepExpr, Handled
  <1>2. Ready("RunStepExpr")
    BY <1>1, Readiness
  <1>3. Served("RunStepExpr")
    BY <1>2, ServesRunStepExpr
  <1>4. Steady("RunStepExpr")
    BY Zenon DEF ExitRunStepExpr, Calls, Reduce, Stop, SameScope, Steady
  <1> QED BY <1>1, <1>2, <1>3, <1>4 DEF Handles

LEMMA HandlesStateStepExpr == ASSUME WellTyped, Annotation, ExitStateStepExpr PROVE Handles("StateStepExpr")
  <1>1. At("StateStepExpr") /\ "StateStepExpr" \in Handled
    BY Zenon DEF ExitStateStepExpr, Handled
  <1>2. Ready("StateStepExpr")
    BY <1>1, Readiness
  <1>3. Served("StateStepExpr")
    BY <1>2, ServesStateStepExpr
  <1>4. Steady("StateStepExpr")
    BY Zenon DEF ExitStateStepExpr, Calls, Reduce, Stop, SameScope, Steady
  <1> QED BY <1>1, <1>2, <1>3, <1>4 DEF Handles

LEMMA HandlesRunExpr == ASSUME WellTyped, Annotation, ExitRunExpr PROVE Handles("RunExpr")
  <1>1. At("RunExpr") /\ "RunExpr" \in Handled
    BY Zenon DEF ExitRunExpr, Handled
  <1>2. Ready("RunExpr")
    BY <1>1, Readiness
  <1>3. Served("RunExpr")
    BY <1>2, ServesRunExpr
  <1>4. Steady("RunExpr")
    BY Zenon DEF ExitRunExpr, Wrap, Reduce, Stop, SameScope, Steady
  <1> QED BY <1>1, <1>2, <1>3, <1>4 DEF Handles

LEMMA HandlesStateExpr == ASSUME WellTyped, Annotation, ExitStateExpr PROVE Handles("StateExpr")
  <1>1. At("StateExpr") /\ "StateExpr" \in Handled
    BY Zenon DEF ExitStateExpr, Handled
  <1>2. Ready("StateExpr")
    BY <1>1, Readiness
  <1>3. Served("StateExpr")
    BY <1>2, ServesStateExpr
  <1>4. Steady("StateExpr")
    BY Zenon DEF ExitStateExpr, Wrap, Reduce, Stop, SameScope, Steady
  <1> QED BY <1>1, <1>2, <1>3, <1>4 DEF Handles

LEMMA HandlesForStmt == ASSUME WellTyped, Annotation, ExitForStmt PROVE Handles("ForStmt")
  <1>1. At("ForStmt") /\ "ForStmt" \in Handled
    BY Zenon DEF ExitForStmt, Handled
  <1>2. Ready("ForStmt")
    BY <1>1, Readiness
  <1>3. Served("ForStmt")
    BY <1>2, ServesForStmt
  <1>4. Steady("ForStmt")
    BY Zenon DEF ExitForStmt, Reduce, Stop, SameScope, Steady
  <1> QED BY <1>1, <1>2, <1>3, <1>4 DEF Handles

LEMMA HandlesStageInvariant == ASSUME WellTyped, Annotation, ExitStageInvariant PROVE Handles("StageInvariant")
  <1>1. At("StageInvariant") /\ "StageInvariant" \in Handled
    BY Zenon DEF ExitStageInvariant, Handled
  <1>2. Ready("StageInvariant")
    BY <1>1, Readiness
  <1>3. Served("StageInvariant")
    BY <1>2, ServesStageInvariant
  <1>4. Steady("StageInvariant")
    BY Zenon DEF ExitStageInvariant, Binary, Reduce, Stop, SameScope, Steady
  <1> QED BY <1>1, <1>2, <1>3, <1>4 DEF Handles

LEMMA HandlesAssertion == ASSUME WellTyped, Annotation, ExitAssertion PROVE Handles("Assertion")
  <1>1. At("Assertion") /\ "Assertion" \in Handled
    BY Zenon DEF ExitAssertion, Handled
  <1>2. Ready("Assertion")
    BY <1>1, Readiness
  <1>3. Served("Assertion")
    BY <1>2, ServesAssertion
  <1>4. Steady("Assertion")
    BY Zenon DEF ExitAssertion, AssertThat, Reduce, Stop, SameScope, Steady
  <1> QED BY <1>1, <1>2, <1>3, <1>4 DEF Handles

LEMMA HandlesAssumption == ASSUME WellTyped, Annotation, ExitAssumption PROVE Handles("Assumption")
  <1>1. At("Assumption") /\ "Assumption" \in Handled
    BY Zenon DEF ExitAssumption, Handled
  <1>2. Ready("Assumption")
    BY <1>1, Readiness
  <1>3. Served("Assumption")
    BY <1>2, ServesAssumption
  <1>4. Steady("Assumption")
    BY Zenon DEF ExitAssumption, AssertThat, Reduce, Stop, SameScope, Steady
  <1> QED BY <1>1, <1>2, <1>3, <1>4 DEF Handles

LEMMA HandlesPropInt == ASSUME WellTyped, Annotation, ExitPropInt PROVE Handles("PropInt")
  <1>1. At("PropInt") /\ "PropInt" \in Handled
    BY Zenon DEF ExitPropInt, Handled
  <1>2. Ready("PropInt")
    BY <1>1, Readiness
  <1>3. Served("PropInt")
    BY <1>2, ServesPropInt
  <1>4. Steady("PropInt")
    BY Zenon DEF ExitPropInt, Property, Reduce, Stop, SameScope, Steady
  <1> QED BY <1>1, <1>2, <1>3, <1>4 DEF Handles

LEMMA HandlesPropBool == ASSUME WellTyped, Annotation, ExitPropBool PROVE Handles("PropBool")
  <1>1. At("PropBool") /\ "PropBool" \in Handled
    BY Zenon DEF ExitPropBool, Handled
  <1>2. Ready("PropBool")
    BY <1>1, Readiness
  <1>3. Served("PropBool")
    BY <1>2, ServesPropBool
  <1>4. Steady("PropBool")
    BY Zenon DEF ExitPropBool, Property, Reduce, Stop, SameScope, Steady
  <1> QED BY <1>1, <1>2, <1>3, <1>4 DEF Handles

LEMMA HandlesPropString == ASSUME WellTyped, Annotation, ExitPropString PROVE Handles("PropString")
  <1>1. At("PropString") /\ "PropString" \in Handled
    BY Zenon DEF ExitPropString, Handled
  <1>2. Ready("PropString")
    BY <1>1, Readiness
  <1>3. Served("PropString")
    BY <1>2, ServesPropString
  <1>4. Steady("PropString")
    BY Zenon DEF ExitPropString, Property, Reduce, Stop, SameScope, Steady
  <1> QED BY <1>1, <1>2, <1>3, <1>4 DEF Handles

LEMMA HandlesPropVar == ASSUME WellTyped, Annotation, ExitPropVar PROVE Handles("PropVar")
  <1>1. At("PropVar") /\ "PropVar" \in Handled
    BY Zenon DEF ExitPropVar, Handled
  <1>2. Ready("PropVar")
    BY <1>1, Readiness
  <1>3. Served("PropVar")
    BY <1>2, ServesPropVar
  <1>4. Steady("PropVar")
    BY Zenon DEF ExitPropVar, Property, Reduce, Stop, SameScope, Steady
  <1> QED BY <1>1, <1>2, <1>3, <1>4 DEF Handles

LEMMA HandlesPropSolvable == ASSUME WellTyped, Annotation, ExitPropSolvable PROVE Handles("PropSolvable")
  <1>1. At("PropSolvable") /\ "PropSolvable" \in Handled
    BY Zenon DEF ExitPropSolvable, Handled
  <1>2. Ready("PropSolvable")
    BY <1>1, Readiness
  <1>3. Served("PropSolvable")
    BY <1>2, ServesPropSolvable
  <1>4. Steady("PropSolvable")
    BY Zenon DEF ExitPropSolvable, Property, Reduce, Stop, SameScope, Steady
  <1> QED BY <1>1, <1>2, <1>3, <1>4 DEF Handles

LEMMA HandlesPropFunc == ASSUME WellTyped, Annotation, ExitPropFunc PROVE Handles("PropFunc")
  <1>1. At("PropFunc") /\ "PropFunc" \in Handled
    BY Zenon DEF ExitPropFunc, Handled
  <1>2. Ready("PropFunc")
    BY <1>1, Readiness
  <1>3. Served("PropFunc")
    BY <1>2, ServesPropFunc
  <1>4. Steady("PropFunc")
    BY Zenon DEF ExitPropFunc, Property, Reduce, Stop, Steady
  <1> QED BY <1>1, <1>2, <1>3, <1>4 DEF Handles

LEMMA HandlesStateFunc == ASSUME WellTyped, Annotation, ExitStateFunc PROVE Handles("StateFunc")
  <1>1. At("StateFunc") /\ "StateFunc" \in Handled
    BY Zenon DEF ExitStateFunc, Handled
  <1>2. Ready("StateFunc")
    BY <1>1, Readiness
  <1>3. Served("StateFunc")
    BY <1>2, ServesStateFunc
  <1>4. Steady("StateFunc")
    BY Zenon DEF ExitStateFunc, Property, Reduce, Stop, Steady
  <1> QED BY <1>1, <1>2, <1>3, <1>4 DEF Handles

LEMMA HandlesFunctionLit == ASSUME WellTyped, Annotation, ExitFunctionLit PROVE Handles("FunctionLit")
  <1>1. At("FunctionLit") /\ "FunctionLit" \in Handled
    BY Zenon DEF ExitFunctionLit, Handled
  <1>2. Ready("FunctionLit")
    BY <1>1, Readiness
  <1>3. Served("FunctionLit")
    BY <1>2, ServesFunctionLit
  <1>4. Steady("FunctionLit")
    BY Zenon DEF ExitFunctionLit, Literal, Reduce, Stop, SameScope, Steady
  <1> QED BY <1>1, <1>2, <1>3, <1>4 DEF Handles

LEMMA HandlesStateLit == ASSUME WellTyped, Annotation, ExitStateLit PROVE Handles("StateLit")
  <1>1. At("StateLit") /\ "StateLit" \in Handled
    BY Zenon DEF ExitStateLit, Handled
  <1>2. Ready("StateLit")
    BY <1>1, Readiness
  <1>3. Served("StateLit")
    BY <1>2, ServesStateLit
  <1>4. Steady("StateLit")
    BY Zenon DEF ExitStateLit, Literal, Reduce, Stop, SameScope, Steady
  <1> QED BY <1>1, <1>2, <1>3, <1>4 DEF Handles

LEMMA HandlesStock == ASSUME WellTyped, Annotation, ExitStock PROVE Handles("Stock")
  <1>1. At("Stock") /\ "Stock" \in Handled
    BY Zenon DEF ExitStock, Handled
  <1>2. Ready("Stock")
    BY <1>1, Readiness
  <1>3. Served("Stock")
    BY <1>2, ServesStock
  <1>4. Steady("Stock")
    BY Zenon DEF ExitStock, GetPairs, Reduce, Stop, SameScope, Steady
  <1> QED BY <1>1, <1>2, <1>3, <1>4 DEF Handles

LEMMA HandlesFlow == ASSUME WellTyped, Annotation, ExitFlow PROVE Handles("Flow")
  <1>1. At("Flow") /\ "Flow" \in Handled
    BY Zenon DEF ExitFlow, Handled
  <1>2. Ready("Flow")
    BY <1>1, Readiness
  <1>3. Served("Flow")
    BY <1>2, ServesFlow
  <1>4. Steady("Flow")
    BY Zenon DEF ExitFlow, GetPairs, Reduce, Stop, SameScope, Steady
  <1> QED BY <1>1, <1>2, <1>3, <1>4 DEF Handles

LEMMA HandlesComponentDecl == ASSUME WellTyped, Annotation, ExitComponentDecl PROVE Handles("ComponentDecl")
  <1>1. At("ComponentDecl") /\ "ComponentDecl" \in Handled
    BY Zenon DEF ExitComponentDecl, Handled
  <1>2. Ready("ComponentDecl")
    BY <1>1, Readiness
  <1>3. Served("ComponentDecl")
    BY <1>2, ServesComponentDecl
  <1>4. Steady("ComponentDecl")
    BY Zenon DEF ExitComponentDecl, Reduce, Stop, SameScope, Steady
  <1> QED BY <1>1, <1>2, <1>3, <1>4 DEF Handles

LEMMA HandlesStructDecl == ASSUME WellTyped, Annotation, ExitStructDecl PROVE Handles("StructDecl")
  <1>1. At("StructDecl") /\ "StructDecl" \in Handled
    BY Zenon DEF ExitStructDecl, Handled
  <1>2. Ready("StructDecl")
    BY <1>1, Readiness
  <1>3. Served("StructDecl")
    BY <1>2, ServesStructDecl
  <1>4. Steady("StructDecl")
    BY Zenon DEF ExitStructDecl, Reduce, Stop, Steady
  <1> QED BY <1>1, <1>2, <1>3, <1>4 DEF Handles

LEMMA HandlesGlobalDecl == ASSUME WellTyped, Annotation, ExitGlobalDecl PROVE Handles("GlobalDecl")
  <1>1. At("GlobalDecl") /\ "GlobalDecl" \in Handled
    BY Zenon DEF ExitGlobalDecl, Handled
  <1>2. Ready("GlobalDecl")
    BY <1>1, Readiness
  <1>3. Served("GlobalDecl")
    BY <1>2, ServesGlobalDecl
  <1>4. Steady("GlobalDecl")
    BY Zenon DEF ExitGlobalDecl, Reduce, Stop, SameScope, Steady
  <1> QED BY <1>1, <1>2, <1>3, <1>4 DEF Handles

LEMMA HandlesConstSpec == ASSUME WellTyped, Annotation, ExitConstSpec PROVE Handles("ConstSpec")
  <1>1. At("ConstSpec") /\ "ConstSpec" \in Handled
    BY Zenon DEF ExitConstSpec, Handled
  <1>2. Ready("ConstSpec")
    BY <1>1, Readiness
  <1>3. Served("ConstSpec")
    BY <1>2, ServesConstSpec
  <1>4. Steady("ConstSpec")
    BY Zenon DEF ExitConstSpec, Reduce, Stop, SameScope, Steady
  <1> QED BY <1>1, <1>2, <1>3, <1>4 DEF Handles

LEMMA HandlesStartBlock == ASSUME WellTyped, Annotation, ExitStartBlock PROVE Handles("StartBlock")
  <1>1. At("StartBlock") /\ "StartBlock" \in Handled
    BY Zenon DEF ExitStartBlock, Handled
  <1>2. Ready("StartBlock")
    BY <1>1, Readiness
  <1>3. Served("StartBlock")
    BY <1>2, ServesStartBlock
  <1>4. Steady("StartBlock")
    BY Zenon DEF ExitStartBlock, Reduce, Stop, SameScope, Steady
  <1> QED BY <1>1, <1>2, <1>3, <1>4 DEF Handles

LEMMA HandlesImportDecl == ASSUME WellTyped, Annotation, ExitImportDecl PROVE Handles("ImportDecl")
  <1>1. At("ImportDecl") /\ "ImportDecl" \in Handled
    BY Zenon DEF ExitImportDecl, Handled
  <1>2. Ready("ImportDecl")
    BY <1>1, Readiness
  <1>3. Served("ImportDecl")
    BY <1>2, ServesImportDecl
  <1>4. Steady("ImportDecl")
    BY Zenon DEF ExitImportDecl, Reduce, Stop, SameScope, Steady
  <1> QED BY <1>1, <1>2, <1>3, <1>4 DEF Handles

LEMMA HandlesSpec == ASSUME WellTyped, Annotation, ExitSpec PROVE Handles("Spec")
  <1>1. At("Spec") /\ "Spec" \in Handled
    BY Zenon DEF ExitSpec, Handled
  <1>2. Ready("Spec") /\ Head(walk).base = 0
    BY <1>1, Readiness
  <1>3. Served("Spec")
    BY <1>2, Wholes DEF ExitSpec
  <1>4. Steady("Spec")
    BY Zenon DEF ExitSpec, Whole, Stop, Steady
  <1> QED BY <1>1, <1>2, <1>3, <1>4 DEF Handles

LEMMA HandlesSysSpec == ASSUME WellTyped, Annotation, ExitSysSpec PROVE Handles("SysSpec")
  <1>1. At("SysSpec") /\ "SysSpec" \in Handled
    BY Zenon DEF ExitSysSpec, Handled
  <1>2. Ready("SysSpec") /\ Head(walk).base = 0
    BY <1>1, Readiness
  <1>3. Served("SysSpec")
    BY <1>2, Wholes DEF ExitSysSpec
  <1>4. Steady("SysSpec")
    BY Zenon DEF ExitSysSpec, Whole, Stop, Steady
  <1> QED BY <1>1, <1>2, <1>3, <1>4 DEF Handles

LEMMA LeavesHandled == ASSUME WellTyped, Annotation, Leaves PROVE \E label : Handles(label)
  <1> QED BY HandlesSpecClause, HandlesSysClause, HandlesOpName, HandlesOpInstance, HandlesOpThis,
           HandlesOpClock, HandlesParamCall, HandlesNil, HandlesInteger, HandlesFloat_, HandlesString_,
           HandlesBool_, HandlesStartPair DEF Leaves

LEMMA ExpressionExitsHandled == ASSUME WellTyped, Annotation, ExpressionExits PROVE \E label : Handles(label)
  <1>1. ExitSolvable => At("Natural") \/ At("Uncertain") \/ At("Unknown") \/ At("OtherType")
    BY Zenon DEF ExitSolvable
  <1>2. ExitBuiltins => At("Advance") \/ At("Stay")
    BY Zenon DEF ExitBuiltins
  <1> QED BY <1>1, <1>2, HandlesNegative, HandlesPrefix, HandlesLrExpr, HandlesAccessHistory, HandlesNatural,
           HandlesUncertain, HandlesUnknown, HandlesOtherType, HandlesAdvance, HandlesStay, HandlesBuiltinInfix DEF ExpressionExits

LEMMA StatementExitsHandled == ASSUME WellTyped, Annotation, StatementExits PROVE \E label : Handles(label)
  <1> QED BY HandlesIncDecStmt, HandlesFaultAssign, HandlesMiscAssign, HandlesInitDecl, HandlesStatementList,
           HandlesBlock, HandlesIfStmt, HandlesIfStmtState, HandlesIfStmtRun, HandlesRunBlock,
           HandlesStateBlock, HandlesRunInit, HandlesRunStepExpr, HandlesStateStepExpr, HandlesRunExpr,
           HandlesStateExpr, HandlesForStmt, HandlesStageInvariant, HandlesAssertion, HandlesAssumption DEF StatementExits

LEMMA DeclarationExitsHandled ==
  ASSUME WellTyped, Annotation, DeclarationExits, ~ExitImportSpec, ~Imported PROVE \E label : Handles(label)
  <1> QED BY HandlesPropInt, HandlesPropBool, HandlesPropString, HandlesPropVar, HandlesPropSolvable,
           HandlesPropFunc, HandlesStateFunc, HandlesFunctionLit, HandlesStateLit, HandlesStock, HandlesFlow,
           HandlesComponentDecl, HandlesStructDecl, HandlesGlobalDecl, HandlesConstSpec, HandlesStartBlock,
           HandlesImportDecl, HandlesSpec, HandlesSysSpec DEF DeclarationExits

\* The steps of a walk.
LEMMA StepsOfWalk ==
  ASSUME WellTyped, Annotation, Next
  PROVE  \/ Enter \/ ExitImportSpec \/ Imported \/ Done \/ Ended
         \/ \E label : Handles(label)
  BY LeavesHandled, ExpressionExitsHandled, StatementExitsHandled, DeclarationExitsHandled, Zenon DEF Next

-----------------------------------------------------------------------------
(***************************************************************************)
(* The invariant is inductive.                                             *)
(***************************************************************************)
Safe == WellTyped /\ Annotation /\ NeverCrashes

LEMMA SafeInit == Init => Safe
  <1> SUFFICES ASSUME Init PROVE Safe
    OBVIOUS
  <1>1. PICK rule : rule \in Files /\ walk = <<Rule(rule)>>
    BY DEF Init, Files
  <1>2. rule \in DOMAIN Rules /\ Rule(rule) \in Items /\ Rule(rule).enter = TRUE /\ Rule(rule).of = rule
    BY <1>1, NamesOfRules DEF Rule, Items
  <1>3. walk \in Seq(Items) /\ Len(walk) = 1 /\ walk[1] = Rule(rule) /\ DOMAIN walk = {1}
    BY <1>1, <1>2
  <1>4. outcome = "walking" /\ stack = <<>> /\ outer = <<>> /\ outer \in Seq(Saved)
    BY DEF Init
  <1>5. TypeOK
    <2>1. \A i \in DOMAIN walk : ~IsExit(walk[i])
      BY <1>2, <1>3 DEF IsExit
    <2>2. fuel \in 0..Budget
      BY BudgetAssumption DEF Init
    <2>3. scope \in Seq({Unnamed, "struct", "func"}) /\ structscope \in {Unnamed, "struct"} /\ skipRun \in BOOLEAN
      <3>1. scope = <<Unnamed>> /\ structscope = Unnamed /\ skipRun \in BOOLEAN
        BY Zenon DEF Init
      <3>2. <<Unnamed>> \in Seq({Unnamed, "struct", "func"})
        OBVIOUS
      <3> QED BY <3>1, <3>2, Zenon
    <2> QED BY <1>4, <2>1, <2>2, <2>3 DEF TypeOK
  <1>6. \E C : Annotated(walk, stack, outer, C)
    <2>1. PICK C : C = [j \in 0..1 |-> IF j = 1 THEN {<<<<>>, <<>>>>} ELSE Seq(Nodes) \X {<<>>}]
      OBVIOUS
    <2>2. C[1] = {<<stack, outer>>} /\ C[0] = Seq(Nodes) \X {outer}
      BY <1>4, <2>1
    <2>3. Yield[rule] \subseteq Seq(Nodes)
      BY <1>2, YieldsNodes
    <2>4. \A x \in Yield[rule] : stack \o x = x
      BY <1>4, <2>3
    <2>5. Parses(rule, stack, outer, C[0])
      BY <1>4, <2>2, <2>3, <2>4 DEF Parses
    <2>6. Leads(walk[1], C[1], C[0])
      BY <1>2, <1>3, <2>2, <2>5 DEF Leads
    <2>7. AllLead(walk, C)
      <3>1. \A j \in 1..Len(walk) : j = 1 /\ Len(walk) + 1 - j = 1 /\ j - 1 = 0
        BY <1>3
      <3> QED BY <2>6, <3>1 DEF AllLead
    <2> QED BY <1>3, <2>2, <2>7 DEF Annotated
  <1> QED BY <1>3, <1>4, <1>5, <1>6 DEF Safe, WellTyped, Annotation, NeverCrashes

\* What is left to show of the type of the next state.
LEMMA TypedAgain ==
  ASSUME walk' \in Seq(Items), fuel' \in 0..Budget, stack' \in Seq(Nodes), scope' \in Scopes,
         structscope' \in {Unnamed, "struct"}, skipRun' \in BOOLEAN, outer' \in Seq(Saved),
         outcome' \in {"walking", "done", "exited", "refused", "crashed"}
  PROVE  WellTyped'
  <1>1. \A i \in DOMAIN walk' : walk'[i] \in Items
    OBVIOUS
  <1>2. \A w \in Items : IsExit(w) => w.of \in Handled \cup {"Imported"}
    BY DEF Items, IsExit
  <1>3. \A i \in DOMAIN walk' : IsExit(walk'[i]) => walk'[i].of \in Handled \cup {"Imported"}
    BY <1>1, <1>2
  <1> QED BY <1>3 DEF WellTyped, TypeOK, Scopes, IsExit

LEMMA SafeEnter ==
  ASSUME Counted, Safe, Enter
  PROVE  Safe'
  <1>1. /\ outcome = "walking" /\ walk # <<>> /\ Head(walk).enter /\ walk \in Seq(Items) /\ stack \in Seq(Nodes)
        /\ scope \in Scopes /\ structscope \in {Unnamed, "struct"} /\ skipRun \in BOOLEAN /\ fuel \in 0..Budget
        /\ outer \in Seq(Saved)
    BY DEF Enter, Safe, WellTyped, TypeOK, Scopes
  <1>2. PICK alt \in Rules[Head(walk).of] :
           /\ ~Avoid(alt) /\ alt.cost <= fuel
           /\ fuel' = fuel - alt.cost
           /\ walk' = Parsed(alt.body)
                        \o (IF alt.label \in Handled THEN <<Exit(alt, Len(stack))>>
                            ELSE <<>>) \o Tail(walk)
           /\ scope' = CASE alt.label = "StructDecl" -> <<"struct">>
                         [] alt.label \in {"PropFunc", "StateFunc"} -> Append(scope, "func")
                         [] OTHER -> scope
           /\ structscope' = IF alt.label = "StructDecl" THEN "struct" ELSE structscope
    BY DEF Enter
  <1>3. UNCHANGED <<stack, skipRun, outer, outcome>>
    BY DEF Enter
  <1>4. Head(walk).of \in DOMAIN Rules
    BY <1>1, ItemsTyped DEF Items
  <1>5. AltFits(Head(walk).of, alt)
    BY <1>2, <1>4, GrammarFits
  <1>6. PICK C : Annotated(walk, stack, outer, C)
    BY <1>1 DEF Safe, Annotation
  <1>7. (\E D : Annotated(walk', stack, outer, D)) /\ walk' \in Seq(Items)
    BY <1>1, <1>2, <1>5, <1>6, Entering
  <1>8. Annotation'
    BY <1>3, <1>7 DEF Annotation
  <1>9. fuel' \in 0..Budget
    <2>1. alt.cost \in Nat
      BY <1>5 DEF AltFits
    <2> QED BY <1>1, <1>2, <2>1, BudgetAssumption
  <1>10. scope' \in Scopes
    <2>1. <<"struct">> \in Scopes /\ Append(scope, "func") \in Scopes
      BY <1>1 DEF Scopes
    <2> QED BY <1>1, <1>2, <2>1
  <1>11. structscope' \in {Unnamed, "struct"}
    BY <1>1, <1>2
  <1>12. WellTyped'
    BY <1>1, <1>3, <1>7, <1>9, <1>10, <1>11, TypedAgain
  <1>13. NeverCrashes'
    BY <1>1, <1>3 DEF NeverCrashes
  <1> QED BY <1>8, <1>12, <1>13 DEF Safe

LEMMA SafeHandler ==
  ASSUME Safe, NEW label, Handles(label)
  PROVE  Safe'
  <1>1. label \in Handled /\ Ready(label) /\ Served(label) /\ Steady(label)
    BY DEF Handles
  <1>2. /\ Annotation' /\ walk' \in Seq(Items) /\ outer' = outer /\ stack' \in Seq(Nodes)
        /\ outcome' \in {"walking", "exited", "refused", "crashed"}
        /\ (outcome' = "crashed" => BareCall')
    BY <1>1, ServedAnnotated DEF Safe
  <1>3. /\ scope \in Scopes /\ structscope \in {Unnamed, "struct"} /\ skipRun \in BOOLEAN /\ fuel \in 0..Budget
        /\ outer \in Seq(Saved)
    BY DEF Safe, WellTyped, TypeOK, Scopes
  <1>4. fuel' \in 0..Budget /\ skipRun' \in BOOLEAN
    BY <1>1, <1>3 DEF Steady
  <1>5. scope' \in Scopes /\ structscope' \in {Unnamed, "struct"}
    <2>1. <<Unnamed>> \in Scopes /\ Front(scope) \in Scopes
      BY <1>3 DEF Scopes, Front
    <2> QED BY <1>1, <1>3, <2>1 DEF Steady
  <1>6. WellTyped'
    BY <1>2, <1>3, <1>4, <1>5, TypedAgain
  <1> QED BY <1>2, <1>6 DEF Safe, NeverCrashes

LEMMA SafeImports ==
  ASSUME Safe, ExitImportSpec \/ Imported
  PROVE  Safe'
  <1>1. /\ scope \in Scopes /\ structscope \in {Unnamed, "struct"} /\ skipRun \in BOOLEAN /\ fuel \in 0..Budget
        /\ WellTyped /\ Annotation
    BY DEF Safe, WellTyped, TypeOK, Scopes
  <1>2. CASE ExitImportSpec
    <2>1. /\ Annotation' /\ walk' \in Seq(Items) /\ outer' \in Seq(Saved) /\ stack' \in Seq(Nodes)
          /\ outcome' \in {"walking", "refused"}
      BY <1>1, <1>2, ImportAnnotated
    <2>2. /\ fuel' = fuel
          /\ \/ scope' = scope /\ structscope' = structscope /\ skipRun' = skipRun
             \/ scope' = <<Unnamed>> /\ structscope' = Unnamed /\ skipRun' = TRUE
      BY <1>2, Zenon DEF ExitImportSpec, NewListener
    <2>3. scope' \in Scopes /\ structscope' \in {Unnamed, "struct"} /\ skipRun' \in BOOLEAN
      <3>1. <<Unnamed>> \in Scopes /\ TRUE \in BOOLEAN
        BY DEF Scopes
      <3> QED BY <1>1, <2>2, <3>1, Zenon
    <2>4. WellTyped'
      BY <1>1, <2>1, <2>2, <2>3, TypedAgain
    <2> QED BY <2>1, <2>4 DEF Safe, NeverCrashes
  <1>3. CASE Imported
    <2>1. /\ Annotation' /\ walk' \in Seq(Items) /\ outer' \in Seq(Saved) /\ stack' \in Seq(Nodes)
          /\ Head(outer) \in Saved
          /\ \/ outcome' = "crashed" /\ DotImport'
             \/ outcome' = "walking"
      BY <1>1, <1>3, ImportedAnnotated
    <2>2. /\ fuel' = fuel
          /\ \/ scope' = scope /\ structscope' = structscope /\ skipRun' = skipRun
             \/ /\ scope' = Head(outer).scope /\ structscope' = Head(outer).structscope
                /\ skipRun' = Head(outer).skipRun
      BY <1>3, Zenon DEF Imported
    <2>3. scope' \in Scopes /\ structscope' \in {Unnamed, "struct"} /\ skipRun' \in BOOLEAN
      BY <1>1, <2>1, <2>2 DEF Saved
    <2>4. WellTyped'
      BY <1>1, <2>1, <2>2, <2>3, TypedAgain
    <2> QED BY <2>1, <2>4 DEF Safe, NeverCrashes
  <1> QED BY <1>2, <1>3

LEMMA SafeNext ==
  ASSUME Counted, Safe, [Next]_vars
  PROVE  Safe'
  <1>1. CASE Enter
    BY <1>1, SafeEnter
  <1>2. ASSUME NEW label, Handles(label) PROVE Safe'
    BY <1>2, SafeHandler
  <1>3. CASE ExitImportSpec \/ Imported
    BY <1>3, SafeImports
  <1>4. CASE Done
    <2>1. UNCHANGED <<walk, fuel, stack, scope, structscope, skipRun, outer>> /\ outcome' = "done"
      BY <1>4 DEF Done
    <2>2. WellTyped'
      BY <2>1, TypedAgain DEF Safe, WellTyped, TypeOK, Scopes
    <2> QED BY <2>1, <2>2 DEF Safe, Annotation, NeverCrashes
  <1>5. CASE Ended \/ UNCHANGED vars
    <2>1. UNCHANGED <<walk, fuel, stack, scope, structscope, skipRun, outer, outcome>>
      BY <1>5 DEF Ended, vars
    <2>2. WellTyped'
      BY <2>1, TypedAgain DEF Safe, WellTyped, TypeOK, Scopes
    <2>3. Annotation'
      BY <2>1 DEF Safe, Annotation
    <2>4. NeverCrashes'
      BY <2>1 DEF Safe, NeverCrashes, BareCall, DotImport
    <2> QED BY <2>2, <2>3, <2>4 DEF Safe
  <1>6. WellTyped /\ Annotation
    BY DEF Safe
  <1> QED BY <1>1, <1>2, <1>3, <1>4, <1>5, <1>6, StepsOfWalk, Zenon


-----------------------------------------------------------------------------
(***************************************************************************)
(* The scope.  Structs and imports are found only in declarations, and     *)
(* functions only in structs and components: a rule has a level, and what  *)
(* is left of the walk before the Exit of a struct or a function is below   *)
(* its level.                                                              *)
(***************************************************************************)
Scoping == {"StructDecl", "PropFunc", "StateFunc", "ImportSpec", "DotImport", "Imported"}
Inner ==
  {"sysClause", "globalDecl", "startBlock", "startPair", "specClause", "importPath", "constDecl",
   "constSpec", "identList", "constants", "nil", "expressionList", "structProperties", "initDecl",
   "block", "statementList", "statement", "simpleStmt", "incDecStmt", "stateChange",
   "accessHistory", "assertion", "assumption", "temporal", "filter", "invariant", "assignment",
   "emptyStmt", "ifStmt", "ifStmtRun", "ifStmtState", "forStmt", "rounds", "paramCall",
   "stateBlock", "stateStep", "runBlock", "runStep", "solvable", "expression", "operand",
   "operandName", "prefix", "numeric", "integer", "negative", "float_", "string_", "bool_",
   "functionLit", "stateLit"}
Middle == {"structType", "sfProperties", "comProperties", "componentDecl"}

Plain(alt) == alt.body \in Seq(Inner) /\ alt.label \notin Scoping

LEMMA PlainAlt == \A label, t, k : \A body \in Seq(Inner) : label \notin Scoping => Plain(Alt(label, t, body, k))
  BY DEF Plain, Alt

LEMMA InnerBodies ==
  /\ <<>> \in Seq(Inner)
  /\ \A c \in Inner : <<c>> \in Seq(Inner)
  /\ \A c, d \in Inner : <<c, d>> \in Seq(Inner)
  /\ \A c \in Inner : \A n \in Nat : Times(c, n) \in Seq(Inner)
  <1>1. \A c \in Inner : \A n \in Nat : Times(c, n) \in Seq(Inner)
    BY Repeated
  <1>2. <<>> \in Seq(Inner)
    OBVIOUS
  <1>3. \A c \in Inner : <<c>> \in Seq(Inner)
    OBVIOUS
  <1>4. \A c, d \in Inner : <<c, d>> \in Seq(Inner)
    OBVIOUS
  <1> QED BY <1>1, <1>2, <1>3, <1>4

LEMMA Inner_sysClause == \A alt \in Rules.sysClause : Plain(alt)
  <1>1. Plain(Alt("SysClause", 3, <<>>, 0))
    BY DEF Plain, Alt, Inner, Scoping
  <1> QED BY <1>1 DEF Rules, sysClause, Only

LEMMA Inner_globalDecl == \A alt \in Rules.globalDecl : Plain(alt)
  <1>1. Plain(Alt("GlobalDecl", 4, <<"operand">>, 0))
    BY DEF Plain, Alt, Inner, Scoping
  <1> QED BY <1>1 DEF Rules, globalDecl, Only

LEMMA Inner_startBlock == \A alt \in Rules.startBlock : Plain(alt)
  <1>1. ASSUME NEW n \in Many PROVE Plain(Alt("StartBlock", 4 + n, Times("startPair", n), Extra(n)))
    <2>1. "startPair" \in Inner /\ "StartBlock" \notin Scoping
      BY DEF Inner, Scoping
    <2>2. Times("startPair", n) \in Seq(Inner)
      BY <2>1, HowMany, InnerBodies
    <2> QED BY <2>1, <2>2, PlainAlt
  <1> QED BY <1>1 DEF Rules, startBlock

LEMMA Inner_startPair == \A alt \in Rules.startPair : Plain(alt)
  <1>1. Plain(Alt("StartPair", 3, <<>>, 0))
    BY DEF Plain, Alt, Inner, Scoping
  <1> QED BY <1>1 DEF Rules, startPair, Only

LEMMA Inner_specClause == \A alt \in Rules.specClause : Plain(alt)
  <1>1. Plain(Alt("SpecClause", 3, <<>>, 0))
    BY DEF Plain, Alt, Inner, Scoping
  <1> QED BY <1>1 DEF Rules, specClause, Only

LEMMA Inner_importPath == \A alt \in Rules.importPath : Plain(alt)
  <1>1. Plain(Alt("ImportPath", 0, <<"string_">>, 0))
    BY DEF Plain, Alt, Inner, Scoping
  <1> QED BY <1>1 DEF Rules, importPath, Only

LEMMA Inner_constDecl == \A alt \in Rules.constDecl : Plain(alt)
  <1>1. Plain(Alt("ConstDecl", 2, <<"constSpec">>, 0))
    BY DEF Plain, Alt, Inner, Scoping
  <1>2. ASSUME NEW n \in Many PROVE Plain(Alt("ConstDecl", 4, Times("constSpec", n), 1))
    <2>1. "constSpec" \in Inner /\ "ConstDecl" \notin Scoping
      BY DEF Inner, Scoping
    <2>2. Times("constSpec", n) \in Seq(Inner)
      BY <2>1, HowMany, InnerBodies
    <2> QED BY <2>1, <2>2, PlainAlt
  <1> QED BY <1>1, <1>2 DEF Rules, constDecl

LEMMA Inner_constSpec == \A alt \in Rules.constSpec : Plain(alt)
  <1>1. /\ Plain(Alt("ConstSpec", 1, <<"identList", "constants">>, 0))
        /\ Plain(Alt("ConstSpec", 0, <<"identList">>, 1))
    BY DEF Plain, Alt, Inner, Scoping
  <1> QED BY <1>1 DEF Rules, constSpec

LEMMA Inner_identList == \A alt \in Rules.identList : Plain(alt)
  <1>1. ASSUME NEW n \in Many \ {0} PROVE Plain(Alt("IdentList", n - 1, Times("operandName", n), Extra(n)))
    <2>1. "operandName" \in Inner /\ "IdentList" \notin Scoping
      BY DEF Inner, Scoping
    <2>2. Times("operandName", n) \in Seq(Inner)
      BY <2>1, HowMany, InnerBodies
    <2> QED BY <2>1, <2>2, PlainAlt
  <1> QED BY <1>1 DEF Rules, identList

LEMMA Inner_constants == \A alt \in Rules.constants : Plain(alt)
  <1>1. Plain(Alt("Constants", 0, <<"numeric">>, 0))
    BY DEF Plain, Alt, Inner, Scoping
  <1>2. ASSUME NEW c \in {"string_", "bool_", "solvable", "nil"} PROVE Plain(Alt("Constants", 0, <<c>>, 1))
    BY DEF Plain, Alt, Inner, Scoping
  <1> QED BY <1>1, <1>2 DEF Rules, constants

LEMMA Inner_nil == \A alt \in Rules.nil : Plain(alt)
  <1>1. Plain(Alt("Nil", 1, <<>>, 0))
    BY DEF Plain, Alt, Inner, Scoping
  <1> QED BY <1>1 DEF Rules, nil, Only

LEMMA Inner_expressionList == \A alt \in Rules.expressionList : Plain(alt)
  <1>1. ASSUME NEW n \in Many \ {0} PROVE Plain(Alt("ExpressionList", n - 1, Times("expression", n), Extra(n)))
    <2>1. "expression" \in Inner /\ "ExpressionList" \notin Scoping
      BY DEF Inner, Scoping
    <2>2. Times("expression", n) \in Seq(Inner)
      BY <2>1, HowMany, InnerBodies
    <2> QED BY <2>1, <2>2, PlainAlt
  <1> QED BY <1>1 DEF Rules, expressionList

LEMMA Inner_structProperties == \A alt \in Rules.structProperties : Plain(alt)
  <1>1. /\ Plain(Alt("PropInt", 2, <<"numeric">>, 0))
        /\ Plain(Alt("PropString", 2, <<"string_">>, 1))
        /\ Plain(Alt("PropBool", 2, <<"bool_">>, 1))
        /\ Plain(Alt("PropSolvable", 2, <<"solvable">>, 1))
        /\ Plain(Alt("PropSolvable", 1, <<>>, 1))
    BY DEF Plain, Alt, Inner, Scoping
  <1>2. ASSUME NEW c \in {"operandName", "prefix"} PROVE Plain(Alt("PropVar", 2, <<c>>, 1))
    BY DEF Plain, Alt, Inner, Scoping
  <1> QED BY <1>1, <1>2 DEF Rules, structProperties, PropInt, PropString, PropBool, PropVar, PropSolvable

LEMMA Inner_initDecl == \A alt \in Rules.initDecl : Plain(alt)
  <1>1. Plain(Alt("InitDecl", 2, <<"operand">>, 0))
    BY DEF Plain, Alt, Inner, Scoping
  <1> QED BY <1>1 DEF Rules, initDecl, Only

LEMMA Inner_block == \A alt \in Rules.block : Plain(alt)
  <1>1. /\ Plain(Alt("Block", 2, <<"statementList">>, 0))
        /\ Plain(Alt("Block", 2, <<>>, 1))
    BY DEF Plain, Alt, Inner, Scoping
  <1> QED BY <1>1 DEF Rules, block

LEMMA Inner_statementList == \A alt \in Rules.statementList : Plain(alt)
  <1>1. ASSUME NEW n \in Many \ {0} PROVE Plain(Alt("StatementList", 0, Times("statement", n), Extra(n)))
    <2>1. "statement" \in Inner /\ "StatementList" \notin Scoping
      BY DEF Inner, Scoping
    <2>2. Times("statement", n) \in Seq(Inner)
      BY <2>1, HowMany, InnerBodies
    <2> QED BY <2>1, <2>2, PlainAlt
  <1> QED BY <1>1 DEF Rules, statementList

LEMMA Inner_statement == \A alt \in Rules.statement : Plain(alt)
  <1>1. /\ Plain(Alt("Statement", 1, <<"simpleStmt">>, 0))
        /\ Plain(Alt("Statement", 0, <<"constDecl">>, 1))
    BY DEF Plain, Alt, Inner, Scoping
  <1>2. ASSUME NEW c \in {"initDecl", "block", "ifStmt"} PROVE Plain(Alt("Statement", 0, <<c>>, 1))
    BY DEF Plain, Alt, Inner, Scoping
  <1> QED BY <1>1, <1>2 DEF Rules, statement

LEMMA Inner_simpleStmt == \A alt \in Rules.simpleStmt : Plain(alt)
  <1>1. /\ Plain(Alt("SimpleStmt", 0, <<"expression">>, 0))
        /\ Plain(Alt("SimpleStmt", 0, <<"emptyStmt">>, 1))
    BY DEF Plain, Alt, Inner, Scoping
  <1>2. ASSUME NEW c \in {"incDecStmt", "assignment"} PROVE Plain(Alt("SimpleStmt", 0, <<c>>, 1))
    BY DEF Plain, Alt, Inner, Scoping
  <1> QED BY <1>1, <1>2 DEF Rules, simpleStmt

LEMMA Inner_incDecStmt == \A alt \in Rules.incDecStmt : Plain(alt)
  <1>1. Plain(Alt("IncDecStmt", 1, <<"expression">>, 0))
    BY DEF Plain, Alt, Inner, Scoping
  <1> QED BY <1>1 DEF Rules, incDecStmt, Only

LEMMA Inner_stateChange == \A alt \in Rules.stateChange : Plain(alt)
  <1>1. /\ Plain(Alt("Advance", 3, <<"paramCall">>, 0))
        /\ Plain(Alt("Stay", 3, <<>>, 1))
        /\ Plain(Alt("BuiltinInfix", 1, <<"stateChange", "stateChange">>, 1))
    BY DEF Plain, Alt, Inner, Scoping
  <1> QED BY <1>1 DEF Rules, stateChange, Builtins, BuiltinInfix

LEMMA Inner_accessHistory == \A alt \in Rules.accessHistory : Plain(alt)
  <1>1. ASSUME NEW n \in Nat, NEW k \in Nat PROVE Plain(Alt("AccessHistory", 2 * n, <<"operandName">> \o Times("expression", n), k))
    <2>1. "expression" \in Inner /\ "AccessHistory" \notin Scoping /\ "operandName" \in Inner
      BY DEF Inner, Scoping
    <2>2. <<"operandName">> \o Times("expression", n) \in Seq(Inner)
      BY <2>1, HowMany, InnerBodies
    <2> QED BY <2>1, <2>2, PlainAlt
  <1> QED BY <1>1, HowMany DEF Rules, accessHistory

LEMMA Inner_assertion == \A alt \in Rules.assertion : Plain(alt)
  <1>1. /\ Plain(Alt("Assertion", 2, <<"invariant">>, 0))
        /\ Plain(Alt("Assertion", 2, <<"invariant", "temporal">>, 1))
        /\ Plain(Alt("Assertion", 2, <<"invariant", "filter">>, 1))
    BY DEF Plain, Alt, Inner, Scoping
  <1> QED BY <1>1 DEF Rules, assertion

LEMMA Inner_assumption == \A alt \in Rules.assumption : Plain(alt)
  <1>1. /\ Plain(Alt("Assumption", 2, <<"invariant">>, 0))
        /\ Plain(Alt("Assumption", 2, <<"invariant", "temporal">>, 1))
        /\ Plain(Alt("Assumption", 2, <<"invariant", "filter">>, 1))
    BY DEF Plain, Alt, Inner, Scoping
  <1> QED BY <1>1 DEF Rules, assumption

LEMMA Inner_temporal == \A alt \in Rules.temporal : Plain(alt)
  <1>1. Plain(Alt("Temporal", 1, <<>>, 0))
    BY DEF Plain, Alt, Inner, Scoping
  <1> QED BY <1>1 DEF Rules, temporal, Only

LEMMA Inner_filter == \A alt \in Rules.filter : Plain(alt)
  <1>1. Plain(Alt("Temporal", 1, <<"integer">>, 0))
    BY DEF Plain, Alt, Inner, Scoping
  <1> QED BY <1>1 DEF Rules, filter, Only

LEMMA Inner_invariant == \A alt \in Rules.invariant : Plain(alt)
  <1>1. /\ Plain(Alt("Invar", 0, <<"expression">>, 0))
        /\ Plain(Alt("StageInvariant", 2, <<"expression", "expression">>, 1))
    BY DEF Plain, Alt, Inner, Scoping
  <1> QED BY <1>1 DEF Rules, invariant, Invar, StageInvariant

LEMMA Inner_assignment == \A alt \in Rules.assignment : Plain(alt)
  <1>1. /\ Plain(Alt("MiscAssign", 1, <<"expressionList", "expressionList">>, 0))
        /\ Plain(Alt("FaultAssign", 1, <<"expressionList", "expressionList">>, 1))
    BY DEF Plain, Alt, Inner, Scoping
  <1> QED BY <1>1 DEF Rules, assignment, MiscAssign, FaultAssign

LEMMA Inner_emptyStmt == \A alt \in Rules.emptyStmt : Plain(alt)
  <1>1. Plain(Alt("EmptyStmt", 1, <<>>, 0))
    BY DEF Plain, Alt, Inner, Scoping
  <1> QED BY <1>1 DEF Rules, emptyStmt, Only

LEMMA InnerIf ==
  ASSUME NEW label, label \notin Scoping, {"expression", "simpleStmt"} \subseteq Inner, NEW rule \in Inner, NEW body \in Inner
  PROVE  \A alt \in If(label, rule, body) : Plain(alt)
  <1>1. ASSUME NEW first \in {<<>>, <<"simpleStmt">>}, NEW last \in {<<>>, <<rule>>, <<body>>}
        PROVE  first \o <<"expression", body>> \o last \in Seq(Inner)
    <2>1. /\ <<>> \in Seq(Inner) /\ <<"simpleStmt">> \in Seq(Inner) /\ <<rule>> \in Seq(Inner) /\ <<body>> \in Seq(Inner)
          /\ <<"expression", body>> \in Seq(Inner)
      BY InnerBodies
    <2>2. first \in Seq(Inner) /\ last \in Seq(Inner)
      BY <2>1, Zenon
    <2>3. PICK e \in Seq(Inner) : e = <<"expression", body>>
      BY <2>1
    <2>4. first \o e \o last \in Seq(Inner)
      BY <2>2, <2>3
    <2> QED BY <2>3, <2>4
  <1>2. ASSUME NEW alt \in If(label, rule, body) PROVE Plain(alt)
    <2>1. PICK first \in {<<>>, <<"simpleStmt">>}, last \in {<<>>, <<rule>>, <<body>>} :
            alt = Alt(label, 1 + Len(first) + Len(last), first \o <<"expression", body>> \o last, Len(first) + Len(last))
      BY <1>2 DEF If
    <2>2. alt.label = label /\ alt.body = first \o <<"expression", body>> \o last
      BY <2>1 DEF Alt
    <2> QED BY <1>1, <2>1, <2>2 DEF Plain
  <1> QED BY <1>2

LEMMA Inner_ifStmt == \A alt \in Rules.ifStmt : Plain(alt)
  <1>1. "IfStmt" \notin Scoping /\ {"expression", "simpleStmt", "block", "ifStmt"} \subseteq Inner
    BY DEF Scoping, Inner
  <1> QED BY <1>1, InnerIf DEF Rules, ifStmt

LEMMA Inner_ifStmtRun == \A alt \in Rules.ifStmtRun : Plain(alt)
  <1>1. "IfStmtRun" \notin Scoping /\ {"expression", "simpleStmt", "runBlock", "ifStmtRun"} \subseteq Inner
    BY DEF Scoping, Inner
  <1> QED BY <1>1, InnerIf DEF Rules, ifStmtRun

LEMMA Inner_ifStmtState == \A alt \in Rules.ifStmtState : Plain(alt)
  <1>1. "IfStmtState" \notin Scoping /\ {"expression", "simpleStmt", "stateBlock", "ifStmtState"} \subseteq Inner
    BY DEF Scoping, Inner
  <1> QED BY <1>1, InnerIf DEF Rules, ifStmtState

LEMMA Inner_forStmt == \A alt \in Rules.forStmt : Plain(alt)
  <1>1. ASSUME NEW e \in Maybe PROVE Plain(Alt("ForStmt", 2 + e, <<"rounds", "runBlock">>, Extra(e)))
    BY DEF Plain, Alt, Inner, Scoping
  <1> QED BY <1>1 DEF Rules, forStmt

LEMMA Inner_rounds == \A alt \in Rules.rounds : Plain(alt)
  <1>1. Plain(Alt("Rounds", 0, <<"integer">>, 0))
    BY DEF Plain, Alt, Inner, Scoping
  <1> QED BY <1>1 DEF Rules, rounds, Only

LEMMA Inner_paramCall == \A alt \in Rules.paramCall : Plain(alt)
  <1>1. Plain(Alt("ParamCall", 3, <<>>, 0))
    BY DEF Plain, Alt, Inner, Scoping
  <1> QED BY <1>1 DEF Rules, paramCall, Only

LEMMA Inner_stateBlock == \A alt \in Rules.stateBlock : Plain(alt)
  <1>1. ASSUME NEW n \in Many PROVE Plain(Alt("StateBlock", 2, Times("stateStep", n), Extra(n)))
    <2>1. "stateStep" \in Inner /\ "StateBlock" \notin Scoping
      BY DEF Inner, Scoping
    <2>2. Times("stateStep", n) \in Seq(Inner)
      BY <2>1, HowMany, InnerBodies
    <2> QED BY <2>1, <2>2, PlainAlt
  <1> QED BY <1>1 DEF Rules, stateBlock

LEMMA Inner_stateStep == \A alt \in Rules.stateStep : Plain(alt)
  <1>1. /\ Plain(Alt("StateChain", 1, <<"stateChange">>, 0))
        /\ Plain(Alt("StateExpr", 0, <<"ifStmtState">>, 1))
    BY DEF Plain, Alt, Inner, Scoping
  <1>2. ASSUME NEW n \in Many PROVE Plain(Alt("StateStepExpr", n + 1, Times("paramCall", n + 1), 1))
    <2>1. "paramCall" \in Inner /\ "StateStepExpr" \notin Scoping
      BY DEF Inner, Scoping
    <2>2. Times("paramCall", n + 1) \in Seq(Inner)
      BY <2>1, HowMany, InnerBodies
    <2> QED BY <2>1, <2>2, PlainAlt
  <1> QED BY <1>1, <1>2 DEF Rules, stateStep, StateStepExpr, StateChain, StateExpr

LEMMA Inner_runBlock == \A alt \in Rules.runBlock : Plain(alt)
  <1>1. ASSUME NEW n \in Many PROVE Plain(Alt("RunBlock", 2, Times("runStep", n), Extra(n)))
    <2>1. "runStep" \in Inner /\ "RunBlock" \notin Scoping
      BY DEF Inner, Scoping
    <2>2. Times("runStep", n) \in Seq(Inner)
      BY <2>1, HowMany, InnerBodies
    <2> QED BY <2>1, <2>2, PlainAlt
  <1> QED BY <1>1 DEF Rules, runBlock

LEMMA Inner_runStep == \A alt \in Rules.runStep : Plain(alt)
  <1>1. /\ Plain(Alt("RunInit", 4, <<"paramCall">>, 1))
        /\ Plain(Alt("RunInit", 5, <<>>, 1))
        /\ Plain(Alt("RunExpr", 1, <<"simpleStmt">>, 1))
        /\ Plain(Alt("RunExpr", 0, <<"ifStmtRun">>, 1))
    BY DEF Plain, Alt, Inner, Scoping
  <1>2. ASSUME NEW n \in Many PROVE Plain(Alt("RunStepExpr", n + 1, Times("paramCall", n + 1), Extra(n + 1)))
    <2>1. "paramCall" \in Inner /\ "RunStepExpr" \notin Scoping
      BY DEF Inner, Scoping
    <2>2. Times("paramCall", n + 1) \in Seq(Inner)
      BY <2>1, HowMany, InnerBodies
    <2> QED BY <2>1, <2>2, PlainAlt
  <1> QED BY <1>1, <1>2 DEF Rules, runStep, RunStepExpr, RunInit, RunExpr

LEMMA Inner_solvable == \A alt \in Rules.solvable : Plain(alt)
  <1>1. ASSUME NEW ty \in faultType, NEW n \in Nat, NEW k \in Nat PROVE Plain(Alt(ty, n + 2, Times("operand", n), k))
    <2>1. "operand" \in Inner /\ ty \notin Scoping
      BY DEF Inner, Scoping, faultType
    <2>2. Times("operand", n) \in Seq(Inner)
      BY <2>1, HowMany, InnerBodies
    <2> QED BY <2>1, <2>2, PlainAlt
  <1>2. ASSUME NEW ty \in faultType PROVE Plain(Alt(ty, 3, <<>>, 1))
    BY DEF Plain, Alt, Inner, Scoping, faultType
  <1> QED BY <1>1, <1>2, HowMany DEF Rules, solvable

LEMMA Inner_expression == \A alt \in Rules.expression : Plain(alt)
  <1>1. /\ Plain(Alt("Expr", 0, <<"operand">>, 0))
        /\ Plain(Alt("Typed", 0, <<"solvable">>, 1))
        /\ Plain(Alt("ExprPrefix", 0, <<"prefix">>, 1))
        /\ Plain(Alt("LrExpr", 1, <<"expression", "expression">>, 1))
    BY DEF Plain, Alt, Inner, Scoping
  <1> QED BY <1>1 DEF Rules, expression, Expr, Typed, ExprPrefix, LrExpr

LEMMA Inner_operand == \A alt \in Rules.operand : Plain(alt)
  <1>1. /\ Plain(Alt("Operand", 0, <<"operandName">>, 0))
        /\ Plain(Alt("Operand", 2, <<"expression">>, 1))
    BY DEF Plain, Alt, Inner, Scoping
  <1>2. ASSUME NEW c \in {"nil", "numeric", "string_", "bool_", "accessHistory"} PROVE Plain(Alt("Operand", 0, <<c>>, 1))
    BY DEF Plain, Alt, Inner, Scoping
  <1> QED BY <1>1, <1>2 DEF Rules, operand

LEMMA Inner_operandName == \A alt \in Rules.operandName : Plain(alt)
  <1>1. /\ Plain(Alt("OpName", 1, <<>>, 0))
        /\ Plain(Alt("OpParam", 0, <<"paramCall">>, 1))
        /\ Plain(Alt("OpThis", 1, <<>>, 1))
        /\ Plain(Alt("OpClock", 1, <<>>, 1))
        /\ Plain(Alt("OpInstance", 1 + 1, <<>>, 1))
        /\ Plain(Alt("OpInstance", 3 + 1, <<>>, 1))
    BY DEF Plain, Alt, Inner, Scoping
  <1> QED BY <1>1 DEF Rules, operandName, OpName, OpParam, OpThis, OpClock, OpInstance

LEMMA Inner_prefix == \A alt \in Rules.prefix : Plain(alt)
  <1>1. /\ Plain(Alt("Prefix", 1, <<"expression">>, 0))
        /\ Plain(Alt("Prefix", 0, <<>>, 1))
    BY DEF Plain, Alt, Inner, Scoping
  <1> QED BY <1>1 DEF Rules, prefix

LEMMA Inner_numeric == \A alt \in Rules.numeric : Plain(alt)
  <1>1. /\ Plain(Alt("Numeric", 0, <<"integer">>, 0))
        /\ Plain(Alt("Numeric", 0, <<"negative">>, 1))
        /\ Plain(Alt("Numeric", 0, <<"float_">>, 1))
    BY DEF Plain, Alt, Inner, Scoping
  <1> QED BY <1>1 DEF Rules, numeric

LEMMA Inner_integer == \A alt \in Rules.integer : Plain(alt)
  <1>1. Plain(Alt("Integer", 1, <<>>, 0))
    BY DEF Plain, Alt, Inner, Scoping
  <1> QED BY <1>1 DEF Rules, integer, Only

LEMMA Inner_negative == \A alt \in Rules.negative : Plain(alt)
  <1>1. /\ Plain(Alt("Negative", 1, <<"integer">>, 0))
        /\ Plain(Alt("Negative", 1, <<"float_">>, 1))
    BY DEF Plain, Alt, Inner, Scoping
  <1> QED BY <1>1 DEF Rules, negative

LEMMA Inner_float_ == \A alt \in Rules.float_ : Plain(alt)
  <1>1. Plain(Alt("Float_", 1, <<>>, 0))
    BY DEF Plain, Alt, Inner, Scoping
  <1> QED BY <1>1 DEF Rules, float_, Only

LEMMA Inner_string_ == \A alt \in Rules.string_ : Plain(alt)
  <1>1. Plain(Alt("String_", 1, <<>>, 0))
    BY DEF Plain, Alt, Inner, Scoping
  <1> QED BY <1>1 DEF Rules, string_, Only

LEMMA Inner_bool_ == \A alt \in Rules.bool_ : Plain(alt)
  <1>1. Plain(Alt("Bool_", 1, <<>>, 0))
    BY DEF Plain, Alt, Inner, Scoping
  <1> QED BY <1>1 DEF Rules, bool_, Only

LEMMA Inner_functionLit == \A alt \in Rules.functionLit : Plain(alt)
  <1>1. Plain(Alt("FunctionLit", 1, <<"block">>, 0))
    BY DEF Plain, Alt, Inner, Scoping
  <1> QED BY <1>1 DEF Rules, functionLit, Only

LEMMA Inner_stateLit == \A alt \in Rules.stateLit : Plain(alt)
  <1>1. Plain(Alt("StateLit", 1, <<"stateBlock">>, 0))
    BY DEF Plain, Alt, Inner, Scoping
  <1> QED BY <1>1 DEF Rules, stateLit, Only

Functions == {"PropFunc", "StateFunc"}
LevelOf(rule) == IF rule \in Inner THEN 0 ELSE IF rule \in Middle THEN 1 ELSE 2
LabelLevel(label) ==
  IF label \in {"StructDecl", "ImportSpec", "DotImport", "Imported"} THEN 2 ELSE IF label \in Functions THEN 1 ELSE 0
AltLevels(rule, alt) ==
  /\ LabelLevel(alt.label) <= LevelOf(rule)
  /\ \A i \in DOMAIN alt.body : LevelOf(alt.body[i]) <= LevelOf(rule)
  /\ alt.label \in Functions => LevelOf(rule) = 1 /\ \A i \in DOMAIN alt.body : LevelOf(alt.body[i]) = 0
  /\ alt.label = "StructDecl" => LevelOf(rule) = 2 /\ \A i \in DOMAIN alt.body : LevelOf(alt.body[i]) <= 1

LEMMA InnerLevels ==
  ASSUME NEW rule \in Inner, NEW alt \in Rules[rule]
  PROVE  AltLevels(rule, alt)
  <1>1. \A r \in Inner : \A a \in Rules[r] : Plain(a)
    BY Inner_sysClause, Inner_globalDecl, Inner_startBlock, Inner_startPair, Inner_specClause,
         Inner_importPath, Inner_constDecl, Inner_constSpec, Inner_identList, Inner_constants,
         Inner_nil, Inner_expressionList, Inner_structProperties, Inner_initDecl, Inner_block,
         Inner_statementList, Inner_statement, Inner_simpleStmt, Inner_incDecStmt, Inner_stateChange,
         Inner_accessHistory, Inner_assertion, Inner_assumption, Inner_temporal, Inner_filter,
         Inner_invariant, Inner_assignment, Inner_emptyStmt, Inner_ifStmt, Inner_ifStmtRun,
         Inner_ifStmtState, Inner_forStmt, Inner_rounds, Inner_paramCall, Inner_stateBlock,
         Inner_stateStep, Inner_runBlock, Inner_runStep, Inner_solvable, Inner_expression,
         Inner_operand, Inner_operandName, Inner_prefix, Inner_numeric, Inner_integer, Inner_negative,
         Inner_float_, Inner_string_, Inner_bool_, Inner_functionLit, Inner_stateLit DEF Inner
  <1>2. alt.body \in Seq(Inner) /\ alt.label \notin Scoping
    BY <1>1 DEF Plain
  <1>3. \A i \in DOMAIN alt.body : alt.body[i] \in Inner
    BY <1>2
  <1> QED BY <1>2, <1>3 DEF AltLevels, LevelOf, LabelLevel, Scoping, Functions

LEMMA MiddleLevels ==
  ASSUME NEW rule \in Middle, NEW alt \in Rules[rule]
  PROVE  AltLevels(rule, alt)
  <1>1. \A a \in Rules.sfProperties : AltLevels("sfProperties", a)
    <2>1. AltLevels("sfProperties", Alt("PropFunc", 2, <<"functionLit">>, 0))
      BY DEF AltLevels, Alt, LevelOf, LabelLevel, Functions, Inner, Middle
    <2>2. AltLevels("sfProperties", Alt("SfMisc", 0, <<"structProperties">>, 1))
      BY DEF AltLevels, Alt, LevelOf, LabelLevel, Functions, Inner, Middle
    <2> QED BY <2>1, <2>2 DEF Rules, sfProperties, PropFunc, SfMisc
  <1>2. \A a \in Rules.comProperties : AltLevels("comProperties", a)
    <2>1. AltLevels("comProperties", Alt("StateFunc", 2, <<"stateLit">>, 0))
      BY DEF AltLevels, Alt, LevelOf, LabelLevel, Functions, Inner, Middle
    <2>2. AltLevels("comProperties", Alt("CompMisc", 0, <<"structProperties">>, 1))
      BY DEF AltLevels, Alt, LevelOf, LabelLevel, Functions, Inner, Middle
    <2> QED BY <2>1, <2>2 DEF Rules, comProperties, StateFunc, CompMisc
  <1>3. ASSUME NEW r \in {"structType", "componentDecl"}, NEW label \in {"Flow", "Stock", "ComponentDecl"}, NEW t, NEW k,
               NEW c \in {"sfProperties", "comProperties"}, NEW n \in Many
        PROVE  AltLevels(r, Alt(label, t, Times(c, n), k))
    <2>1. PICK alt2 : alt2 = Alt(label, t, Times(c, n), k)
      OBVIOUS
    <2>2. alt2.label = label /\ alt2.body = Times(c, n)
      BY <2>1 DEF Alt
    <2>3. \A i \in DOMAIN alt2.body : alt2.body[i] = c
      BY <2>2, Repeated, HowMany
    <2>4. LevelOf(r) = 1 /\ LevelOf(c) = 1 /\ LabelLevel(label) = 0 /\ label \notin Functions \cup {"StructDecl"}
      BY DEF LevelOf, LabelLevel, Inner, Middle, Functions
    <2>5. AltLevels(r, alt2)
      BY <2>2, <2>3, <2>4 DEF AltLevels
    <2> QED BY <2>1, <2>5
  <1>4. \A a \in Rules.structType : AltLevels("structType", a)
    <2>1. ASSUME NEW n \in Many
          PROVE  AltLevels("structType", Alt("Flow", 3 + n, Times("sfProperties", n), 1 + Extra(n)))
      BY <1>3, <2>1
    <2>2. ASSUME NEW n \in Many
          PROVE  AltLevels("structType", Alt("Stock", 3 + n, Times("sfProperties", n), Extra(n)))
      BY <1>3, <2>2
    <2> QED BY <2>1, <2>2 DEF Rules, structType, Flow, Stock
  <1>5. \A a \in Rules.componentDecl : AltLevels("componentDecl", a)
    <2>1. ASSUME NEW n \in Many
          PROVE  AltLevels("componentDecl", Alt("ComponentDecl", 7 + n, Times("comProperties", n), Extra(n)))
      BY <1>3, <2>1
    <2> QED BY <2>1 DEF Rules, componentDecl
  <1> QED BY <1>1, <1>2, <1>4, <1>5 DEF Middle

LEMMA OuterLevels ==
  ASSUME NEW rule \in {"spec", "sysSpec", "declaration", "structDecl", "importDecl", "importSpec"}, NEW alt \in Rules[rule]
  PROVE  AltLevels(rule, alt)
  <1>1. LevelOf(rule) = 2 /\ \A r : LevelOf(r) <= 2
    BY DEF LevelOf, Inner, Middle
  <1>2. alt.label \in {"Spec", "SysSpec", "Declaration", "ImportDecl", "ImportSpec", "DotImport", "StructDecl"}
    BY DEF Rules, Alt, Only, spec, sysSpec, declaration, structDecl, importDecl, importSpec
  <1>3. alt.label = "StructDecl" => alt.body = <<"structType">>
    BY DEF Rules, Alt, Only, spec, sysSpec, declaration, structDecl, importDecl, importSpec
  <1>4. LevelOf("structType") = 1
    BY DEF LevelOf, Inner, Middle
  <1> QED BY <1>1, <1>2, <1>3, <1>4 DEF AltLevels, LabelLevel, Functions

LEMMA GrammarLevels ==
  ASSUME NEW rule \in DOMAIN Rules, NEW alt \in Rules[rule]
  PROVE  AltLevels(rule, alt)
  <1>1. \/ rule \in Inner \/ rule \in Middle
        \/ rule \in {"spec", "sysSpec", "declaration", "structDecl", "importDecl", "importSpec"}
    BY DEF Rules, Inner, Middle
  <1> QED BY <1>1, InnerLevels, MiddleLevels, OuterLevels

-----------------------------------------------------------------------------
(***************************************************************************)
(* The scope.  What precedes the Exit of a function in the walk is of      *)
(* level 0, what precedes that of a struct is of level 1 at most.          *)
(***************************************************************************)
Structs == {"StructDecl"}
ItemLevel(w) == IF w.enter THEN LevelOf(w.of) ELSE LabelLevel(w.of)
Leaving(w, S) == ~w.enter /\ w.of \in S
Has(w, S) == \E i \in DOMAIN w : Leaving(w[i], S)
Lower(w, S, n) ==
  \A k \in DOMAIN w : Leaving(w[k], S) => \A j \in DOMAIN w : j < k => ItemLevel(w[j]) <= n
Nested(w) == Lower(w, Structs, 1) /\ Lower(w, Functions, 0)
Bottom(w) == IF Has(w, Structs) THEN <<"struct">> ELSE <<Unnamed>>
ScopeOf(w) == Bottom(w) \o (IF Has(w, Functions) THEN <<"func">> ELSE <<>>)
Scoped ==
  outcome = "walking" =>
    /\ Nested(walk) /\ scope = ScopeOf(walk)
    /\ \A i \in DOMAIN outer : outer[i].scope = <<Unnamed>>

LEMMA Levels ==
  /\ \A r : LevelOf(r) \in {0, 1, 2}
  /\ \A l : LabelLevel(l) \in {0, 1, 2}
  /\ \A w : ItemLevel(w) \in {0, 1, 2}
  /\ \A l \in Functions : LabelLevel(l) = 1
  /\ LabelLevel("StructDecl") = 2 /\ LabelLevel("ImportSpec") = 2 /\ LabelLevel("DotImport") = 2
  /\ LabelLevel("Imported") = 2
  BY DEF LevelOf, LabelLevel, ItemLevel, Functions

LEMMA LowerTail ==
  ASSUME NEW w \in Seq(Items), w # <<>>, NEW S, NEW n \in Nat, Lower(w, S, n)
  PROVE  /\ Lower(Tail(w), S, n)
         /\ Has(Tail(w), S) => ItemLevel(Head(w)) <= n
         /\ Has(w, S) <=> Leaving(Head(w), S) \/ Has(Tail(w), S)
  <1>1. PICK t \in Seq(Items) : t = Tail(w)
    BY ItemsTyped
  <1>2. /\ Len(t) = Len(w) - 1 /\ Len(w) \in Nat /\ Len(w) >= 1 /\ Head(w) = w[1]
        /\ \A i \in 1..Len(w) - 1 : t[i] = w[i + 1]
    BY <1>1, ItemsTyped
  <1>3. DOMAIN t = 1..Len(w) - 1 /\ DOMAIN w = 1..Len(w) /\ 1 \in DOMAIN w
    BY <1>2
  <1>4. \A i \in DOMAIN t : i + 1 \in DOMAIN w /\ t[i] = w[i + 1] /\ 1 < i + 1
    BY <1>2, <1>3
  <1>5. \A i \in DOMAIN w : i = 1 \/ (i - 1 \in DOMAIN t /\ t[i - 1] = w[i])
    <2> SUFFICES ASSUME NEW i \in DOMAIN w, i # 1 PROVE i - 1 \in DOMAIN t /\ t[i - 1] = w[i]
      OBVIOUS
    <2>1. i - 1 \in DOMAIN t /\ (i - 1) + 1 = i
      BY <1>2, <1>3
    <2> QED BY <2>1, <1>4
  <1>6. Lower(t, S, n)
    <2> SUFFICES ASSUME NEW k \in DOMAIN t, Leaving(t[k], S), NEW j \in DOMAIN t, j < k
                 PROVE  ItemLevel(t[j]) <= n
      BY DEF Lower
    <2>1. k + 1 \in DOMAIN w /\ j + 1 \in DOMAIN w /\ t[k] = w[k + 1] /\ t[j] = w[j + 1]
      BY <1>4
    <2>2. j + 1 < k + 1
      BY <1>3
    <2> QED BY <2>1, <2>2 DEF Lower
  <1>7. Has(t, S) => ItemLevel(Head(w)) <= n
    <2> SUFFICES ASSUME NEW i \in DOMAIN t, Leaving(t[i], S) PROVE ItemLevel(w[1]) <= n
      BY <1>2 DEF Has
    <2> QED BY <1>3, <1>4 DEF Lower
  <1>8. Has(w, S) <=> Leaving(Head(w), S) \/ Has(t, S)
    BY <1>2, <1>3, <1>4, <1>5 DEF Has
  <1> QED BY <1>1, <1>6, <1>7, <1>8

LEMMA LowerJoin ==
  ASSUME NEW f \in Seq(Items), NEW t \in Seq(Items), NEW S, NEW n \in Nat, Lower(f, S, n), Lower(t, S, n),
         Has(t, S) => \A i \in DOMAIN f : ItemLevel(f[i]) <= n
  PROVE  Lower(f \o t, S, n) /\ (Has(f \o t, S) <=> Has(f, S) \/ Has(t, S))
  <1>1. PICK w \in Seq(Items) : w = f \o t
    BY ConcatProperties, Zenon
  <1>2. /\ Len(w) = Len(f) + Len(t)
        /\ \A i \in 1..Len(f) + Len(t) : w[i] = IF i <= Len(f) THEN f[i] ELSE t[i - Len(f)]
    BY <1>1, ConcatProperties, Zenon
  <1>3. PICK a \in Nat, b \in Nat : a = Len(f) /\ b = Len(t)
    OBVIOUS
  <1>4. DOMAIN w = 1..a + b /\ DOMAIN f = 1..a /\ DOMAIN t = 1..b
    BY <1>2, <1>3
  <1>5. \A i \in DOMAIN f : i \in DOMAIN w /\ w[i] = f[i] /\ i <= a
    BY <1>2, <1>3, <1>4
  <1>6. \A i \in DOMAIN w : i > a => i - a \in DOMAIN t /\ w[i] = t[i - a]
    <2>1. \A i \in 1..a + b : i > a => i - a \in 1..b /\ ~(i <= a)
      OBVIOUS
    <2>2. \A i \in 1..a + b : w[i] = IF i <= a THEN f[i] ELSE t[i - a]
      BY <1>2, <1>3
    <2> QED BY <1>4, <2>1, <2>2
  <1>7. \A i \in DOMAIN t : i + a \in DOMAIN w /\ w[i + a] = t[i]
    <2> SUFFICES ASSUME NEW i \in DOMAIN t PROVE i + a \in DOMAIN w /\ w[i + a] = t[i]
      OBVIOUS
    <2>1. i + a \in DOMAIN w /\ i + a > a /\ (i + a) - a = i
      BY <1>3, <1>4
    <2> QED BY <2>1, <1>6
  <1>8. \A i \in DOMAIN w : i \in Int /\ (i <= a => i \in DOMAIN f)
    BY <1>3, <1>4
  <1>9. Lower(w, S, n)
    <2> SUFFICES ASSUME NEW k \in DOMAIN w, Leaving(w[k], S), NEW j \in DOMAIN w, j < k
                 PROVE  ItemLevel(w[j]) <= n
      BY DEF Lower
    <2>1. CASE k <= a
      <3>1. k \in DOMAIN f /\ j \in DOMAIN f /\ w[k] = f[k] /\ w[j] = f[j]
        BY <1>3, <1>5, <1>8, <2>1
      <3> QED BY <3>1 DEF Lower
    <2>2. CASE k > a /\ j <= a
      <3>1. j \in DOMAIN f /\ w[j] = f[j] /\ k - a \in DOMAIN t /\ w[k] = t[k - a]
        BY <1>5, <1>6, <1>8, <2>2
      <3> QED BY <3>1 DEF Has
    <2>3. CASE k > a /\ j > a
      <3>1. k - a \in DOMAIN t /\ j - a \in DOMAIN t /\ w[k] = t[k - a] /\ w[j] = t[j - a]
        BY <1>6, <2>3
      <3>2. j - a < k - a
        BY <1>3, <1>8
      <3> QED BY <3>1, <3>2 DEF Lower
    <2> QED BY <1>3, <1>8, <2>1, <2>2, <2>3
  <1>10. Has(w, S) <=> Has(f, S) \/ Has(t, S)
    <2>1. ASSUME NEW i \in DOMAIN w, Leaving(w[i], S) PROVE Has(f, S) \/ Has(t, S)
      <3>1. i <= a \/ i > a
        BY <1>3, <1>8
      <3>2. CASE i <= a
        BY <1>5, <1>8, <2>1, <3>2 DEF Has
      <3>3. CASE i > a
        BY <1>6, <2>1, <3>3 DEF Has
      <3> QED BY <3>1, <3>2, <3>3
    <2>2. Has(f, S) => Has(w, S)
      BY <1>5 DEF Has
    <2>3. Has(t, S) => Has(w, S)
      BY <1>7 DEF Has
    <2>4. Has(w, S) => Has(f, S) \/ Has(t, S)
      BY <2>1 DEF Has
    <2> QED BY <2>2, <2>3, <2>4
  <1> QED BY <1>1, <1>9, <1>10

\* The items that the alternative of a rule puts in its place.
LEMMA FrontLevels ==
  ASSUME NEW rule \in DOMAIN Rules, NEW alt, alt.body \in Seq(DOMAIN Rules), AltLevels(rule, alt),
         alt.tokens \in Nat, alt.label # "Imported", NEW base \in Nat
  PROVE  \E f \in Seq(Items) :
           /\ f = Parsed(alt.body) \o (IF alt.label \in Handled THEN <<Exit(alt, base)>> ELSE <<>>)
           /\ \A i \in DOMAIN f : ItemLevel(f[i]) <= LevelOf(rule)
           /\ Nested(f)
           /\ Has(f, Structs) <=> alt.label = "StructDecl"
           /\ Has(f, Functions) <=> alt.label \in Functions
  <1>1. PICK body \in Seq(DOMAIN Rules) : body = alt.body
    OBVIOUS
  <1>2. PICK p : p = Parsed(body)
    OBVIOUS
  <1>3. DOMAIN p = DOMAIN body /\ \A i \in DOMAIN body : p[i] = Rule(body[i]) /\ body[i] \in DOMAIN Rules
    BY <1>2 DEF Parsed
  <1>4. p \in Seq(Items)
    <2>0. \A r \in DOMAIN Rules : Rule(r) \in Items
      <3> SUFFICES ASSUME NEW r \in DOMAIN Rules PROVE Rule(r) \in Items
        OBVIOUS
      <3> QED BY DEF Rule, Items
    <2>1. \A i \in DOMAIN p : p[i] \in Items
      BY <1>3, <2>0
    <2>2. DOMAIN p = 1..Len(body) /\ Len(body) \in Nat /\ p = [i \in 1..Len(body) |-> p[i]]
      BY <1>2, <1>3 DEF Parsed
    <2> QED BY <2>1, <2>2
  <1>5. \A i \in DOMAIN p : p[i].enter = TRUE /\ ItemLevel(p[i]) = LevelOf(body[i])
    BY <1>3 DEF Rule, ItemLevel
  <1>6. \A i \in DOMAIN p : ItemLevel(p[i]) <= LevelOf(rule)
    BY <1>1, <1>3, <1>5 DEF AltLevels
  <1>7. \A S : ~Has(p, S) /\ \A n : Lower(p, S, n)
    BY <1>5 DEF Has, Lower, Leaving
  <1>8. "StructDecl" \in Handled /\ Functions \subseteq Handled /\ "StructDecl" \notin Functions
    BY DEF Handled, Functions
  <1>9. CASE alt.label \notin Handled
    <2>1. p \o <<>> = p
      BY <1>4
    <2>2. Nested(p) /\ ~Has(p, Structs) /\ ~Has(p, Functions)
      BY <1>7 DEF Nested
    <2>3. alt.label # "StructDecl" /\ alt.label \notin Functions
      BY <1>8, <1>9
    <2> QED BY <1>1, <1>2, <1>4, <1>6, <1>9, <2>1, <2>2, <2>3
  <1>10. CASE alt.label \in Handled
    <2>1. PICK x : x = Exit(alt, base)
      OBVIOUS
    <2>2. x.enter = FALSE /\ x.of = alt.label /\ x \in Items
      BY <1>1, <1>10, <2>1 DEF Exit, Items
    <2>3. PICK e : e = <<x>>
      OBVIOUS
    <2>4. e \in Seq(Items) /\ Len(e) = 1 /\ e[1] = x /\ DOMAIN e = {1}
      BY <2>2, <2>3
    <2>5. PICK f \in Seq(Items) : f = p \o e
      BY <1>4, <2>4, ConcatProperties, Zenon
    <2>6. /\ Len(f) = Len(p) + 1 /\ f[Len(p) + 1] = x
          /\ \A i \in 1..Len(p) : f[i] = p[i]
      BY <1>4, <2>4, <2>5, JoinedOne
    <2>7. PICK a \in Nat : a = Len(p)
      BY <1>4
    <2>8. DOMAIN f = 1..a + 1 /\ DOMAIN p = 1..a
      BY <1>4, <2>6, <2>7
    <2>9. \A i \in DOMAIN f : i = a + 1 \/ (i \in DOMAIN p /\ f[i] = p[i])
      BY <2>6, <2>7, <2>8
    <2>10. f[a + 1] = x /\ a + 1 \in DOMAIN f
      BY <2>6, <2>7, <2>8
    <2>11. ItemLevel(x) <= LevelOf(rule)
      BY <2>2 DEF ItemLevel, AltLevels
    <2>12. \A i \in DOMAIN f : ItemLevel(f[i]) <= LevelOf(rule)
      BY <1>6, <2>9, <2>10, <2>11
    <2>13. \A S : Has(f, S) <=> alt.label \in S
      <3>1. \A i \in DOMAIN p : p[i].enter
        BY <1>5
      <3> QED BY <2>2, <2>9, <2>10, <3>1 DEF Has, Leaving
    <2>14. ASSUME NEW S, NEW n \in Nat, alt.label \in S => \A i \in DOMAIN p : ItemLevel(p[i]) <= n
           PROVE  Lower(f, S, n)
      <3> SUFFICES ASSUME NEW k \in DOMAIN f, Leaving(f[k], S), NEW j \in DOMAIN f, j < k
                   PROVE  ItemLevel(f[j]) <= n
        BY DEF Lower
      <3>1. k = a + 1
        <4>1. k \in DOMAIN p => f[k].enter
          BY <1>5, <2>9, <2>8, <2>6, <2>7
        <4> QED BY <4>1, <2>9 DEF Leaving
      <3>2. alt.label \in S
        BY <2>2, <2>10, <3>1 DEF Leaving
      <3>3. j \in DOMAIN p /\ f[j] = p[j]
        BY <2>7, <2>8, <2>9, <3>1
      <3> QED BY <2>14, <3>2, <3>3
    <2>15. alt.label \in Functions => \A i \in DOMAIN p : ItemLevel(p[i]) <= 0
      BY <1>1, <1>3, <1>5 DEF AltLevels
    <2>16. alt.label \in Structs => \A i \in DOMAIN p : ItemLevel(p[i]) <= 1
      BY <1>1, <1>3, <1>5 DEF AltLevels, Structs
    <2>17. Nested(f)
      BY <2>14, <2>15, <2>16 DEF Nested
    <2>18. alt.label \in Structs <=> alt.label = "StructDecl"
      BY DEF Structs
    <2> QED BY <1>1, <1>2, <1>10, <2>1, <2>3, <2>5, <2>12, <2>13, <2>17, <2>18
  <1> QED BY <1>9, <1>10

LEMMA BottomOnly ==
  ASSUME NEW w
  PROVE  /\ Bottom(w) \o <<>> = Bottom(w) /\ Bottom(w) \o <<"func">> = Append(Bottom(w), "func")
         /\ Front(Append(Bottom(w), "func")) = Bottom(w)
  <1>1. PICK S : S = {Unnamed, "struct", "func"}
    OBVIOUS
  <1>2. PICK b \in Seq(S) : b = Bottom(w)
    <2>1. <<"struct">> \in Seq(S) /\ <<Unnamed>> \in Seq(S)
      BY <1>1
    <2>2. Bottom(w) = <<"struct">> \/ Bottom(w) = <<Unnamed>>
      BY Zenon DEF Bottom
    <2> QED BY <2>1, <2>2
  <1>3. "func" \in S
    BY <1>1
  <1>4. b \o <<>> = b
    BY <1>2
  <1>5. Append(b, "func") = b \o <<"func">>
    BY <1>2, <1>3, AppendIsConcat
  <1>6. Front(Append(b, "func")) = b
    BY <1>2, <1>3 DEF Front
  <1> QED BY <1>2, <1>4, <1>5, <1>6

LEMMA ScopedEnter ==
  ASSUME Counted, Safe, Scoped, Enter
  PROVE  Scoped'
  <1>1. /\ outcome = "walking" /\ walk # <<>> /\ Head(walk).enter /\ walk \in Seq(Items) /\ stack \in Seq(Nodes)
        /\ outer' = outer
    BY DEF Enter, Safe, WellTyped, TypeOK
  <1>2. PICK alt \in Rules[Head(walk).of] :
           /\ walk' = Parsed(alt.body)
                        \o (IF alt.label \in Handled THEN <<Exit(alt, Len(stack))>>
                            ELSE <<>>) \o Tail(walk)
           /\ scope' = CASE alt.label = "StructDecl" -> <<"struct">>
                         [] alt.label \in {"PropFunc", "StateFunc"} -> Append(scope, "func")
                         [] OTHER -> scope
           /\ ~Avoid(alt)
    BY DEF Enter
  <1>3. PICK rule \in DOMAIN Rules : rule = Head(walk).of
    BY <1>1, ItemsTyped DEF Items
  <1>4. /\ alt.tokens \in Nat /\ alt.label # "Imported" /\ alt.body \in Seq(DOMAIN Rules)
    <2>1. AltFits(rule, alt)
      BY <1>2, <1>3, GrammarFits
    <2> QED BY <2>1 DEF AltFits
  <1>5. AltLevels(rule, alt)
    BY <1>2, <1>3, GrammarLevels
  <1>6. PICK f \in Seq(Items) :
          /\ f = Parsed(alt.body) \o (IF alt.label \in Handled THEN <<Exit(alt, Len(stack))>> ELSE <<>>)
          /\ \A i \in DOMAIN f : ItemLevel(f[i]) <= LevelOf(rule)
          /\ Nested(f)
          /\ Has(f, Structs) <=> alt.label = "StructDecl"
          /\ Has(f, Functions) <=> alt.label \in Functions
    <2>1. Len(stack) \in Nat
      BY <1>1
    <2> QED BY <1>4, <1>5, <2>1, FrontLevels
  <1>7. PICK t \in Seq(Items) : t = Tail(walk)
    BY <1>1, ItemsTyped
  <1>8. walk' = f \o t
    BY <1>2, <1>6, <1>7
  <1>9. /\ ItemLevel(Head(walk)) = LevelOf(rule) /\ ~Leaving(Head(walk), Structs) /\ ~Leaving(Head(walk), Functions)
    BY <1>1, <1>3 DEF ItemLevel, Leaving
  <1>10. /\ Lower(walk, Structs, 1) /\ Lower(walk, Functions, 0) /\ scope = ScopeOf(walk)
         /\ \A i \in DOMAIN outer : outer[i].scope = <<Unnamed>>
    BY <1>1 DEF Scoped, Nested
  <1>11. /\ Lower(t, Structs, 1) /\ (Has(t, Structs) => LevelOf(rule) <= 1) /\ (Has(walk, Structs) <=> Has(t, Structs))
    BY <1>1, <1>7, <1>9, <1>10, LowerTail
  <1>12. /\ Lower(t, Functions, 0) /\ (Has(t, Functions) => LevelOf(rule) <= 0)
         /\ (Has(walk, Functions) <=> Has(t, Functions))
    BY <1>1, <1>7, <1>9, <1>10, LowerTail
  <1>13. LevelOf(rule) \in Int /\ \A i \in DOMAIN f : ItemLevel(f[i]) \in Int
    BY Levels
  <1>14. Lower(f \o t, Structs, 1) /\ (Has(f \o t, Structs) <=> Has(f, Structs) \/ Has(t, Structs))
    <2>1. Has(t, Structs) => \A i \in DOMAIN f : ItemLevel(f[i]) <= 1
      BY <1>6, <1>11, <1>13
    <2> QED BY <1>6, <1>11, <2>1, LowerJoin DEF Nested
  <1>15. Lower(f \o t, Functions, 0) /\ (Has(f \o t, Functions) <=> Has(f, Functions) \/ Has(t, Functions))
    <2>1. Has(t, Functions) => \A i \in DOMAIN f : ItemLevel(f[i]) <= 0
      BY <1>6, <1>12, <1>13
    <2> QED BY <1>6, <1>12, <2>1, LowerJoin DEF Nested
  <1>16. Nested(walk')
    BY <1>8, <1>14, <1>15 DEF Nested
  <1>17. scope' = ScopeOf(f \o t)
    <2>1. CASE alt.label = "StructDecl"
      <3>1. ~Has(t, Structs) /\ ~Has(t, Functions) /\ alt.label \notin Functions
        BY <1>5, <1>11, <1>12, <2>1 DEF AltLevels, Functions
      <3>2. Has(f \o t, Structs) /\ ~Has(f \o t, Functions)
        BY <1>6, <1>14, <1>15, <2>1, <3>1
      <3>3. ScopeOf(f \o t) = <<"struct">>
        BY <3>2 DEF ScopeOf, Bottom
      <3> QED BY <1>2, <2>1, <3>3
    <2>2. CASE alt.label \in Functions
      <3>1. ~Has(t, Functions) /\ alt.label # "StructDecl"
        BY <1>5, <1>12, <2>2 DEF AltLevels, Functions
      <3>2. (Has(f \o t, Structs) <=> Has(walk, Structs)) /\ Has(f \o t, Functions) /\ ~Has(walk, Functions)
        BY <1>6, <1>11, <1>12, <1>14, <1>15, <2>2, <3>1
      <3>3. ScopeOf(f \o t) = Bottom(walk) \o <<"func">> /\ scope = Bottom(walk) \o <<>>
        BY <1>10, <3>2 DEF ScopeOf, Bottom
      <3>4. ScopeOf(f \o t) = Append(scope, "func")
        BY <3>3, BottomOnly
      <3> QED BY <1>2, <2>2, <3>1, <3>4 DEF Functions
    <2>3. CASE alt.label # "StructDecl" /\ alt.label \notin Functions
      <3>1. (Has(f \o t, Structs) <=> Has(walk, Structs)) /\ (Has(f \o t, Functions) <=> Has(walk, Functions))
        BY <1>6, <1>11, <1>12, <1>14, <1>15, <2>3
      <3>2. ScopeOf(f \o t) = ScopeOf(walk)
        BY <3>1 DEF ScopeOf, Bottom
      <3>3. scope' = scope
        BY <1>2, <2>3 DEF Functions
      <3> QED BY <1>10, <3>2, <3>3
    <2> QED BY <2>1, <2>2, <2>3
  <1> QED BY <1>1, <1>8, <1>10, <1>16, <1>17 DEF Scoped

LEMMA ScopedHandler ==
  ASSUME Safe, Scoped, NEW label, Handles(label)
  PROVE  Scoped'
  <1> SUFFICES ASSUME outcome' = "walking" PROVE Scoped'
    BY DEF Scoped
  <1>1. label \in Handled /\ Ready(label) /\ Served(label) /\ Steady(label)
    BY DEF Handles
  <1>2. /\ outcome = "walking" /\ walk # <<>> /\ Head(walk).of = label /\ walk \in Seq(Items)
        /\ ~Head(walk).enter
    BY <1>1 DEF Ready, At, IsExit, Safe, WellTyped
  <1>3. walk' = Tail(walk) /\ outer' = outer
    BY <1>1, Zenon DEF Served, EndsIn, Made
  <1>4. /\ Lower(walk, Structs, 1) /\ Lower(walk, Functions, 0) /\ scope = ScopeOf(walk)
        /\ \A i \in DOMAIN outer : outer[i].scope = <<Unnamed>>
    BY <1>2 DEF Scoped, Nested
  <1>5. PICK t \in Seq(Items) : t = Tail(walk)
    BY <1>2, ItemsTyped
  <1>6. /\ ItemLevel(Head(walk)) = LabelLevel(label) /\ (Leaving(Head(walk), Structs) <=> label \in Structs)
        /\ (Leaving(Head(walk), Functions) <=> label \in Functions)
    BY <1>2 DEF ItemLevel, Leaving
  <1>7. /\ Lower(t, Structs, 1) /\ (Has(t, Structs) => LabelLevel(label) <= 1)
        /\ (Has(walk, Structs) <=> label \in Structs \/ Has(t, Structs))
    BY <1>2, <1>4, <1>5, <1>6, LowerTail
  <1>8. /\ Lower(t, Functions, 0) /\ (Has(t, Functions) => LabelLevel(label) <= 0)
        /\ (Has(walk, Functions) <=> label \in Functions \/ Has(t, Functions))
    BY <1>2, <1>4, <1>5, <1>6, LowerTail
  <1>9. scope' = ScopeOf(t)
    <2>1. CASE label \in Structs
      <3>1. ~Has(t, Structs) /\ ~Has(t, Functions)
        BY <1>7, <1>8, <2>1, Levels DEF Structs
      <3>2. ScopeOf(t) = <<Unnamed>>
        BY <3>1 DEF ScopeOf, Bottom
      <3> QED BY <1>1, <2>1, <3>2 DEF Steady, Structs
    <2>2. CASE label \in Functions
      <3>1. ~Has(t, Functions) /\ label \notin Structs
        BY <1>8, <2>2, Levels DEF Structs, Functions
      <3>2. (Has(walk, Structs) <=> Has(t, Structs)) /\ Has(walk, Functions)
        BY <1>7, <1>8, <2>2, <3>1
      <3>3. scope = Bottom(t) \o <<"func">> /\ ScopeOf(t) = Bottom(t) \o <<>>
        BY <1>4, <3>1, <3>2 DEF ScopeOf, Bottom
      <3>4. ScopeOf(t) = Front(scope)
        BY <3>3, BottomOnly
      <3> QED BY <1>1, <2>2, <3>4 DEF Steady, Functions
    <2>3. CASE label \notin Structs /\ label \notin Functions
      <3>1. ScopeOf(t) = ScopeOf(walk)
        BY <1>7, <1>8, <2>3 DEF ScopeOf, Bottom
      <3> QED BY <1>1, <1>4, <2>3, <3>1 DEF Steady, Structs, Functions
    <2> QED BY <2>1, <2>2, <2>3
  <1> QED BY <1>3, <1>4, <1>5, <1>7, <1>8, <1>9 DEF Scoped, Nested

\* Nothing but declarations are open where a file is imported.
LEMMA Outermost ==
  ASSUME Safe, Scoped, outcome = "walking", walk # <<>>, ~Head(walk).enter, Head(walk).of \in {"ImportSpec", "DotImport", "Imported"}
  PROVE  /\ scope = <<Unnamed>> /\ ~Has(Tail(walk), Structs) /\ ~Has(Tail(walk), Functions)
         /\ Tail(walk) \in Seq(Items) /\ walk \in Seq(Items)
  <1>1. walk \in Seq(Items) /\ Tail(walk) \in Seq(Items)
    BY ItemsTyped DEF Safe, WellTyped
  <1>2. Lower(walk, Structs, 1) /\ Lower(walk, Functions, 0) /\ scope = ScopeOf(walk)
    BY DEF Scoped, Nested
  <1>3. ItemLevel(Head(walk)) = 2 /\ ~Leaving(Head(walk), Structs) /\ ~Leaving(Head(walk), Functions)
    BY Levels DEF ItemLevel, Leaving, Structs, Functions
  <1>4. ~Has(Tail(walk), Structs) /\ ~Has(walk, Structs)
    BY <1>1, <1>2, <1>3, LowerTail
  <1>5. ~Has(Tail(walk), Functions) /\ ~Has(walk, Functions)
    BY <1>1, <1>2, <1>3, LowerTail
  <1>6. ScopeOf(walk) = <<Unnamed>>
    BY <1>4, <1>5 DEF ScopeOf, Bottom
  <1> QED BY <1>1, <1>2, <1>4, <1>5, <1>6

LEMMA UnscopedNested ==
  ASSUME NEW w, ~Has(w, Structs), ~Has(w, Functions)
  PROVE  Nested(w) /\ ScopeOf(w) = <<Unnamed>>
  <1>1. Nested(w)
    BY DEF Has, Nested, Lower
  <1> QED BY <1>1 DEF ScopeOf, Bottom

LEMMA ScopedImport ==
  ASSUME Safe, Scoped, ExitImportSpec
  PROVE  Scoped'
  <1> SUFFICES ASSUME outcome' = "walking" PROVE Scoped'
    BY DEF Scoped
  <1>1. outcome = "walking" /\ walk # <<>> /\ ~Head(walk).enter /\ Head(walk).of \in {"ImportSpec", "DotImport", "Imported"}
    BY DEF ExitImportSpec, At, IsExit
  <1>2. /\ scope = <<Unnamed>> /\ ~Has(Tail(walk), Structs) /\ ~Has(Tail(walk), Functions)
        /\ Tail(walk) \in Seq(Items)
    BY <1>1, Outermost
  <1>3. /\ walk' = <<Rule("spec"), ImportedFile(Head(walk))>> \o Tail(walk) /\ scope' = <<Unnamed>>
        /\ \E l : outer' = <<l>> \o outer /\ l.scope = scope
    <2>1. PICK l : l = [stack |-> Front(stack), scope |-> scope, structscope |-> structscope, skipRun |-> skipRun]
      OBVIOUS
    <2>2. l.scope = scope
      BY <2>1
    <2>3. ~(outcome' = "crashed") /\ ~(outcome' = "refused")
      OBVIOUS
    <2>4. walk' = <<Rule("spec"), ImportedFile(Head(walk))>> \o Tail(walk) /\ scope' = <<Unnamed>> /\ outer' = <<l>> \o outer
      BY <2>1, <2>3, Zenon DEF ExitImportSpec, Stop, NewListener
    <2> QED BY <2>2, <2>4
  <1>4. \A i \in DOMAIN outer : outer[i].scope = <<Unnamed>>
    BY <1>1 DEF Scoped
  <1>5. outer \in Seq(Saved) /\ outer' \in Seq(Saved)
    BY ImportAnnotated DEF Safe, WellTyped
  <1>6. \A i \in DOMAIN outer' : outer'[i].scope = <<Unnamed>>
    <2>1. PICK l : outer' = <<l>> \o outer /\ l.scope = <<Unnamed>>
      BY <1>2, <1>3
    <2>2. \A i \in DOMAIN outer' : outer'[i] = l \/ \E j \in DOMAIN outer : outer'[i] = outer[j]
      BY <1>5, <2>1
    <2> QED BY <1>4, <2>1, <2>2
  <1>7. PICK f : f = <<Rule("spec"), ImportedFile(Head(walk))>>
    OBVIOUS
  <1>11. walk \in Seq(Items)
    BY DEF Safe, WellTyped
  <1>8. f \in Seq(Items) /\ \A S : "Imported" \notin S => ~Has(f, S)
    <2>1. PICK r, x : r = Rule("spec") /\ x = ImportedFile(Head(walk))
      OBVIOUS
    <2>2. r \in Items /\ r.enter = TRUE
      <3>1. PICK rule \in DOMAIN Rules : rule = "spec"
        BY NamesOfRules DEF Files
      <3>2. Rule(rule) \in Items /\ Rule(rule).enter = TRUE
        BY DEF Rule, Items
      <3> QED BY <2>1, <3>1, <3>2
    <2>3. x \in Items /\ x.enter = FALSE /\ x.of = "Imported"
      BY <1>1, <1>11, <2>1, ImportedItem
    <2>4. f = <<r, x>>
      BY <1>7, <2>1
    <2>5. f \in Seq(Items) /\ DOMAIN f = {1, 2} /\ f[1] = r /\ f[2] = x
      BY <2>2, <2>3, <2>4
    <2> QED BY <2>2, <2>3, <2>5 DEF Has, Leaving
  <1>9. ~Has(f, Structs) /\ ~Has(f, Functions)
    BY <1>8 DEF Structs, Functions
  <1>10. ~Has(f \o Tail(walk), Structs) /\ ~Has(f \o Tail(walk), Functions)
    <2>1. \A S : ~Has(f, S) => Lower(f, S, 0)
      BY DEF Lower, Has
    <2>2. \A S : ~Has(Tail(walk), S) => Lower(Tail(walk), S, 0)
      BY DEF Lower, Has
    <2> QED BY <1>2, <1>8, <1>9, <2>1, <2>2, LowerJoin
  <1> QED BY <1>3, <1>6, <1>7, <1>10, UnscopedNested DEF Scoped

LEMMA ScopedImported ==
  ASSUME Safe, Scoped, Imported
  PROVE  Scoped'
  <1> SUFFICES ASSUME outcome' = "walking" PROVE Scoped'
    BY DEF Scoped
  <1>1. outcome = "walking" /\ walk # <<>> /\ ~Head(walk).enter /\ Head(walk).of \in {"ImportSpec", "DotImport", "Imported"}
    BY DEF Imported, At, IsExit
  <1>2. ~Has(Tail(walk), Structs) /\ ~Has(Tail(walk), Functions)
    BY <1>1, Outermost
  <1>3. walk' = Tail(walk) /\ scope' = Head(outer).scope /\ outer' = Tail(outer)
    <2>1. ~DotImport
      BY ImportedAnnotated DEF Safe
    <2> QED BY <2>1, Zenon DEF Imported
  <1>4. \A i \in DOMAIN outer : outer[i].scope = <<Unnamed>>
    BY <1>1 DEF Scoped
  <1>5. outer \in Seq(Saved) /\ outer # <<>>
    BY ImportedAnnotated DEF Safe, WellTyped
  <1>6. scope' = <<Unnamed>>
    BY <1>3, <1>4, <1>5
  <1>7. \A i \in DOMAIN outer' : outer'[i].scope = <<Unnamed>>
    BY <1>3, <1>4, <1>5
  <1> QED BY <1>2, <1>3, <1>6, <1>7, UnscopedNested DEF Scoped

LEMMA ScopedInit == Init => Scoped
  <1> SUFFICES ASSUME Init PROVE Scoped
    OBVIOUS
  <1>1. PICK rule : walk = <<Rule(rule)>>
    BY DEF Init
  <1>2. DOMAIN walk = {1} /\ walk[1].enter = TRUE
    BY <1>1 DEF Rule
  <1>3. ~Has(walk, Structs) /\ ~Has(walk, Functions)
    BY <1>2 DEF Has, Leaving
  <1>4. scope = <<Unnamed>> /\ outer = <<>>
    BY DEF Init
  <1> QED BY <1>3, <1>4, UnscopedNested DEF Scoped

LEMMA ScopedNext ==
  ASSUME Counted, Safe, Scoped, [Next]_vars
  PROVE  Scoped'
  <1>1. CASE Enter
    BY <1>1, ScopedEnter
  <1>2. ASSUME NEW label, Handles(label) PROVE Scoped'
    BY <1>2, ScopedHandler
  <1>3. CASE ExitImportSpec
    BY <1>3, ScopedImport
  <1>4. CASE Imported
    BY <1>4, ScopedImported
  <1>5. CASE Done
    BY <1>5 DEF Done, Scoped
  <1>6. CASE Ended \/ UNCHANGED vars
    <2>1. UNCHANGED <<walk, scope, outer, outcome>>
      BY <1>6 DEF Ended, vars
    <2> QED BY <2>1 DEF Scoped
  <1>7. WellTyped /\ Annotation
    BY DEF Safe
  <1> QED BY <1>1, <1>2, <1>3, <1>4, <1>5, <1>6, <1>7, StepsOfWalk, Zenon

\* No imported file is open inside of a struct or a function.
LEMMA ScopedTracks ==
  ASSUME Safe, Scoped
  PROVE  ScopeTracks
  <1> SUFFICES ASSUME outcome = "walking" PROVE ScopeTracks
    BY DEF ScopeTracks
  <1>1. walk \in Seq(Items) /\ Nested(walk) /\ scope = ScopeOf(walk)
    BY DEF Safe, WellTyped, Scoped
  <1>2. ASSUME NEW label, NEW S, NEW n \in {0, 1}, Lower(walk, S, n), label \in S, "Imported" \notin S,
               NEW i \in DOMAIN walk, ~walk[i].enter, walk[i].of = label
        PROVE  label \in Open
    <2>1. ASSUME NEW k \in 1..i, IsExit(walk[k]) PROVE walk[k].of # "Imported"
      <3>1. k \in DOMAIN walk /\ (k = i \/ k < i)
        BY <1>1
      <3>2. CASE k = i
        BY <1>2, <3>2
      <3>3. CASE k < i
        <4>1. ItemLevel(walk[k]) <= n
          BY <1>2, <3>1, <3>3 DEF Lower, Leaving
        <4>2. walk[k].of = "Imported" => ItemLevel(walk[k]) = 2
          BY <2>1, Levels DEF ItemLevel, IsExit
        <4> QED BY <4>1, <4>2
      <3> QED BY <3>1, <3>2, <3>3
    <2> QED BY <1>2, <2>1 DEF Open, IsExit
  <1>3. ASSUME NEW label \in Open PROVE \E i \in DOMAIN walk : ~walk[i].enter /\ walk[i].of = label
    BY DEF Open, IsExit
  <1>4. Has(walk, Structs) <=> "StructDecl" \in Open
    <2>1. Has(walk, Structs) => "StructDecl" \in Open
      BY <1>1, <1>2 DEF Has, Leaving, Structs, Nested
    <2>2. "StructDecl" \in Open => Has(walk, Structs)
      BY <1>3 DEF Has, Leaving, Structs
    <2> QED BY <2>1, <2>2
  <1>5. Has(walk, Functions) <=> Open \cap {"PropFunc", "StateFunc"} # {}
    <2>1. Has(walk, Functions) => \E l \in Functions : l \in Open
      BY <1>1, <1>2 DEF Has, Leaving, Functions, Nested
    <2>2. \A l \in Functions : l \in Open => Has(walk, Functions)
      BY <1>3 DEF Has, Leaving
    <2>3. Open \cap {"PropFunc", "StateFunc"} # {} <=> \E l \in Functions : l \in Open
      BY DEF Functions
    <2> QED BY <2>1, <2>2, <2>3
  <1> QED BY <1>1, <1>4, <1>5 DEF ScopeTracks, ScopeOf, Bottom

\* On these trees the listener's scope is that of the struct and the function that are
\* open, also after a function, after a struct, in an imported file and after it.
THEOREM ListenerScopeTracks == ASSUME Counted PROVE Listening => []ScopeTracks
  <1>1. Safe /\ [Next]_vars => Safe'
    BY SafeNext
  <1>2. Safe /\ Scoped /\ [Next]_vars => Scoped'
    BY ScopedNext
  <1>3. Safe /\ Scoped => ScopeTracks
    BY ScopedTracks
  <1> QED BY SafeInit, ScopedInit, <1>1, <1>2, <1>3, PTL DEF Listening

-----------------------------------------------------------------------------
\* On every tree on which the handlers count right, the listener's stack holds nodes
\* of the kinds the handlers push, and the walk only Exit events that have a handler.
THEOREM ListenerTyped == ASSUME Counted PROVE Listening => []TypeOK
  <1>1. Safe /\ [Next]_vars => Safe'
    BY SafeNext
  <1>2. Safe => TypeOK
    BY DEF Safe, WellTyped
  <1> QED BY SafeInit, <1>1, <1>2, PTL DEF Listening

\* On every tree on which the handlers count right, of any size and with any imports,
\* no pop is out of range, no type assertion of an Exit handler fails and no child that
\* it takes for granted is missing, except where a step of a run block is a call in
\* parentheses and where an import is under '.'.
THEOREM ListenerNeverCrashes == ASSUME Counted PROVE Listening => []NeverCrashes
  <1>1. Safe /\ [Next]_vars => Safe'
    BY SafeNext
  <1>2. Safe => NeverCrashes
    BY DEF Safe
  <1> QED BY SafeInit, <1>1, <1>2, PTL DEF Listening

\* What a handler has done when the walk goes on.
LEMMA HandlerMade ==
  ASSUME Safe, NEW label, Handles(label), outcome' = "walking"
  PROVE  /\ Head(walk).of = label /\ label \in Handled /\ label \notin {"ImportSpec", "DotImport"}
         /\ \E made \in Makes[label] :
              /\ made \in Seq(Nodes) /\ Len(stack') = Head(walk).base + Len(made) /\ Head(walk).base \in Nat
              /\ SubSeq(stack', 1, Head(walk).base) = SubSeq(stack, 1, Head(walk).base)
              /\ stack' = Below \o made
  <1>1. label \in Handled /\ label \notin {"ImportSpec", "DotImport"} /\ Ready(label) /\ Served(label) /\ Head(walk).of = label
    BY DEF Handles, Ready, At
  <1>2. PICK made \in Makes[label] : Made(made)
    BY <1>1, Zenon DEF Served, EndsIn
  <1>3. made \in Seq(Nodes)
    BY <1>1, <1>2, MakesNodes
  <1>4. /\ Below \in Seq(Nodes) /\ Len(Below) = Head(walk).base /\ Head(walk).base \in Nat
        /\ stack' = Below \o made
    BY <1>1, <1>2, OwnOnTop DEF Ready, Made
  <1>5. Len(Below \o made) = Len(Below) + Len(made) /\ SubSeq(Below \o made, 1, Len(Below)) = Below
    BY <1>3, <1>4, CutAgain
  <1>6. SubSeq(stack', 1, Head(walk).base) = SubSeq(stack, 1, Head(walk).base)
    BY <1>4, <1>5, Zenon DEF Below
  <1>7. Len(stack') = Head(walk).base + Len(made)
    BY <1>4, <1>5
  <1> QED BY <1>1, <1>2, <1>3, <1>4, <1>6, <1>7

\* What the walk does at the Exit of a context, by whether it is the import's.
LEMMA ExitKinds ==
  ASSUME Safe, Next, walk # <<>>, IsExit(Head(walk)), outcome' = "walking"
  PROVE  \/ \E label : Handles(label)
         \/ ExitImportSpec /\ Head(walk).of \in {"ImportSpec", "DotImport"}
         \/ Imported /\ Head(walk).of = "Imported"
  <1>1. ~Enter
    BY DEF Enter, IsExit
  <1>2. ~Done
    BY DEF Done
  <1>3. ~Ended
    BY DEF Ended, vars
  <1>4. ExitImportSpec => Head(walk).of \in {"ImportSpec", "DotImport"}
    BY DEF ExitImportSpec, At
  <1>5. Imported => Head(walk).of = "Imported"
    BY DEF Imported, At
  <1> QED BY <1>1, <1>2, <1>3, <1>4, <1>5, StepsOfWalk DEF Safe

\* A handler works on the listener that is walking.
LEMMA HandlerStacks ==
  ASSUME Safe, NEW label, Handles(label), outcome' = "walking"
  PROVE  Before = stack /\ After = stack'
  <1>1. label \in Handled /\ Head(walk).of = label /\ Served(label)
    BY DEF Handles, Ready, At
  <1>2. outer' = outer
    BY <1>1, Zenon DEF Served, Made, EndsIn
  <1>3. outer \in Seq(Saved)
    BY DEF Safe, WellTyped
  <1>4. ~(Len(outer') > Len(outer))
    BY <1>2, <1>3
  <1> QED BY <1>1, <1>4 DEF Before, After, Handled

\* The importing listener waits with what was there before the import, and goes on
\* with it and the import's node.
LEMMA ImportStacks ==
  ASSUME Safe, ExitImportSpec, outcome' = "walking"
  PROVE  /\ Head(walk).base \in Nat /\ Len(After) = Head(walk).base
         /\ SubSeq(After, 1, Head(walk).base) = SubSeq(Before, 1, Head(walk).base)
  <1>1. /\ Len(outer') > Len(outer) /\ Head(outer').stack = Below
        /\ Below \in Seq(Nodes) /\ Len(Below) = Head(walk).base
    BY ImportAnnotated DEF Safe
  <1>2. Head(walk).of # "Imported"
    BY DEF ExitImportSpec, At
  <1>3. Before = stack /\ After = Below
    BY <1>1, <1>2 DEF Before, After
  <1>4. SubSeq(Below, 1, Len(Below)) = Below
    BY <1>1, SubSeqFull
  <1> QED BY <1>1, <1>3, <1>4 DEF Below

LEMMA ImportedStacks ==
  ASSUME Safe, Imported, outcome' = "walking"
  PROVE  /\ Head(walk).base \in Nat /\ Len(After) = Head(walk).base + 1
         /\ SubSeq(After, 1, Head(walk).base) = SubSeq(Before, 1, Head(walk).base)
  <1>1. outer # <<>> /\ Head(outer) \in Saved /\ Len(Head(outer).stack) = Head(walk).base /\ ~DotImport
    BY ImportedAnnotated DEF Safe
  <1>2. stack' = Append(Head(outer).stack, Node("Import")) /\ outer' = Tail(outer) /\ Head(walk).of = "Imported"
    BY <1>1, Zenon DEF Imported, At
  <1>3. outer \in Seq(Saved)
    BY DEF Safe, WellTyped
  <1>4. ~(Len(outer') > Len(outer))
    BY <1>1, <1>2, <1>3
  <1>5. PICK before \in Seq(Nodes) : before = Head(outer).stack
    BY <1>1 DEF Saved
  <1>6. Before = before /\ After = Append(before, Node("Import"))
    BY <1>2, <1>4, <1>5 DEF Before, After
  <1>7. Node("Import") \in Nodes
    BY NodeIsNode DEF Kinds, StatementKinds
  <1>8. /\ Append(before, Node("Import")) = before \o <<Node("Import")>>
        /\ <<Node("Import")>> \in Seq(Nodes) /\ Len(<<Node("Import")>>) = 1
    BY <1>5, <1>7
  <1>9. /\ Len(before \o <<Node("Import")>>) = Len(before) + 1
        /\ SubSeq(before \o <<Node("Import")>>, 1, Len(before)) = before
    BY <1>5, <1>8, CutAgain
  <1>10. SubSeq(before, 1, Len(before)) = before /\ Len(before) \in Nat
    BY <1>5, SubSeqFull
  <1> QED BY <1>1, <1>5, <1>6, <1>8, <1>9, <1>10

\* On these trees the Exit handler of a context takes nothing from the stack that was
\* there when the context was entered, also where files are imported.
THEOREM ListenerOwnNodes == ASSUME Counted PROVE Listening => OwnNodes
  <1>1. Safe /\ [Next]_vars => Safe'
    BY SafeNext
  <1>2. Safe /\ [Next]_vars => [KeepsOthers]_vars
    <2> SUFFICES ASSUME Safe, Next, walk # <<>>, IsExit(Head(walk)), outcome' = "walking"
                 PROVE  /\ Len(After) >= Head(walk).base
                        /\ SubSeq(After, 1, Head(walk).base) = SubSeq(Before, 1, Head(walk).base)
      BY Zenon DEF KeepsOthers
    <2>1. ASSUME NEW label, Handles(label)
          PROVE  /\ Len(After) >= Head(walk).base
                 /\ SubSeq(After, 1, Head(walk).base) = SubSeq(Before, 1, Head(walk).base)
      <3>1. PICK made \in Makes[label] :
              /\ made \in Seq(Nodes) /\ Len(stack') = Head(walk).base + Len(made) /\ Head(walk).base \in Nat
              /\ SubSeq(stack', 1, Head(walk).base) = SubSeq(stack, 1, Head(walk).base)
        BY <2>1, HandlerMade
      <3>2. Before = stack /\ After = stack'
        BY <2>1, HandlerStacks
      <3>3. Len(stack') >= Head(walk).base
        BY <3>1
      <3> QED BY <3>1, <3>2, <3>3
    <2>2. CASE ExitImportSpec
      BY <2>2, ImportStacks
    <2>3. CASE Imported
      BY <2>3, ImportedStacks
    <2> QED BY <2>1, <2>2, <2>3, ExitKinds
  <1> QED BY SafeInit, <1>1, <1>2, PTL DEF Listening, OwnNodes

LEMMA ForMade ==
  ASSUME Ready("ForStmt"), ExitForStmt, outcome' = "walking"
  PROVE  stack' = Below \o (IF skipRun THEN <<>> ELSE <<Node("For")>>)
  <1>1. Own \in Exactly(Nodes, 2)
    BY DEF Ready, Takes
  <1>2. Popped(2) = Own /\ ~(Len(stack) < 2) /\ SubSeq(stack, 1, Len(stack) - 2) = Below
    BY <1>1, TopTwo
  <1> QED BY <1>1, <1>2, Zenon DEF ExitForStmt, Reduce, Stop, Unchecked

LEMMA HowManyMade ==
  ASSUME NEW label \in Handled, label \notin Lists \cup {"ImportSpec", "DotImport", "ForStmt"}, NEW made \in Makes[label]
  PROVE  Len(made) = IF label \in Pairs THEN 2 ELSE 1
  <1>1. \A S : \A x \in Exactly(S, 1) : Len(x) = 1
    BY DEF Exactly
  <1>2. \A S : \A x \in NamedValues(S, 1) : Len(x) = 2
    BY DEF NamedValues
  <1> QED BY <1>1, <1>2 DEF Handled, Lists, Pairs, Makes

\* How many nodes the handler of a context leaves that is no list and no import.
LEMMA HandlerLeaves ==
  ASSUME Safe, NEW label, Handles(label), outcome' = "walking", Head(walk).of \notin Lists
  PROVE  Len(After) - Head(walk).base =
           CASE Head(walk).of \in Pairs -> 2
             [] Head(walk).of = "ForStmt" /\ skipRun -> 0
             [] Head(walk).of \in {"ImportSpec", "DotImport"} -> 0
             [] OTHER -> 1
  <1>1. /\ Head(walk).of = label /\ label \in Handled
        /\ label \notin Lists \cup {"ImportSpec", "DotImport"}
    BY HandlerMade
  <1>2. After = stack'
    BY HandlerStacks
  <1>3. PICK made \in Makes[label] : Len(stack') = Head(walk).base + Len(made) /\ Head(walk).base \in Nat
    BY HandlerMade
  <1>4. CASE label # "ForStmt"
    <2>1. Len(made) = IF label \in Pairs THEN 2 ELSE 1
      BY <1>1, <1>3, <1>4, HowManyMade
    <2> QED BY <1>1, <1>2, <1>3, <1>4, <2>1
  <1>5. CASE label = "ForStmt"
    <2>1. Ready("ForStmt") /\ ExitForStmt
      BY <1>5 DEF Handles, Steady
    <2>2. stack' = Below \o (IF skipRun THEN <<>> ELSE <<Node("For")>>)
      BY <2>1, ForMade
    <2>3. Below \in Seq(Nodes) /\ Len(Below) = Head(walk).base
      BY <2>1, OwnOnTop
    <2>4. Node("For") \in Nodes
      BY NodeIsNode DEF Kinds, StatementKinds
    <2>5. CASE skipRun
      <3>1. stack' = Below \o <<>> /\ <<>> \in Seq(Nodes) /\ Len(<<>>) = 0
        BY <2>2, <2>5
      <3>2. Len(stack') = Len(Below) + 0
        BY <2>3, <3>1, CutAgain
      <3>3. Len(stack') - Head(walk).base = 0
        BY <1>3, <2>3, <3>2
      <3> QED BY <1>1, <1>2, <1>5, <2>5, <3>3 DEF Pairs
    <2>6. CASE ~skipRun
      <3>1. stack' = Below \o <<Node("For")>> /\ <<Node("For")>> \in Seq(Nodes) /\ Len(<<Node("For")>>) = 1
        BY <2>2, <2>4, <2>6
      <3>2. Len(stack') = Len(Below) + 1
        BY <2>3, <3>1, CutAgain
      <3>3. Len(stack') - Head(walk).base = 1
        BY <1>3, <2>3, <3>2
      <3> QED BY <1>1, <1>2, <1>5, <2>6, <3>3 DEF Pairs
    <2> QED BY <2>5, <2>6
  <1> QED BY <1>4, <1>5

\* On these trees the Exit handler of a context leaves one node in place of its
\* children's, two for a property, and none for the run block of an imported file: what
\* the handlers that pop by counting children count on.  Of an import the first half of
\* the handler leaves none, the second one.
THEOREM ListenerOneEach == ASSUME Counted PROVE Listening => OneEach
  <1>1. Safe /\ [Next]_vars => Safe'
    BY SafeNext
  <1>2. Safe /\ [Next]_vars => [LeavesItsNodes]_vars
    <2> SUFFICES ASSUME Safe, Next, walk # <<>>, IsExit(Head(walk)), outcome' = "walking",
                        Head(walk).of \notin Lists
                 PROVE  Len(After) - Head(walk).base =
                          CASE Head(walk).of \in Pairs -> 2
                            [] Head(walk).of = "ForStmt" /\ skipRun -> 0
                            [] Head(walk).of \in {"ImportSpec", "DotImport"} -> 0
                            [] OTHER -> 1
      BY Zenon DEF LeavesItsNodes
    <2>1. CASE \E label : Handles(label)
      BY <2>1, HandlerLeaves
    <2>2. CASE ExitImportSpec /\ Head(walk).of \in {"ImportSpec", "DotImport"}
      <3>1. Len(After) = Head(walk).base /\ Head(walk).base \in Nat
        BY <2>2, ImportStacks
      <3>2. Head(walk).of \notin Pairs /\ Head(walk).of # "ForStmt"
        BY <2>2 DEF Pairs
      <3>3. Len(After) - Head(walk).base = 0
        BY <3>1
      <3> QED BY <2>2, <3>2, <3>3
    <2>3. CASE Imported /\ Head(walk).of = "Imported"
      <3>1. Len(After) = Head(walk).base + 1 /\ Head(walk).base \in Nat
        BY <2>3, ImportedStacks
      <3>2. Head(walk).of \notin Pairs
        BY <2>3 DEF Pairs
      <3>3. Len(After) - Head(walk).base = 1
        BY <3>1
      <3> QED BY <2>3, <3>2, <3>3
    <2> QED BY <2>1, <2>2, <2>3, ExitKinds
  <1> QED BY SafeInit, <1>1, <1>2, PTL DEF Listening, OneEach
=============================================================================
