------------------------------ MODULE Listener ------------------------------
(***************************************************************************)
(* listener/listener.go: the AST is built on a stack while a parse tree is *)
(* walked.  The walker calls Enter and Exit of a context before and after  *)
(* its children; an Exit handler pops the nodes of the children and pushes *)
(* its own.  How many nodes the children left is nowhere recorded: every   *)
(* handler relies on what the others do.                                   *)
(*                                                                         *)
(* 'walk' is what is left of the tree: rules that are still to be parsed   *)
(* and, where a handler exists, the Exit events of the contexts that are   *)
(* open.  A context without a handler leaves no event.  A node is the name *)
(* of its Go type and what its handlers look at: the kinds of a block's    *)
(* statements, of the expression in an expression statement, whether a     *)
(* prefix has an operand.                                                  *)
(***************************************************************************)
EXTENDS FaultGrammar, SequencesExt

CONSTANTS Budget,   \* what the choices of a tree may cost together
          Avoid(_)  \* the alternatives that no tree of the run uses

ASSUME BudgetAssumption == Budget \in Nat

VARIABLES walk,        \* what is left of the parse tree
          fuel,        \* what is left of the budget
          stack,       \* FaultListener.stack
          scope,       \* FaultListener.scope, split at the dots
          structscope, \* FaultListener.structscope
          skipRun,     \* FaultListener.skipRun
          outer,       \* the listeners that wait for an import
          outcome      \* how the walk ended

listener == <<stack, scope, structscope, skipRun>>
vars == <<walk, fuel, stack, scope, structscope, skipRun, outer, outcome>>

-----------------------------------------------------------------------------
(***************************************************************************)
(* Nodes.                                                                  *)
(***************************************************************************)

\* The kinds of nodes that are ast.Statement, ast.Expression and ast.Operand.
StatementKinds ==
  {"SpecDecl", "SysDecl", "Import", "Constant", "Def", "Assertion", "For", "Start",
   "ExpressionStatement", "Block", "Parallel"}
OperandKinds == {"Identifier", "ParameterCall", "This"}
ExpressionKinds ==
  OperandKinds \cup
  {"Invariant", "Instance", "Integer", "Float", "Natural", "Uncertain", "Unknown", "Prefix",
   "Infix", "Boolean", "Clock", "Nil", "Init", "If", "Function", "Advance", "Stay", "String",
   "Index", "Stock", "Flow"}

\* "Pair" is the []string of a startPair, which is not a node.
Kinds == StatementKinds \cup ExpressionKinds \cup {"Pair"}

\* What a scope is called before it has a name.
Unnamed == "unnamed"

Node(kind) == [kind |-> kind, items |-> <<>>]
NodeOf(kind, items) == [kind |-> kind, items |-> items]
KindsOf(ns) == [i \in DOMAIN ns |-> ns[i].kind]

\* Mutant: an expression statement is wrapped twice.
ItemsWrapped(ns) == KindsOf(ns)

\* The kinds of the statements of a block; an expression statement counts as
\* its expression.
ItemsOf(ns) ==
  [i \in DOMAIN ns |-> IF ns[i].kind = "ExpressionStatement" THEN ns[i].items[1] ELSE ns[i].kind]

-----------------------------------------------------------------------------
(***************************************************************************)
(* The walk.                                                               *)
(***************************************************************************)

\* Contexts that the listener has a handler for.
Handled ==
  {"Spec", "SpecClause", "ImportDecl", "ImportSpec", "DotImport", "ConstSpec", "StructDecl", "Stock", "Flow",
   "PropInt", "PropBool", "PropString", "PropVar", "PropSolvable", "StateFunc", "StateLit",
   "PropFunc", "FunctionLit", "StatementList", "FaultAssign", "MiscAssign", "LrExpr", "ParamCall",
   "RunBlock", "StateBlock", "RunInit", "RunStepExpr", "StateStepExpr", "RunExpr", "StateExpr",
   "Prefix", "Natural", "Uncertain", "Unknown", "OtherType", "IncDecStmt", "IfStmt",
   "IfStmtState", "IfStmtRun", "AccessHistory", "OpName", "OpInstance", "OpThis", "OpClock", "Nil",
   "Integer", "Negative", "Float_", "String_", "Bool_", "Block", "InitDecl", "ForStmt",
   "StageInvariant", "Assertion", "Assumption", "SysSpec", "SysClause", "GlobalDecl",
   "ComponentDecl", "Advance", "Stay", "BuiltinInfix", "StartPair", "StartBlock"}

\* Alternatives on which a handler counts on children that leave no node, or several
\* (README, section 4).
Arguments == [Natural |-> {1}, Uncertain |-> {2}, Unknown |-> {0, 1}]
Miscounted(alt) ==
  \/ alt.label = "EmptyStmt"
  \/ alt.label = "SimpleStmt" /\ alt.body = <<"emptyStmt">>
  \/ alt.label = "ExpressionList" /\ Len(alt.body) > 1
  \/ alt.label \in {"IfStmt", "IfStmtRun", "IfStmtState"} /\ alt.body[1] = "simpleStmt"
  \/ alt.label = "Statement" /\ alt.body = <<"constDecl">>
  \/ alt.label \in DOMAIN Arguments /\ Len(alt.body) \notin Arguments[alt.label]
  \/ alt.label = "StateBlock" /\ alt.body = <<>>

\* No tree has them.
Counted == \A rule \in DOMAIN Rules : \A alt \in Rules[rule] : Miscounted(alt) => Avoid(alt)

At(label) == /\ outcome = "walking" /\ walk # <<>>
             /\ IsExit(Head(walk)) /\ Head(walk).of = label

\* Enter of a context: its children are walked, then its Exit.  Only three
\* contexts have an Enter handler that changes the scope.
Enter ==
  /\ outcome = "walking" /\ walk # <<>> /\ Head(walk).enter
  /\ \E alt \in Rules[Head(walk).of] :
       /\ ~Avoid(alt) /\ alt.cost <= fuel
       /\ fuel' = fuel - alt.cost
       /\ walk' = Parsed(alt.body)
                    \o (IF alt.label \in Handled THEN <<Exit(alt, Len(stack))>>
                        ELSE <<>>) \o Tail(walk)
       /\ scope' = CASE alt.label = "StructDecl" -> <<"struct">>
                     [] alt.label \in {"PropFunc", "StateFunc"} -> Append(scope, "func")
                     [] OTHER -> scope
       /\ structscope' = IF alt.label = "StructDecl" THEN "struct" ELSE structscope
  /\ UNCHANGED <<stack, skipRun, outer, outcome>>

\* Mutant: a panic is caught and the event sent again.
StopRetried(how) == UNCHANGED <<walk, stack, outcome>>

\* A panic with a message of the listener, a panic of the Go runtime, or an exit.
Stop(how) == outcome' = how /\ UNCHANGED <<walk, stack>>

\* A handler that pops n nodes and pushes what it makes of them, in the order in
\* which they were pushed.  Without n nodes the pop is out of range; 'Checked' is
\* what the handler tests itself, 'Cast' what it takes for granted.
Popped(n) == SubSeq(stack, Len(stack) - n + 1, Len(stack))
Reduce(n, Checked(_), Cast(_), Made(_)) ==
  /\ IF Len(stack) < n THEN Stop("crashed")
     ELSE IF ~Checked(Popped(n)) THEN Stop("refused")
     ELSE IF ~Cast(Popped(n)) THEN Stop("crashed")
     ELSE /\ stack' = SubSeq(stack, 1, Len(stack) - n) \o Made(Popped(n))
          /\ walk' = Tail(walk)
          /\ outcome' = outcome
  /\ UNCHANGED <<fuel, skipRun, outer>>

Unchecked(ns) == TRUE
Expressions(ns) == \A i \in DOMAIN ns : ns[i].kind \in ExpressionKinds
SameScope == UNCHANGED <<scope, structscope>>
Push(n) == Reduce(0, Unchecked, Unchecked, LAMBDA ns : <<n>>) /\ SameScope
Binary(kind) == Reduce(2, Unchecked, Expressions, LAMBDA ns : <<NodeOf(kind, KindsOf(ns))>>) /\ SameScope

-----------------------------------------------------------------------------
(***************************************************************************)
(* Leaves.                                                                 *)
(***************************************************************************)

ExitSpecClause == At("SpecClause") /\ Push(Node("SpecDecl"))
ExitSysClause == At("SysClause") /\ Push(Node("SysDecl"))
ExitOpName == At("OpName") /\ Push(Node("Identifier"))
ExitOpInstance == At("OpInstance") /\ Push(Node("Instance"))
ExitOpThis == At("OpThis") /\ Push(NodeOf("This", scope))
ExitOpClock == At("OpClock") /\ Push(NodeOf("Clock", scope))
ExitParamCall == At("ParamCall") /\ Push(NodeOf("ParameterCall", <<structscope>>))
ExitNil == At("Nil") /\ Push(Node("Nil"))
ExitString_ == At("String_") /\ Push(Node("String"))
ExitBool_ == At("Bool_") /\ Push(Node("Boolean"))
ExitStartPair == At("StartPair") /\ Push(Node("Pair"))

\* A literal may be out of range, or hexadecimal, which ParseInt does not read.
Number(kind) ==
  \/ Push(Node(kind))
  \/ Stop("refused") /\ UNCHANGED <<fuel, skipRun, outer>> /\ SameScope
ExitInteger == At("Integer") /\ Number("Integer")
ExitFloat_ == At("Float_") /\ Number("Float")

-----------------------------------------------------------------------------
(***************************************************************************)
(* Expressions.                                                            *)
(***************************************************************************)

ExitNegative ==
  /\ At("Negative")
  /\ Reduce(1, LAMBDA ns : ns[1].kind \in {"Integer", "Float", "Identifier"}, Unchecked,
            LAMBDA ns : IF ns[1].kind = "Identifier" THEN <<NodeOf("Prefix", KindsOf(ns))>> ELSE ns)
  /\ SameScope

\* A prefix without a token is pushed empty, for ExitLrExpr to complete.
ExitPrefix ==
  /\ At("Prefix")
  /\ IF Width(Head(walk)) = 0
     THEN Reduce(0, Unchecked, Unchecked, LAMBDA ns : <<Node("Prefix")>>)
     ELSE Reduce(1, Unchecked, Expressions, LAMBDA ns : <<NodeOf("Prefix", KindsOf(ns))>>)
  /\ SameScope

ExitLrExpr ==
  /\ At("LrExpr")
  /\ Reduce(2, Unchecked, Expressions,
            LAMBDA ns : IF ns[1] = Node("Prefix") THEN <<NodeOf("Prefix", <<ns[2].kind>>)>>
                        ELSE <<NodeOf("Infix", KindsOf(ns))>>)
  /\ SameScope

ExitAccessHistory ==
  /\ At("AccessHistory")
  /\ Reduce(1 + Children(Head(walk), "expression"), Unchecked, Expressions,
            LAMBDA ns : <<Node("Index")>>)
  /\ SameScope

\* ExitSolvable, by the type.
Numbers(ns) == \A i \in DOMAIN ns : ns[i].kind \in {"Integer", "Float"}
ExitSolvable ==
  /\ \/ /\ At("Natural")
        /\ Reduce(1, LAMBDA ns : ns[1].kind = "Integer", Unchecked, LAMBDA ns : <<Node("Natural")>>)
     \/ At("Uncertain") /\ Reduce(2, Numbers, Unchecked, LAMBDA ns : <<Node("Uncertain")>>)
     \/ /\ At("Unknown")
        /\ Reduce(IF Width(Head(walk)) > 3 THEN 1 ELSE 0, Unchecked, Unchecked,
                  LAMBDA ns : <<Node("Unknown")>>)
     \/ At("OtherType") /\ Stop("exited") /\ UNCHANGED <<fuel, skipRun, outer>>
  /\ SameScope

\* 'advance' has a target, 'stay' has none.
ExitBuiltins ==
  /\ \/ /\ At("Advance")
        /\ Reduce(1, Unchecked, LAMBDA ns : ns[1].kind \in OperandKinds, LAMBDA ns : <<Node("Advance")>>)
     \/ At("Stay") /\ Reduce(0, Unchecked, Unchecked, LAMBDA ns : <<Node("Stay")>>)
  /\ SameScope

ExitBuiltinInfix == At("BuiltinInfix") /\ Binary("Infix")

-----------------------------------------------------------------------------
(***************************************************************************)
(* Statements.                                                             *)
(***************************************************************************)

ExitIncDecStmt ==
  /\ At("IncDecStmt")
  /\ Reduce(1, Unchecked, Expressions, LAMBDA ns : <<NodeOf("Infix", <<ns[1].kind, "Integer">>)>>)
  /\ SameScope

ExitFaultAssign == At("FaultAssign") /\ Binary("Infix")

ExitMiscAssign ==
  /\ At("MiscAssign")
  /\ Reduce(2, LAMBDA ns : ns[1].kind \in {"Identifier", "ParameterCall"}, Expressions,
            LAMBDA ns : <<NodeOf("Infix", KindsOf(ns))>>)
  /\ SameScope

ExitInitDecl ==
  At("InitDecl") /\ Reduce(1, Unchecked, Expressions, LAMBDA ns : <<Node("Init")>>) /\ SameScope

\* One node per child: the listener counts the children, not the nodes.
IsLine(n) == n.kind \in StatementKinds \cup ExpressionKinds
ExitStatementList ==
  /\ At("StatementList")
  /\ Reduce(Width(Head(walk)), LAMBDA ns : \A i \in DOMAIN ns : IsLine(ns[i]), Unchecked,
            LAMBDA ns : <<NodeOf("Block", ItemsOf(ns))>>)
  /\ SameScope

\* Mutant: a block makes a node although its statements made one.
ExitBlockAlways ==
  At("Block") /\ Reduce(0, Unchecked, Unchecked, LAMBDA ns : <<Node("Block")>>) /\ SameScope

\* Only a block without statements makes a node here.
ExitBlock ==
  /\ At("Block")
  /\ Reduce(0, Unchecked, Unchecked, LAMBDA ns : IF Width(Head(walk)) = 2 THEN <<Node("Block")>> ELSE <<>>)
  /\ SameScope

\* Mutant: the else is popped whether there is one or not.
IsBranch(n) == n.kind \in {"Block", "Parallel"}
AssembleIfElse ==
  /\ Reduce(3, Unchecked,
            LAMBDA ns : ns[2].kind \in ExpressionKinds, LAMBDA ns : <<Node("If")>>)
  /\ SameScope

\* assembleIf: with more than three children the topmost node is the else.
AssembleIf ==
  LET others == IF Width(Head(walk)) > 3 THEN 1 ELSE 0 IN
  /\ Reduce(2 + others,
            LAMBDA ns : others = 1 => ns[3].kind \in {"Block", "If", "Parallel"},
            LAMBDA ns : IF ns[1].kind = "Parallel" THEN ns[2].kind \in ExpressionKinds
                        ELSE ns[1].kind \in ExpressionKinds /\ IsBranch(ns[2]),
            LAMBDA ns : <<Node("If")>>)
  /\ SameScope
ExitIfStmt == At("IfStmt") /\ AssembleIf
ExitIfStmtState == At("IfStmtState") /\ AssembleIf
ExitIfStmtRun == At("IfStmtRun") /\ AssembleIf

\* packageCallsAsRunSteps: a call that stands alone becomes a parallel function.
PackageCallsAsRunSteps(n) ==
  IF n = NodeOf("ExpressionStatement", <<"ParameterCall">>) THEN Node("Parallel") ELSE n

\* One node per step; what was an expression statement must still be one.
ExitRunBlock ==
  /\ At("RunBlock")
  /\ Reduce(Children(Head(walk), "runStep"),
            LAMBDA ns : \A i \in DOMAIN ns :
              ns[i].kind \in ExpressionKinds \cup {"Parallel", "Block", "ExpressionStatement"},
            LAMBDA ns : \A i \in DOMAIN ns :
              /\ ns[i].kind \notin ExpressionKinds \ {"Instance"}
              /\ PackageCallsAsRunSteps(ns[i]).kind = ns[i].kind,
            LAMBDA ns : <<NodeOf("Block", ItemsOf(ns))>>)
  /\ SameScope

ExitStateBlock ==
  /\ At("StateBlock")
  /\ Reduce(Children(Head(walk), "stateStep"),
            LAMBDA ns : \A i \in DOMAIN ns :
              ns[i].kind \in {"Parallel", "Block", "ExpressionStatement", "Advance", "Stay", "Infix"},
            LAMBDA ns : \A i \in DOMAIN ns : PackageCallsAsRunSteps(ns[i]).kind = ns[i].kind,
            LAMBDA ns : <<NodeOf("Block", ItemsOf(ns))>>)
  /\ SameScope

\* An instance of a struct of another spec is named by a parameter call.
ExitRunInit ==
  /\ At("RunInit")
  /\ IF Children(Head(walk), "paramCall") = 1
     THEN Reduce(1, LAMBDA ns : ns[1].kind = "ParameterCall", Unchecked, LAMBDA ns : <<Node("Instance")>>)
     ELSE Reduce(0, Unchecked, Unchecked, LAMBDA ns : <<Node("Instance")>>)
  /\ SameScope

Calls == Reduce(Children(Head(walk), "paramCall"), Unchecked, Expressions, LAMBDA ns : <<Node("Parallel")>>)
ExitRunStepExpr == At("RunStepExpr") /\ Calls /\ SameScope
ExitStateStepExpr == At("StateStepExpr") /\ Calls /\ SameScope

Wrap == Reduce(1, Expressions, Unchecked, LAMBDA ns : <<NodeOf("ExpressionStatement", KindsOf(ns))>>)
ExitRunExpr == At("RunExpr") /\ Wrap /\ SameScope
ExitStateExpr == At("StateExpr") /\ Wrap /\ SameScope

\* An imported spec does not bring its run block.
ExitForStmt ==
  /\ At("ForStmt")
  /\ Reduce(2, LAMBDA ns : ns[1].kind = "Integer" /\ ns[2].kind = "Block", Unchecked,
            LAMBDA ns : IF skipRun THEN <<>> ELSE <<Node("For")>>)
  /\ SameScope

ExitStageInvariant == At("StageInvariant") /\ Binary("Invariant")

\* The number of a temporal filter was pushed after the invariant.  Of the prefixes
\* only '!' is an invariant.
AssertThat(kinds) ==
  LET n == 1 + Children(Head(walk), "filter") IN
  /\ \/ Reduce(n, LAMBDA ns : ns[1].kind \in kinds /\ ns[1] # Node("Prefix"),
               LAMBDA ns : n = 2 => ns[2].kind = "Integer", LAMBDA ns : <<Node("Assertion")>>)
     \/ /\ Len(stack) >= n /\ Popped(n)[1].kind = "Prefix"
        /\ Stop("refused") /\ UNCHANGED <<fuel, skipRun, outer>>
  /\ SameScope
ExitAssertion == At("Assertion") /\ AssertThat({"Integer", "Identifier", "Prefix", "Infix", "Invariant"})
ExitAssumption == At("Assumption") /\ AssertThat({"Identifier", "Prefix", "Infix", "Invariant"})

-----------------------------------------------------------------------------
(***************************************************************************)
(* Declarations.                                                           *)
(***************************************************************************)

\* A property is two nodes: its name and its value.
Property(Checked(_)) ==
  Reduce(1, Checked, Unchecked, LAMBDA ns : <<Node("Identifier"), ns[1]>>)
ExitPropInt == At("PropInt") /\ Property(Unchecked) /\ SameScope
ExitPropBool == At("PropBool") /\ Property(Unchecked) /\ SameScope
ExitPropString == At("PropString") /\ Property(Unchecked) /\ SameScope
ExitPropVar ==
  /\ At("PropVar")
  /\ Property(LAMBDA ns : ns[1].kind \in {"Instance", "Identifier", "ParameterCall", "Prefix"})
  /\ SameScope
\* Mutant: a property without a value is not told apart.
ExitPropSolvableAlike == At("PropSolvable") /\ Property(Unchecked) /\ SameScope
ExitPropSolvable ==
  /\ At("PropSolvable")
  /\ IF Width(Head(walk)) # 1 THEN Property(Unchecked)
     ELSE Reduce(0, Unchecked, Unchecked, LAMBDA ns : <<Node("Identifier"), Node("Unknown")>>)
  /\ SameScope

\* The name of the function leaves the scope.
ExitPropFunc ==
  At("PropFunc") /\ Property(Unchecked) /\ scope' = Front(scope) /\ UNCHANGED structscope
\* Mutant: the scope is not left.
ExitStateFuncInside == At("StateFunc") /\ Property(Unchecked) /\ SameScope
ExitStateFunc ==
  At("StateFunc") /\ Property(Unchecked) /\ scope' = Front(scope) /\ UNCHANGED structscope

Literal ==
  Reduce(1, Unchecked, LAMBDA ns : ns[1].kind = "Block", LAMBDA ns : <<NodeOf("Function", ns[1].items)>>)
ExitFunctionLit == At("FunctionLit") /\ Literal /\ SameScope
ExitStateLit == At("StateLit") /\ Literal /\ SameScope

\* getPairs: names below their values.
Named(ns) == \A i \in DOMAIN ns : i % 2 = 1 => ns[i].kind = "Identifier"
Valued(ns) == \A i \in DOMAIN ns : i % 2 = 0 => ns[i].kind \in ExpressionKinds
GetPairs(rule, kind) ==
  Reduce(2 * Children(Head(walk), rule), Named, Valued, LAMBDA ns : <<Node(kind)>>)
ExitStock == At("Stock") /\ GetPairs("sfProperties", "Stock") /\ SameScope
ExitFlow == At("Flow") /\ GetPairs("sfProperties", "Flow") /\ SameScope

\* componentPairs looks at the first statement of every function.
ExitComponentDecl ==
  /\ At("ComponentDecl")
  /\ Reduce(2 * Children(Head(walk), "comProperties"), Named,
            LAMBDA ns : /\ Valued(ns)
                        /\ \A i \in DOMAIN ns : ns[i].kind = "Function" => ns[i].items # <<>>,
            LAMBDA ns : <<Node("Def")>>)
  /\ SameScope

ExitStructDecl ==
  /\ At("StructDecl")
  /\ Reduce(1, LAMBDA ns : ns[1].kind \in {"Stock", "Flow"}, Unchecked, LAMBDA ns : <<Node("Def")>>)
  /\ scope' = <<Unnamed>> /\ structscope' = Unnamed

ExitGlobalDecl ==
  At("GlobalDecl") /\ Reduce(1, Unchecked, Expressions, LAMBDA ns : <<Node("Def")>>) /\ SameScope

\* The value is popped if there are more children than names.  The names are those
\* of the identList; each has left a node.
ExitConstSpec ==
  /\ At("ConstSpec")
  /\ LET names == Len(stack) - Head(walk).base - Children(Head(walk), "constants")
         value == IF Width(Head(walk)) - names > 0 THEN 1 ELSE 0
     IN  Reduce(names + value,
                LAMBDA ns : \A i \in 1..names : ns[i].kind = "Identifier",
                LAMBDA ns : value = 1 => ns[names + 1].kind \in ExpressionKinds,
                LAMBDA ns : [i \in 1..names |-> Node("Constant")])
  /\ SameScope

ExitStartBlock ==
  /\ At("StartBlock")
  /\ Reduce(Children(Head(walk), "startPair"), Unchecked,
            LAMBDA ns : \A i \in DOMAIN ns : ns[i].kind = "Pair", LAMBDA ns : <<Node("Start")>>)
  /\ SameScope

\* The imports are popped and pushed back in their order.
ExitImportDecl ==
  At("ImportDecl") /\ Reduce(Children(Head(walk), "importSpec"), Unchecked, Unchecked, LAMBDA ns : ns) /\ SameScope

\* The imported file is walked by a listener of its own (parseImport), which skips
\* the run block; the file may be missing.
NewListener(skip) ==
  stack' = <<>> /\ scope' = <<Unnamed>> /\ structscope' = Unnamed /\ skipRun' = skip
\* What is left of the import when the file has been walked: its token is the '.'.
ImportedFile(c) == Exit(Alt("Imported", IF c.of = "DotImport" THEN 1 ELSE 0, <<>>, 0), c.base)
ExitImportSpec ==
  /\ At("ImportSpec") \/ At("DotImport")
  /\ \/ /\ Stop(IF stack = <<>> THEN "crashed" ELSE "refused")
        /\ UNCHANGED <<fuel, scope, structscope, skipRun, outer>>
     \/ /\ stack # <<>> /\ Last(stack).kind = "String"
        /\ outer' = <<[stack |-> Front(stack), scope |-> scope, structscope |-> structscope,
                       skipRun |-> skipRun]>> \o outer
        /\ walk' = <<Rule("spec"), ImportedFile(Head(walk))>> \o Tail(walk)
        /\ NewListener(TRUE)
        /\ UNCHANGED <<fuel, outcome>>

\* The rest of ExitImportSpec: the importing listener goes on.  It takes what is before
\* the path for an identifier; of a '.' there is none.
DotImport == Head(walk).of = "Imported" /\ Head(walk).tokens = 1
Imported ==
  /\ At("Imported")
  /\ \/ DotImport /\ Stop("crashed") /\ UNCHANGED <<fuel, scope, structscope, skipRun, outer>>
     \/ /\ ~DotImport
        /\ LET l == Head(outer) IN
             /\ stack' = Append(l.stack, Node("Import"))
             /\ scope' = l.scope /\ structscope' = l.structscope /\ skipRun' = l.skipRun
        /\ outer' = Tail(outer) /\ walk' = Tail(walk)
        /\ UNCHANGED <<fuel, outcome>>

-----------------------------------------------------------------------------
(***************************************************************************)
(* The whole.                                                              *)
(***************************************************************************)

\* validate, then every node on the stack is a statement of the AST.
Valid == Len(stack) >= 2 /\ \E i \in DOMAIN stack : stack[i].kind = "Def"
Whole ==
  /\ IF ~Valid THEN Stop("exited")
     ELSE IF \E i \in DOMAIN stack : stack[i].kind \notin StatementKinds THEN Stop("crashed")
     ELSE walk' = Tail(walk) /\ UNCHANGED <<stack, outcome>>
  /\ UNCHANGED <<fuel, scope, structscope, skipRun, outer>>
ExitSpec == At("Spec") /\ Whole
ExitSysSpec == At("SysSpec") /\ Whole

Done == outcome = "walking" /\ walk = <<>> /\ outcome' = "done"
        /\ UNCHANGED <<walk, fuel, stack, scope, structscope, skipRun, outer>>

Ended == outcome # "walking" /\ UNCHANGED vars

Init ==
  /\ walk \in {<<Rule("spec")>>, <<Rule("sysSpec")>>}
  /\ fuel = Budget /\ outer = <<>> /\ outcome = "walking"
  /\ stack = <<>> /\ scope = <<Unnamed>> /\ structscope = Unnamed /\ skipRun = FALSE

Leaves ==
  \/ ExitSpecClause \/ ExitSysClause \/ ExitOpName \/ ExitOpInstance \/ ExitOpThis \/ ExitOpClock
  \/ ExitParamCall \/ ExitNil \/ ExitInteger \/ ExitFloat_ \/ ExitString_ \/ ExitBool_
  \/ ExitStartPair
ExpressionExits ==
  \/ ExitNegative \/ ExitPrefix \/ ExitLrExpr \/ ExitAccessHistory \/ ExitSolvable
  \/ ExitBuiltins \/ ExitBuiltinInfix
StatementExits ==
  \/ ExitIncDecStmt \/ ExitFaultAssign \/ ExitMiscAssign \/ ExitInitDecl \/ ExitStatementList
  \/ ExitBlock \/ ExitIfStmt \/ ExitIfStmtState \/ ExitIfStmtRun \/ ExitRunBlock \/ ExitStateBlock
  \/ ExitRunInit \/ ExitRunStepExpr \/ ExitStateStepExpr \/ ExitRunExpr \/ ExitStateExpr
  \/ ExitForStmt \/ ExitStageInvariant \/ ExitAssertion \/ ExitAssumption
DeclarationExits ==
  \/ ExitPropInt \/ ExitPropBool \/ ExitPropString \/ ExitPropVar \/ ExitPropSolvable
  \/ ExitPropFunc \/ ExitStateFunc \/ ExitFunctionLit \/ ExitStateLit \/ ExitStock \/ ExitFlow
  \/ ExitComponentDecl \/ ExitStructDecl \/ ExitGlobalDecl \/ ExitConstSpec \/ ExitStartBlock
  \/ ExitImportDecl \/ ExitImportSpec \/ Imported \/ ExitSpec \/ ExitSysSpec
Next == Enter \/ Leaves \/ ExpressionExits \/ StatementExits \/ DeclarationExits \/ Done \/ Ended

\* The walk is one call; nothing preempts it.
Listening == Init /\ [][Next]_vars /\ WF_vars(Next)

-----------------------------------------------------------------------------
(***************************************************************************)
(* Properties.                                                             *)
(***************************************************************************)

Nodes == [kind : Kinds, items : Seq((Kinds \ {"ExpressionStatement"}) \cup {Unnamed, "struct", "func"})]
TypeOK ==
  /\ \A i \in DOMAIN walk : IsExit(walk[i]) => walk[i].of \in Handled \cup {"Imported"}
  /\ fuel \in 0..Budget
  /\ stack \in Seq(Nodes)
  /\ scope \in Seq({Unnamed, "struct", "func"}) /\ structscope \in {Unnamed, "struct"}
  /\ skipRun \in BOOLEAN
  /\ outcome \in {"walking", "done", "exited", "refused", "crashed"}

\* The nodes of the listener that the context belongs to, before and after its handler:
\* that of an import waits in 'outer' from one half of its handler to the other.
Before == IF Head(walk).of = "Imported" THEN Head(outer).stack ELSE stack
After == IF Len(outer') > Len(outer) THEN Head(outer').stack ELSE stack'

\* The Exit handler of a context pops the nodes that its own children pushed and
\* never one of what came before the context, also over an import: an expression is
\* not built from the operand of another.
KeepsOthers ==
  /\ walk # <<>> /\ IsExit(Head(walk)) /\ outcome' = "walking"
  => /\ Len(After) >= Head(walk).base
     /\ SubSeq(After, 1, Head(walk).base) = SubSeq(Before, 1, Head(walk).base)
OwnNodes == [][KeepsOthers]_vars

\* What a handler leaves above the nodes that were there before its context: two
\* for a property, all of them for what is a list, one for everything else.  The
\* handlers that pop by counting children depend on it.
Lists == {"ConstSpec", "ImportDecl", "Spec", "SysSpec"}
Pairs == {"PropInt", "PropBool", "PropString", "PropVar", "PropSolvable", "PropFunc", "StateFunc"}
LeavesItsNodes ==
  /\ walk # <<>> /\ IsExit(Head(walk)) /\ outcome' = "walking"
  /\ Head(walk).of \notin Lists
  => Len(After) - Head(walk).base =
       CASE Head(walk).of \in Pairs -> 2
         [] Head(walk).of = "ForStmt" /\ skipRun -> 0
         [] Head(walk).of \in {"ImportSpec", "DotImport"} -> 0
         [] OTHER -> 1
OneEach == [][LeavesItsNodes]_vars

\* The walk of a tree ends in an AST, with a message, or with an exit; it never
\* fails on an index, a type assertion or a child that the handlers take for granted.
\* The two exceptions are a run step that is only a call, in parentheses, and an import
\* under '.'.
BareCall == /\ Head(walk).of = "RunBlock"
            /\ \E i \in DOMAIN stack : stack[i] = NodeOf("ExpressionStatement", <<"ParameterCall">>)
NeverCrashes == outcome = "crashed" => BareCall \/ DotImport

\* The scope is that of the contexts that are open, also after a function, after a
\* struct and in an imported file: names in it become the ids of variables.
Open == {walk[i].of : i \in {j \in DOMAIN walk :
           /\ IsExit(walk[j])
           /\ \A k \in 1..j : IsExit(walk[k]) => walk[k].of # "Imported"}}
ScopeTracks ==
  outcome = "walking" =>
    scope = (IF "StructDecl" \in Open THEN <<"struct">> ELSE <<Unnamed>>)
              \o (IF Open \cap {"PropFunc", "StateFunc"} # {} THEN <<"func">> ELSE <<>>)

\* Every walk comes to an end.
Walked == <>(outcome # "walking")
=============================================================================
