---------------------------- MODULE FaultGrammar ----------------------------
(***************************************************************************)
(* The parse trees of Fault's parser: one definition per rule method of    *)
(* parser/fault_parser.go, and one per labelled alternative of a rule.     *)
(* An alternative is the context that the parser makes (its name is the    *)
(* name of the event that a listener receives), its rules in order and how *)
(* many of its children are tokens.  Which alternative is taken depends on *)
(* the tokens; here any may be.                                            *)
(***************************************************************************)
EXTENDS ParseTrees

-----------------------------------------------------------------------------
(***************************************************************************)
(* Systems of state charts.                                                *)
(***************************************************************************)

sysSpec ==
  {Alt("SysSpec", 0,
       <<"sysClause">> \o Times("importDecl", i) \o Times("globalDecl", g)
         \o Times("componentDecl", c) \o a \o Times("startBlock", s) \o Times("forStmt", f),
       Extra(i) + Extra(g) + Extra(c) + Extra(Len(a)) + Extra(s) + Extra(f)) :
     i \in Many, g \in Many, c \in Many, a \in {<<>>, <<"assertion">>, <<"assumption">>},
     s \in Maybe, f \in Maybe}

sysClause == Only("SysClause", 3, <<>>)

globalDecl == Only("GlobalDecl", 4, <<"operand">>)

componentDecl ==
  {Alt("ComponentDecl", 7 + n, Times("comProperties", n), Extra(n)) : n \in Many}

startBlock ==
  {Alt("StartBlock", 4 + n, Times("startPair", n), Extra(n)) : n \in Many}

startPair == Only("StartPair", 3, <<>>)

-----------------------------------------------------------------------------
(***************************************************************************)
(* Specs.                                                                  *)
(***************************************************************************)

spec ==
  {Alt("Spec", 0, <<"specClause">> \o Times("declaration", d) \o Times("forStmt", f),
       Extra(d) + Extra(f)) : d \in Many, f \in Maybe}

specClause == Only("SpecClause", 3, <<>>)

importDecl ==
  {Alt("ImportDecl", 2, <<"importSpec">>, 0)}
    \cup {Alt("ImportDecl", 4, Times("importSpec", n), 1) : n \in Many}

\* A name or a '.' may come before the path: one context; the listener asks for the name.
importSpec ==
  {Alt("ImportSpec", name + comma, <<"importPath">>, name + comma) : name \in Maybe, comma \in Maybe}
    \cup {Alt("DotImport", 1 + comma, <<"importPath">>, 1 + comma) : comma \in Maybe}

importPath == Only("ImportPath", 0, <<"string_">>)

declaration ==
  {Alt("Declaration", 0, <<"structDecl">>, 0), Alt("Declaration", 0, <<"constDecl">>, 1),
   Alt("Declaration", 0, <<"assertion">>, 1), Alt("Declaration", 0, <<"assumption">>, 1)}

constDecl ==
  {Alt("ConstDecl", 2, <<"constSpec">>, 0)}
    \cup {Alt("ConstDecl", 4, Times("constSpec", n), 1) : n \in Many}

constSpec ==
  {Alt("ConstSpec", 1, <<"identList", "constants">>, 0), Alt("ConstSpec", 0, <<"identList">>, 1)}

identList ==
  {Alt("IdentList", n - 1, Times("operandName", n), Extra(n)) : n \in Many \ {0}}

constants ==
  {Alt("Constants", 0, <<"numeric">>, 0)}
    \cup {Alt("Constants", 0, <<c>>, 1) : c \in {"string_", "bool_", "solvable", "nil"}}

nil == Only("Nil", 1, <<>>)

expressionList ==
  {Alt("ExpressionList", n - 1, Times("expression", n), Extra(n)) : n \in Many \ {0}}

structDecl == Only("StructDecl", 4, <<"structType">>)

Flow(n) == Alt("Flow", 3 + n, Times("sfProperties", n), 1 + Extra(n))
Stock(n) == Alt("Stock", 3 + n, Times("sfProperties", n), Extra(n))
structType == {Flow(n) : n \in Many} \cup {Stock(n) : n \in Many}

PropFunc == Alt("PropFunc", 2, <<"functionLit">>, 0)
SfMisc == Alt("SfMisc", 0, <<"structProperties">>, 1)
sfProperties == {PropFunc, SfMisc}

StateFunc == Alt("StateFunc", 2, <<"stateLit">>, 0)
CompMisc == Alt("CompMisc", 0, <<"structProperties">>, 1)
comProperties == {StateFunc, CompMisc}

PropInt == Alt("PropInt", 2, <<"numeric">>, 0)
PropString == Alt("PropString", 2, <<"string_">>, 1)
PropBool == Alt("PropBool", 2, <<"bool_">>, 1)
PropVar(child) == Alt("PropVar", 2, <<child>>, 1)
PropSolvable(tokens, body) == Alt("PropSolvable", tokens, body, 1)
structProperties ==
  {PropInt, PropString, PropBool, PropVar("operandName"), PropVar("prefix"),
   PropSolvable(2, <<"solvable">>), PropSolvable(1, <<>>)}

-----------------------------------------------------------------------------
(***************************************************************************)
(* Statements.                                                             *)
(***************************************************************************)

initDecl == Only("InitDecl", 2, <<"operand">>)

block == {Alt("Block", 2, <<"statementList">>, 0), Alt("Block", 2, <<>>, 1)}

statementList ==
  {Alt("StatementList", 0, Times("statement", n), Extra(n)) : n \in Many \ {0}}

statement ==
  {Alt("Statement", 1, <<"simpleStmt">>, 0)}
    \cup {Alt("Statement", 0, <<c>>, 1) : c \in {"constDecl", "initDecl", "block", "ifStmt"}}

simpleStmt ==
  {Alt("SimpleStmt", 0, <<"expression">>, 0)}
    \cup {Alt("SimpleStmt", 0, <<c>>, 1) : c \in {"incDecStmt", "assignment", "emptyStmt"}}

incDecStmt == Only("IncDecStmt", 1, <<"expression">>)

\* Two alternatives make this context; the listener asks for the builtin's name.
Builtins(name) ==
  IF name = "advance" THEN Alt("Advance", 3, <<"paramCall">>, 0)
                      ELSE Alt("Stay", 3, <<>>, 1)
BuiltinInfix == Alt("BuiltinInfix", 1, <<"stateChange", "stateChange">>, 1)
stateChange == {Builtins("advance"), Builtins("stay"), BuiltinInfix}

accessHistory ==
  {Alt("AccessHistory", 2 * n, <<"operandName">> \o Times("expression", n), Extra(n)) :
     n \in Many \ {0}}

assertion ==
  {Alt("Assertion", 2, <<"invariant">>, 0)}
    \cup {Alt("Assertion", 2, <<"invariant", t>>, 1) : t \in {"temporal", "filter"}}

assumption ==
  {Alt("Assumption", 2, <<"invariant">>, 0)}
    \cup {Alt("Assumption", 2, <<"invariant", t>>, 1) : t \in {"temporal", "filter"}}

\* The two alternatives of 'temporal': a word, or 'nmt' or 'nft' with a number.
temporal == Only("Temporal", 1, <<>>)
filter == Only("Temporal", 1, <<"integer">>)

Invar == Alt("Invar", 0, <<"expression">>, 0)
StageInvariant == Alt("StageInvariant", 2, <<"expression", "expression">>, 1)
invariant == {Invar, StageInvariant}

MiscAssign == Alt("MiscAssign", 1, <<"expressionList", "expressionList">>, 0)
FaultAssign == Alt("FaultAssign", 1, <<"expressionList", "expressionList">>, 1)
assignment == {MiscAssign, FaultAssign}

emptyStmt == Only("EmptyStmt", 1, <<>>)

\* 'if' (simpleStmt ';')? expression block ('else' (if | block))?
If(label, rule, body) ==
  {Alt(label, 1 + Len(first) + Len(last), first \o <<"expression", body>> \o last,
       Len(first) + Len(last)) :
     first \in {<<>>, <<"simpleStmt">>}, last \in {<<>>, <<rule>>, <<body>>}}

ifStmt == If("IfStmt", "ifStmt", "block")

ifStmtRun == If("IfStmtRun", "ifStmtRun", "runBlock")

ifStmtState == If("IfStmtState", "ifStmtState", "stateBlock")

forStmt ==
  {Alt("ForStmt", 2 + e, <<"rounds", "runBlock">>, Extra(e)) : e \in Maybe}

rounds == Only("Rounds", 0, <<"integer">>)

paramCall == Only("ParamCall", 3, <<>>)

stateBlock ==
  {Alt("StateBlock", 2, Times("stateStep", n), Extra(n)) : n \in Many}

StateStepExpr(n) == Alt("StateStepExpr", n + 1, Times("paramCall", n + 1), 1)
StateChain == Alt("StateChain", 1, <<"stateChange">>, 0)
StateExpr == Alt("StateExpr", 0, <<"ifStmtState">>, 1)
stateStep == {StateStepExpr(n) : n \in Many} \cup {StateChain, StateExpr}

runBlock ==
  {Alt("RunBlock", 2, Times("runStep", n), Extra(n)) : n \in Many}

RunStepExpr(n) == Alt("RunStepExpr", n + 1, Times("paramCall", n + 1), Extra(n + 1))
RunInit(tokens, body) == Alt("RunInit", tokens, body, 1)
RunExpr(tokens, body) == Alt("RunExpr", tokens, body, 1)
runStep ==
  {RunStepExpr(n) : n \in Many}
    \cup {RunInit(4, <<"paramCall">>), RunInit(5, <<>>),
          RunExpr(1, <<"simpleStmt">>), RunExpr(0, <<"ifStmtRun">>)}

-----------------------------------------------------------------------------
(***************************************************************************)
(* Expressions.                                                            *)
(***************************************************************************)

\* The listener asks for the name of the type; it has a case for the first three.
faultType == {"Natural", "Uncertain", "Unknown", "OtherType"}

\* faultType '(' operand? (',' operand)* ')': the arguments may be any number.
solvable ==
  {Alt(ty, n + 2, Times("operand", n),
       IF ty = "Unknown" THEN Extra(n) ELSE 1) : ty \in faultType, n \in Many \ {0}}
    \cup {Alt(ty, 3, <<>>, 1) : ty \in faultType}

Expr == Alt("Expr", 0, <<"operand">>, 0)
Typed == Alt("Typed", 0, <<"solvable">>, 1)
ExprPrefix == Alt("ExprPrefix", 0, <<"prefix">>, 1)
LrExpr == Alt("LrExpr", 1, <<"expression", "expression">>, 1)
expression == {Expr, Typed, ExprPrefix, LrExpr}

operand ==
  {Alt("Operand", 0, <<"operandName">>, 0), Alt("Operand", 2, <<"expression">>, 1)}
    \cup {Alt("Operand", 0, <<c>>, 1) : c \in {"nil", "numeric", "string_", "bool_", "accessHistory"}}

OpName == Alt("OpName", 1, <<>>, 0)
OpParam == Alt("OpParam", 0, <<"paramCall">>, 1)
OpThis == Alt("OpThis", 1, <<>>, 1)
OpClock == Alt("OpClock", 1, <<>>, 1)
OpInstance(n) == Alt("OpInstance", n + 1, <<>>, 1)
operandName == {OpName, OpParam, OpThis, OpClock, OpInstance(1), OpInstance(3)}

prefix == {Alt("Prefix", 1, <<"expression">>, 0), Alt("Prefix", 0, <<>>, 1)}

numeric ==
  {Alt("Numeric", 0, <<"integer">>, 0), Alt("Numeric", 0, <<"negative">>, 1),
   Alt("Numeric", 0, <<"float_">>, 1)}

integer == Only("Integer", 1, <<>>)

negative == {Alt("Negative", 1, <<"integer">>, 0), Alt("Negative", 1, <<"float_">>, 1)}

float_ == Only("Float_", 1, <<>>)

string_ == Only("String_", 1, <<>>)

bool_ == Only("Bool_", 1, <<>>)

functionLit == Only("FunctionLit", 1, <<"block">>)

stateLit == Only("StateLit", 1, <<"stateBlock">>)

-----------------------------------------------------------------------------
Rules ==
  [sysSpec |-> sysSpec, sysClause |-> sysClause, globalDecl |-> globalDecl,
   componentDecl |-> componentDecl, startBlock |-> startBlock, startPair |-> startPair,
   spec |-> spec, specClause |-> specClause, importDecl |-> importDecl,
   importSpec |-> importSpec, importPath |-> importPath, declaration |-> declaration,
   constDecl |-> constDecl, constSpec |-> constSpec, identList |-> identList,
   constants |-> constants, nil |-> nil, expressionList |-> expressionList,
   structDecl |-> structDecl, structType |-> structType, sfProperties |-> sfProperties,
   comProperties |-> comProperties, structProperties |-> structProperties,
   initDecl |-> initDecl, block |-> block, statementList |-> statementList,
   statement |-> statement, simpleStmt |-> simpleStmt, incDecStmt |-> incDecStmt,
   stateChange |-> stateChange, accessHistory |-> accessHistory, assertion |-> assertion,
   assumption |-> assumption, temporal |-> temporal, filter |-> filter, invariant |-> invariant,
   assignment |-> assignment, emptyStmt |-> emptyStmt, ifStmt |-> ifStmt,
   ifStmtRun |-> ifStmtRun, ifStmtState |-> ifStmtState, forStmt |-> forStmt,
   rounds |-> rounds, paramCall |-> paramCall, stateBlock |-> stateBlock,
   stateStep |-> stateStep, runBlock |-> runBlock, runStep |-> runStep,
   solvable |-> solvable, expression |-> expression, operand |-> operand,
   operandName |-> operandName, prefix |-> prefix, numeric |-> numeric, integer |-> integer,
   negative |-> negative, float_ |-> float_, string_ |-> string_, bool_ |-> bool_,
   functionLit |-> functionLit, stateLit |-> stateLit]
=============================================================================
