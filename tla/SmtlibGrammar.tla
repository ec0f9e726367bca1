--------------------------- MODULE SmtlibGrammar ----------------------------
(***************************************************************************)
(* The parse trees of a solver's answers: the rules of the parser in       *)
(* execute/parser/smtlibv2_parser.go that an answer to (get-model) uses,   *)
(* and their alternatives in it.  The formulas of Fault are over numbers   *)
(* and booleans, so a model defines constants, by a literal, by true or    *)
(* false, or by an application.                                            *)
(***************************************************************************)
EXTENDS ParseTrees

start == Only("Start", 1, <<"general_response">>)

general_response ==
  {Alt("General_response", 0, <<"specific_success_response">>, 0),
   Alt("General_response", 3, <<"string_">>, 1)}

specific_success_response == Only("Specific_success_response", 0, <<"get_model_response">>)

\* The word 'model' may be left out.
get_model_response ==
  {Alt("Get_model_response", 2 + word, Times("model_response", n),
       Extra(word) + Extra(n)) : word \in Maybe, n \in Many}

model_response == Only("Model_response", 2, <<"cmd_defineFun">>)

cmd_defineFun == Only("Cmd_defineFun", 1, <<"function_def">>)

function_def == Only("Function_def", 2, <<"variable", "sort", "term">>)

variable == Only("Variable", 0, <<"symbol">>)

sort == Only("Sort", 0, <<"identifier">>)

identifier == Only("Identifier", 0, <<"symbol">>)

symbol == Only("Symbol", 0, <<"simpleSymbol">>)

simpleSymbol == {Alt("SimpleSymbol", 1, <<>>, 0), Alt("SimpleSymbol", 0, <<"predefSymbol">>, 0)}

predefSymbol == Only("PredefSymbol", 1, <<>>)

\* A literal, a name, or an operator with its arguments.
term ==
  {Alt("Term", 0, <<"spec_constant">>, 0), Alt("Term", 0, <<"qual_identifer">>, 0)}
    \cup {Alt("Term", 2, <<"qual_identifer">> \o Times("term", n), 1) : n \in Many \ {0}}

qual_identifer == Only("Qual_identifer", 0, <<"identifier">>)

spec_constant == {Alt("Spec_constant", 0, <<c>>, 0) : c \in {"numeral", "decimal"}}

numeral == Only("Numeral", 1, <<>>)

decimal == Only("Decimal", 1, <<>>)

string_ == Only("String_", 1, <<>>)

Rules ==
  [start |-> start, general_response |-> general_response,
   specific_success_response |-> specific_success_response,
   get_model_response |-> get_model_response, model_response |-> model_response,
   cmd_defineFun |-> cmd_defineFun, function_def |-> function_def, variable |-> variable,
   sort |-> sort, identifier |-> identifier, symbol |-> symbol, simpleSymbol |-> simpleSymbol,
   predefSymbol |-> predefSymbol, term |-> term, qual_identifer |-> qual_identifer,
   spec_constant |-> spec_constant, numeral |-> numeral, decimal |-> decimal,
   string_ |-> string_]
=============================================================================
