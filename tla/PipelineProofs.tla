--------------------------- MODULE PipelineProofs ---------------------------
(***************************************************************************)
(* Pipeline implements Verdict, for every set of variables, every answer a *)
(* solver gives and whatever fails on the way; and SmtListener keeps the   *)
(* answer that it is given.                                                *)
(***************************************************************************)
EXTENDS Pipeline, TLAPS, FiniteSetTheorems, SequenceTheorems

\* What the phases have established when they are reached: nothing has been shown,
\* main has set the mode, and Check has seen a sat.
PhaseInv ==
  /\ asked \in [mode : Modes, input : Inputs, cmd : BOOLEAN, arg : BOOLEAN]
  /\ phase \in {"main", "run", "parse", "compile", "generate", "probability",
                "solve", "clean", "listen", "over"}
  /\ shown \in SUBSET Outputs
  /\ phase # "over" => shown = {}
  /\ \/ mode = asked.mode
     \/ mode = "smt" /\ ~(asked.cmd /\ asked.arg)
  /\ phase \in {"solve", "clean", "listen"} => satisfiable /\ asked.cmd /\ asked.arg
  /\ lines \in {<<>>, <<"word", "paren">>, <<"word">>, <<"paren">>}

\* Wordy is a Boolean.
LEMMA WordyBoolean == Wordy \in BOOLEAN /\ Wordy' \in BOOLEAN
  BY DEF Wordy

\* Dying is finishing with an error, whatever the phase.
LEMMA DieFinishes ==
  ASSUME PhaseInv, phase # "over", ~Wordy, Die, UNCHANGED <<asked, satisfiable>>
  PROVE  V!Finish
  <1>1. shown' = {"error"} /\ phase' = "over"
    BY DEF PhaseInv, Die, Over
  <1>2. ~Wordy'
    BY <1>1 DEF Wordy
  <1>3. V!Honest(shown')
    BY <1>1 DEF V!Honest
  <1> QED BY <1>1, <1>2, <1>3, WordyBoolean DEF V!Finish, Outputs

\* Any other end, for what may honestly be shown.
LEMMA OverFinishes ==
  ASSUME PhaseInv, phase # "over", ~Wordy, NEW s \in SUBSET (Outputs \ {"error"}), Over(s),
         UNCHANGED <<asked, satisfiable>>,
         "no failure" \in s => ~satisfiable /\ asked.cmd /\ asked.arg,
         "scenario" \in s => satisfiable /\ asked.cmd /\ asked.arg,
         "tree" \in s => asked.mode = "ast",
         "ir" \in s => asked.mode = "ir",
         "smt" \in s => asked.mode = "smt" \/ ~(asked.cmd /\ asked.arg)
  PROVE  V!Finish
  <1>1. shown' = s /\ phase' = "over"
    BY DEF PhaseInv, Over
  <1>2. ~Wordy'
    BY <1>1 DEF Wordy
  <1>3. V!Honest(shown')
    BY <1>1 DEF V!Honest, V!Configured
  <1>4. s \in SUBSET Outputs
    OBVIOUS
  <1> QED BY <1>1, <1>2, <1>3, <1>4, WordyBoolean DEF V!Finish

\* What Mermaid draws is no claim.
LEMMA DrawingClaimsNothing ==
  ASSUME PhaseInv
  PROVE  Drawing \in SUBSET {"graph", "diagram"}
  BY DEF Drawing, PhaseInv, Inputs

\* Check finds the model that there is, and only that.
LEMMA CheckedSound ==
  ASSUME NEW answer \in Answers
  PROVE  /\ Checked(answer) = "ok" => satisfiable
         /\ Checked(answer) = "not ok" => ~satisfiable
  BY DEF Answers, Checked, FromEnd

\* A step of the run is a step of Verdict, or shows nothing and ends nothing.
LEMMA StepImplements ==
  ASSUME PhaseInv, [Next]_vars
  PROVE  [V!Next]_(V!vars)
  <1> DEFINE Same == UNCHANGED <<asked, satisfiable, shown, phase = "over", Wordy>>
  <1>0. ASSUME Same PROVE [V!Next]_(V!vars)
    BY <1>0 DEF V!vars
  <1>1. ASSUME V!Finish PROVE [V!Next]_(V!vars)
    BY <1>1 DEF V!Next
  <1> HIDE DEF Same
  <1>2. CASE Main
    <2>1. CASE Die
      BY <2>1, <1>2, <1>1, DieFinishes DEF Main, Wordy
    <2>2. CASE Go("run")
      BY <2>2, <1>2, <1>0 DEF Main, Go, Wordy, Same
    <2> QED BY <1>2, <2>1, <2>2 DEF Main
  <1>3. CASE Run
    <2>1. CASE Die
      BY <2>1, <1>3, <1>1, DieFinishes DEF Run, Wordy
    <2>2. CASE Go("parse") \/ Go("generate") \/ Go("probability")
      BY <2>2, <1>3, <1>0 DEF Run, Go, Wordy, Same
    <2> QED BY <1>3, <2>1, <2>2 DEF Run
  <1>4. CASE Parse
    <2>1. CASE Die
      BY <2>1, <1>4, <1>1, DieFinishes DEF Parse, Wordy
    <2>2. CASE mode = "ast" /\ Over({"tree"})
      BY <2>2, <1>4, <1>1, OverFinishes DEF Parse, Wordy, PhaseInv, Outputs
    <2>3. CASE Go("compile")
      BY <2>3, <1>4, <1>0 DEF Parse, Go, Wordy, Same
    <2> QED BY <1>4, <2>1, <2>2, <2>3 DEF Parse
  <1>5. CASE Compile
    <2>1. CASE Die
      BY <2>1, <1>5, <1>1, DieFinishes DEF Compile, Wordy
    <2>2. CASE mode = "ir" /\ Over({"ir"})
      BY <2>2, <1>5, <1>1, OverFinishes DEF Compile, Wordy, PhaseInv, Outputs
    <2>3. CASE Over({"graph"})
      BY <2>3, <1>5, <1>1, OverFinishes DEF Compile, Wordy, Outputs
    <2>4. CASE Over({"nothing to run"})
      BY <2>4, <1>5, <1>1, OverFinishes DEF Compile, Wordy, Outputs
    <2>5. CASE Go("generate")
      BY <2>5, <1>5, <1>0 DEF Compile, Go, Wordy, Same
    <2> QED BY <1>5, <2>1, <2>2, <2>3, <2>4, <2>5 DEF Compile
  <1>6. CASE Generate
    <2>1. CASE Die
      BY <2>1, <1>6, <1>1, DieFinishes DEF Generate, Wordy
    <2>2. CASE mode = "smt" /\ Over({"smt"})
      BY <2>2, <1>6, <1>1, OverFinishes DEF Generate, Wordy, PhaseInv, Outputs
    <2>3. CASE Go("probability")
      BY <2>3, <1>6, <1>0 DEF Generate, Go, Wordy, Same
    <2> QED BY <1>6, <2>1, <2>2, <2>3 DEF Generate
  <1>7. CASE Check
    <2>1. CASE Die
      BY <2>1, <1>7, <1>1, DieFinishes DEF Check, Wordy
    <2>2. CASE ~Die
      <3>1. PICK answer \in Answers :
              \/ Checked(answer) = "not ok" /\ Over({"no failure"} \cup Drawing)
              \/ Checked(answer) = "ok" /\ Go("solve")
        BY <1>7, <2>2 DEF Check
      <3>2. asked.cmd /\ asked.arg /\ phase # "over" /\ ~Wordy /\ UNCHANGED <<asked, satisfiable>>
        BY <1>7, <2>2 DEF Check, Wordy
      <3>3. CASE Checked(answer) = "not ok" /\ Over({"no failure"} \cup Drawing)
        <4>1. ~satisfiable
          BY <3>3, CheckedSound
        <4> QED BY <3>2, <3>3, <4>1, <1>1, OverFinishes, DrawingClaimsNothing DEF Outputs
      <3>4. CASE Go("solve")
        BY <3>4, <3>2, <1>7, <1>0 DEF Check, Go, Wordy, Same
      <3> QED BY <3>1, <3>3, <3>4
    <2> QED BY <2>1, <2>2
  <1>8. CASE Solve
    <2>1. CASE Die
      BY <2>1, <1>8, <1>1, DieFinishes DEF Solve, Wordy
    <2>2. CASE Go("clean")
      <3>1. UNCHANGED <<asked, satisfiable, shown>> /\ phase # "over" /\ phase' # "over" /\ ~Wordy
        BY <2>2, <1>8 DEF Solve, Go, Wordy
      <3>2. CASE Wordy'
        BY <3>1, <3>2, WordyBoolean DEF V!Next, V!Stall
      <3>3. CASE ~Wordy'
        BY <3>1, <3>3, <1>0, WordyBoolean DEF Same
      <3> QED BY <3>2, <3>3
    <2> QED BY <1>8, <2>1, <2>2 DEF Solve
  <1>9. CASE CleanExtraOutputs
    <2>1. CASE lines = <<>>
      BY <2>1, <1>9, <1>1, DieFinishes DEF CleanExtraOutputs, Wordy
    <2>2. CASE lines # <<>> /\ Head(lines) = "paren"
      <3>1. ~Wordy /\ ~Wordy' /\ UNCHANGED <<asked, satisfiable, shown>> /\ phase # "over" /\ phase' # "over"
        BY <2>2, <1>9 DEF CleanExtraOutputs, Go, Wordy, PhaseInv
      <3> QED BY <3>1, <1>0, WordyBoolean DEF Same
    <2>3. CASE lines # <<>> /\ Head(lines) # "paren"
      <3>1. UNCHANGED <<asked, satisfiable, shown, phase>>
        BY <2>3, <1>9 DEF CleanExtraOutputs
      <3>2. lines \in {<<"word", "paren">>, <<"word">>}
        BY <2>3 DEF PhaseInv
      <3>3. CASE lines = <<"word">>
        BY <3>1, <3>3, <2>3, <1>9, <1>0 DEF CleanExtraOutputs, Wordy, Same
      <3>4. CASE lines = <<"word", "paren">>
        <4>1. lines' = <<"paren">>
          BY <3>4, <2>3, <1>9 DEF CleanExtraOutputs
        <4>2. ~Wordy /\ ~Wordy'
          BY <3>4, <4>1 DEF Wordy
        <4> QED BY <3>1, <4>2, <1>0, WordyBoolean DEF Same
      <3> QED BY <3>2, <3>3, <3>4
    <2> QED BY <2>1, <2>2, <2>3
  <1>10. CASE Walk \/ Done \/ UNCHANGED vars
    BY <1>10, <1>0 DEF Walk, Done, vars, driverVars, Wordy, Same
  <1>11. CASE Show
    <2>1. CASE Die
      BY <2>1, <1>11, <1>1, DieFinishes DEF Show, Wordy
    <2>2. CASE Over(IF mode = "visualize" THEN Drawing ELSE {"scenario"})
      BY <2>2, <1>11, <1>1, OverFinishes, DrawingClaimsNothing DEF Show, Wordy, PhaseInv, Outputs
    <2> QED BY <1>11, <2>1, <2>2 DEF Show
  <1> QED
    BY <1>2, <1>3, <1>4, <1>5, <1>6, <1>7, <1>8, <1>9, <1>10, <1>11 DEF Next

\* The command never claims or denies a failure against the formula, nor shows a
\* milestone that was not asked for: main.go and execute.go implement Verdict.
THEOREM Implements == Spec => HonestVerdict
  <1>1. Init => PhaseInv /\ V!Init
    BY DEF Init, PhaseInv, V!Init, Outputs, Wordy
  <1>2. PhaseInv /\ [Next]_vars => PhaseInv'
    <2> SUFFICES ASSUME PhaseInv, [Next]_vars PROVE PhaseInv'
      OBVIOUS
    <2>1. CASE Main
      BY <2>1 DEF Main, Die, Over, Go, SolverMode, PhaseInv, Outputs
    <2>2. CASE Run \/ Parse \/ Compile \/ Generate
      BY <2>2 DEF Run, Parse, Compile, Generate, Die, Over, Go, PhaseInv, Outputs
    <2>3. CASE Check
      BY <2>3, CheckedSound, DrawingClaimsNothing DEF Check, Die, Over, Go, PhaseInv, Outputs
    <2>4. CASE Solve
      BY <2>4 DEF Solve, Die, Over, Go, PhaseInv, Outputs
    <2>5. CASE CleanExtraOutputs
      <3>1. lines' \in {<<>>, <<"word", "paren">>, <<"word">>, <<"paren">>}
        <4>1. CASE lines = <<"word", "paren">>
          BY <2>5, <4>1 DEF CleanExtraOutputs
        <4>2. CASE lines \in {<<>>, <<"word">>, <<"paren">>}
          BY <2>5, <4>2 DEF CleanExtraOutputs
        <4> QED BY <4>1, <4>2 DEF PhaseInv
      <3>2. /\ UNCHANGED <<asked, satisfiable, mode>> /\ phase = "clean"
            /\ \/ phase' = "over" /\ shown' = shown \cup {"error"}
               \/ phase' \in {"clean", "listen"} /\ shown' = shown
        BY <2>5 DEF CleanExtraOutputs, Die, Over, Go
      <3> QED BY <3>1, <3>2 DEF PhaseInv, Outputs
    <2>6. CASE Walk \/ Done \/ UNCHANGED vars
      BY <2>6 DEF Walk, Done, vars, driverVars, PhaseInv
    <2>7. CASE Show
      BY <2>7, DrawingClaimsNothing DEF Show, Die, Over, PhaseInv, Outputs
    <2> QED BY <2>1, <2>2, <2>3, <2>4, <2>5, <2>6, <2>7 DEF Next
  <1>3. PhaseInv /\ [Next]_vars => [V!Next]_(V!vars)
    BY StepImplements
  <1> QED BY <1>1, <1>2, <1>3, PTL DEF Spec, HonestVerdict, V!Safe

-----------------------------------------------------------------------------
(***************************************************************************)
(* The listener keeps the answer.  What is left of an answer is a part of  *)
(* it that no handler is about, what is left of the definition being made, *)
(* and the definitions after it; the stack is as long as that asks for.    *)
(***************************************************************************)

\* Rules that neither reach a handler nor a rule that does.
Neutral == {"symbol", "simpleSymbol", "predefSymbol", "identifier", "qual_identifer", "spec_constant",
            "numeral", "decimal", "string_"}
\* The rules on the way from the start to a definition.
Outer == {"start", "general_response", "specific_success_response", "get_model_response"}
\* The rules that a definition is made of, and the two above them.
Making == {"model_response", "cmd_defineFun", "function_def", "variable", "sort", "term"}

\* What an item of a walk is called: a rule by its name, an exit by its context, that of
\* a term by what it is made of.
Is(w, tag) ==
  \/ tag \in Outer \cup Making /\ w = Rule(tag)
  \/ tag \in {"Function_def", "Variable", "Sort"} /\ IsExit(w) /\ w.of = tag
  \/ tag = "literal" /\ IsExit(w) /\ w.of = "Term" /\ w.body = <<"spec_constant">>
  \/ tag = "boolean" /\ IsExit(w) /\ w.of = "Term" /\ w.body = <<"qual_identifer">>
  \/ tag = "quotient" /\ IsExit(w) /\ w.of = "Term" /\ w.body = <<"qual_identifer", "term", "term">>

\* All rules, what an item of a walk may be called, and the items.
Names == Neutral \cup Outer \cup Making
Tags == Outer \cup Making \cup {"Function_def", "Variable", "Sort", "literal", "boolean", "quotient"}
Items == [enter : BOOLEAN, of : Names \cup Handled, tokens : Nat, body : Seq(Names), base : Nat]

\* Of a walk, k items that no handler is about, the items called s, and definitions.
Left(w, k, s) ==
  /\ w \in Seq(Items) /\ k \in Nat /\ s \in Seq(Tags) /\ k + Len(s) <= Len(w)
  /\ \A i \in 1..k : \E r \in Neutral : w[i] = Rule(r)
  /\ \A i \in 1..Len(s) : Is(w[k + i], s[i])
  /\ \A i \in k + Len(s) + 1..Len(w) : w[i] = Rule("model_response")

\* A rule to be entered is an item.
LEMMA RuleIsItem ==
  ASSUME NEW r \in Names
  PROVE  Rule(r) \in Items /\ Rule(r).enter /\ Rule(r).of = r
  <1>1. <<>> \in Seq(Names)
    OBVIOUS
  <1> QED BY <1>1 DEF Rule, Items

\* What a concatenation has, and where.
LEMMA Cat ==
  ASSUME NEW S, NEW A \in Seq(S), NEW B \in Seq(S)
  PROVE  /\ A \o B \in Seq(S) /\ Len(A \o B) = Len(A) + Len(B)
         /\ \A i \in 1..Len(A) + Len(B) : (A \o B)[i] = IF i <= Len(A) THEN A[i] ELSE B[i - Len(A)]
  <1>1. A \o B \in Seq(S)
    OBVIOUS
  <1> QED BY <1>1, ConcatProperties

\* W is the walk w, of whose first item B and X are what is left.
Spliced(W, B, X, w) ==
  /\ W \in Seq(Items) /\ Len(W) = Len(B) + Len(X) + Len(w) - 1
  /\ \A i \in 1..Len(B) : W[i] = B[i]
  /\ \A i \in 1..Len(X) : W[Len(B) + i] = X[i]
  /\ \A i \in 2..Len(w) : W[Len(B) + Len(X) + i - 1] = w[i]

\* The items of a walk after a rule has been parsed.
LEMMA Joined ==
  ASSUME NEW w \in Seq(Items), w # <<>>, NEW B \in Seq(Items), NEW X \in Seq(Items),
         NEW W, W = (B \o X) \o Tail(w)
  PROVE  Spliced(W, B, X, w)
  <1>9. PICK S : S = Items
    OBVIOUS
  <1>10. w \in Seq(S) /\ B \in Seq(S) /\ X \in Seq(S)
    BY <1>9
  <1>11. PICK b \in Nat : b = Len(B)
    OBVIOUS
  <1>12. PICK x \in Nat : x = Len(X)
    OBVIOUS
  <1>13. PICK l \in Nat : l = Len(w)
    OBVIOUS
  <1>1. /\ l >= 1 /\ Tail(w) \in Seq(S) /\ Len(Tail(w)) = l - 1
        /\ \A i \in 1..l - 1 : Tail(w)[i] = w[i + 1]
    BY <1>10, <1>13, HeadTailProperties, EmptySeq
  <1> DEFINE T == Tail(w)
             Y == B \o X
             Z == Y \o T
  <1>2. T \in Seq(S) /\ Len(T) = l - 1 /\ \A i \in 1..l - 1 : T[i] = w[i + 1]
    BY <1>1
  <1> HIDE DEF T
  <1>3. Y \in Seq(S) /\ Len(Y) = b + x /\ \A i \in 1..b + x : Y[i] = IF i <= b THEN B[i] ELSE X[i - b]
    <2>1. Y \in Seq(S) /\ Len(Y) = Len(B) + Len(X)
          /\ \A i \in 1..Len(B) + Len(X) : Y[i] = IF i <= Len(B) THEN B[i] ELSE X[i - Len(B)]
      BY <1>10, Cat, Zenon
    <2> QED BY <1>11, <1>12, <2>1
  <1> HIDE DEF Y
  <1>4. Z \in Seq(S) /\ Len(Z) = b + x + l - 1
        /\ \A i \in 1..b + x + l - 1 : Z[i] = IF i <= b + x THEN Y[i] ELSE T[i - (b + x)]
    <2>1. Len(Y) + Len(T) = b + x + l - 1
      BY <1>1, <1>2, <1>3
    <2>2. Y \in Seq(S) /\ T \in Seq(S)
      BY <1>2, <1>3
    <2>3. Z \in Seq(S) /\ Len(Z) = Len(Y) + Len(T)
          /\ \A i \in 1..Len(Y) + Len(T) : Z[i] = IF i <= Len(Y) THEN Y[i] ELSE T[i - Len(Y)]
      BY <2>2, Cat, Zenon
    <2> QED BY <1>3, <2>1, <2>3
  <1> HIDE DEF Z
  <1>5. \A i \in 1..b : Z[i] = B[i]
    <2> TAKE i \in 1..b
    <2>1. i \in 1..b + x /\ i \in 1..b + x + l - 1 /\ i <= b + x /\ i <= b
      BY <1>1
    <2> QED BY <1>3, <1>4, <2>1
  <1>6. \A i \in 1..x : Z[b + i] = X[i]
    <2> TAKE i \in 1..x
    <2>1. PICK j \in 1..b + x : j = b + i
      OBVIOUS
    <2>2. j \in 1..b + x + l - 1 /\ j <= b + x /\ ~(j <= b) /\ j - b = i
      BY <1>1, <2>1
    <2> QED BY <1>3, <1>4, <2>1, <2>2
  <1>7. \A i \in 2..l : Z[b + x + i - 1] = w[i]
    <2> TAKE i \in 2..l
    <2>1. PICK j \in 1..b + x + l - 1 : j = b + x + i - 1
      <3>1. b + x + i - 1 \in 1..b + x + l - 1
        OBVIOUS
      <3> QED BY <3>1, Zenon
    <2>2. ~(j <= b + x) /\ j - (b + x) = i - 1 /\ i - 1 \in 1..l - 1 /\ i - 1 + 1 = i
      BY <1>1, <2>1
    <2> QED BY <1>2, <1>4, <2>1, <2>2
  <1>8. Z = W
    BY DEF Z, Y, T
  <1> QED BY <1>4, <1>5, <1>6, <1>7, <1>8, <1>9, <1>11, <1>12, <1>13 DEF Spliced

\* Parsing a rule that no handler is about.
LEMMA Skipped ==
  ASSUME NEW w, NEW k, NEW s, Left(w, k, s), k # 0, NEW B \in Seq(Items), NEW X, X = <<>>,
         \A i \in 1..Len(B) : \E r \in Neutral : B[i] = Rule(r)
  PROVE  Left((B \o X) \o Tail(w), k - 1 + Len(B), s)
  <1>1. PICK b \in Nat : b = Len(B)
    OBVIOUS
  <1>2. PICK l \in Nat : l = Len(w)
    BY DEF Left
  <1>3. PICK m \in Nat : m = Len(s)
    BY DEF Left
  <1>4. /\ w \in Seq(Items) /\ k \in Nat /\ s \in Seq(Tags) /\ k + m <= l
        /\ \A i \in 1..k : \E r \in Neutral : w[i] = Rule(r)
        /\ \A i \in 1..m : Is(w[k + i], s[i])
        /\ \A i \in k + m + 1..l : w[i] = Rule("model_response")
    BY <1>2, <1>3 DEF Left
  <1>5. PICK W : W = (B \o X) \o Tail(w)
    OBVIOUS
  <1>6. /\ W \in Seq(Items) /\ Len(W) = b + l - 1
        /\ \A i \in 1..b : W[i] = B[i]
        /\ \A i \in 2..l : W[b + i - 1] = w[i]
    <2>1. w # <<>> /\ X \in Seq(Items) /\ Len(X) = 0
      BY <1>2, <1>4
    <2>2. \A i \in 2..l : b + 0 + i - 1 = b + i - 1
      OBVIOUS
    <2>4. Spliced(W, B, X, w)
      BY <1>4, <1>5, <2>1, Joined
    <2>3. /\ W \in Seq(Items) /\ Len(W) = b + 0 + l - 1
          /\ \A i \in 1..b : W[i] = B[i]
          /\ \A i \in 2..l : W[b + 0 + i - 1] = w[i]
      BY <1>1, <1>2, <2>1, <2>4 DEF Spliced
    <2> QED BY <2>2, <2>3
  <1>7. k - 1 + b \in Nat /\ k - 1 + b + m <= b + l - 1
    BY <1>4
  <1>8. \A i \in 1..k - 1 + b : \E r \in Neutral : W[i] = Rule(r)
    <2> TAKE i \in 1..k - 1 + b
    <2>1. CASE i <= b
      BY <1>1, <1>6, <2>1
    <2>2. CASE ~(i <= b)
      <3>1. PICK j \in 2..l : i = b + j - 1 /\ j \in 1..k
        <4>2. k \in Nat /\ k <= l
          BY <1>4
        <4>1. i - b + 1 \in 2..l /\ i = b + (i - b + 1) - 1 /\ i - b + 1 \in 1..k
          BY <2>2, <4>2
        <4> QED BY <4>1
      <3> QED BY <1>4, <1>6, <3>1
    <2> QED BY <2>1, <2>2
  <1>9. \A i \in 1..m : Is(W[k - 1 + b + i], s[i])
    <2> TAKE i \in 1..m
    <2>1. PICK j \in 2..l : j = k + i
      BY <1>4
    <2>2. b + j - 1 = k - 1 + b + i
      BY <1>4, <2>1
    <2> QED BY <1>4, <1>6, <2>1, <2>2
  <1>10. \A i \in k - 1 + b + m + 1..b + l - 1 : W[i] = Rule("model_response")
    <2> TAKE i \in k - 1 + b + m + 1..b + l - 1
    <2>1. PICK j \in 2..l : i = b + j - 1 /\ j \in k + m + 1..l
      <3>1. i - b + 1 \in 2..l /\ i = b + (i - b + 1) - 1 /\ i - b + 1 \in k + m + 1..l
        BY <1>4
      <3> QED BY <3>1
    <2> QED BY <1>4, <1>6, <2>1
  <1> QED BY <1>1, <1>3, <1>4, <1>5, <1>6, <1>7, <1>8, <1>9, <1>10 DEF Left

\* Parsing a rule that the definition is made of, or taking an exit: b items are parsed,
\* the first n of them without a handler, and x exits; s turns into t.
Turns(B, X, n, s, t) ==
  LET b == Len(B)
      x == Len(X)
  IN  /\ n \in 0..b /\ t \in Seq(Tags) /\ Len(t) = b - n + x + Len(s) - 1
      /\ \A i \in 1..n : \E r \in Neutral : B[i] = Rule(r)
      /\ \A i \in 1..b - n : Is(B[n + i], t[i])
      /\ \A i \in 1..x : Is(X[i], t[b - n + i])
      /\ \A i \in 2..Len(s) : t[b - n + x + i - 1] = s[i]

\* What is left after it.
LEMMA Grown ==
  ASSUME NEW w, NEW s, Left(w, 0, s), s # <<>>, NEW B \in Seq(Items), NEW X \in Seq(Items),
         NEW n, NEW t, Turns(B, X, n, s, t)
  PROVE  Left((B \o X) \o Tail(w), n, t)
  <1>0. PICK b \in Nat : b = Len(B)
    OBVIOUS
  <1>1. PICK x \in Nat : x = Len(X)
    OBVIOUS
  <1>2. PICK l \in Nat : l = Len(w)
    BY DEF Left
  <1>11. PICK m \in Nat : m = Len(s)
    BY DEF Left
  <1>12. /\ n \in 0..b /\ t \in Seq(Tags) /\ Len(t) = b - n + x + m - 1
         /\ \A i \in 1..n : \E r \in Neutral : B[i] = Rule(r)
         /\ \A i \in 1..b - n : Is(B[n + i], t[i])
         /\ \A i \in 1..x : Is(X[i], t[b - n + i])
         /\ \A i \in 2..m : t[b - n + x + i - 1] = s[i]
    BY <1>0, <1>1, <1>11 DEF Turns
  <1>4. /\ w \in Seq(Items) /\ s \in Seq(Tags) /\ m <= l
        /\ \A i \in 1..m : Is(w[i], s[i])
        /\ \A i \in m + 1..l : w[i] = Rule("model_response")
    <2>1. \A i \in 1..m : 0 + i = i
      OBVIOUS
    <2>2. 0 + m = m
      OBVIOUS
    <2> QED BY <1>2, <1>11, <2>1, <2>2 DEF Left
  <1>3. m >= 1
    BY <1>4, <1>11, EmptySeq
  <1>5. PICK W : W = (B \o X) \o Tail(w)
    OBVIOUS
  <1>6. /\ W \in Seq(Items) /\ Len(W) = b + x + l - 1
        /\ \A i \in 1..b : W[i] = B[i]
        /\ \A i \in 1..x : W[b + i] = X[i]
        /\ \A i \in 2..l : W[b + x + i - 1] = w[i]
    <2>1. w # <<>> /\ w \in Seq(Items)
      BY <1>2, <1>3, <1>4
    <2>2. b = Len(B) /\ x = Len(X) /\ l = Len(w)
      BY <1>0, <1>1, <1>2
    <2>3. Spliced(W, B, X, w)
      BY <1>5, <2>1, Joined
    <2> QED BY <2>2, <2>3 DEF Spliced
  <1>7. n \in Nat /\ n + Len(t) <= b + x + l - 1
    BY <1>4, <1>12
  <1>8. \A i \in 1..n : \E r \in Neutral : W[i] = Rule(r)
    BY <1>6, <1>12
  <1>9. \A i \in 1..Len(t) : Is(W[n + i], t[i])
    <2> TAKE i \in 1..Len(t)
    <2>4. n \in 0..b /\ Len(t) = b - n + x + m - 1 /\ m <= l
      BY <1>4, <1>12
    <2>1. CASE i <= b - n
      <3>1. i \in 1..b - n /\ n + i \in 1..b
        BY <2>1, <2>4
      <3> QED BY <1>6, <1>12, <3>1
    <2>2. CASE i > b - n /\ i <= b - n + x
      <3>1. PICK j \in 1..x : j = i - (b - n)
        BY <2>2, <2>4
      <3>2. n + i = b + j /\ i = b - n + j
        BY <2>4, <3>1
      <3> QED BY <1>6, <1>12, <3>1, <3>2
    <2>3. CASE i > b - n + x
      <3>1. PICK j \in 2..m : j = i - (b - n + x) + 1
        <4>1. i - (b - n + x) + 1 \in 2..m
          BY <2>3, <2>4
        <4> QED BY <4>1, Zenon
      <3>2. n + i = b + x + j - 1 /\ i = b - n + x + j - 1 /\ j \in 1..m /\ j \in 2..l
        BY <2>4, <3>1
      <3>3. W[n + i] = w[j] /\ t[i] = s[j] /\ Is(w[j], s[j])
        BY <1>4, <1>6, <1>12, <3>2
      <3> QED BY <3>3
    <2> QED BY <1>12, <2>1, <2>2, <2>3
  <1>10. \A i \in n + Len(t) + 1..b + x + l - 1 : W[i] = Rule("model_response")
    <2> TAKE i \in n + Len(t) + 1..b + x + l - 1
    <2>1. PICK j \in 2..l : i = b + x + j - 1 /\ j \in m + 1..l
      <3>1. i - (b + x) + 1 \in 2..l /\ i = b + x + (i - (b + x) + 1) - 1 /\ i - (b + x) + 1 \in m + 1..l
        <4>1. Len(t) = b - n + x + m - 1 /\ n \in 0..b /\ m <= l
          BY <1>4, <1>12
        <4> QED BY <1>3, <4>1
      <3> QED BY <3>1, Zenon
    <2> QED BY <1>4, <1>6, <2>1
  <1> QED BY <1>5, <1>12, <1>6, <1>7, <1>8, <1>9, <1>10 DEF Left

\* What a term means is kept in what is on the stack: the boolean, or the number up to
\* half a unit.
SameValue(v, d, s) ==
  IF s = "Bool" THEN v = d.bool
  ELSE /\ v \in Int /\ d.num \in Int /\ d.den \in Nat
       /\ 2 * (v * d.den - d.num * Scale) <= d.den
       /\ 2 * (d.num * Scale - v * d.den) <= d.den

\* What terms mean.
Meanings == [bool : {"", "true", "false"}, num : Int, den : Int]

\* A variable that has no value yet.
Pending(id, n) ==
  /\ id \in Ids /\ n \in Versions
  /\ \A i \in DOMAIN said : said[i].id # id \/ said[i].version # n

\* What is left of a definition, by what is on the stack.
Outside(s) ==
  /\ stack = <<>> /\ meant = <<>>
  /\ \/ s = <<>>
     \/ \E r \in Outer \cup {"cmd_defineFun", "function_def"} : s = <<r>>
     \/ s = <<"variable", "sort", "term", "Function_def">>
     \/ s = <<"Variable", "sort", "term", "Function_def">>

\* The variable is on the stack.
Named(s, id, n) ==
  /\ stack = <<Var(id, n)>> /\ meant = <<>>
  /\ s \in {<<"sort", "term", "Function_def">>, <<"Sort", "term", "Function_def">>}

\* And its sort: a literal, a boolean or a quotient follows.
Typed(s, id, n) ==
  /\ stack = <<Var(id, n), SortText(Sort[id])>> /\ meant = <<>>
  /\ \/ s = <<"term", "Function_def">>
     \/ s = <<"literal", "Function_def">> /\ Sort[id] # "Bool"
     \/ s = <<"boolean", "Function_def">> /\ Sort[id] = "Bool"
     \/ /\ s \in {<<"term", "term", "quotient", "Function_def">>,
                  <<"literal", "term", "quotient", "Function_def">>}
        /\ Sort[id] = "Real"

\* And the dividend of a quotient.
Operand(s, id, n, a) ==
  /\ stack = <<Var(id, n), SortText(Sort[id]), Num(a * Scale)>> /\ meant = <<Fraction(a, 1)>>
  /\ a \in Literals /\ Sort[id] = "Real"
  /\ s \in {<<"term", "quotient", "Function_def">>, <<"literal", "quotient", "Function_def">>}

\* And its divisor.
Operands(s, id, n, a, b) ==
  /\ stack = <<Var(id, n), SortText(Sort[id]), Num(a * Scale), Num(b * Scale)>>
  /\ meant = <<Fraction(a, 1), Fraction(b, 1)>>
  /\ a \in Literals /\ b \in Literals /\ Sort[id] = "Real"
  /\ s = <<"quotient", "Function_def">>

\* And the value, as it was meant.
Valued(s, id, n, t, d) ==
  /\ stack = <<Var(id, n), SortText(Sort[id]), t>> /\ meant = <<d>> /\ d \in Meanings
  /\ SameValue(ConvertTerm(SortText(Sort[id]), t), d, Sort[id])
  /\ s = <<"Function_def">>

\* A definition is being made, of the version n of id.
InMaking(s, id, n) ==
  \/ Named(s, id, n)
  \/ Typed(s, id, n)
  \/ \E a : Operand(s, id, n, a)
  \/ \E a, b : Operands(s, id, n, a, b)
  \/ \E t, d : Valued(s, id, n, t, d)

\* The definition, on which the stack depends, or none.
Defining(s) == Outside(s) \/ \E id, n : Pending(id, n) /\ InMaking(s, id, n)

\* Only these change it.
LEMMA DefiningKept ==
  ASSUME NEW s, Defining(s), UNCHANGED <<stack, meant, said>>
  PROVE  Defining(s)'
  <1>1. CASE Outside(s)
    BY <1>1 DEF Outside, Defining
  <1>2. CASE \E id, n : Pending(id, n) /\ InMaking(s, id, n)
    <2>1. PICK id, n : Pending(id, n) /\ InMaking(s, id, n)
      BY <1>2
    <2>2. Pending(id, n)'
      BY <2>1 DEF Pending
    <2>3. (Named(s, id, n) => Named(s, id, n)') /\ (Typed(s, id, n) => Typed(s, id, n)')
      BY DEF Named, Typed
    <2>4. \A a : Operand(s, id, n, a) => Operand(s, id, n, a)'
      BY DEF Operand
    <2>5. \A a, b : Operands(s, id, n, a, b) => Operands(s, id, n, a, b)'
      BY DEF Operands
    <2>6. \A t, d : Valued(s, id, n, t, d) => Valued(s, id, n, t, d)'
      BY DEF Valued
    <2> QED BY <2>1, <2>2, <2>3, <2>4, <2>5, <2>6, Zenon DEF Defining, InMaking
  <1> QED BY <1>1, <1>2 DEF Defining

\* The names of what is left say how far the definition is.
LEMMA Stages ==
  ASSUME NEW s, Defining(s), s # <<>>
  PROVE  /\ s[1] \in Outer \cup {"cmd_defineFun", "function_def"} => Outside(s) /\ s = <<s[1]>>
         /\ s[1] = "variable" => Outside(s) /\ s = <<"variable", "sort", "term", "Function_def">>
         /\ s[1] = "Variable" => Outside(s) /\ s = <<"Variable", "sort", "term", "Function_def">>
         /\ s[1] = "sort" => /\ s = <<"sort", "term", "Function_def">>
                             /\ \E id, n : Pending(id, n) /\ Named(s, id, n)
         /\ s[1] = "Sort" => /\ s = <<"Sort", "term", "Function_def">>
                             /\ \E id, n : Pending(id, n) /\ Named(s, id, n)
         /\ s[1] = "term" => \E id, n : Pending(id, n) /\ (Typed(s, id, n) \/ \E a : Operand(s, id, n, a))
         /\ s[1] = "literal" => \E id, n : Pending(id, n) /\ (Typed(s, id, n) \/ \E a : Operand(s, id, n, a))
         /\ s[1] = "boolean" => /\ s = <<"boolean", "Function_def">>
                                /\ \E id, n : Pending(id, n) /\ Typed(s, id, n)
         /\ s[1] = "quotient" => /\ s = <<"quotient", "Function_def">>
                                 /\ \E id, n, a, b : Pending(id, n) /\ Operands(s, id, n, a, b)
         /\ s[1] = "Function_def" => /\ s = <<"Function_def">>
                                     /\ \E id, n, t, d : Pending(id, n) /\ Valued(s, id, n, t, d)
         /\ s[1] # "model_response"
  <1>1. CASE Outside(s)
    BY <1>1 DEF Outside, Outer
  <1>2. CASE \E id, n : Pending(id, n) /\ Named(s, id, n)
    <2>1. s[1] \in {"sort", "Sort"}
      BY <1>2 DEF Named
    <2>2. /\ s[1] = "sort" => s = <<"sort", "term", "Function_def">>
          /\ s[1] = "Sort" => s = <<"Sort", "term", "Function_def">>
      BY <1>2 DEF Named
    <2> QED BY <1>2, <2>1, <2>2 DEF Outer
  <1>3. CASE \E id, n : Pending(id, n) /\ Typed(s, id, n)
    <2>1. s[1] \in {"term", "literal", "boolean"} /\ (s[1] = "boolean" => s = <<"boolean", "Function_def">>)
      BY <1>3 DEF Typed
    <2> QED BY <1>3, <2>1 DEF Outer
  <1>4. CASE \E id, n, a : Pending(id, n) /\ Operand(s, id, n, a)
    <2>1. s[1] \in {"term", "literal"}
      BY <1>4 DEF Operand
    <2> QED BY <1>4, <2>1 DEF Outer
  <1>5. CASE \E id, n, a, b : Pending(id, n) /\ Operands(s, id, n, a, b)
    <2>1. s[1] = "quotient" /\ s = <<"quotient", "Function_def">>
      BY <1>5 DEF Operands
    <2> QED BY <1>5, <2>1 DEF Outer
  <1>6. CASE \E id, n, t, d : Pending(id, n) /\ Valued(s, id, n, t, d)
    <2>1. s[1] = "Function_def" /\ s = <<"Function_def">>
      BY <1>6 DEF Valued
    <2> QED BY <1>6, <2>1 DEF Outer
  <1> QED BY <1>1, <1>2, <1>3, <1>4, <1>5, <1>6, Zenon DEF Defining, InMaking

\* The first item of a walk.
LEMMA FirstItem ==
  ASSUME NEW w, NEW k, NEW s, Left(w, k, s), w # <<>>
  PROVE  \/ k # 0 /\ Head(w).enter /\ \E r \in Neutral : Head(w) = Rule(r)
         \/ k = 0 /\ s = <<>> /\ Head(w) = Rule("model_response")
         \/ k = 0 /\ s # <<>> /\ Is(Head(w), s[1])
  <1>1. w \in Seq(Items) /\ k \in Nat /\ s \in Seq(Tags) /\ Len(w) >= 1 /\ Head(w) = w[1]
    BY EmptySeq DEF Left
  <1>2. CASE k # 0
    <2>1. 1 \in 1..k
      BY <1>1, <1>2
    <2>2. \E r \in Neutral : w[1] = Rule(r)
      BY <2>1 DEF Left
    <2> QED BY <1>1, <1>2, <2>2 DEF Rule
  <1>3. CASE k = 0 /\ s = <<>>
    <2>1. 1 \in k + Len(s) + 1..Len(w)
      BY <1>1, <1>3
    <2> QED BY <1>1, <1>3, <2>1 DEF Left
  <1>4. CASE k = 0 /\ s # <<>>
    <2>1. 1 \in 1..Len(s) /\ k + 1 = 1
      BY <1>1, <1>4, EmptySeq
    <2> QED BY <1>1, <1>4, <2>1 DEF Left
  <1> QED BY <1>2, <1>3, <1>4

\* A body is parsed into its rules, one by one.
LEMMA ParsedItems ==
  ASSUME NEW body \in Seq(Names)
  PROVE  /\ Parsed(body) \in Seq(Items) /\ Len(Parsed(body)) = Len(body)
         /\ \A i \in 1..Len(body) : Parsed(body)[i] = Rule(body[i])
  <1>1. PICK n \in Nat : n = Len(body)
    OBVIOUS
  <1>2. DOMAIN body = 1..n /\ \A i \in 1..n : body[i] \in Names
    BY <1>1
  <1>3. Parsed(body) = [i \in 1..n |-> Rule(body[i])]
    BY <1>2 DEF Parsed
  <1>4. \A i \in 1..n : Rule(body[i]) \in Items
    BY <1>2, RuleIsItem
  <1>5. [i \in 1..n |-> Rule(body[i])] \in Seq(Items)
    <2>1. [i \in 1..n |-> Rule(body[i])] \in [1..n -> Items]
      BY <1>4
    <2> QED BY <2>1, SeqDef
  <1> QED BY <1>1, <1>3, <1>5

\* A rule that becomes one rule, which no handler is about or which is on the way.
LEMMA OneRule ==
  ASSUME NEW w, NEW q, NEW r \in Names, Left(w, 0, <<q>>), NEW B \in Seq(Items), Len(B) = 1,
         B[1] = Rule(r), NEW X, X = <<>>
  PROVE  /\ r \in Neutral => Left((B \o X) \o Tail(w), 1, <<>>)
         /\ r \in Outer \cup Making => Left((B \o X) \o Tail(w), 0, <<r>>)
  <1>1. X \in Seq(Items) /\ Len(X) = 0
    OBVIOUS
  <1>2. PICK s : s = <<q>>
    OBVIOUS
  <1>3. s # <<>> /\ Len(s) = 1
    BY <1>2
  <1>4. ASSUME r \in Neutral PROVE Left((B \o X) \o Tail(w), 1, <<>>)
    <2>1. PICK t : t = <<>>
      OBVIOUS
    <2>2. t \in Seq(Tags) /\ Len(t) = 0
      BY <2>1
    <2>3. Turns(B, X, 1, s, t)
      <3>1. 1 \in 0..1 /\ 0 = 1 - 1 + 0 + 1 - 1
        OBVIOUS
      <3>2. \A i \in 1..1 : \E p \in Neutral : B[i] = Rule(p)
        BY <1>4
      <3>3. \A i \in 1..1 - 1 : Is(B[1 + i], t[i])
        OBVIOUS
      <3>4. \A i \in 1..0 : Is(X[i], t[1 - 1 + i])
        OBVIOUS
      <3>5. \A i \in 2..1 : t[1 - 1 + 0 + i - 1] = s[i]
        OBVIOUS
      <3> QED BY <1>1, <1>3, <2>2, <3>1, <3>2, <3>3, <3>4, <3>5 DEF Turns
    <2> QED BY <1>1, <1>2, <1>3, <2>1, <2>3, Grown
  <1>5. ASSUME r \in Outer \cup Making PROVE Left((B \o X) \o Tail(w), 0, <<r>>)
    <2>1. PICK t : t = <<r>>
      OBVIOUS
    <2>2. t \in Seq(Tags) /\ Len(t) = 1 /\ t[1] = r
      <3>1. r \in Tags
        BY <1>5 DEF Tags
      <3> QED BY <2>1, <3>1
    <2>3. Is(B[1], t[1])
      BY <1>5, <2>2 DEF Is
    <2>4. Turns(B, X, 0, s, t)
      <3>1. 0 \in 0..1 /\ 1 = 1 - 0 + 0 + 1 - 1
        OBVIOUS
      <3>2. \A i \in 1..1 - 0 : Is(B[0 + i], t[i])
        <4>1. \A i \in 1..1 - 0 : i = 1 /\ 0 + i = 1
          OBVIOUS
        <4> QED BY <2>3, <4>1
      <3> QED BY <1>1, <1>3, <2>2, <3>1, <3>2 DEF Turns
    <2> QED BY <1>1, <1>2, <1>3, <2>1, <2>4, Grown
  <1> QED BY <1>4, <1>5

\* A rule with a handler that becomes a rule without one and its exit.
LEMMA OneAndExit ==
  ASSUME NEW w, NEW s, Left(w, 0, s), s # <<>>, NEW r \in Neutral, NEW B \in Seq(Items), Len(B) = 1,
         B[1] = Rule(r), NEW e \in Items, NEW X, X = <<e>>, NEW t \in Seq(Tags), Len(t) = Len(s),
         Is(e, t[1]), \A i \in 2..Len(s) : t[i] = s[i]
  PROVE  Left((B \o X) \o Tail(w), 1, t)
  <1>1. X \in Seq(Items) /\ Len(X) = 1 /\ X[1] = e
    OBVIOUS
  <1>2. PICK m \in Nat : m = Len(s)
    BY DEF Left
  <1>3. Turns(B, X, 1, s, t)
    <2>1. 1 \in 0..1 /\ m = 1 - 1 + 1 + m - 1
      OBVIOUS
    <2>2. \A i \in 1..1 : \E q \in Neutral : B[i] = Rule(q)
      OBVIOUS
    <2>3. \A i \in 1..1 - 1 : Is(B[1 + i], t[i])
      OBVIOUS
    <2>4. \A i \in 1..1 : Is(X[i], t[1 - 1 + i])
      BY <1>1
    <2>5. \A i \in 2..m : t[1 - 1 + 1 + i - 1] = s[i]
      BY <1>2
    <2> QED BY <1>1, <1>2, <2>1, <2>2, <2>3, <2>4, <2>5 DEF Turns
  <1> QED BY <1>1, <1>3, Grown

\* A definition is a variable, its sort and a term.
LEMMA Opened ==
  ASSUME NEW w, Left(w, 0, <<"function_def">>), NEW B \in Seq(Items), Len(B) = 3,
         B[1] = Rule("variable"), B[2] = Rule("sort"), B[3] = Rule("term"),
         NEW e \in Items, NEW X, X = <<e>>, Is(e, "Function_def")
  PROVE  Left((B \o X) \o Tail(w), 0, <<"variable", "sort", "term", "Function_def">>)
  <1>1. X \in Seq(Items) /\ Len(X) = 1 /\ X[1] = e
    OBVIOUS
  <1>2. PICK s : s = <<"function_def">>
    OBVIOUS
  <1>3. PICK t : t = <<"variable", "sort", "term", "Function_def">>
    OBVIOUS
  <1>4. s # <<>> /\ Len(s) = 1
    BY <1>2
  <1>5. /\ t \in Seq(Tags) /\ Len(t) = 4
        /\ t[1] = "variable" /\ t[2] = "sort" /\ t[3] = "term" /\ t[4] = "Function_def"
    BY <1>3 DEF Tags, Making, Outer
  <1>6. Is(B[1], t[1]) /\ Is(B[2], t[2]) /\ Is(B[3], t[3])
    BY <1>5 DEF Is, Making
  <1>7. Turns(B, X, 0, s, t)
    <2>1. \A i \in 1..3 : i = 1 \/ i = 2 \/ i = 3
      OBVIOUS
    <2>2. \A i \in 1..3 - 0 : Is(B[0 + i], t[i])
      BY <1>6, <2>1
    <2>3. \A i \in 1..1 : Is(X[i], t[3 - 0 + i])
      BY <1>1, <1>5
    <2>4. 0 \in 0..3 /\ 4 = 3 - 0 + 1 + 1 - 1
      OBVIOUS
    <2>5. \A i \in 1..0 : \E r \in Neutral : B[i] = Rule(r)
      OBVIOUS
    <2>6. \A i \in 2..1 : t[3 - 0 + 1 + i - 1] = s[i]
      OBVIOUS
    <2> QED BY <1>1, <1>4, <1>5, <2>2, <2>3, <2>4, <2>5, <2>6 DEF Turns
  <1> QED BY <1>1, <1>2, <1>3, <1>4, <1>7, Grown

\* A quotient is an operator and two terms.
LEMMA Divided ==
  ASSUME NEW w, Left(w, 0, <<"term", "Function_def">>), NEW B \in Seq(Items), Len(B) = 3,
         B[1] = Rule("qual_identifer"), B[2] = Rule("term"), B[3] = Rule("term"),
         NEW e \in Items, NEW X, X = <<e>>, Is(e, "quotient")
  PROVE  Left((B \o X) \o Tail(w), 1, <<"term", "term", "quotient", "Function_def">>)
  <1>1. X \in Seq(Items) /\ Len(X) = 1 /\ X[1] = e
    OBVIOUS
  <1>2. PICK s : s = <<"term", "Function_def">>
    OBVIOUS
  <1>3. PICK t : t = <<"term", "term", "quotient", "Function_def">>
    OBVIOUS
  <1>4. s # <<>> /\ Len(s) = 2 /\ s[2] = "Function_def"
    BY <1>2
  <1>5. /\ t \in Seq(Tags) /\ Len(t) = 4
        /\ t[1] = "term" /\ t[2] = "term" /\ t[3] = "quotient" /\ t[4] = "Function_def"
    BY <1>3 DEF Tags, Making, Outer
  <1>6. Is(B[2], t[1]) /\ Is(B[3], t[2])
    BY <1>5 DEF Is, Making
  <1>7. Turns(B, X, 1, s, t)
    <2>1. \A i \in 1..3 - 1 : i = 1 \/ i = 2
      OBVIOUS
    <2>2. \A i \in 1..3 - 1 : Is(B[1 + i], t[i])
      BY <1>6, <2>1
    <2>3. \A i \in 1..1 : Is(X[i], t[3 - 1 + i])
      BY <1>1, <1>5
    <2>4. 1 \in 0..3 /\ 4 = 3 - 1 + 1 + 2 - 1
      OBVIOUS
    <2>5. \A i \in 1..1 : \E r \in Neutral : B[i] = Rule(r)
      BY DEF Neutral
    <2>6. \A i \in 2..2 : t[3 - 1 + 1 + i - 1] = s[i]
      BY <1>4, <1>5
    <2> QED BY <1>1, <1>4, <1>5, <2>2, <2>3, <2>4, <2>5, <2>6 DEF Turns
  <1> QED BY <1>1, <1>2, <1>3, <1>4, <1>7, Grown

\* A model is a list of definitions.
LEMMA Listed ==
  ASSUME NEW w, NEW q, Left(w, 0, <<q>>), NEW B \in Seq(Items), NEW X, X = <<>>,
         \A i \in 1..Len(B) : B[i] = Rule("model_response")
  PROVE  Left((B \o X) \o Tail(w), 0, <<>>)
  <1>1. PICK l \in Nat : l = Len(w)
    BY DEF Left
  <1>2. PICK b \in Nat : b = Len(B)
    OBVIOUS
  <1>3. w \in Seq(Items) /\ l >= 1 /\ \A i \in 2..l : w[i] = Rule("model_response")
    <2>1. Len(<<q>>) = 1 /\ 0 + 1 = 1 /\ 0 + 1 + 1 = 2
      OBVIOUS
    <2> QED BY <1>1, <2>1 DEF Left
  <1>4. w # <<>> /\ X \in Seq(Items) /\ Len(X) = 0
    BY <1>1, <1>3
  <1>5. PICK W : W = (B \o X) \o Tail(w)
    OBVIOUS
  <1>6. Spliced(W, B, X, w)
    BY <1>3, <1>4, <1>5, Joined
  <1>7. /\ W \in Seq(Items) /\ Len(W) = b + 0 + l - 1
        /\ \A i \in 1..b : W[i] = B[i]
        /\ \A i \in 2..l : W[b + 0 + i - 1] = w[i]
    BY <1>1, <1>2, <1>4, <1>6 DEF Spliced
  <1>8. \A i \in 1..b + l - 1 : W[i] = Rule("model_response")
    <2> TAKE i \in 1..b + l - 1
    <2>1. CASE i <= b
      BY <1>2, <1>7, <2>1
    <2>2. CASE i > b
      <3>1. PICK j \in 2..l : i = b + 0 + j - 1
        <4>1. i - b + 1 \in 2..l /\ i = b + 0 + (i - b + 1) - 1
          BY <1>3, <2>2
        <4> QED BY <4>1
      <3> QED BY <1>3, <1>7, <3>1
    <2> QED BY <2>1, <2>2
  <1>9. <<>> \in Seq(Tags) /\ Len(<<>>) = 0
    OBVIOUS
  <1> QED BY <1>3, <1>5, <1>7, <1>8, <1>9 DEF Left

\* The next definition.
LEMMA NextDefinition ==
  ASSUME NEW w, Left(w, 0, <<>>), w # <<>>
  PROVE  Left(w, 0, <<"model_response">>)
  <1>1. /\ w \in Seq(Items) /\ \A i \in 0 + 0 + 1..Len(w) : w[i] = Rule("model_response")
    <2>1. Len(<<>>) = 0
      OBVIOUS
    <2> QED BY <2>1 DEF Left
  <1>2. Len(w) \in Nat /\ Len(w) >= 1
    BY <1>1, EmptySeq
  <1>3. PICK s : s = <<"model_response">>
    OBVIOUS
  <1>4. s \in Seq(Tags) /\ Len(s) = 1 /\ s[1] = "model_response"
    BY <1>3 DEF Tags, Making, Outer
  <1>5. Is(w[0 + 1], s[1])
    <2>1. w[1] = Rule("model_response")
      BY <1>1, <1>2
    <2> QED BY <1>4, <2>1 DEF Is, Making
  <1>6. Left(w, 0, s)
    BY <1>1, <1>2, <1>4, <1>5 DEF Left
  <1> QED BY <1>3, <1>6

\* An item is taken off.
LEMMA Taken ==
  ASSUME NEW w, NEW s, Left(w, 0, s), s # <<>>, NEW t \in Seq(Tags), Len(t) = Len(s) - 1,
         \A i \in 1..Len(t) : t[i] = s[i + 1]
  PROVE  Left(Tail(w), 0, t)
  <1>1. PICK l \in Nat : l = Len(w)
    BY DEF Left
  <1>2. PICK m \in Nat : m = Len(s)
    BY DEF Left
  <1>3. /\ w \in Seq(Items) /\ s \in Seq(Tags) /\ m <= l
        /\ \A i \in 1..m : Is(w[0 + i], s[i])
        /\ \A i \in 0 + m + 1..l : w[i] = Rule("model_response")
    BY <1>1, <1>2 DEF Left
  <1>4. m >= 1
    BY <1>2, <1>3, EmptySeq
  <1>5. PICK W : W = Tail(w)
    OBVIOUS
  <1>6. W \in Seq(Items) /\ Len(W) = l - 1 /\ \A i \in 1..l - 1 : W[i] = w[i + 1]
    <2>1. w # <<>>
      BY <1>1, <1>3, <1>4
    <2> QED BY <1>1, <1>3, <1>5, <2>1, HeadTailProperties
  <1>7. \A i \in 1..m - 1 : Is(W[0 + i], t[i])
    <2> TAKE i \in 1..m - 1
    <2>1. i + 1 \in 1..m /\ i \in 1..l - 1 /\ 0 + (i + 1) = i + 1 /\ 0 + i = i
      BY <1>3
    <2>2. t[i] = s[i + 1]
      BY <1>2
    <2>3. Is(w[i + 1], s[i + 1])
      BY <1>3, <2>1
    <2> QED BY <1>6, <2>1, <2>2, <2>3
  <1>8. \A i \in 0 + (m - 1) + 1..l - 1 : W[i] = Rule("model_response")
    <2> TAKE i \in 0 + (m - 1) + 1..l - 1
    <2>1. i + 1 \in 0 + m + 1..l /\ i \in 1..l - 1
      BY <1>4
    <2> QED BY <1>3, <1>6, <2>1
  <1>9. Len(t) = m - 1 /\ 0 + (m - 1) <= l - 1
    BY <1>2, <1>3
  <1> QED BY <1>5, <1>6, <1>7, <1>8, <1>9 DEF Left

\* Nothing that a handler is about comes of these.
LEMMA NeutralAlts ==
  ASSUME NEW r \in Neutral, NEW alt \in Rules[r]
  PROVE  /\ alt.body \in Seq(Names) /\ \A i \in 1..Len(alt.body) : alt.body[i] \in Neutral
         /\ alt.label \notin Handled
  <1> DEFINE Bodies == {<<>>, <<"symbol">>, <<"simpleSymbol">>, <<"predefSymbol">>, <<"identifier">>,
                        <<"numeral">>, <<"decimal">>}
             Labels == {"Symbol", "SimpleSymbol", "PredefSymbol", "Identifier", "Qual_identifer",
                        "Spec_constant", "Numeral", "Decimal", "String_"}
  <1>1. \A a \in symbol : a.body \in Bodies /\ a.label \in Labels
    BY DEF symbol, Only, Alt
  <1>2. \A a \in simpleSymbol : a.body \in Bodies /\ a.label \in Labels
    BY DEF simpleSymbol, Alt
  <1>3. \A a \in predefSymbol \cup numeral \cup decimal \cup string_ : a.body \in Bodies /\ a.label \in Labels
    BY DEF predefSymbol, numeral, decimal, string_, Only, Alt
  <1>4. \A a \in identifier \cup qual_identifer : a.body \in Bodies /\ a.label \in Labels
    BY DEF identifier, qual_identifer, Only, Alt
  <1>5. \A a \in spec_constant : a.body \in Bodies /\ a.label \in Labels
    BY DEF spec_constant, Alt
  <1>6. Rules[r] \in {symbol, simpleSymbol, predefSymbol, identifier, qual_identifer, spec_constant,
                      numeral, decimal, string_}
    BY DEF Rules, Neutral
  <1>7. alt.body \in Bodies /\ alt.label \in Labels
    BY <1>1, <1>2, <1>3, <1>4, <1>5, <1>6
  <1>8. \A b \in Bodies : b \in Seq(Names) /\ \A i \in 1..Len(b) : b[i] \in Neutral
    <2>1. <<>> \in Seq(Names) /\ \A i \in 1..Len(<<>>) : <<>>[i] \in Neutral
      OBVIOUS
    <2>2. \A x \in Neutral : <<x>> \in Seq(Names) /\ \A i \in 1..Len(<<x>>) : <<x>>[i] \in Neutral
      <3> TAKE x \in Neutral
      <3>1. x \in Names
        BY DEF Names
      <3>2. PICK s : s = <<x>>
        OBVIOUS
      <3>3. s \in Seq(Names) /\ Len(s) = 1 /\ s[1] = x
        BY <3>1, <3>2
      <3> QED BY <3>2, <3>3
    <2>3. \A b \in Bodies : b = <<>> \/ \E x \in Neutral : b = <<x>>
      BY DEF Neutral
    <2> QED BY <2>1, <2>2, <2>3, Zenon
  <1>9. Labels \cap Handled = {}
    BY DEF Handled
  <1> HIDE DEF Bodies, Labels
  <1> QED BY <1>7, <1>8, <1>9

\* How many arguments an application has.
LEMMA Arguments ==
  ASSUME NEW n \in Nat, NEW c, c.body = <<"qual_identifer">> \o Times("term", n)
  PROVE  /\ Children(c, "term") = n
         /\ Len(c.body) = n + 1 /\ c.body \in Seq(Names) /\ c.body[1] = "qual_identifer"
         /\ \A i \in 2..n + 1 : c.body[i] = "term"
  <1> DEFINE q == <<"qual_identifer">>
             T == Times("term", n)
  <1>1. q \in Seq(Names) /\ Len(q) = 1 /\ q[1] = "qual_identifer"
    BY DEF Names, Neutral
  <1>2. T \in Seq(Names) /\ Len(T) = n /\ \A i \in 1..n : T[i] = "term"
    <2>1. "term" \in Names
      BY DEF Names, Making
    <2>2. T \in [1..n -> Names]
      BY <2>1 DEF Times
    <2>3. T \in Seq(Names)
      BY <2>2, SeqDef
    <2> QED BY <2>3 DEF Times
  <1> HIDE DEF q, T
  <1>3. PICK C : C = q \o T
    OBVIOUS
  <1>4. /\ C \in Seq(Names) /\ Len(C) = 1 + n
        /\ \A i \in 1..1 + n : C[i] = IF i <= 1 THEN q[i] ELSE T[i - 1]
    <2>1. /\ q \o T \in Seq(Names) /\ Len(q \o T) = Len(q) + Len(T)
          /\ \A i \in 1..Len(q) + Len(T) : (q \o T)[i] = IF i <= Len(q) THEN q[i] ELSE T[i - Len(q)]
      BY <1>1, <1>2, Cat, Zenon
    <2> QED BY <1>1, <1>2, <1>3, <2>1
  <1>5. C[1] = "qual_identifer" /\ \A i \in 2..n + 1 : C[i] = "term"
    BY <1>1, <1>2, <1>4
  <1>6. {i \in DOMAIN C : C[i] = "term"} = 2..n + 1
    <2>1. DOMAIN C = 1..n + 1
      BY <1>4
    <2> QED BY <1>5, <2>1
  <1>7. Cardinality(2..n + 1) = n
    <2>1. Cardinality(2..n + 1) = IF 2 > n + 1 THEN 0 ELSE n + 1 - 2 + 1
      BY FS_Interval
    <2> QED BY <2>1
  <1>8. c.body = C
    BY <1>3 DEF q, T
  <1>9. Children(c, "term") = n
    <2>1. Children(c, "term") = Cardinality({i \in DOMAIN C : C[i] = "term"})
      BY <1>8 DEF Children
    <2> QED BY <1>6, <1>7, <2>1
  <1>10. C \in Seq(Names) /\ Len(C) = n + 1
    BY <1>4
  <1> QED BY <1>5, <1>8, <1>9, <1>10, Zenon

\* A literal and a name have no terms below them.
LEMMA NoArguments ==
  ASSUME NEW c, c.body \in {<<"spec_constant">>, <<"qual_identifer">>}
  PROVE  Children(c, "term") = 0
  <1>1. {i \in DOMAIN c.body : c.body[i] = "term"} = {}
    <2>1. PICK b : b = c.body
      OBVIOUS
    <2>2. DOMAIN b = 1..1 /\ b[1] # "term"
      <3>1. CASE b = <<"spec_constant">>
        BY <3>1
      <3>2. CASE b = <<"qual_identifer">>
        BY <3>2
      <3> QED BY <2>1, <3>1, <3>2
    <2>3. {i \in DOMAIN b : b[i] = "term"} = {}
      BY <2>2
    <2> QED BY <2>1, <2>3
  <1> QED BY <1>1, FS_EmptySet DEF Children

\* A quotient has two.
LEMMA TwoArguments ==
  ASSUME NEW c, c.body = <<"qual_identifer", "term", "term">>
  PROVE  Children(c, "term") = 2
  <1>1. {i \in DOMAIN c.body : c.body[i] = "term"} = 2..3
    <2>1. PICK b : b = c.body
      OBVIOUS
    <2>2. DOMAIN b = 1..3 /\ b[1] = "qual_identifer" /\ b[2] = "term" /\ b[3] = "term"
      BY <2>1
    <2>3. {i \in DOMAIN b : b[i] = "term"} = 2..3
      BY <2>2
    <2> QED BY <2>1, <2>3
  <1>2. Cardinality(2..3) = 2
    <2>1. Cardinality(2..3) = IF 2 > 3 THEN 0 ELSE 3 - 2 + 1
      <3>1. 2 \in Int /\ 3 \in Int
        OBVIOUS
      <3> QED BY <3>1, FS_Interval, Zenon
    <2> QED BY <2>1
  <1> QED BY <1>1, <1>2 DEF Children

\* The terms of an answer without negative numbers: of their sort, and a quotient only
\* outermost.
LEMMA SortedTerm ==
  ASSUME ~Negatives, NEW alt \in term, Sorted(alt)
  PROVE  /\ alt.label = "Term" /\ alt.tokens \in Nat
         /\ \/ SortOfTerm = "Bool" /\ alt.body = <<"qual_identifer">>
            \/ SortOfTerm # "Bool" /\ alt.body = <<"spec_constant">>
            \/ /\ SortOfTerm = "Real" /\ alt.body = <<"qual_identifer", "term", "term">>
               /\ \A i \in Around : Children(walk[i], "term") = 1
  <1>1. alt.label = "Term" /\ alt.tokens \in Nat
    BY DEF term, Alt
  <1>2. \/ alt.body \in {<<"spec_constant">>, <<"qual_identifer">>}
        \/ \E n \in Nat \ {0} : alt.body = <<"qual_identifer">> \o Times("term", n)
    BY MaxRepeatAssumption DEF term, Alt, Many
  <1>3. CASE SortOfTerm = "Bool"
    BY <1>1, <1>3 DEF Sorted
  <1>4. CASE SortOfTerm # "Bool" /\ Children(alt, "term") = 0
    BY <1>1, <1>4 DEF Sorted
  <1>5. CASE SortOfTerm # "Bool" /\ Children(alt, "term") # 0
    <2>1. Children(alt, "term") = 2 /\ SortOfTerm = "Real" /\ \A i \in Around : Children(walk[i], "term") = 1
      BY <1>5 DEF Sorted
    <2>2. PICK n \in Nat \ {0} : alt.body = <<"qual_identifer">> \o Times("term", n)
      BY <1>2, <1>5, NoArguments
    <2>3. n = 2 /\ Len(alt.body) = 3 /\ alt.body \in Seq(Names) /\ alt.body[1] = "qual_identifer"
          /\ \A i \in 2..3 : alt.body[i] = "term"
      <3>1. /\ Children(alt, "term") = n /\ Len(alt.body) = n + 1 /\ alt.body \in Seq(Names)
            /\ alt.body[1] = "qual_identifer" /\ \A i \in 2..n + 1 : alt.body[i] = "term"
        BY <2>2, Arguments
      <3>2. n = 2
        BY <2>1, <3>1
      <3> QED BY <3>1, <3>2
    <2>4. alt.body = <<"qual_identifer", "term", "term">>
      BY <2>3
    <2> QED BY <1>1, <2>1, <2>4
  <1> QED BY <1>3, <1>4, <1>5

\* What is left of the answer goes with the stack.
Shaped == \E k, s : Left(walk, k, s) /\ Defining(s)

\* The exit that a rule with a handler leaves behind.
ExitOf(alt) == IF alt.label \in Handled THEN <<Exit(alt, Len(stack))>> ELSE <<>>

\* Enter, without its budget.
Entered(alt) == walk' = (Parsed(alt.body) \o ExitOf(alt)) \o Tail(walk)
\* Shaped, with the stack of before, which entering a rule does not change.
Goes == \E k, t : Left(walk', k, t) /\ Defining(t)

\* The stack has a length, whatever is being defined.
LEMMA StackLength ==
  ASSUME NEW s, Defining(s)
  PROVE  Len(stack) \in Nat
  <1>1. Outside(s) => Len(stack) \in Nat
    BY DEF Outside
  <1>2. \A id, n : Named(s, id, n) \/ Typed(s, id, n) => Len(stack) \in Nat
    BY DEF Named, Typed
  <1>3. \A id, n, a : Operand(s, id, n, a) => Len(stack) \in Nat
    BY DEF Operand
  <1>4. \A id, n, a, b : Operands(s, id, n, a, b) => Len(stack) \in Nat
    BY DEF Operands
  <1>5. \A id, n, t, d : Valued(s, id, n, t, d) => Len(stack) \in Nat
    BY DEF Valued
  <1> QED BY <1>1, <1>2, <1>3, <1>4, <1>5, Zenon DEF Defining, InMaking

\* An exit is an item of its context.
LEMMA ExitIsItem ==
  ASSUME NEW alt, alt.label \in Handled, alt.tokens \in Nat, alt.body \in Seq(Names), Len(stack) \in Nat
  PROVE  \E e \in Items : /\ ExitOf(alt) = <<e>> /\ ~e.enter /\ e.of = alt.label /\ e.body = alt.body
  <1>1. Exit(alt, Len(stack)) \in Items
    BY DEF Exit, Items
  <1>2. ExitOf(alt) = <<Exit(alt, Len(stack))>>
    BY DEF ExitOf
  <1>3. LET e == Exit(alt, Len(stack)) IN ~e.enter /\ e.of = alt.label /\ e.body = alt.body
    BY DEF Exit
  <1> QED BY <1>1, <1>2, <1>3, Zenon

\* A body of one rule is parsed into one item.
LEMMA OneBody ==
  ASSUME NEW r \in Names, NEW body, body = <<r>>
  PROVE  /\ body \in Seq(Names) /\ Parsed(body) \in Seq(Items) /\ Len(Parsed(body)) = 1
         /\ Parsed(body)[1] = Rule(r)
  <1>1. body \in Seq(Names) /\ Len(body) = 1 /\ body[1] = r
    OBVIOUS
  <1>2. /\ Parsed(body) \in Seq(Items) /\ Len(Parsed(body)) = Len(body)
        /\ \A i \in 1..Len(body) : Parsed(body)[i] = Rule(body[i])
    BY <1>1, ParsedItems, Zenon
  <1>3. 1 \in 1..Len(body)
    BY <1>1
  <1> QED BY <1>1, <1>2, <1>3, Zenon

\* Rules before a definition.
LEMMA OuterAlts ==
  ASSUME NEW r \in Outer \cup {"model_response", "cmd_defineFun"}, NEW alt \in Rules[r]
  PROVE  /\ alt.label \notin Handled
         /\ \/ \E q \in {"string_"} \cup Outer \cup {"cmd_defineFun", "function_def"} : alt.body = <<q>>
            \/ \E n \in Nat : alt.body = Times("model_response", n)
  <1>1. CASE r = "start"
    BY <1>1 DEF Rules, start, Only, Alt, Handled, Outer
  <1>2. CASE r = "general_response"
    BY <1>2 DEF Rules, general_response, Alt, Handled, Outer
  <1>3. CASE r = "specific_success_response"
    BY <1>3 DEF Rules, specific_success_response, Only, Alt, Handled, Outer
  <1>4. CASE r = "get_model_response"
    <2>1. alt \in get_model_response
      BY <1>4 DEF Rules
    <2>2. PICK word \in Maybe, n \in Many : alt = Alt("Get_model_response", 2 + word, Times("model_response", n), Extra(word) + Extra(n))
      BY <2>1 DEF get_model_response
    <2>3. n \in Nat /\ alt.body = Times("model_response", n) /\ alt.label = "Get_model_response"
      BY <2>2, MaxRepeatAssumption DEF Many, Alt
    <2> QED BY <2>3 DEF Handled
  <1>5. CASE r = "model_response"
    BY <1>5 DEF Rules, model_response, Only, Alt, Handled
  <1>6. CASE r = "cmd_defineFun"
    BY <1>6 DEF Rules, cmd_defineFun, Only, Alt, Handled
  <1> QED BY <1>1, <1>2, <1>3, <1>4, <1>5, <1>6 DEF Outer

\* Entering a rule on the way to a definition.
LEMMA EnterOuter ==
  ASSUME NEW r \in Outer \cup {"model_response", "cmd_defineFun"}, NEW alt \in Rules[r],
         Left(walk, 0, <<r>>), stack = <<>>, meant = <<>>, Entered(alt)
  PROVE  Goes
  <1>1. ExitOf(alt) = <<>>
    BY OuterAlts DEF ExitOf
  <1>2. CASE \E q \in {"string_"} \cup Outer \cup {"cmd_defineFun", "function_def"} : alt.body = <<q>>
    <2>1. PICK q \in {"string_"} \cup Outer \cup {"cmd_defineFun", "function_def"} : alt.body = <<q>>
      BY <1>2
    <2>2. q \in Names /\ (q \in Neutral \/ q \in Outer \cup Making) /\ (q = "string_" => q \in Neutral)
      BY DEF Names, Neutral, Outer, Making
    <2>3. /\ Parsed(alt.body) \in Seq(Items) /\ Len(Parsed(alt.body)) = 1 /\ Parsed(alt.body)[1] = Rule(q)
      BY <2>1, <2>2, OneBody
    <2>4. /\ q \in Neutral => Left(walk', 1, <<>>)
          /\ q \in Outer \cup Making => Left(walk', 0, <<q>>)
      BY <1>1, <2>2, <2>3, OneRule DEF Entered
    <2>5. Defining(<<>>) /\ (q # "string_" => Defining(<<q>>))
      BY DEF Defining, InMaking, Outside
    <2> QED BY <2>2, <2>4, <2>5 DEF Goes
  <1>3. CASE \E n \in Nat : alt.body = Times("model_response", n)
    <2>1. PICK n \in Nat : alt.body = Times("model_response", n)
      BY <1>3
    <2>2. alt.body \in Seq(Names) /\ \A i \in 1..Len(alt.body) : alt.body[i] = "model_response"
      <3>1. "model_response" \in Names
        BY DEF Names, Making
      <3>2. Times("model_response", n) \in [1..n -> Names]
        BY <3>1 DEF Times
      <3>3. Times("model_response", n) \in Seq(Names)
        BY <3>2, SeqDef
      <3> QED BY <2>1, <3>3 DEF Times
    <2>3. Parsed(alt.body) \in Seq(Items) /\ \A i \in 1..Len(Parsed(alt.body)) : Parsed(alt.body)[i] = Rule("model_response")
      BY <2>2, ParsedItems
    <2>4. Left(walk', 0, <<>>)
      BY <1>1, <2>3, Listed DEF Entered
    <2>5. Defining(<<>>)
      BY DEF Defining, InMaking, Outside
    <2> QED BY <2>4, <2>5 DEF Goes
  <1> QED BY <1>2, <1>3, OuterAlts

\* Entering a definition.
LEMMA EnterFunction ==
  ASSUME NEW alt \in Rules.function_def, Left(walk, 0, <<"function_def">>), stack = <<>>, meant = <<>>,
         Entered(alt)
  PROVE  Goes
  <1>1. alt.label = "Function_def" /\ alt.tokens = 2 /\ alt.body = <<"variable", "sort", "term">>
    BY DEF Rules, function_def, Only, Alt
  <1>2. PICK body : body = <<"variable", "sort", "term">>
    OBVIOUS
  <1>3. body \in Seq(Names) /\ Len(body) = 3 /\ body[1] = "variable" /\ body[2] = "sort" /\ body[3] = "term"
    BY <1>2 DEF Names, Making
  <1>4. /\ Parsed(body) \in Seq(Items) /\ Len(Parsed(body)) = 3
        /\ Parsed(body)[1] = Rule("variable") /\ Parsed(body)[2] = Rule("sort") /\ Parsed(body)[3] = Rule("term")
    <2>1. 1 \in 1..3 /\ 2 \in 1..3 /\ 3 \in 1..3
      OBVIOUS
    <2>2. /\ Parsed(body) \in Seq(Items) /\ Len(Parsed(body)) = Len(body)
          /\ \A i \in 1..Len(body) : Parsed(body)[i] = Rule(body[i])
      BY <1>3, ParsedItems, Zenon
    <2> QED BY <1>3, <2>1, <2>2, Zenon
  <1>5. PICK e \in Items : ExitOf(alt) = <<e>> /\ ~e.enter /\ e.of = "Function_def"
    <2>1. Len(stack) \in Nat
      OBVIOUS
    <2>2. alt.body \in Seq(Names)
      BY <1>1, <1>2, <1>3
    <2>3. alt.label \in Handled /\ alt.tokens \in Nat
      BY <1>1 DEF Handled
    <2>4. \E e \in Items : ExitOf(alt) = <<e>> /\ ~e.enter /\ e.of = alt.label /\ e.body = alt.body
      BY <2>1, <2>2, <2>3, ExitIsItem, Zenon
    <2> QED BY <1>1, <2>4
  <1>6. Is(e, "Function_def")
    BY <1>5 DEF Is, IsExit
  <1>7. Left(walk', 0, <<"variable", "sort", "term", "Function_def">>)
    BY <1>1, <1>2, <1>4, <1>5, <1>6, Opened DEF Entered
  <1>8. Defining(<<"variable", "sort", "term", "Function_def">>)
    BY DEF Defining, InMaking, Outside
  <1> QED BY <1>7, <1>8 DEF Goes

\* A rule with a handler and one rule under it.
LEMMA EnterHandled ==
  ASSUME NEW alt, NEW r \in Neutral, alt.body = <<r>>, alt.label \in Handled, alt.tokens \in Nat,
         NEW s, Left(walk, 0, s), s # <<>>, Entered(alt), Len(stack) \in Nat,
         NEW t \in Seq(Tags), Len(t) = Len(s), \A i \in 2..Len(s) : t[i] = s[i],
         \A e : ~e.enter /\ e.of = alt.label /\ e.body = alt.body => Is(e, t[1])
  PROVE  Left(walk', 1, t)
  <1>1. r \in Names
    BY DEF Names
  <1>2. /\ alt.body \in Seq(Names) /\ Parsed(alt.body) \in Seq(Items) /\ Len(Parsed(alt.body)) = 1
        /\ Parsed(alt.body)[1] = Rule(r)
    BY <1>1, OneBody
  <1>3. PICK e \in Items : ExitOf(alt) = <<e>> /\ ~e.enter /\ e.of = alt.label /\ e.body = alt.body
    BY <1>2, ExitIsItem
  <1>4. Is(e, t[1])
    BY <1>3
  <1>5. PICK X : X = ExitOf(alt)
    OBVIOUS
  <1>6. walk' = (Parsed(alt.body) \o X) \o Tail(walk)
    BY <1>5 DEF Entered
  <1>7. Left((Parsed(alt.body) \o X) \o Tail(walk), 1, t)
    BY <1>2, <1>3, <1>4, <1>5, OneAndExit
  <1> QED BY <1>6, <1>7

\* Entering the variable of a definition.
LEMMA EnterVariable ==
  ASSUME NEW alt \in Rules.variable, NEW s, Left(walk, 0, s), Defining(s), s # <<>>, s[1] = "variable",
         Entered(alt)
  PROVE  Goes
  <1>1. alt.label = "Variable" /\ alt.tokens = 0 /\ alt.body = <<"symbol">>
    BY DEF Rules, variable, Only, Alt
  <1>2. stack = <<>> /\ meant = <<>> /\ s = <<"variable", "sort", "term", "Function_def">>
    BY Stages DEF Outside
  <1>3. PICK t : t = <<"Variable", "sort", "term", "Function_def">>
    OBVIOUS
  <1>4. t \in Seq(Tags) /\ Len(t) = Len(s) /\ t[1] = "Variable" /\ \A i \in 2..Len(s) : t[i] = s[i]
    <2>1. /\ t \in Seq(Tags) /\ Len(t) = 4
          /\ t[1] = "Variable" /\ t[2] = "sort" /\ t[3] = "term" /\ t[4] = "Function_def"
      BY <1>3 DEF Tags, Making
    <2>2. Len(s) = 4 /\ s[2] = "sort" /\ s[3] = "term" /\ s[4] = "Function_def"
      BY <1>2
    <2>3. \A i \in 2..4 : i = 2 \/ i = 3 \/ i = 4
      OBVIOUS
    <2> QED BY <2>1, <2>2, <2>3
  <1>5. \A e : ~e.enter /\ e.of = alt.label /\ e.body = alt.body => Is(e, t[1])
    BY <1>1, <1>4 DEF Is, IsExit
  <1>6. "symbol" \in Neutral /\ alt.label \in Handled /\ alt.tokens \in Nat /\ Len(stack) \in Nat
    BY <1>1, <1>2 DEF Neutral, Handled
  <1>7. Left(walk', 1, t)
    BY <1>1, <1>4, <1>5, <1>6, EnterHandled
  <1>8. Defining(t)
    BY <1>2, <1>3 DEF Defining, InMaking, Outside
  <1> QED BY <1>7, <1>8 DEF Goes

\* Entering its sort.
LEMMA EnterSort ==
  ASSUME NEW alt \in Rules.sort, NEW s, Left(walk, 0, s), Defining(s), s # <<>>, s[1] = "sort",
         Entered(alt)
  PROVE  Goes
  <1>1. alt.label = "Sort" /\ alt.tokens = 0 /\ alt.body = <<"identifier">>
    BY DEF Rules, sort, Only, Alt
  <1>2. s = <<"sort", "term", "Function_def">> /\ \E id, n : Pending(id, n) /\ Named(s, id, n)
    BY Stages
  <1>3. PICK t : t = <<"Sort", "term", "Function_def">>
    OBVIOUS
  <1>4. t \in Seq(Tags) /\ Len(t) = Len(s) /\ t[1] = "Sort" /\ \A i \in 2..Len(s) : t[i] = s[i]
    <2>1. /\ t \in Seq(Tags) /\ Len(t) = 3 /\ t[1] = "Sort" /\ t[2] = "term" /\ t[3] = "Function_def"
      BY <1>3 DEF Tags, Making
    <2>2. Len(s) = 3 /\ s[2] = "term" /\ s[3] = "Function_def"
      BY <1>2
    <2>3. \A i \in 2..3 : i = 2 \/ i = 3
      OBVIOUS
    <2> QED BY <2>1, <2>2, <2>3
  <1>5. \A e : ~e.enter /\ e.of = alt.label /\ e.body = alt.body => Is(e, t[1])
    BY <1>1, <1>4 DEF Is, IsExit
  <1>6. "identifier" \in Neutral /\ alt.label \in Handled /\ alt.tokens \in Nat
    BY <1>1 DEF Neutral, Handled
  <1>9. Len(stack) \in Nat
    BY StackLength
  <1>7. Left(walk', 1, t)
    BY <1>1, <1>4, <1>5, <1>6, <1>9, EnterHandled
  <1>8. Defining(t)
    BY <1>2, <1>3 DEF Defining, InMaking, Named
  <1> QED BY <1>7, <1>8 DEF Goes

\* An operand of a quotient is inside the quotient's term.
LEMMA InsideQuotient ==
  ASSUME NEW s, Left(walk, 0, s),
         s \in {<<"term", "term", "quotient", "Function_def">>, <<"term", "quotient", "Function_def">>}
  PROVE  \E i \in Around : Children(walk[i], "term") = 2
  <1>1. PICK m \in Nat : m = Len(s)
    BY DEF Left
  <1>2. walk \in Seq(Items) /\ m <= Len(walk) /\ \A i \in 1..m : Is(walk[0 + i], s[i])
    BY <1>1 DEF Left
  <1>3. PICK q \in 2..3 : q <= m /\ s[q] = "quotient" /\ \A j \in 2..q : s[j] \in {"term", "quotient"}
    <2>1. CASE s = <<"term", "term", "quotient", "Function_def">>
      <3>1. m = 4 /\ s[2] = "term" /\ s[3] = "quotient" /\ 3 \in 2..3 /\ \A j \in 2..3 : j = 2 \/ j = 3
        BY <1>1, <2>1
      <3>2. 3 <= m /\ \A j \in 2..3 : s[j] \in {"term", "quotient"}
        BY <3>1
      <3> QED BY <3>1, <3>2
    <2>2. CASE s = <<"term", "quotient", "Function_def">>
      <3>1. m = 3 /\ s[2] = "quotient" /\ 2 \in 2..3 /\ \A j \in 2..2 : j = 2
        BY <1>1, <2>2
      <3>2. 2 <= m /\ \A j \in 2..2 : s[j] \in {"term", "quotient"}
        BY <3>1
      <3> QED BY <3>1, <3>2
    <2> QED BY <2>1, <2>2
  <1>4. \A j \in 2..q : Is(walk[j], s[j])
    <2> TAKE j \in 2..q
    <2>1. j \in 1..m /\ 0 + j = j
      BY <1>3
    <2> QED BY <1>2, <2>1
  <1>5. walk[q].of = "Term" /\ walk[q].body = <<"qual_identifer", "term", "term">>
    <2>1. q \in 2..q
      OBVIOUS
    <2>2. PICK x : x = walk[q]
      OBVIOUS
    <2>3. Is(x, "quotient")
      BY <1>3, <1>4, <2>1, <2>2
    <2>4. x.of = "Term" /\ x.body = <<"qual_identifer", "term", "term">>
      BY <2>3 DEF Is, Outer, Making
    <2> QED BY <2>2, <2>4
  <1>6. \A j \in 2..q : walk[j].of # "Function_def"
    <2> TAKE j \in 2..q
    <2>1. PICK x : x = walk[j]
      OBVIOUS
    <2>2. Is(x, "term") \/ Is(x, "quotient")
      BY <1>3, <1>4, <2>1
    <2>3. x.of # "Function_def"
      BY <2>2 DEF Is, Outer, Making, Rule
    <2> QED BY <2>1, <2>3
  <1>7. q \in 2..Len(walk)
    BY <1>2, <1>3
  <1>8. q \in Around
    BY <1>5, <1>6, <1>7 DEF Around
  <1>9. Children(walk[q], "term") = 2
    BY <1>5, TwoArguments
  <1> QED BY <1>8, <1>9

\* Entering a term: of the definition, or an operand of a quotient.
LEMMA EnterTerm ==
  ASSUME ~Negatives, NEW alt \in Rules.term, NEW s, Left(walk, 0, s), Defining(s), s # <<>>, s[1] = "term",
         alt.label = "Term" => Sorted(alt), Entered(alt)
  PROVE  Goes
  <1>1. PICK id, n : Pending(id, n) /\ (Typed(s, id, n) \/ \E a : Operand(s, id, n, a))
    BY Stages
  <1>2. SortOfTerm = Sort[id]
    BY <1>1 DEF SortOfTerm, Typed, Operand, Var
  <1>3. alt \in term
    BY DEF Rules
  <1>4. alt.label = "Term" /\ alt.tokens \in Nat
    BY <1>3 DEF term, Alt
  <1>5. \/ Sort[id] = "Bool" /\ alt.body = <<"qual_identifer">>
        \/ Sort[id] # "Bool" /\ alt.body = <<"spec_constant">>
        \/ /\ Sort[id] = "Real" /\ alt.body = <<"qual_identifer", "term", "term">>
           /\ \A i \in Around : Children(walk[i], "term") = 1
    BY <1>2, <1>3, <1>4, SortedTerm
  <1>6. Len(stack) \in Nat
    BY StackLength
  <1>7. s \in {<<"term", "Function_def">>, <<"term", "term", "quotient", "Function_def">>,
               <<"term", "quotient", "Function_def">>}
    BY <1>1 DEF Typed, Operand
  <1>8. "qual_identifer" \in Neutral /\ "spec_constant" \in Neutral /\ alt.label \in Handled
    BY <1>4 DEF Neutral, Handled
  <1>9. CASE Sort[id] = "Bool" /\ alt.body = <<"qual_identifer">>
    <2>1. s = <<"term", "Function_def">> /\ Typed(s, id, n)
      BY <1>1, <1>9 DEF Typed, Operand
    <2>2. PICK t : t = <<"boolean", "Function_def">>
      OBVIOUS
    <2>3. t \in Seq(Tags) /\ Len(t) = Len(s) /\ t[1] = "boolean" /\ \A i \in 2..Len(s) : t[i] = s[i]
      <3>1. t \in Seq(Tags) /\ Len(t) = 2 /\ t[1] = "boolean" /\ t[2] = "Function_def"
        BY <2>2 DEF Tags
      <3>2. Len(s) = 2 /\ s[2] = "Function_def" /\ \A i \in 2..2 : i = 2
        BY <2>1
      <3> QED BY <3>1, <3>2
    <2>4. \A e : ~e.enter /\ e.of = alt.label /\ e.body = alt.body => Is(e, t[1])
      BY <1>4, <1>9, <2>3 DEF Is, IsExit
    <2>5. Left(walk', 1, t)
      BY <1>4, <1>6, <1>8, <1>9, <2>3, <2>4, EnterHandled
    <2>6. Typed(t, id, n)
      BY <1>9, <2>1, <2>2 DEF Typed
    <2> QED BY <1>1, <2>5, <2>6 DEF Goes, Defining, InMaking
  <1>10. CASE Sort[id] # "Bool" /\ alt.body = <<"spec_constant">>
    <2>1. PICK t \in Seq(Tags) : /\ Len(t) = Len(s) /\ t[1] = "literal" /\ \A i \in 2..Len(s) : t[i] = s[i]
                                 /\ Typed(s, id, n) => Typed(t, id, n)
                                 /\ \A a : Operand(s, id, n, a) => Operand(t, id, n, a)
      <3>1. CASE s = <<"term", "Function_def">>
        <4>1. PICK t : t = <<"literal", "Function_def">>
          OBVIOUS
        <4>2. t \in Seq(Tags) /\ Len(t) = 2 /\ t[1] = "literal" /\ t[2] = "Function_def"
          BY <4>1 DEF Tags
        <4>3. Len(s) = 2 /\ s[2] = "Function_def" /\ \A i \in 2..2 : i = 2
          BY <3>1
        <4>4. /\ Typed(s, id, n) => Typed(t, id, n)
              /\ \A a : Operand(s, id, n, a) => Operand(t, id, n, a)
          BY <1>10, <3>1, <4>1 DEF Typed, Operand
        <4> QED BY <4>2, <4>3, <4>4
      <3>2. CASE s = <<"term", "term", "quotient", "Function_def">>
        <4>1. PICK t : t = <<"literal", "term", "quotient", "Function_def">>
          OBVIOUS
        <4>2. t \in Seq(Tags) /\ Len(t) = 4 /\ t[1] = "literal" /\ t[2] = "term" /\ t[3] = "quotient" /\ t[4] = "Function_def"
          BY <4>1 DEF Tags, Making
        <4>3. Len(s) = 4 /\ s[2] = "term" /\ s[3] = "quotient" /\ s[4] = "Function_def"
              /\ \A i \in 2..4 : i = 2 \/ i = 3 \/ i = 4
          BY <3>2
        <4>4. /\ Typed(s, id, n) => Typed(t, id, n)
              /\ \A a : Operand(s, id, n, a) => Operand(t, id, n, a)
          BY <1>10, <3>2, <4>1 DEF Typed, Operand
        <4> QED BY <4>2, <4>3, <4>4
      <3>3. CASE s = <<"term", "quotient", "Function_def">>
        <4>1. PICK t : t = <<"literal", "quotient", "Function_def">>
          OBVIOUS
        <4>2. t \in Seq(Tags) /\ Len(t) = 3 /\ t[1] = "literal" /\ t[2] = "quotient" /\ t[3] = "Function_def"
          BY <4>1 DEF Tags, Making
        <4>3. Len(s) = 3 /\ s[2] = "quotient" /\ s[3] = "Function_def" /\ \A i \in 2..3 : i = 2 \/ i = 3
          BY <3>3
        <4>4. /\ Typed(s, id, n) => Typed(t, id, n)
              /\ \A a : Operand(s, id, n, a) => Operand(t, id, n, a)
          BY <1>10, <3>3, <4>1 DEF Typed, Operand
        <4> QED BY <4>2, <4>3, <4>4
      <3> QED BY <1>7, <3>1, <3>2, <3>3
    <2>2. \A e : ~e.enter /\ e.of = alt.label /\ e.body = alt.body => Is(e, t[1])
      BY <1>4, <1>10, <2>1 DEF Is, IsExit
    <2>3. Left(walk', 1, t)
      BY <1>4, <1>6, <1>8, <1>10, <2>1, <2>2, EnterHandled
    <2>4. Defining(t)
      BY <1>1, <2>1, Zenon DEF Defining, InMaking
    <2> QED BY <2>3, <2>4 DEF Goes
  <1>11. CASE /\ Sort[id] = "Real" /\ alt.body = <<"qual_identifer", "term", "term">>
              /\ \A i \in Around : Children(walk[i], "term") = 1
    <2>1. s = <<"term", "Function_def">> /\ Typed(s, id, n)
      <3>1. ~(s \in {<<"term", "term", "quotient", "Function_def">>, <<"term", "quotient", "Function_def">>})
        <4> SUFFICES ASSUME s \in {<<"term", "term", "quotient", "Function_def">>,
                                   <<"term", "quotient", "Function_def">>}
                     PROVE  FALSE
          OBVIOUS
        <4>1. PICK i \in Around : Children(walk[i], "term") = 2
          BY InsideQuotient
        <4> QED BY <1>11, <4>1
      <3>2. s = <<"term", "Function_def">>
        BY <1>7, <3>1
      <3> QED BY <1>1, <3>2 DEF Operand
    <2>2. PICK body : body = alt.body
      OBVIOUS
    <2>3. /\ body \in Seq(Names) /\ Len(body) = 3
          /\ body[1] = "qual_identifer" /\ body[2] = "term" /\ body[3] = "term"
      BY <1>11, <2>2 DEF Names, Neutral, Making
    <2>4. /\ Parsed(body) \in Seq(Items) /\ Len(Parsed(body)) = 3
          /\ Parsed(body)[1] = Rule("qual_identifer") /\ Parsed(body)[2] = Rule("term") /\ Parsed(body)[3] = Rule("term")
      <3>1. 1 \in 1..3 /\ 2 \in 1..3 /\ 3 \in 1..3
        OBVIOUS
      <3>2. /\ Parsed(body) \in Seq(Items) /\ Len(Parsed(body)) = Len(body)
            /\ \A i \in 1..Len(body) : Parsed(body)[i] = Rule(body[i])
        BY <2>3, ParsedItems, Zenon
      <3> QED BY <2>3, <3>1, <3>2, Zenon
    <2>5. PICK e \in Items : ExitOf(alt) = <<e>> /\ ~e.enter /\ e.of = alt.label /\ e.body = alt.body
      BY <1>4, <1>6, <1>8, <2>2, <2>3, ExitIsItem, Zenon
    <2>6. Is(e, "quotient")
      BY <1>4, <1>11, <2>5 DEF Is, IsExit
    <2>7. PICK X : X = ExitOf(alt)
      OBVIOUS
    <2>8. Left((Parsed(body) \o X) \o Tail(walk), 1, <<"term", "term", "quotient", "Function_def">>)
      <3>1. Left(walk, 0, <<"term", "Function_def">>) /\ X = <<e>>
        BY <2>1, <2>5, <2>7
      <3> QED BY <2>4, <2>6, <3>1, Divided
    <2>9. Left(walk', 1, <<"term", "term", "quotient", "Function_def">>)
      BY <2>2, <2>7, <2>8 DEF Entered
    <2>10. Typed(<<"term", "term", "quotient", "Function_def">>, id, n)
      BY <1>11, <2>1 DEF Typed
    <2> QED BY <1>1, <2>9, <2>10 DEF Goes, Defining, InMaking
  <1> QED BY <1>5, <1>9, <1>10, <1>11

\* What has been said is kept, each version of each variable.
Definitions == [id : Ids, version : Versions, value : Meanings]
\* The value is kept under its variable and version.
KeptIn(res, d) ==
  d.version \in DOMAIN res[d.id] /\ SameValue(res[d.id][d.version], d.value, Sort[d.id])
\* The versions of a variable that have been defined.
VersionsOf(id) == {said[i].version : i \in {j \in DOMAIN said : said[j].id = id}}
\* All that was said is kept, and nothing else.
Told ==
  /\ said \in Seq(Definitions) /\ DOMAIN Results = Ids
  /\ \A i \in 1..Len(said) : KeptIn(Results, said[i])
  /\ \A id \in Ids : DOMAIN Results[id] = VersionsOf(id)

\* Division with a remainder.
LEMMA DivOf ==
  ASSUME NEW x \in Nat, NEW y \in Nat \ {0}
  PROVE  x \div y \in Nat /\ y * (x \div y) <= x /\ x < y * (x \div y) + y
  OBVIOUS

\* A factor is cancelled.
LEMMA Cancel ==
  ASSUME NEW c \in Nat \ {0}, NEW x \in Int, NEW y \in Int, c * x <= c * y
  PROVE  x <= y
  <1> SUFFICES ASSUME x > y PROVE FALSE
    OBVIOUS
  <1>1. PICK d \in Nat : x = y + 1 + d
    <2>1. x - y - 1 \in Nat /\ x = y + 1 + (x - y - 1)
      OBVIOUS
    <2> QED BY <2>1
  <1>2. c * x = c * y + c + c * d
    BY <1>1
  <1>3. c * d \in Nat /\ c * y \in Int
    OBVIOUS
  <1> QED BY <1>2, <1>3

\* The factor that the numbers of Quotient have in common.
LEMMA Spread ==
  ASSUME NEW a \in Nat, NEW b \in Nat, NEW c \in Nat, NEW q \in Nat
  PROVE  /\ 2 * (b * c) * q = c * (2 * (q * b))
         /\ 2 * (a * c) * c + b * c = c * (2 * (a * c) + b)
         /\ 2 * (b * c) * q + 2 * (b * c) = c * (2 * (q * b) + 2 * b)
  OBVIOUS

\* %f rounds a quotient by half a unit at most.
LEMMA Rounded ==
  ASSUME NEW a \in Literals, NEW b \in Literals
  PROVE  LET q == Quotient(a * Scale, b * Scale)
         IN  q \in Nat /\ 2 * (q * b - a * Scale) <= b /\ 2 * (a * Scale - q * b) <= b
  <1>1. a \in Nat \ {0} /\ b \in Nat \ {0} /\ Scale \in Nat \ {0}
    BY SmtListenerAssumption
  <1>2. PICK c \in Nat \ {0} : c = Scale
    BY <1>1
  <1>3. PICK q : q = Quotient(a * Scale, b * Scale)
    OBVIOUS
  <1>4. q = (2 * (a * c) * c + b * c) \div (2 * (b * c))
    BY <1>2, <1>3 DEF Quotient
  <1>5. b * c \in Nat \ {0} /\ 2 * (b * c) \in Nat \ {0} /\ 2 * (a * c) * c + b * c \in Nat
    BY <1>1
  <1>6. /\ q \in Nat /\ 2 * (b * c) * q <= 2 * (a * c) * c + b * c
        /\ 2 * (a * c) * c + b * c < 2 * (b * c) * q + 2 * (b * c)
    BY <1>4, <1>5, DivOf
  <1>7. /\ 2 * (b * c) * q = c * (2 * (q * b))
        /\ 2 * (a * c) * c + b * c = c * (2 * (a * c) + b)
        /\ 2 * (b * c) * q + 2 * (b * c) = c * (2 * (q * b) + 2 * b)
    BY <1>1, <1>6, Spread
  <1>8. PICK x \in Nat, y \in Nat : x = q * b /\ y = a * c
    BY <1>1, <1>6
  <1>9. 2 * x <= 2 * y + b
    <2>1. c * (2 * x) <= c * (2 * y + b)
      BY <1>6, <1>7, <1>8
    <2> QED BY <1>1, <1>8, <2>1, Cancel
  <1>10. 2 * y + b <= 2 * x + 2 * b
    <2>1. c * (2 * y + b) <= c * (2 * x + 2 * b)
      <3>1. c * (2 * y + b) = 2 * (a * c) * c + b * c /\ c * (2 * x + 2 * b) = 2 * (b * c) * q + 2 * (b * c)
        BY <1>7, <1>8
      <3>2. 2 * (a * c) * c + b * c \in Nat /\ 2 * (b * c) * q + 2 * (b * c) \in Nat
        BY <1>5, <1>6
      <3> QED BY <1>6, <3>1, <3>2
    <2> QED BY <1>1, <1>8, <2>1, Cancel
  <1>11. 2 * (x - y) <= b /\ 2 * (y - x) <= b
    BY <1>1, <1>8, <1>9, <1>10
  <1> QED BY <1>2, <1>3, <1>6, <1>8, <1>11

\* Entering a rule keeps the stack and what is left in step.
LEMMA EnterKept ==
  ASSUME ~Negatives, Shaped, Enter
  PROVE  Shaped'
  <1>1. PICK k, s : Left(walk, k, s) /\ Defining(s)
    BY DEF Shaped
  <1>2. walk # <<>> /\ Head(walk).enter /\ UNCHANGED <<stack, meant, said>>
    BY DEF Enter
  <1>3. PICK alt \in Rules[Head(walk).of] : (alt.label = "Term" => Sorted(alt)) /\ Entered(alt)
    BY DEF Enter, Entered, ExitOf
  <1>4. CASE k # 0 /\ \E r \in Neutral : Head(walk) = Rule(r)
    <2>1. PICK r \in Neutral : Head(walk) = Rule(r)
      BY <1>4
    <2>2. alt \in Rules[r]
      BY <1>3, <2>1 DEF Rule
    <2>3. /\ alt.body \in Seq(Names) /\ \A i \in 1..Len(alt.body) : alt.body[i] \in Neutral
          /\ alt.label \notin Handled
      BY <2>2, NeutralAlts
    <2>4. PICK B : B = Parsed(alt.body)
      OBVIOUS
    <2>5. B \in Seq(Items) /\ \A i \in 1..Len(B) : \E q \in Neutral : B[i] = Rule(q)
      <3>1. /\ B \in Seq(Items) /\ Len(B) = Len(alt.body)
            /\ \A i \in 1..Len(alt.body) : B[i] = Rule(alt.body[i])
        BY <2>3, <2>4, ParsedItems, Zenon
      <3> QED BY <2>3, <3>1
    <2>6. ExitOf(alt) = <<>>
      BY <2>3 DEF ExitOf
    <2>7. Left(walk', k - 1 + Len(B), s)
      BY <1>1, <1>3, <1>4, <2>4, <2>5, <2>6, Skipped DEF Entered
    <2>8. Defining(s)'
      BY <1>1, <1>2, DefiningKept
    <2> QED BY <2>7, <2>8 DEF Shaped
  <1>5. ASSUME Goes PROVE Shaped'
    <2>1. PICK j, t : Left(walk', j, t) /\ Defining(t)
      BY <1>5 DEF Goes
    <2>2. Defining(t)'
      BY <1>2, <2>1, DefiningKept
    <2> QED BY <2>1, <2>2 DEF Shaped
  <1>6. CASE k = 0 /\ s = <<>> /\ Head(walk) = Rule("model_response")
    <2>1. Left(walk, 0, <<"model_response">>)
      BY <1>1, <1>2, <1>6, NextDefinition
    <2>2. alt \in Rules["model_response"]
      BY <1>3, <1>6 DEF Rule
    <2>3. stack = <<>> /\ meant = <<>>
      BY <1>1, <1>6 DEF Defining, InMaking, Outside, Named, Typed, Operand, Operands, Valued
    <2> QED BY <1>3, <1>5, <2>1, <2>2, <2>3, EnterOuter
  <1>7. CASE k = 0 /\ s # <<>> /\ Is(Head(walk), s[1])
    <2>1. s[1] \in Outer \cup Making /\ Head(walk) = Rule(s[1])
      BY <1>2, <1>7 DEF Is, IsExit
    <2>2. alt \in Rules[s[1]]
      BY <1>3, <2>1 DEF Rule
    <2>3. CASE s[1] \in Outer \cup {"cmd_defineFun"}
      <3>1. stack = <<>> /\ meant = <<>> /\ s = <<s[1]>>
        BY <1>1, <1>7, <2>3, Stages DEF Outside
      <3>2. PICK r \in Outer \cup {"model_response", "cmd_defineFun"} : r = s[1]
        BY <2>3
      <3>3. Left(walk, 0, <<r>>) /\ alt \in Rules[r]
        BY <1>1, <1>7, <2>2, <3>1, <3>2
      <3> QED BY <1>3, <1>5, <3>1, <3>3, EnterOuter
    <2>4. CASE s[1] = "function_def"
      <3>1. stack = <<>> /\ meant = <<>> /\ s = <<"function_def">>
        BY <1>1, <1>7, <2>4, Stages DEF Outside
      <3>2. alt \in Rules.function_def
        BY <2>2, <2>4
      <3> QED BY <1>1, <1>3, <1>5, <1>7, <3>1, <3>2, EnterFunction
    <2>5. CASE s[1] = "variable"
      BY <1>1, <1>3, <1>5, <1>7, <2>2, <2>5, EnterVariable
    <2>6. CASE s[1] = "sort"
      BY <1>1, <1>3, <1>5, <1>7, <2>2, <2>6, EnterSort
    <2>7. CASE s[1] = "term"
      BY <1>1, <1>3, <1>5, <1>7, <2>2, <2>7, EnterTerm
    <2>8. s[1] # "model_response"
      BY <1>1, <1>7, Stages
    <2> QED BY <2>1, <2>3, <2>4, <2>5, <2>6, <2>7, <2>8 DEF Making
  <1> QED BY <1>1, <1>2, <1>4, <1>6, <1>7, FirstItem

\* An exit is the next that is named, and names its context.
LEMMA AtExit ==
  ASSUME NEW k, NEW s, Left(walk, k, s), NEW label, At(label)
  PROVE  /\ k = 0 /\ s # <<>> /\ walk # <<>>
         /\ label \in {"Variable", "Sort", "Function_def"} => s[1] = label
         /\ label = "Term" => \/ s[1] = "literal" /\ Head(walk).body = <<"spec_constant">>
                              \/ s[1] = "boolean" /\ Head(walk).body = <<"qual_identifer">>
                              \/ s[1] = "quotient" /\ Head(walk).body = <<"qual_identifer", "term", "term">>
  <1>1. walk # <<>> /\ ~Head(walk).enter /\ Head(walk).of = label
    BY DEF At, IsExit
  <1>2. PICK w : w = Head(walk)
    OBVIOUS
  <1>3. Rule("model_response").enter
    BY DEF Rule
  <1>4. k = 0 /\ s # <<>> /\ Is(w, s[1])
    BY <1>1, <1>2, <1>3, FirstItem
  <1>5. \A r : Rule(r).enter
    BY DEF Rule
  <1>6. \/ s[1] \in {"Function_def", "Variable", "Sort"} /\ label = s[1]
        \/ s[1] = "literal" /\ label = "Term" /\ w.body = <<"spec_constant">>
        \/ s[1] = "boolean" /\ label = "Term" /\ w.body = <<"qual_identifer">>
        \/ s[1] = "quotient" /\ label = "Term" /\ w.body = <<"qual_identifer", "term", "term">>
    <2>1. ~w.enter /\ w.of = label
      BY <1>1, <1>2
    <2>2. PICK tag : tag = s[1]
      OBVIOUS
    <2>3. Is(w, tag)
      BY <1>4, <2>2
    <2>4. \A r : w # Rule(r)
      BY <1>5, <2>1
    <2>5. \/ tag \in {"Function_def", "Variable", "Sort"} /\ w.of = tag
          \/ tag = "literal" /\ w.of = "Term" /\ w.body = <<"spec_constant">>
          \/ tag = "boolean" /\ w.of = "Term" /\ w.body = <<"qual_identifer">>
          \/ tag = "quotient" /\ w.of = "Term" /\ w.body = <<"qual_identifer", "term", "term">>
      BY <2>3, <2>4, Zenon DEF Is
    <2> QED BY <2>1, <2>2, <2>5, Zenon
  <1> QED BY <1>1, <1>2, <1>4, <1>6

\* What is left after an exit.
LEMMA AfterExit ==
  /\ Left(walk, 0, <<"Variable", "sort", "term", "Function_def">>) => Left(Tail(walk), 0, <<"sort", "term", "Function_def">>)
  /\ Left(walk, 0, <<"Sort", "term", "Function_def">>) => Left(Tail(walk), 0, <<"term", "Function_def">>)
  /\ Left(walk, 0, <<"literal", "Function_def">>) => Left(Tail(walk), 0, <<"Function_def">>)
  /\ Left(walk, 0, <<"boolean", "Function_def">>) => Left(Tail(walk), 0, <<"Function_def">>)
  /\ Left(walk, 0, <<"literal", "term", "quotient", "Function_def">>)
       => Left(Tail(walk), 0, <<"term", "quotient", "Function_def">>)
  /\ Left(walk, 0, <<"literal", "quotient", "Function_def">>) => Left(Tail(walk), 0, <<"quotient", "Function_def">>)
  /\ Left(walk, 0, <<"quotient", "Function_def">>) => Left(Tail(walk), 0, <<"Function_def">>)
  /\ Left(walk, 0, <<"Function_def">>) => Left(Tail(walk), 0, <<>>)
  <1>1. ASSUME NEW a, Left(walk, 0, <<a>>) PROVE Left(Tail(walk), 0, <<>>)
    <2>1. PICK s : s = <<a>>
      OBVIOUS
    <2>2. PICK t : t = <<>>
      OBVIOUS
    <2>3. s # <<>> /\ Len(s) = 1 /\ t \in Seq(Tags) /\ Len(t) = 0
      BY <2>1, <2>2
    <2>5. Len(t) = Len(s) - 1 /\ \A i \in 1..Len(t) : t[i] = s[i + 1]
      BY <2>3
    <2>6. Left(walk, 0, s)
      BY <1>1, <2>1
    <2>7. Left(Tail(walk), 0, t)
      BY <2>3, <2>5, <2>6, Taken, Zenon
    <2> QED BY <2>2, <2>7
  <1>2. ASSUME NEW a, NEW b \in Tags, Left(walk, 0, <<a, b>>) PROVE Left(Tail(walk), 0, <<b>>)
    <2>1. PICK s : s = <<a, b>>
      OBVIOUS
    <2>2. PICK t : t = <<b>>
      OBVIOUS
    <2>3. s # <<>> /\ Len(s) = 2 /\ t \in Seq(Tags) /\ Len(t) = 1 /\ t[1] = s[2]
      BY <2>1, <2>2
    <2>4. \A i \in 1..1 : i = 1 /\ i + 1 = 2
      OBVIOUS
    <2>5. Len(t) = Len(s) - 1 /\ \A i \in 1..Len(t) : t[i] = s[i + 1]
      <3>1. Len(t) = Len(s) - 1
        BY <2>3
      <3>2. ASSUME NEW i \in 1..Len(t) PROVE t[i] = s[i + 1]
        BY <2>3, <2>4
      <3> QED BY <3>1, <3>2
    <2>6. Left(walk, 0, s)
      BY <1>2, <2>1
    <2>7. Left(Tail(walk), 0, t)
      BY <2>3, <2>5, <2>6, Taken, Zenon
    <2> QED BY <2>2, <2>7
  <1>3. ASSUME NEW a, NEW b \in Tags, NEW c \in Tags, Left(walk, 0, <<a, b, c>>)
        PROVE  Left(Tail(walk), 0, <<b, c>>)
    <2>1. PICK s : s = <<a, b, c>>
      OBVIOUS
    <2>2. PICK t : t = <<b, c>>
      OBVIOUS
    <2>3. s # <<>> /\ Len(s) = 3 /\ t \in Seq(Tags) /\ Len(t) = 2 /\ t[1] = s[2] /\ t[2] = s[3]
      BY <2>1, <2>2
    <2>4. \A i \in 1..2 : (i = 1 /\ i + 1 = 2) \/ (i = 2 /\ i + 1 = 3)
      OBVIOUS
    <2>5. Len(t) = Len(s) - 1 /\ \A i \in 1..Len(t) : t[i] = s[i + 1]
      <3>1. Len(t) = Len(s) - 1
        BY <2>3
      <3>2. ASSUME NEW i \in 1..Len(t) PROVE t[i] = s[i + 1]
        BY <2>3, <2>4
      <3> QED BY <3>1, <3>2
    <2>6. Left(walk, 0, s)
      BY <1>3, <2>1
    <2>7. Left(Tail(walk), 0, t)
      BY <2>3, <2>5, <2>6, Taken, Zenon
    <2> QED BY <2>2, <2>7
  <1>4. ASSUME NEW a, NEW b \in Tags, NEW c \in Tags, NEW d \in Tags, Left(walk, 0, <<a, b, c, d>>)
        PROVE  Left(Tail(walk), 0, <<b, c, d>>)
    <2>1. PICK s : s = <<a, b, c, d>>
      OBVIOUS
    <2>2. PICK t : t = <<b, c, d>>
      OBVIOUS
    <2>3. s # <<>> /\ Len(s) = 4 /\ t \in Seq(Tags) /\ Len(t) = 3 /\ t[1] = s[2] /\ t[2] = s[3] /\ t[3] = s[4]
      BY <2>1, <2>2
    <2>4. \A i \in 1..3 : (i = 1 /\ i + 1 = 2) \/ (i = 2 /\ i + 1 = 3) \/ (i = 3 /\ i + 1 = 4)
      OBVIOUS
    <2>5. Len(t) = Len(s) - 1 /\ \A i \in 1..Len(t) : t[i] = s[i + 1]
      <3>1. Len(t) = Len(s) - 1
        BY <2>3
      <3>2. ASSUME NEW i \in 1..Len(t) PROVE t[i] = s[i + 1]
        BY <2>3, <2>4
      <3> QED BY <3>1, <3>2
    <2>6. Left(walk, 0, s)
      BY <1>4, <2>1
    <2>7. Left(Tail(walk), 0, t)
      BY <2>3, <2>5, <2>6, Taken, Zenon
    <2> QED BY <2>2, <2>7
  <1>5. "sort" \in Tags /\ "term" \in Tags /\ "quotient" \in Tags /\ "Function_def" \in Tags
    BY DEF Tags, Making
  <1> QED BY <1>1, <1>2, <1>3, <1>4, <1>5, Zenon

\* So does the end of a variable.
LEMMA VariableKept ==
  ASSUME Shaped, ExitVariable
  PROVE  Shaped'
  <1>1. PICK k, s : Left(walk, k, s) /\ Defining(s)
    BY DEF Shaped
  <1>2. At("Variable")
    BY DEF ExitVariable
  <1>3. k = 0 /\ s # <<>> /\ s[1] = "Variable"
    BY <1>1, <1>2, AtExit
  <1>4. stack = <<>> /\ meant = <<>> /\ s = <<"Variable", "sort", "term", "Function_def">>
    BY <1>1, <1>3, Stages DEF Outside
  <1>5. PICK id \in Ids, n \in Versions : /\ \A i \in DOMAIN said : said[i].id # id \/ said[i].version # n
                                          /\ stack' = Append(stack, Var(id, n)) /\ walk' = Tail(walk)
    BY DEF ExitVariable, Push
  <1>6. UNCHANGED <<said, meant>>
    BY DEF ExitVariable
  <1>7. Left(walk', 0, <<"sort", "term", "Function_def">>)
    BY <1>1, <1>3, <1>4, <1>5, AfterExit
  <1>8. stack' = <<Var(id, n)>>
    BY <1>4, <1>5
  <1>9. Named(<<"sort", "term", "Function_def">>, id, n)'
    BY <1>4, <1>6, <1>8 DEF Named
  <1>10. Pending(id, n)'
    BY <1>5, <1>6 DEF Pending
  <1> QED BY <1>7, <1>9, <1>10 DEF Shaped, Defining, InMaking

\* A text on top of others.
LEMMA Pushed ==
  ASSUME NEW a, NEW b, NEW c
  PROVE  /\ Append(<<>>, a) = <<a>> /\ Append(<<a>>, b) = <<a, b>>
         /\ Append(<<a, b>>, c) = <<a, b, c>>
  <1>1. PICK S : S = {a, b, c}
    OBVIOUS
  <1>6. b \in S /\ c \in S
    BY <1>1
  <1>2. Append(<<>>, a) = <<a>>
    OBVIOUS
  <1>3. Append(<<a>>, b) = <<a, b>>
    <2>1. PICK z : z = <<a>>
      OBVIOUS
    <2>2. PICK y : y = Append(z, b)
      OBVIOUS
    <2>3. y \in Seq(S) /\ Len(y) = 2 /\ y[1] = a /\ y[2] = b
      <3>1. z \in Seq(S) /\ Len(z) = 1 /\ z[1] = a
        BY <1>1, <2>1
      <3>2. /\ y \in Seq(S) /\ Len(y) = Len(z) + 1 /\ y[Len(z) + 1] = b
            /\ \A i \in 1..Len(z) : y[i] = z[i]
        <4>1. z \in Seq(S)
          BY <3>1
        <4> QED BY <1>6, <2>2, <4>1, AppendProperties
      <3> QED BY <3>1, <3>2
    <2>4. y = <<a, b>>
      BY <2>3
    <2> QED BY <2>1, <2>2, <2>4
  <1>4. Append(<<a, b>>, c) = <<a, b, c>>
    <2>1. PICK z : z = <<a, b>>
      OBVIOUS
    <2>2. PICK y : y = Append(z, c)
      OBVIOUS
    <2>3. y \in Seq(S) /\ Len(y) = 3 /\ y[1] = a /\ y[2] = b /\ y[3] = c
      <3>1. z \in Seq(S) /\ Len(z) = 2 /\ z[1] = a /\ z[2] = b
        BY <1>1, <2>1
      <3>2. /\ y \in Seq(S) /\ Len(y) = Len(z) + 1 /\ y[Len(z) + 1] = c
            /\ \A i \in 1..Len(z) : y[i] = z[i]
        <4>1. z \in Seq(S)
          BY <3>1
        <4> QED BY <1>6, <2>2, <4>1, AppendProperties
      <3> QED BY <3>1, <3>2
    <2>4. y = <<a, b, c>>
      BY <2>3
    <2> QED BY <2>1, <2>2, <2>4
  <1> QED BY <1>2, <1>3, <1>4

\* So does the end of a sort.
LEMMA SortKept ==
  ASSUME Shaped, ExitSort
  PROVE  Shaped'
  <1>1. PICK k, s : Left(walk, k, s) /\ Defining(s)
    BY DEF Shaped
  <1>2. At("Sort")
    BY DEF ExitSort
  <1>3. k = 0 /\ s # <<>> /\ s[1] = "Sort"
    BY <1>1, <1>2, AtExit
  <1>4. s = <<"Sort", "term", "Function_def">> /\ \E id, n : Pending(id, n) /\ Named(s, id, n)
    BY <1>1, <1>3, Stages
  <1>5. PICK id, n : Pending(id, n) /\ stack = <<Var(id, n)>> /\ meant = <<>>
    BY <1>4 DEF Named
  <1>6. stack' = Append(stack, SortText(Sort[Last(stack).name])) /\ walk' = Tail(walk) /\ UNCHANGED <<said, meant>>
    BY DEF ExitSort, Push
  <1>7. Last(stack).name = id
    BY <1>5 DEF Last, Var
  <1>12. stack' = Append(stack, SortText(Sort[id]))
    BY <1>6, <1>7
  <1>8. stack' = <<Var(id, n), SortText(Sort[id])>>
    BY <1>5, <1>12, Pushed
  <1>9. Left(walk', 0, <<"term", "Function_def">>)
    BY <1>1, <1>3, <1>4, <1>6, AfterExit
  <1>10. Typed(<<"term", "Function_def">>, id, n)'
    BY <1>5, <1>6, <1>8 DEF Typed
  <1>11. Pending(id, n)'
    BY <1>5, <1>6 DEF Pending
  <1> QED BY <1>9, <1>10, <1>11 DEF Shaped, Defining, InMaking

\* Dividing pops two operands.
LEMMA Popped ==
  ASSUME NEW a, NEW b, NEW c, NEW d, NEW z, z = <<a, b, c, d>>
  PROVE  SubSeq(z, 1, 2) = <<a, b>> /\ SubSeq(z, 3, 4) = <<c, d>>
  <1>1. PICK S : S = {a, b, c, d}
    OBVIOUS
  <1>2. Len(z) = 4 /\ z[1] = a /\ z[2] = b /\ z[3] = c /\ z[4] = d
    OBVIOUS
  <1>3. (\A i \in 1..2 : i = 1 \/ i = 2) /\ (\A i \in 3..4 : i = 3 \/ i = 4)
    OBVIOUS
  <1>4. (\A i \in 1..2 : z[i] \in S) /\ (\A i \in 3..4 : z[i] \in S)
    BY <1>1, <1>2, <1>3
  <1>5. PICK x : x = SubSeq(z, 1, 2)
    OBVIOUS
  <1>6. PICK y : y = SubSeq(z, 3, 4)
    OBVIOUS
  <1>7. x \in Seq(S) /\ Len(x) = 2 /\ x[1] = a /\ x[2] = b
    <2>1. /\ x \in Seq(S) /\ Len(x) = IF 1 <= 2 THEN 2 - 1 + 1 ELSE 0
          /\ \A i \in 1..2 - 1 + 1 : x[i] = z[1 + i - 1]
      BY <1>4, <1>5, SubSeqProperties
    <2>2. 1 \in 1..2 - 1 + 1 /\ 2 \in 1..2 - 1 + 1 /\ 1 + 1 - 1 = 1 /\ 1 + 2 - 1 = 2
      OBVIOUS
    <2> QED BY <1>2, <2>1, <2>2
  <1>8. y \in Seq(S) /\ Len(y) = 2 /\ y[1] = c /\ y[2] = d
    <2>1. /\ y \in Seq(S) /\ Len(y) = IF 3 <= 4 THEN 4 - 3 + 1 ELSE 0
          /\ \A i \in 1..4 - 3 + 1 : y[i] = z[3 + i - 1]
      BY <1>4, <1>6, SubSeqProperties
    <2>2. 1 \in 1..4 - 3 + 1 /\ 2 \in 1..4 - 3 + 1 /\ 3 + 1 - 1 = 3 /\ 3 + 2 - 1 = 4
      OBVIOUS
    <2> QED BY <1>2, <2>1, <2>2
  <1>9. x = <<a, b>>
    BY <1>7
  <1>10. y = <<c, d>>
    BY <1>8
  <1> QED BY <1>5, <1>6, <1>9, <1>10

\* What a term does when it ends, by what it is made of.
LEMMA EndLiteral ==
  ASSUME Head(walk).body = <<"spec_constant">>, ExitTerm
  PROVE  \E l \in Literals : /\ stack' = Append(stack, Num(l * Scale)) /\ meant' = Append(meant, Fraction(l, 1))
                             /\ walk' = Tail(walk) /\ UNCHANGED said
  <1>1. PICK w : w = Head(walk)
    OBVIOUS
  <1>2. w.body \in {<<"spec_constant">>, <<"qual_identifer">>} /\ w.body # <<"qual_identifer">>
    BY <1>1
  <1>3. Children(w, "term") = 0
    BY <1>2, NoArguments
  <1>4. /\ ~(Children(Head(walk), "term") = 1) /\ ~(Children(Head(walk), "term") = 2)
        /\ Head(walk).body # <<"qual_identifer">>
    BY <1>1, <1>2, <1>3
  <1>5. UNCHANGED said
    BY DEF ExitTerm
  <1>6. \E l \in Literals : Push(Num(l * Scale)) /\ meant' = Append(meant, Fraction(l, 1))
    BY <1>4, ZenonT(40) DEF ExitTerm
  <1> QED BY <1>5, <1>6 DEF Push

LEMMA EndBoolean ==
  ASSUME Head(walk).body = <<"qual_identifer">>, ExitTerm
  PROVE  \E b \in {"true", "false"} : /\ stack' = Append(stack, Bool(b)) /\ meant' = Append(meant, Truth(b))
                                      /\ walk' = Tail(walk) /\ UNCHANGED said
  <1>1. PICK w : w = Head(walk)
    OBVIOUS
  <1>2. w.body \in {<<"spec_constant">>, <<"qual_identifer">>} /\ w.body # <<"spec_constant">>
    BY <1>1
  <1>3. Children(w, "term") = 0
    BY <1>2, NoArguments
  <1>4. /\ ~(Children(Head(walk), "term") = 1) /\ ~(Children(Head(walk), "term") = 2)
        /\ Head(walk).body # <<"spec_constant">>
    BY <1>1, <1>2, <1>3
  <1>5. UNCHANGED said
    BY DEF ExitTerm
  <1>6. \E b \in {"true", "false"} : Push(Bool(b)) /\ meant' = Append(meant, Truth(b))
    BY <1>4, ZenonT(40) DEF ExitTerm
  <1> QED BY <1>5, <1>6 DEF Push

LEMMA EndQuotient ==
  ASSUME Head(walk).body = <<"qual_identifer", "term", "term">>, ExitTerm, Len(stack) = 4, Len(meant) = 2,
         NEW x, x = SubSeq(meant, 1, 2)
  PROVE  /\ stack' = Append(SubSeq(stack, 1, 2), MergeTermParts(SubSeq(stack, 3, 4)))
         /\ meant' = Append(SubSeq(meant, 1, 0), Fraction(x[1].num * x[2].den, x[2].num * x[1].den))
         /\ walk' = Tail(walk) /\ UNCHANGED said
  <1>1. PICK w : w = Head(walk)
    OBVIOUS
  <1>2. w.body = <<"qual_identifer", "term", "term">>
    BY <1>1
  <1>3. Children(w, "term") = 2
    BY <1>2, TwoArguments, Zenon
  <1>4. /\ ~(Children(Head(walk), "term") = 1) /\ Children(Head(walk), "term") = 2
        /\ ~(Head(walk).body = <<"spec_constant">>) /\ ~(Head(walk).body = <<"qual_identifer">>)
    BY <1>1, <1>2, <1>3
  <1>5. LET args == Children(Head(walk), "term")
            keep == Len(stack) - args
            parts == SubSeq(stack, keep + 1, Len(stack))
            means == SubSeq(meant, Len(meant) - args + 1, Len(meant))
            before == SubSeq(meant, 1, Len(meant) - args)
        IN  /\ stack' = Append(SubSeq(stack, 1, keep), MergeTermParts(parts))
            /\ meant' = Append(before, Fraction(means[1].num * means[2].den, means[2].num * means[1].den))
    BY <1>4, Zenon DEF ExitTerm
  <1>6. 4 - 2 = 2 /\ 2 + 1 = 3 /\ 2 - 2 + 1 = 1 /\ 2 - 2 = 0
    OBVIOUS
  <1>7. walk' = Tail(walk) /\ UNCHANGED said
    BY Zenon DEF ExitTerm, Push
  <1>8. stack' = Append(SubSeq(stack, 1, 2), MergeTermParts(SubSeq(stack, 3, 4)))
    BY <1>4, <1>5, <1>6
  <1>9. meant' = Append(SubSeq(meant, 1, 0), Fraction(x[1].num * x[2].den, x[2].num * x[1].den))
    <2>1. Len(meant) - Children(Head(walk), "term") = 0 /\ Len(meant) - Children(Head(walk), "term") + 1 = 1
      BY <1>4, <1>6
    <2> QED BY <1>5, <2>1
  <1> QED BY <1>7, <1>8, <1>9

\* A text on top of three.
LEMMA OnThree ==
  ASSUME NEW a, NEW b, NEW c, NEW d
  PROVE  Append(<<a, b, c>>, d) = <<a, b, c, d>>
  <1>1. PICK S : S = {a, b, c, d}
    OBVIOUS
  <1>2. PICK z : z = <<a, b, c>>
    OBVIOUS
  <1>3. PICK y : y = Append(z, d)
    OBVIOUS
  <1>4. z \in Seq(S) /\ Len(z) = 3 /\ z[1] = a /\ z[2] = b /\ z[3] = c
    BY <1>1, <1>2
  <1>5. z \in Seq(S) /\ d \in S
    BY <1>1, <1>4
  <1>6. /\ y \in Seq(S) /\ Len(y) = Len(z) + 1 /\ y[Len(z) + 1] = d
        /\ \A i \in 1..Len(z) : y[i] = z[i]
    BY <1>3, <1>5, AppendProperties
  <1>7. y \in Seq(S) /\ Len(y) = 4 /\ y[1] = a /\ y[2] = b /\ y[3] = c /\ y[4] = d
    BY <1>4, <1>6
  <1>8. y = <<a, b, c, d>>
    BY <1>7
  <1> QED BY <1>2, <1>3, <1>8

\* The end of a literal: the value, or an operand of a quotient.
LEMMA LiteralKept ==
  ASSUME NEW s, Left(walk, 0, s), Defining(s), s # <<>>, s[1] = "literal", At("Term"),
         Head(walk).body = <<"spec_constant">>, ExitTerm
  PROVE  Shaped'
  <1>2. PICK l \in Literals : /\ stack' = Append(stack, Num(l * Scale)) /\ meant' = Append(meant, Fraction(l, 1))
                              /\ walk' = Tail(walk) /\ UNCHANGED said
    BY EndLiteral
  <1>3. walk' = Tail(walk) /\ UNCHANGED said
    BY <1>2
  <1>4. PICK id, n : Pending(id, n) /\ (Typed(s, id, n) \/ \E a : Operand(s, id, n, a))
    BY Stages
  <1>5. Pending(id, n)'
    BY <1>3, <1>4 DEF Pending
  <1>6. CASE Typed(s, id, n) /\ s = <<"literal", "Function_def">>
    <2>1. stack = <<Var(id, n), SortText(Sort[id])>> /\ meant = <<>> /\ Sort[id] # "Bool"
      BY <1>6 DEF Typed
    <2>2. stack' = <<Var(id, n), SortText(Sort[id]), Num(l * Scale)>> /\ meant' = <<Fraction(l, 1)>>
      <3>1. stack' = <<Var(id, n), SortText(Sort[id]), Num(l * Scale)>>
        <4>1. stack' = Append(<<Var(id, n), SortText(Sort[id])>>, Num(l * Scale))
          BY <1>2, <2>1, Zenon
        <4> QED BY <4>1, Pushed, Zenon
      <3>2. meant' = <<Fraction(l, 1)>>
        BY <1>2, <2>1
      <3> QED BY <3>1, <3>2
    <2>3. Fraction(l, 1) \in Meanings
      BY SmtListenerAssumption DEF Fraction, Meanings
    <2>4. SameValue(ConvertTerm(SortText(Sort[id]), Num(l * Scale)), Fraction(l, 1), Sort[id])
      <3>1. ConvertTerm(SortText(Sort[id]), Num(l * Scale)) = l * Scale
        BY <2>1 DEF ConvertTerm, SortText, Num
      <3>2. Fraction(l, 1).num = l /\ Fraction(l, 1).den = 1
        BY DEF Fraction
      <3>3. PICK v \in Int : v = l * Scale
        BY SmtListenerAssumption
      <3>4. l \in Int /\ 1 \in Nat /\ 2 * (v * 1 - v) <= 1
        BY SmtListenerAssumption
      <3>5. PICK c, d : c = ConvertTerm(SortText(Sort[id]), Num(l * Scale)) /\ d = Fraction(l, 1)
        OBVIOUS
      <3>6. c = v /\ d.num \in Int /\ d.den = 1 /\ d.num * Scale = v
        BY <3>1, <3>2, <3>3, <3>4, <3>5
      <3>7. 2 * (c * d.den - d.num * Scale) <= d.den /\ 2 * (d.num * Scale - c * d.den) <= d.den
        BY <3>6
      <3>8. SameValue(c, d, Sort[id])
        BY <2>1, <3>6, <3>7 DEF SameValue
      <3> QED BY <3>5, <3>8
    <2>5. Valued(<<"Function_def">>, id, n, Num(l * Scale), Fraction(l, 1))'
      BY <2>2, <2>3, <2>4 DEF Valued
    <2>6. Left(walk', 0, <<"Function_def">>)
      BY <1>3, <1>6, AfterExit
    <2> QED BY <1>5, <2>5, <2>6 DEF Shaped, Defining, InMaking
  <1>7. CASE Typed(s, id, n) /\ s = <<"literal", "term", "quotient", "Function_def">>
    <2>1. stack = <<Var(id, n), SortText(Sort[id])>> /\ meant = <<>> /\ Sort[id] = "Real"
      BY <1>7 DEF Typed
    <2>2. stack' = <<Var(id, n), SortText(Sort[id]), Num(l * Scale)>> /\ meant' = <<Fraction(l, 1)>>
      <3>1. stack' = <<Var(id, n), SortText(Sort[id]), Num(l * Scale)>>
        <4>1. stack' = Append(<<Var(id, n), SortText(Sort[id])>>, Num(l * Scale))
          BY <1>2, <2>1, Zenon
        <4> QED BY <4>1, Pushed, Zenon
      <3>2. meant' = <<Fraction(l, 1)>>
        BY <1>2, <2>1
      <3> QED BY <3>1, <3>2
    <2>3. Operand(<<"term", "quotient", "Function_def">>, id, n, l)'
      BY <2>1, <2>2 DEF Operand
    <2>4. Left(walk', 0, <<"term", "quotient", "Function_def">>)
      BY <1>3, <1>7, AfterExit
    <2> QED BY <1>5, <2>3, <2>4 DEF Shaped, Defining, InMaking
  <1>8. CASE \E a : Operand(s, id, n, a)
    <2>1. PICK a : Operand(s, id, n, a)
      BY <1>8
    <2>2. /\ stack = <<Var(id, n), SortText(Sort[id]), Num(a * Scale)>> /\ meant = <<Fraction(a, 1)>>
          /\ a \in Literals /\ Sort[id] = "Real" /\ s = <<"literal", "quotient", "Function_def">>
      BY <2>1 DEF Operand
    <2>3. /\ stack' = <<Var(id, n), SortText(Sort[id]), Num(a * Scale), Num(l * Scale)>>
          /\ meant' = <<Fraction(a, 1), Fraction(l, 1)>>
      <3>1. stack' = Append(<<Var(id, n), SortText(Sort[id]), Num(a * Scale)>>, Num(l * Scale))
        BY <1>2, <2>2, Zenon
      <3>2. meant' = Append(<<Fraction(a, 1)>>, Fraction(l, 1))
        BY <1>2, <2>2, Zenon
      <3>3. stack' = <<Var(id, n), SortText(Sort[id]), Num(a * Scale), Num(l * Scale)>>
        BY <3>1, OnThree, Zenon
      <3>4. meant' = <<Fraction(a, 1), Fraction(l, 1)>>
        BY <3>2, Pushed, Zenon
      <3> QED BY <3>3, <3>4
    <2>4. Operands(<<"quotient", "Function_def">>, id, n, a, l)'
      BY <2>2, <2>3 DEF Operands
    <2>5. Left(walk', 0, <<"quotient", "Function_def">>)
      BY <1>3, <2>2, AfterExit
    <2> QED BY <1>5, <2>4, <2>5 DEF Shaped, Defining, InMaking
  <1>9. Typed(s, id, n) => s \in {<<"literal", "Function_def">>, <<"literal", "term", "quotient", "Function_def">>}
    BY DEF Typed
  <1> QED BY <1>4, <1>6, <1>7, <1>8, <1>9

\* The end of a boolean.
LEMMA BooleanKept ==
  ASSUME NEW s, Left(walk, 0, s), Defining(s), s # <<>>, s[1] = "boolean", At("Term"),
         Head(walk).body = <<"qual_identifer">>, ExitTerm
  PROVE  Shaped'
  <1>2. PICK b \in {"true", "false"} : /\ stack' = Append(stack, Bool(b)) /\ meant' = Append(meant, Truth(b))
                                       /\ walk' = Tail(walk) /\ UNCHANGED said
    BY EndBoolean
  <1>3. walk' = Tail(walk) /\ UNCHANGED said
    BY <1>2
  <1>4. s = <<"boolean", "Function_def">> /\ \E id, n : Pending(id, n) /\ Typed(s, id, n)
    BY Stages
  <1>5. PICK id, n : Pending(id, n) /\ Typed(s, id, n)
    BY <1>4
  <1>6. stack = <<Var(id, n), SortText(Sort[id])>> /\ meant = <<>> /\ Sort[id] = "Bool"
    BY <1>4, <1>5 DEF Typed
  <1>7. stack' = <<Var(id, n), SortText(Sort[id]), Bool(b)>> /\ meant' = <<Truth(b)>>
    <2>1. stack' = <<Var(id, n), SortText(Sort[id]), Bool(b)>>
      <3>1. stack' = Append(<<Var(id, n), SortText(Sort[id])>>, Bool(b))
        BY <1>2, <1>6, Zenon
      <3> QED BY <3>1, Pushed, Zenon
    <2>2. meant' = <<Truth(b)>>
      BY <1>2, <1>6
    <2> QED BY <2>1, <2>2
  <1>8. Truth(b) \in Meanings /\ SameValue(ConvertTerm(SortText(Sort[id]), Bool(b)), Truth(b), Sort[id])
    <2>1. Truth(b) \in Meanings /\ Truth(b).bool = b
      <3>1. CASE b = "true"
        BY <3>1 DEF Truth, Meanings
      <3>2. CASE b = "false"
        BY <3>2 DEF Truth, Meanings
      <3> QED BY <1>2, <3>1, <3>2
    <2>2. ConvertTerm(SortText(Sort[id]), Bool(b)) = b
      BY <1>6 DEF ConvertTerm, SortText, Bool
    <2> QED BY <1>6, <2>1, <2>2 DEF SameValue
  <1>9. Valued(<<"Function_def">>, id, n, Bool(b), Truth(b))'
    BY <1>7, <1>8 DEF Valued
  <1>10. Left(walk', 0, <<"Function_def">>)
    BY <1>3, <1>4, AfterExit
  <1>11. Pending(id, n)'
    BY <1>3, <1>5 DEF Pending
  <1> QED BY <1>9, <1>10, <1>11 DEF Shaped, Defining, InMaking

\* The end of a quotient, whose value is rounded.
LEMMA QuotientKept ==
  ASSUME NEW s, Left(walk, 0, s), Defining(s), s # <<>>, s[1] = "quotient", At("Term"),
         Head(walk).body = <<"qual_identifer", "term", "term">>, ExitTerm
  PROVE  Shaped'
  <1>3. s = <<"quotient", "Function_def">> /\ \E id, n, a, b : Pending(id, n) /\ Operands(s, id, n, a, b)
    BY Stages
  <1>4. PICK id, n, a, b : Pending(id, n) /\ Operands(s, id, n, a, b)
    BY <1>3
  <1>5. /\ stack = <<Var(id, n), SortText(Sort[id]), Num(a * Scale), Num(b * Scale)>>
        /\ meant = <<Fraction(a, 1), Fraction(b, 1)>>
        /\ a \in Literals /\ b \in Literals /\ Sort[id] = "Real"
    BY <1>4 DEF Operands
  <1>6. Len(stack) = 4 /\ Len(meant) = 2
    BY <1>5
  <1>2. PICK x : x = SubSeq(meant, 1, 2)
    OBVIOUS
  <1>7. /\ stack' = Append(SubSeq(stack, 1, 2), MergeTermParts(SubSeq(stack, 3, 4)))
        /\ meant' = Append(SubSeq(meant, 1, 0), Fraction(x[1].num * x[2].den, x[2].num * x[1].den))
        /\ walk' = Tail(walk) /\ UNCHANGED said
    BY <1>2, <1>6, EndQuotient
  <1>8. SubSeq(stack, 1, 2) = <<Var(id, n), SortText(Sort[id])>> /\ SubSeq(stack, 3, 4) = <<Num(a * Scale), Num(b * Scale)>>
    BY <1>5, Popped
  <1>9. SubSeq(meant, 1, 0) = <<>> /\ SubSeq(meant, 1, 2) = <<Fraction(a, 1), Fraction(b, 1)>>
    <2>1. SubSeq(meant, 1, 0) = <<>>
      BY SubSeqEmpty
    <2>2. meant \in Seq({Fraction(a, 1), Fraction(b, 1)})
      BY <1>5
    <2>3. SubSeq(meant, 1, 2) = meant
      BY <1>6, <2>2, SubSeqFull
    <2> QED BY <1>5, <2>1, <2>3
  <1>10. PICK q : q = Quotient(a * Scale, b * Scale)
    OBVIOUS
  <1>11. MergeTermParts(SubSeq(stack, 3, 4)) = Num(q)
    <2>1. PICK p : p = SubSeq(stack, 3, 4)
      OBVIOUS
    <2>2. Len(p) = 2 /\ p[1].n = a * Scale /\ p[2].n = b * Scale
      <3>1. PICK x1, y1 : x1 = Num(a * Scale) /\ y1 = Num(b * Scale)
        OBVIOUS
      <3>2. x1.n = a * Scale /\ y1.n = b * Scale
        BY <3>1 DEF Num
      <3>3. p = <<x1, y1>>
        BY <1>8, <2>1, <3>1
      <3> QED BY <3>2, <3>3
    <2>3. MergeTermParts(p) = Num(Quotient(p[1].n, p[2].n))
      BY <2>2 DEF MergeTermParts
    <2>4. MergeTermParts(p) = Num(Quotient(a * Scale, b * Scale))
      BY <2>2, <2>3, Zenon
    <2> QED BY <1>10, <2>1, <2>4
  <1>12. stack' = <<Var(id, n), SortText(Sort[id]), Num(q)>>
    <2>1. stack' = Append(<<Var(id, n), SortText(Sort[id])>>, Num(q))
      BY <1>7, <1>8, <1>11, Zenon
    <2> QED BY <2>1, Pushed, Zenon
  <1>13. a \in Nat \ {0} /\ b \in Nat \ {0} /\ Scale \in Nat \ {0}
    BY <1>5, SmtListenerAssumption
  <1>14. meant' = <<Fraction(a, b)>>
    <2>1. x = <<Fraction(a, 1), Fraction(b, 1)>>
      BY <1>2, <1>9
    <2>2. x[1].num = a /\ x[1].den = 1 /\ x[2].num = b /\ x[2].den = 1
      BY <2>1 DEF Fraction
    <2>3. x[1].num * x[2].den = a /\ x[2].num * x[1].den = b
      BY <1>13, <2>2
    <2>4. meant' = Append(<<>>, Fraction(a, b))
      BY <1>7, <1>9, <2>3
    <2> QED BY <2>4, Pushed
  <1>15. Fraction(a, b) \in Meanings /\ Fraction(a, b).num = a /\ Fraction(a, b).den = b
    BY <1>13 DEF Fraction, Meanings
  <1>16. SameValue(ConvertTerm(SortText(Sort[id]), Num(q)), Fraction(a, b), Sort[id])
    <2>1. ConvertTerm(SortText(Sort[id]), Num(q)) = q
      BY <1>5 DEF ConvertTerm, SortText, Num
    <2>2. q \in Nat /\ 2 * (q * b - a * Scale) <= b /\ 2 * (a * Scale - q * b) <= b
      BY <1>5, <1>10, Rounded
    <2>3. q \in Int /\ a \in Int /\ b \in Nat /\ Sort[id] # "Bool"
      BY <1>5, <1>13, <2>2
    <2> QED BY <1>15, <2>1, <2>2, <2>3 DEF SameValue
  <1>17. Valued(<<"Function_def">>, id, n, Num(q), Fraction(a, b))'
    BY <1>12, <1>14, <1>15, <1>16 DEF Valued
  <1>18. Left(walk', 0, <<"Function_def">>)
    BY <1>3, <1>7, AfterExit
  <1>19. Pending(id, n)'
    BY <1>4, <1>7 DEF Pending
  <1> QED BY <1>17, <1>18, <1>19 DEF Shaped, Defining, InMaking

\* The end of a term, whichever it is.
LEMMA TermKept ==
  ASSUME Shaped, ExitTerm
  PROVE  Shaped'
  <1>1. PICK k, s : Left(walk, k, s) /\ Defining(s)
    BY DEF Shaped
  <1>2. At("Term")
    BY DEF ExitTerm
  <1>3. /\ k = 0 /\ s # <<>>
        /\ \/ s[1] = "literal" /\ Head(walk).body = <<"spec_constant">>
           \/ s[1] = "boolean" /\ Head(walk).body = <<"qual_identifer">>
           \/ s[1] = "quotient" /\ Head(walk).body = <<"qual_identifer", "term", "term">>
    BY <1>1, <1>2, AtExit
  <1> QED BY <1>1, <1>2, <1>3, LiteralKept, BooleanKept, QuotientKept

\* What is said with one more definition.
LEMMA Appended ==
  ASSUME NEW S, NEW z \in Seq(S), NEW d \in S, NEW y, y = Append(z, d)
  PROVE  /\ y \in Seq(S) /\ Len(y) = Len(z) + 1 /\ y[Len(z) + 1] = d
         /\ \A i \in 1..Len(z) : y[i] = z[i]
  BY AppendProperties

\* One more definition, of a version that has none, is kept beside the others.
LEMMA ToldMore ==
  ASSUME Told, NEW id, NEW n, Pending(id, n), NEW v, NEW d \in Meanings, SameValue(v, d, Sort[id]),
         said' = Append(said, [id |-> id, version |-> n, value |-> d]),
         Results' = [Results EXCEPT ![id] = AddValue(@, n, v)]
  PROVE  Told'
  <1>1. PICK D : D = [id |-> id, version |-> n, value |-> d]
    OBVIOUS
  <1>2. D \in Definitions /\ D.id = id /\ D.version = n /\ D.value = d /\ id \in Ids
    BY <1>1 DEF Pending, Definitions
  <1>3. PICK L \in Nat : L = Len(said)
    BY DEF Told
  <1>4. /\ said' \in Seq(Definitions) /\ Len(said') = L + 1 /\ said'[L + 1] = D
        /\ \A i \in 1..L : said'[i] = said[i]
    <2>1. said' = Append(said, D)
      BY <1>1
    <2>2. said \in Seq(Definitions)
      BY DEF Told
    <2> QED BY <1>2, <1>3, <2>1, <2>2, Appended
  <1>5. DOMAIN said = 1..L /\ DOMAIN said' = 1..L + 1
    BY <1>3, <1>4 DEF Told
  <1>6. \A i \in 1..L : said[i].id # id \/ said[i].version # n
    BY <1>5 DEF Pending
  <1>7. DOMAIN Results = Ids
    BY DEF Told
  <1>8. PICK R : R = Results[id]
    OBVIOUS
  <1>9. PICK A : A = AddValue(R, n, v)
    OBVIOUS
  <1>10. /\ DOMAIN A = DOMAIN R \cup {n} /\ A[n] = v
         /\ \A j \in DOMAIN R : j # n => A[j] = R[j]
    BY <1>9 DEF AddValue
  <1>11. DOMAIN Results' = Ids /\ Results'[id] = A /\ \A x \in Ids : x # id => Results'[x] = Results[x]
    BY <1>2, <1>7, <1>8, <1>9
  <1>12. \A i \in 1..L : said[i] \in Definitions /\ KeptIn(Results, said[i])
    BY <1>3 DEF Told
  <1>13. \A i \in 1..L + 1 : KeptIn(Results', said'[i])
    <2> TAKE i \in 1..L + 1
    <2>1. CASE i = L + 1
      <3>1. KeptIn(Results', D)
        BY <1>2, <1>10, <1>11 DEF KeptIn
      <3> QED BY <1>4, <2>1, <3>1
    <2>2. CASE i # L + 1
      <3>1. i \in 1..L /\ said'[i] = said[i]
        BY <1>4, <2>2
      <3>2. PICK e : e = said[i]
        OBVIOUS
      <3>3. /\ e.id \in Ids /\ e.version \in DOMAIN Results[e.id] /\ (e.id # id \/ e.version # n)
            /\ SameValue(Results[e.id][e.version], e.value, Sort[e.id])
        BY <1>6, <1>12, <3>1, <3>2 DEF KeptIn, Definitions
      <3>4. CASE e.id # id
        <4>1. Results'[e.id] = Results[e.id]
          BY <1>11, <3>3, <3>4
        <4> QED BY <3>1, <3>2, <3>3, <4>1 DEF KeptIn
      <3>5. CASE e.id = id
        <4>1. e.version \in DOMAIN A /\ A[e.version] = R[e.version]
          BY <1>8, <1>10, <3>3, <3>5
        <4>2. Results'[e.id][e.version] = Results[e.id][e.version] /\ e.version \in DOMAIN Results'[e.id]
          BY <1>8, <1>11, <3>5, <4>1
        <4> QED BY <3>1, <3>2, <3>3, <4>2 DEF KeptIn
      <3> QED BY <3>4, <3>5
    <2> QED BY <2>1, <2>2
  <1>14. \A x \in Ids : DOMAIN Results[x] = {said[i].version : i \in {j \in 1..L : said[j].id = x}}
    BY <1>5 DEF Told, VersionsOf
  <1>15. \A x \in Ids : DOMAIN Results'[x] = {said'[i].version : i \in {j \in 1..L + 1 : said'[j].id = x}}
    <2> TAKE x \in Ids
    <2>1. \A i \in 1..L + 1 : i \in 1..L \/ i = L + 1
      OBVIOUS
    <2>2. 1..L \subseteq 1..L + 1 /\ L + 1 \in 1..L + 1
      OBVIOUS
    <2>3. CASE x # id
      <3>1. DOMAIN Results'[x] = DOMAIN Results[x]
        BY <1>11, <2>3
      <3>2. {said'[i].version : i \in {j \in 1..L + 1 : said'[j].id = x}}
              = {said[i].version : i \in {j \in 1..L : said[j].id = x}}
        BY <1>2, <1>4, <2>1, <2>2, <2>3
      <3> QED BY <1>14, <3>1, <3>2
    <2>4. CASE x = id
      <3>1. DOMAIN Results'[x] = DOMAIN Results[x] \cup {n}
        BY <1>8, <1>10, <1>11, <2>4
      <3>2. {said'[i].version : i \in {j \in 1..L + 1 : said'[j].id = x}}
              = {said[i].version : i \in {j \in 1..L : said[j].id = x}} \cup {n}
        BY <1>2, <1>4, <2>1, <2>2, <2>4
      <3> QED BY <1>14, <3>1, <3>2
    <2> QED BY <2>3, <2>4
  <1> QED BY <1>4, <1>5, <1>11, <1>13, <1>15 DEF Told, VersionsOf

\* The end of a definition keeps its value, if its version is an int16.
LEMMA FunctionKept ==
  ASSUME Shaped, Told, ExitFunction_def, ~malformed'
  PROVE  Shaped' /\ Told'
  <1>1. PICK k, s : Left(walk, k, s) /\ Defining(s)
    BY DEF Shaped
  <1>2. At("Function_def")
    BY DEF ExitFunction_def
  <1>3. k = 0 /\ s # <<>> /\ s[1] = "Function_def"
    BY <1>1, <1>2, AtExit
  <1>4. s = <<"Function_def">> /\ \E id, n, t, d : Pending(id, n) /\ Valued(s, id, n, t, d)
    BY <1>1, <1>3, Stages
  <1>5. PICK id, n, t, d : Pending(id, n) /\ Valued(s, id, n, t, d)
    BY <1>4
  <1>6. PICK x : x = Var(id, n)
    OBVIOUS
  <1>7. PICK y : y = SortText(Sort[id])
    OBVIOUS
  <1>8. stack = <<x, y, t>> /\ meant = <<d>> /\ d \in Meanings /\ SameValue(ConvertTerm(y, t), d, Sort[id])
    BY <1>5, <1>6, <1>7 DEF Valued
  <1>9. x.name = id /\ x.n = n
    BY <1>6 DEF Var
  <1>10. Len(stack) = 3 /\ stack[3] = t /\ stack[2] = y /\ stack[1] = x
    BY <1>8
  <1>11. 3 - 1 = 2 /\ 3 - 2 = 1 /\ 3 - 3 = 0
    OBVIOUS
  <1>12. Last(meant) = d /\ Front(meant) = <<>>
    BY <1>8 DEF Last, Front
  <1>13. stack' = SubSeq(stack, 1, 0) /\ meant' = <<>>
    BY <1>10, <1>11, <1>12 DEF ExitFunction_def
  <1>14. stack' = <<>>
    BY <1>13, SubSeqEmpty
  <1>15. said' = Append(said, [id |-> id, version |-> n, value |-> d])
    BY <1>9, <1>10, <1>11, <1>12 DEF ExitFunction_def
  <1>16. walk' = Tail(walk) /\ Results' = [Results EXCEPT ![id] = AddValue(@, n, ConvertTerm(y, t))]
    BY <1>9, <1>10, <1>11 DEF ExitFunction_def
  <1>17. Left(walk', 0, <<>>)
    BY <1>1, <1>3, <1>4, <1>16, AfterExit
  <1>18. Outside(<<>>)'
    BY <1>13, <1>14 DEF Outside
  <1>19. Told'
    BY <1>5, <1>8, <1>15, <1>16, ToldMore
  <1> QED BY <1>17, <1>18, <1>19 DEF Shaped, Defining

-----------------------------------------------------------------------------
\* The invariant. Before the listener, nothing has been said.
ListenInv ==
  /\ phase \notin {"listen", "over"} => walk = <<>> /\ NewSMTListener
  /\ ~malformed => Told
  /\ phase = "listen" /\ ~malformed => Shaped

\* At first nothing has been said.
LEMMA NothingTold ==
  ASSUME NewSMTListener
  PROVE  Told
  <1>1. said = <<>> /\ Results = [i \in Ids |-> <<>>]
    BY DEF NewSMTListener
  <1>2. said \in Seq(Definitions) /\ Len(said) = 0 /\ DOMAIN said = {} /\ DOMAIN Results = Ids
    BY <1>1
  <1>3. \A id \in Ids : DOMAIN Results[id] = {}
    BY <1>1
  <1>4. \A id \in Ids : VersionsOf(id) = {}
    BY <1>2 DEF VersionsOf
  <1>5. \A i \in 1..Len(said) : KeptIn(Results, said[i])
    BY <1>2
  <1> QED BY <1>2, <1>3, <1>4, <1>5 DEF Told

\* Only the end of a definition changes what has been said and kept.
LEMMA ToldKept ==
  ASSUME Told, UNCHANGED <<said, Results>>
  PROVE  Told'
  BY DEF Told, VersionsOf, KeptIn

\* The whole answer is ahead.
LEMMA AllAhead ==
  ASSUME NewSMTListener, NEW w, w = <<Rule("start")>>
  PROVE  Left(w, 0, <<"start">>) /\ Defining(<<"start">>)
  <1>1. PICK s : s = <<"start">>
    OBVIOUS
  <1>2. PICK r : r = Rule("start")
    OBVIOUS
  <1>3. "start" \in Names /\ "start" \in Outer /\ "start" \in Tags
    BY DEF Names, Outer, Tags
  <1>4. r \in Items
    BY <1>2, <1>3, RuleIsItem
  <1>5. w \in Seq(Items) /\ Len(w) = 1 /\ w[1] = r
    BY <1>2, <1>4
  <1>6. s \in Seq(Tags) /\ Len(s) = 1 /\ s[1] = "start"
    BY <1>1, <1>3
  <1>7. Is(r, "start")
    BY <1>2, <1>3 DEF Is
  <1>8. Left(w, 0, s)
    <2>1. \A i \in 1..1 : i = 1 /\ 0 + i = 1
      OBVIOUS
    <2>2. \A i \in 1..Len(s) : Is(w[0 + i], s[i])
      BY <1>5, <1>6, <1>7, <2>1
    <2>3. \A i \in 1..0 : \E q \in Neutral : w[i] = Rule(q)
      OBVIOUS
    <2>4. \A i \in 0 + Len(s) + 1..Len(w) : w[i] = Rule("model_response")
      BY <1>5, <1>6
    <2>5. 0 \in Nat /\ 0 + Len(s) <= Len(w)
      BY <1>5, <1>6
    <2> QED BY <1>5, <1>6, <2>2, <2>3, <2>4, <2>5 DEF Left
  <1>9. Defining(s)
    BY <1>1, <1>3 DEF Defining, Outside, NewSMTListener
  <1> QED BY <1>1, <1>8, <1>9

\* A handler keeps both, if it does not panic.
LEMMA ListenKept ==
  ASSUME ~Negatives, Shaped, Told, Listen, ~malformed'
  PROVE  Shaped' /\ Told'
  <1>1. CASE Enter
    <2>1. UNCHANGED <<said, Results>>
      BY <1>1 DEF Enter
    <2> QED BY <1>1, <2>1, EnterKept, ToldKept
  <1>2. CASE ExitVariable
    <2>1. UNCHANGED <<said, Results>>
      BY <1>2 DEF ExitVariable
    <2> QED BY <1>2, <2>1, VariableKept, ToldKept
  <1>3. CASE ExitSort
    <2>1. UNCHANGED <<said, Results>>
      BY <1>3 DEF ExitSort
    <2> QED BY <1>3, <2>1, SortKept, ToldKept
  <1>4. CASE ExitTerm
    <2>1. UNCHANGED <<said, Results>>
      BY <1>4 DEF ExitTerm
    <2> QED BY <1>4, <2>1, TermKept, ToldKept
  <1>5. CASE ExitFunction_def
    BY <1>5, FunctionKept
  <1> QED BY <1>1, <1>2, <1>3, <1>4, <1>5 DEF Listen

\* Whether the listener has panicked before.
LEMMA MalformedStays ==
  ASSUME Listen, ~malformed'
  PROVE  ~malformed
  BY DEF Listen, Enter, ExitVariable, ExitSort, ExitTerm, ExitFunction_def

\* Every phase keeps the invariant.
LEMMA ListenInvKept ==
  ASSUME ~Negatives, ListenInv, [Next]_vars
  PROVE  ListenInv'
  <1> DEFINE Same == UNCHANGED listenerVars
  <1>1. ASSUME Same PROVE /\ (walk = <<>> /\ NewSMTListener) => (walk = <<>> /\ NewSMTListener)'
                          /\ (~malformed => Told) => (~malformed => Told)'
                          /\ (~malformed => Shaped) => (~malformed => Shaped)'
    <2>1. UNCHANGED <<walk, fuel, stack, Results, meant, said, malformed>>
      BY <1>1 DEF listenerVars
    <2>2. (walk = <<>> /\ NewSMTListener) => (walk = <<>> /\ NewSMTListener)'
      BY <2>1 DEF NewSMTListener
    <2>3. (~malformed => Told) => (~malformed => Told)'
      BY <2>1, ToldKept
    <2>4. Shaped => Shaped'
      <3> SUFFICES ASSUME Shaped PROVE Shaped'
        OBVIOUS
      <3>1. PICK k, s : Left(walk, k, s) /\ Defining(s)
        BY DEF Shaped
      <3>2. Left(walk', k, s)
        BY <2>1, <3>1
      <3>3. Defining(s)'
        BY <2>1, <3>1, DefiningKept
      <3> QED BY <3>2, <3>3 DEF Shaped
    <2> QED BY <2>1, <2>2, <2>3, <2>4
  <1>2. ASSUME Same, phase' \notin {"listen"}, phase' = "over" \/ phase \notin {"listen", "over"}
        PROVE ListenInv'
    BY <1>1, <1>2 DEF ListenInv
  <1>3. CASE UNCHANGED vars
    BY <1>1, <1>3 DEF ListenInv, vars, driverVars
  <1>4. CASE Main \/ Run \/ Parse \/ Compile \/ Generate \/ Check \/ Solve
    <2>1. Same /\ phase \notin {"listen", "over"}
      BY <1>4 DEF Main, Run, Parse, Compile, Generate, Check, Solve
    <2>2. phase' # "listen"
      BY <1>4 DEF Main, Run, Parse, Compile, Generate, Check, Solve, Go, Die, Over
    <2> QED BY <1>2, <2>1, <2>2
  <1>5. CASE CleanExtraOutputs
    <2>1. phase = "clean" /\ walk = <<>> /\ NewSMTListener
      BY <1>5 DEF CleanExtraOutputs, ListenInv
    <2>2. UNCHANGED <<fuel, stack, Results, meant, said, malformed>>
      BY <1>5 DEF CleanExtraOutputs
    <2>3. NewSMTListener'
      BY <2>1, <2>2 DEF NewSMTListener
    <2>4. Told'
      BY <2>1, <2>2, NothingTold, ToldKept
    <2>5. CASE UNCHANGED walk /\ phase' # "listen"
      BY <2>1, <2>3, <2>4, <2>5 DEF ListenInv
    <2>6. CASE phase' = "listen" /\ walk' = <<Rule("start")>>
      <3>1. Left(walk', 0, <<"start">>) /\ Defining(<<"start">>)
        BY <2>1, <2>6, AllAhead
      <3>2. Shaped'
        BY <2>2, <3>1, DefiningKept DEF Shaped
      <3> QED BY <2>4, <2>6, <3>2 DEF ListenInv
    <2> QED BY <1>5, <2>1, <2>5, <2>6 DEF CleanExtraOutputs, Die, Over, Go
  <1>6. CASE Walk
    <2>1. phase = "listen" /\ phase' = "listen" /\ Listen
      BY <1>6 DEF Walk, driverVars
    <2>2. ASSUME ~malformed' PROVE Shaped' /\ Told'
      <3>1. ~malformed
        BY <2>1, <2>2, MalformedStays
      <3>2. Shaped /\ Told
        BY <2>1, <3>1 DEF ListenInv
      <3> QED BY <2>1, <2>2, <3>2, ListenKept
    <2> QED BY <2>1, <2>2 DEF ListenInv
  <1>7. CASE Show
    <2>1. Same /\ phase' = "over"
      BY <1>7 DEF Show, Die, Over
    <2> QED BY <1>2, <2>1
  <1>8. CASE Done
    BY <1>3, <1>8 DEF Done
  <1> QED BY <1>3, <1>4, <1>5, <1>6, <1>7, <1>8 DEF Next

\* Within half a unit.
LEMMA WithinHalf ==
  ASSUME NEW v \in Int, NEW n \in Int, NEW d \in Nat, 2 * (v - n) <= d, 2 * (n - v) <= d
  PROVE  LET off == v - n IN 2 * (IF off < 0 THEN -off ELSE off) <= d
  OBVIOUS

\* What is kept in the sense of the invariant is kept.
LEMMA KeptSame ==
  ASSUME NEW d \in Definitions, KeptIn(Results, d)
  PROVE  Kept(d)
  <1>1. PICK v : v = Results[d.id][d.version]
    OBVIOUS
  <1>2. PICK e : e = d.value
    OBVIOUS
  <1>3. SameValue(v, e, Sort[d.id]) /\ d.version \in DOMAIN Results[d.id]
    BY <1>1, <1>2 DEF KeptIn
  <1>4. CASE Sort[d.id] = "Bool"
    BY <1>1, <1>2, <1>3, <1>4 DEF Kept, SameValue
  <1>5. CASE Sort[d.id] # "Bool"
    <2>1. /\ v \in Int /\ e.num \in Int /\ e.den \in Nat
          /\ 2 * (v * e.den - e.num * Scale) <= e.den
          /\ 2 * (e.num * Scale - v * e.den) <= e.den
      BY <1>3, <1>5 DEF SameValue
    <2>2. PICK x \in Int, y \in Int : x = v * e.den /\ y = e.num * Scale
      BY <2>1, SmtListenerAssumption
    <2>3. LET off == x - y IN 2 * (IF off < 0 THEN -off ELSE off) <= e.den
      BY <2>1, <2>2, WithinHalf
    <2>4. LET off == v * e.den - e.num * Scale IN 2 * (IF off < 0 THEN -off ELSE off) <= e.den
      BY <2>2, <2>3
    <2> QED BY <1>1, <1>2, <1>3, <1>5, <2>4 DEF Kept
  <1> QED BY <1>4, <1>5

\* The invariant says what AnswerKept says.
LEMMA ToldIsKept ==
  ASSUME ListenInv
  PROVE  AnswerKept
  <1> SUFFICES ASSUME ~malformed
               PROVE  /\ \A i \in DOMAIN said : Kept(said[i])
                      /\ \A id \in Ids : DOMAIN Results[id] = {said[i].version : i \in {j \in DOMAIN said : said[j].id = id}}
    BY DEF AnswerKept
  <1>1. Told
    BY DEF ListenInv
  <1>2. DOMAIN said = 1..Len(said) /\ \A i \in DOMAIN said : said[i] \in Definitions
    BY <1>1 DEF Told
  <1>3. \A i \in DOMAIN said : Kept(said[i])
    BY <1>1, <1>2, KeptSame DEF Told
  <1> QED BY <1>1, <1>3 DEF Told, VersionsOf

(***************************************************************************)
(* AnswerKept, for every set of variables, sorts, literals and versions    *)
(* and for answers of any length: execute/responses.go keeps every value   *)
(* that the solver gives under its variable and version, within half a     *)
(* unit of the last digit that %f prints, and keeps nothing else.  Answers *)
(* with negative numbers are left out: MergeTermParts drops the sign.      *)
(***************************************************************************)
THEOREM AnswerIsKept == ASSUME ~Negatives PROVE Spec => []AnswerKept
  <1>1. Init => ListenInv
    <2> SUFFICES ASSUME Init PROVE ListenInv
      OBVIOUS
    <2>1. phase = "main" /\ walk = <<>> /\ NewSMTListener
      BY DEF Init
    <2>2. Told
      BY <2>1, NothingTold
    <2> QED BY <2>1, <2>2 DEF ListenInv
  <1>2. ListenInv /\ [Next]_vars => ListenInv'
    BY ListenInvKept
  <1>3. ListenInv => AnswerKept
    BY ToldIsKept
  <1> QED BY <1>1, <1>2, <1>3, PTL DEF Spec
=============================================================================
