------------------------- MODULE ReachabilityProofs -------------------------
(***************************************************************************)
(* The verdict of the Tracer does not depend on the order of its walk, for *)
(* specs of any size.                                                      *)
(***************************************************************************)
EXTENDS Reachability, TLAPS

\* What the walk still has to see.
ToMention == AllMentioned(rest) \cup (UNION {Targets(f.body) : f \in pairs}) \cup Targets(body)
ToDefine  == AllDefined(rest) \cup {f.id : f \in pairs}

\* The Tracer keeps each state that it has seen mentioned in one of two places,
\* found if it is defined so far and undefined if it is not; together with what is
\* still to come this is all that the spec mentions and defines.
Sorted ==
  /\ found \subseteq graph
  /\ undefined \cap graph = {}
  /\ found \cup undefined \cup ToMention = AllMentioned(spec)
  /\ graph \cup ToDefine = AllDefined(spec)

WalkInv ==
  /\ rest \in Seq(Statements)
  /\ pairs \in SUBSET Functions
  /\ body \in Seq(Transitions)
  /\ Walking => Sorted
  /\ VerdictExact

\* The first statement of a spec is mentioned and defined with the others.
LEMMA FirstStatement ==
  ASSUME NEW ss \in Seq(Statements), ss # <<>>
  PROVE  /\ AllMentioned(ss) = Mentioned(Head(ss)) \cup AllMentioned(Tail(ss))
         /\ AllDefined(ss) = Defined(Head(ss)) \cup AllDefined(Tail(ss))
         /\ Head(ss) \in Statements /\ Tail(ss) \in Seq(Statements)
<1>1. DOMAIN ss = 1..Len(ss) /\ DOMAIN Tail(ss) = 1..(Len(ss) - 1) /\ Len(ss) \in Nat \ {0}
  OBVIOUS
<1>2. Head(ss) = ss[1] /\ \A i \in DOMAIN Tail(ss) : Tail(ss)[i] = ss[i + 1]
  OBVIOUS
<1>3. \A i \in DOMAIN ss : i = 1 \/ (i - 1 \in DOMAIN Tail(ss) /\ Tail(ss)[i - 1] = ss[i])
  BY <1>1, <1>2
<1>4. \A i \in DOMAIN Tail(ss) : i + 1 \in DOMAIN ss
  BY <1>1
<1>5. 1 \in DOMAIN ss
  BY <1>1
<1>6. AllMentioned(ss) = Mentioned(Head(ss)) \cup AllMentioned(Tail(ss))
  <2>1. AllMentioned(ss) \subseteq Mentioned(Head(ss)) \cup AllMentioned(Tail(ss))
    BY <1>2, <1>3 DEF AllMentioned
  <2>2. Mentioned(Head(ss)) \subseteq AllMentioned(ss)
    BY <1>2, <1>5 DEF AllMentioned
  <2>3. AllMentioned(Tail(ss)) \subseteq AllMentioned(ss)
    BY <1>2, <1>4 DEF AllMentioned
  <2> QED BY <2>1, <2>2, <2>3
<1>7. AllDefined(ss) = Defined(Head(ss)) \cup AllDefined(Tail(ss))
  <2>1. AllDefined(ss) \subseteq Defined(Head(ss)) \cup AllDefined(Tail(ss))
    BY <1>2, <1>3 DEF AllDefined
  <2>2. Defined(Head(ss)) \subseteq AllDefined(ss)
    BY <1>2, <1>5 DEF AllDefined
  <2>3. AllDefined(Tail(ss)) \subseteq AllDefined(ss)
    BY <1>2, <1>4 DEF AllDefined
  <2> QED BY <2>1, <2>2, <2>3
<1>8. Head(ss) \in Statements /\ Tail(ss) \in Seq(Statements)
  OBVIOUS
<1> QED
  BY <1>6, <1>7, <1>8

\* The first transition of a state, likewise.
LEMMA FirstTransition ==
  ASSUME NEW ts \in Seq(Transitions), ts # <<>>
  PROVE  /\ Targets(ts) = (IF Head(ts).chain THEN {} ELSE {Head(ts).to}) \cup Targets(Tail(ts))
         /\ Tail(ts) \in Seq(Transitions)
<1>1. DOMAIN ts = 1..Len(ts) /\ DOMAIN Tail(ts) = 1..(Len(ts) - 1) /\ Len(ts) \in Nat \ {0}
  OBVIOUS
<1>2. Head(ts) = ts[1] /\ \A i \in DOMAIN Tail(ts) : Tail(ts)[i] = ts[i + 1]
  OBVIOUS
<1>3. \A i \in DOMAIN ts : i = 1 \/ (i - 1 \in DOMAIN Tail(ts) /\ Tail(ts)[i - 1] = ts[i])
  BY <1>1, <1>2
<1>4. \A i \in DOMAIN Tail(ts) : i + 1 \in DOMAIN ts
  BY <1>1
<1>5. 1 \in DOMAIN ts
  BY <1>1
<1>6. Targets(ts) = (IF Head(ts).chain THEN {} ELSE {Head(ts).to}) \cup Targets(Tail(ts))
  <2> DEFINE first == IF Head(ts).chain THEN {} ELSE {Head(ts).to}
  <2>1. ASSUME NEW x \in Targets(ts) PROVE x \in first \cup Targets(Tail(ts))
    <3>1. PICK i \in DOMAIN ts : ~ts[i].chain /\ x = ts[i].to
      BY <2>1 DEF Targets
    <3>2. CASE i = 1
      BY <3>1, <3>2, <1>2
    <3>3. CASE i # 1
      BY <3>1, <3>3, <1>3 DEF Targets
    <3> QED
      BY <3>2, <3>3
  <2>2. first \subseteq Targets(ts)
    BY <1>2, <1>5 DEF Targets
  <2>3. ASSUME NEW x \in Targets(Tail(ts)) PROVE x \in Targets(ts)
    <3>1. PICK i \in DOMAIN Tail(ts) : ~Tail(ts)[i].chain /\ x = Tail(ts)[i].to
      BY <2>3 DEF Targets
    <3> QED
      BY <3>1, <1>2, <1>4 DEF Targets
  <2> HIDE DEF first
  <2>4. Targets(ts) = first \cup Targets(Tail(ts))
    BY <2>1, <2>2, <2>3
  <2> QED
    BY <2>4 DEF first
<1>7. Tail(ts) \in Seq(Transitions)
  OBVIOUS
<1> QED
  BY <1>6, <1>7

LEMMA StepComponent ==
  ASSUME WalkInv, WalkComponent
  PROVE  WalkInv'
<1>1. /\ AllMentioned(rest) = Mentioned(Head(rest)) \cup AllMentioned(rest')
      /\ AllDefined(rest) = Defined(Head(rest)) \cup AllDefined(rest')
      /\ Head(rest) \in Statements /\ rest' \in Seq(Statements)
  BY FirstStatement DEF WalkComponent, WalkInv
<1>2. /\ Head(rest).do = "component" /\ pairs' = Head(rest).pairs /\ pairs = {}
      /\ body' = body
  BY DEF WalkComponent
<1>3. pairs' \subseteq Functions
  BY <1>1, <1>2 DEF Statements
<1>4. /\ Mentioned(Head(rest)) = UNION {Targets(f.body) : f \in pairs'}
      /\ Defined(Head(rest)) = {f.id : f \in pairs'}
  BY <1>2 DEF Mentioned, Defined, Pairs
<1>5. ToMention' = ToMention /\ ToDefine' = ToDefine
  BY <1>1, <1>2, <1>4 DEF ToMention, ToDefine
<1> QED
  BY <1>1, <1>2, <1>3, <1>5 DEF WalkInv, WalkComponent, Walking, Sorted, VerdictExact

LEMMA StepStart ==
  ASSUME WalkInv, WalkStart
  PROVE  WalkInv'
<1>1. /\ AllMentioned(rest) = Mentioned(Head(rest)) \cup AllMentioned(rest')
      /\ AllDefined(rest) = Defined(Head(rest)) \cup AllDefined(rest')
      /\ rest' \in Seq(Statements)
  BY FirstStatement DEF WalkStart, WalkInv
<1>2. Mentioned(Head(rest)) = Head(rest).ids /\ Defined(Head(rest)) = {}
  BY DEF WalkStart, Mentioned, Defined, Pairs
<1>3. ToMention = Head(rest).ids \cup ToMention' /\ ToDefine' = ToDefine
  BY <1>1, <1>2 DEF WalkStart, ToMention, ToDefine
<1>4. Sorted'
  BY <1>3 DEF WalkInv, WalkStart, Mention, Walking, Sorted
<1> QED
  BY <1>1, <1>4 DEF WalkInv, WalkStart, Walking, VerdictExact

LEMMA StepFunction ==
  ASSUME WalkInv, WalkFunction
  PROVE  WalkInv'
<1>1. PICK g \in pairs : /\ pairs' = pairs \ {g}
                         /\ body' = g.body
                         /\ graph' = graph \cup {g.id}
                         /\ SeenBefore(g.id)
  BY DEF WalkFunction
<1>2. body = <<>> /\ rest' = rest /\ spec' = spec /\ verdict' = verdict /\ Walking
  BY DEF WalkFunction
<1>3. Targets(body) = {}
  BY <1>2 DEF Targets
<1>4. ToMention' = ToMention
  BY <1>1, <1>2, <1>3 DEF ToMention
<1>5. ToDefine = ToDefine' \cup {g.id}
  BY <1>1, <1>2 DEF ToDefine
<1>6. Sorted'
  BY <1>1, <1>2, <1>4, <1>5 DEF WalkInv, SeenBefore, Sorted
<1>7. body' \in Seq(Transitions)
  BY <1>1 DEF WalkInv, Functions
<1> QED
  BY <1>1, <1>2, <1>6, <1>7 DEF WalkInv, Walking, VerdictExact

LEMMA StepBuiltIn ==
  ASSUME WalkInv, WalkBuiltIn
  PROVE  WalkInv'
<1>1. Targets(body) = {Head(body).to} \cup Targets(body') /\ body' \in Seq(Transitions)
  BY FirstTransition DEF WalkBuiltIn, WalkInv
<1>2. ToMention = {Head(body).to} \cup ToMention' /\ ToDefine' = ToDefine
  BY <1>1 DEF WalkBuiltIn, ToMention, ToDefine
<1>3. Sorted'
  BY <1>2 DEF WalkInv, WalkBuiltIn, Mention, Walking, Sorted
<1> QED
  BY <1>1, <1>3 DEF WalkInv, WalkBuiltIn, Walking, VerdictExact

LEMMA StepChain ==
  ASSUME WalkInv, WalkChain
  PROVE  WalkInv'
<1>1. Targets(body) = Targets(body') /\ body' \in Seq(Transitions)
  BY FirstTransition DEF WalkChain, WalkInv
<1>2. ToMention = ToMention' /\ ToDefine' = ToDefine
  BY <1>1 DEF WalkChain, ToMention, ToDefine
<1> QED
  BY <1>1, <1>2 DEF WalkInv, WalkChain, Walking, Sorted, VerdictExact

LEMMA StepCheck ==
  ASSUME WalkInv, Check
  PROVE  WalkInv'
<1>1. AllMentioned(rest) = {} /\ AllDefined(rest) = {} /\ Targets(body) = {}
  BY DEF Check, AllMentioned, AllDefined, Targets
<1>2. ToMention = {} /\ ToDefine = {}
  BY <1>1 DEF Check, ToMention, ToDefine
<1>3. undefined' = (AllDefined(spec) \ AllMentioned(spec)) \cup (AllMentioned(spec) \ AllDefined(spec))
  BY <1>2 DEF WalkInv, Check, Walking, Sorted
<1>4. spec' = spec /\ verdict' = IF undefined' = {} THEN "ok" ELSE "error"
  BY DEF Check
<1> QED
  BY <1>3, <1>4 DEF WalkInv, Check, Walking, VerdictExact

\* Whatever the order of Go's map iteration, the Tracer reports the states that are
\* defined and not mentioned and those that are mentioned and not defined.
THEOREM Exact == Spec => []VerdictExact
<1>1. Init => WalkInv
  <2> SUFFICES ASSUME Init PROVE WalkInv
    OBVIOUS
  <2>1. Targets(body) = {} /\ rest \in Seq(Statements)
    BY SpecsAssumption DEF Init, Targets
  <2>2. ToMention = AllMentioned(spec) /\ ToDefine = AllDefined(spec)
    BY <2>1 DEF Init, ToMention, ToDefine
  <2> QED
    BY <2>1, <2>2 DEF Init, WalkInv, Walking, Sorted, VerdictExact
<1>2. WalkInv /\ [Next]_vars => WalkInv'
  <2> SUFFICES ASSUME WalkInv, [Next]_vars PROVE WalkInv'
    OBVIOUS
  <2>1. CASE UNCHANGED vars
    BY <2>1 DEF vars, WalkInv, Walking, Sorted, VerdictExact, ToMention, ToDefine
  <2> QED
    BY <2>1, StepComponent, StepStart, StepFunction, StepBuiltIn, StepChain, StepCheck
       DEF Next, Step
<1>3. WalkInv => VerdictExact
  BY DEF WalkInv
<1> QED
  BY <1>1, <1>2, <1>3, PTL DEF Spec

-----------------------------------------------------------------------------
\* One step keeps the types.
LEMMA StepTypes == TypeOK /\ [Next]_vars => TypeOK'
<1> SUFFICES ASSUME TypeOK, [Next]_vars PROVE TypeOK'
  OBVIOUS
<1>1. ASSUME rest # <<>> PROVE Head(rest) \in Statements /\ Tail(rest) \in Seq(Statements)
  BY <1>1 DEF TypeOK
<1>2. ASSUME body # <<>> PROVE Head(body) \in Transitions /\ Tail(body) \in Seq(Transitions)
  BY <1>2 DEF TypeOK
<1>3. CASE WalkComponent
  <2>1. Head(rest).pairs \in SUBSET Functions
    BY <1>1, <1>3 DEF WalkComponent, Statements
  <2> QED
    BY <1>1, <1>3, <2>1 DEF WalkComponent, TypeOK
<1>4. CASE WalkStart
  <2>1. Head(rest).ids \in SUBSET States
    BY <1>1, <1>4 DEF WalkStart, Statements
  <2> QED
    BY <1>1, <1>4, <2>1 DEF WalkStart, Mention, TypeOK
<1>5. CASE WalkFunction
  <2>1. PICK f \in pairs : /\ pairs' = pairs \ {f}
                           /\ body' = f.body
                           /\ graph' = graph \cup {f.id}
                           /\ SeenBefore(f.id)
    BY <1>5 DEF WalkFunction
  <2>2. f.id \in States /\ f.body \in Seq(Transitions)
    BY DEF TypeOK, Functions
  <2>3. found' \subseteq graph' /\ undefined' \subseteq undefined
    BY <2>1 DEF SeenBefore, TypeOK
  <2> QED
    BY <1>5, <2>1, <2>2, <2>3 DEF WalkFunction, TypeOK
<1>6. CASE WalkBuiltIn
  <2>1. Head(body).to \in States
    BY <1>2, <1>6 DEF WalkBuiltIn, Transitions
  <2> QED
    BY <1>2, <1>6, <2>1 DEF WalkBuiltIn, Mention, TypeOK
<1>7. CASE WalkChain
  BY <1>2, <1>7 DEF WalkChain, TypeOK
<1>8. CASE Check
  BY <1>8 DEF Check, TypeOK
<1>9. CASE UNCHANGED vars
  BY <1>9 DEF vars, TypeOK
<1> QED
  BY <1>3, <1>4, <1>5, <1>6, <1>7, <1>8, <1>9 DEF Next, Step

\* TypeOK: the Tracer marks no state as found that it has not defined.
THEOREM TypeCorrect == Spec => []TypeOK
<1>1. Init => TypeOK
  BY SpecsAssumption DEF Init, TypeOK
<1> QED
  BY <1>1, StepTypes, PTL DEF Spec
=============================================================================
