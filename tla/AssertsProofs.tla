---------------------------- MODULE AssertsProofs ----------------------------
(***************************************************************************)
(* The expansion of an assertion about one variable, for any number of     *)
(* rounds, versions and times: without a filter it means what was written, *)
(* and a filter raises no false alarm.                                     *)
(***************************************************************************)
EXTENDS Asserts, FiniteSetTheorems, TLAPS

Entries == [base : {"x", "y"}, num : Nat]

\* What is compiled is what compileAssert made of what is written, for a number that
\* it accepted.
AssertsInv ==
  /\ RoundVars \in Seq(Seq(Entries))
  /\ written # None => /\ written \in Assertions
                       /\ compiled = Compiled(written)
                       /\ VersionsOf("x") # <<>>

-----------------------------------------------------------------------------
LEMMA UpToFinite == \A n \in Nat : IsFiniteSet(1..n)
<1> TAKE n \in Nat
<1>1. 1 \in Int /\ n \in Int
  OBVIOUS
<1> QED
  BY <1>1, FS_Interval

\* The versions of a variable can be counted.
LEMMA VersionsCounted ==
  ASSUME RoundVars \in Seq(Seq(Entries)), NEW base
  PROVE  /\ Cardinality(EntriesOf(base)) \in Nat
         /\ Len(VersionsOf(base)) = Cardinality(EntriesOf(base))
<1> DEFINE part == [i \in DOMAIN RoundVars |-> {i} \X DOMAIN RoundVars[i]]
           parts == {{i} \X DOMAIN RoundVars[i] : i \in DOMAIN RoundVars}
<1>1. IsFiniteSet(DOMAIN RoundVars)
  <2>1. Len(RoundVars) \in Nat /\ DOMAIN RoundVars = 1..Len(RoundVars)
    OBVIOUS
  <2> QED
    BY <2>1, UpToFinite
<1>2. part \in Surjection(DOMAIN RoundVars, parts)
  BY DEF Surjection
<1>3. IsFiniteSet(parts)
  BY <1>1, <1>2, FS_Surjection
<1>4. ASSUME NEW i \in DOMAIN RoundVars PROVE IsFiniteSet({i} \X DOMAIN RoundVars[i])
  <2>1. Len(RoundVars[i]) \in Nat /\ DOMAIN RoundVars[i] = 1..Len(RoundVars[i])
    OBVIOUS
  <2>2. IsFiniteSet(DOMAIN RoundVars[i]) /\ IsFiniteSet({i})
    BY <2>1, UpToFinite, FS_Singleton
  <2> QED
    BY <2>2, FS_Product
<1>5. IsFiniteSet(UNION parts)
  BY <1>3, <1>4, FS_UNION
<1>6. EntriesOf(base) \in SUBSET (UNION parts)
  BY DEF EntriesOf
<1>7. Cardinality(EntriesOf(base)) \in Nat
  BY <1>5, <1>6, FS_Subset, FS_CardinalityType
<1>8. PICK m \in Nat : m = Cardinality(EntriesOf(base))
  BY <1>7
<1>9. Len([k \in 1..m |-> k - 1]) = m
  OBVIOUS
<1> QED
  BY <1>8, <1>9 DEF VersionsOf

LEMMA AssertsInit == Init => AssertsInv
BY DEF Init, AssertsInv

LEMMA AssertsNext == AssertsInv /\ [Next]_vars => AssertsInv'
<1> SUFFICES ASSUME AssertsInv, [Next]_vars PROVE AssertsInv'
  OBVIOUS
<1>1. ASSUME NEW base \in {"x", "y"}, AddVarToRound(base) PROVE AssertsInv'
  <2>1. PICK e : e = [base |-> base, num |-> Len(VersionsOf(base))]
    OBVIOUS
  <2>2. e \in Entries
    BY <2>1, VersionsCounted DEF AssertsInv, Entries
  <2>3. RoundVars' = IF RoundVars = <<>> THEN <<<<e>>>>
                     ELSE [RoundVars EXCEPT ![Len(RoundVars)] = Append(@, e)]
    BY <1>1, <2>1 DEF AddVarToRound
  <2>4. RoundVars' \in Seq(Seq(Entries))
    <3>1. CASE RoundVars = <<>>
      <4>1. <<e>> \in Seq(Entries)
        BY <2>2
      <4>2. \A S : <<e>> \in S => <<<<e>>>> \in Seq(S)
        OBVIOUS
      <4> QED
        BY <2>3, <3>1, <4>1, <4>2
    <3>2. CASE RoundVars # <<>>
      <4>1. PICK n \in DOMAIN RoundVars : n = Len(RoundVars)
        BY <3>2 DEF AssertsInv
      <4>2. Append(RoundVars[n], e) \in Seq(Entries)
        BY <2>2 DEF AssertsInv
      <4>3. RoundVars' = [RoundVars EXCEPT ![n] = Append(RoundVars[n], e)]
        BY <2>3, <3>2, <4>1
      <4> QED
        BY <4>2, <4>3 DEF AssertsInv
    <3> QED
      BY <3>1, <3>2
  <2> QED
    BY <1>1, <2>4 DEF AddVarToRound, AssertsInv, None
<1>2. CASE NewRound
  <2>1. \A S : <<>> \in Seq(S)
    OBVIOUS
  <2>2. Append(RoundVars, <<>>) \in Seq(Seq(Entries))
    BY <2>1 DEF AssertsInv
  <2> QED
    BY <1>2, <2>2 DEF NewRound, AssertsInv
<1>3. ASSUME NEW a \in Assertions, CompileAssert(a) PROVE AssertsInv'
  BY <1>3 DEF CompileAssert, AssertsInv, VersionsOf, EntriesOf
<1>4. CASE UNCHANGED vars
  BY <1>4 DEF vars, AssertsInv, VersionsOf, EntriesOf
<1> QED
  BY <1>1, <1>2, <1>3, <1>4 DEF Next

-----------------------------------------------------------------------------
(***************************************************************************)
(* util.Combinations.                                                      *)
(***************************************************************************)
\* Each combination of n of m states is one: it has n members.
LEMMA CombinationsCount ==
  ASSUME NEW m \in Nat, NEW n \in 1..(m - 1), NEW c \in Combinations(m, n)
  PROVE  c \subseteq 1..m /\ IsFiniteSet(c) /\ Cardinality(c) = n
<1>1. CASE n = 1
  <2>1. PICK i \in 1..m : c = {i}
    BY <1>1 DEF Combinations
  <2> QED
    BY <1>1, <2>1, FS_Singleton
<1>2. CASE n # 1
  <2>1. PICK idx \in 1..(m - 1) : \E i \in idx..(m - n + 1) : c = {idx} \cup (i + 1)..(i + n - 1)
    <3>1. Combinations(m, n) =
            UNION {{{idx} \cup (i + 1)..(i + n - 1) : i \in idx..(m - n + 1)} : idx \in 1..(m - 1)}
      BY <1>2 DEF Combinations
    <3> QED
      BY <3>1
  <2>2. PICK i \in idx..(m - n + 1) : c = {idx} \cup (i + 1)..(i + n - 1)
    BY <2>1
  <2> DEFINE w == (i + 1)..(i + n - 1)
  <2>3. i \in Int /\ i + 1 \in Int /\ i + n - 1 \in Int
    OBVIOUS
  <2>4. IsFiniteSet(w) /\ Cardinality(w) = IF i + 1 > i + n - 1 THEN 0 ELSE (i + n - 1) - (i + 1) + 1
    BY <2>3, FS_Interval
  <2>5. Cardinality(w) = n - 1
    BY <2>3, <2>4, <1>2
  <2>6. idx \notin w
    BY <2>3
  <2>7. w \subseteq 1..m
    BY <2>3
  <2> HIDE DEF w
  <2>8. c = w \cup {idx}
    BY <2>2 DEF w
  <2>9. IsFiniteSet(c) /\ Cardinality(c) = Cardinality(w) + 1
    BY <2>4, <2>6, <2>8, FS_AddElement
  <2> QED
    BY <2>5, <2>7, <2>8, <2>9
<1> QED
  BY <1>1, <1>2

\* For one state and for two states every combination is there.
LEMMA SingleCombination ==
  ASSUME NEW m \in Nat, 1 < m, NEW i \in 1..m
  PROVE  {i} \in Combinations(m, 1)
BY DEF Combinations

LEMMA PairCombination ==
  ASSUME NEW m \in Nat, 2 < m, NEW i \in 1..m, NEW j \in 1..m, i < j
  PROVE  {i, j} \in Combinations(m, 2)
<1>1. j - 1 \in i..(m - 2 + 1) /\ i \in 1..(m - 1)
  OBVIOUS
<1>2. (j - 1 + 1)..(j - 1 + 2 - 1) = {j}
  OBVIOUS
<1>3. {i, j} = {i} \cup (j - 1 + 1)..(j - 1 + 2 - 1)
  BY <1>2
<1>4. Combinations(m, 2) = UNION {{{idx} \cup (k + 1)..(k + 2 - 1) : k \in idx..(m - 2 + 1)} : idx \in 1..(m - 1)}
  BY DEF Combinations
<1> QED
  BY <1>1, <1>3, <1>4

\* Two members of a set that has two.
LEMMA TwoMembers ==
  ASSUME NEW m \in Nat, NEW S \in SUBSET (1..m), Cardinality(S) >= 2
  PROVE  \E i, j \in S : i < j
<1>1. IsFiniteSet(S) /\ Cardinality(S) \in Nat
  BY UpToFinite, FS_Subset, FS_CardinalityType
<1>2. S # {}
  BY FS_EmptySet
<1>2a. PICK a \in S : TRUE
  BY <1>2
<1>3. IsFiniteSet(S \ {a}) /\ Cardinality(S \ {a}) = Cardinality(S) - 1
  BY <1>1, FS_RemoveElement
<1>4. S \ {a} # {}
  BY <1>1, <1>3, FS_EmptySet
<1>5. PICK b \in S : b # a
  BY <1>4
<1>6. a < b \/ b < a
  BY <1>5
<1> QED
  BY <1>6

-----------------------------------------------------------------------------
(***************************************************************************)
(* What the combinations of clauses say about the number of those that     *)
(* hold.                                                                   *)
(***************************************************************************)
True(m, cl)   == {k \in 1..m : cl[k]}
AllOf(cl, c)  == \A i \in c : cl[i]
NoneBut(m, cl, c) == (\E i \in c : cl[i]) /\ \A i \in (1..m) \ c : ~cl[i]

LEMMA TrueCounted ==
  ASSUME NEW m \in Nat, NEW cl
  PROVE  IsFiniteSet(True(m, cl)) /\ Cardinality(True(m, cl)) \in Nat /\ True(m, cl) \in SUBSET (1..m)
<1>1. True(m, cl) \in SUBSET (1..m)
  BY DEF True
<1> QED
  BY <1>1, UpToFinite, FS_Subset, FS_CardinalityType

\* A combination of which all hold: n hold at least.
LEMMA AtLeast ==
  ASSUME NEW m \in Nat, NEW n \in 1..(m - 1), NEW cl, NEW c \in Combinations(m, n), AllOf(cl, c)
  PROVE  n =< Cardinality(True(m, cl))
<1>1. c \subseteq 1..m /\ Cardinality(c) = n
  BY CombinationsCount
<1>2. c \in SUBSET True(m, cl)
  BY <1>1 DEF AllOf, True
<1> QED
  BY <1>1, <1>2, TrueCounted, FS_Subset

\* A combination outside of which none holds: n hold at most.
LEMMA AtMost ==
  ASSUME NEW m \in Nat, NEW n \in 1..(m - 1), NEW cl, NEW c \in Combinations(m, n), NoneBut(m, cl, c)
  PROVE  Cardinality(True(m, cl)) =< n
<1>1. IsFiniteSet(c) /\ Cardinality(c) = n
  BY CombinationsCount
<1>2. True(m, cl) \in SUBSET c
  BY DEF NoneBut, True
<1> QED
  BY <1>1, <1>2, FS_Subset

\* For one and for two, the combinations miss nothing.
LEMMA AtLeastFound ==
  ASSUME NEW m \in Nat, NEW n \in 1..(m - 1), n =< 2, NEW cl, n =< Cardinality(True(m, cl))
  PROVE  \E c \in Combinations(m, n) : AllOf(cl, c)
<1>1. CASE n = 1
  <2>1. True(m, cl) # {}
    BY <1>1, FS_EmptySet
  <2>2. PICK i \in 1..m : cl[i]
    BY <2>1 DEF True
  <2>3. {i} \in Combinations(m, n) /\ AllOf(cl, {i})
    BY <1>1, <2>2, SingleCombination DEF AllOf
  <2> QED
    BY <2>3
<1>2. CASE n = 2
  <2>1. PICK i, j \in True(m, cl) : i < j
    <3>1. True(m, cl) \in SUBSET (1..m) /\ Cardinality(True(m, cl)) >= 2
      BY <1>2, TrueCounted
    <3> QED
      BY <3>1, TwoMembers
  <2>2. i \in 1..m /\ j \in 1..m /\ cl[i] /\ cl[j]
    BY DEF True
  <2>3. {i, j} \in Combinations(m, n) /\ AllOf(cl, {i, j})
    BY <1>2, <2>1, <2>2, PairCombination DEF AllOf
  <2> QED
    BY <2>3
<1> QED
  BY <1>1, <1>2

LEMMA AtMostFound ==
  ASSUME NEW m \in Nat, NEW n \in 1..(m - 1), n =< 2, NEW cl,
         Cardinality(True(m, cl)) =< n, Cardinality(True(m, cl)) # 0
  PROVE  \E c \in Combinations(m, n) : NoneBut(m, cl, c)
<1> DEFINE t == Cardinality(True(m, cl))
<1>1. IsFiniteSet(True(m, cl)) /\ t \in Nat /\ True(m, cl) \in SUBSET (1..m)
  BY TrueCounted
<1>2. ASSUME NEW c \in Combinations(m, n), True(m, cl) \subseteq c
      PROVE  NoneBut(m, cl, c)
  <2>1. True(m, cl) # {}
    BY FS_EmptySet
  <2> QED
    BY <1>2, <2>1 DEF NoneBut, True
<1>3. CASE t = 1
  <2>1. PICK i : True(m, cl) = {i}
    BY <1>1, <1>3, FS_Singleton
  <2>2. i \in 1..m
    BY <1>1, <2>1
  <2>3. CASE n = 1
    <3>1. {i} \in Combinations(m, n)
      BY <2>2, <2>3, SingleCombination
    <3> QED
      BY <1>2, <2>1, <3>1
  <2>4. CASE n = 2
    <3>1. PICK j \in 1..m : i < j \/ j < i
      <4>1. 1 \in 1..m /\ 2 \in 1..m
        BY <2>4
      <4>2. CASE i = 1
        BY <4>1, <4>2
      <4>3. CASE i # 1
        BY <2>2, <4>1, <4>3
      <4> QED
        BY <4>2, <4>3
    <3>2. {i, j} \in Combinations(m, n) \/ {j, i} \in Combinations(m, n)
      BY <2>2, <2>4, <3>1, PairCombination
    <3>3. {i, j} = {j, i} /\ True(m, cl) \subseteq {i, j}
      BY <2>1
    <3> QED
      BY <1>2, <3>2, <3>3
  <2> QED
    BY <2>3, <2>4
<1>4. CASE t = 2
  <2>1. n = 2
    BY <1>4
  <2>2. PICK i, j \in True(m, cl) : i < j
    <3>1. Cardinality(True(m, cl)) >= 2
      BY <1>4
    <3> QED
      BY <1>1, <3>1, TwoMembers
  <2>3. i \in 1..m /\ j \in 1..m
    BY <1>1
  <2>4. {i, j} \in Combinations(m, n)
    BY <2>1, <2>2, <2>3, PairCombination
  <2>5. True(m, cl) \subseteq {i, j}
    <3>1. {i, j} \in SUBSET True(m, cl)
      OBVIOUS
    <3>2. IsFiniteSet({i, j}) /\ Cardinality({i, j}) = 2
      BY <2>4, <2>1, CombinationsCount
    <3> QED
      BY <1>1, <1>4, <3>1, <3>2, FS_Subset
  <2> QED
    BY <1>2, <2>4, <2>5
<1>5. t = 1 \/ t = 2
  BY <1>1
<1> QED
  BY <1>3, <1>4, <1>5

-----------------------------------------------------------------------------
(***************************************************************************)
(* The clauses of an assertion about x.                                    *)
(***************************************************************************)
\* The truths of the states, each one negated if neg is true.
Negated(m, truths, neg) == [k \in 1..m |-> truths[k] # neg]

\* x has m versions, numbered from 0.
VersionsAre(m) == m \in Nat \ {0} /\ VersionsOf("x") = [k \in 1..m |-> k - 1]

LEMMA SomeVersions ==
  ASSUME AssertsInv, written # None
  PROVE  \E m : VersionsAre(m) /\ Len(VersionsOf("x")) = m
<1>1. PICK m \in Nat : m = Cardinality(EntriesOf("x"))
  BY VersionsCounted DEF AssertsInv
<1>2. VersionsOf("x") = [k \in 1..m |-> k - 1] /\ Len(VersionsOf("x")) = m
  BY <1>1, VersionsCounted DEF AssertsInv, VersionsOf
<1>3. m # 0
  BY <1>2 DEF AssertsInv
<1> QED
  BY <1>2, <1>3 DEF VersionsAre

\* What is written.
LEMMA WrittenType ==
  ASSUME AssertsInv, written # None
  PROVE  /\ written.assume \in BOOLEAN /\ written.form \in Forms /\ written.temporal \in Temporals
         /\ written.filter \in {"no", "nmt", "nft"} /\ written.n \in Nat
         /\ written.filter # "no" => written.temporal = "no"
         /\ written.sides \in Sides(written.form)
<1>1. written \in Assertions
  BY DEF AssertsInv
<1>2. PICK form \in Forms :
        written \in {[form |-> form, sides |-> sides, assume |-> assume,
                      temporal |-> w.temporal, filter |-> w.filter, n |-> w.n] :
                       sides \in Sides(form), assume \in BOOLEAN, w \in Words}
  BY <1>1 DEF Assertions
<1>3. PICK sides \in Sides(form), assume \in BOOLEAN, w \in Words :
        written = [form |-> form, sides |-> sides, assume |-> assume,
                   temporal |-> w.temporal, filter |-> w.filter, n |-> w.n]
  BY <1>2
<1>4. /\ w.temporal \in Temporals /\ w.filter \in {"no", "nmt", "nft"} /\ w.n \in Nat
      /\ w.filter # "no" => w.temporal = "no"
  BY AssertsAssumption DEF Words, Temporals
<1> QED
  BY <1>3, <1>4

\* What it is compiled to: negated, unless it is an assumption or has a filter.
LEMMA CompiledTo ==
  ASSUME AssertsInv, written # None
  PROVE  /\ compiled.wrapped = Constraint(written).wrapped
         /\ written.filter = "no" =>
              /\ compiled.filter = "no"
              /\ written.assume => compiled.form = written.form /\ compiled.sides = Constraint(written).sides
              /\ ~written.assume =>
                   /\ compiled.form = CASE written.form = "and" -> "or"
                                        [] written.form = "or" -> "and"
                                        [] OTHER -> written.form
                   /\ compiled.sides = [i \in DOMAIN Constraint(written).sides |->
                                          Negate(Constraint(written).sides[i])]
         /\ written.filter # "no" =>
              /\ compiled.form = written.form /\ compiled.sides = Constraint(written).sides
              /\ written.assume => compiled.filter = written.filter /\ compiled.n = written.n
              /\ ~written.assume => /\ written.filter = "nmt" => compiled.filter = "nft" /\ compiled.n = written.n + 1
                                    /\ written.filter = "nft" => compiled.filter = "nmt" /\ compiled.n = written.n - 1
<1>1. compiled = Compiled(written)
  BY DEF AssertsInv
<1>2. written.assume \in BOOLEAN /\ written.filter \in {"no", "nmt", "nft"}
  BY WrittenType
<1>3. PICK sides, wrapped :
        Constraint(written) = [form |-> written.form, sides |-> sides, wrapped |-> wrapped,
                               filter |-> written.filter, n |-> written.n]
  BY DEF Constraint
<1>4. CASE written.assume
  <2>1. compiled = Constraint(written)
    BY <1>1, <1>4 DEF Compiled
  <2> QED
    BY <1>3, <1>4, <2>1
<1>5. CASE ~written.assume /\ written.filter = "no"
  <2>1. compiled = [Constraint(written) EXCEPT
                      !.form = CASE @ = "and" -> "or" [] @ = "or" -> "and" [] OTHER -> @,
                      !.sides = [i \in DOMAIN @ |-> Negate(@[i])]]
    BY <1>1, <1>5 DEF Compiled
  <2> QED
    BY <1>3, <1>5, <2>1
<1>6. CASE ~written.assume /\ written.filter # "no"
  <2>1. compiled = [Constraint(written) EXCEPT !.filter = NegateTemporal(written.filter, written.n).filter,
                                               !.n = NegateTemporal(written.filter, written.n).n]
    BY <1>1, <1>6 DEF Compiled
  <2> QED
    BY <1>2, <1>3, <1>6, <2>1 DEF NegateTemporal
<1> QED
  BY <1>2, <1>4, <1>5, <1>6

\* The sides of a constraint about one variable, after the listener has read them.
LEMMA SidesRead ==
  ASSUME AssertsInv, written # None, written.form \in {"atom", "and", "or"}
  PROVE  /\ written.form = "atom" => 1 \in DOMAIN written.sides
         /\ written.form # "atom" => 1 \in DOMAIN written.sides /\ 2 \in DOMAIN written.sides
         /\ DOMAIN Constraint(written).sides = DOMAIN written.sides
         /\ \A i \in DOMAIN written.sides :
              /\ written.sides[i] \in Comparisons \cup {NotVariable}
              /\ Constraint(written).sides[i] = IF written.sides[i] = NotVariable
                                                THEN [op |-> "!=", with |-> "true"] ELSE written.sides[i]
         /\ Constraint(written).wrapped = (written.assume /\ written.form = "atom" /\ written.sides[1].op = "!=")
<1>1. written.sides \in Sides(written.form)
  BY WrittenType
<1>2. /\ written.form = "atom" => written.sides \in [1..1 -> Comparisons \cup {NotVariable}]
      /\ written.form # "atom" => written.sides \in [1..2 -> Operands]
  BY <1>1 DEF Sides
<1>3. \A i \in DOMAIN written.sides : written.sides[i] \in Comparisons \cup {NotVariable}
  BY <1>2, AssertsAssumption
<1>4. /\ written.form = "atom" => 1 \in DOMAIN written.sides
      /\ written.form # "atom" => 1 \in DOMAIN written.sides /\ 2 \in DOMAIN written.sides
  BY <1>2
<1>5. /\ Constraint(written).sides =
           [i \in DOMAIN written.sides |-> IF written.sides[i] = NotVariable
                                           THEN [op |-> "!=", with |-> "true"] ELSE written.sides[i]]
      /\ Constraint(written).wrapped =
           (written.assume /\ written.form \in {"atom", "pair"} /\ written.sides[1].op = "!=")
  BY DEF Constraint
<1> QED
  BY <1>3, <1>4, <1>5

\* packageStateGraph writes what a comparison means, and its negation after negate, but
\* for comparisons with Booleans.
LEMMA SideSays ==
  ASSUME NEW c \in Comparisons \cup {NotVariable}, NEW v \in BOOLEAN,
         NEW d, d = IF c = NotVariable THEN [op |-> "!=", with |-> "true"] ELSE c
  PROVE  /\ c.with = "number" \/ c = [op |-> "==", with |-> "true"] => Says(Negate(d), v) = ~Means(c, v)
         /\ c # [op |-> "!=", with |-> "false"] => Says(d, v) = Means(c, v)
         /\ c = [op |-> "!=", with |-> "false"] => Says(d, v) = ~Means(c, v)
<1>1. CASE c = NotVariable
  <2>1. d.op = "!=" /\ d.with = "true" /\ c.op = "!" /\ c.with = "true"
    BY <1>1 DEF NotVariable
  <2> QED
    BY <1>1, <2>1 DEF NotVariable, Says, Means
<1>2. CASE c \in Comparisons
  <2>1. d = c /\ c.op \in {"==", "!="} /\ c.with \in {"number", "true", "false"}
    BY <1>2 DEF Comparisons, Operators, NotVariable
  <2>2. c = [op |-> c.op, with |-> c.with]
    BY <1>2 DEF Comparisons
  <2>3. /\ Negate(c).op = IF c.op = "==" THEN "!=" ELSE "=="
        /\ c.with = "true" => Negate(c).with = "false"
        /\ c.with = "false" => Negate(c).with = "true"
        /\ c.with = "number" => Negate(c).with = "number"
    BY <2>1 DEF Negate
  <2>4. /\ c = [op |-> "==", with |-> "true"] <=> c.op = "==" /\ c.with = "true"
        /\ c = [op |-> "!=", with |-> "false"] <=> c.op = "!=" /\ c.with = "false"
    BY <2>2
  <2> QED
    BY <2>1, <2>3, <2>4 DEF Says, Means
<1> QED
  BY <1>1, <1>2

\* Without a filter: what an upright comparison of an assertion says is the negation of
\* what it means, and in an assumption just that.
LEMMA UprightSays ==
  ASSUME AssertsInv, written # None, written.form \in {"atom", "and", "or"}, written.filter = "no",
         Upright, NEW i \in DOMAIN written.sides, written.form = "atom" => i = 1, NEW v \in BOOLEAN
  PROVE  (compiled.wrapped # Says(compiled.sides[i], v)) = (Means(written.sides[i], v) # ~written.assume)
<1>1. PICK c : c = written.sides[i]
  OBVIOUS
<1>2. PICK d : d = Constraint(written).sides[i]
  OBVIOUS
<1>3. /\ c \in Comparisons \cup {NotVariable}
      /\ d = IF c = NotVariable THEN [op |-> "!=", with |-> "true"] ELSE c
      /\ i \in DOMAIN Constraint(written).sides
      /\ compiled.wrapped = (written.assume /\ written.form = "atom" /\ written.sides[1].op = "!=")
  BY <1>1, <1>2, SidesRead, CompiledTo
<1>4. /\ c.with = "number" \/ c = [op |-> "==", with |-> "true"] => Says(Negate(d), v) = ~Means(c, v)
      /\ c # [op |-> "!=", with |-> "false"] => Says(d, v) = Means(c, v)
      /\ c = [op |-> "!=", with |-> "false"] => Says(d, v) = ~Means(c, v)
  BY <1>3, SideSays
<1>5. ~Inverted(c)
  BY <1>1 DEF Upright
<1>6. Says(d, v) \in BOOLEAN /\ Means(c, v) \in BOOLEAN /\ Says(Negate(d), v) \in BOOLEAN
  BY DEF Says, Means
<1>7. CASE written.assume
  <2>1. compiled.sides[i] = d
    BY <1>2, <1>7, CompiledTo
  <2>2. ~(compiled.wrapped # (c = [op |-> "!=", with |-> "false"]))
    BY <1>5, <1>7 DEF Inverted
  <2> QED
    BY <1>1, <1>3, <1>4, <1>6, <1>7, <2>1, <2>2
<1>8. CASE ~written.assume
  <2>1. compiled.sides[i] = Negate(d)
    BY <1>2, <1>3, <1>8, CompiledTo
  <2>2. c.with \notin {"true", "false"} \/ c = [op |-> "==", with |-> "true"]
    BY <1>5, <1>8 DEF Inverted
  <2>3. c.with \in {"number", "true", "false"}
    BY <1>3 DEF Comparisons, NotVariable
  <2>4. Says(Negate(d), v) = ~Means(c, v)
    BY <1>4, <2>2, <2>3
  <2>5. compiled.wrapped = FALSE
    BY <1>3, <1>8
  <2> QED
    BY <1>1, <1>6, <1>8, <2>1, <2>4, <2>5
<1> QED
  BY <1>7, <1>8, WrittenType

LEMMA VersionNumbers ==
  ASSUME NEW m, VersionsAre(m)
  PROVE  Range(VersionsOf("x")) = 0..(m - 1)
<1>1. m \in Nat /\ VersionsOf("x") = [k \in 1..m |-> k - 1]
  BY DEF VersionsAre
<1>2. Range([k \in 1..m |-> k - 1]) = {k - 1 : k \in 1..m}
  BY DEF Range
<1>3. \A j \in 0..(m - 1) : j + 1 \in 1..m /\ j = (j + 1) - 1
  BY <1>1
<1>4. \A k \in 1..m : k - 1 \in 0..(m - 1)
  BY <1>1
<1> QED
  BY <1>1, <1>2, <1>3, <1>4

\* The valuations of one variable, and the truths of its states.
LEMMA AtomTruths ==
  ASSUME NEW m, VersionsAre(m), written.form = "atom", NEW val \in Valuations
  PROVE  /\ val \in [0..(m - 1) -> BOOLEAN]
         /\ Truths(val) = [k \in 1..m |-> Means(written.sides[1], val[k - 1])]
<1>1. m \in Nat /\ VersionsOf("x") = [k \in 1..m |-> k - 1]
  BY DEF VersionsAre
<1>2. Range(VersionsOf("x")) = 0..(m - 1)
  BY VersionNumbers
<1>3. val \in [0..(m - 1) -> BOOLEAN]
  BY <1>2 DEF Valuations
<1> QED
  BY <1>1, <1>3 DEF Truths

LEMMA BothTruths ==
  ASSUME NEW m, VersionsAre(m), written.form \in {"and", "or"}, NEW val \in Valuations
  PROVE  /\ val \in [0..(m - 1) -> BOOLEAN \X BOOLEAN]
         /\ Truths(val) = [k \in 1..m |->
              IF written.form = "and"
              THEN Means(written.sides[1], val[k - 1][1]) /\ Means(written.sides[2], val[k - 1][2])
              ELSE Means(written.sides[1], val[k - 1][1]) \/ Means(written.sides[2], val[k - 1][2])]
<1>1. m \in Nat /\ VersionsOf("x") = [k \in 1..m |-> k - 1]
  BY DEF VersionsAre
<1>2. Range(VersionsOf("x")) = 0..(m - 1)
  BY VersionNumbers
<1>3. val \in [0..(m - 1) -> BOOLEAN \X BOOLEAN]
  BY <1>2 DEF Valuations
<1>4. CASE written.form = "and"
  <2>1. Truths(val) = [k \in 1..m |-> Means(written.sides[1], val[k - 1][1])
                                      /\ Means(written.sides[2], val[k - 1][2])]
    BY <1>1, <1>4 DEF Truths
  <2> QED
    BY <1>3, <1>4, <2>1
<1>5. CASE written.form = "or"
  <2>1. Truths(val) = [k \in 1..m |-> Means(written.sides[1], val[k - 1][1])
                                      \/ Means(written.sides[2], val[k - 1][2])]
    BY <1>1, <1>5 DEF Truths
  <2> QED
    BY <1>3, <1>5, <2>1
<1> QED
  BY <1>4, <1>5

\* One clause for each state of x.
LEMMA AtomClauses ==
  ASSUME NEW m, VersionsAre(m), written.form = "atom", NEW val \in Valuations, NEW neg \in BOOLEAN,
         \A v \in BOOLEAN :
           (compiled.wrapped # Says(compiled.sides[1], v)) = (Means(written.sides[1], v) # neg)
  PROVE  /\ Literally(VersionsOf("x"), val) = Negated(m, Truths(val), neg)
         /\ Truths(val) \in [1..m -> BOOLEAN]
<1>1. m \in Nat /\ VersionsOf("x") = [k \in 1..m |-> k - 1]
  BY DEF VersionsAre
<1>2. val \in [0..(m - 1) -> BOOLEAN] /\ Truths(val) = [k \in 1..m |-> Means(written.sides[1], val[k - 1])]
  BY AtomTruths
<1>3. Literally(VersionsOf("x"), val) =
        [k \in 1..m |-> compiled.wrapped # Says(compiled.sides[1], val[k - 1])]
  BY <1>1 DEF Literally
<1>4. Negated(m, Truths(val), neg) = [k \in 1..m |-> Means(written.sides[1], val[k - 1]) # neg]
  BY <1>2 DEF Negated
<1>5. \A k \in 1..m : val[k - 1] \in BOOLEAN
  BY <1>1, <1>2
<1>6. \A k \in 1..m : (compiled.wrapped # Says(compiled.sides[1], val[k - 1]))
                       = (Means(written.sides[1], val[k - 1]) # neg)
  BY <1>5
<1>7. \A k \in 1..m : Means(written.sides[1], val[k - 1]) \in BOOLEAN
  BY DEF Means
<1> QED
  BY <1>2, <1>3, <1>4, <1>6, <1>7

\* mergeByRound: negating swaps && and || and negates what is under them.
LEMMA BothClauses ==
  ASSUME AssertsInv, written # None, written.filter = "no", Upright,
         NEW m, VersionsAre(m), written.form \in {"and", "or"}, NEW val \in Valuations
  PROVE  /\ MergeByRound(val) = Negated(m, Truths(val), ~written.assume)
         /\ Truths(val) \in [1..m -> BOOLEAN]
<1>1. m \in Nat /\ VersionsOf("x") = [k \in 1..m |-> k - 1]
  BY DEF VersionsAre
<1>2. /\ val \in [0..(m - 1) -> BOOLEAN \X BOOLEAN]
      /\ Truths(val) = [k \in 1..m |->
           IF written.form = "and"
           THEN Means(written.sides[1], val[k - 1][1]) /\ Means(written.sides[2], val[k - 1][2])
           ELSE Means(written.sides[1], val[k - 1][1]) \/ Means(written.sides[2], val[k - 1][2])]
  BY BothTruths
<1>3. MergeByRound(val) =
        [k \in 1..m |->
          IF compiled.form = "and"
          THEN Says(compiled.sides[1], val[k - 1][1]) /\ Says(compiled.sides[2], val[k - 1][2])
          ELSE Says(compiled.sides[1], val[k - 1][1]) \/ Says(compiled.sides[2], val[k - 1][2])]
  BY <1>1 DEF MergeByRound
<1>4. /\ written.assume => compiled.form = written.form
      /\ ~written.assume => /\ written.form = "and" => compiled.form = "or"
                            /\ written.form = "or" => compiled.form = "and"
      /\ compiled.wrapped = FALSE /\ written.assume \in BOOLEAN
      /\ 1 \in DOMAIN written.sides /\ 2 \in DOMAIN written.sides
  BY CompiledTo, SidesRead, WrittenType
<1>5. ASSUME NEW k \in 1..m
      PROVE  /\ Truths(val)[k] \in BOOLEAN
             /\ MergeByRound(val)[k] = (Truths(val)[k] # ~written.assume)
  <2>1. val[k - 1] \in BOOLEAN \X BOOLEAN
    <3>1. k - 1 \in 0..(m - 1)
      BY <1>1
    <3> QED
      BY <1>2, <3>1
  <2>2. val[k - 1][1] \in BOOLEAN /\ val[k - 1][2] \in BOOLEAN
    BY <2>1
  <2>3. /\ (compiled.wrapped # Says(compiled.sides[1], val[k - 1][1]))
             = (Means(written.sides[1], val[k - 1][1]) # ~written.assume)
        /\ (compiled.wrapped # Says(compiled.sides[2], val[k - 1][2]))
             = (Means(written.sides[2], val[k - 1][2]) # ~written.assume)
    BY <1>4, <2>2, UprightSays
  <2>4. PICK p, q \in BOOLEAN : /\ p = Means(written.sides[1], val[k - 1][1])
                                /\ q = Means(written.sides[2], val[k - 1][2])
    BY DEF Means
  <2>5. PICK l, r \in BOOLEAN : /\ l = Says(compiled.sides[1], val[k - 1][1])
                                /\ r = Says(compiled.sides[2], val[k - 1][2])
    BY <2>2 DEF Says
  <2>6. l = (p # ~written.assume) /\ r = (q # ~written.assume)
    BY <1>4, <2>3, <2>4, <2>5
  <2>7. Truths(val)[k] = IF written.form = "and" THEN p /\ q ELSE p \/ q
    BY <1>2, <2>4
  <2>8. MergeByRound(val)[k] = IF compiled.form = "and" THEN l /\ r ELSE l \/ r
    BY <1>3, <2>5
  <2> QED
    BY <1>4, <2>6, <2>7, <2>8
<1>6. MergeByRound(val) = [k \in 1..m |-> Truths(val)[k] # ~written.assume]
  BY <1>3, <1>5
<1>7. Truths(val) \in [1..m -> BOOLEAN]
  BY <1>2, <1>5
<1> QED
  BY <1>6, <1>7 DEF Negated

-----------------------------------------------------------------------------
(***************************************************************************)
(* Filters.                                                                *)
(***************************************************************************)
LEMMA CountsHold == AssertsInv => CountsSound
<1> SUFFICES ASSUME AssertsInv, written # None, written.form = "atom", written.sides[1].op = "==",
                    compiled.filter # "no", compiled.n \in 1..(Len(VersionsOf("x")) - 1), NEW val \in Valuations
             PROVE  /\ ParseAssert(val) => Meant(val)
                    /\ compiled.n <= 2 /\ Meant(val) =>
                         ParseAssert(val) \/ (compiled.filter = "nmt" /\ Times(Truths(val)) = 0)
  BY DEF CountsSound
<1>1. PICK m : VersionsAre(m) /\ Len(VersionsOf("x")) = m
  BY SomeVersions
<1>2. PICK n \in 1..(m - 1) : n = compiled.n
  BY <1>1
<1>3. m \in Nat
  BY <1>1 DEF VersionsAre
<1>4. /\ written.filter \in {"nmt", "nft"} /\ compiled.form = "atom" /\ compiled.wrapped = FALSE
      /\ compiled.sides[1] = written.sides[1] /\ written.sides[1].op = "=="
      /\ written.sides[1] \in Comparisons
      /\ written.temporal = "no" /\ written.assume \in BOOLEAN /\ written.n \in Nat
  <2>1. written.filter # "no"
    BY CompiledTo
  <2>2. 1 \in DOMAIN written.sides /\ written.sides[1] \in Comparisons /\ written.sides[1] # NotVariable
    BY SidesRead DEF NotVariable
  <2> QED
    BY <2>1, <2>2, CompiledTo, SidesRead, WrittenType
<1>5. PICK tr \in [1..m -> BOOLEAN] :
        tr = Truths(val) /\ Literally(VersionsOf("x"), val) = Negated(m, tr, FALSE)
  <2>1. \A v \in BOOLEAN :
          (compiled.wrapped # Says(compiled.sides[1], v)) = (Means(written.sides[1], v) # FALSE)
    <3> TAKE v \in BOOLEAN
    <3>1. Says(compiled.sides[1], v) = Means(written.sides[1], v)
      BY <1>4 DEF Says, Means
    <3>2. Says(compiled.sides[1], v) \in BOOLEAN
      BY DEF Says
    <3> QED
      BY <1>4, <3>1, <3>2
  <2> QED
    BY <1>1, <2>1, AtomClauses
<1>6. Negated(m, tr, FALSE) = tr
  BY DEF Negated
<1>7. ParseAssert(val) = ExpandAssertStateGraph(tr)
  <2>1. ~Merged /\ ~Malformed
    BY <1>4 DEF Merged, Malformed
  <2>2. Literally(VersionsOf("x"), val) = tr
    BY <1>5, <1>6
  <2>3. ParseAssert(val) = (~Malformed /\ ExpandAssertStateGraph(Literally(VersionsOf("x"), val)))
    BY <1>4, <2>1 DEF ParseAssert
  <2>4. ExpandAssertStateGraph(tr) \in BOOLEAN
    BY DEF ExpandAssertStateGraph
  <2> QED
    BY <2>1, <2>2, <2>3, <2>4
<1>8. Len(tr) = m
  BY <1>3
<1>9. ParseAssert(val) = \E c \in Combinations(m, n) :
                           IF compiled.filter = "nft" THEN AllOf(tr, c) ELSE NoneBut(m, tr, c)
  BY <1>2, <1>7, <1>8 DEF ExpandAssertStateGraph, AllOf, NoneBut
<1>10. PICK t \in Nat : t = Cardinality(True(m, tr)) /\ t = Times(tr)
  BY <1>3, TrueCounted DEF True, Times
<1>11. Meant(val) <=> IF compiled.filter = "nft" THEN n =< t ELSE t =< n
  <2>1. /\ written.assume => (Meant(val) <=> Holds(tr))
        /\ ~written.assume => (Meant(val) <=> ~Holds(tr))
    BY <1>5 DEF Meant
  <2>2. PICK w \in Nat : w = written.n
    BY <1>4
  <2>3. CASE written.filter = "nmt"
    <3>1. Holds(tr) <=> t =< w
      BY <1>10, <2>2, <2>3 DEF Holds
    <3>2. CASE written.assume
      <4>1. compiled.filter = "nmt" /\ n = w
        BY <1>2, <2>2, <2>3, <3>2, CompiledTo
      <4> QED
        BY <2>1, <3>1, <3>2, <4>1
    <3>3. CASE ~written.assume
      <4>1. compiled.filter = "nft" /\ n = w + 1
        BY <1>2, <2>2, <2>3, <3>3, CompiledTo
      <4>2. ~(t =< w) <=> w + 1 =< t
        OBVIOUS
      <4> QED
        BY <2>1, <3>1, <3>3, <4>1, <4>2
    <3> QED
      BY <3>2, <3>3
  <2>4. CASE written.filter = "nft"
    <3>1. Holds(tr) <=> t >= w
      BY <1>10, <2>2, <2>4 DEF Holds
    <3>2. CASE written.assume
      <4>1. compiled.filter = "nft" /\ n = w
        BY <1>2, <2>2, <2>4, <3>2, CompiledTo
      <4> QED
        BY <2>1, <3>1, <3>2, <4>1
    <3>3. CASE ~written.assume
      <4>1. compiled.filter = "nmt" /\ n = w - 1
        BY <1>2, <2>2, <2>4, <3>3, CompiledTo
      <4>2. ~(t >= w) <=> t =< w - 1
        OBVIOUS
      <4> QED
        BY <2>1, <3>1, <3>3, <4>1, <4>2
    <3> QED
      BY <3>2, <3>3
  <2> QED
    BY <1>4, <2>3, <2>4
<1>12. compiled.filter \in {"nmt", "nft"}
  BY <1>4, CompiledTo
<1>13. CASE compiled.filter = "nft"
  <2>1. ParseAssert(val) => n =< t
    BY <1>3, <1>9, <1>10, <1>13, AtLeast
  <2>2. n =< 2 /\ n =< t => ParseAssert(val)
    BY <1>3, <1>9, <1>10, <1>13, AtLeastFound
  <2> QED
    BY <1>2, <1>11, <1>13, <2>1, <2>2
<1>14. CASE compiled.filter = "nmt"
  <2>1. ParseAssert(val) => t =< n
    BY <1>3, <1>9, <1>10, <1>14, AtMost
  <2>2. n =< 2 /\ t =< n => ParseAssert(val) \/ t = 0
    BY <1>3, <1>9, <1>10, <1>14, AtMostFound
  <2> QED
    BY <1>2, <1>5, <1>10, <1>11, <1>14, <2>1, <2>2
<1> QED
  BY <1>12, <1>13, <1>14

\* CountsSound: the combinations of states into which a filter on a comparison with a
\* literal is expanded raise no false alarm, and miss nothing up to two, however many
\* states there are.
THEOREM CountsAreSound == Spec => []CountsSound
<1> QED
  BY AssertsInit, AssertsNext, CountsHold, PTL DEF Spec

-----------------------------------------------------------------------------
(***************************************************************************)
(* Without a filter.                                                       *)
(***************************************************************************)
\* applyTemporalLogic and writeAssertlessRule on clauses that are negated with the
\* assertion, and on such as are not.
LEMMA KeptMeans ==
  ASSUME NEW m \in Nat \ {0}, NEW tr \in [1..m -> BOOLEAN], NEW cl, cl = Negated(m, tr, FALSE)
  PROVE  /\ Write("and", cl) <=> \A k \in 1..m : tr[k]
         /\ Write("or", cl) <=> \E k \in 1..m : tr[k]
         /\ EventuallyAlways(cl) <=> \E k \in 1..m : \A j \in k..m : tr[j]
<1>1. cl = tr
  <2>1. Negated(m, tr, FALSE) = tr
    BY DEF Negated
  <2> QED
    BY <2>1
<1>2. DOMAIN cl = 1..m /\ Len(cl) = m
  <2>1. m \in Nat /\ DOMAIN tr = 1..m
    OBVIOUS
  <2>2. Len(tr) = m
    BY <2>1
  <2> QED
    BY <1>1, <2>1, <2>2
<1> QED
  BY <1>1, <1>2 DEF Write, EventuallyAlways

LEMMA NegatedMeans ==
  ASSUME NEW m \in Nat \ {0}, NEW tr \in [1..m -> BOOLEAN], NEW cl, cl = Negated(m, tr, TRUE)
  PROVE  /\ Write("or", cl) <=> ~\A k \in 1..m : tr[k]
         /\ Write("and", cl) <=> ~\E k \in 1..m : tr[k]
         /\ EventuallyAlways(cl) <=> ~\E k \in 1..m : \A j \in k..m : tr[j]
<1>1. cl = [k \in 1..m |-> tr[k] # TRUE]
  BY DEF Negated
<1>2. DOMAIN cl = 1..m /\ Len(cl) = m
  <2>1. m \in Nat
    OBVIOUS
  <2>2. Len([k \in 1..m |-> tr[k] # TRUE]) = m
    BY <2>1
  <2> QED
    BY <1>1, <2>2
<1>3. \A k \in 1..m : cl[k] <=> ~tr[k]
  BY <1>1
<1>4. EventuallyAlways(cl) <=> \E k \in 1..m : \A j \in k..m : ~tr[j]
  <2>1. EventuallyAlways(cl) <=> \E k \in 1..m : \A j \in k..m : cl[j]
    BY <1>2 DEF EventuallyAlways
  <2>2. \A k \in 1..m : \A j \in k..m : j \in 1..m
    OBVIOUS
  <2> HIDE <1>1
  <2> QED
    BY <1>3, <2>1, <2>2
<1>5. m \in 1..m /\ m..m = {m} /\ \A k \in 1..m : m \in k..m
  OBVIOUS
<1>6. (\E k \in 1..m : \A j \in k..m : ~tr[j]) <=> ~tr[m]
  <2>1. ASSUME ~tr[m] PROVE \E k \in 1..m : \A j \in k..m : ~tr[j]
    <3>1. \A j \in m..m : ~tr[j]
      BY <1>5, <2>1
    <3> QED
      BY <1>5, <3>1
  <2> QED
    BY <1>5, <2>1
<1>7. (\E k \in 1..m : \A j \in k..m : tr[j]) <=> tr[m]
  <2>1. ASSUME tr[m] PROVE \E k \in 1..m : \A j \in k..m : tr[j]
    <3>1. \A j \in m..m : tr[j]
      BY <1>5, <2>1
    <3> QED
      BY <1>5, <3>1
  <2> QED
    BY <1>5, <2>1
<1>8. Write("or", cl) <=> \E k \in 1..m : cl[k]
  BY <1>2 DEF Write
<1>9. Write("and", cl) <=> \A k \in 1..m : cl[k]
  BY <1>2 DEF Write
<1> QED
  BY <1>3, <1>4, <1>6, <1>7, <1>8, <1>9

LEMMA TwoInARow ==
  ASSUME NEW S, NEW s \in Seq(S), NEW t \in Seq(S)
  PROVE  /\ DOMAIN (s \o t) = 1..(Len(s) + Len(t))
         /\ \A k \in 1..Len(s) : (s \o t)[k] = s[k]
         /\ \A k \in (Len(s) + 1)..(Len(s) + Len(t)) : (s \o t)[k] = t[k - Len(s)]
OBVIOUS

\* The clauses of both sides one after the other say what the merged ones do.
LEMMA SidesMean ==
  ASSUME NEW m, VersionsAre(m), NEW val, NEW op \in {"and", "or"}, op = compiled.form,
         val \in [0..(m - 1) -> BOOLEAN \X BOOLEAN]
  PROVE  Write(op, BothSides(val)) <=> Write(op, MergeByRound(val))
<1>1. m \in Nat /\ VersionsOf("x") = [k \in 1..m |-> k - 1]
  BY DEF VersionsAre
<1> DEFINE l == [k \in 1..m |-> Says(compiled.sides[1], val[k - 1][1])]
           r == [k \in 1..m |-> Says(compiled.sides[2], val[k - 1][2])]
<1>2. BothSides(val) = l \o r
  BY <1>1 DEF BothSides
<1>2a. \A k \in 1..m : /\ Says(compiled.sides[1], val[k - 1][1]) \in BOOLEAN
                      /\ Says(compiled.sides[2], val[k - 1][2]) \in BOOLEAN
  <2>1. \A k \in 1..m : k - 1 \in 0..(m - 1)
    BY <1>1
  <2>2. \A k \in 1..m : val[k - 1] \in BOOLEAN \X BOOLEAN
    BY <2>1
  <2>3. \A k \in 1..m : val[k - 1][1] \in BOOLEAN /\ val[k - 1][2] \in BOOLEAN
    BY <2>2
  <2> QED
    BY <2>3 DEF Says
<1>3. \A k \in 1..m : l[k] = Says(compiled.sides[1], val[k - 1][1])
                     /\ r[k] = Says(compiled.sides[2], val[k - 1][2])
  OBVIOUS
<1>4. MergeByRound(val) = [k \in 1..m |-> IF op = "and" THEN l[k] /\ r[k] ELSE l[k] \/ r[k]]
  BY <1>1, <1>3 DEF MergeByRound
<1>5. l \in Seq(BOOLEAN) /\ r \in Seq(BOOLEAN) /\ Len(l) = m /\ Len(r) = m
  BY <1>1, <1>2a
<1>6. \A k \in 1..m : l[k] \in BOOLEAN /\ r[k] \in BOOLEAN
  BY <1>2a, <1>3
<1> HIDE DEF l, r
<1> DEFINE b == l \o r
<1>7. /\ DOMAIN b = 1..(m + m)
      /\ \A k \in 1..m : b[k] = l[k]
      /\ \A k \in (m + 1)..(m + m) : b[k] = r[k - m]
  <2>1. PICK S : l \in Seq(S) /\ r \in Seq(S)
    BY <1>5
  <2>2. /\ DOMAIN b = 1..(Len(l) + Len(r))
        /\ \A k \in 1..Len(l) : b[k] = l[k]
        /\ \A k \in (Len(l) + 1)..(Len(l) + Len(r)) : b[k] = r[k - Len(l)]
    BY <2>1, TwoInARow
  <2>3. Len(l) = m /\ Len(r) = m
    BY <1>5
  <2> QED
    BY <2>2, <2>3
<1> HIDE DEF b
<1>8. \A k \in 1..(m + m) : k \in 1..m \/ (k \in (m + 1)..(m + m) /\ k - m \in 1..m)
  BY <1>1
<1>9. \A k \in 1..m : k \in 1..(m + m) /\ m + k \in (m + 1)..(m + m) /\ m + k \in 1..(m + m) /\ (m + k) - m = k
  BY <1>1
<1>10. \A k \in 1..m : k \in DOMAIN b /\ m + k \in DOMAIN b /\ b[k] = l[k] /\ b[m + k] = r[k]
  BY <1>7, <1>9
<1>11. \A k \in DOMAIN b : (k \in 1..m /\ b[k] = l[k]) \/ (k - m \in 1..m /\ b[k] = r[k - m])
  BY <1>7, <1>8
<1>12. DOMAIN MergeByRound(val) = 1..m
  BY <1>4
<1>13. CASE op = "and"
  <2>1. \A k \in 1..m : MergeByRound(val)[k] <=> l[k] /\ r[k]
    BY <1>4, <1>6, <1>13
  <2>2. Write(op, b) <=> \A k \in DOMAIN b : b[k]
    BY <1>13 DEF Write
  <2>3. Write(op, MergeByRound(val)) <=> \A k \in 1..m : MergeByRound(val)[k]
    BY <1>12, <1>13 DEF Write
  <2>4. (\A k \in DOMAIN b : b[k]) <=> \A k \in 1..m : l[k] /\ r[k]
    BY <1>10, <1>11
  <2> QED
    BY <1>2, <2>1, <2>2, <2>3, <2>4 DEF b
<1>14. CASE op = "or"
  <2>1. \A k \in 1..m : MergeByRound(val)[k] <=> l[k] \/ r[k]
    BY <1>4, <1>6, <1>14
  <2>2. Write(op, b) <=> \E k \in DOMAIN b : b[k]
    BY <1>14 DEF Write
  <2>3. Write(op, MergeByRound(val)) <=> \E k \in 1..m : MergeByRound(val)[k]
    BY <1>12, <1>14 DEF Write
  <2>4. (\E k \in DOMAIN b : b[k]) <=> \E k \in 1..m : l[k] \/ r[k]
    BY <1>10, <1>11
  <2> QED
    BY <1>2, <2>1, <2>2, <2>3, <2>4 DEF b
<1> QED
  BY <1>13, <1>14

\* The clause as a formula over the truths of the states.
LEMMA ParsedClause ==
  ASSUME AssertsInv, written # None, written.form \in {"atom", "and", "or"},
         written.filter = "no", NEW val \in Valuations, NEW m, VersionsAre(m), NEW cl,
         cl = IF written.form = "atom" THEN Literally(VersionsOf("x"), val) ELSE MergeByRound(val),
         NEW on, on = IF written.assume THEN "or" ELSE "and",
         NEW off, off = IF written.assume THEN "and" ELSE "or"
  PROVE  /\ written.temporal \in {"no", "always"} => (ParseAssert(val) <=> Write(off, cl))
         /\ written.temporal = "eventually" => (ParseAssert(val) <=> Write(on, cl))
         /\ written.temporal = "eventually-always" => (ParseAssert(val) <=> EventuallyAlways(cl))
<1>1. /\ written.assume \in BOOLEAN /\ written.temporal \in Temporals /\ compiled.filter = "no"
      /\ written.form = "atom" => compiled.form = "atom"
      /\ written.form # "atom" => compiled.form \in {"and", "or"}
  BY CompiledTo, WrittenType
<1> DEFINE clauses == CASE compiled.form \in {"and", "or"} -> MergeByRound(val)
                        [] compiled.form = "atom" -> Literally(VersionsOf("x"), val)
                        [] compiled.form = "pair" ->
                             Literally(IF (written.temporal # "no" \/ compiled.filter # "no") /\ ~Merged
                                       THEN Cartesian(VersionsOf("x"), VersionsOf("y")) ELSE TermCombos, val)
<1>2. clauses = cl
  <2>1. CASE written.form = "atom"
    <3>1. compiled.form \notin {"and", "or"} /\ compiled.form = "atom" /\ compiled.form # "pair"
      BY <1>1, <2>1
    <3> QED
      BY <2>1, <3>1
  <2>2. CASE written.form # "atom"
    <3>1. compiled.form \in {"and", "or"} /\ compiled.form # "atom" /\ compiled.form # "pair"
      BY <1>1, <2>2
    <3> QED
      BY <2>2, <3>1
  <2> QED
    BY <2>1, <2>2
<1>3. ParseAssert(val) =
        IF written.temporal = "no" THEN Write(off, IF compiled.form = off THEN BothSides(val) ELSE clauses)
                                   ELSE ApplyTemporalLogic(clauses, on, off)
  <2>1. CASE written.temporal = "no"
    <3>1. ParseAssert(val) = Write(off, IF compiled.form = off THEN BothSides(val) ELSE clauses)
      BY <1>1, <2>1 DEF ParseAssert
    <3> QED
      BY <2>1, <3>1
  <2>2. CASE written.temporal # "no"
    <3>1. ParseAssert(val) = ApplyTemporalLogic(clauses, on, off)
      BY <1>1, <2>2 DEF ParseAssert
    <3> QED
      BY <2>2, <3>1
  <2> QED
    BY <2>1, <2>2
<1> HIDE DEF clauses
<1>4. CASE written.temporal # "no"
  <2>1. ParseAssert(val) = ApplyTemporalLogic(cl, on, off)
    BY <1>2, <1>3, <1>4
  <2> QED
    BY <1>4, <2>1 DEF ApplyTemporalLogic
<1>5. CASE written.temporal = "no"
  <2>1. ParseAssert(val) = Write(off, IF compiled.form = off THEN BothSides(val) ELSE cl)
    BY <1>2, <1>3, <1>5
  <2>2. CASE written.form = "atom"
    <3>1. compiled.form # off
      BY <1>1, <2>2
    <3> QED
      BY <1>5, <2>1, <3>1
  <2>3. CASE written.form # "atom"
    <3>1. cl = MergeByRound(val) /\ val \in [0..(m - 1) -> BOOLEAN \X BOOLEAN]
      BY <2>3, BothTruths
    <3>2. compiled.form = off => (Write(off, BothSides(val)) <=> Write(off, MergeByRound(val)))
      BY <3>1, SidesMean
    <3> QED
      BY <1>5, <2>1, <3>1, <3>2
  <2> QED
    BY <2>2, <2>3
<1> QED
  BY <1>4, <1>5

LEMMA ExpandedHolds ==
  ASSUME AssertsInv, written # None, written.form \in {"atom", "and", "or"},
         written.filter = "no", Upright, NEW val \in Valuations
  PROVE  ParseAssert(val) <=> Meant(val)
<1>1. PICK m : VersionsAre(m)
  BY SomeVersions
<1>2. m \in Nat \ {0}
  BY <1>1 DEF VersionsAre
<1>3. /\ written.assume \in BOOLEAN /\ written.temporal \in Temporals
  BY WrittenType
<1>4. PICK cl : cl = IF written.form = "atom" THEN Literally(VersionsOf("x"), val) ELSE MergeByRound(val)
  OBVIOUS
<1>5. PICK tr \in [1..m -> BOOLEAN] : tr = Truths(val) /\ cl = Negated(m, tr, ~written.assume)
  <2>1. CASE written.form = "atom"
    <3>1. 1 \in DOMAIN written.sides
      BY <2>1, SidesRead
    <3>2. \A v \in BOOLEAN :
            (compiled.wrapped # Says(compiled.sides[1], v)) = (Means(written.sides[1], v) # ~written.assume)
      BY <2>1, <3>1, UprightSays
    <3> QED
      BY <1>1, <1>3, <1>4, <2>1, <3>2, AtomClauses
  <2>2. CASE written.form # "atom"
    BY <1>1, <1>3, <1>4, <2>2, BothClauses
  <2> QED
    BY <2>1, <2>2
<1>6. PICK on, off : /\ on = IF written.assume THEN "or" ELSE "and"
                     /\ off = IF written.assume THEN "and" ELSE "or"
  OBVIOUS
<1>7. /\ written.temporal \in {"no", "always"} => (ParseAssert(val) <=> Write(off, cl))
      /\ written.temporal = "eventually" => (ParseAssert(val) <=> Write(on, cl))
      /\ written.temporal = "eventually-always" => (ParseAssert(val) <=> EventuallyAlways(cl))
  BY <1>1, <1>4, <1>6, ParsedClause
<1>8. DOMAIN tr = 1..m /\ Len(tr) = m
  <2>1. m \in Nat /\ DOMAIN tr = 1..m
    BY <1>2
  <2>2. Len(tr) = m
    BY <2>1
  <2> QED
    BY <2>1, <2>2
<1>9. /\ written.temporal \in {"no", "always"} => (Holds(tr) <=> \A k \in 1..m : tr[k])
      /\ written.temporal = "eventually" => (Holds(tr) <=> \E k \in 1..m : tr[k])
      /\ written.temporal = "eventually-always" => (Holds(tr) <=> \E k \in 1..m : \A j \in k..m : tr[j])
  BY <1>8 DEF Holds
<1>10. CASE written.assume
  <2>1. Meant(val) <=> Holds(tr)
    BY <1>5, <1>10 DEF Meant
  <2>2. cl = Negated(m, tr, FALSE)
    BY <1>3, <1>5, <1>10
  <2>3. /\ Write(off, cl) <=> \A k \in 1..m : tr[k]
        /\ Write(on, cl) <=> \E k \in 1..m : tr[k]
        /\ EventuallyAlways(cl) <=> \E k \in 1..m : \A j \in k..m : tr[j]
    BY <1>2, <1>6, <1>10, <2>2, KeptMeans
  <2> QED
    BY <1>3, <1>7, <1>9, <2>1, <2>3 DEF Temporals
<1>11. CASE ~written.assume
  <2>1. Meant(val) <=> ~Holds(tr)
    BY <1>5, <1>11 DEF Meant
  <2>2. cl = Negated(m, tr, TRUE)
    BY <1>3, <1>5, <1>11
  <2>3. /\ Write(off, cl) <=> ~\A k \in 1..m : tr[k]
        /\ Write(on, cl) <=> ~\E k \in 1..m : tr[k]
        /\ EventuallyAlways(cl) <=> ~\E k \in 1..m : \A j \in k..m : tr[j]
    BY <1>2, <1>6, <1>11, <2>2, NegatedMeans
  <2> QED
    BY <1>3, <1>7, <1>9, <2>1, <2>3 DEF Temporals
<1> QED
  BY <1>3, <1>10, <1>11

\* ExpandedAsMeant, for comparisons of one variable with literals, joined or not, none of
\* which is inverted: the clause that parseAssert writes is true in exactly those models of
\* the solver that break the assertion, or keep the assumption, for any number of versions.
THEOREM OneVariable == Spec => [](written.form # "pair" => ExpandedAsMeant)
<1>1. AssertsInv => (written.form # "pair" => ExpandedAsMeant)
  <2> SUFFICES ASSUME AssertsInv, written.form # "pair", written # None, written.filter = "no",
                      Upright, NEW val \in Valuations
               PROVE  ParseAssert(val) <=> Meant(val)
    BY DEF ExpandedAsMeant
  <2>1. written.form \in {"atom", "and", "or"}
    BY WrittenType DEF Forms
  <2> QED
    BY <2>1, ExpandedHolds
<1> QED
  BY <1>1, AssertsInit, AssertsNext, PTL DEF Spec
=============================================================================
