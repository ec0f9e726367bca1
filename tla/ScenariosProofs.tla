-------------------------- MODULE ScenariosProofs --------------------------
(***************************************************************************)
(* For answers of any size.  In a FloatTrace every value is shown in the   *)
(* row of its version, whatever the order in which Go's map iteration      *)
(* yields the versions (FloatRowsInPlace).  For forks numbered as the      *)
(* generator numbers them deadBranches finds every end and every phi       *)
(* (NoPanic), keeps what was taken (TakenShown) and removes what was not   *)
(* (LeftOutGone).                                                          *)
(***************************************************************************)
EXTENDS Scenarios, FiniteSetTheorems, WellFoundedInduction, TLAPS

Cells == Values \cup {Blank}

\* What RowsInPlace rests on: only versions of the trace are shown, only shown ones
\* are left to be placed, and nothing is placed or left before generateRows.
RowsInv ==
  /\ trace \in Traces
  /\ shown \in SUBSET DOMAIN trace.values
  /\ rest \in SUBSET shown
  /\ rows \in Seq(Cells)
  /\ phase \notin {"rows", "done"} => rows = <<>> /\ rest = {}
  /\ FloatRows

\* The versions of a trace are numbers, its values are values.
LEMMA TraceValues ==
  ASSUME RowsInv
  PROVE  /\ DOMAIN trace.values \subseteq Nat
         /\ \A i \in DOMAIN trace.values : trace.values[i] \in Values
  BY TracesAssumption DEF RowsInv

\* What generateRows does with a version of a FloatTrace, in the three cases that
\* the code tells apart: before, at and past the end of the rows.
LEMMA FloatRowIs ==
  ASSUME NEW r \in Seq(Cells), NEW i \in Nat, NEW v \in Cells
  PROVE  /\ FloatRow(r, i, v) \in Seq(Cells)
         /\ Len(FloatRow(r, i, v)) = IF i < Len(r) THEN Len(r) ELSE i + 1
         /\ FloatRow(r, i, v)[i + 1] = v
         /\ \A j \in 1..Len(r) : j # i + 1 => FloatRow(r, i, v)[j] = r[j]
         /\ \A j \in (Len(r) + 1)..i : FloatRow(r, i, v)[j] = Blank
<1> Blank \in Cells
  BY DEF Cells
<1>1. CASE i < Len(r)
  <2>1. FloatRow(r, i, v) = [r EXCEPT ![i + 1] = v]
    BY <1>1 DEF FloatRow
  <2>2. i + 1 \in 1..Len(r) /\ Len(r) \in Nat
    BY <1>1
  <2>3. [r EXCEPT ![i + 1] = v] \in Seq(Cells) /\ Len([r EXCEPT ![i + 1] = v]) = Len(r)
    BY <2>2
  <2> QED
    BY <1>1, <2>1, <2>2, <2>3
<1>2. CASE ~(i < Len(r))
  <2> DEFINE n == i - Len(r)
             b == Blanks(n)
             c == r \o b
  <2>1. FloatRow(r, i, v) = c \o <<v>>
    BY <1>2 DEF FloatRow
  <2>2. n \in Nat /\ Len(r) \in Nat /\ Len(r) + n = i
    BY <1>2
  <2>3. b \in Seq(Cells) /\ Len(b) = n /\ \A j \in 1..n : b[j] = Blank
    BY <2>2 DEF Blanks
  <2> HIDE DEF n, b
  <2>4. c \in Seq(Cells) /\ Len(c) = i
    BY <2>2, <2>3
  <2>5. \A j \in 1..Len(r) : c[j] = r[j]
    BY <2>2, <2>3
  <2>6. \A j \in (Len(r) + 1)..i : c[j] = Blank
    <3> TAKE j \in (Len(r) + 1)..i
    <3>1. c[j] = b[j - Len(r)]
      BY <2>2, <2>3
    <3>2. j - Len(r) \in 1..n
      BY <2>2
    <3> QED
      BY <3>1, <3>2, <2>3
  <2> HIDE DEF c
  <2>7. (c \o <<v>>) \in Seq(Cells) /\ Len(c \o <<v>>) = i + 1 /\ (c \o <<v>>)[i + 1] = v
    BY <2>4
  <2>8. \A j \in 1..i : (c \o <<v>>)[j] = c[j]
    BY <2>4
  <2>9. \A j \in 1..Len(r) : j \in 1..i
    BY <2>2
  <2>10. \A j \in (Len(r) + 1)..i : j \in 1..i
    BY <2>2
  <2> QED
    BY <1>2, <2>1, <2>2, <2>5, <2>6, <2>7, <2>8, <2>9, <2>10
<1> QED
  BY <1>1, <1>2

\* The rows of the other kinds of trace are rows.
LEMMA IntRowType ==
  ASSUME NEW r \in Seq(Cells), NEW i \in Nat, NEW v \in Values
  PROVE  IntRow(r, i, v) \in Seq(Cells)
<1>1. v \in Cells /\ Blank \in Cells /\ r \in Seq(Cells) /\ Len(r) \in Nat
  BY DEF Cells
<1>2. CASE i = Len(r)
  BY <1>1, <1>2 DEF IntRow
<1>3. CASE i > Len(r)
  <2> DEFINE b == Blanks(i - Len(r) + 1)
  <2>1. b \in Seq(Cells)
    BY <1>1, <1>3 DEF Blanks
  <2>2. IntRow(r, i, v) = (r \o b) \o <<v>>
    BY <1>1, <1>3 DEF IntRow
  <2> HIDE DEF b
  <2>3. r \o b \in Seq(Cells)
    BY <1>1, <2>1
  <2>4. (r \o b) \o <<v>> \in Seq(Cells)
    BY <1>1, <2>3
  <2> QED
    BY <2>2, <2>4
<1>4. CASE i < Len(r)
  <2>1. IntRow(r, i, v) = [r EXCEPT ![i + 1] = v]
    BY <1>1, <1>4 DEF IntRow
  <2>2. [r EXCEPT ![i + 1] = v] \in Seq(Cells)
    BY <1>1, <1>4
  <2> QED
    BY <2>1, <2>2
<1> QED
  BY <1>1, <1>2, <1>3, <1>4

\* A version that is placed: the rows placed before it stay where they are.
LEMMA PlaceRow ==
  ASSUME RowsInv, Row, trace.kind = "float"
  PROVE  rows' \in Seq(Cells) /\ RowsInPlace'
<1>1. PICK i \in rest : /\ rest' = rest \ {i}
                        /\ rows' = FloatRow(rows, i, trace.values[i])
  BY DEF Row
<1> DEFINE v == trace.values[i]
           placed == shown \ rest
<1>2. i \in Nat /\ v \in Cells /\ i \in shown /\ i \notin placed
  BY <1>1, TraceValues DEF RowsInv, Cells
<1>3. \A k \in placed : k \in Nat
  BY TraceValues DEF RowsInv
<1>4. rows \in Seq(Cells) /\ Len(rows) \in Nat /\ DOMAIN rows = 1..Len(rows)
  BY DEF RowsInv
<1>5. phase = "rows" /\ phase' = "rows" /\ trace' = trace /\ shown' = shown
  BY DEF Row
<1>6. shown' \ rest' = placed \cup {i}
  BY <1>1, <1>2, <1>5 DEF RowsInv
<1>7. /\ \A k \in placed : k + 1 \in DOMAIN rows /\ rows[k + 1] = trace.values[k]
      /\ \A j \in DOMAIN rows : j - 1 \notin placed => rows[j] = Blank
      /\ rows # <<>> => Len(rows) - 1 \in placed
  BY <1>5 DEF RowsInv, FloatRows, RowsInPlace
<1>8. /\ rows' \in Seq(Cells)
      /\ Len(rows') = IF i < Len(rows) THEN Len(rows) ELSE i + 1
      /\ rows'[i + 1] = v
      /\ \A j \in 1..Len(rows) : j # i + 1 => rows'[j] = rows[j]
      /\ \A j \in (Len(rows) + 1)..i : rows'[j] = Blank
  <2> DEFINE r == FloatRow(rows, i, v)
  <2>1. rows' = r
    BY <1>1
  <2> HIDE DEF v
  <2>2. /\ r \in Seq(Cells)
        /\ Len(r) = IF i < Len(rows) THEN Len(rows) ELSE i + 1
        /\ r[i + 1] = v
        /\ \A j \in 1..Len(rows) : j # i + 1 => r[j] = rows[j]
        /\ \A j \in (Len(rows) + 1)..i : r[j] = Blank
    <3>1. rows \in Seq(Cells) /\ i \in Nat /\ v \in Cells
      BY <1>2, <1>4
    <3> QED BY ONLY <3>1, FloatRowIs
  <2> HIDE DEF r
  <2> QED
    BY <2>1, <2>2
<1> HIDE DEF v, placed
<1>9. DOMAIN rows' = 1..Len(rows') /\ i + 1 \in 1..Len(rows') /\ 1..Len(rows) \subseteq 1..Len(rows')
  BY <1>2, <1>4, <1>8
<1>10. \A k \in placed \cup {i} : k + 1 \in DOMAIN rows' /\ rows'[k + 1] = trace.values[k]
  <2> TAKE k \in placed \cup {i}
  <2>1. CASE k = i
    BY <2>1, <1>8, <1>9 DEF v
  <2>2. CASE k # i
    <3>1. k \in placed /\ k \in Nat /\ k + 1 # i + 1
      BY <2>2, <1>2, <1>3
    <3> QED
      BY <3>1, <1>4, <1>7, <1>8, <1>9
  <2> QED
    BY <2>1, <2>2
<1>11. \A j \in DOMAIN rows' : j - 1 \notin placed \cup {i} => rows'[j] = Blank
  <2> SUFFICES ASSUME NEW j \in DOMAIN rows', j - 1 \notin placed \cup {i}
               PROVE  rows'[j] = Blank
    OBVIOUS
  <2>1. j \in Nat /\ 1 =< j /\ j =< Len(rows') /\ j # i + 1
    BY <1>2, <1>9
  <2>2. CASE j =< Len(rows)
    BY <2>1, <2>2, <1>4, <1>7, <1>8
  <2>3. CASE ~(j =< Len(rows))
    <3>1. j \in (Len(rows) + 1)..i
      BY <2>1, <2>3, <1>2, <1>4, <1>8
    <3> QED
      BY <3>1, <1>8
  <2> QED
    BY <2>2, <2>3
<1>12. Len(rows') - 1 \in placed \cup {i}
  <2>1. CASE i < Len(rows)
    <3>1. rows # <<>>
      BY <2>1, <1>2
    <3> QED
      BY <2>1, <3>1, <1>7, <1>8
  <2>2. CASE ~(i < Len(rows))
    BY <2>2, <1>2, <1>8
  <2> QED
    BY <2>1, <2>2
<1> QED
  BY <1>5, <1>6, <1>8, <1>10, <1>11, <1>12 DEF RowsInPlace

\* Every other step leaves the rows and what is placed alone, or comes before
\* the first row.
LEMMA OtherSteps ==
  ASSUME RowsInv, Next, ~Row
  PROVE  RowsInv'
<1> USE DEF RowsInv, FloatRows
<1>1. CASE LoadFork
  BY <1>1 DEF LoadFork, RowsInPlace
<1>2. CASE Format
  BY <1>2 DEF Format, RowsInPlace
<1>3. CASE DeadBranch
  <2>1. shown' \subseteq shown /\ phase' \notin {"rows", "done"} /\ rest = rest'
    BY <1>3 DEF DeadBranch
  <2> QED
    BY <1>3, <2>1 DEF DeadBranch, RowsInPlace
<1>4. CASE BranchesDone
  BY <1>4 DEF BranchesDone, RowsInPlace
<1>5. CASE RemovePhi
  BY <1>5 DEF RemovePhi, RowsInPlace
<1>6. CASE GenerateRows
  BY <1>6 DEF GenerateRows, RowsInPlace
<1>7. CASE RowsDone
  BY <1>7 DEF RowsDone, RowsInPlace
<1>8. CASE phase \in {"done", "panic"} /\ UNCHANGED vars
  BY <1>8 DEF vars, RowsInPlace
<1> QED
  BY <1>1, <1>2, <1>3, <1>4, <1>5, <1>6, <1>7, <1>8 DEF Next, Step

LEMMA RowsInit == Init => RowsInv
BY DEF Init, RowsInv, FloatRows, RowsInPlace

LEMMA RowsNext == RowsInv /\ [Next]_vars => RowsInv'
<1> SUFFICES ASSUME RowsInv, [Next]_vars PROVE RowsInv'
  OBVIOUS
<1>1. CASE Row
  <2>1. /\ trace' = trace /\ shown' = shown /\ rest' \subseteq rest
        /\ phase' = "rows"
    BY <1>1 DEF Row
  <2>2. CASE trace.kind = "float"
    BY <1>1, <2>1, <2>2, PlaceRow DEF RowsInv, FloatRows
  <2>3. CASE trace.kind # "float"
    <3>1. PICK i \in rest : rows' = IntRow(rows, i, trace.values[i])
      BY <1>1, <2>3 DEF Row
    <3>2. i \in Nat /\ trace.values[i] \in Values /\ rows \in Seq(Cells)
      BY TraceValues DEF RowsInv
    <3>3. rows' \in Seq(Cells)
      BY <3>1, <3>2, IntRowType
    <3> QED
      BY <2>1, <2>3, <3>3 DEF RowsInv, FloatRows
  <2> QED
    BY <2>2, <2>3
<1>2. CASE Next /\ ~Row
  BY <1>2, OtherSteps
<1>3. CASE UNCHANGED vars
  BY <1>3 DEF vars, RowsInv, FloatRows, RowsInPlace
<1> QED
  BY <1>1, <1>2, <1>3

\* The rows of a FloatTrace: generateRows shows each value in the row of its
\* version and leaves the rows of the removed versions blank, at every moment of
\* the iteration and for every order of it.
THEOREM FloatRowsInPlace == Spec => []FloatRows
<1>1. RowsInv => FloatRows
  BY DEF RowsInv
<1> QED
  BY <1>1, RowsInit, RowsNext, PTL DEF Spec

-----------------------------------------------------------------------------
(***************************************************************************)
(* What deadBranches leaves, for any number of forks with branches of any  *)
(* length.                                                                 *)
(***************************************************************************)
Below == OpToRel(<, Nat)

\* Every set of numbers has a least one.
LEMMA Least ==
  ASSUME NEW T \in SUBSET Nat, T # {}
  PROVE  \E n \in T : \A m \in T : n =< m
<1>1. \E x \in T : \A y \in T : <<y, x>> \notin Below
  BY WFMin, NatLessThanWellFounded DEF Below
<1>2. \A x, y \in Nat : y < x => <<y, x>> \in Below
  BY DEF Below, OpToRel
<1>3. PICK x \in T : \A y \in T : <<y, x>> \notin Below
  BY <1>1
<1>4. ASSUME NEW y \in T PROVE x =< y
  <2>1. y \in Nat /\ x \in Nat /\ <<y, x>> \notin Below
    BY <1>3
  <2>2. ~(y < x)
    BY <1>2, <2>1, Zenon
  <2> QED
    BY <2>1, <2>2
<1> QED
  BY <1>4

\* The maximum of a finite set of numbers is the greatest of its members.
LEMMA MaxIs ==
  ASSUME NEW S \in SUBSET Nat, IsFiniteSet(S), S # {}
  PROVE  Max(S) \in S /\ \A m \in S : m =< Max(S)
<1> DEFINE Topped(U) == \E n \in U : \A m \in U : m =< n
           Untopped == {n \in Nat : \E U \in SUBSET Nat :
                          IsFiniteSet(U) /\ U # {} /\ Cardinality(U) = n /\ ~Topped(U)}
<1>1. Untopped = {}
  <2> SUFFICES ASSUME Untopped # {} PROVE FALSE
    OBVIOUS
  <2>1. PICK n \in Untopped : \A m \in Untopped : n =< m
    <3>1. Untopped \in SUBSET Nat
      OBVIOUS
    <3> HIDE DEF Untopped
    <3> QED
      BY <3>1, Least
  <2>2. PICK U \in SUBSET Nat : IsFiniteSet(U) /\ U # {} /\ Cardinality(U) = n /\ ~Topped(U)
    OBVIOUS
  <2>3. PICK u \in U : TRUE
    BY <2>2
  <2> DEFINE V == U \ {u}
  <2>4. IsFiniteSet(V) /\ Cardinality(V) = n - 1 /\ n \in Nat
    BY <2>2, <2>3, FS_RemoveElement
  <2>5. n - 1 \notin Untopped
    BY <2>1, <2>4
  <2>6. V = {} \/ Topped(V)
    <3>1. n - 1 \in Nat
      BY <2>4, FS_CardinalityType
    <3> QED
      BY <2>4, <2>5, <3>1
  <2>7. V # {}
    BY <2>2, <2>3
  <2>8. PICK v \in V : \A m \in V : m =< v
    BY <2>6, <2>7
  <2>9. u \in Nat /\ v \in Nat /\ v \in U /\ \A m \in U : m \in Nat /\ (m = u \/ m =< v)
    BY <2>2, <2>3, <2>8
  <2>10. CASE u =< v
    BY <2>2, <2>3, <2>9, <2>10
  <2>11. CASE v < u
    BY <2>2, <2>3, <2>9, <2>11
  <2> QED
    BY <2>9, <2>10, <2>11
<1>2. Topped(S)
  BY <1>1, FS_CardinalityType
<1>3. PICK n \in S : \A m \in S : n >= m
  BY <1>2
<1> QED
  BY <1>3 DEF Max

\* The choices of a fork: each has an end, and the phi that LoadMeta computes is
\* above all of them.
IsFork(c) == /\ c \in Seq(Trails)
              /\ \A j \in DOMAIN c : c[j] # {} /\ IsFiniteSet(c[j])

LEMMA EndIs ==
  ASSUME NEW c, IsFork(c), NEW j \in DOMAIN c
  PROVE  /\ GetEnd(c[j]) \in c[j] /\ GetEnd(c[j]) \in Nat
         /\ \A n \in c[j] : n \in Nat /\ n =< GetEnd(c[j])
<1>1. c[j] \in SUBSET Nat /\ c[j] # {} /\ IsFiniteSet(c[j])
  BY DEF IsFork, Trails
<1> QED
  BY <1>1, MaxIs DEF GetEnd

LEMMA PhiIs ==
  ASSUME NEW c, IsFork(c)
  PROVE  PhiOf(c) \in Nat /\ \A j \in DOMAIN c : GetEnd(c[j]) < PhiOf(c)
<1> DEFINE ends == {GetEnd(c[j]) : j \in DOMAIN c}
           endOf == [j \in DOMAIN c |-> GetEnd(c[j])]
           all == {0} \cup ends
<1>1. IsFiniteSet(DOMAIN c)
  <2>1. Len(c) \in Nat /\ DOMAIN c = 1..Len(c)
    BY DEF IsFork
  <2> QED
    BY <2>1, FS_Interval
<1>2. endOf \in Surjection(DOMAIN c, ends)
  BY DEF Surjection
<1>3. IsFiniteSet(ends)
  BY <1>1, <1>2, FS_Surjection
<1>4. IsFiniteSet(all)
  <2>1. IsFiniteSet({0})
    BY FS_Singleton
  <2> QED
    BY <1>3, <2>1, FS_Union
<1>5. all \in SUBSET Nat /\ all # {} /\ \A j \in DOMAIN c : GetEnd(c[j]) \in all
  BY EndIs
<1>6. PhiOf(c) = Max(all) + 1
  BY DEF PhiOf
<1> HIDE DEF all
<1>7. Max(all) \in all /\ \A m \in all : m =< Max(all)
  BY <1>4, <1>5, MaxIs
<1>8. PICK m \in Nat : m = Max(all) /\ \A n \in all : n \in Nat /\ n =< m
  BY <1>5, <1>7
<1>9. PhiOf(c) = m + 1
  BY <1>6, <1>8
<1>10. ASSUME NEW j \in DOMAIN c PROVE GetEnd(c[j]) < m + 1
  <2>1. GetEnd(c[j]) \in Nat /\ GetEnd(c[j]) =< m
    BY <1>5, <1>8
  <2> QED
    BY <2>1
<1> QED
  BY <1>9, <1>10

\* The forks of an answer are choices.
LEMMA ForkIs ==
  ASSUME NEW a \in Traces, NEW f \in DOMAIN a.forks
  PROVE  IsFork(a.forks[f])
BY TracesAssumption DEF IsFork

-----------------------------------------------------------------------------
Listed(s) == {s[i] : i \in DOMAIN s}

\* The branch that LoadMeta makes of choice j of fork f, and whether deadBranches
\* takes it for dead.
BranchOf(a, f, j) == [trail |-> a.forks[f][j], phi |-> PhiOf(a.forks[f])]
Dead(a, b)        == a.values[GetEnd(b.trail)] # a.values[b.phi]

\* If b is removed, what deadBranches looks up for c is still there.
Spares(a, b, c) == Dead(a, b) => GetEnd(c.trail) \notin b.trail /\ c.phi \notin b.trail
Spared(a, bs)   == \A p, q \in DOMAIN bs : p < q => Spares(a, bs[p], bs[q])

\* A sequence of which the first element is taken off.
LEMMA OneOff ==
  ASSUME NEW S, NEW s \in Seq(S), s # <<>>
  PROVE  /\ Head(s) \in S /\ Tail(s) \in Seq(S)
         /\ Listed(s) = {Head(s)} \cup Listed(Tail(s))
         /\ Head(s) = s[1] /\ 1 \in DOMAIN s
         /\ \A i \in DOMAIN Tail(s) : i + 1 \in DOMAIN s /\ Tail(s)[i] = s[i + 1] /\ i \in Nat \ {0}
<1>1. DOMAIN s = 1..Len(s) /\ DOMAIN Tail(s) = 1..(Len(s) - 1) /\ Len(s) \in Nat \ {0}
  OBVIOUS
<1>2. Head(s) = s[1] /\ Head(s) \in S /\ Tail(s) \in Seq(S) /\ 1 \in DOMAIN s
  BY <1>1
<1>3. \A i \in DOMAIN Tail(s) : i + 1 \in DOMAIN s /\ Tail(s)[i] = s[i + 1] /\ i \in Nat \ {0}
  BY <1>1
<1>4. \A i \in DOMAIN s : i = 1 \/ (i - 1 \in DOMAIN Tail(s) /\ Tail(s)[i - 1] = s[i])
  BY <1>1
<1>5. Listed(s) = {Head(s)} \cup Listed(Tail(s))
  <2>1. \A i \in DOMAIN s : s[i] \in {Head(s)} \cup Listed(Tail(s))
    BY <1>2, <1>4 DEF Listed
  <2>2. Head(s) \in Listed(s)
    BY <1>2 DEF Listed
  <2>3. \A i \in DOMAIN Tail(s) : Tail(s)[i] \in Listed(s)
    BY <1>3 DEF Listed
  <2>4. Listed(s) \subseteq {Head(s)} \cup Listed(Tail(s))
    BY <2>1 DEF Listed
  <2>5. Listed(Tail(s)) \subseteq Listed(s)
    BY <2>3 DEF Listed
  <2> QED
    BY <2>2, <2>4, <2>5
<1> QED
  BY <1>2, <1>3, <1>5

\* Two sequences, one after the other.
LEMMA OneAfter ==
  ASSUME NEW S, NEW s \in Seq(S), NEW t \in Seq(S)
  PROVE  /\ s \o t \in Seq(S)
         /\ Listed(s \o t) = Listed(s) \cup Listed(t)
         /\ \A p, q \in DOMAIN (s \o t) : p < q =>
              \/ p \in DOMAIN s /\ q \in DOMAIN s /\ (s \o t)[p] = s[p] /\ (s \o t)[q] = s[q]
              \/ (s \o t)[p] \in Listed(s) /\ (s \o t)[q] \in Listed(t)
              \/ \E i, j \in DOMAIN t : i < j /\ (s \o t)[p] = t[i] /\ (s \o t)[q] = t[j]
<1>1. PICK n \in Nat : n = Len(s) /\ DOMAIN s = 1..n
  OBVIOUS
<1>2. PICK m \in Nat : m = Len(t) /\ DOMAIN t = 1..m
  OBVIOUS
<1> DEFINE u == s \o t
<1>3. /\ u \in Seq(S) /\ DOMAIN u = 1..(n + m)
      /\ \A i \in 1..n : u[i] = s[i]
      /\ \A i \in (n + 1)..(n + m) : u[i] = t[i - n]
  BY <1>1, <1>2
<1> HIDE DEF u
<1>4. \A i \in 1..(n + m) : i \in 1..n \/ (i \in (n + 1)..(n + m) /\ i - n \in 1..m)
  OBVIOUS
<1>5. \A i \in 1..n : i \in 1..(n + m)
  OBVIOUS
<1>6. \A j \in 1..m : n + j \in (n + 1)..(n + m) /\ n + j \in 1..(n + m) /\ n + j - n = j
  OBVIOUS
<1>7. \A i \in DOMAIN u : \/ i \in DOMAIN s /\ u[i] = s[i]
                          \/ i \notin DOMAIN s /\ i - n \in DOMAIN t /\ u[i] = t[i - n]
  BY <1>1, <1>2, <1>3, <1>4
<1>8. \A i \in DOMAIN s : i \in DOMAIN u /\ u[i] = s[i]
  BY <1>1, <1>3, <1>5
<1>9. \A j \in DOMAIN t : n + j \in DOMAIN u /\ u[n + j] = t[j]
  BY <1>2, <1>3, <1>6
<1>10. Listed(u) \subseteq Listed(s) \cup Listed(t)
  BY <1>7 DEF Listed
<1>11. Listed(s) \subseteq Listed(u)
  BY <1>8 DEF Listed
<1>12. Listed(t) \subseteq Listed(u)
  BY <1>9 DEF Listed
<1>13. ASSUME NEW p \in DOMAIN u, NEW q \in DOMAIN u, p < q
       PROVE  \/ p \in DOMAIN s /\ q \in DOMAIN s /\ u[p] = s[p] /\ u[q] = s[q]
              \/ u[p] \in Listed(s) /\ u[q] \in Listed(t)
              \/ \E i, j \in DOMAIN t : i < j /\ u[p] = t[i] /\ u[q] = t[j]
  <2>1. p \in 1..(n + m) /\ q \in 1..(n + m)
    BY <1>3
  <2>2. CASE p \in DOMAIN s /\ q \in DOMAIN s
    BY <1>8, <2>2
  <2>3. CASE p \in DOMAIN s /\ q \notin DOMAIN s
    BY <1>7, <2>3 DEF Listed
  <2>4. CASE p \notin DOMAIN s
    <3>1. q \notin DOMAIN s
      BY <1>1, <1>13, <2>1, <2>4
    <3>2. p - n < q - n
      BY <1>13, <2>1
    <3> QED
      BY <1>7, <2>4, <3>1, <3>2
  <2> QED
    BY <2>2, <2>3, <2>4
<1> QED
  BY <1>3, <1>10, <1>11, <1>12, <1>13 DEF u

\* Numbered as the generator does it, the branches of a fork and those of the forks
\* after it spare each other in the order of their loading.
LEMMA LaterSpared ==
  ASSUME NEW a \in Traces, ForksInOrder(a), OneTaken(a),
         NEW f \in DOMAIN a.forks, NEW j \in DOMAIN a.forks[f],
         NEW g \in DOMAIN a.forks, NEW h \in DOMAIN a.forks[g],
         f < g \/ (f = g /\ j < h)
  PROVE  Spares(a, BranchOf(a, f, j), BranchOf(a, g, h))
<1> DEFINE b == a.forks[f][j]
           c == a.forks[g][h]
           bp == PhiOf(a.forks[f])
           cp == PhiOf(a.forks[g])
<1>1. IsFork(a.forks[f]) /\ IsFork(a.forks[g])
  BY ForkIs
<1>2. /\ GetEnd(b) \in b /\ GetEnd(b) \in Nat /\ \A n \in b : n \in Nat /\ n =< GetEnd(b)
      /\ bp \in Nat /\ GetEnd(b) < bp
  BY <1>1, EndIs, PhiIs
<1>3. /\ GetEnd(c) \in c /\ GetEnd(c) \in Nat /\ cp \in Nat /\ GetEnd(c) < cp
  BY <1>1, EndIs, PhiIs
<1>4. SUFFICES ASSUME a.values[GetEnd(b)] # a.values[bp]
               PROVE  GetEnd(c) \notin b /\ cp \notin b
  BY DEF Spares, Dead, BranchOf
<1>5. a.phi[f] = bp
  BY DEF ForksInOrder, GetEnd, PhiOf
<1>6. CASE f < g
  <2>1. f \in 1..(g - 1)
    <3>1. a.forks \in Seq(Seq(Trails))
      BY TracesAssumption
    <3>2. f \in Nat \ {0} /\ g \in Nat
      BY <3>1
    <3> QED
      BY <1>6, <3>2
  <2>2. bp =< GetEnd(c)
    BY <1>3, <1>5, <2>1 DEF ForksInOrder, GetEnd, PhiOf
  <2> HIDE DEF b, c, bp, cp
  <2> QED
    BY <1>2, <1>3, <2>2
<1>7. CASE f = g /\ j < h
  <2>1. Len(a.forks[f]) = 2 /\ j = 1 /\ h = 2
    <3>1. a.forks[f] \in Seq(Trails) /\ Len(a.forks[f]) \in 1..2
      BY <1>1 DEF IsFork, ForksInOrder, GetEnd, PhiOf
    <3>2. j \in 1..Len(a.forks[f]) /\ h \in 1..Len(a.forks[f])
      BY <1>7, <3>1
    <3> QED
      BY <1>7, <3>1, <3>2
  <2>2. GetEnd(b) =< GetEnd(c)
    BY <1>7, <2>1 DEF ForksInOrder, GetEnd, PhiOf
  <2>3. ASSUME GetEnd(c) \in b PROVE FALSE
    <3>1. GetEnd(c) = GetEnd(b)
      <4> HIDE DEF b, c
      <4> QED
        BY <1>2, <1>3, <2>2, <2>3
    <3>2. PICK t \in 0..Len(a.forks[f]) :
            /\ t = 0 => Len(a.forks[f]) = 1
            /\ t # 0 => a.values[GetEnd(a.forks[f][t])] = a.values[a.phi[f]]
      BY DEF OneTaken, GetEnd
    <3>3. t \in {1, 2} /\ a.values[GetEnd(a.forks[f][t])] = a.values[bp]
      BY <1>5, <2>1, <3>2
    <3> QED
      BY <1>4, <1>7, <2>1, <3>1, <3>3
  <2>4. cp \notin b
    <3> HIDE DEF b, c, bp, cp
    <3> QED
      BY <1>2, <1>3, <2>2
  <2> QED
    BY <2>3, <2>4
<1> QED
  BY <1>6, <1>7

\* The first k forks are loaded.
Loads(a, k, bs) ==
  /\ \A b \in Listed(bs) : \E f \in 1..k : \E j \in DOMAIN a.forks[f] : b = BranchOf(a, f, j)
  /\ \A f \in 1..k : \A j \in DOMAIN a.forks[f] : BranchOf(a, f, j) \in Listed(bs)

NewBranches(a, f) == [j \in DOMAIN a.forks[f] |-> BranchOf(a, f, j)]

LEMMA NewTyped ==
  ASSUME NEW a \in Traces, NEW f \in DOMAIN a.forks
  PROVE  /\ NewBranches(a, f) \in Seq(Branches)
         /\ Listed(NewBranches(a, f)) = {BranchOf(a, f, j) : j \in DOMAIN a.forks[f]}
<1>1. IsFork(a.forks[f])
  BY ForkIs
<1>2. PICK n \in Nat : DOMAIN a.forks[f] = 1..n
  BY <1>1 DEF IsFork
<1>3. \A j \in 1..n : BranchOf(a, f, j) \in Branches
  <2>1. PhiOf(a.forks[f]) \in Nat
    BY <1>1, PhiIs
  <2>2. \A j \in 1..n : a.forks[f][j] \in Trails
    BY <1>1, <1>2 DEF IsFork
  <2> QED
    BY <2>1, <2>2 DEF BranchOf, Branches
<1>4. \A S : (\A j \in 1..n : BranchOf(a, f, j) \in S) => [j \in 1..n |-> BranchOf(a, f, j)] \in Seq(S)
  OBVIOUS
<1>5. NewBranches(a, f) \in Seq(Branches)
  BY <1>2, <1>3, <1>4 DEF NewBranches
<1> QED
  BY <1>5 DEF NewBranches, Listed

LEMMA LoadsNext ==
  ASSUME NEW a \in Traces, NEW k \in Nat, k + 1 \in DOMAIN a.forks,
         NEW bs \in Seq(Branches), Loads(a, k, bs)
  PROVE  Loads(a, k + 1, bs \o NewBranches(a, k + 1))
<1>1. Listed(bs \o NewBranches(a, k + 1)) =
        Listed(bs) \cup {BranchOf(a, k + 1, j) : j \in DOMAIN a.forks[k + 1]}
  BY NewTyped, OneAfter
<1>2. 1..(k + 1) = (1..k) \cup {k + 1}
  OBVIOUS
<1> DEFINE l == Listed(bs \o NewBranches(a, k + 1))
<1> HIDE DEF l
<1>3. l = Listed(bs) \cup {BranchOf(a, k + 1, j) : j \in DOMAIN a.forks[k + 1]}
  BY <1>1 DEF l
<1>4. \A b \in l : \E f \in 1..(k + 1) : \E j \in DOMAIN a.forks[f] : b = BranchOf(a, f, j)
  BY <1>2, <1>3 DEF Loads
<1>5. \A f \in 1..(k + 1) : \A j \in DOMAIN a.forks[f] : BranchOf(a, f, j) \in l
  BY <1>2, <1>3 DEF Loads
<1> QED
  BY <1>4, <1>5 DEF Loads, l

LEMMA SparedNext ==
  ASSUME NEW a \in Traces, ForksInOrder(a), OneTaken(a), NEW k \in Nat, k + 1 \in DOMAIN a.forks,
         NEW bs \in Seq(Branches), Loads(a, k, bs), Spared(a, bs)
  PROVE  Spared(a, bs \o NewBranches(a, k + 1))
<1> DEFINE new == NewBranches(a, k + 1)
           all == bs \o new
<1>1. new \in Seq(Branches) /\ Listed(new) = {BranchOf(a, k + 1, j) : j \in DOMAIN a.forks[k + 1]}
  BY NewTyped
<1>2. DOMAIN new = DOMAIN a.forks[k + 1] /\ \A j \in DOMAIN new : new[j] = BranchOf(a, k + 1, j)
  BY DEF NewBranches
<1>3. \A f \in 1..k : f \in DOMAIN a.forks /\ f < k + 1
  <2>1. a.forks \in Seq(Seq(Trails))
    BY TracesAssumption
  <2> QED
    BY <2>1
<1> HIDE DEF new
<1> SUFFICES ASSUME NEW p \in DOMAIN all, NEW q \in DOMAIN all, p < q
             PROVE  Spares(a, all[p], all[q])
  BY DEF Spared, new
<1>4. \/ p \in DOMAIN bs /\ q \in DOMAIN bs /\ all[p] = bs[p] /\ all[q] = bs[q]
      \/ all[p] \in Listed(bs) /\ all[q] \in Listed(new)
      \/ \E i, j \in DOMAIN new : i < j /\ all[p] = new[i] /\ all[q] = new[j]
  BY <1>1, OneAfter
<1> HIDE DEF all
<1>5. CASE p \in DOMAIN bs /\ q \in DOMAIN bs /\ all[p] = bs[p] /\ all[q] = bs[q]
  BY <1>5 DEF Spared
<1>6. CASE all[p] \in Listed(bs) /\ all[q] \in Listed(new)
  <2>1. PICK f \in 1..k : \E j \in DOMAIN a.forks[f] : all[p] = BranchOf(a, f, j)
    BY <1>6 DEF Loads
  <2>2. PICK j \in DOMAIN a.forks[f] : all[p] = BranchOf(a, f, j)
    BY <2>1
  <2>3. PICK h \in DOMAIN a.forks[k + 1] : all[q] = BranchOf(a, k + 1, h)
    BY <1>1, <1>6
  <2>4. Spares(a, BranchOf(a, f, j), BranchOf(a, k + 1, h))
    BY <1>3, LaterSpared
  <2> QED
    BY <2>2, <2>3, <2>4
<1>7. CASE \E i, j \in DOMAIN new : i < j /\ all[p] = new[i] /\ all[q] = new[j]
  <2>1. PICK i, j \in DOMAIN new : i < j /\ all[p] = new[i] /\ all[q] = new[j]
    BY <1>7
  <2>2. i \in DOMAIN a.forks[k + 1] /\ j \in DOMAIN a.forks[k + 1]
        /\ all[p] = BranchOf(a, k + 1, i) /\ all[q] = BranchOf(a, k + 1, j)
    BY <1>2, <2>1
  <2>3. Spares(a, BranchOf(a, k + 1, i), BranchOf(a, k + 1, j))
    BY <2>1, <2>2, LaterSpared
  <2> QED
    BY <2>2, <2>3
<1> QED
  BY <1>4, <1>5, <1>6, <1>7

-----------------------------------------------------------------------------
\* How far LoadMeta has come, and the types of what it and deadBranches keep.
LoadInv ==
  /\ trace \in Traces
  /\ forks \in Seq(Seq(Trails))
  /\ branches \in Seq(Branches)
  /\ todo \in Seq(Branches)
  /\ phis \in Seq(Nat)
  /\ phase \in {"load", "dead", "phis", "rows", "done", "panic"}
  /\ \E k \in Nat :
       /\ k + Len(forks) = Len(trace.forks)
       /\ \A i \in DOMAIN forks : forks[i] = trace.forks[k + i]
       /\ Loads(trace, k, branches)

\* What LoadFork does, for the fork k + 1.
LEMMA LoadOne ==
  ASSUME LoadInv, LoadFork,
         NEW k \in Nat, k + Len(forks) = Len(trace.forks),
         \A i \in DOMAIN forks : forks[i] = trace.forks[k + i]
  PROVE  /\ k + 1 \in DOMAIN trace.forks
         /\ branches' = branches \o NewBranches(trace, k + 1)
         /\ forks' \in Seq(Seq(Trails)) /\ k + 1 + Len(forks') = Len(trace.forks)
         /\ \A i \in DOMAIN forks' : forks'[i] = trace.forks[k + 1 + i]
<1>1. forks \in Seq(Seq(Trails)) /\ forks # <<>> /\ forks' = Tail(forks) /\ trace \in Traces
  BY DEF LoadInv, LoadFork
<1>2. trace.forks \in Seq(Seq(Trails))
  BY <1>1, TracesAssumption
<1>3. PICK n \in Nat : n = Len(forks) /\ DOMAIN forks = 1..n
  BY <1>1
<1>4. n # 0
  BY <1>1, <1>3
<1>5. DOMAIN trace.forks = 1..(k + n)
  BY <1>2, <1>3
<1>6. k + 1 \in DOMAIN trace.forks
  BY <1>4, <1>5
<1>7. Head(forks) = trace.forks[k + 1]
  <2>1. Head(forks) = forks[1] /\ 1 \in DOMAIN forks
    BY <1>1, <1>3, <1>4
  <2> QED
    BY <2>1
<1>8. branches' = branches \o NewBranches(trace, k + 1)
  BY <1>7 DEF LoadFork, NewBranches, BranchOf
<1>9. forks' \in Seq(Seq(Trails)) /\ Len(forks') = n - 1 /\ DOMAIN forks' = 1..(n - 1)
      /\ \A i \in 1..(n - 1) : forks'[i] = forks[i + 1]
  BY <1>1, <1>3, <1>4
<1>10. ASSUME NEW i \in DOMAIN forks' PROVE forks'[i] = trace.forks[k + 1 + i]
  <2>1. i \in 1..(n - 1) /\ i + 1 \in DOMAIN forks /\ k + (i + 1) = k + 1 + i
    <3>1. \A x \in 1..(n - 1) : x + 1 \in 1..n /\ k + (x + 1) = k + 1 + x
      OBVIOUS
    <3>2. i \in 1..(n - 1)
      BY <1>9
    <3> QED
      BY <1>3, <3>1, <3>2
  <2>2. forks'[i] = forks[i + 1]
    BY <1>9, <2>1
  <2>3. forks[i + 1] = trace.forks[k + (i + 1)]
    BY <2>1
  <2> QED
    BY <2>1, <2>2, <2>3
<1>11. k + 1 + Len(forks') = Len(trace.forks)
  <2>1. Len(trace.forks) = k + n
    BY <1>3
  <2>2. k + 1 + (n - 1) = k + n
    BY <1>4
  <2> QED
    BY <1>9, <2>1, <2>2
<1> QED
  BY <1>6, <1>8, <1>9, <1>10, <1>11

LEMMA LoadInit == Init => LoadInv
<1> SUFFICES ASSUME Init PROVE LoadInv
  OBVIOUS
<1>1. /\ trace \in Traces /\ forks = trace.forks /\ branches = <<>> /\ todo = <<>> /\ phis = <<>>
      /\ phase = "load"
  BY DEF Init
<1>2. trace.forks \in Seq(Seq(Trails))
  BY <1>1, TracesAssumption
<1>3. 0 + Len(forks) = Len(trace.forks) /\ \A i \in DOMAIN forks : forks[i] = trace.forks[0 + i]
  BY <1>1, <1>2
<1>4. Loads(trace, 0, branches)
  <2>1. Listed(branches) = {}
    BY <1>1 DEF Listed
  <2> QED
    BY <2>1 DEF Loads
<1>5. \A S : <<>> \in Seq(S)
  OBVIOUS
<1> QED
  BY <1>1, <1>2, <1>3, <1>4, <1>5 DEF LoadInv

LEMMA LoadNext == LoadInv /\ [Next]_vars => LoadInv'
<1> SUFFICES ASSUME LoadInv, [Next]_vars PROVE LoadInv'
  OBVIOUS
<1>1. CASE LoadFork
  <2>1. PICK k \in Nat : /\ k + Len(forks) = Len(trace.forks)
                         /\ \A i \in DOMAIN forks : forks[i] = trace.forks[k + i]
                         /\ Loads(trace, k, branches)
    BY DEF LoadInv
  <2>2. /\ k + 1 \in DOMAIN trace.forks
        /\ branches' = branches \o NewBranches(trace, k + 1)
        /\ forks' \in Seq(Seq(Trails)) /\ k + 1 + Len(forks') = Len(trace.forks)
        /\ \A i \in DOMAIN forks' : forks'[i] = trace.forks[k + 1 + i]
    BY <1>1, <2>1, LoadOne
  <2>3. trace \in Traces /\ branches \in Seq(Branches)
    BY DEF LoadInv
  <2>4. branches' \in Seq(Branches)
    BY <2>2, <2>3, NewTyped, OneAfter
  <2>5. Loads(trace, k + 1, branches')
    BY <2>1, <2>2, <2>3, LoadsNext
  <2>6. trace' = trace /\ todo' = todo /\ phis' = phis /\ phase' = phase
    BY <1>1 DEF LoadFork
  <2>7. k + 1 \in Nat
    OBVIOUS
  <2>8. \E m \in Nat : /\ m + Len(forks') = Len(trace'.forks)
                       /\ \A i \in DOMAIN forks' : forks'[i] = trace'.forks[m + i]
                       /\ Loads(trace', m, branches')
    <3> WITNESS k + 1 \in Nat
    <3> QED
      BY <2>2, <2>5, <2>6
  <2> QED
    BY <2>2, <2>4, <2>6, <2>8 DEF LoadInv
<1>2. ASSUME UNCHANGED <<trace, forks, branches>>, todo' \in Seq(Branches), phis' \in Seq(Nat),
             phase' \in {"load", "dead", "phis", "rows", "done", "panic"}
      PROVE  LoadInv'
  BY <1>2 DEF LoadInv
<1>3. CASE DeadBranch
  <2>1. Head(todo) \in Branches /\ Tail(todo) \in Seq(Branches)
    BY <1>3, OneOff DEF DeadBranch, LoadInv
  <2>2. Head(todo).phi \in Nat
    BY <2>1 DEF Branches
  <2>3. Append(phis, Head(todo).phi) \in Seq(Nat)
    BY <2>2 DEF LoadInv
  <2> QED
    BY <1>2, <1>3, <2>1, <2>3 DEF DeadBranch, LoadInv
<1>4. CASE RemovePhi
  <2>1. Tail(phis) \in Seq(Nat)
    BY <1>4, OneOff DEF RemovePhi, LoadInv
  <2> QED
    BY <1>2, <1>4, <2>1 DEF RemovePhi, LoadInv
<1>5. CASE Format \/ BranchesDone \/ GenerateRows \/ Row \/ RowsDone \/ UNCHANGED vars
  BY <1>2, <1>5 DEF Format, BranchesDone, GenerateRows, Row, RowsDone, vars, LoadInv
<1> QED
  BY <1>1, <1>3, <1>4, <1>5 DEF Next, Step

\* TypeOK: LoadMeta makes branches with ends and phis that are versions of whatever
\* forks the generator leaves, and what deadBranches and generateRows keep is part
\* of the trace.
THEOREM TypeCorrect == Spec => []TypeOK
<1>1. RowsInv /\ LoadInv => TypeOK
  BY DEF RowsInv, LoadInv, TypeOK, Cells
<1> QED
  BY <1>1, RowsInit, RowsNext, LoadInit, LoadNext, PTL DEF Spec

-----------------------------------------------------------------------------
\* deadBranches is through with a branch: if it is dead nothing of it is shown, and
\* its phi is on the list of those to remove or removed.
Handled(b) ==
  /\ Dead(trace, b) => b.trail \cap shown = {}
  /\ b.phi \in Listed(phis) \/ b.phi \notin shown

\* The branches ahead are spared by those before them, so that their ends and phis
\* are found; each one behind is handled; and nothing else is removed.
DeadInv ==
  /\ ForksInOrder(trace) /\ OneTaken(trace)
  /\ Spared(trace, branches)
  /\ phase # "panic"
  /\ phase = "load" => shown = DOMAIN trace.values /\ todo = <<>> /\ phis = <<>>
  /\ phase # "load" => forks = <<>>
  /\ phase = "dead" => /\ Spared(trace, todo)
                       /\ \A c \in Listed(todo) : GetEnd(c.trail) \in shown /\ c.phi \in shown
  /\ phase \in {"phis", "rows", "done"} => todo = <<>>
  /\ phase \in {"rows", "done"} => phis = <<>>
  /\ Listed(todo) \subseteq Listed(branches)
  /\ phase # "load" => \A b \in Listed(branches) : b \in Listed(todo) \/ Handled(b)
  /\ \A n \in Listed(phis) : \E b \in Listed(branches) : n = b.phi
  /\ \A n \in DOMAIN trace.values \ shown :
       \E b \in Listed(branches) : n = b.phi \/ (Dead(trace, b) /\ n \in b.trail)

LEMMA ListedNone == Listed(<<>>) = {}
BY DEF Listed

LEMMA ListedAppend ==
  ASSUME NEW S, NEW s \in Seq(S), NEW x \in S
  PROVE  Listed(Append(s, x)) = Listed(s) \cup {x}
<1>1. PICK n \in Nat : n = Len(s) /\ DOMAIN s = 1..n
  OBVIOUS
<1> DEFINE u == Append(s, x)
<1>2. DOMAIN u = 1..(n + 1) /\ u[n + 1] = x /\ \A i \in 1..n : u[i] = s[i]
  BY <1>1
<1> HIDE DEF u
<1>3. 1..(n + 1) = (1..n) \cup {n + 1}
  OBVIOUS
<1>4. Listed(u) = Listed(s) \cup {x}
  BY <1>1, <1>2, <1>3 DEF Listed
<1> QED
  BY <1>4 DEF u

\* The branches are those of all forks when LoadMeta has come to its end.
LEMMA AllLoaded ==
  ASSUME LoadInv, forks = <<>>
  PROVE  /\ \A b \in Listed(branches) : \E f \in DOMAIN trace.forks :
              \E j \in DOMAIN trace.forks[f] : b = BranchOf(trace, f, j)
         /\ \A f \in DOMAIN trace.forks : \A j \in DOMAIN trace.forks[f] :
              BranchOf(trace, f, j) \in Listed(branches)
<1>1. PICK k \in Nat : k + Len(forks) = Len(trace.forks) /\ Loads(trace, k, branches)
  BY DEF LoadInv
<1>2. Len(forks) = 0
  OBVIOUS
<1>3. trace.forks \in Seq(Seq(Trails))
  BY TracesAssumption DEF LoadInv
<1>4. DOMAIN trace.forks = 1..k
  BY <1>1, <1>2, <1>3
<1> QED
  BY <1>1, <1>4 DEF Loads

LEMMA DeadLoad ==
  ASSUME LoadInv, DeadInv, LoadFork
  PROVE  DeadInv'
<1>1. PICK k \in Nat : /\ k + Len(forks) = Len(trace.forks)
                       /\ \A i \in DOMAIN forks : forks[i] = trace.forks[k + i]
                       /\ Loads(trace, k, branches)
  BY DEF LoadInv
<1>2. k + 1 \in DOMAIN trace.forks /\ branches' = branches \o NewBranches(trace, k + 1)
  BY <1>1, LoadOne
<1>3. trace \in Traces /\ branches \in Seq(Branches)
  BY DEF LoadInv
<1>4. Spared(trace, branches')
  BY <1>1, <1>2, <1>3, SparedNext DEF DeadInv
<1>5. /\ phase = "load" /\ phase' = "load" /\ trace' = trace /\ shown' = shown
      /\ todo' = todo /\ phis' = phis
  BY DEF LoadFork
<1>6. shown = DOMAIN trace.values /\ todo = <<>> /\ phis = <<>>
  BY <1>5 DEF DeadInv
<1>7. (Spared(trace, branches))'
  BY <1>4, <1>5
<1>8. (ForksInOrder(trace) /\ OneTaken(trace))'
  BY <1>5 DEF DeadInv
<1> QED
  BY <1>5, <1>6, <1>7, <1>8, ListedNone DEF DeadInv

LEMMA DeadFormat ==
  ASSUME LoadInv, DeadInv, Format
  PROVE  DeadInv'
<1>1. /\ phase = "load" /\ phase' = "dead" /\ forks = <<>> /\ todo' = branches
      /\ UNCHANGED <<trace, forks, branches, phis, shown>>
  BY DEF Format
<1>2. shown = DOMAIN trace.values /\ phis = <<>>
  BY <1>1 DEF DeadInv
<1>3. ASSUME NEW c \in Listed(branches) PROVE GetEnd(c.trail) \in shown /\ c.phi \in shown
  <2>1. PICK f \in DOMAIN trace.forks : \E j \in DOMAIN trace.forks[f] : c = BranchOf(trace, f, j)
    BY <1>1, AllLoaded
  <2>2. PICK j \in DOMAIN trace.forks[f] : c = BranchOf(trace, f, j)
    BY <2>1
  <2>3. c.trail = trace.forks[f][j] /\ c.phi = PhiOf(trace.forks[f])
    BY <2>2 DEF BranchOf
  <2>4. GetEnd(trace.forks[f][j]) \in trace.forks[f][j]
    <3>1. IsFork(trace.forks[f])
      BY ForkIs DEF LoadInv
    <3> QED
      BY <3>1, EndIs
  <2>5. trace.forks[f][j] \subseteq DOMAIN trace.values /\ PhiOf(trace.forks[f]) \in DOMAIN trace.values
    BY DEF DeadInv, ForksInOrder, GetEnd, PhiOf
  <2> QED
    BY <1>2, <2>3, <2>4, <2>5
<1>4. (ForksInOrder(trace) /\ OneTaken(trace) /\ Spared(trace, branches))'
  BY <1>1 DEF DeadInv
<1>5. Spared(trace, todo)'
  BY <1>1 DEF DeadInv
<1>6. (phase = "dead" => /\ Spared(trace, todo)
                         /\ \A c \in Listed(todo) : GetEnd(c.trail) \in shown /\ c.phi \in shown)'
  BY <1>1, <1>3, <1>5
<1> QED
  BY <1>1, <1>2, <1>4, <1>6, ListedNone DEF DeadInv

LEMMA DeadStep ==
  ASSUME LoadInv, DeadInv, DeadBranch
  PROVE  DeadInv'
<1>0. PICK b : b = Head(todo)
  OBVIOUS
<1>1. /\ phase = "dead" /\ todo # <<>> /\ todo' = Tail(todo) /\ todo \in Seq(Branches)
      /\ phis' = Append(phis, b.phi) /\ UNCHANGED <<trace, forks, branches>>
  BY <1>0 DEF DeadBranch, LoadInv
<1>2. /\ b \in Branches /\ Listed(todo) = {b} \cup Listed(todo')
      /\ b = todo[1] /\ 1 \in DOMAIN todo
      /\ \A i \in DOMAIN todo' : i + 1 \in DOMAIN todo /\ todo'[i] = todo[i + 1] /\ i \in Nat \ {0}
  BY <1>0, <1>1, OneOff
<1>3. Listed(phis') = Listed(phis) \cup {b.phi}
  <2>1. b.phi \in Nat /\ phis \in Seq(Nat)
    BY <1>2 DEF LoadInv, Branches
  <2>2. PICK x \in Nat : x = b.phi
    BY <2>1
  <2>3. Listed(Append(phis, x)) = Listed(phis) \cup {x}
    BY <2>1, ListedAppend
  <2> QED
    BY <1>1, <2>2, <2>3
<1>4. {GetEnd(b.trail), b.phi} \subseteq shown
  BY <1>1, <1>2 DEF DeadInv
<1>5. phase' = "dead" /\ shown' = IF Dead(trace, b) THEN shown \ b.trail ELSE shown
  BY <1>0, <1>1, <1>4 DEF DeadBranch, Dead, InTrail
<1>6. ASSUME NEW i \in DOMAIN todo' PROVE Spares(trace, b, todo'[i])
  <2>1. 1 < i + 1 /\ i + 1 \in DOMAIN todo /\ todo'[i] = todo[i + 1]
    BY <1>2
  <2> QED
    BY <1>1, <1>2, <2>1 DEF DeadInv, Spared
<1>7. \A c \in Listed(todo') : GetEnd(c.trail) \in shown' /\ c.phi \in shown'
  <2> SUFFICES ASSUME NEW i \in DOMAIN todo'
               PROVE  GetEnd(todo'[i].trail) \in shown' /\ todo'[i].phi \in shown'
    BY DEF Listed
  <2>1. GetEnd(todo'[i].trail) \in shown /\ todo'[i].phi \in shown
    <3>1. todo'[i] \in Listed(todo)
      BY <1>2 DEF Listed
    <3> QED
      BY <1>1, <3>1 DEF DeadInv
  <2> QED
    BY <1>5, <1>6, <2>1 DEF Spares
<1>8. Spared(trace', todo')
  <2> SUFFICES ASSUME NEW p \in DOMAIN todo', NEW q \in DOMAIN todo', p < q
               PROVE  Spares(trace, todo'[p], todo'[q])
    BY <1>1 DEF Spared
  <2>1. p + 1 \in DOMAIN todo /\ q + 1 \in DOMAIN todo /\ p \in Nat /\ q \in Nat
        /\ todo'[p] = todo[p + 1] /\ todo'[q] = todo[q + 1]
    BY <1>2
  <2>2. p + 1 < q + 1
    BY <2>1
  <2> QED
    BY <1>1, <2>1, <2>2 DEF DeadInv, Spared
<1>9. ASSUME NEW c \in Listed(branches) PROVE c \in Listed(todo') \/ Handled(c)'
  <2>1. c \in Listed(todo) \/ Handled(c)
    BY <1>1 DEF DeadInv
  <2>2. shown' \subseteq shown /\ Listed(phis) \subseteq Listed(phis') /\ trace' = trace
    BY <1>1, <1>3, <1>5
  <2>3. CASE Handled(c)
    BY <2>2, <2>3 DEF Handled
  <2>4. CASE c = b
    <3>1. Dead(trace, b) => b.trail \cap shown' = {}
      BY <1>5
    <3>2. b.phi \in Listed(phis')
      BY <1>3
    <3> QED
      BY <2>2, <2>4, <3>1, <3>2 DEF Handled
  <2> QED
    BY <1>2, <2>1, <2>3, <2>4
<1>10. b \in Listed(branches)
  BY <1>2 DEF DeadInv
<1>11. \A n \in Listed(phis') : \E c \in Listed(branches) : n = c.phi
  BY <1>3, <1>10 DEF DeadInv
<1>12. \A n \in DOMAIN trace.values \ shown' :
         \E c \in Listed(branches) : n = c.phi \/ (Dead(trace, c) /\ n \in c.trail)
  BY <1>5, <1>10 DEF DeadInv
<1>13. Listed(todo') \subseteq Listed(branches)
  BY <1>2 DEF DeadInv
<1>14. (ForksInOrder(trace) /\ OneTaken(trace) /\ Spared(trace, branches))' /\ forks' = <<>>
  BY <1>1 DEF DeadInv
<1>15. \A n \in DOMAIN trace'.values \ shown' :
         \E c \in Listed(branches') : n = c.phi \/ (Dead(trace', c) /\ n \in c.trail)
  BY <1>1, <1>12
<1> QED
  BY <1>1, <1>5, <1>7, <1>8, <1>9, <1>11, <1>13, <1>14, <1>15 DEF DeadInv

LEMMA DeadPhi ==
  ASSUME LoadInv, DeadInv, RemovePhi
  PROVE  DeadInv'
<1>0. PICK x : x = Head(phis)
  OBVIOUS
<1>1. /\ phase = "phis" /\ phis # <<>> /\ phis' = Tail(phis) /\ phis \in Seq(Nat)
      /\ shown' = shown \ {x} /\ UNCHANGED <<trace, forks, branches, todo, phase>>
  BY <1>0 DEF RemovePhi, LoadInv
<1>2. Listed(phis) = {x} \cup Listed(phis')
  BY <1>0, <1>1, OneOff
<1>3. ASSUME NEW b \in Listed(branches) PROVE b \in Listed(todo') \/ Handled(b)'
  <2>1. b \in Listed(todo) \/ Handled(b)
    BY <1>1 DEF DeadInv
  <2>2. shown' \subseteq shown /\ trace' = trace
    BY <1>1
  <2>3. CASE Handled(b)
    <3>1. Dead(trace, b) => b.trail \cap shown' = {}
      BY <2>2, <2>3 DEF Handled
    <3>2. b.phi \in Listed(phis') \/ b.phi \notin shown'
      BY <1>1, <1>2, <2>3 DEF Handled
    <3> QED
      BY <2>2, <3>1, <3>2 DEF Handled
  <2> QED
    BY <1>1, <2>1, <2>3
<1>4. \A n \in Listed(phis') : \E b \in Listed(branches) : n = b.phi
  BY <1>2 DEF DeadInv
<1>5. \A n \in DOMAIN trace.values \ shown' :
        \E b \in Listed(branches) : n = b.phi \/ (Dead(trace, b) /\ n \in b.trail)
  BY <1>1, <1>2 DEF DeadInv
<1>6. (ForksInOrder(trace) /\ OneTaken(trace) /\ Spared(trace, branches))' /\ forks' = <<>>
  BY <1>1 DEF DeadInv
<1>7. \A n \in DOMAIN trace'.values \ shown' :
        \E b \in Listed(branches') : n = b.phi \/ (Dead(trace', b) /\ n \in b.trail)
  BY <1>1, <1>5
<1>8. todo' = <<>> /\ phase' = "phis" /\ Listed(todo') \subseteq Listed(branches') /\ branches' = branches
  BY <1>1 DEF DeadInv
<1> QED
  BY <1>3, <1>4, <1>6, <1>7, <1>8 DEF DeadInv

\* The steps that touch neither the branches nor what is shown.
LEMMA DeadOther ==
  ASSUME LoadInv, DeadInv, BranchesDone \/ GenerateRows \/ Row \/ RowsDone \/ UNCHANGED vars
  PROVE  DeadInv'
<1>1. UNCHANGED <<trace, forks, branches, todo, phis, shown>>
  BY DEF BranchesDone, GenerateRows, Row, RowsDone, vars
<1>2. \/ phase' = phase
      \/ phase = "dead" /\ phase' = "phis" /\ todo = <<>>
      \/ phase = "phis" /\ phase' = "rows" /\ phis = <<>>
      \/ phase = "rows" /\ phase' = "done"
  BY DEF BranchesDone, GenerateRows, Row, RowsDone, vars
<1>3. (ForksInOrder(trace) /\ OneTaken(trace) /\ Spared(trace, branches))'
  BY <1>1 DEF DeadInv
<1>4. \A b : Handled(b)' <=> Handled(b)
  BY <1>1 DEF Handled, Dead
<1>5. phase' = "dead" => phase = "dead"
  BY <1>2
<1>6. phase' # "load" <=> phase # "load"
  BY <1>2
<1>7. phase' = "dead" => /\ Spared(trace', todo')
                         /\ \A c \in Listed(todo') : GetEnd(c.trail) \in shown' /\ c.phi \in shown'
  BY <1>1, <1>5 DEF DeadInv
<1>8. \A n \in DOMAIN trace'.values \ shown' :
        \E b \in Listed(branches') : n = b.phi \/ (Dead(trace', b) /\ n \in b.trail)
  BY <1>1 DEF DeadInv
<1>9. phase' # "load" => \A b \in Listed(branches') : b \in Listed(todo') \/ Handled(b)'
  BY <1>1, <1>4, <1>6 DEF DeadInv
<1>10. /\ phase' # "panic"
       /\ phase' = "load" => shown' = DOMAIN trace'.values /\ todo' = <<>> /\ phis' = <<>>
       /\ phase' # "load" => forks' = <<>>
       /\ phase' \in {"phis", "rows", "done"} => todo' = <<>>
       /\ phase' \in {"rows", "done"} => phis' = <<>>
  BY <1>1, <1>2 DEF DeadInv
<1>11. Listed(todo') \subseteq Listed(branches')
       /\ \A n \in Listed(phis') : \E b \in Listed(branches') : n = b.phi
  BY <1>1 DEF DeadInv
<1> QED
  BY <1>3, <1>7, <1>8, <1>9, <1>10, <1>11 DEF DeadInv

LEMMA DeadInit == Init /\ ForksInOrder(trace) /\ OneTaken(trace) => DeadInv
<1> SUFFICES ASSUME Init, ForksInOrder(trace), OneTaken(trace) PROVE DeadInv
  OBVIOUS
<1>1. /\ phase = "load" /\ shown = DOMAIN trace.values /\ todo = <<>> /\ phis = <<>>
      /\ branches = <<>>
  BY DEF Init
<1>2. Spared(trace, branches)
  BY <1>1 DEF Spared
<1> QED
  BY <1>1, <1>2, ListedNone DEF DeadInv

LEMMA DeadNext == LoadInv /\ DeadInv /\ [Next]_vars => DeadInv'
BY DeadLoad, DeadFormat, DeadStep, DeadPhi, DeadOther DEF Next, Step

LEMMA TakenHolds == LoadInv /\ DeadInv => TakenKept
<1> SUFFICES ASSUME LoadInv, DeadInv, phase \in {"rows", "done"},
                    NEW n \in DOMAIN trace.values \ shown
             PROVE  \E f \in DOMAIN trace.forks :
                      n \in trace.left[f] \cup trace.read[f] \cup {trace.phi[f]}
  BY DEF TakenKept
<1>1. forks = <<>>
  BY DEF DeadInv
<1>2. PICK b \in Listed(branches) : n = b.phi \/ (Dead(trace, b) /\ n \in b.trail)
  BY DEF DeadInv
<1>3. PICK f \in DOMAIN trace.forks : \E j \in DOMAIN trace.forks[f] : b = BranchOf(trace, f, j)
  BY <1>1, AllLoaded
<1>4. PICK j \in DOMAIN trace.forks[f] : b = BranchOf(trace, f, j)
  BY <1>3
<1>5. trace.phi[f] = PhiOf(trace.forks[f])
  BY DEF DeadInv, ForksInOrder, GetEnd, PhiOf
<1>6. b.trail = trace.forks[f][j] /\ b.phi = trace.phi[f]
  BY <1>4, <1>5 DEF BranchOf
<1>7. CASE Dead(trace, b) /\ n \in b.trail
  <2>1. PICK t \in 0..Len(trace.forks[f]) :
          /\ t # 0 => trace.values[GetEnd(trace.forks[f][t])] = trace.values[trace.phi[f]]
          /\ \A i \in DOMAIN trace.forks[f] \ {t} :
               trace.forks[f][i] = trace.left[f] \cup trace.read[f]
    BY DEF DeadInv, OneTaken, GetEnd
  <2>2. j # 0
    <3>1. IsFork(trace.forks[f])
      BY ForkIs DEF LoadInv
    <3> QED
      BY <3>1 DEF IsFork
  <2>3. j # t
    BY <1>6, <1>7, <2>1, <2>2 DEF Dead
  <2> QED
    BY <1>6, <1>7, <2>1, <2>3
<1> QED
  BY <1>2, <1>6, <1>7

LEMMA GoneHolds == LoadInv /\ DeadInv => DeadGone
<1> SUFFICES ASSUME LoadInv, DeadInv, phase \in {"rows", "done"}, NEW f \in DOMAIN trace.forks
             PROVE  /\ trace.phi[f] \notin shown
                    /\ trace.left[f] \cap shown # {} =>
                         trace.values[Max(trace.left[f])] = trace.values[trace.phi[f]]
  BY DEF DeadGone
<1> DEFINE c == trace.forks[f]
<1>1. forks = <<>> /\ todo = <<>> /\ phis = <<>> /\ phase # "load"
  BY DEF DeadInv
<1>2. trace.phi[f] = PhiOf(c) /\ Len(c) \in 1..2
  BY DEF DeadInv, ForksInOrder, GetEnd, PhiOf
<1>3. IsFork(c)
  BY ForkIs DEF LoadInv
<1>4. DOMAIN c = 1..Len(c) /\ 1 \in DOMAIN c
  BY <1>2, <1>3 DEF IsFork
<1>5. ASSUME NEW j \in DOMAIN c
      PROVE  /\ trace.phi[f] \notin shown
             /\ trace.values[GetEnd(c[j])] # trace.values[trace.phi[f]] => c[j] \cap shown = {}
  <2>1. BranchOf(trace, f, j) \in Listed(branches)
    BY <1>1, AllLoaded
  <2>2. Handled(BranchOf(trace, f, j))
    BY <1>1, <2>1, ListedNone DEF DeadInv
  <2>3. BranchOf(trace, f, j).trail = c[j] /\ BranchOf(trace, f, j).phi = trace.phi[f]
    BY <1>2 DEF BranchOf
  <2> QED
    BY <1>1, <2>2, <2>3, ListedNone DEF Handled, Dead
<1>6. ASSUME trace.left[f] \cap shown # {}
      PROVE  trace.values[Max(trace.left[f])] = trace.values[trace.phi[f]]
  <2> DEFINE l == trace.left[f]
             r == trace.read[f]
  <2>1. PICK t \in 0..Len(c) :
          /\ \A j \in DOMAIN c \ {t} : c[j] = l \cup r
          /\ \A n \in l : \A m \in r : m < n
          /\ l # {} => DOMAIN c # {t}
    BY DEF DeadInv, OneTaken, GetEnd
  <2>2. PICK j \in DOMAIN c : j # t
    BY <1>4, <1>6, <2>1
  <2>3. c[j] = l \cup r /\ c[j] \in SUBSET Nat /\ IsFiniteSet(c[j]) /\ l # {}
    BY <1>3, <1>6, <2>1, <2>2 DEF IsFork, Trails
  <2>4. IsFiniteSet(l) /\ l \in SUBSET Nat
    BY <2>3, FS_Subset
  <2>5. Max(l) \in l /\ \A m \in l : m =< Max(l)
    BY <2>3, <2>4, MaxIs
  <2>6. GetEnd(c[j]) \in c[j] /\ \A m \in c[j] : m \in Nat /\ m =< GetEnd(c[j])
    BY <1>3, EndIs
  <2>7. GetEnd(c[j]) = Max(l)
    <3>1. PICK e \in c[j] : e = GetEnd(c[j]) /\ e \in Nat /\ \A m \in c[j] : m =< e
      BY <2>6
    <3>2. PICK g \in l : g = Max(l) /\ g \in Nat /\ \A m \in l : m =< g
      BY <2>4, <2>5
    <3>3. g =< e
      BY <2>3, <3>1, <3>2
    <3>4. e \in l
      BY <2>1, <2>3, <3>1, <3>2, <3>3
    <3> QED
      BY <3>1, <3>2, <3>3, <3>4
  <2>8. c[j] \cap shown # {}
    BY <1>6, <2>3
  <2> QED
    BY <1>5, <2>7, <2>8
<1> QED
  BY <1>4, <1>5, <1>6

\* EndsFound: with the numbering of the generator, a branch that deadBranches removes
\* never holds the end or the phi that it looks up later, so it does not panic.
THEOREM NoPanic == Spec /\ ForksInOrder(trace) /\ OneTaken(trace) => []EndsFound
<1>1. DeadInv => EndsFound
  BY DEF DeadInv, EndsFound
<1> QED
  BY <1>1, DeadInit, DeadNext, LoadInit, LoadNext, PTL DEF Spec

\* TakenKept: what is missing in the display is of a branch that was left out, or a phi.
THEOREM TakenShown == Spec /\ ForksInOrder(trace) /\ OneTaken(trace) => []TakenKept
<1> QED
  BY TakenHolds, DeadInit, DeadNext, LoadInit, LoadNext, PTL DEF Spec

\* DeadGone: no phi is displayed, and of the branches that were left out only those
\* whose end has the value of the phi.
THEOREM LeftOutGone == Spec /\ ForksInOrder(trace) /\ OneTaken(trace) => []DeadGone
<1> QED
  BY GoneHolds, DeadInit, DeadNext, LoadInit, LoadNext, PTL DEF Spec
=============================================================================
