--------------------------- MODULE SmtPathsProofs ---------------------------
(***************************************************************************)
(* The versions along the paths of a conditional: proofs of ReadsCurrent,  *)
(* PhiAboveEnds, NeverPanics and MergesPathEnds for classes of LLVM        *)
(* modules, with conditionals nested to any depth, also through calls.     *)
(***************************************************************************)
EXTENDS SmtRoundsProofs

-----------------------------------------------------------------------------
(***************************************************************************)
(* Agendas.                                                                *)
(***************************************************************************)

\* b is a with its head replaced by the entries s.
Spliced(a, b, s, n, l) ==
  /\ n \in Nat /\ l \in Nat \ {0}
  /\ DOMAIN s = 1..n /\ DOMAIN a = 1..l /\ DOMAIN b = 1..(n + l - 1)
  /\ \A i \in 1..n : b[i] = s[i]
  /\ \A i \in 2..l : b[i - 1 + n] = a[i]

LEMMA SplicedDo ==
  ASSUME agenda \in Seq(Items), agenda # <<>>, NEW s \in Seq(Items), Do(s)
  PROVE  \E n, l \in Nat : Spliced(agenda, agenda', s, n, l) /\ Head(agenda) = agenda[1]
<1>1. PICK n \in Nat, l \in Nat : n = Len(s) /\ l = Len(agenda)
  OBVIOUS
<1>2. l # 0 /\ DOMAIN s = 1..n /\ DOMAIN agenda = 1..l
  BY <1>1, EmptySeq
<1>3. Tail(agenda) \in Seq(Items) /\ Len(Tail(agenda)) = l - 1
      /\ \A j \in 1..(l - 1) : Tail(agenda)[j] = agenda[j + 1]
  BY <1>1, <1>2
<1>4. agenda' = s \o Tail(agenda)
  BY DEF Do
<1>5. PICK t : t = Tail(agenda)
  OBVIOUS
<1>6. Len(agenda') = n + l - 1 /\ agenda' \in Seq(Items)
  BY <1>1, <1>3, <1>4
<1>7. \A i \in 1..n : agenda'[i] = s[i]
  BY <1>1, <1>3, <1>4
<1>8. \A i \in 1..(l - 1) : agenda'[i + n] = t[i]
  BY <1>1, <1>3, <1>4, <1>5
<1>9. ASSUME NEW i \in 2..l PROVE agenda'[i - 1 + n] = agenda[i]
  <2>1. i - 1 \in 1..(l - 1) /\ (i - 1) + 1 = i /\ (i - 1) + n = i - 1 + n
    BY <1>1
  <2> QED BY <1>3, <1>5, <1>8, <2>1
<1>10. DOMAIN agenda' = 1..(n + l - 1)
  BY <1>6
<1>11. Head(agenda) = agenda[1]
  OBVIOUS
<1> QED BY <1>1, <1>2, <1>7, <1>9, <1>10, <1>11 DEF Spliced

\* An entry of the new agenda is one of s or one of the old agenda.
LEMMA SplicedAt ==
  ASSUME NEW a, NEW b, NEW s, NEW n, NEW l, Spliced(a, b, s, n, l), NEW i \in DOMAIN b
  PROVE  \/ i \in DOMAIN s /\ b[i] = s[i]
         \/ \E k \in 2..l : i = k - 1 + n /\ b[i] = a[k] /\ k \in DOMAIN a
<1>0. n \in Nat /\ l \in Nat
  BY DEF Spliced
<1>1. i \in 1..(n + l - 1)
  BY DEF Spliced
<1>2. CASE i \in 1..n
  BY <1>2 DEF Spliced
<1>3. CASE i \notin 1..n
  <2>1. i - n + 1 \in 2..l /\ i = (i - n + 1) - 1 + n
    BY <1>0, <1>1, <1>3
  <2>2. PICK k \in 2..l : i = k - 1 + n
    BY <2>1
  <2>3. b[i] = a[k] /\ k \in DOMAIN a
    BY <1>0, <2>2 DEF Spliced
  <2> QED BY <2>2, <2>3
<1> QED BY <1>2, <1>3

-----------------------------------------------------------------------------
(***************************************************************************)
(* Models without parallel steps.  A call waits on the callstack until the *)
(* next entry in Breaks; what may happen before is in Calm.  R is what is  *)
(* kept away from pending calls besides calls of the same group.           *)
(***************************************************************************)
Breaks == {"flush", "round"}
Reading == {"infix", "copy", "cmp"}
Simple == {"const", "infix", "copy", "cmp", "advance", "state", "flush", "round"}
Calm(m, R) == {h \in Items : h.do \in Simple \ R \/ (h.do = "call" /\ m \notin {NoGroup, h.m})}

\* In agenda a, only calm entries come after entry n and before the next break.
Waits(a, n, m, R) ==
  \A j \in DOMAIN a : j > n /\ a[j] \notin Calm(m, R) => \E k \in (n + 1)..j : a[k].do \in Breaks

CallsApart(R) ==
  \A i \in DOMAIN agenda :
    agenda[i].do \in {"call", "called"} => Waits(agenda, i, agenda[i].m, R)
Alone(R) == callstack # <<>> => Waits(agenda, 0, grouping, R)
NoRuns == \A i \in DOMAIN agenda : agenda[i].do \notin FromRun \cup {"options"}
OneCall == callstack = <<>> \/ Len(callstack) = 1

QInv(R) == OneCall /\ runStart = FALSE /\ NoRuns /\ CallsApart(R) /\ Alone(R)

LEMMA WaitsTail ==
  ASSUME NEW a, NEW b, NEW s, NEW n, NEW l, Spliced(a, b, s, n, l),
         NEW i \in 1..l, NEW m, NEW R, Waits(a, i, m, R)
  PROVE  Waits(b, i - 1 + n, m, R)
<1>1. n \in Nat /\ l \in Nat
  BY DEF Spliced
<1> SUFFICES ASSUME NEW j \in DOMAIN b, j > i - 1 + n, b[j] \notin Calm(m, R)
             PROVE  \E k \in (i - 1 + n + 1)..j : b[k].do \in Breaks
  BY DEF Waits
<1>2. j \in 1..(n + l - 1)
  BY DEF Spliced
<1>3. PICK j0 \in 2..l : j0 = j - n + 1 /\ j = j0 - 1 + n /\ j0 > i
  BY <1>1, <1>2
<1>4. b[j] = a[j0] /\ j0 \in DOMAIN a
  BY <1>1, <1>3 DEF Spliced
<1>5. PICK k \in (i + 1)..j0 : a[k].do \in Breaks
  BY <1>3, <1>4 DEF Waits
<1>6. k \in 2..l /\ k - 1 + n \in (i - 1 + n + 1)..j
  BY <1>1, <1>3
<1>7. b[k - 1 + n] = a[k]
  BY <1>6 DEF Spliced
<1> QED BY <1>5, <1>6, <1>7

LEMMA WaitsFront ==
  ASSUME NEW a, NEW b, NEW s, NEW n, NEW l, Spliced(a, b, s, n, l),
         NEW p \in 0..n, NEW m, NEW R, Waits(s, p, m, R),
         NEW k \in (p + 1)..n, s[k].do \in Breaks
  PROVE  Waits(b, p, m, R)
<1>1. n \in Nat /\ l \in Nat
  BY DEF Spliced
<1> SUFFICES ASSUME NEW j \in DOMAIN b, j > p, b[j] \notin Calm(m, R)
             PROVE  \E i \in (p + 1)..j : b[i].do \in Breaks
  BY DEF Waits
<1>2. j \in 1..(n + l - 1)
  BY DEF Spliced
<1>3. CASE j <= n
  <2>1. j \in 1..n
    BY <1>1, <1>2, <1>3
  <2>2. b[j] = s[j] /\ j \in DOMAIN s
    BY <2>1 DEF Spliced
  <2>3. PICK i \in (p + 1)..j : s[i].do \in Breaks
    BY <2>2 DEF Waits
  <2>4. i \in 1..n
    BY <1>1, <2>1
  <2>5. b[i] = s[i]
    BY <2>4 DEF Spliced
  <2> QED BY <2>3, <2>5
<1>4. CASE ~(j <= n)
  <2>1. k \in 1..n /\ k \in (p + 1)..j
    BY <1>1, <1>2, <1>4
  <2>2. b[k] = s[k]
    BY <2>1 DEF Spliced
  <2> QED BY <2>1, <2>2
<1> QED BY <1>3, <1>4

LEMMA WaitsCalm ==
  ASSUME NEW a, NEW b, NEW s, NEW n, NEW l, Spliced(a, b, s, n, l), NEW m, NEW R,
         Waits(a, 0, m, R), a[1].do \notin Breaks, \A i \in 1..n : s[i] \in Calm(m, R)
  PROVE  Waits(b, 0, m, R)
<1>1. n \in Nat /\ l \in Nat /\ l # 0
  BY DEF Spliced
<1> SUFFICES ASSUME NEW j \in DOMAIN b, b[j] \notin Calm(m, R)
             PROVE  \E i \in (0 + 1)..j : b[i].do \in Breaks
  BY DEF Waits
<1>2. j \in 1..(n + l - 1)
  BY DEF Spliced
<1>3. ~(j <= n)
  <2>1. j <= n => j \in 1..n
    BY <1>1, <1>2
  <2> QED BY <2>1 DEF Spliced
<1>4. PICK j0 \in 2..l : j0 = j - n + 1 /\ j = j0 - 1 + n
  BY <1>1, <1>2, <1>3
<1>5. b[j] = a[j0] /\ j0 \in DOMAIN a /\ j0 > 0
  BY <1>1, <1>4 DEF Spliced
<1>6. PICK k \in (0 + 1)..j0 : a[k].do \in Breaks
  BY <1>4, <1>5 DEF Waits
<1>7. k # 1
  BY <1>6
<1>8. k \in 2..l /\ k - 1 + n \in (0 + 1)..j
  BY <1>1, <1>4, <1>7
<1>9. b[k - 1 + n] = a[k]
  BY <1>8 DEF Spliced
<1> QED BY <1>6, <1>8, <1>9

LEMMA WaitsHead ==
  ASSUME NEW a, NEW b, NEW s, NEW n, NEW l, Spliced(a, b, s, n, l), NEW m, NEW R,
         Waits(a, 0, m, R), a[1].do \notin Breaks
  PROVE  a[1] \in Calm(m, R)
<1>1. 1 \in DOMAIN a /\ 1 > 0
  BY DEF Spliced
<1>2. a[1] \notin Calm(m, R) => \E k \in (0 + 1)..1 : a[k].do \in Breaks
  BY <1>1 DEF Waits
<1>3. \A k \in (0 + 1)..1 : k = 1
  OBVIOUS
<1> QED BY <1>2, <1>3

\* The calls of a block are kept apart by rounds and by its last executeCallstack.
LEMMA WaitsBlock ==
  ASSUME IInv, NEW R, R \subseteq Reading, NEW b \in Blocks, Apart(code.insts[b], R),
         NEW i \in DOMAIN BlockItems(b), BlockItems(b)[i].do \in {"call", "called"}
  PROVE  /\ Waits(BlockItems(b), i, BlockItems(b)[i].m, R)
         /\ \E k \in (i + 1)..Len(BlockItems(b)) : BlockItems(b)[k].do \in Breaks
<1>1. PICK is : is = code.insts[b]
  OBVIOUS
<1>2. is \in Seq(Insts) /\ Apart(is, R)
  BY <1>1 DEF IInv, TypeOK, Modules
<1>3. PICK c \in Nat : c = Len(is)
  BY <1>2
<1>4. PICK f, t, g : f = Flush /\ t = Term(b) /\ g = BlockItems(b)
  OBVIOUS
<1>5. g = is \o <<f, t>> /\ f \in Items /\ t \in Items /\ f.do = "flush" /\ t.do = "term"
  BY <1>1, <1>4, ItemsMade DEF BlockItems, Flush, Term
<1>6. Len(<<f, t>>) = 2 /\ <<f, t>>[1] = f /\ <<f, t>>[2] = t
  OBVIOUS
<1>7. /\ Len(g) = c + 2 /\ DOMAIN g = 1..(c + 2)
      /\ \A j \in 1..c : g[j] = is[j]
      /\ g[c + 1] = f /\ g[c + 2] = t
  BY <1>2, <1>3, <1>5
<1>8. \A h \in Insts : h.do \in FromBlock \cup {"round"} /\ h \in Items
  BY ItemsMade DEF Insts, FromBlock
<1>9. \A j \in 1..c : is[j] \in Insts
  BY <1>2, <1>3
<1>10. i \in 1..c /\ g[i].do = "call"
  <2>1. i \in 1..(c + 2) /\ g[i].do \in {"call", "called"}
    BY <1>4, <1>7
  <2>2. i # c + 1 /\ i # c + 2
    BY <1>5, <1>7, <2>1
  <2>3. i \in 1..c
    BY <2>1, <2>2
  <2> QED BY <1>7, <1>8, <1>9, <2>1, <2>3 DEF FromBlock
<1>11. c + 1 \in (i + 1)..(c + 2) /\ g[c + 1].do \in Breaks
  BY <1>5, <1>7, <1>10 DEF Breaks
<1>12. ASSUME NEW j \in 1..(c + 2), j > i, g[j] \notin Calm(g[i].m, R)
       PROVE  \E k \in (i + 1)..j : g[k].do \in Breaks
  <2>1. CASE j \in 1..c
    <3>1. g[j] = is[j] /\ g[i] = is[i] /\ is[j] \in Insts /\ is[j] \in Items
      BY <1>7, <1>8, <1>9, <1>10, <2>1
    <3>2. is[j].do \in R \/ (is[j].do = "call" /\ is[i].m \in {NoGroup, is[j].m})
      BY <1>8, <1>12, <3>1 DEF Calm, Simple, FromBlock
    <3>3. i \in DOMAIN is /\ j \in DOMAIN is /\ i < j /\ is[i].do = "call"
      BY <1>2, <1>3, <1>7, <1>10, <1>12, <2>1
    <3>4. PICK k \in i..j : is[k].do = "round"
      BY <1>2, <3>2, <3>3 DEF Apart
    <3>5. k # i
      BY <1>7, <1>10, <3>4
    <3>6. k \in (i + 1)..j /\ k \in 1..c
      BY <1>10, <2>1, <3>5
    <3>7. g[k].do = "round"
      BY <1>7, <3>4, <3>6
    <3> QED BY <3>6, <3>7 DEF Breaks
  <2>2. CASE j = c + 1
    <3>1. g[j] \in Calm(g[i].m, R)
      BY <1>5, <1>7, <2>2 DEF Calm, Simple, Reading
    <3> QED BY <1>12, <3>1
  <2>3. CASE j = c + 2
    <3>1. c + 1 \in (i + 1)..j
      BY <1>11, <2>3
    <3> QED BY <1>11, <3>1
  <2>4. j \in 1..c \/ j = c + 1 \/ j = c + 2
    BY <1>3
  <2> QED BY <2>1, <2>2, <2>3, <2>4
<1>13. Waits(g, i, g[i].m, R)
  BY <1>7, <1>12 DEF Waits
<1> QED BY <1>4, <1>7, <1>11, <1>13

\* A step that makes no calls: the calls that follow stay apart.
LEMMA ApartRest ==
  ASSUME IInv, NEW R, CallsApart(R), agenda # <<>>, NEW s \in Seq(Items), Do(s),
         \A n, l \in Nat : Spliced(agenda, agenda', s, n, l) =>
           \A i \in 1..n : s[i].do \in {"call", "called"} => Waits(agenda', i, s[i].m, R)
  PROVE  CallsApart(R)'
<1>1. agenda \in Seq(Items)
  BY DEF IInv, TypeOK
<1>2. PICK n, l \in Nat : Spliced(agenda, agenda', s, n, l)
  BY <1>1, SplicedDo
<1>3. ASSUME NEW i \in DOMAIN agenda', agenda'[i].do \in {"call", "called"}
      PROVE  Waits(agenda', i, agenda'[i].m, R)
  <2>1. i \in 1..(n + l - 1)
    BY <1>2 DEF Spliced
  <2>2. CASE i \in 1..n
    <3>1. agenda'[i] = s[i]
      BY <1>2, <2>2 DEF Spliced
    <3> QED BY <1>2, <1>3, <2>2, <3>1
  <2>3. CASE i \notin 1..n
    <3>1. PICK i0 \in 2..l : i = i0 - 1 + n
      <4>1. i - n + 1 \in 2..l /\ i = (i - n + 1) - 1 + n
        BY <1>2, <2>1, <2>3
      <4> QED BY <4>1
    <3>2. agenda'[i] = agenda[i0] /\ i0 \in DOMAIN agenda /\ i0 \in 1..l
      BY <1>2, <3>1 DEF Spliced
    <3>3. Waits(agenda, i0, agenda[i0].m, R)
      BY <1>3, <3>2 DEF CallsApart
    <3>4. Waits(agenda', i0 - 1 + n, agenda[i0].m, R)
      BY <1>2, <3>2, <3>3, WaitsTail
    <3> QED BY <3>1, <3>2, <3>4
  <2> QED BY <2>2, <2>3
<1> QED BY <1>3 DEF CallsApart

\* A call is made: it stands where the call instruction stood, or after a flush.
LEMMA ApartCall ==
  ASSUME IInv, NEW R, CallsApart(R), ParseCall
  PROVE  CallsApart(R)'
<1> DEFINE f == Head(agenda).f
           m == Head(agenda).m
<1>1. agenda \in Seq(Items) /\ agenda # <<>> /\ Head(agenda).do = "call"
  BY DEF IInv, TypeOK, ParseCall, At
<1>2. f \in Funs /\ m \in Groups \cup {NoGroup}
  BY <1>1, HeadItem, ItemFields DEF IInv
<1>3. PICK c : c \in Items /\ c.do = "called" /\ c.m = m /\
               (Do(<<c>>) \/ Do(<<Flush, Function(f, 1), c>>) \/ Do(<<Flush, c>>))
  <2> DEFINE c == Called(f, m, TRUE)
             d == Called(f, m, FALSE)
  <2>1. TRUE \in BOOLEAN /\ FALSE \in BOOLEAN
    OBVIOUS
  <2>2. c \in Items /\ d \in Items
    BY <1>2, <2>1, ItemsMade
  <2>3. c.do = "called" /\ c.m = m /\ d.do = "called" /\ d.m = m
    BY DEF Called
  <2>4. Do(<<c>>) \/ Do(<<Flush, Function(f, 1), d>>) \/ Do(<<Flush, c>>)
    BY DEF ParseCall
  <2> HIDE DEF c, d
  <2> QED BY <2>2, <2>3, <2>4
<1>4. Flush \in Items /\ Function(f, 1) \in Items /\ Flush.do = "flush" /\ Function(f, 1).do = "function"
  BY <1>2, ItemsMade DEF Flush, Function
<1>5. PICK u, w : u = Flush /\ w = Function(f, 1)
  OBVIOUS
\* Right after the call instruction there is nothing to disturb the call.
<1>6. Waits(agenda, 1, m, R)
  <2>1. Head(agenda) = agenda[1] /\ 1 \in DOMAIN agenda
    BY <1>1
  <2> QED BY <1>1, <2>1 DEF CallsApart
\* The call is the last of the entries s that are made.
<1>7. ASSUME NEW s \in Seq(Items), Do(s), s # <<>>, s[Len(s)] = c,
             \A i \in 1..(Len(s) - 1) : s[i].do \notin {"call", "called"}
      PROVE  CallsApart(R)'
  <2>1. ASSUME NEW n \in Nat, NEW l \in Nat, Spliced(agenda, agenda', s, n, l),
               NEW i \in 1..n, s[i].do \in {"call", "called"}
        PROVE  Waits(agenda', i, s[i].m, R)
    <3>1. n = Len(s) /\ l \in Nat \ {0}
      <4>1. DOMAIN s = 1..n /\ DOMAIN s = 1..Len(s) /\ Len(s) \in Nat
        BY <2>1 DEF Spliced
      <4> QED BY <2>1, <4>1 DEF Spliced
    <3>2. i = n
      BY <1>7, <2>1, <3>1
    <3>3. 1 \in 1..l /\ 1 - 1 + n = n
      BY <3>1
    <3>4. Waits(agenda', n, m, R)
      BY <1>6, <2>1, <3>3, WaitsTail
    <3> QED BY <1>3, <1>7, <3>1, <3>2, <3>4
  <2> QED BY <1>1, <1>7, <2>1, ApartRest
<1>8. CASE Do(<<c>>)
  <2>1. PICK s : s = <<c>>
    OBVIOUS
  <2>2. s \in Seq(Items) /\ s # <<>> /\ Len(s) = 1 /\ s[1] = c
    BY <1>3, <2>1
  <2>3. \A i \in 1..(Len(s) - 1) : FALSE
    BY <2>2
  <2> QED BY <1>7, <1>8, <2>1, <2>2, <2>3
<1>9. CASE Do(<<Flush, c>>)
  <2>1. PICK s : s = <<u, c>>
    OBVIOUS
  <2>2. s \in Seq(Items) /\ s # <<>> /\ Len(s) = 2 /\ s[2] = c /\ s[1] = u
    BY <1>3, <1>4, <1>5, <2>1
  <2>3. \A i \in 1..(Len(s) - 1) : i = 1
    BY <2>2
  <2> QED BY <1>4, <1>5, <1>7, <1>9, <2>1, <2>2, <2>3
<1>10. CASE Do(<<Flush, Function(f, 1), c>>)
  <2>1. PICK s : s = <<u, w, c>>
    OBVIOUS
  <2>2. s \in Seq(Items) /\ s # <<>> /\ Len(s) = 3 /\ s[3] = c /\ s[1] = u /\ s[2] = w
    BY <1>3, <1>4, <1>5, <2>1
  <2>3. \A i \in 1..(Len(s) - 1) : i = 1 \/ i = 2
    BY <2>2
  <2> QED BY <1>4, <1>5, <1>7, <1>10, <2>1, <2>2, <2>3
<1> QED BY <1>3, <1>8, <1>9, <1>10

\* The calls in the agenda stay apart.
LEMMA StepApart ==
  ASSUME IInv, NEW R, R \subseteq Reading, \A b \in Blocks : Apart(code.insts[b], R),
         CallsApart(R), Step
  PROVE  CallsApart(R)'
<1>1. agenda # <<>> /\ (Makes \/ agenda' = <<>>) /\ agenda \in Seq(Items)
  BY StepMakes DEF IInv, TypeOK
<1>2. CASE ParseBlock
  <2>1. PICK b : b = Head(agenda).b
    OBVIOUS
  <2>2. b \in Blocks /\ Do(BlockItems(b))
    BY <1>2, <2>1, HeadItem, ItemFields DEF IInv, ParseBlock
  <2>3. BlockItems(b) \in Seq(Items)
    <3>1. code.insts[b] \in Seq(Insts)
      BY <2>2 DEF IInv, TypeOK, Modules
    <3>2. Insts \subseteq Items
      BY ItemsMade
    <3>3. code.insts[b] \in Seq(Items)
      BY <3>1, <3>2
    <3>4. Flush \in Items /\ Term(b) \in Items
      BY <2>2, ItemsMade
    <3>5. <<Flush, Term(b)>> \in Seq(Items)
      BY <3>4
    <3> QED BY <3>3, <3>5, ConcatProperties DEF BlockItems
  <2>4. ASSUME NEW n \in Nat, NEW l \in Nat, Spliced(agenda, agenda', BlockItems(b), n, l),
               NEW i \in 1..n, BlockItems(b)[i].do \in {"call", "called"}
        PROVE  Waits(agenda', i, BlockItems(b)[i].m, R)
    <3>1. i \in DOMAIN BlockItems(b) /\ n = Len(BlockItems(b)) /\ i \in 0..n
      <4>1. DOMAIN BlockItems(b) = 1..n /\ DOMAIN BlockItems(b) = 1..Len(BlockItems(b))
            /\ Len(BlockItems(b)) \in Nat
        BY <2>3, <2>4 DEF Spliced
      <4> QED BY <4>1
    <3>2. /\ Waits(BlockItems(b), i, BlockItems(b)[i].m, R)
          /\ \E k \in (i + 1)..n : BlockItems(b)[k].do \in Breaks
      BY <2>2, <2>4, <3>1, WaitsBlock
    <3> QED BY <2>4, <3>1, <3>2, WaitsFront
  <2> QED BY <1>1, <2>2, <2>3, <2>4, ApartRest
<1>3. CASE ParseCall
  BY <1>3, ApartCall
<1>4. CASE agenda' = <<>>
  BY <1>4 DEF CallsApart
<1>5. CASE Makes /\ ~ParseBlock /\ ~ParseCall
  <2>1. PICK s \in Seq(Made) : Do(s)
    BY <1>5 DEF Makes
  <2>2. s \in Seq(Items)
    BY <2>1 DEF Made
  <2>3. Head(agenda).do # "block" /\ Head(agenda).do # "call"
    BY <1>1, <1>5 DEF Step, ParseFunction, ParseBlock, ParseTerm, ParseElse, EndFalse, CapConditional,
       StoreConst, StoreInfix, StoreCopy, ParseCmp, ParseBuiltIn, ConstantRule, StoreRound,
       ParseCall, EndParseCall, ExecuteCallstack, RunOption, RunCall, EndRunCall,
       EndRunOption, CapRunParallel, At
  <2>4. \A h \in Made : h.do \notin {"call", "called"}
    BY <2>3 DEF Made, Origin, FromBlock
  <2>5. ASSUME NEW n \in Nat, NEW l \in Nat, Spliced(agenda, agenda', s, n, l), NEW i \in 1..n
        PROVE  s[i].do \notin {"call", "called"}
    <3>1. i \in DOMAIN s
      BY <2>5 DEF Spliced
    <3> QED BY <2>1, <2>4, <3>1
  <2> QED BY <1>1, <2>1, <2>2, <2>5, ApartRest
<1> QED BY <1>1, <1>2, <1>3, <1>4, <1>5

\* Entries that begin with a break.
LEMMA WaitsBreak ==
  ASSUME NEW a, NEW b, NEW s, NEW n, NEW l, Spliced(a, b, s, n, l), n # 0,
         s[1].do \in Breaks, NEW m, NEW R
  PROVE  Waits(b, 0, m, R)
<1>1. n \in Nat /\ 1 \in 1..n
  BY DEF Spliced
<1>2. b[1].do \in Breaks
  BY <1>1 DEF Spliced
<1>3. \A j \in DOMAIN b : 1 \in (0 + 1)..j
  BY DEF Spliced
<1> QED BY <1>2, <1>3 DEF Waits

\* A pending call is alone on the callstack, and what follows waits for it.
LEMMA StepAlone ==
  ASSUME IInv, NEW R, R \subseteq Reading, QInv(R), Step
  PROVE  OneCall' /\ Alone(R)'
<1>1. agenda # <<>> /\ (Makes \/ agenda' = <<>>) /\ agenda \in Seq(Items) /\ callstack \in Seq(Funs)
  BY StepMakes DEF IInv, TypeOK
<1>2. Head(agenda) = agenda[1] /\ 1 \in DOMAIN agenda /\ Head(agenda) \in Items
  BY <1>1, HeadItem
<1>3. callstack # <<>> /\ Head(agenda).do \notin Breaks => Head(agenda) \in Calm(grouping, R)
  <2>1. \A k \in (0 + 1)..1 : k = 1
    OBVIOUS
  <2> QED BY <1>2, <2>1 DEF QInv, Alone, Waits
<1>4. CASE EndParseCall
  <2>1. Head(agenda).do = "called" /\ Do(<<>>)
    BY <1>4 DEF EndParseCall, At
  <2>2. callstack = <<>>
    BY <1>3, <2>1 DEF Calm, Simple, Breaks
  <2>3. CASE ~Head(agenda).push
    <3>1. callstack' = <<>>
      BY <1>4, <2>2, <2>3 DEF EndParseCall
    <3> QED BY <3>1 DEF OneCall, Alone
  <2>4. CASE Head(agenda).push
    <3>1. callstack' = Append(callstack, Head(agenda).f)
      BY <1>4, <2>4 DEF EndParseCall
    <3>2. Len(callstack') = 1
      BY <2>2, <3>1
    <3>3. <<>> \in Seq(Items)
      OBVIOUS
    <3>4. PICK n, l \in Nat : Spliced(agenda, agenda', <<>>, n, l)
      BY <1>1, <2>1, <3>3, SplicedDo
    <3>5. n = 0 /\ l \in Nat \ {0}
      <4>1. DOMAIN <<>> = 1..n /\ DOMAIN <<>> = {}
        BY <3>4 DEF Spliced
      <4>2. n # 0 => 1 \in 1..n
        BY <3>4
      <4> QED BY <3>4, <4>1, <4>2 DEF Spliced
    <3>6. Waits(agenda, 1, Head(agenda).m, R)
      BY <1>2, <2>1 DEF QInv, CallsApart
    <3>7. 1 \in 1..l /\ 1 - 1 + n = 0
      BY <3>5
    <3>8. Waits(agenda', 0, Head(agenda).m, R)
      BY <3>4, <3>6, <3>7, WaitsTail
    <3>9. Calm(Head(agenda).m, R) \subseteq Calm(grouping', R)
      BY <1>4 DEF EndParseCall, UpdateParallelGroup, Calm
    <3>10. Waits(agenda', 0, grouping', R)
      BY <3>8, <3>9 DEF Waits
    <3> QED BY <3>2, <3>10 DEF OneCall, Alone
  <2> QED BY <2>3, <2>4
<1>5. CASE ~EndParseCall
  <2>1. /\ callstack' = callstack \/ callstack' = <<>>
        /\ callstack' # <<>> => grouping' = grouping
        /\ Head(agenda).do \in {"flush", "endElse"} => callstack' = <<>>
    BY <1>5 DEF Step, ParseFunction, ParseBlock, ParseTerm, ParseElse, EndFalse, CapConditional,
       StoreConst, StoreInfix, StoreCopy, ParseCmp, ParseBuiltIn, ConstantRule, StoreRound,
       ParseCall, EndParseCall, ExecuteCallstack, RunOption, RunCall, EndRunCall,
       EndRunOption, CapRunParallel, At, ctlVars
  <2>2. OneCall'
    BY <2>1 DEF QInv, OneCall
  <2>3. ASSUME callstack' # <<>> PROVE Waits(agenda', 0, grouping', R)
    <3>1. callstack' = callstack /\ callstack # <<>> /\ grouping' = grouping
          /\ Head(agenda).do # "flush" /\ Waits(agenda, 0, grouping, R)
      BY <2>1, <2>3 DEF QInv, Alone
    <3>2. CASE Head(agenda).do = "round"
      <4>1. StoreRound
        BY <1>1, <3>2, HeadActs
      <4>2. PICK s : s = <<Flush, [do |-> "round"]>>
        OBVIOUS
      <4>3. Do(s)
        BY <3>1, <4>1, <4>2 DEF StoreRound
      <4>4. Flush \in Items /\ [do |-> "round"] \in Items /\ Flush.do = "flush"
        BY ItemsMade DEF Flush
      <4>5. s \in Seq(Items) /\ s[1].do \in Breaks /\ 1 \in DOMAIN s
        BY <4>2, <4>4 DEF Breaks
      <4>6. PICK n, l \in Nat : Spliced(agenda, agenda', s, n, l)
        BY <1>1, <4>3, <4>5, SplicedDo
      <4>7. n # 0
        BY <4>5, <4>6 DEF Spliced
      <4> QED BY <3>1, <4>5, <4>6, <4>7, WaitsBreak
    <3>3. CASE Head(agenda).do = "call"
      <4>1. ParseCall
        BY <3>3 DEF Step, ParseFunction, ParseBlock, ParseTerm, ParseElse, EndFalse, CapConditional,
           StoreConst, StoreInfix, StoreCopy, ParseCmp, ParseBuiltIn, ConstantRule, StoreRound,
           ParseCall, EndParseCall, ExecuteCallstack, RunOption, RunCall, EndRunCall,
           EndRunOption, CapRunParallel, At
      <4>2. grouping \notin {NoGroup, Head(agenda).m}
        BY <1>3, <3>1, <3>3 DEF Breaks, Calm, Simple
      <4>3. ~IsSameParallelGroup(Head(agenda).m)
        BY <4>2 DEF IsSameParallelGroup
      <4>4. \E c, d \in Items : Do(<<Flush, c>>) \/ Do(<<Flush, c, d>>)
        <5>1. Head(agenda).f \in Funs /\ Head(agenda).m \in Groups \cup {NoGroup}
          BY <1>2, <3>3, ItemFields
        <5>2. TRUE \in BOOLEAN /\ FALSE \in BOOLEAN
          OBVIOUS
        <5>3. /\ Called(Head(agenda).f, Head(agenda).m, TRUE) \in Items
              /\ Called(Head(agenda).f, Head(agenda).m, FALSE) \in Items
          BY <5>1, <5>2, ItemsMade
        <5>4. Function(Head(agenda).f, 1) \in Items
          BY <5>1, ItemsMade
        <5> QED BY <4>1, <4>3, <5>3, <5>4 DEF ParseCall
      <4>5. PICK c, d \in Items : Do(<<Flush, c>>) \/ Do(<<Flush, c, d>>)
        BY <4>4
      <4>6. PICK u \in Items : u = Flush /\ u.do \in Breaks
        BY ItemsMade DEF Flush, Breaks
      <4>7. PICK s \in Seq(Items) : Do(s) /\ s[1] = u /\ 1 \in DOMAIN s
        <5>1. <<u, c>> \in Seq(Items) /\ <<u, c, d>> \in Seq(Items)
          OBVIOUS
        <5>2. <<u, c>>[1] = u /\ <<u, c, d>>[1] = u /\ 1 \in DOMAIN <<u, c>> /\ 1 \in DOMAIN <<u, c, d>>
          OBVIOUS
        <5> QED BY <4>5, <4>6, <5>1, <5>2
      <4>8. PICK n, l \in Nat : Spliced(agenda, agenda', s, n, l)
        BY <1>1, <4>7, SplicedDo
      <4>9. n # 0
        BY <4>7, <4>8 DEF Spliced
      <4> QED BY <3>1, <4>6, <4>7, <4>8, <4>9, WaitsBreak
    <3>4. CASE Head(agenda).do \notin {"round", "call"}
      <4>1. Head(agenda).do \in Simple /\ Head(agenda).do \notin Breaks
        BY <1>3, <3>1, <3>4 DEF Breaks, Calm
      <4>2. Makes
        <5>1. ~CapConditional
          BY <4>1 DEF CapConditional, At, Simple
        <5> QED BY <5>1, FunctionMakes, BlockMakes, TermMakes, ElseMakes, CallMakes, FlushMakes,
              OptionMakes, RunCallMakes, EndOptionMakes, InstMakes DEF Step
      <4>3. PICK s \in Seq(Made) : Do(s)
        BY <4>2 DEF Makes
      <4>4. s \in Seq(Items)
        BY <4>3 DEF Made
      <4>5. PICK n, l \in Nat : Spliced(agenda, agenda', s, n, l)
        BY <1>1, <4>3, <4>4, SplicedDo
      <4>6. CASE Head(agenda).do = "advance"
        <5>1. PICK t, w : t = State(Head(agenda).to) /\ w = State(Head(agenda).from)
          OBVIOUS
        <5>2. Do(<<t, w>>)
          BY <4>6, <5>1 DEF Step, ParseFunction, ParseBlock, ParseTerm, ParseElse, EndFalse,
           CapConditional, StoreConst, StoreInfix, StoreCopy, ParseCmp, ParseBuiltIn, ConstantRule,
           StoreRound, ParseCall, EndParseCall, ExecuteCallstack, RunOption, RunCall, EndRunCall,
           EndRunOption, CapRunParallel, At
        <5>3. Head(agenda).to \in Vars /\ Head(agenda).from \in Vars
          BY <1>2, <4>6, ItemFields
        <5>4. t \in Items /\ w \in Items /\ t.do = "state" /\ w.do = "state"
          BY <5>1, <5>3, ItemsMade DEF State
        <5>5. t \in Calm(grouping, R) /\ w \in Calm(grouping, R)
          BY <5>4 DEF Calm, Simple, Reading
        <5>6. PICK z : z = <<t, w>>
          OBVIOUS
        <5>7. z \in Seq(Items) /\ DOMAIN z = 1..2 /\ z[1] = t /\ z[2] = w
          BY <5>4, <5>6
        <5>8. PICK p, q \in Nat : Spliced(agenda, agenda', z, p, q)
          BY <1>1, <5>2, <5>6, <5>7, SplicedDo
        <5>9. \A i \in 1..p : i = 1 \/ i = 2
          BY <5>7, <5>8 DEF Spliced
        <5>10. \A i \in 1..p : z[i] \in Calm(grouping, R)
          BY <5>5, <5>7, <5>9
        <5> QED BY <1>2, <3>1, <4>1, <5>8, <5>10, WaitsCalm
      <4>7. CASE Head(agenda).do # "advance"
        <5>1. Do(<<>>)
          BY <3>4, <4>1, <4>7 DEF Step, ParseFunction, ParseBlock, ParseTerm, ParseElse, EndFalse,
           CapConditional, StoreConst, StoreInfix, StoreCopy, ParseCmp, ParseBuiltIn, ConstantRule,
           StoreRound, ParseCall, EndParseCall, ExecuteCallstack, RunOption, RunCall, EndRunCall,
           EndRunOption, CapRunParallel, At, Simple, Breaks
        <5>2. PICK z : z = <<>>
          OBVIOUS
        <5>3. z \in Seq(Items) /\ DOMAIN z = {}
          BY <5>2
        <5>4. PICK p, q \in Nat : Spliced(agenda, agenda', z, p, q)
          BY <1>1, <5>1, <5>2, <5>3, SplicedDo
        <5>5. \A i \in 1..p : z[i] \in Calm(grouping, R)
          BY <5>3, <5>4 DEF Spliced
        <5> QED BY <1>2, <3>1, <4>1, <5>4, <5>5, WaitsCalm
      <4> QED BY <4>6, <4>7
    <3> QED BY <3>2, <3>3, <3>4
  <2> QED BY <2>2, <2>3 DEF Alone
<1> QED BY <1>4, <1>5

\* No parallel run is ever opened.
LEMMA StepQuiet ==
  ASSUME IInv, NEW R, R \subseteq Reading, \A b \in Blocks : Apart(code.insts[b], R), QInv(R), Step
  PROVE  QInv(R)'
<1>1. agenda # <<>> /\ agenda \in Seq(Items) /\ Head(agenda) = agenda[1] /\ 1 \in DOMAIN agenda
  BY StepMakes DEF IInv, TypeOK
<1>2. Head(agenda).do \notin FromRun \cup {"options"}
  BY <1>1 DEF QInv, NoRuns
<1>3. NoRuns'
  <2> DEFINE S == {h \in Items : h.do \notin FromRun \cup {"options"}}
  <2>1. Made \subseteq S
    <3>0. Len(<<>>) = 0 /\ ~(0 > 1) /\ ~(1 > 1)
      OBVIOUS
    <3>1. ~(Len(callstack) > 1)
      BY <3>0 DEF QInv, OneCall
    <3> QED BY <1>2, <3>1 DEF Made, Origin, FromRun, Runs
  <2>2. \A i \in DOMAIN agenda : i # 1 => agenda[i] \in S
    BY <1>1 DEF QInv, NoRuns
  <2> HIDE DEF S
  <2>3. \A i \in DOMAIN agenda' : agenda'[i] \in S
    BY <2>1, <2>2, AgendaNext
  <2> QED BY <2>3 DEF S, NoRuns
<1>4. runStart' = FALSE
  BY <1>2 DEF QInv, Step, ParseFunction, ParseBlock, ParseTerm, ParseElse, EndFalse, CapConditional,
       StoreConst, StoreInfix, StoreCopy, ParseCmp, ParseBuiltIn, ConstantRule, StoreRound,
       ParseCall, EndParseCall, ExecuteCallstack, RunOption, RunCall, EndRunCall,
       EndRunOption, CapRunParallel, At, FromRun, ctlVars
<1>5. CallsApart(R)'
  BY StepApart DEF QInv
<1> QED BY <1>3, <1>4, <1>5, StepAlone DEF QInv

-----------------------------------------------------------------------------
(***************************************************************************)
(* Which variables occur in the rules written since a branch began.        *)
(***************************************************************************)
Said(ts, v) == ts[v].vals # {}

\* Entry h keeps rules with v for the end of a conditional.
Frames == {"else", "capCond"}
Holds(h, v) ==
  h.do \in Frames /\ (Said(h.outer, v) \/ (h.do = "capCond" /\ Said(h.true, v)))

\* v occurs in the list of rules ts, or in one kept by an entry before i.
Later(ts, a, i, v) == Said(ts, v) \/ \E j \in 1..(i - 1) : Holds(a[j], v)

\* The last version of v in the rules ts is the last one handed out.
Latest(ns, ts, v) == Said(ts, v) => ts[v].end = GetSSA(ns[v])

LEMMA SaidMention ==
  ASSUME NEW ts \in Trails, NEW v \in Operands, NEW n \in Nat
  PROVE  /\ \A w \in Vars : Said(ts, w) => Said(Mention(ts, v, n), w)
         /\ v # Lit => Said(Mention(ts, v, n), v)
<1>1. CASE v = Lit
  BY <1>1 DEF Mention
<1>2. CASE v # Lit
  <2>1. v \in Vars
    BY <1>2 DEF Operands
  <2>2. Mention(ts, v, n) = [ts EXCEPT ![v] = AddChoiceValue(ts[v], n)]
    BY <1>2 DEF Mention
  <2>3. Mention(ts, v, n)[v].vals = ts[v].vals \cup {n}
    BY <2>1, <2>2 DEF Trails, AddChoiceValue
  <2>4. \A w \in Vars : w # v => Mention(ts, v, n)[w] = ts[w]
    BY <2>2 DEF Trails
  <2>5. Said(Mention(ts, v, n), v)
    BY <2>3 DEF Said
  <2> QED BY <2>4, <2>5 DEF Said
<1> QED BY <1>1, <1>2

LEMMA LatestMention ==
  ASSUME NEW ns \in [Vars -> Nat \cup {Absent}], NEW ts \in Trails, Reached(ns, ts),
         NEW v \in Operands, NEW n \in Nat, v # Lit => n = GetSSA(ns[v])
  PROVE  /\ Reached(ns, Mention(ts, v, n))
         /\ \A w \in Vars : Latest(ns, ts, w) => Latest(ns, Mention(ts, v, n), w)
<1>1. CASE v = Lit
  BY <1>1 DEF Mention
<1>2. CASE v # Lit
  <2>1. v \in Vars /\ n = GetSSA(ns[v]) /\ ts[v].end \in Nat /\ ts[v].end <= n
    BY <1>2 DEF Operands, Trails, Reached
  <2>2. Mention(ts, v, n) = [ts EXCEPT ![v] = AddChoiceValue(ts[v], n)]
    BY <1>2 DEF Mention
  <2>3. Mention(ts, v, n)[v].end = n
    <3>1. Larger(ts[v].end, n) = n
      BY <2>1 DEF Larger
    <3> QED BY <2>1, <2>2, <3>1 DEF Trails, AddChoiceValue
  <2>4. \A w \in Vars : w # v => Mention(ts, v, n)[w] = ts[w]
    BY <2>2 DEF Trails
  <2>5. Reached(ns, Mention(ts, v, n))
    BY <2>1, <2>3, <2>4 DEF Reached
  <2>6. \A w \in Vars : Latest(ns, ts, w) => Latest(ns, Mention(ts, v, n), w)
    BY <2>1, <2>3, <2>4 DEF Latest, Said
  <2> QED BY <2>5, <2>6
<1> QED BY <1>1, <1>2

\* A store: its variable gets a number and occurs in its rule.
LEMMA Stored ==
  ASSUME NEW v \in Vars, NEW base \in [Vars -> Nat \cup {Absent}], NEW num, NEW ts \in Trails,
         Assign(v, base, num, ts), cur \in Versions
  PROVE  /\ \A w \in Vars : Said(ts, w) => Said(trail', w)
         /\ Said(trail', v)
         /\ ssa'[v] = AdvanceSSA(base[v]) /\ cur'[v] = ssa'[v] /\ GetSSA(ssa'[v]) = ssa'[v]
         /\ \A w \in Vars : w # v => ssa'[w] = base[w] /\ cur'[w] = cur[w]
<1> DEFINE id == AdvanceSSA(base[v])
<1>1. id \in Nat /\ GetSSA(id) = id
  BY Numbers
<1>2. ssa' = [base EXCEPT ![v] = id] /\ trail' = Mention(ts, v, id) /\ cur' = [cur EXCEPT ![v] = id]
  BY DEF Assign
<1>3. v \in Operands /\ v # Lit
  BY ConstantsAssumption DEF Operands
<1> HIDE DEF id
<1>4. (\A w \in Vars : Said(ts, w) => Said(trail', w)) /\ Said(trail', v)
  BY <1>1, <1>2, <1>3, SaidMention
<1>5. ssa'[v] = id /\ cur'[v] = id
  BY <1>2 DEF Versions
<1>6. \A w \in Vars : w # v => ssa'[w] = base[w] /\ cur'[w] = cur[w]
  BY <1>2 DEF Versions
<1> QED BY <1>1, <1>4, <1>5, <1>6 DEF id

\* The operands of an instruction, read outside of parallel runs.
LEMMA Operand ==
  ASSUME IInv, NEW v \in Operands, NEW start \in BOOLEAN, ~start, NEW n,
         n = IF v = Lit THEN 0 ELSE ReadNum(v, start)
  PROVE  n \in Nat /\ (v # Lit => v \in Vars /\ n = GetSSA(ssa[v]))
<1>1. CASE v = Lit
  BY <1>1
<1>2. CASE v # Lit
  <2>1. v \in Vars
    BY <1>2 DEF Operands
  <2>2. n = GetSSA(ssa[v])
    BY <1>2 DEF ReadNum
  <2>3. ssa[v] \in Nat \cup {Absent}
    BY <2>1 DEF IInv, TypeOK
  <2> QED BY <2>1, <2>2, <2>3, Numbers
<1> QED BY <1>1, <1>2

\* A variable that is met for the first time has number 0 before and after.
LEMMA Met ==
  ASSUME IInv, NEW S
  PROVE  /\ Registered(S) \in [Vars -> Nat \cup {Absent}]
         /\ \A v \in Vars : /\ GetSSA(Registered(S)[v]) = GetSSA(ssa[v])
                            /\ ssa[v] # Absent => Registered(S)[v] = ssa[v]
<1>1. \A v \in Vars : ssa[v] \in Nat \cup {Absent}
  BY DEF IInv, TypeOK
<1>2. \A n \in Nat \cup {Absent} : GetSSA(n) \in Nat /\ GetSSA(GetSSA(n)) = GetSSA(n)
  BY DEF GetSSA, Absent
<1>3. \A n \in Nat \cup {Absent} : n # Absent => GetSSA(n) = n
  BY DEF GetSSA
<1> QED BY <1>1, <1>2, <1>3 DEF Registered

\* v is assigned; of the rules written before, none is lost.
Assigned(v, base, ts) ==
  /\ \E num : Assign(v, base, num, ts)
  /\ \A w \in Vars : GetSSA(base[w]) = GetSSA(ssa[w]) /\ (ssa[w] # Absent => base[w] = ssa[w])
  /\ \A w \in Vars : Said(trail, w) => Said(ts, w)
  /\ Reached(ssa, trail) => /\ Reached(ssa, ts)
                            /\ \A w \in Vars : Latest(ssa, trail, w) => Latest(ssa, ts, w)

\* What an arithmetic instruction does outside of parallel runs.
LEMMA InfixStores ==
  ASSUME IInv, runStart = FALSE, StoreInfix
  PROVE  \E v \in Vars, base \in [Vars -> Nat \cup {Absent}], ts \in Trails : Assigned(v, base, ts)
<1> DEFINE i == Head(agenda)
           yStart == runStart /\ i.x = Lit
           xn == IF i.x = Lit THEN 0 ELSE ReadNum(i.x, runStart)
           yn == IF i.y = Lit THEN 0 ELSE ReadNum(i.y, yStart)
           met == (IF runStart THEN {} ELSE {i.x}) \cup (IF yStart THEN {} ELSE {i.y})
           base == Registered(met)
           ts == Mention(Mention(trail, i.x, xn), i.y, yn)
<1>1. i.dst \in Vars /\ i.x \in Operands /\ i.y \in Operands
  BY HeadItem, ItemFields DEF IInv, StoreInfix
<1>2. Assign(i.dst, base, GetSSA(base[i.dst]) + 1, ts)
  BY DEF StoreInfix
<1>3. trail \in Trails /\ runStart \in BOOLEAN /\ yStart \in BOOLEAN /\ ~runStart /\ ~yStart
  BY DEF IInv, TypeOK
<1>4. xn \in Nat /\ (i.x # Lit => xn = GetSSA(ssa[i.x]))
  BY <1>1, <1>3, Operand
<1>5. yn \in Nat /\ (i.y # Lit => yn = GetSSA(ssa[i.y]))
  <2> HIDE DEF yStart
  <2> QED BY <1>1, <1>3, Operand
<1> HIDE DEF xn, yn, met
<1>6. Mention(trail, i.x, xn) \in Trails
  BY <1>1, <1>3, <1>4, Mentions
<1>7. ts \in Trails
  BY <1>1, <1>5, <1>6, Mentions
<1>8. \A w \in Vars : Said(trail, w) => Said(ts, w)
  BY <1>1, <1>3, <1>4, <1>5, <1>6, SaidMention
<1>9. /\ base \in [Vars -> Nat \cup {Absent}]
      /\ \A w \in Vars : GetSSA(base[w]) = GetSSA(ssa[w]) /\ (ssa[w] # Absent => base[w] = ssa[w])
  BY Met
<1>11. ASSUME Reached(ssa, trail)
       PROVE  Reached(ssa, ts) /\ \A w \in Vars : Latest(ssa, trail, w) => Latest(ssa, ts, w)
  <2>1. ssa \in [Vars -> Nat \cup {Absent}]
    BY DEF IInv, TypeOK
  <2>2. /\ Reached(ssa, Mention(trail, i.x, xn))
        /\ \A w \in Vars : Latest(ssa, trail, w) => Latest(ssa, Mention(trail, i.x, xn), w)
    BY <1>1, <1>3, <1>4, <1>11, <2>1, LatestMention
  <2>3. /\ Reached(ssa, ts)
        /\ \A w \in Vars : Latest(ssa, Mention(trail, i.x, xn), w) => Latest(ssa, ts, w)
    BY <1>1, <1>5, <1>6, <2>1, <2>2, LatestMention
  <2> QED BY <2>2, <2>3
<1>10. Assigned(i.dst, base, ts)
  BY <1>2, <1>8, <1>9, <1>11 DEF Assigned
<1> HIDE DEF base, ts
<1> QED BY <1>1, <1>7, <1>9, <1>10

\* Every store of a model without parallel steps and copies.
Stores == \/ StoreConst \/ StoreInfix \/ (ParseBuiltIn /\ At("state"))
LEMMA StoresAssign ==
  ASSUME IInv, runStart = FALSE, Stores
  PROVE  \E v \in Vars, base \in [Vars -> Nat \cup {Absent}], ts \in Trails : Assigned(v, base, ts)
<1>1. trail \in Trails /\ ssa \in [Vars -> Nat \cup {Absent}]
  BY DEF IInv, TypeOK
<1>2. CASE StoreConst
  <2>1. Head(agenda).dst \in Vars
    BY <1>2, HeadItem, ItemFields DEF IInv, StoreConst
  <2>2. Assign(Head(agenda).dst, ssa, AdvanceSSA(ssa[Head(agenda).dst]), trail)
    BY <1>2 DEF StoreConst
  <2>3. Assigned(Head(agenda).dst, ssa, trail)
    BY <2>2 DEF Assigned
  <2> QED BY <1>1, <2>1, <2>3
<1>3. CASE StoreInfix
  BY <1>3, InfixStores
<1>4. CASE ParseBuiltIn /\ At("state")
  <2>1. Head(agenda).dst \in Vars
    BY <1>4, HeadItem, ItemFields DEF IInv
  <2>2. Assign(Head(agenda).dst, ssa, GetSSA(ssa[Head(agenda).dst]) + 1, trail)
    BY <1>4 DEF ParseBuiltIn, At
  <2>3. Assigned(Head(agenda).dst, ssa, trail)
    BY <2>2 DEF Assigned
  <2> QED BY <1>1, <2>1, <2>3
<1> QED BY <1>2, <1>3, <1>4 DEF Stores

\* The steps that neither store nor begin or end a branch.
Idles ==
  \/ ParseFunction \/ ParseBlock \/ EndFalse \/ (ParseBuiltIn /\ At("advance")) \/ ParseCmp
  \/ ConstantRule \/ StoreRound \/ ParseCall \/ EndParseCall \/ ExecuteCallstack
  \/ (ParseTerm /\ code.term[Head(agenda).b].do # "cond")

\* What a step can be in a model without parallel steps and copies.
LEMMA QuietSteps ==
  ASSUME Step, NoRuns, agenda # <<>>, agenda \in Seq(Items), Head(agenda).do # "copy"
  PROVE  Stores \/ Idles \/ (ParseTerm /\ code.term[Head(agenda).b].do = "cond")
         \/ ParseElse \/ CapConditional
<1>1. Head(agenda) = agenda[1] /\ 1 \in DOMAIN agenda
  OBVIOUS
<1>2. Head(agenda).do \notin FromRun \cup {"options"}
  BY <1>1 DEF NoRuns
<1>3. ~StoreCopy /\ ~RunOption /\ ~RunCall /\ ~EndRunCall /\ ~EndRunOption /\ ~CapRunParallel
  BY <1>2 DEF StoreCopy, RunOption, RunCall, EndRunCall, EndRunOption, CapRunParallel, At, FromRun
<1>4. ParseBuiltIn => At("advance") \/ At("state")
  BY DEF ParseBuiltIn
<1> QED BY <1>3, <1>4 DEF Step, Stores, Idles

\* An idle step writes no rule and hands out no number but 0.
LEMMA IdleSteps ==
  ASSUME IInv, GlobalsFirst, runStart = FALSE, Idles
  PROVE  /\ trail' = trail /\ Head(agenda).do \notin Frames
         /\ \A v \in Vars : /\ GetSSA(ssa'[v]) = GetSSA(ssa[v])
                            /\ cur[v] = GetSSA(ssa[v]) => cur'[v] = GetSSA(ssa'[v])
<1>1. CASE ConstantRule
  <2>1. agenda \in Seq(Items) /\ agenda # <<>> /\ Head(agenda) = agenda[1] /\ 1 \in DOMAIN agenda
        /\ Head(agenda).do = "global"
    BY <1>1 DEF IInv, TypeOK, ConstantRule, At
  <2>2. PICK g : g = Head(agenda).v
    OBVIOUS
  <2>3. g \in Vars /\ ssa[g] = Absent
    BY <2>1, <2>2, HeadItem, ItemFields DEF GlobalsFirst
  <2>4. ssa' = [ssa EXCEPT ![g] = AdvanceSSA(ssa[g])] /\ cur' = [cur EXCEPT ![g] = AdvanceSSA(ssa[g])]
        /\ trail' = trail
    BY <1>1, <2>2 DEF ConstantRule, ruleVars
  <2>5. AdvanceSSA(Absent) = 0 /\ GetSSA(Absent) = 0 /\ GetSSA(0) = 0
    BY DEF AdvanceSSA, GetSSA, Absent
  <2>6. ssa \in [Vars -> Nat \cup {Absent}] /\ cur \in [Vars -> Nat]
    BY DEF IInv, TypeOK, Versions
  <2>7. ssa'[g] = 0 /\ cur'[g] = 0 /\ \A v \in Vars : v # g => ssa'[v] = ssa[v] /\ cur'[v] = cur[v]
    BY <2>3, <2>4, <2>5, <2>6
  <2> QED BY <2>1, <2>3, <2>4, <2>5, <2>7 DEF Frames
<1>2. CASE ParseCmp
  <2>1. PICK S : ssa' = Registered(S)
    BY <1>2 DEF ParseCmp
  <2>2. \A v \in Vars : GetSSA(ssa'[v]) = GetSSA(ssa[v])
    BY <2>1, Met
  <2>3. trail' = trail /\ cur' = cur /\ Head(agenda).do = "cmp"
    BY <1>2 DEF ParseCmp, At, ruleVars, histVars
  <2> QED BY <2>2, <2>3 DEF Frames
<1>3. CASE ~ConstantRule /\ ~ParseCmp
  <2>1. ssa' = ssa /\ trail' = trail /\ cur' = cur
    BY <1>3 DEF Idles, ParseFunction, ParseBlock, EndFalse, ParseBuiltIn, At, StoreRound, ParseCall,
           EndParseCall, ExecuteCallstack, ParseTerm, genVars, ruleVars, histVars
  <2>2. Head(agenda).do \notin Frames
    BY <1>3 DEF Idles, ParseFunction, ParseBlock, EndFalse, ParseBuiltIn, At, StoreRound, ParseCall,
           EndParseCall, ExecuteCallstack, ParseTerm, Frames
  <2> QED BY <2>1, <2>2
<1> QED BY <1>1, <1>2, <1>3

\* The end of a conditional: what occurs in a branch gets a phi.
Used(v) == Said(Head(agenda).true, v) \/ Said(trail, v)
LEMMA CapActs ==
  ASSUME IInv, CapConditional, NEW v \in Vars
  PROVE  /\ Used(v) => /\ ssa'[v] = AdvanceSSA(ssa[v]) /\ cur'[v] = ssa'[v]
                       /\ Said(trail', v)
         /\ ~Used(v) => /\ ssa'[v] = ssa[v] /\ cur'[v] = cur[v]
                        /\ trail'[v] = Head(agenda).outer[v]
<1> DEFINE c     == Head(agenda)
           fork  == CondFork(c.true)
           used  == ForkVars(fork)
           phi   == [w \in Vars |-> AdvanceSSA(ssa[w])]
           start == [w \in Vars |-> GetStartState(phis[w])]
<1>1. v \in used <=> Used(v)
  <2>1. fork[v] = Choice(c.true[v], "true") \o Choice(trail[v], "false")
    BY DEF CondFork
  <2>2. \A t, b : Choice(t, b) = <<>> \/ \E x : Choice(t, b) = <<x>>
    BY DEF Choice
  <2>3. \A t, b : Choice(t, b) = <<>> <=> t.vals = {}
    BY DEF Choice
  <2>4. \A x, y : <<x>> \o <<>> # <<>> /\ <<>> \o <<x>> # <<>> /\ <<x>> \o <<y>> # <<>>
    OBVIOUS
  <2>5. <<>> \o <<>> = <<>>
    OBVIOUS
  <2>6. fork[v] = <<>> <=> c.true[v].vals = {} /\ trail[v].vals = {}
    BY <2>1, <2>2, <2>3, <2>4, <2>5
  <2> HIDE DEF fork
  <2> QED BY <2>6 DEF ForkVars, Used, Said
<1>2. /\ ssa' = [w \in Vars |-> IF w \in used THEN phi[w] ELSE ssa[w]]
      /\ cur' = [w \in Vars |-> IF w \in used THEN phi[w] ELSE cur[w]]
      /\ trail' = [w \in Vars |-> IF w \in used
            THEN AddChoiceValue(
                   AddChoiceValue(JoinTrails(c.outer[w], JoinTrails(c.true[w], trail[w])),
                                  phi[w]),
                   IF Len(fork[w]) = 1 THEN start[w] ELSE phi[w])
            ELSE c.outer[w]]
  BY DEF CapConditional
<1> HIDE DEF used, fork, start
<1>3. ASSUME v \in used PROVE ssa'[v] = phi[v] /\ cur'[v] = phi[v] /\ Said(trail', v)
  <2>1. PICK t, n : trail'[v] = AddChoiceValue(t, n)
    BY <1>2, <1>3
  <2>2. trail'[v].vals = t.vals \cup {n}
    BY <2>1 DEF AddChoiceValue
  <2>3. ssa'[v] = phi[v] /\ cur'[v] = phi[v]
    BY <1>2, <1>3
  <2> QED BY <2>2, <2>3 DEF Said
<1>4. ASSUME v \notin used PROVE ssa'[v] = ssa[v] /\ cur'[v] = cur[v] /\ trail'[v] = c.outer[v]
  BY <1>2, <1>4
<1> QED BY <1>1, <1>3, <1>4

\* A number is handed out only to what then occurs in the rules.
LEMMA NumberSaid ==
  ASSUME IInv, GlobalsFirst, runStart = FALSE, NoRuns, Step, Head(agenda).do # "copy", NEW v \in Vars
  PROVE  GetSSA(ssa'[v]) = GetSSA(ssa[v]) \/ Said(trail', v)
<1>1. agenda # <<>> /\ agenda \in Seq(Items) /\ cur \in Versions
  BY StepMakes DEF IInv, TypeOK
<1>2. CASE Stores
  <2>1. PICK w \in Vars, base \in [Vars -> Nat \cup {Absent}], ts \in Trails : Assigned(w, base, ts)
    BY <1>2, StoresAssign
  <2>2. PICK num : Assign(w, base, num, ts)
    BY <2>1 DEF Assigned
  <2>3. Said(trail', w) /\ (v # w => ssa'[v] = base[v])
    BY <1>1, <2>2, Stored
  <2>4. GetSSA(base[v]) = GetSSA(ssa[v])
    BY <2>1 DEF Assigned
  <2> QED BY <2>3, <2>4
<1>3. CASE Idles
  BY <1>3, IdleSteps
<1>4. CASE ParseTerm \/ ParseElse
  BY <1>4 DEF ParseTerm, ParseElse, genVars
<1>5. CASE CapConditional
  <2>1. Used(v) => Said(trail', v)
    BY <1>5, CapActs
  <2>2. ~Used(v) => ssa'[v] = ssa[v]
    BY <1>5, CapActs
  <2> QED BY <2>1, <2>2
<1> QED BY <1>1, <1>2, <1>3, <1>4, <1>5, QuietSteps

\* What was said stays said: in the list of rules, or in one that is kept.
LEMMA SaidStill ==
  ASSUME IInv, GlobalsFirst, runStart = FALSE, NoRuns, Step, Head(agenda).do # "copy"
  PROVE  agenda' = <<>> \/
         \E s \in Seq(Made), n, l \in Nat :
           /\ Spliced(agenda, agenda', s, n, l)
           /\ \A v \in Vars : Said(trail, v) \/ Holds(Head(agenda), v) => Later(trail', agenda', n + 1, v)
<1>1. agenda # <<>> /\ agenda \in Seq(Items) /\ (Makes \/ agenda' = <<>>)
      /\ cur \in Versions /\ trail \in Trails
  BY StepMakes DEF IInv, TypeOK
<1>2. Seq(Made) \subseteq Seq(Items)
  <2>1. Made \subseteq Items
    BY DEF Made
  <2> QED BY <2>1
<1>3. CASE Stores \/ Idles
  <2>1. ASSUME NEW v \in Vars, Said(trail, v) PROVE Said(trail', v)
    <3>1. CASE Stores
      <4>1. PICK w \in Vars, base \in [Vars -> Nat \cup {Absent}], ts \in Trails : Assigned(w, base, ts)
        BY <3>1, StoresAssign
      <4>2. PICK num : Assign(w, base, num, ts)
        BY <4>1 DEF Assigned
      <4>3. Said(ts, v)
        BY <2>1, <4>1 DEF Assigned
      <4> QED BY <1>1, <4>2, <4>3, Stored
    <3>2. CASE Idles
      BY <2>1, <3>2, IdleSteps
    <3> QED BY <1>3, <3>1, <3>2
  <2>2. Head(agenda).do \notin Frames
    <3>1. CASE Stores
      BY <3>1 DEF Stores, StoreConst, StoreInfix, At, Frames
    <3>2. CASE Idles
      BY <3>2, IdleSteps
    <3> QED BY <1>3, <3>1, <3>2
  <2>3. CASE Makes
    <3>1. PICK s \in Seq(Made) : Do(s)
      BY <2>3 DEF Makes
    <3>2. PICK n, l \in Nat : Spliced(agenda, agenda', s, n, l)
      BY <1>1, <1>2, <3>1, SplicedDo
    <3>3. \A v \in Vars : Said(trail, v) \/ Holds(Head(agenda), v) => Later(trail', agenda', n + 1, v)
      BY <2>1, <2>2 DEF Holds, Later
    <3> QED BY <3>1, <3>2, <3>3
  <2> QED BY <1>1, <2>3
<1>4. CASE ParseTerm /\ code.term[Head(agenda).b].do = "cond"
  <2>1. PICK s \in Seq(Made) : Do(s) /\ Len(s) >= 3 /\ s[3].do = "else" /\ s[3].outer = trail
    <3> DEFINE term == code.term[Head(agenda).b]
               a == IF term.a = NoBlock THEN <<>> ELSE <<Block(term.a), Flush>>
               e == Else(term.f, trail, cur)
    <3>1. Head(agenda).do = "term" /\ term \in Terms
      BY <1>4, HeadItem, ItemFields DEF IInv, TypeOK, ParseTerm, Modules, At
    <3>2. term.t \in Blocks /\ term.f \in Blocks \cup {NoBlock} /\ term.a \in Blocks \cup {NoBlock}
      BY <1>4, <3>1 DEF Terms
    <3>3. e.do = "else" /\ e.outer = trail /\ e.start = cur /\ e.b = term.f
      BY DEF Else
    <3>4. e \in Made
      <4>1. e \in Items
        BY <1>1, <3>2, ItemsMade
      <4>2. Origin(e)
        BY <1>4, <3>1, <3>3 DEF Origin, FromBlock, FromRun
      <4> QED BY <3>3, <4>1, <4>2 DEF Made
    <3>5. Block(term.t) \in Made /\ Flush \in Made /\ (term.a # NoBlock => Block(term.a) \in Made)
      BY <3>2, MadePlain
    <3>6. PICK x, y, z : x = Block(term.t) /\ y = Flush /\ z = e
      OBVIOUS
    <3>7. Do(<<x, y, z>> \o a)
      BY <1>4, <3>6 DEF ParseTerm
    <3> HIDE DEF e
    <3>8. PICK q : q = <<x, y, z>>
      OBVIOUS
    <3>9. q \in Seq(Made) /\ Len(q) = 3 /\ q[3] = z
      BY <3>4, <3>5, <3>6, <3>8
    <3>10. a \in Seq(Made)
      BY <3>5
    <3>11. PICK r : r = a
      OBVIOUS
    <3>12. q \o r \in Seq(Made) /\ Len(q \o r) >= 3 /\ (q \o r)[3] = z
      <4>1. r \in Seq(Made) /\ Len(r) \in Nat
        BY <3>10, <3>11
      <4>0. q \in Seq(Made) /\ Len(q) = 3
        BY <3>9
      <4>2. q \o r \in Seq(Made) /\ Len(q \o r) = 3 + Len(r)
        <5>1. q \o r \in Seq(Made) /\ Len(q \o r) = Len(q) + Len(r)
          BY <4>0, <4>1, ConcatProperties
        <5> QED BY <4>0, <5>1
      <4>3. (q \o r)[3] = q[3]
        <5>1. 3 \in 1..(3 + Len(r)) /\ 3 <= 3
          BY <4>1
        <5> QED BY <3>9, <4>1, <5>1, ConcatProperties
      <4> QED BY <3>9, <4>1, <4>2, <4>3
    <3> QED BY <3>3, <3>6, <3>7, <3>8, <3>11, <3>12
  <2>2. PICK n, l \in Nat : Spliced(agenda, agenda', s, n, l)
    BY <1>1, <1>2, <2>1, SplicedDo
  <2>3. 3 \in 1..n /\ n = Len(s)
    <3>1. DOMAIN s = 1..n /\ DOMAIN s = 1..Len(s) /\ Len(s) \in Nat
      BY <2>1, <2>2 DEF Spliced
    <3> QED BY <2>1, <2>2, <3>1
  <2>4. agenda'[3] = s[3] /\ 3 \in 1..(n + 1 - 1)
    BY <2>2, <2>3 DEF Spliced
  <2>5. Head(agenda).do = "term"
    BY <1>4 DEF ParseTerm, At
  <2>6. ASSUME NEW v \in Vars, Said(trail, v) \/ Holds(Head(agenda), v)
        PROVE  Later(trail', agenda', n + 1, v)
    <3>1. Said(trail, v)
      BY <2>5, <2>6 DEF Holds, Frames
    <3>2. Holds(agenda'[3], v)
      BY <2>1, <2>4, <3>1 DEF Holds, Frames
    <3> QED BY <2>4, <3>2 DEF Later
  <2> QED BY <2>1, <2>2, <2>6
<1>5. CASE ParseElse
  <2>1. Makes
    BY <1>5, ElseMakes
  <2>2. PICK cap : /\ cap \in Made /\ cap.do = "capCond" /\ cap.outer = Head(agenda).outer
                   /\ cap.true = trail
                   /\ Do(<<cap>>) \/ (Head(agenda).b # NoBlock /\ Do(<<Block(Head(agenda).b), EndElse, cap>>))
    <3> DEFINE c == CapCond(Head(agenda).outer, trail, cur)
    <3>1. Head(agenda).do = "else" /\ Head(agenda).outer \in Trails
      BY <1>5, HeadItem, ItemFields DEF IInv, ParseElse, At
    <3>2. c \in Items
      BY <1>1, <3>1, ItemsMade
    <3>3. c.do = "capCond" /\ c.outer = Head(agenda).outer /\ c.true = trail
      BY DEF CapCond
    <3>4. Origin(c)
      BY <3>3 DEF Origin, FromBlock, FromRun
    <3>5. c \in Made
      BY <3>1, <3>2, <3>3, <3>4 DEF Made
    <3>6. Do(<<c>>) \/ (Head(agenda).b # NoBlock /\ Do(<<Block(Head(agenda).b), EndElse, c>>))
      BY <1>5 DEF ParseElse
    <3> HIDE DEF c
    <3> QED BY <3>3, <3>5, <3>6
  <2>3. PICK s \in Seq(Made) : Do(s) /\ s # <<>> /\ s[Len(s)] = cap
    <3>1. CASE Do(<<cap>>)
      <4>1. PICK q : q = <<cap>>
        OBVIOUS
      <4>2. q \in Seq(Made) /\ q # <<>> /\ Len(q) = 1 /\ q[1] = cap
        BY <2>2, <4>1
      <4> QED BY <3>1, <4>1, <4>2
    <3>2. CASE Head(agenda).b # NoBlock /\ Do(<<Block(Head(agenda).b), EndElse, cap>>)
      <4>1. PICK x, y : x = Block(Head(agenda).b) /\ y = EndElse
        OBVIOUS
      <4>2. Head(agenda).b \in Blocks
        BY <1>5, <3>2, HeadItem, ItemFields DEF IInv, ParseElse, At
      <4>3. x \in Made /\ y \in Made
        BY <1>5, <3>2, <4>1, <4>2, MadePlain, MadeEndElse DEF ParseElse, At
      <4>4. PICK q : q = <<x, y, cap>>
        OBVIOUS
      <4>5. q \in Seq(Made) /\ q # <<>> /\ Len(q) = 3 /\ q[3] = cap
        BY <2>2, <4>3, <4>4
      <4> QED BY <3>2, <4>1, <4>4, <4>5
    <3> QED BY <2>2, <3>1, <3>2
  <2>4. PICK n, l \in Nat : Spliced(agenda, agenda', s, n, l)
    BY <1>1, <1>2, <2>3, SplicedDo
  <2>5. n = Len(s) /\ n \in 1..n
    <3>1. DOMAIN s = 1..n /\ DOMAIN s = 1..Len(s) /\ Len(s) \in Nat /\ Len(s) # 0
      BY <2>3, <2>4, EmptySeq DEF Spliced
    <3> QED BY <2>4, <3>1
  <2>6. agenda'[n] = cap /\ n \in 1..(n + 1 - 1)
    BY <2>3, <2>4, <2>5 DEF Spliced
  <2>7. Head(agenda).do = "else"
    BY <1>5 DEF ParseElse, At
  <2>8. ASSUME NEW v \in Vars, Said(trail, v) \/ Holds(Head(agenda), v)
        PROVE  Later(trail', agenda', n + 1, v)
    <3>1. Said(cap.true, v) \/ Said(cap.outer, v)
      BY <2>2, <2>7, <2>8 DEF Holds
    <3>2. Holds(agenda'[n], v)
      BY <2>2, <2>6, <3>1 DEF Holds, Frames
    <3> QED BY <2>6, <3>2 DEF Later
  <2> QED BY <2>3, <2>4, <2>8
<1>6. CASE CapConditional /\ agenda' # <<>>
  <2>1. PICK s : s = <<>>
    OBVIOUS
  <2>2. s \in Seq(Made) /\ s \in Seq(Items)
    BY <2>1
  <2>3. Do(s)
    <3>1. agenda' = Tail(agenda)
      BY <1>6 DEF CapConditional
    <3> QED BY <1>1, <2>1, <3>1 DEF Do
  <2>4. PICK n, l \in Nat : Spliced(agenda, agenda', s, n, l)
    BY <1>1, <2>2, <2>3, SplicedDo
  <2>5. ASSUME NEW v \in Vars, Said(trail, v) \/ Holds(Head(agenda), v)
        PROVE  Said(trail', v)
    <3>1. Used(v) \/ Said(Head(agenda).outer, v)
      BY <2>5 DEF Used, Holds
    <3>2. Used(v) => Said(trail', v)
      BY <1>6, CapActs
    <3>3. ~Used(v) => trail'[v] = Head(agenda).outer[v]
      BY <1>6, CapActs
    <3> QED BY <3>1, <3>2, <3>3 DEF Said
  <2> QED BY <2>2, <2>4, <2>5 DEF Later
<1> QED BY <1>1, <1>3, <1>4, <1>5, <1>6, QuietSteps

LEMMA LaterShift ==
  ASSUME NEW a, NEW b, NEW s, NEW n, NEW l, Spliced(a, b, s, n, l), NEW ts, NEW us, NEW v,
         Said(ts, v) \/ Holds(a[1], v) => Later(us, b, n + 1, v),
         NEW i \in 2..l, Later(ts, a, i, v)
  PROVE  Later(us, b, i - 1 + n, v)
<1>1. n \in Nat /\ l \in Nat
  BY DEF Spliced
<1>2. PICK m, k \in Nat : m = i - 1 + n /\ k = n + 1 /\ \A j \in 1..(k - 1) : j \in 1..(m - 1)
  BY <1>1
<1>3. CASE Said(us, v)
  BY <1>3 DEF Later
<1>4. CASE \E j \in 1..(k - 1) : Holds(b[j], v)
  <2>1. \E j \in 1..(m - 1) : Holds(b[j], v)
    BY <1>2, <1>4
  <2>2. Later(us, b, m, v)
    BY <2>1 DEF Later
  <2> QED BY <1>2, <2>2
<1>5. CASE ~Said(ts, v) /\ ~Holds(a[1], v)
  <2>1. PICK j \in 1..(i - 1) : Holds(a[j], v)
    BY <1>5 DEF Later
  <2>2. j \in 2..l /\ j - 1 + n \in 1..(m - 1)
    <3>1. j # 1
      BY <1>5, <2>1
    <3> QED BY <1>1, <1>2, <2>1, <3>1
  <2>3. Holds(b[j - 1 + n], v)
    BY <2>1, <2>2 DEF Spliced
  <2>4. \E x \in 1..(m - 1) : Holds(b[x], v)
    BY <2>2, <2>3
  <2>5. Later(us, b, m, v)
    BY <2>4 DEF Later
  <2> QED BY <1>2, <2>5
<1>6. Later(us, b, n + 1, v) => Said(us, v) \/ \E j \in 1..(k - 1) : Holds(b[j], v)
  BY <1>2 DEF Later
<1> QED BY <1>3, <1>4, <1>5, <1>6

-----------------------------------------------------------------------------
(***************************************************************************)
(* Conditionals without an else.  On the path being parsed, a variable has *)
(* the last number handed out; only at the end of a conditional the path   *)
(* is the one around the branch, and what the branch used gets a phi.      *)
(***************************************************************************)
Current == \A v \in Vars : cur[v] = GetSSA(ssa[v])
CapsFirst == \A i \in DOMAIN agenda : agenda[i].do = "capCond" => i = 1
StartsKept ==
  \A i \in DOMAIN agenda : agenda[i].do = "else" =>
    /\ agenda[i].b = NoBlock
    /\ \A v \in Vars : agenda[i].start[v] = GetSSA(ssa[v]) \/ Later(trail, agenda, i, v)
AroundBranch ==
  /\ trail = NoTrails
  /\ \A v \in Vars : /\ Head(agenda).end[v] = GetSSA(ssa[v])
                     /\ cur[v] = GetSSA(ssa[v]) \/ Said(Head(agenda).true, v)

PathsInv == CapsFirst /\ StartsKept /\ (IF At("capCond") THEN AroundBranch ELSE Current)

\* Steps that do not end a branch.
LEMMA StartsNext ==
  ASSUME IInv, GlobalsFirst, runStart = FALSE, NoRuns, NoElse(code), Head(agenda).do # "copy",
         PathsInv, Step, Head(agenda).do # "else"
  PROVE  StartsKept' /\ \A i \in DOMAIN agenda' : agenda'[i].do # "capCond"
<1>1. agenda # <<>> /\ agenda \in Seq(Items) /\ Head(agenda) = agenda[1] /\ 1 \in DOMAIN agenda
  BY StepMakes DEF IInv, TypeOK
<1>2. CASE agenda' = <<>>
  BY <1>2 DEF StartsKept
<1>3. CASE agenda' # <<>>
  <2>1. PICK s \in Seq(Made), n, l \in Nat :
          /\ Spliced(agenda, agenda', s, n, l)
          /\ \A v \in Vars : Said(trail, v) \/ Holds(Head(agenda), v) => Later(trail', agenda', n + 1, v)
    BY <1>3, SaidStill
  <2>2. ASSUME NEW i \in DOMAIN agenda' PROVE
          \/ agenda'[i] \in Made
          \/ \E k \in 2..l : i = k - 1 + n /\ agenda'[i] = agenda[k] /\ k \in DOMAIN agenda
    BY <2>1, SplicedAt
  <2>3. ASSUME NEW i \in DOMAIN agenda' PROVE agenda'[i].do # "capCond"
    <3>1. CASE agenda'[i] \in Made
      BY <3>1 DEF Made
    <3>2. CASE \E k \in 2..l : agenda'[i] = agenda[k] /\ k \in DOMAIN agenda
      BY <3>2 DEF PathsInv, CapsFirst
    <3> QED BY <2>2, <3>1, <3>2
  <2>4. ASSUME NEW i \in DOMAIN agenda', agenda'[i].do = "else"
        PROVE  /\ agenda'[i].b = NoBlock
               /\ \A v \in Vars : agenda'[i].start[v] = GetSSA(ssa'[v]) \/ Later(trail', agenda', i, v)
    <3>1. CASE agenda'[i] \in Made
      <4>1. /\ Head(agenda).do = "term" /\ code.term[Head(agenda).b].do = "cond"
            /\ agenda'[i].b = code.term[Head(agenda).b].f /\ agenda'[i].start = cur
        BY <2>4, <3>1 DEF Made, Origin
      <4>2. Head(agenda).b \in Blocks
        BY <1>1, <4>1, HeadItem, ItemFields
      <4>3. agenda'[i].b = NoBlock
        BY <4>1, <4>2 DEF NoElse
      <4>4. Current
        BY <4>1 DEF PathsInv, At
      <4>5. ssa' = ssa
        BY <4>1 DEF Step, ParseFunction, ParseBlock, ParseTerm, ParseElse, EndFalse, CapConditional,
           StoreConst, StoreInfix, StoreCopy, ParseCmp, ParseBuiltIn, ConstantRule, StoreRound,
           ParseCall, EndParseCall, ExecuteCallstack, RunOption, RunCall, EndRunCall,
           EndRunOption, CapRunParallel, At
      <4> QED BY <4>1, <4>3, <4>4, <4>5 DEF Current
    <3>2. ASSUME NEW k \in 2..l, i = k - 1 + n, agenda'[i] = agenda[k], k \in DOMAIN agenda
          PROVE  /\ agenda'[i].b = NoBlock
                 /\ \A v \in Vars : agenda'[i].start[v] = GetSSA(ssa'[v]) \/ Later(trail', agenda', i, v)
      <4>1. /\ agenda[k].b = NoBlock
            /\ \A v \in Vars : agenda[k].start[v] = GetSSA(ssa[v]) \/ Later(trail, agenda, k, v)
        BY <2>4, <3>2 DEF PathsInv, StartsKept
      <4>2. ASSUME NEW v \in Vars
            PROVE  agenda[k].start[v] = GetSSA(ssa'[v]) \/ Later(trail', agenda', i, v)
        <5>1. CASE Said(trail', v)
          BY <5>1 DEF Later
        <5>2. CASE GetSSA(ssa'[v]) = GetSSA(ssa[v]) /\ agenda[k].start[v] = GetSSA(ssa[v])
          BY <5>2
        <5>3. CASE Later(trail, agenda, k, v)
          <6>1. Said(trail, v) \/ Holds(agenda[1], v) => Later(trail', agenda', n + 1, v)
            BY <1>1, <2>1
          <6>2. Later(trail', agenda', k - 1 + n, v)
            BY <2>1, <5>3, <6>1, LaterShift
          <6> QED BY <3>2, <6>2
        <5> QED BY <4>1, <5>1, <5>2, <5>3, NumberSaid
      <4> QED BY <3>2, <4>1, <4>2
    <3> QED BY <2>2, <3>1, <3>2
  <2> QED BY <2>3, <2>4 DEF StartsKept
<1> QED BY <1>2, <1>3

\* The end of the true branch.
LEMMA ElsePaths ==
  ASSUME IInv, GlobalsFirst, runStart = FALSE, NoRuns, PathsInv, ParseElse
  PROVE  PathsInv'
<1>1. agenda # <<>> /\ agenda \in Seq(Items) /\ Head(agenda) = agenda[1] /\ 1 \in DOMAIN agenda
      /\ trail \in Trails /\ cur \in Versions /\ Head(agenda).do = "else"
  BY DEF IInv, TypeOK, ParseElse, At
<1>2. /\ Head(agenda).b = NoBlock
      /\ \A v \in Vars : Head(agenda).start[v] = GetSSA(ssa[v]) \/ Said(trail, v)
  <2>1. \A j \in 1..(1 - 1) : FALSE
    OBVIOUS
  <2> QED BY <1>1, <2>1 DEF PathsInv, StartsKept, Later
<1>3. Current
  BY <1>1 DEF PathsInv, At
<1>0. PICK cap : cap = CapCond(Head(agenda).outer, trail, cur)
  OBVIOUS
<1>4. /\ cap = CapCond(Head(agenda).outer, trail, cur)
      /\ cap.do = "capCond" /\ cap.outer = Head(agenda).outer /\ cap.true = trail /\ cap.end = cur
  BY <1>0 DEF CapCond
<1>5. cap \in Items
  BY <1>1, <1>4, HeadItem, ItemFields, ItemsMade
<1>6. Do(<<cap>>) /\ cur' = Head(agenda).start /\ trail' = NoTrails /\ ssa' = ssa
  BY <1>2, <1>4 DEF ParseElse, genVars
<1>7. PICK s : s = <<cap>>
  OBVIOUS
<1>8. s \in Seq(Items) /\ DOMAIN s = 1..1 /\ s[1] = cap
  BY <1>5, <1>7
<1>9. PICK n, l \in Nat : Spliced(agenda, agenda', s, n, l)
  BY <1>1, <1>6, <1>7, <1>8, SplicedDo
<1>10. n = 1
  <2>1. 1..n = 1..1
    BY <1>8, <1>9 DEF Spliced
  <2> QED BY <1>9, <2>1
<1>11. /\ DOMAIN agenda' = 1..l /\ DOMAIN agenda = 1..l /\ agenda'[1] = cap /\ l \in Nat \ {0}
       /\ \A i \in 2..l : agenda'[i] = agenda[i]
  <2>1. 1 \in 1..n /\ n + l - 1 = l /\ \A i \in 2..l : i - 1 + n = i
    BY <1>9, <1>10
  <2> QED BY <1>8, <1>9, <2>1 DEF Spliced
<1>12. \A i \in DOMAIN agenda' : i = 1 \/ (i \in 2..l /\ agenda'[i] = agenda[i] /\ i \in DOMAIN agenda)
  BY <1>11
<1>13. CapsFirst'
  BY <1>12 DEF PathsInv, CapsFirst
<1>14. ASSUME NEW i \in DOMAIN agenda', agenda'[i].do = "else"
       PROVE  /\ agenda'[i].b = NoBlock
              /\ \A v \in Vars : agenda'[i].start[v] = GetSSA(ssa'[v]) \/ Later(trail', agenda', i, v)
  <2>1. i \in 2..l /\ agenda'[i] = agenda[i] /\ i \in DOMAIN agenda
    BY <1>4, <1>11, <1>12, <1>14
  <2>2. /\ agenda[i].b = NoBlock
        /\ \A v \in Vars : agenda[i].start[v] = GetSSA(ssa[v]) \/ Later(trail, agenda, i, v)
    BY <1>14, <2>1 DEF PathsInv, StartsKept
  <2>3. ASSUME NEW v \in Vars, Later(trail, agenda, i, v) PROVE Later(trail', agenda', i, v)
    <3>1. ASSUME Said(trail, v) \/ Holds(agenda[1], v) PROVE Later(trail', agenda', n + 1, v)
      <4>1. Said(cap.true, v) \/ Said(cap.outer, v)
        BY <1>1, <1>4, <3>1 DEF Holds
      <4>2. Holds(agenda'[1], v) /\ 1 \in 1..(n + 1 - 1)
        BY <1>4, <1>10, <1>11, <4>1 DEF Holds, Frames
      <4> QED BY <4>2 DEF Later
    <3>2. Later(trail', agenda', i - 1 + n, v)
      BY <1>9, <2>1, <2>3, <3>1, LaterShift
    <3>3. i - 1 + n = i
      BY <1>10, <2>1
    <3> QED BY <3>2, <3>3
  <2> QED BY <1>6, <2>1, <2>2, <2>3
<1>15. At("capCond")' /\ Head(agenda') = cap
  <2>1. agenda' \in Seq(Items) /\ agenda' # <<>>
    <3>1. Tail(agenda) \in Seq(Items)
      BY <1>1
    <3>2. agenda' \in Seq(Items)
      BY <1>6, <1>7, <1>8, <3>1, ConcatProperties DEF Do
    <3> QED BY <1>11, <3>2
  <2>2. Head(agenda') = agenda'[1]
    BY <2>1
  <2> QED BY <1>4, <1>11, <2>1, <2>2 DEF At
<1>16. AroundBranch'
  <2>1. \A v \in Vars : cap.end[v] = GetSSA(ssa'[v])
    BY <1>3, <1>4, <1>6 DEF Current
  <2>2. \A v \in Vars : cur'[v] = GetSSA(ssa'[v]) \/ Said(cap.true, v)
    BY <1>2, <1>4, <1>6
  <2> QED BY <1>6, <1>15, <2>1, <2>2 DEF AroundBranch, NoTrails
<1> QED BY <1>13, <1>14, <1>15, <1>16 DEF PathsInv, StartsKept

\* Every step.
LEMMA StepPaths ==
  ASSUME IInv, GlobalsFirst, runStart = FALSE, NoRuns, NoElse(code), Head(agenda).do # "copy",
         PathsInv, Step
  PROVE  PathsInv'
<1>1. agenda # <<>> /\ agenda \in Seq(Items) /\ cur \in Versions
  BY StepMakes DEF IInv, TypeOK
<1>2. CASE Head(agenda).do = "else"
  <2>1. ParseElse
    BY <1>2 DEF Step, ParseFunction, ParseBlock, ParseTerm, ParseElse, EndFalse, CapConditional,
           StoreConst, StoreInfix, StoreCopy, ParseCmp, ParseBuiltIn, ConstantRule, StoreRound,
           ParseCall, EndParseCall, ExecuteCallstack, RunOption, RunCall, EndRunCall,
           EndRunOption, CapRunParallel, At
  <2> QED BY <2>1, ElsePaths
<1>3. CASE Head(agenda).do # "else"
  <2>1. StartsKept' /\ \A i \in DOMAIN agenda' : agenda'[i].do # "capCond"
    BY <1>3, StartsNext
  <2>2. CapsFirst'
    BY <2>1 DEF CapsFirst
  <2>3. ~At("capCond")'
    <3>1. agenda' # <<>> => Head(agenda') = agenda'[1] /\ 1 \in DOMAIN agenda'
      <4>1. IInv'
        BY NextInv DEF Next
      <4>2. agenda' \in Seq(Items)
        BY <4>1 DEF IInv, TypeOK
      <4> QED BY <4>2
    <3> QED BY <2>1, <3>1 DEF At
  <2>4. ASSUME NEW v \in Vars PROVE cur'[v] = GetSSA(ssa'[v])
    <3>1. CASE Stores
      <4>1. cur[v] = GetSSA(ssa[v])
        BY <3>1 DEF PathsInv, Current, At, Stores, StoreConst, StoreInfix
      <4>2. PICK w \in Vars, base \in [Vars -> Nat \cup {Absent}], ts \in Trails : Assigned(w, base, ts)
        BY <3>1, StoresAssign
      <4>3. PICK num : Assign(w, base, num, ts)
        BY <4>2 DEF Assigned
      <4>4. cur'[w] = GetSSA(ssa'[w]) /\ (v # w => ssa'[v] = base[v] /\ cur'[v] = cur[v])
        BY <1>1, <4>3, Stored
      <4>5. GetSSA(base[v]) = GetSSA(ssa[v])
        BY <4>2 DEF Assigned
      <4> QED BY <4>1, <4>4, <4>5
    <3>2. CASE Idles
      <4>1. Head(agenda).do # "capCond"
        BY <3>2, IdleSteps DEF Frames
      <4>2. cur[v] = GetSSA(ssa[v])
        BY <4>1 DEF PathsInv, Current, At
      <4> QED BY <3>2, <4>2, IdleSteps
    <3>3. CASE ParseTerm
      <4>1. cur[v] = GetSSA(ssa[v])
        BY <3>3 DEF PathsInv, Current, At, ParseTerm
      <4> QED BY <3>3, <4>1 DEF ParseTerm
    <3>4. CASE CapConditional
      <4>1. AroundBranch
        BY <3>4 DEF PathsInv, CapConditional
      <4>2. cur[v] = GetSSA(ssa[v]) \/ Used(v)
        BY <4>1 DEF AroundBranch, Used
      <4>3. Used(v) => ssa'[v] = AdvanceSSA(ssa[v]) /\ cur'[v] = ssa'[v]
        BY <3>4, CapActs
      <4>4. ~Used(v) => ssa'[v] = ssa[v] /\ cur'[v] = cur[v]
        BY <3>4, CapActs
      <4>5. GetSSA(AdvanceSSA(ssa[v])) = AdvanceSSA(ssa[v])
        BY Numbers DEF IInv, TypeOK
      <4> QED BY <4>2, <4>3, <4>4, <4>5
    <3>5. ~ParseElse
      BY <1>3 DEF ParseElse, At
    <3> QED BY <1>1, <3>1, <3>2, <3>3, <3>4, <3>5, QuietSteps
  <2> QED BY <2>1, <2>2, <2>3, <2>4 DEF PathsInv, Current
<1> QED BY <1>2, <1>3

-----------------------------------------------------------------------------
(***************************************************************************)
(* The start of the walk.                                                  *)
(***************************************************************************)
LEMMA InitAgenda ==
  ASSUME Init, NEW i \in DOMAIN agenda
  PROVE  agenda[i] \in Items /\ agenda[i].do \in {"global", "function"}
<1> DEFINE gs == [j \in DOMAIN code.globals |-> Global(code.globals[j])]
           g  == Function(Run, 1)
           S  == {h \in Items : h.do \in {"global", "function"}}
<1>1. code.globals \in Seq(Vars)
  BY InitInv DEF IInv, TypeOK, Modules
<1>2. PICK n \in Nat : DOMAIN code.globals = 1..n /\ \A j \in 1..n : code.globals[j] \in Vars
  BY <1>1
<1>3. gs \in Seq(S)
  <2>1. gs = [j \in 1..n |-> Global(code.globals[j])]
    BY <1>2
  <2>2. \A j \in 1..n : Global(code.globals[j]) \in S
    BY <1>2, ItemsMade DEF Global
  <2>3. \A T : (\A j \in 1..n : Global(code.globals[j]) \in T)
                 => [j \in 1..n |-> Global(code.globals[j])] \in Seq(T)
    OBVIOUS
  <2> QED BY <2>1, <2>2, <2>3
<1>4. g \in S
  BY ItemsMade, ConstantsAssumption DEF Function
<1>5. agenda = gs \o <<g>>
  BY DEF Init
<1> HIDE DEF gs, g, S
<1>6. agenda \in Seq(S)
  BY <1>3, <1>4, <1>5
<1>7. agenda[i] \in S
  BY <1>6
<1> QED BY <1>7 DEF S

LEMMA InitQuiet ==
  ASSUME Init, NEW R
  PROVE  QInv(R)
<1>1. \A i \in DOMAIN agenda : agenda[i].do \in {"global", "function"}
  BY InitAgenda
<1>2. callstack = <<>> /\ runStart = FALSE
  BY DEF Init
<1> QED BY <1>1, <1>2 DEF QInv, OneCall, NoRuns, FromRun, CallsApart, Alone

LEMMA InitPaths ==
  ASSUME Init
  PROVE  PathsInv /\ ReadsCurrent
<1>1. \A i \in DOMAIN agenda : agenda[i].do \in {"global", "function"}
  BY InitAgenda
<1>2. CapsFirst /\ StartsKept
  BY <1>1 DEF CapsFirst, StartsKept
<1>3. ~At("capCond")
  <2>1. agenda \in Seq(Items)
    BY InitInv DEF IInv, TypeOK
  <2>2. agenda # <<>> => Head(agenda) = agenda[1] /\ 1 \in DOMAIN agenda
    BY <2>1
  <2> QED BY <1>1, <2>2 DEF At
<1>4. Current
  <2>1. \A v \in Vars : cur[v] = 0 /\ ssa[v] = Absent
    BY DEF Init
  <2> QED BY <2>1 DEF Current, GetSSA
<1>5. ReadsCurrent
  BY DEF Init, ReadsCurrent
<1> QED BY <1>2, <1>3, <1>4, <1>5 DEF PathsInv

\* A call that waits is made before anything else reads.
LEMMA NothingPending ==
  ASSUME IInv, Alone(Reading), agenda # <<>>, Head(agenda).do \in Reading
  PROVE  callstack = <<>>
<1>1. agenda \in Seq(Items) /\ Head(agenda) = agenda[1] /\ 1 \in DOMAIN agenda
  BY DEF IInv, TypeOK
<1>2. agenda[1] \notin Calm(grouping, Reading)
  BY <1>1 DEF Calm, Reading
<1>3. \A k \in (0 + 1)..1 : agenda[k].do \notin Breaks
  BY <1>1 DEF Reading, Breaks
<1>4. ~Waits(agenda, 0, grouping, Reading)
  BY <1>1, <1>2, <1>3 DEF Waits
<1> QED BY <1>4 DEF Alone

\* Every step reads what reaches it.
LEMMA StepCurrent ==
  ASSUME IInv, QInv(Reading), PathsInv, Head(agenda).do # "copy", Step
  PROVE  ReadsCurrent'
<1> DEFINE h == Head(agenda)
<1>1. agenda \in Seq(Items) /\ agenda # <<>> /\ h \in Items
  BY StepMakes DEF IInv, TypeOK
<1>2. CASE seen'.reads = {}
  BY <1>2 DEF ReadsCurrent
<1>3. CASE StoreInfix \/ ParseCmp
  <2>1. h.do \in {"infix", "cmp"} /\ runStart = FALSE
    BY <1>3 DEF StoreInfix, ParseCmp, At, QInv
  <2>2. h.x \in Operands /\ h.y \in Operands
    BY <1>1, <2>1, ItemFields
  <2>3. callstack = <<>>
    BY <1>1, <2>1, NothingPending DEF QInv, Reading
  <2>4. Current
    BY <2>1 DEF PathsInv, At
  <2> DEFINE yStart == runStart /\ h.x = Lit
             xn == IF h.x = Lit THEN 0 ELSE ReadNum(h.x, runStart)
             yn == IF h.y = Lit THEN 0 ELSE ReadNum(h.y, yStart)
  <2>5. seen'.reads = Read(h.x, xn) \cup Read(h.y, yn)
    BY <1>3 DEF StoreInfix, ParseCmp
  <2>6. ASSUME NEW x \in Operands, NEW n, x # Lit => n = cur[x], NEW r \in Read(x, n)
        PROVE  ~r.pending /\ r.got = r.want
    <3>1. x # Lit
      BY <2>6 DEF Read
    <3>2. r = [var |-> x, got |-> n, want |-> cur[x], pending |-> callstack # <<>>]
      BY <2>6, <3>1 DEF Read
    <3>3. r.pending = (callstack # <<>>) /\ r.got = n /\ r.want = cur[x]
      BY <3>2
    <3> QED BY <2>3, <2>6, <3>1, <3>3
  <2>7. ASSUME NEW x \in Operands, NEW start \in BOOLEAN, ~start, x # Lit
        PROVE  ReadNum(x, start) = cur[x]
    <3>1. x \in Vars
      BY <2>7 DEF Operands
    <3> QED BY <2>4, <2>7, <3>1 DEF ReadNum, Current
  <2>8. runStart \in BOOLEAN /\ yStart \in BOOLEAN /\ ~runStart /\ ~yStart
    BY <2>1
  <2>9. h.x # Lit => xn = cur[h.x]
    BY <2>2, <2>7, <2>8
  <2>10. h.y # Lit => yn = cur[h.y]
    <3> HIDE DEF yStart
    <3> QED BY <2>2, <2>7, <2>8
  <2> HIDE DEF xn, yn
  <2> QED BY <2>2, <2>5, <2>6, <2>9, <2>10 DEF ReadsCurrent
<1>4. ~StoreCopy
  BY DEF StoreCopy, At
<1>5. CASE CapConditional
  <2>1. seen'.reads = {}
    BY <1>5 DEF CapConditional
  <2> QED BY <1>2, <2>1
<1>6. CASE CapRunParallel
  <2>1. seen'.reads = {}
    BY <1>6 DEF CapRunParallel
  <2> QED BY <1>2, <2>1
<1>7. CASE \/ ParseFunction \/ ParseBlock \/ ParseTerm \/ ParseElse \/ EndFalse
           \/ StoreConst \/ ParseBuiltIn \/ ConstantRule \/ StoreRound
           \/ ParseCall \/ EndParseCall \/ ExecuteCallstack \/ RunOption \/ RunCall
           \/ EndRunCall \/ EndRunOption
  <2>1. Quiet
    BY <1>7 DEF ParseFunction, ParseBlock, ParseTerm, ParseElse, EndFalse, StoreConst,
           ParseBuiltIn, ConstantRule, StoreRound, ParseCall, EndParseCall, ExecuteCallstack,
           RunOption, RunCall, EndRunCall, EndRunOption
  <2>2. seen'.reads = {}
    BY <2>1 DEF Quiet
  <2> QED BY <1>2, <2>2
<1> QED BY <1>3, <1>4, <1>5, <1>6, <1>7 DEF Step

\* No step of the walk is a copy where the code has none.
LEMMA HeadNoCopy ==
  ASSUME IInv, EInv, agenda # <<>>
  PROVE  Head(agenda).do # "copy"
<1>1. agenda \in Seq(Items) /\ Head(agenda) = agenda[1] /\ 1 \in DOMAIN agenda
  BY DEF IInv, TypeOK
<1> QED BY <1>1 DEF EInv, EndsReached, Kept

Straight == NoElse(code) /\ CallsLast(code)
CInv == Straight /\ QInv(Reading) /\ PathsInv /\ ReadsCurrent

LEMMA NextCurrent == IInv /\ EInv /\ CInv /\ [Next]_vars => CInv'
<1> SUFFICES ASSUME IInv, EInv, CInv, [Next]_vars PROVE CInv'
  OBVIOUS
<1>1. CASE Step
  <2>1. agenda # <<>> /\ Head(agenda).do # "copy" /\ code' = code
    BY <1>1, HeadNoCopy, StepMakes, CodeKept
  <2>2. Straight'
    BY <2>1 DEF CInv, Straight
  <2>3. \A b \in Blocks : Apart(code.insts[b], Reading)
    BY DEF CInv, Straight, CallsLast, Reading
  <2>4. QInv(Reading)'
    BY <1>1, <2>3, StepQuiet DEF CInv
  <2>5. GlobalsFirst /\ runStart = FALSE /\ NoRuns /\ NoElse(code)
    BY DEF EInv, RInv, CInv, QInv, Straight
  <2>6. PathsInv'
    BY <1>1, <2>1, <2>5, StepPaths DEF CInv
  <2>7. ReadsCurrent'
    BY <1>1, <2>1, StepCurrent DEF CInv
  <2> QED BY <2>2, <2>4, <2>6, <2>7 DEF CInv
<1>2. CASE UNCHANGED vars
  <2>1. UNCHANGED <<code, agenda, ssa, trail, cur, seen, callstack, runStart, grouping>>
    BY <1>2 DEF vars, genVars, ctlVars, ruleVars, histVars
  <2>2. Straight' /\ ReadsCurrent'
    BY <2>1 DEF CInv, Straight, ReadsCurrent
  <2>3. QInv(Reading)'
    BY <2>1 DEF CInv, QInv, OneCall, NoRuns, CallsApart, Alone
  <2>4. PathsInv'
    BY <2>1 DEF CInv, PathsInv, CapsFirst, StartsKept, AroundBranch, Current, At
  <2> QED BY <2>2, <2>3, <2>4 DEF CInv
<1> QED BY <1>1, <1>2 DEF Next, Finished

\* Every rule reads the version that reaches it on its path and none reads past a
\* call that still waits on the callstack (convertInfixVar, createInfixRule), in
\* models without parallel steps and without else whose calls are the last steps
\* of a round: the reads that go wrong need one of the three.
THEOREM CurrentReads ==
  Spec /\ Initialised(code) /\ NoCopies(code) /\ NoElse(code) /\ CallsLast(code) => []ReadsCurrent
<1>1. Init /\ Initialised(code) /\ NoCopies(code) /\ Straight => IInv /\ EInv /\ ReadsDeclared /\ CInv
  BY InitInv, InitEnds, InitQuiet, InitPaths DEF CInv
<1>2. IInv /\ EInv /\ ReadsDeclared /\ CInv /\ [Next]_vars => (IInv /\ EInv /\ ReadsDeclared /\ CInv)'
  BY NextInv, NextEnds, NextCurrent
<1>3. CInv => ReadsCurrent
  BY DEF CInv
<1> QED BY <1>1, <1>2, <1>3, PTL DEF Spec, Straight

-----------------------------------------------------------------------------
(***************************************************************************)
(* The last versions in the lists of rules.  In a list that is kept, the   *)
(* last version of a variable is the last one handed out, unless the       *)
(* variable occurs again in a list that was begun later.                   *)
(***************************************************************************)
FrameLatest(ns, ts, a, i) ==
  a[i].do \in Frames => \A v \in Vars :
    /\ \/ Latest(ns, a[i].outer, v)
       \/ Later(ts, a, i, v)
       \/ a[i].do = "capCond" /\ Said(a[i].true, v)
    /\ a[i].do = "capCond" => Latest(ns, a[i].true, v) \/ Later(ts, a, i, v)

LatestEnds ==
  /\ \A v \in Vars : Latest(ssa, trail, v)
  /\ \A i \in DOMAIN agenda : FrameLatest(ssa, trail, agenda, i)

\* The first entry of an agenda.
LEMMA FrameFirst ==
  ASSUME NEW ns, NEW ts, NEW a, FrameLatest(ns, ts, a, 1), a[1].do \in Frames, NEW v \in Vars
  PROVE  /\ Latest(ns, a[1].outer, v) \/ Said(ts, v) \/ (a[1].do = "capCond" /\ Said(a[1].true, v))
         /\ a[1].do = "capCond" => Latest(ns, a[1].true, v) \/ Said(ts, v)
<1>1. \A j \in 1..(1 - 1) : FALSE
  OBVIOUS
<1>2. Later(ts, a, 1, v) <=> Said(ts, v)
  BY <1>1 DEF Later
<1> QED BY <1>2 DEF FrameLatest

\* The phi of a conditional is the last version in its rules.
LEMMA CapTrail ==
  ASSUME IInv, EndsReached, CapConditional, NEW v \in Vars, Used(v)
  PROVE  trail'[v].end = AdvanceSSA(ssa[v])
<1> DEFINE c     == Head(agenda)
           fork  == CondFork(c.true)
           used  == ForkVars(fork)
           phi   == AdvanceSSA(ssa[v])
           start == GetStartState(phis[v])
           m     == GetSSA(ssa[v])
           last  == IF Len(fork[v]) = 1 THEN start ELSE phi
           joined == JoinTrails(c.outer[v], JoinTrails(c.true[v], trail[v]))
<1>1. agenda \in Seq(Items) /\ agenda # <<>> /\ c.do = "capCond" /\ trail \in Trails
      /\ ssa \in [Vars -> Nat \cup {Absent}]
  BY DEF IInv, TypeOK, CapConditional, At
<1>2. c \in Items /\ c = agenda[1] /\ 1 \in DOMAIN agenda
  BY <1>1
<1>3. c.outer \in Trails /\ c.true \in Trails
  BY <1>1, <1>2, ItemFields
<1>4. c.outer[v].end <= m /\ c.true[v].end <= m /\ trail[v].end <= m
  BY <1>1, <1>2 DEF EndsReached, Kept, Reached
<1>5. c.outer[v].end \in Nat /\ c.true[v].end \in Nat /\ trail[v].end \in Nat
  BY <1>1, <1>3 DEF Trails
<1>6. start \in 0..m
  BY ReadReached
<1>7. m \in Nat /\ phi \in Nat /\ m <= phi
  BY <1>1, Numbers
<1>8. trail' = [w \in Vars |-> IF w \in used
            THEN AddChoiceValue(
                   AddChoiceValue(JoinTrails(c.outer[w], JoinTrails(c.true[w], trail[w])),
                                  AdvanceSSA(ssa[w])),
                   IF Len(fork[w]) = 1 THEN GetStartState(phis[w]) ELSE AdvanceSSA(ssa[w]))
            ELSE c.outer[w]]
  BY DEF CapConditional
<1>9. v \in used
  <2>1. fork[v] = Choice(c.true[v], "true") \o Choice(trail[v], "false")
    BY DEF CondFork
  <2>2. \A t, b : Choice(t, b) = <<>> \/ \E x : Choice(t, b) = <<x>>
    BY DEF Choice
  <2>3. \A t, b : Choice(t, b) = <<>> <=> t.vals = {}
    BY DEF Choice
  <2>4. \A x, y : <<x>> \o <<>> # <<>> /\ <<>> \o <<x>> # <<>> /\ <<x>> \o <<y>> # <<>>
    OBVIOUS
  <2>5. fork[v] # <<>>
    BY <2>1, <2>2, <2>3, <2>4 DEF Used, Said
  <2> HIDE DEF fork
  <2> QED BY <2>5 DEF ForkVars
<1>10. trail'[v] = AddChoiceValue(AddChoiceValue(joined, phi), last)
  <2> HIDE DEF used, fork
  <2> QED BY <1>8, <1>9
<1>11. joined.end = Larger(c.outer[v].end, Larger(c.true[v].end, trail[v].end))
  BY DEF JoinTrails
<1>12. joined.end \in Nat /\ joined.end <= m
  <2> HIDE DEF joined
  <2> QED BY <1>4, <1>5, <1>11 DEF Larger
<1>13. last \in Nat /\ last <= phi
  BY <1>6, <1>7
<1> HIDE DEF joined, last, phi, m
<1>14. trail'[v].end = Larger(Larger(joined.end, phi), last)
  BY <1>10 DEF AddChoiceValue
<1>15. Larger(joined.end, phi) = phi
  BY <1>7, <1>12 DEF Larger
<1>16. Larger(phi, last) = phi
  BY <1>7, <1>13 DEF Larger
<1> QED BY <1>14, <1>15, <1>16 DEF phi

\* The list under construction.
LEMMA TrailLatest ==
  ASSUME IInv, GlobalsFirst, runStart = FALSE, NoRuns, Head(agenda).do # "copy", EndsReached,
         LatestEnds, Step, NEW v \in Vars
  PROVE  Latest(ssa', trail', v)
<1>1. agenda # <<>> /\ agenda \in Seq(Items) /\ cur \in Versions /\ trail \in Trails
      /\ ssa \in [Vars -> Nat \cup {Absent}]
  BY StepMakes DEF IInv, TypeOK
<1>2. CASE Stores
  <2>1. PICK w \in Vars, base \in [Vars -> Nat \cup {Absent}], ts \in Trails : Assigned(w, base, ts)
    BY <1>2, StoresAssign
  <2>2. PICK num : Assign(w, base, num, ts)
    BY <2>1 DEF Assigned
  <2>3. Reached(ssa, ts) /\ Latest(ssa, ts, v) /\ GetSSA(base[v]) = GetSSA(ssa[v])
        /\ GetSSA(base[w]) = GetSSA(ssa[w])
    BY <2>1 DEF Assigned, EndsReached, LatestEnds
  <2>4. ssa'[w] = AdvanceSSA(base[w]) /\ GetSSA(ssa'[w]) = ssa'[w]
        /\ \A u \in Vars : u # w => ssa'[u] = base[u]
    BY <1>1, <2>2, Stored
  <2>5. trail' = Mention(ts, w, AdvanceSSA(base[w])) /\ w # Lit
    BY <2>2, ConstantsAssumption DEF Assign
  <2>6. PICK id \in Nat : id = AdvanceSSA(base[w]) /\ GetSSA(base[w]) <= id /\ GetSSA(base[w]) \in Nat
    BY Numbers
  <2>7. trail' = [ts EXCEPT ![w] = AddChoiceValue(ts[w], id)]
    BY <2>5, <2>6 DEF Mention
  <2>8. CASE v = w
    <3>1. ts[w].end \in Nat /\ ts[w].end <= id
      BY <2>3, <2>6 DEF Trails, Reached
    <3>2. Larger(ts[w].end, id) = id
      BY <3>1 DEF Larger
    <3>3. trail'[w].end = id
      BY <2>7, <3>2 DEF Trails, AddChoiceValue
    <3> QED BY <2>4, <2>6, <2>8, <3>3 DEF Latest
  <2>9. CASE v # w
    <3>1. trail'[v] = ts[v]
      BY <2>7, <2>9 DEF Trails
    <3> QED BY <2>3, <2>4, <2>9, <3>1 DEF Latest, Said
  <2> QED BY <2>8, <2>9
<1>3. CASE Idles
  <2>1. trail' = trail /\ GetSSA(ssa'[v]) = GetSSA(ssa[v])
    BY <1>3, IdleSteps
  <2> QED BY <2>1 DEF LatestEnds, Latest
<1>4. CASE (ParseTerm /\ code.term[Head(agenda).b].do = "cond") \/ ParseElse
  <2>1. trail' = NoTrails
    BY <1>4 DEF ParseTerm, ParseElse
  <2> QED BY <2>1 DEF Latest, Said, NoTrails, NoTrail
<1>5. CASE CapConditional
  <2>0. At("capCond")
    BY <1>5 DEF CapConditional
  <2>1. Head(agenda) = agenda[1] /\ 1 \in DOMAIN agenda /\ agenda[1].do = "capCond"
    BY <1>1, <2>0 DEF At
  <2>2. CASE Used(v)
    <3>1. trail'[v].end = AdvanceSSA(ssa[v]) /\ ssa'[v] = AdvanceSSA(ssa[v])
      BY <1>5, <2>2, CapTrail, CapActs
    <3>2. GetSSA(AdvanceSSA(ssa[v])) = AdvanceSSA(ssa[v])
      BY <1>1, Numbers
    <3> QED BY <3>1, <3>2 DEF Latest
  <2>3. CASE ~Used(v)
    <3>1. ssa'[v] = ssa[v] /\ trail'[v] = agenda[1].outer[v]
      BY <1>5, <2>1, <2>3, CapActs
    <3>2. Latest(ssa, agenda[1].outer, v)
      <4>1. FrameLatest(ssa, trail, agenda, 1)
        BY <2>1 DEF LatestEnds
      <4> QED BY <2>1, <2>3, <4>1, FrameFirst DEF Used, Frames
    <3> QED BY <3>1, <3>2 DEF Latest, Said
  <2> QED BY <2>2, <2>3
<1> QED BY <1>1, <1>2, <1>3, <1>4, <1>5, QuietSteps

\* Every list.
LEMMA StepLatest ==
  ASSUME IInv, GlobalsFirst, runStart = FALSE, NoRuns, Head(agenda).do # "copy", EndsReached,
         LatestEnds, Step
  PROVE  LatestEnds'
<1>1. agenda # <<>> /\ agenda \in Seq(Items) /\ Head(agenda) = agenda[1] /\ 1 \in DOMAIN agenda
  BY StepMakes DEF IInv, TypeOK
<1>2. \A v \in Vars : Latest(ssa', trail', v)
  BY TrailLatest
<1>3. CASE agenda' = <<>>
  BY <1>2, <1>3 DEF LatestEnds
<1>4. CASE agenda' # <<>>
  <2>1. PICK s \in Seq(Made), n, l \in Nat :
          /\ Spliced(agenda, agenda', s, n, l)
          /\ \A v \in Vars : Said(trail, v) \/ Holds(Head(agenda), v) => Later(trail', agenda', n + 1, v)
    BY <1>4, SaidStill
  <2>2. \A v \in Vars : GetSSA(ssa'[v]) = GetSSA(ssa[v]) \/ Said(trail', v)
    BY NumberSaid
  <2>3. ASSUME NEW v \in Vars, NEW ts, NEW i, Latest(ssa, ts, v)
        PROVE  Latest(ssa', ts, v) \/ Later(trail', agenda', i, v)
    BY <2>2, <2>3 DEF Latest, Later
  <2>4. ASSUME NEW i \in DOMAIN agenda' PROVE FrameLatest(ssa', trail', agenda', i)
    <3>1. CASE agenda'[i] \in Made
      <4>1. PICK h \in Made : h = agenda'[i]
        BY <3>1
      <4>2. CASE h.do = "else"
        <5>1. h.outer = trail
          BY <4>2 DEF Made
        <5>2. \A v \in Vars : Latest(ssa, h.outer, v)
          BY <5>1 DEF LatestEnds
        <5> QED BY <2>3, <4>1, <4>2, <5>2 DEF FrameLatest
      <4>3. CASE h.do = "capCond"
        <5>1. Head(agenda).do = "else" /\ h.outer = Head(agenda).outer /\ h.true = trail
          BY <4>3 DEF Made
        <5>2. \A v \in Vars : Latest(ssa, h.true, v)
          BY <5>1 DEF LatestEnds
        <5>3. \A v \in Vars : Latest(ssa, h.outer, v) \/ Said(h.true, v)
          <6>1. FrameLatest(ssa, trail, agenda, 1) /\ agenda[1].do = "else"
            BY <1>1, <5>1 DEF LatestEnds
          <6> QED BY <1>1, <5>1, <6>1, FrameFirst DEF Frames
        <5> QED BY <2>3, <4>1, <4>3, <5>2, <5>3 DEF FrameLatest
      <4> QED BY <4>1, <4>2, <4>3 DEF FrameLatest, Frames
    <3>2. ASSUME NEW k \in 2..l, i = k - 1 + n, agenda'[i] = agenda[k], k \in DOMAIN agenda
          PROVE  FrameLatest(ssa', trail', agenda', i)
      <4>1. FrameLatest(ssa, trail, agenda, k)
        BY <3>2 DEF LatestEnds
      <4>2. ASSUME NEW v \in Vars, Later(trail, agenda, k, v) PROVE Later(trail', agenda', i, v)
        <5>1. Said(trail, v) \/ Holds(agenda[1], v) => Later(trail', agenda', n + 1, v)
          BY <1>1, <2>1
        <5>2. Later(trail', agenda', k - 1 + n, v)
          BY <2>1, <4>2, <5>1, LaterShift
        <5> QED BY <3>2, <5>2
      <4> QED BY <2>3, <3>2, <4>1, <4>2 DEF FrameLatest
    <3>3. agenda'[i] \in Made \/ \E k \in 2..l : i = k - 1 + n /\ agenda'[i] = agenda[k] /\ k \in DOMAIN agenda
      BY <2>1, SplicedAt
    <3> QED BY <3>1, <3>2, <3>3
  <2> QED BY <1>2, <2>4 DEF LatestEnds
<1> QED BY <1>3, <1>4

\* The ends of the choices of a fork.
ForkEnds(cs) == {cs[i].end : i \in DOMAIN cs}
BothEnds(t, u) == Choice(t, "true") \o Choice(u, "false")
LEMMA EndsOfFork ==
  ASSUME NEW t, NEW u
  PROVE  \A e : e \in ForkEnds(BothEnds(t, u)) <=> (t.vals # {} /\ e = t.end) \/ (u.vals # {} /\ e = u.end)
<1> DEFINE x == [branch |-> "true", vals |-> t.vals, end |-> t.end]
           y == [branch |-> "false", vals |-> u.vals, end |-> u.end]
<1>0. PICK cs : cs = BothEnds(t, u) /\ cs = Choice(t, "true") \o Choice(u, "false")
  BY DEF BothEnds
<1>1. Choice(t, "true") = (IF t.vals = {} THEN <<>> ELSE <<x>>) /\ Choice(u, "false") = (IF u.vals = {} THEN <<>> ELSE <<y>>)
      /\ x.end = t.end /\ y.end = u.end
  BY DEF Choice
<1> HIDE DEF x, y
<1>2. CASE t.vals = {} /\ u.vals = {}
  <2>1. cs = <<>>
    BY <1>0, <1>1, <1>2
  <2>2. DOMAIN cs = {}
    BY <2>1
  <2> QED BY <1>0, <1>2, <2>2 DEF ForkEnds
<1>3. CASE t.vals # {} /\ u.vals = {}
  <2>1. cs = <<x>>
    <3>1. \A p : <<p>> \o <<>> = <<p>>
      OBVIOUS
    <3> QED BY <1>0, <1>1, <1>3, <3>1
  <2>2. DOMAIN cs = {1} /\ cs[1] = x
    BY <2>1
  <2> QED BY <1>0, <1>1, <1>3, <2>2 DEF ForkEnds
<1>4. CASE t.vals = {} /\ u.vals # {}
  <2>1. cs = <<y>>
    <3>1. \A p : <<>> \o <<p>> = <<p>>
      OBVIOUS
    <3> QED BY <1>0, <1>1, <1>4, <3>1
  <2>2. DOMAIN cs = {1} /\ cs[1] = y
    BY <2>1
  <2> QED BY <1>0, <1>1, <1>4, <2>2 DEF ForkEnds
<1>5. CASE t.vals # {} /\ u.vals # {}
  <2>1. PICK p, q : p = <<x>> /\ q = <<y>> /\ cs = p \o q
    BY <1>0, <1>1, <1>5
  <2>2. p \in Seq({x, y}) /\ q \in Seq({x, y}) /\ Len(p) = 1 /\ Len(q) = 1 /\ p[1] = x /\ q[1] = y
    BY <2>1
  <2>3. DOMAIN cs = {1, 2} /\ cs[1] = x /\ cs[2] = y
    <3>1. cs \in Seq({x, y}) /\ Len(cs) = 2
      BY <2>1, <2>2
    <3>2. cs[1] = p[1] /\ cs[2] = q[1]
      BY <2>1, <2>2
    <3> QED BY <2>2, <3>1, <3>2
  <2> QED BY <1>0, <1>1, <1>5, <2>3 DEF ForkEnds
<1> QED BY <1>2, <1>3, <1>4, <1>5

\* newFork makes its fork the last one.
LEMMA NewForkLast ==
  ASSUME NEW fs \in Seq(ForkType), NEW l, NEW fork \in ForkType
  PROVE  Last(NewFork(fs, l, fork)) = fork
<1>1. \A q \in Seq(ForkType) : Last(Append(q, fork)) = fork
  BY DEF Last
<1>2. fs # <<>> => Front(fs) \in Seq(ForkType)
  BY DEF Front
<1> QED BY <1>1, <1>2 DEF NewFork

\* The end of a conditional.
LEMMA CapAbove ==
  ASSUME IInv, Started, EndsReached, LatestEnds, CapConditional
  PROVE  PhiAboveEnds'
<1> DEFINE c     == Head(agenda)
           fork  == CondFork(c.true)
           used  == ForkVars(fork)
<1>0. At("capCond")
  BY DEF CapConditional
<1>1. agenda \in Seq(Items) /\ agenda # <<>> /\ c.do = "capCond" /\ trail \in Trails
      /\ ssa \in [Vars -> Nat \cup {Absent}] /\ c = agenda[1] /\ 1 \in DOMAIN agenda
  BY <1>0 DEF IInv, TypeOK, At
<1>2. c \in Items /\ c.true \in Trails
  BY <1>1, ItemFields
<1>3. used # {} => forks' = NewFork(forks, In(level), fork)
  BY DEF CapConditional
<1>4. used # {} => Last(forks') = fork
  <2>1. fork \in ForkType
    <3>2. \A v \in Vars : Choice(c.true[v], "true") \in Seq(ForkChoices)
                          /\ Choice(trail[v], "false") \in Seq(ForkChoices)
      BY <1>1, <1>2, ChoiceMade
    <3>3. \A v \in Vars : Choice(c.true[v], "true") \o Choice(trail[v], "false") \in Seq(ForkChoices)
      BY <3>2, ConcatProperties
    <3> QED BY <3>3 DEF CondFork, ForkType
  <2>2. forks \in Seq(ForkType)
    BY DEF IInv, TypeOK, ForkType
  <2> HIDE DEF fork
  <2> QED BY <1>3, <2>1, <2>2, NewForkLast
<1>5. ASSUME NEW m \in seen'.merges PROVE m.var \in used /\ m.phi = AdvanceSSA(ssa[m.var])
  <2>1. seen'.merges = {[var |-> v, phi |-> [w \in Vars |-> AdvanceSSA(ssa[w])][v],
                         ends |-> {CondEnd(v, c.true)}, want |-> {c.end[v]}] : v \in used}
                 \cup {[var |-> v, phi |-> [w \in Vars |-> AdvanceSSA(ssa[w])][v],
                         ends |-> {CondEnd(v, trail)}, want |-> {cur[v]}] : v \in used}
    BY DEF CapConditional
  <2>2. used \subseteq Vars
    BY DEF ForkVars
  <2> HIDE DEF used
  <2>3. PICK v \in used : m.var = v /\ m.phi = [w \in Vars |-> AdvanceSSA(ssa[w])][v]
    BY <1>5, <2>1
  <2> QED BY <2>2, <2>3
<1>6. ASSUME NEW v \in used
      PROVE  AdvanceSSA(ssa[v]) = 1 + Max({fork[v][i].end : i \in DOMAIN fork[v]})
  <2> DEFINE E == {fork[v][i].end : i \in DOMAIN fork[v]}
  <2>1. v \in Vars /\ fork[v] # <<>> /\ fork[v] = Choice(c.true[v], "true") \o Choice(trail[v], "false")
    BY <1>6 DEF ForkVars, CondFork
  <2>2. \A e : e \in E <=> (Said(c.true, v) /\ e = c.true[v].end) \/ (Said(trail, v) /\ e = trail[v].end)
    <3>1. PICK f, x, y : f = fork[v] /\ x = c.true[v] /\ y = trail[v]
      OBVIOUS
    <3>2. f = BothEnds(x, y)
      BY <2>1, <3>1 DEF BothEnds
    <3>3. \A e : e \in ForkEnds(f) <=> (x.vals # {} /\ e = x.end) \/ (y.vals # {} /\ e = y.end)
      BY <3>2, EndsOfFork
    <3>4. E = ForkEnds(f)
      BY <3>1 DEF ForkEnds
    <3> HIDE DEF E
    <3> QED BY <3>1, <3>3, <3>4 DEF Said
  <2>3. c.true[v].vals # {} \/ trail[v].vals # {}
    <3>1. \A t, b : t.vals = {} => Choice(t, b) = <<>>
      BY DEF Choice
    <3>2. <<>> \o <<>> = <<>>
      OBVIOUS
    <3> HIDE DEF fork
    <3> QED BY <2>1, <3>1, <3>2
  <2>4. PICK k \in Nat : k = ssa[v] /\ GetSSA(ssa[v]) = k /\ AdvanceSSA(ssa[v]) = 1 + k
    <3>1. Known(v)
      BY <1>1, <2>1, AllKnown DEF Early
    <3>2. ssa[v] \in Nat
      BY <1>1, <2>1, <3>1 DEF Known
    <3>3. GetSSA(ssa[v]) = ssa[v] /\ AdvanceSSA(ssa[v]) = 1 + ssa[v]
      BY <3>2 DEF GetSSA, AdvanceSSA, Absent
    <3> QED BY <3>2, <3>3
  <2>5. /\ c.true[v].end \in Nat /\ trail[v].end \in Nat
        /\ c.true[v].end <= k /\ trail[v].end <= k
    BY <1>1, <1>2, <2>1, <2>4 DEF Trails, EndsReached, Kept, Reached
  <2>6. trail[v].vals # {} => trail[v].end = k
    BY <2>1, <2>4 DEF LatestEnds, Latest, Said
  <2>7. trail[v].vals = {} => c.true[v].end = k
    <3>1. FrameLatest(ssa, trail, agenda, 1)
      BY <1>1 DEF LatestEnds
    <3>2. Latest(ssa, c.true, v) \/ Said(trail, v)
      BY <1>1, <2>1, <3>1, FrameFirst DEF Frames
    <3> QED BY <2>3, <2>4, <3>2 DEF Latest, Said
  <2> HIDE DEF E
  <2>8. k \in E /\ \A y \in E : y \in Nat /\ y <= k
    BY <2>2, <2>3, <2>5, <2>6, <2>7 DEF Said
  <2>9. Max(E) = k
    <3>1. \A y \in E : k >= y
      BY <2>8
    <3>2. \E x \in E : \A y \in E : x >= y
      BY <2>8, <3>1
    <3>3. Max(E) \in E /\ \A y \in E : Max(E) >= y
      BY <3>2 DEF Max
    <3>4. Max(E) \in Nat /\ Max(E) <= k /\ Max(E) >= k
      BY <2>8, <3>3
    <3> QED BY <3>4
  <2> QED BY <2>4, <2>9 DEF E
<1> HIDE DEF fork, used
<1>7. ASSUME NEW m \in seen'.merges
      PROVE  m.phi = 1 + Max({Last(forks')[m.var][i].end : i \in DOMAIN Last(forks')[m.var]})
  <2>1. m.var \in used /\ m.phi = AdvanceSSA(ssa[m.var])
    BY <1>5
  <2>2. Last(forks') = fork
    BY <1>4, <2>1
  <2>3. AdvanceSSA(ssa[m.var]) = 1 + Max({fork[m.var][i].end : i \in DOMAIN fork[m.var]})
    BY <1>6, <2>1
  <2> QED BY <2>1, <2>2, <2>3
<1> QED BY <1>7 DEF PhiAboveEnds

\* Every step.
LEMMA StepAbove ==
  ASSUME IInv, Started, EndsReached, LatestEnds, NoRuns, Step
  PROVE  PhiAboveEnds'
<1>1. agenda \in Seq(Items) /\ agenda # <<>> /\ Head(agenda) = agenda[1] /\ 1 \in DOMAIN agenda
  BY StepMakes DEF IInv, TypeOK
<1>2. CASE seen'.merges = {}
  BY <1>2 DEF PhiAboveEnds
<1>3. CASE CapConditional
  BY <1>3, CapAbove
<1>4. ~CapRunParallel
  BY <1>1 DEF CapRunParallel, At, NoRuns, FromRun
<1>5. CASE StoreInfix \/ StoreCopy \/ ParseCmp
  <2>1. seen'.merges = {}
    BY <1>5 DEF StoreInfix, StoreCopy, ParseCmp
  <2> QED BY <1>2, <2>1
<1>6. CASE \/ ParseFunction \/ ParseBlock \/ ParseTerm \/ ParseElse \/ EndFalse
           \/ StoreConst \/ ParseBuiltIn \/ ConstantRule \/ StoreRound
           \/ ParseCall \/ EndParseCall \/ ExecuteCallstack \/ RunOption \/ RunCall
           \/ EndRunCall \/ EndRunOption
  <2>1. Quiet
    BY <1>6 DEF ParseFunction, ParseBlock, ParseTerm, ParseElse, EndFalse, StoreConst,
           ParseBuiltIn, ConstantRule, StoreRound, ParseCall, EndParseCall, ExecuteCallstack,
           RunOption, RunCall, EndRunCall, EndRunOption
  <2>2. seen'.merges = {}
    BY <2>1 DEF Quiet
  <2> QED BY <1>2, <2>2
<1> QED BY <1>3, <1>4, <1>5, <1>6 DEF Step

AInv == Sequential(code) /\ QInv({}) /\ LatestEnds /\ PhiAboveEnds

LEMMA InitAbove == Init /\ Sequential(code) => AInv
<1> SUFFICES ASSUME Init, Sequential(code) PROVE AInv
  OBVIOUS
<1>1. \A i \in DOMAIN agenda : agenda[i].do \in {"global", "function"}
  BY InitAgenda
<1>2. \A v \in Vars : ~Said(trail, v)
  BY DEF Init, Said, NoTrails, NoTrail
<1>3. LatestEnds
  BY <1>1, <1>2 DEF LatestEnds, FrameLatest, Frames, Latest
<1>4. PhiAboveEnds
  BY DEF Init, PhiAboveEnds
<1> QED BY <1>3, <1>4, InitQuiet DEF AInv

LEMMA NextAbove == IInv /\ EInv /\ AInv /\ [Next]_vars => AInv'
<1> SUFFICES ASSUME IInv, EInv, AInv, [Next]_vars PROVE AInv'
  OBVIOUS
<1>1. CASE Step
  <2>1. agenda # <<>> /\ Head(agenda).do # "copy" /\ code' = code
    BY <1>1, HeadNoCopy, StepMakes, CodeKept
  <2>2. Sequential(code)'
    BY <2>1 DEF AInv
  <2>3. {} \subseteq Reading /\ \A b \in Blocks : Apart(code.insts[b], {})
    BY DEF AInv, Sequential
  <2>4. QInv({})'
    BY <1>1, <2>3, StepQuiet DEF AInv
  <2>5. GlobalsFirst /\ runStart = FALSE /\ NoRuns /\ EndsReached /\ Started
    BY DEF EInv, RInv, AInv, QInv
  <2>6. LatestEnds'
    BY <1>1, <2>1, <2>5, StepLatest DEF AInv
  <2>7. PhiAboveEnds'
    BY <1>1, <2>5, StepAbove DEF AInv
  <2> QED BY <2>2, <2>4, <2>6, <2>7 DEF AInv
<1>2. CASE UNCHANGED vars
  <2>1. UNCHANGED <<code, agenda, ssa, trail, forks, seen, callstack, runStart, grouping>>
    BY <1>2 DEF vars, genVars, ctlVars, ruleVars, histVars
  <2>2. Sequential(code)' /\ PhiAboveEnds'
    BY <2>1 DEF AInv, PhiAboveEnds
  <2>3. QInv({})'
    BY <2>1 DEF AInv, QInv, OneCall, NoRuns, CallsApart, Alone
  <2>4. LatestEnds'
    BY <2>1 DEF AInv, LatestEnds
  <2> QED BY <2>2, <2>3, <2>4 DEF AInv
<1> QED BY <1>1, <1>2 DEF Next, Finished

\* The phi of a conditional is one above the highest end of its fork, where
\* LoadMeta looks for it (capCond, newFork), in models without parallel steps,
\* however conditionals and elses are nested.
THEOREM PhisAbove ==
  Spec /\ Initialised(code) /\ NoCopies(code) /\ Sequential(code) => []PhiAboveEnds
<1>1. Init /\ Initialised(code) /\ NoCopies(code) /\ Sequential(code)
        => IInv /\ EInv /\ ReadsDeclared /\ AInv
  BY InitInv, InitEnds, InitAbove
<1>2. IInv /\ EInv /\ ReadsDeclared /\ AInv /\ [Next]_vars => (IInv /\ EInv /\ ReadsDeclared /\ AInv)'
  BY NextInv, NextEnds, NextAbove
<1>3. AInv => PhiAboveEnds
  BY DEF AInv
<1> QED BY <1>1, <1>2, <1>3, PTL DEF Spec

-----------------------------------------------------------------------------
(***************************************************************************)
(* The conditionals that are open: f lists the entries of agenda a that    *)
(* end one, k of them, from the outermost to the innermost.                *)
(***************************************************************************)
Stacked(a, k, f) ==
  /\ k \in Nat /\ f \in [1..k -> DOMAIN a]
  /\ \A c \in 1..k : a[f[c]].do \in Frames
  /\ \A c, d \in 1..k : c < d => f[d] < f[c]
  /\ \A i \in DOMAIN a : a[i].do \in Frames => \E c \in 1..k : f[c] = i

\* The same for the l entries of a but the first.
Beneath(a, l, k, f) ==
  /\ k \in Nat /\ f \in [1..k -> 2..l]
  /\ \A c \in 1..k : a[f[c]].do \in Frames
  /\ \A c, d \in 1..k : c < d => f[d] < f[c]
  /\ \A i \in 2..l : a[i].do \in Frames => \E c \in 1..k : f[c] = i

\* The first entry ends the innermost conditional or none.
LEMMA BeneathOther ==
  ASSUME NEW a, NEW k, NEW f, Stacked(a, k, f), NEW l \in Nat, DOMAIN a = 1..l, a[1].do \notin Frames
  PROVE  Beneath(a, l, k, f)
<1>1. k \in Nat /\ f \in [1..k -> 1..l]
  BY DEF Stacked
<1>2. \A c \in 1..k : f[c] \in 1..l /\ f[c] # 1
  BY <1>1 DEF Stacked
<1>3. \A i \in 1..l : i # 1 => i \in 2..l
  OBVIOUS
<1>4. \A c \in 1..k : f[c] \in 2..l
  BY <1>2, <1>3
<1>5. f \in [1..k -> 2..l]
  BY <1>1, <1>4
<1>6. \A i \in 2..l : i \in 1..l
  OBVIOUS
<1> QED BY <1>1, <1>5, <1>6 DEF Stacked, Beneath

LEMMA BeneathFrame ==
  ASSUME NEW a, NEW k, NEW f, Stacked(a, k, f), NEW l \in Nat \ {0}, DOMAIN a = 1..l, a[1].do \in Frames
  PROVE  /\ k \in Nat \ {0} /\ f[k] = 1
         /\ Beneath(a, l, k - 1, [c \in 1..(k - 1) |-> f[c]])
<1>1. k \in Nat /\ f \in [1..k -> 1..l] /\ \A c, d \in 1..k : c < d => f[d] < f[c]
  BY DEF Stacked
<1>2. 1 \in DOMAIN a
  OBVIOUS
<1>3. PICK e \in 1..k : f[e] = 1
  BY <1>2 DEF Stacked
<1>4. k # 0 /\ k \in 1..k
  BY <1>1, <1>3
<1>5. e = k
  <2> SUFFICES ASSUME e # k PROVE FALSE
    OBVIOUS
  <2>1. e < k
    BY <1>1, <1>3
  <2>2. f[k] < 1 /\ f[k] \in 1..l
    BY <1>1, <1>3, <1>4, <2>1
  <2> QED BY <2>2
<1> DEFINE g == [c \in 1..(k - 1) |-> f[c]]
<1>6. \A c \in 1..(k - 1) : c \in 1..k /\ c < k /\ g[c] = f[c]
  BY <1>1
<1>7. \A c \in 1..(k - 1) : f[c] \in 2..l
  <2> SUFFICES ASSUME NEW c \in 1..(k - 1) PROVE f[c] \in 2..l
    OBVIOUS
  <2>1. f[c] \in 1..l /\ f[k] < f[c] /\ f[k] = 1
    BY <1>1, <1>3, <1>4, <1>5, <1>6
  <2> QED BY <2>1
<1>8. g \in [1..(k - 1) -> 2..l]
  BY <1>7
<1>9. k - 1 \in Nat
  BY <1>1, <1>4
<1>10. ASSUME NEW i \in 2..l, a[i].do \in Frames PROVE \E c \in 1..(k - 1) : g[c] = i
  <2>1. i \in DOMAIN a /\ i # 1
    OBVIOUS
  <2>2. PICK c \in 1..k : f[c] = i
    BY <1>10, <2>1 DEF Stacked
  <2>3. c # k
    BY <1>3, <1>5, <2>1, <2>2
  <2>4. c \in 1..(k - 1)
    BY <1>1, <2>2, <2>3
  <2> QED BY <1>6, <2>2, <2>4
<1>11. \A c \in 1..(k - 1) : a[g[c]].do \in Frames
  BY <1>6 DEF Stacked
<1>12. \A c, d \in 1..(k - 1) : c < d => g[d] < g[c]
  BY <1>1, <1>6
<1> HIDE DEF g
<1>13. Beneath(a, l, k - 1, g)
  BY <1>8, <1>9, <1>10, <1>11, <1>12 DEF Beneath
<1> QED BY <1>1, <1>3, <1>4, <1>5, <1>13 DEF g

\* A step that opens no conditional.
LEMMA StackedKept ==
  ASSUME NEW a, NEW b, NEW s, NEW n, NEW l, Spliced(a, b, s, n, l), NEW k, NEW f, Beneath(a, l, k, f),
         \A i \in DOMAIN s : s[i].do \notin Frames
  PROVE  \E g : Stacked(b, k, g) /\ \A c \in 1..k : b[g[c]] = a[f[c]]
<1> DEFINE g == [c \in 1..k |-> f[c] - 1 + n]
<1>1. n \in Nat /\ l \in Nat /\ k \in Nat /\ f \in [1..k -> 2..l] /\ DOMAIN b = 1..(n + l - 1)
  BY DEF Spliced, Beneath
<1>2. \A i \in 2..l : i - 1 + n \in 1..(n + l - 1) /\ i \in Int
  BY <1>1
<1>3. \A c \in 1..k : f[c] \in 2..l /\ g[c] = f[c] - 1 + n
  BY <1>1
<1>4. g \in [1..k -> DOMAIN b]
  BY <1>1, <1>2, <1>3
<1>5. \A c \in 1..k : b[g[c]] = a[f[c]]
  BY <1>3 DEF Spliced
<1>6. \A c \in 1..k : b[g[c]].do \in Frames
  BY <1>5 DEF Beneath
<1>7. ASSUME NEW c \in 1..k, NEW d \in 1..k, c < d PROVE g[d] < g[c]
  <2>1. f[d] < f[c] /\ f[c] \in Int /\ f[d] \in Int
    BY <1>2, <1>3, <1>7 DEF Beneath
  <2> QED BY <1>1, <1>3, <2>1
<1>8. ASSUME NEW i \in DOMAIN b, b[i].do \in Frames PROVE \E c \in 1..k : g[c] = i
  <2>1. \E e \in 2..l : i = e - 1 + n /\ b[i] = a[e]
    BY <1>8, SplicedAt
  <2>2. PICK e \in 2..l : i = e - 1 + n /\ b[i] = a[e]
    BY <2>1
  <2>3. PICK c \in 1..k : f[c] = e
    BY <1>8, <2>2 DEF Beneath
  <2> QED BY <1>3, <2>2, <2>3
<1> HIDE DEF g
<1>9. Stacked(b, k, g)
  BY <1>1, <1>4, <1>6, <1>7, <1>8 DEF Stacked
<1> QED BY <1>5, <1>9

\* A step that opens one, or ends its first branch.
LEMMA StackedPushed ==
  ASSUME NEW a, NEW b, NEW s, NEW n, NEW l, Spliced(a, b, s, n, l), NEW k, NEW f, Beneath(a, l, k, f),
         NEW j \in DOMAIN s, \A i \in DOMAIN s : s[i].do \in Frames <=> i = j
  PROVE  \E g : /\ Stacked(b, k + 1, g) /\ b[g[k + 1]] = s[j]
                /\ \A c \in 1..k : b[g[c]] = a[f[c]]
<1> DEFINE g == [c \in 1..(k + 1) |-> IF c = k + 1 THEN j ELSE f[c] - 1 + n]
<1>1. /\ n \in Nat /\ l \in Nat \ {0} /\ k \in Nat /\ f \in [1..k -> 2..l]
      /\ DOMAIN b = 1..(n + l - 1) /\ DOMAIN s = 1..n
  BY DEF Spliced, Beneath
<1>2. \A i \in 2..l : i - 1 + n \in 1..(n + l - 1) /\ i \in Int /\ n < i - 1 + n
  BY <1>1
<1>3. /\ k + 1 \in 1..(k + 1) /\ g[k + 1] = j /\ j \in 1..n /\ j \in 1..(n + l - 1)
      /\ \A c \in 1..(k + 1) : c # k + 1 => c \in 1..k
      /\ \A c \in 1..k : c \in 1..(k + 1) /\ c # k + 1
  BY <1>1
<1>4. \A c \in 1..k : f[c] \in 2..l /\ g[c] = f[c] - 1 + n
  BY <1>1, <1>3
<1>5. g \in [1..(k + 1) -> DOMAIN b]
  <2>1. \A c \in 1..(k + 1) : g[c] \in DOMAIN b
    BY <1>1, <1>2, <1>3, <1>4
  <2> QED BY <2>1
<1>6. b[g[k + 1]] = s[j] /\ \A c \in 1..k : b[g[c]] = a[f[c]]
  BY <1>3, <1>4 DEF Spliced
<1> HIDE DEF g
<1>7. \A c \in 1..(k + 1) : b[g[c]].do \in Frames
  BY <1>3, <1>6 DEF Beneath
<1>8. ASSUME NEW c \in 1..(k + 1), NEW d \in 1..(k + 1), c < d PROVE g[d] < g[c]
  <2>1. c \in 1..k
    BY <1>1, <1>8
  <2>2. CASE d = k + 1
    <3>1. n < g[c] /\ g[c] \in Int /\ g[d] \in 1..n
      BY <1>2, <1>3, <1>4, <2>1, <2>2
    <3> QED BY <1>1, <3>1
  <2>3. CASE d # k + 1
    <3>1. d \in 1..k
      BY <1>3, <2>3
    <3>2. f[d] < f[c] /\ f[c] \in Int /\ f[d] \in Int
      BY <1>2, <1>4, <1>8, <2>1, <3>1 DEF Beneath
    <3> QED BY <1>1, <1>4, <2>1, <3>1, <3>2
  <2> QED BY <2>2, <2>3
<1>9. ASSUME NEW i \in DOMAIN b, b[i].do \in Frames PROVE \E c \in 1..(k + 1) : g[c] = i
  <2>1. CASE i \in DOMAIN s /\ b[i] = s[i]
    <3>1. i = j
      BY <1>9, <2>1
    <3> QED BY <1>3, <3>1
  <2>2. CASE \E e \in 2..l : i = e - 1 + n /\ b[i] = a[e]
    <3>1. PICK e \in 2..l : i = e - 1 + n /\ b[i] = a[e]
      BY <2>2
    <3>2. PICK c \in 1..k : f[c] = e
      BY <1>9, <3>1 DEF Beneath
    <3> QED BY <1>3, <1>4, <3>1, <3>2
  <2> QED BY <2>1, <2>2, SplicedAt
<1>10. Stacked(b, k + 1, g)
  BY <1>1, <1>5, <1>7, <1>8, <1>9 DEF Stacked
<1> QED BY <1>6, <1>10

\* What the steps that open, halve and end a conditional put on the agenda.
Opens == ParseTerm /\ code.term[Head(agenda).b].do = "cond"
Opened == Else(code.term[Head(agenda).b].f, trail, cur)
Halved == CapCond(Head(agenda).outer, trail, cur)

LEMMA Joining ==
  ASSUME NEW x, NEW y, NEW z, NEW u, NEW w
  PROVE  <<x, y, z>> \o <<u, w>> = <<x, y, z, u, w>>
<1> DEFINE S == {x, y, z, u, w}
           q == <<x, y, z>> \o <<u, w>>
           r == <<x, y, z, u, w>>
<1>1. <<x, y, z>> \in Seq(S) /\ <<u, w>> \in Seq(S)
  OBVIOUS
<1>2. q \in Seq(S) /\ Len(q) = 5
  BY <1>1
<1>3. r \in Seq(S) /\ Len(r) = 5
  OBVIOUS
<1>4. q[1] = r[1] /\ q[2] = r[2] /\ q[3] = r[3] /\ q[4] = r[4] /\ q[5] = r[5]
  OBVIOUS
<1> HIDE DEF q, r
<1>5. \A i \in 1..5 : q[i] = r[i]
  <2>1. \A i \in 1..5 : i = 1 \/ i = 2 \/ i = 3 \/ i = 4 \/ i = 5
    OBVIOUS
  <2> QED BY <1>4, <2>1
<1>6. q = r
  BY <1>2, <1>3, <1>5, SeqEqual
<1> QED BY <1>6 DEF q, r

LEMMA OpenMakes ==
  ASSUME IInv, Opens
  PROVE  /\ Opened \in Items
         /\ \E s \in Seq(Items) : /\ Do(s) /\ 3 \in DOMAIN s /\ s[3] = Opened
                                  /\ \A i \in DOMAIN s : s[i].do \in Frames <=> i = 3
<1> DEFINE term == code.term[Head(agenda).b]
           a == IF term.a = NoBlock THEN <<>> ELSE <<Block(term.a), Flush>>
<1>1. trail \in Trails /\ cur \in Versions /\ term \in Terms /\ term.do = "cond"
  BY HeadItem, ItemFields DEF IInv, TypeOK, Opens, ParseTerm, Modules, At
<1>2. term.t \in Blocks /\ term.f \in Blocks \cup {NoBlock} /\ term.a \in Blocks \cup {NoBlock}
  BY <1>1 DEF Terms
<1>3. Opened \in Items /\ Opened.do \in Frames
  <2>1. Opened \in Items
    BY <1>1, <1>2, ItemsMade DEF Opened
  <2> QED BY <2>1 DEF Opened, Else, Frames
<1>4. PICK x, y, z : x = Block(term.t) /\ y = Flush /\ z = Opened
  OBVIOUS
<1>5. x \in Items /\ y \in Items /\ z \in Items /\ x.do \notin Frames /\ y.do \notin Frames /\ z.do \in Frames
  BY <1>2, <1>3, <1>4, ItemsMade DEF Block, Flush, Frames
<1>6. Do(<<x, y, z>> \o a)
  BY <1>4 DEF Opens, ParseTerm, Opened
<1>7. CASE term.a = NoBlock
  <2>1. PICK s : s = <<x, y, z>>
    OBVIOUS
  <2>2. s \in Seq(Items) /\ DOMAIN s = {1, 2, 3} /\ s[1] = x /\ s[2] = y /\ s[3] = z
    BY <1>5, <2>1
  <2>3. <<x, y, z>> \o a = s
    <3>1. a = <<>>
      BY <1>7
    <3>2. <<x, y, z>> \o <<>> = <<x, y, z>>
      OBVIOUS
    <3> QED BY <2>1, <3>1, <3>2
  <2>4. Do(s)
    BY <1>6, <2>3
  <2>5. \A i \in DOMAIN s : s[i].do \in Frames <=> i = 3
    BY <1>5, <2>2
  <2> QED BY <1>3, <1>4, <2>2, <2>4, <2>5
<1>8. CASE term.a # NoBlock
  <2>1. PICK u : u = Block(term.a)
    OBVIOUS
  <2>2. u \in Items /\ u.do \notin Frames
    BY <1>2, <1>8, <2>1, ItemsMade DEF Block, Frames
  <2>3. PICK s : s = <<x, y, z, u, y>>
    OBVIOUS
  <2>4. /\ s \in Seq(Items) /\ DOMAIN s = {1, 2, 3, 4, 5}
        /\ s[1] = x /\ s[2] = y /\ s[3] = z /\ s[4] = u /\ s[5] = y
    BY <1>5, <2>2, <2>3
  <2>5. <<x, y, z>> \o a = s
    <3>1. a = <<u, y>>
      BY <1>4, <1>8, <2>1
    <3>2. <<x, y, z>> \o <<u, y>> = <<x, y, z, u, y>>
      BY Joining
    <3> QED BY <2>3, <3>1, <3>2
  <2>6. Do(s)
    BY <1>6, <2>5
  <2>7. \A i \in DOMAIN s : s[i].do \in Frames <=> i = 3
    BY <1>5, <2>2, <2>4
  <2> QED BY <1>3, <1>4, <2>4, <2>6, <2>7
<1> QED BY <1>7, <1>8

LEMMA ElsePuts ==
  ASSUME IInv, ParseElse
  PROVE  /\ Halved \in Items
         /\ \E s \in Seq(Items) : \E j \in DOMAIN s :
              /\ Do(s) /\ s[j] = Halved
              /\ \A i \in DOMAIN s : s[i].do \in Frames <=> i = j
<1>1. Head(agenda).do = "else" /\ Head(agenda).outer \in Trails /\ Head(agenda).b \in Blocks \cup {NoBlock}
  BY HeadItem, ItemFields DEF IInv, ParseElse, At
<1>2. trail \in Trails /\ cur \in Versions
  BY DEF IInv, TypeOK
<1>3. Halved \in Items
  BY <1>1, <1>2, ItemsMade DEF Halved
<1>4. Halved.do \in Frames
  BY DEF Halved, CapCond, Frames
<1>5. PICK z : z = Halved
  OBVIOUS
<1>6. Do(<<z>>) \/ (Head(agenda).b # NoBlock /\ Do(<<Block(Head(agenda).b), EndElse, z>>))
  BY <1>5 DEF ParseElse, Halved
<1>7. CASE Do(<<z>>)
  <2>1. PICK s : s = <<z>>
    OBVIOUS
  <2>2. s \in Seq(Items) /\ DOMAIN s = {1} /\ s[1] = z
    BY <1>3, <1>5, <2>1
  <2> QED BY <1>3, <1>4, <1>5, <1>7, <2>1, <2>2
<1>8. CASE Head(agenda).b # NoBlock /\ Do(<<Block(Head(agenda).b), EndElse, z>>)
  <2>1. PICK x, y : x = Block(Head(agenda).b) /\ y = EndElse
    OBVIOUS
  <2>2. x \in Items /\ y \in Items /\ x.do \notin Frames /\ y.do \notin Frames
    BY <1>1, <1>8, <2>1, ItemsMade DEF Block, EndElse, Frames
  <2>3. PICK s : s = <<x, y, z>>
    OBVIOUS
  <2>4. s \in Seq(Items) /\ DOMAIN s = {1, 2, 3} /\ s[1] = x /\ s[2] = y /\ s[3] = z
    BY <1>3, <1>5, <2>2, <2>3
  <2>5. \A i \in DOMAIN s : s[i].do \in Frames <=> i = 3
    BY <1>4, <1>5, <2>2, <2>4
  <2>6. 3 \in DOMAIN s /\ s[3] = Halved
    BY <1>5, <2>4
  <2>7. Do(s)
    BY <1>8, <2>1, <2>3
  <2> QED BY <1>3, <2>4, <2>5, <2>6, <2>7
<1> QED BY <1>6, <1>7, <1>8

\* The open conditionals after a step.
Moved(a, f, b, g, k) == \A c \in 1..k : b[g[c]] = a[f[c]]

LEMMA OtherStacked ==
  ASSUME IInv, Step, ~Opens, Head(agenda).do \notin Frames, NEW k, NEW f, Stacked(agenda, k, f)
  PROVE  \E g : Stacked(agenda', k, g) /\ Moved(agenda, f, agenda', g, k)
<1>1. agenda # <<>> /\ agenda \in Seq(Items) /\ Head(agenda) = agenda[1]
  BY StepMakes DEF IInv, TypeOK
<1>2. ~CapConditional
  BY DEF CapConditional, At, Frames
<1>3. PICK s \in Seq(Made) : Do(s)
  BY <1>2, StepMakes DEF Makes
<1>4. Made \subseteq Items
  BY DEF Made
<1>5. s \in Seq(Items)
  BY <1>4
<1>6. PICK n, l \in Nat : Spliced(agenda, agenda', s, n, l)
  BY <1>1, <1>3, <1>5, SplicedDo
<1>7. ASSUME NEW h \in Made PROVE h.do \notin Frames
  <2>1. h.do # "capCond"
    BY DEF Made, Frames
  <2>2. CASE h.do = "else"
    <3>1. Head(agenda).do = "term" /\ code.term[Head(agenda).b].do = "cond"
      BY <2>2 DEF Made, Origin
    <3>2. ParseTerm
      BY <3>1 DEF Step, ParseFunction, ParseBlock, ParseElse, EndFalse, CapConditional,
           StoreConst, StoreInfix, StoreCopy, ParseCmp, ParseBuiltIn, ConstantRule, StoreRound,
           ParseCall, EndParseCall, ExecuteCallstack, RunOption, RunCall, EndRunCall,
           EndRunOption, CapRunParallel, At
    <3> QED BY <3>1, <3>2 DEF Opens
  <2> QED BY <2>1, <2>2 DEF Frames
<1>8. \A i \in DOMAIN s : s[i].do \notin Frames
  BY <1>7
<1>9. Beneath(agenda, l, k, f)
  BY <1>1, <1>6, BeneathOther DEF Spliced
<1> QED BY <1>6, <1>8, <1>9, StackedKept DEF Moved

LEMMA OpenStacked ==
  ASSUME IInv, Opens, NEW k, NEW f, Stacked(agenda, k, f)
  PROVE  \E g : /\ Stacked(agenda', k + 1, g) /\ Moved(agenda, f, agenda', g, k)
                /\ agenda'[g[k + 1]] = Opened
<1>1. agenda # <<>> /\ agenda \in Seq(Items) /\ Head(agenda) = agenda[1] /\ agenda[1].do = "term"
  <2>1. At("term")
    BY DEF Opens, ParseTerm
  <2> QED BY <2>1 DEF IInv, TypeOK, At
<1>2. PICK s \in Seq(Items) : /\ Do(s) /\ 3 \in DOMAIN s /\ s[3] = Opened
                              /\ \A i \in DOMAIN s : s[i].do \in Frames <=> i = 3
  BY OpenMakes
<1>3. PICK n, l \in Nat : Spliced(agenda, agenda', s, n, l)
  BY <1>1, <1>2, SplicedDo
<1>4. Beneath(agenda, l, k, f)
  BY <1>1, <1>3, BeneathOther DEF Spliced, Frames
<1>5. \E g : /\ Stacked(agenda', k + 1, g) /\ agenda'[g[k + 1]] = s[3]
             /\ \A c \in 1..k : agenda'[g[c]] = agenda[f[c]]
  BY <1>2, <1>3, <1>4, StackedPushed
<1> QED BY <1>2, <1>5 DEF Moved

LEMMA ElseStacked ==
  ASSUME IInv, ParseElse, NEW k, NEW f, Stacked(agenda, k, f)
  PROVE  /\ k \in Nat \ {0} /\ f[k] = 1 /\ agenda[1] = Head(agenda)
         /\ \E g : /\ Stacked(agenda', k, g) /\ Moved(agenda, f, agenda', g, k - 1)
                   /\ agenda'[g[k]] = Halved
<1>1. agenda # <<>> /\ agenda \in Seq(Items) /\ Head(agenda) = agenda[1] /\ agenda[1].do = "else"
  <2>1. At("else")
    BY DEF ParseElse
  <2> QED BY <2>1 DEF IInv, TypeOK, At
<1>2. PICK s \in Seq(Items) : \E j \in DOMAIN s :
              /\ Do(s) /\ s[j] = Halved
              /\ \A i \in DOMAIN s : s[i].do \in Frames <=> i = j
  BY ElsePuts
<1>3. PICK j \in DOMAIN s : /\ Do(s) /\ s[j] = Halved
                            /\ \A i \in DOMAIN s : s[i].do \in Frames <=> i = j
  BY <1>2
<1>4. PICK n, l \in Nat : Spliced(agenda, agenda', s, n, l)
  BY <1>1, <1>3, SplicedDo
<1>5. l \in Nat \ {0} /\ DOMAIN agenda = 1..l /\ agenda[1].do \in Frames
  BY <1>1, <1>4 DEF Spliced, Frames
<1>6. PICK e : e = [c \in 1..(k - 1) |-> f[c]]
  OBVIOUS
<1>7. k \in Nat \ {0} /\ f[k] = 1 /\ Beneath(agenda, l, k - 1, e)
  BY <1>5, <1>6, BeneathFrame
<1>8. PICK g : /\ Stacked(agenda', k - 1 + 1, g) /\ agenda'[g[k - 1 + 1]] = s[j]
               /\ \A c \in 1..(k - 1) : agenda'[g[c]] = agenda[e[c]]
  BY <1>3, <1>4, <1>7, StackedPushed
<1>9. k - 1 + 1 = k
  BY <1>7
<1>10. \A c \in 1..(k - 1) : agenda'[g[c]] = agenda[f[c]]
  BY <1>6, <1>8
<1> QED BY <1>1, <1>3, <1>7, <1>8, <1>9, <1>10 DEF Moved

LEMMA CapStacked ==
  ASSUME IInv, CapConditional, NEW k, NEW f, Stacked(agenda, k, f)
  PROVE  /\ k \in Nat \ {0} /\ f[k] = 1 /\ agenda[1] = Head(agenda)
         /\ \/ \E g : Stacked(agenda', k - 1, g) /\ Moved(agenda, f, agenda', g, k - 1)
            \/ agenda' = <<>> /\ panicked'
<1>1. agenda # <<>> /\ agenda \in Seq(Items) /\ Head(agenda) = agenda[1] /\ agenda[1].do = "capCond"
  <2>1. At("capCond")
    BY DEF CapConditional
  <2> QED BY <2>1 DEF IInv, TypeOK, At
<1>2. PICK l \in Nat \ {0} : DOMAIN agenda = 1..l
  <2>1. Len(agenda) \in Nat /\ DOMAIN agenda = 1..Len(agenda) /\ Len(agenda) # 0
    BY <1>1, EmptySeq
  <2> QED BY <2>1
<1>3. PICK e : e = [c \in 1..(k - 1) |-> f[c]]
  OBVIOUS
<1>4. k \in Nat \ {0} /\ f[k] = 1 /\ Beneath(agenda, l, k - 1, e)
  BY <1>1, <1>2, <1>3, BeneathFrame DEF Frames
<1>5. CASE ~panicked'
  <2>1. PICK s : s = <<>>
    OBVIOUS
  <2>2. s \in Seq(Items) /\ DOMAIN s = {}
    BY <2>1
  <2>3. Do(s)
    <3>1. agenda' = Tail(agenda)
      BY <1>5 DEF CapConditional
    <3> QED BY <1>1, <2>1, <3>1 DEF Do
  <2>4. PICK n, m \in Nat : Spliced(agenda, agenda', s, n, m)
    BY <1>1, <2>2, <2>3, SplicedDo
  <2>5. m = l
    <3>1. DOMAIN agenda = 1..m /\ m \in Nat /\ l \in Nat
      BY <2>4 DEF Spliced
    <3> QED BY <1>2, <3>1
  <2>6. PICK g : Stacked(agenda', k - 1, g) /\ \A c \in 1..(k - 1) : agenda'[g[c]] = agenda[e[c]]
    BY <1>4, <2>2, <2>4, <2>5, StackedKept
  <2>7. \A c \in 1..(k - 1) : agenda'[g[c]] = agenda[f[c]]
    BY <1>3, <2>6
  <2> QED BY <1>1, <1>4, <2>6, <2>7 DEF Moved
<1>6. CASE panicked'
  <2>1. agenda' = <<>>
    BY <1>6 DEF CapConditional
  <2> QED BY <1>1, <1>4, <1>6, <2>1
<1> QED BY <1>5, <1>6

-----------------------------------------------------------------------------
(***************************************************************************)
(* The heights of the stacks: NeverPanics.                                 *)
(***************************************************************************)
LEMMA Heights ==
  ASSUME NEW p \in Seq(NonEmpty(Nat)), NEW n \in Nat
  PROVE  /\ Len(NewPhi(p, n)) = Len(p) + 1
         /\ p # <<>> => /\ Len(StoreLastState(p, n)) = Len(p)
                        /\ Len(InitPhi(p)) = Len(p) + 1
                        /\ Len(PopPhi(p)) = Len(p) - 1
         /\ Len(StoreLastState(p, n)) >= 1
         /\ Len(StoreLastState(p, n)) >= Len(p)
<1>1. Len(p) \in Nat /\ (p = <<>> => Len(p) = 0) /\ (p # <<>> => Len(p) # 0)
  BY EmptySeq
<1>2. \A x : Len(Append(p, x)) = Len(p) + 1
  OBVIOUS
<1>3. \A x : Len(<<x>>) = 1
  OBVIOUS
<1>4. Len(NewPhi(p, n)) = Len(p) + 1
  <2>1. CASE p = <<>>
    <3>1. NewPhi(p, n) = << <<0>> >>
      BY <2>1 DEF NewPhi
    <3> QED BY <1>1, <1>3, <2>1, <3>1
  <2>2. CASE p # <<>>
    BY <1>2, <2>2 DEF NewPhi
  <2> QED BY <2>1, <2>2
<1>5. CASE p = <<>>
  <2>1. StoreLastState(p, n) = << <<0>> >>
    BY <1>5 DEF StoreLastState, NewPhi
  <2> QED BY <1>1, <1>3, <1>4, <1>5, <2>1
<1>6. CASE p # <<>>
  <2>1. Len(StoreLastState(p, n)) = Len(p)
    <3>1. StoreLastState(p, n) = [p EXCEPT ![Len(p)] = Append(Last(p), n)]
      BY <1>6 DEF StoreLastState
    <3> QED BY <3>1
  <2>2. Len(InitPhi(p)) = Len(p) + 1
    BY <1>2, <1>6 DEF InitPhi
  <2>3. Len(PopPhi(p)) = Len(p) - 1
    <3>1. PopPhi(p) = Front(p)
      BY <1>6 DEF PopPhi
    <3>2. Front(p) = [i \in 1..(Len(p) - 1) |-> p[i]] /\ Len(p) - 1 \in Nat
      BY <1>1, <1>6 DEF Front
    <3>3. PICK m \in Nat : m = Len(p) - 1
      BY <3>2
    <3>4. Len([i \in 1..m |-> p[i]]) = m
      OBVIOUS
    <3> QED BY <3>1, <3>2, <3>3, <3>4
  <2> QED BY <1>1, <1>4, <1>6, <2>1, <2>2, <2>3
<1> QED BY <1>5, <1>6

\* A step that neither opens nor ends a conditional makes no stack lower, and
\* opening one makes all stacks in use higher.
LEMMA StackHeight ==
  ASSUME IInv, Step, ~CapConditional, NEW v \in Vars
  PROVE  /\ Len(phis'[v]) >= Len(phis[v])
         /\ Opens /\ phis[v] # <<>> => Len(phis'[v]) >= Len(phis[v]) + 1
<1>1. phis \in [Vars -> Seq(NonEmpty(Nat))] /\ phis[v] \in Seq(NonEmpty(Nat)) /\ Len(phis[v]) \in Nat
  BY DEF IInv, TypeOK
<1>2. CASE phis'[v] = phis[v] /\ ~Opens
  BY <1>1, <1>2
<1>3. CASE \E n \in Nat : phis'[v] \in {NewPhi(phis[v], n), StoreLastState(phis[v], n)} /\ ~Opens
  <2>1. PICK n \in Nat : phis'[v] \in {NewPhi(phis[v], n), StoreLastState(phis[v], n)}
    BY <1>3
  <2> QED BY <1>1, <1>3, <2>1, Heights
<1>4. ASSUME NEW w \in Vars, NEW base \in [Vars -> Nat \cup {Absent}], NEW num, NEW ts,
             Assign(w, base, num, ts)
      PROVE  phis'[v] = phis[v] \/ \E n \in Nat : phis'[v] \in {NewPhi(phis[v], n), StoreLastState(phis[v], n)}
  <2>1. GetSSA(base[w]) + 1 \in Nat
    <3>1. base[w] \in Nat \cup {Absent}
      OBVIOUS
    <3>2. GetSSA(base[w]) \in Nat
      BY <3>1, Numbers
    <3> QED BY <3>2
  <2>2. phis' = [phis EXCEPT ![w] = IF level = 0 THEN NewPhi(@, GetSSA(base[w]) + 1)
                                     ELSE StoreLastState(@, GetSSA(base[w]) + 1)]
    BY <1>4 DEF Assign
  <2> QED BY <1>1, <2>1, <2>2
<1>5. ssa \in [Vars -> Nat \cup {Absent}]
  BY DEF IInv, TypeOK
<1>6. CASE StoreConst \/ StoreInfix \/ StoreCopy \/ (ParseBuiltIn /\ At("state"))
  <2>1. ~Opens
    BY <1>6 DEF Opens, ParseTerm, StoreConst, StoreInfix, StoreCopy, At
  <2>2. Head(agenda).dst \in Vars
    <3>1. At("const") \/ At("infix") \/ At("copy") \/ At("state")
      BY <1>6 DEF StoreConst, StoreInfix, StoreCopy
    <3> QED BY <3>1, HeadItem, ItemFields DEF IInv
  <2>3. \E base \in [Vars -> Nat \cup {Absent}] : \E num, ts : Assign(Head(agenda).dst, base, num, ts)
    <3>1. CASE StoreConst
      BY <1>5, <3>1 DEF StoreConst
    <3>2. CASE StoreCopy
      BY <1>5, <3>2 DEF StoreCopy
    <3>3. CASE ParseBuiltIn /\ At("state")
      BY <1>5, <3>3 DEF ParseBuiltIn, At
    <3>4. CASE StoreInfix
      <4>1. PICK S : \E num, ts : Assign(Head(agenda).dst, Registered(S), num, ts)
        BY <3>4 DEF StoreInfix
      <4> QED BY <4>1, Met
    <3> QED BY <1>6, <3>1, <3>2, <3>3, <3>4
  <2> QED BY <1>2, <1>3, <1>4, <2>1, <2>2, <2>3
<1>7. CASE EndRunOption
  <2>1. At("endOption")
    BY <1>7 DEF EndRunOption
  <2>2. Head(agenda).state \in [Vars -> Nat \cup {Absent}]
    BY <2>1, HeadItem, ItemFields DEF IInv
  <2>3. phis'[v] = IF Head(agenda).state[v] = Absent THEN phis[v]
                   ELSE NewPhi(phis[v], Head(agenda).state[v])
    BY <1>7 DEF EndRunOption
  <2>4. Head(agenda).state[v] = Absent \/ Head(agenda).state[v] \in Nat
    BY <2>2
  <2>5. ~Opens
    BY <2>1 DEF Opens, ParseTerm, At
  <2> QED BY <1>2, <1>3, <2>3, <2>4, <2>5
<1>8. CASE CapRunParallel
  <2>1. ~Opens
    BY <1>8 DEF Opens, ParseTerm, CapRunParallel, At
  <2>2. AdvanceSSA(ssa[v]) \in Nat
    BY <1>5, Numbers
  <2>3. phis'[v] = phis[v] \/ phis'[v] \in {NewPhi(phis[v], AdvanceSSA(ssa[v])),
                                           StoreLastState(phis[v], AdvanceSSA(ssa[v]))}
    BY <1>8 DEF CapRunParallel
  <2> QED BY <1>2, <1>3, <2>1, <2>2, <2>3
<1>9. CASE Opens
  <2>1. phis'[v] = InitPhi(phis[v])
    BY <1>9 DEF Opens, ParseTerm
  <2>2. CASE phis[v] = <<>>
    BY <1>1, <2>1, <2>2 DEF InitPhi
  <2>3. CASE phis[v] # <<>>
    <3>1. Len(phis'[v]) = Len(phis[v]) + 1
      BY <1>1, <2>1, <2>3, Heights
    <3> QED BY <1>1, <3>1
  <2> QED BY <2>2, <2>3
<1>10. CASE /\ ~Opens /\ ~EndRunOption /\ ~CapRunParallel
            /\ ~(StoreConst \/ StoreInfix \/ StoreCopy \/ (ParseBuiltIn /\ At("state")))
  <2>1. phis' = phis
    BY <1>10 DEF Step, Opens, ParseFunction, ParseBlock, ParseTerm, ParseElse, EndFalse,
         ParseCmp, ParseBuiltIn, ConstantRule, StoreRound, At,
         ParseCall, EndParseCall, ExecuteCallstack, RunOption, RunCall, EndRunCall, genVars
  <2> QED BY <1>2, <1>10, <2>1
<1> QED BY <1>6, <1>7, <1>8, <1>9, <1>10

\* The end of a conditional takes at most one list off a stack that has two.
LEMMA StackPopped ==
  ASSUME NEW p \in Seq(NonEmpty(Nat)), NEW n \in Nat, Len(p) >= 2, NEW q, NEW r,
         q \in {p, NewPhi(p, n), StoreLastState(p, n)}, r \in {PopPhi(q), StoreLastState(PopPhi(q), n)}
  PROVE  PopPhi(q) # <<>> /\ Len(r) >= Len(p) - 1
<1>1. p # <<>> /\ Len(p) \in Nat
  <2>1. Len(<<>>) = 0
    OBVIOUS
  <2>2. Len(p) \in Nat
    OBVIOUS
  <2> QED BY <2>1, <2>2
<1>2. q \in Seq(NonEmpty(Nat))
  BY StackWrites
<1>3. Len(q) \in Nat /\ Len(q) >= Len(p)
  BY <1>1, <1>2, Heights
<1>4. q # <<>>
  <2>1. Len(<<>>) = 0
    OBVIOUS
  <2> QED BY <1>1, <1>3, <2>1
<1>5. PopPhi(q) \in Seq(NonEmpty(Nat)) /\ Len(PopPhi(q)) = Len(q) - 1
  BY <1>2, <1>4, StackWrites, Heights
<1>6. PopPhi(q) # <<>>
  <2>1. Len(<<>>) = 0
    OBVIOUS
  <2> QED BY <1>1, <1>3, <1>5, <2>1
<1>7. Len(StoreLastState(PopPhi(q), n)) = Len(PopPhi(q))
  BY <1>5, <1>6, Heights
<1> QED BY <1>1, <1>3, <1>5, <1>6, <1>7

\* A variable that no instruction names occurs in no rule.
Named(p, v) == \E b \in Blocks : \E i \in DOMAIN p.insts[b] : Names(p.insts[b][i], v)
Mute(h, v) ==
  /\ ~Names(h, v) /\ (h.do = "state" => h.dst # v)
  /\ h.do \in Frames \cup {"endOption"} => ~Said(h.outer, v)
  /\ h.do = "capCond" => ~Said(h.true, v)
Unsaid(v) == ~Said(trail, v) /\ \A i \in DOMAIN agenda : Mute(agenda[i], v)

LEMMA MadeMute ==
  ASSUME IInv, agenda # <<>>, NEW v \in Vars, ~Named(code, v), Unsaid(v), NEW h \in Made
  PROVE  Mute(h, v)
<1>1. agenda \in Seq(Items) /\ Head(agenda) = agenda[1] /\ 1 \in DOMAIN agenda /\ Head(agenda) \in Items
  BY DEF IInv, TypeOK
<1>2. Mute(Head(agenda), v) /\ ~Said(trail, v)
  BY <1>1 DEF Unsaid
<1>3. ~Names(h, v)
  <2> SUFFICES ASSUME Names(h, v) PROVE FALSE
    OBVIOUS
  <2>1. h.do \in FromBlock
    BY DEF Names, FromBlock
  <2>2. Head(agenda).do = "block" /\ \E i \in DOMAIN code.insts[Head(agenda).b] : h = code.insts[Head(agenda).b][i]
    BY <2>1 DEF Made, Origin
  <2>3. Head(agenda).b \in Blocks
    BY <1>1, <2>2, ItemFields
  <2> QED BY <2>2, <2>3 DEF Named
<1>4. ASSUME h.do = "state" PROVE h.dst # v
  <2>1. Head(agenda).do = "advance" /\ h.dst \in {Head(agenda).to, Head(agenda).from}
    BY <1>4 DEF Made, Origin
  <2>2. ~Names(Head(agenda), v)
    BY <1>2 DEF Mute
  <2> QED BY <2>1, <2>2 DEF Names
<1>5. ASSUME h.do \in {"else", "endOption"} PROVE ~Said(h.outer, v) /\ h.do # "capCond"
  <2>1. h.outer = trail
    BY <1>5 DEF Made
  <2> QED BY <1>2, <1>5, <2>1
<1>6. ASSUME h.do = "capCond" PROVE ~Said(h.outer, v) /\ ~Said(h.true, v)
  <2>1. Head(agenda).do = "else" /\ h.outer = Head(agenda).outer /\ h.true = trail
    BY <1>6 DEF Made
  <2> QED BY <1>2, <2>1 DEF Mute, Frames
<1>7. h.do \in Frames \cup {"endOption"} => ~Said(h.outer, v)
  BY <1>5, <1>6 DEF Frames
<1> QED BY <1>3, <1>4, <1>6, <1>7 DEF Mute

LEMMA Unmentioned ==
  ASSUME NEW ts, DOMAIN ts = Vars, NEW x, NEW n, NEW v \in Vars, x # v
  PROVE  DOMAIN Mention(ts, x, n) = Vars /\ Mention(ts, x, n)[v] = ts[v]
<1>1. CASE x = Lit
  BY <1>1 DEF Mention
<1>2. CASE x # Lit
  <2>1. Mention(ts, x, n) = [ts EXCEPT ![x] = AddChoiceValue(ts[x], n)]
    BY <1>2 DEF Mention
  <2> QED BY <2>1
<1> QED BY <1>1, <1>2

\* A store of another variable, of which v is no operand.
LEMMA UnsaidStored ==
  ASSUME NEW v \in Vars, NEW w, w # v, NEW base, NEW num, NEW ts, DOMAIN ts = Vars,
         ~Said(ts, v), Assign(w, base, num, ts)
  PROVE  ~Said(trail', v)
<1>1. trail' = Mention(ts, w, AdvanceSSA(base[w]))
  BY DEF Assign
<1>2. trail'[v] = ts[v]
  BY <1>1, Unmentioned
<1> QED BY <1>2 DEF Said

LEMMA StepUnsaid ==
  ASSUME IInv, Step, NEW v \in Vars, ~Named(code, v), Unsaid(v)
  PROVE  Unsaid(v)'
<1> DEFINE h == Head(agenda)
<1>1. agenda \in Seq(Items) /\ agenda # <<>> /\ h = agenda[1] /\ 1 \in DOMAIN agenda /\ h \in Items
  BY StepMakes DEF IInv, TypeOK
<1>2. Mute(h, v) /\ ~Said(trail, v) /\ trail \in Trails /\ DOMAIN trail = Vars
  BY <1>1 DEF Unsaid, IInv, TypeOK, Trails
<1>3. \A i \in DOMAIN agenda' : Mute(agenda'[i], v)
  <2> DEFINE S == {g \in Items : Mute(g, v)}
  <2>1. \A i \in DOMAIN agenda : i # 1 => agenda[i] \in S
    BY <1>1 DEF Unsaid
  <2>2. Made \subseteq S
    BY <1>1, MadeMute DEF Made
  <2> HIDE DEF S
  <2>3. \A i \in DOMAIN agenda' : agenda'[i] \in S
    BY <2>1, <2>2, AgendaNext
  <2> QED BY <2>3 DEF S
<1>4. ~Said(trail', v)
  <2>1. CASE StoreConst
    <3>1. h.do = "const" /\ Assign(h.dst, ssa, AdvanceSSA(ssa[h.dst]), trail)
      BY <2>1 DEF StoreConst, At
    <3>2. h.dst # v
      BY <1>2, <3>1 DEF Mute, Names
    <3> QED BY <1>2, <3>1, <3>2, UnsaidStored
  <2>2. CASE StoreCopy
    <3>1. h.do = "copy" /\ Assign(h.dst, ssa, GetSSA(ssa[h.dst]) + 1, Mention(trail, h.x, GetSSA(ssa[h.dst])))
      BY <2>2 DEF StoreCopy, At
    <3>2. h.dst # v /\ h.x # v
      BY <1>2, <3>1 DEF Mute, Names
    <3>3. PICK ts : ts = Mention(trail, h.x, GetSSA(ssa[h.dst]))
      OBVIOUS
    <3>4. DOMAIN ts = Vars /\ ts[v] = trail[v]
      BY <1>2, <3>2, <3>3, Unmentioned
    <3>5. ~Said(ts, v)
      BY <1>2, <3>4 DEF Said
    <3> QED BY <3>1, <3>2, <3>3, <3>4, <3>5, UnsaidStored
  <2>3. CASE StoreInfix
    <3>1. h.do = "infix" /\ \E xn, yn, base, num :
             Assign(h.dst, base, num, Mention(Mention(trail, h.x, xn), h.y, yn))
      BY <2>3 DEF StoreInfix, At
    <3>2. PICK xn, yn, base, num : Assign(h.dst, base, num, Mention(Mention(trail, h.x, xn), h.y, yn))
      BY <3>1
    <3>3. h.dst # v /\ h.x # v /\ h.y # v
      BY <1>2, <3>1 DEF Mute, Names
    <3>4. PICK us : us = Mention(trail, h.x, xn)
      OBVIOUS
    <3>5. DOMAIN us = Vars /\ us[v] = trail[v]
      BY <1>2, <3>3, <3>4, Unmentioned
    <3>6. PICK ts : ts = Mention(us, h.y, yn)
      OBVIOUS
    <3>7. DOMAIN ts = Vars /\ ts[v] = us[v]
      BY <3>3, <3>5, <3>6, Unmentioned
    <3>8. ~Said(ts, v)
      BY <1>2, <3>5, <3>7 DEF Said
    <3> QED BY <3>2, <3>3, <3>4, <3>6, <3>7, <3>8, UnsaidStored
  <2>4. CASE ParseBuiltIn /\ At("state")
    <3>1. h.do = "state" /\ Assign(h.dst, ssa, GetSSA(ssa[h.dst]) + 1, trail)
      BY <2>4 DEF ParseBuiltIn, At
    <3>2. h.dst # v
      BY <1>2, <3>1 DEF Mute
    <3> QED BY <1>2, <3>1, <3>2, UnsaidStored
  <2>5. CASE CapConditional
    <3>1. h.do = "capCond"
      BY <2>5 DEF CapConditional, At
    <3>2. ~Said(h.outer, v) /\ ~Said(h.true, v)
      BY <1>2, <3>1 DEF Mute, Frames
    <3>3. ~Used(v)
      BY <1>2, <3>2 DEF Used
    <3>4. trail'[v] = h.outer[v]
      BY <2>5, <3>3, CapActs
    <3> QED BY <3>2, <3>4 DEF Said
  <2>6. CASE EndRunOption
    <3>1. h.do = "endOption" /\ trail' = Joined(h.outer, trail)
      BY <2>6 DEF EndRunOption, At
    <3>2. ~Said(h.outer, v)
      BY <1>2, <3>1 DEF Mute
    <3>3. trail'[v].vals = h.outer[v].vals \cup trail[v].vals
      BY <3>1 DEF Joined, JoinTrails
    <3> QED BY <1>2, <3>2, <3>3 DEF Said
  <2>7. CASE /\ ~StoreConst /\ ~StoreCopy /\ ~StoreInfix /\ ~CapConditional /\ ~EndRunOption
             /\ ~(ParseBuiltIn /\ At("state"))
    <3>1. trail' = trail \/ trail' = NoTrails
      BY <2>7 DEF Step, ParseFunction, ParseBlock, ParseTerm, ParseElse, EndFalse,
         ParseCmp, ParseBuiltIn, ConstantRule, StoreRound, At,
         ParseCall, EndParseCall, ExecuteCallstack, RunOption, RunCall, EndRunCall,
         CapRunParallel, ruleVars
    <3>2. ~Said(NoTrails, v)
      BY DEF Said, NoTrails, NoTrail
    <3> QED BY <1>2, <3>1, <3>2
  <2> QED BY <2>1, <2>2, <2>3, <2>4, <2>5, <2>6, <2>7
<1> QED BY <1>3, <1>4 DEF Unsaid

\* Every stack in use has a list for each of the k open conditionals and one
\* more.
Deep(k) ==
  /\ k # 0 => \A v \in Vars : Known(v)
  /\ \A v \in Vars : Own(code, v) /\ Known(v) => Len(phis[v]) >= k + 1
OpenDeep == \E k, f : Stacked(agenda, k, f) /\ Deep(k)

\* Entries for globals are for globals of the module.
FromGlobals ==
  \A i \in DOMAIN agenda : agenda[i].do = "global" =>
    \E j \in DOMAIN code.globals : code.globals[j] = agenda[i].v

DInv ==
  /\ OwnState(code) /\ OpenDeep /\ FromGlobals /\ NeverPanics
  /\ \A v \in Vars : Own(code, v) \/ (~Named(code, v) /\ Unsaid(v))

LEMMA StepFromGlobals ==
  ASSUME IInv, Step, FromGlobals
  PROVE  FromGlobals'
<1> DEFINE S == {h \in Items : h.do = "global" => \E j \in DOMAIN code.globals : code.globals[j] = h.v}
<1>1. \A i \in DOMAIN agenda : i # 1 => agenda[i] \in S
  <2>1. agenda \in Seq(Items)
    BY DEF IInv, TypeOK
  <2> QED BY <2>1 DEF FromGlobals
<1>2. Made \subseteq S
  BY DEF Made
<1> HIDE DEF S
<1>3. \A i \in DOMAIN agenda' : agenda'[i] \in S
  BY <1>1, <1>2, AgendaNext
<1>4. code' = code
  BY CodeKept
<1> QED BY <1>3, <1>4 DEF FromGlobals, S

\* Only a constant store gives a variable of its own its first version.
LEMMA OwnFirst ==
  ASSUME IInv, RInv, FromGlobals, Step, NEW v \in Vars, Own(code, v), ~Known(v), Known(v)'
  PROVE  StoreConst /\ Head(agenda).dst = v
<1>1. agenda # <<>> /\ agenda \in Seq(Items) /\ Head(agenda) = agenda[1] /\ 1 \in DOMAIN agenda
  BY StepMakes DEF IInv, TypeOK
<1>2. Coming(v)
  BY DEF RInv, Started
<1>3. ~Coming(v)'
  BY DEF Coming, Known
<1>4. Gives(code, Head(agenda), v)
  BY <1>1, <1>2, <1>3, StillComing, ComingNext
<1>5. Head(agenda).do \notin {"function", "block"}
  BY <1>1, <1>2, <1>3, <1>4, ComingStored DEF RInv
<1>6. ~(Head(agenda).do = "global" /\ Head(agenda).v = v)
  BY <1>1 DEF FromGlobals, Own
<1>7. Head(agenda).do = "const" /\ Head(agenda).dst = v
  BY <1>4, <1>5, <1>6 DEF Gives
<1> QED BY <1>1, <1>7, HeadActs

\* A first store makes a stack of one list.
LEMMA FirstStack ==
  ASSUME IInv, StoreConst, NEW v \in Vars, Head(agenda).dst = v
  PROVE  Len(phis'[v]) >= 1
<1>1. phis \in [Vars -> Seq(NonEmpty(Nat))] /\ ssa[v] \in Nat \cup {Absent}
  BY DEF IInv, TypeOK
<1>2. PICK n : n = GetSSA(ssa[v]) + 1
  OBVIOUS
<1>3. n \in Nat
  <2>1. GetSSA(ssa[v]) \in Nat
    BY <1>1, Numbers
  <2> QED BY <1>2, <2>1
<1>4. phis' = [phis EXCEPT ![v] = IF level = 0 THEN NewPhi(@, n) ELSE StoreLastState(@, n)]
  BY <1>2 DEF StoreConst, Assign
<1>5. phis'[v] \in {NewPhi(phis[v], n), StoreLastState(phis[v], n)}
  BY <1>1, <1>4
<1>6. phis[v] \in Seq(NonEmpty(Nat)) /\ Len(phis[v]) \in Nat
  BY <1>1
<1> QED BY <1>3, <1>5, <1>6, Heights

\* A step that does not end a conditional, with k open ones before and l after.
LEMMA DeepKept ==
  ASSUME IInv, RInv, FromGlobals, Step, ~CapConditional, NEW k \in Nat, Deep(k), NEW l,
         IF Opens THEN l = k + 1 ELSE l = k
  PROVE  Deep(l)'
<1>1. agenda # <<>>
  BY StepMakes
<1>2. Opens => \A v \in Vars : Known(v)
  <2>1. Opens => Head(agenda).do = "term"
    BY DEF Opens, ParseTerm, At
  <2> QED BY <1>1, <2>1, AllKnown DEF RInv, Early
<1>3. l # 0 => \A v \in Vars : Known(v)'
  <2>1. l # 0 => \A v \in Vars : Known(v)
    BY <1>2 DEF Deep
  <2> QED BY <2>1, KnownKept
<1>4. code' = code
  BY CodeKept
<1>5. ASSUME NEW v \in Vars, Own(code, v), Known(v)' PROVE Len(phis'[v]) >= l + 1
  <2>1. phis[v] \in Seq(NonEmpty(Nat)) /\ Len(phis[v]) \in Nat
    BY DEF IInv, TypeOK
  <2>2. CASE Known(v)
    <3>1. Len(phis[v]) >= k + 1
      BY <1>5, <2>2 DEF Deep
    <3>2. phis[v] # <<>>
      <4>1. Len(<<>>) = 0
        OBVIOUS
      <4> QED BY <2>1, <3>1, <4>1
    <3>3. Len(phis'[v]) \in Nat
      <4>1. IInv'
        BY NextInv DEF Next
      <4>2. phis'[v] \in Seq(NonEmpty(Nat))
        BY <4>1 DEF IInv, TypeOK
      <4> QED BY <4>2
    <3>4. Len(phis'[v]) >= Len(phis[v]) /\ (Opens => Len(phis'[v]) >= Len(phis[v]) + 1)
      BY <3>2, StackHeight
    <3>5. CASE Opens
      BY <2>1, <3>1, <3>3, <3>4, <3>5
    <3>6. CASE ~Opens
      BY <2>1, <3>1, <3>3, <3>4, <3>6
    <3> QED BY <3>5, <3>6
  <2>3. CASE ~Known(v)
    <3>1. StoreConst /\ Head(agenda).dst = v
      BY <1>5, <2>3, OwnFirst
    <3>2. Len(phis'[v]) >= 1
      BY <3>1, FirstStack
    <3>3. k = 0 /\ ~Opens
      BY <1>2, <2>3 DEF Deep
    <3> QED BY <3>2, <3>3
  <2> QED BY <2>2, <2>3
<1>6. \A v \in Vars : Own(code', v) /\ Known(v)' => Len(phis'[v]) >= l + 1
  BY <1>4, <1>5
<1> QED BY <1>3, <1>6 DEF Deep

\* The end of the innermost of k conditionals.
LEMMA DeepEnd ==
  ASSUME IInv, RInv, CapConditional, NEW k \in Nat \ {0}, Deep(k),
         \A v \in Vars : Own(code, v) \/ Unsaid(v)
  PROVE  ~panicked' /\ Deep(k - 1)'
<1> DEFINE c      == Head(agenda)
           fork   == CondFork(c.true)
           used   == ForkVars(fork)
           phi    == [v \in Vars |-> AdvanceSSA(ssa[v])]
           popped == [v \in Vars |-> SyncedPhis(v, fork, phi[v])]
<1>1. agenda # <<>> /\ agenda \in Seq(Items) /\ c = agenda[1] /\ 1 \in DOMAIN agenda /\ c.do = "capCond"
  <2>1. At("capCond")
    BY DEF CapConditional
  <2> QED BY <2>1 DEF IInv, TypeOK, At
<1>2. \A v \in Vars : Known(v)
  BY DEF Deep
<1>3. ASSUME NEW v \in Vars, Own(code, v)
      PROVE  popped[v] # <<>> /\ Len(phis'[v]) >= k
  <2>1. phis[v] \in Seq(NonEmpty(Nat)) /\ Len(phis[v]) \in Nat /\ phi[v] \in Nat
    <3>1. ssa[v] \in Nat \cup {Absent} /\ phis[v] \in Seq(NonEmpty(Nat))
      BY DEF IInv, TypeOK
    <3>2. phi[v] \in Nat
      BY <3>1, Numbers
    <3>3. Len(phis[v]) \in Nat
      BY <3>1
    <3> QED BY <3>1, <3>2, <3>3
  <2>2. Len(phis[v]) >= k + 1 /\ Len(phis[v]) >= 2
    <3>1. Len(phis[v]) >= k + 1
      BY <1>2, <1>3 DEF Deep
    <3> QED BY <2>1, <3>1
  <2>3. PICK n : n = phi[v]
    OBVIOUS
  <2>4. \E q \in {phis[v], NewPhi(phis[v], n), StoreLastState(phis[v], n)} : popped[v] = PopPhi(q)
    BY <2>3 DEF SyncedPhis
  <2>5. PICK q \in {phis[v], NewPhi(phis[v], n), StoreLastState(phis[v], n)} : popped[v] = PopPhi(q)
    BY <2>4
  <2>6. phis'[v] = IF v \in used THEN StoreLastState(popped[v], phi[v]) ELSE popped[v]
    BY DEF CapConditional
  <2>7. phis'[v] \in {PopPhi(q), StoreLastState(PopPhi(q), n)}
    BY <2>3, <2>5, <2>6
  <2> HIDE DEF popped, phi
  <2>8. popped[v] # <<>> /\ Len(phis'[v]) >= Len(phis[v]) - 1
    BY <2>1, <2>2, <2>3, <2>5, <2>7, StackPopped
  <2>9. Len(phis'[v]) \in Nat
    <3>1. IInv'
      BY NextInv DEF Next, Step
    <3>2. phis'[v] \in Seq(NonEmpty(Nat))
      BY <3>1 DEF IInv, TypeOK
    <3> QED BY <3>2
  <2> QED BY <2>1, <2>2, <2>8, <2>9
<1>4. ASSUME NEW v \in used PROVE v \in Vars /\ Own(code, v)
  <2>1. v \in Vars /\ fork[v] # <<>>
    BY <1>4 DEF ForkVars
  <2>2. CASE Unsaid(v)
    <3>1. c.true[v].vals = {} /\ trail[v].vals = {}
      BY <1>1, <2>2 DEF Unsaid, Mute, Said
    <3>2. fork[v] = Choice(c.true[v], "true") \o Choice(trail[v], "false")
      BY <2>1 DEF CondFork
    <3>3. Choice(c.true[v], "true") = <<>> /\ Choice(trail[v], "false") = <<>>
      BY <3>1 DEF Choice
    <3>4. <<>> \o <<>> = <<>>
      OBVIOUS
    <3> QED BY <2>1, <3>2, <3>3, <3>4
  <2> QED BY <2>1, <2>2
<1>5. ~panicked'
  <2>1. panicked' = \E v \in used : /\ popped[v] = <<>>
                                    /\ phis[v] # <<>> \/ Len(fork[v]) = 1
    BY DEF CapConditional
  <2> HIDE DEF used, popped, fork
  <2> QED BY <1>3, <1>4, <2>1
<1>6. code' = code /\ \A v \in Vars : Known(v)'
  BY <1>2, KnownKept, CodeKept DEF Step
<1>7. \A v \in Vars : Own(code', v) /\ Known(v)' => Len(phis'[v]) >= k - 1 + 1
  <2>1. k - 1 + 1 = k
    OBVIOUS
  <2> QED BY <1>3, <1>6, <2>1
<1> QED BY <1>5, <1>6, <1>7 DEF Deep

LEMMA StepDeep ==
  ASSUME IInv, RInv, DInv, Step
  PROVE  OpenDeep' /\ NeverPanics'
<1>1. PICK k, f : Stacked(agenda, k, f) /\ Deep(k)
  BY DEF DInv, OpenDeep
<1>2. k \in Nat /\ FromGlobals
  BY <1>1 DEF Stacked, DInv
<1>3. ASSUME ~CapConditional PROVE ~panicked'
  <2>1. ~panicked
    BY DEF DInv, NeverPanics
  <2>2. panicked' = panicked
    BY <1>3 DEF Step, ParseFunction, ParseBlock, ParseTerm, ParseElse, EndFalse,
       StoreConst, StoreInfix, StoreCopy, ParseCmp, ParseBuiltIn, ConstantRule, StoreRound,
       ParseCall, EndParseCall, ExecuteCallstack, RunOption, RunCall, EndRunCall,
       EndRunOption, CapRunParallel
  <2> QED BY <2>1, <2>2
<1>4. CASE CapConditional
  <2>1. k \in Nat \ {0}
    BY <1>1, <1>4, CapStacked
  <2>2. ~panicked' /\ Deep(k - 1)'
    BY <1>1, <1>4, <2>1, DeepEnd DEF DInv
  <2>3. PICK g : Stacked(agenda', k - 1, g)
    BY <1>1, <1>4, <2>2, CapStacked
  <2> QED BY <2>2, <2>3 DEF OpenDeep, NeverPanics
<1>5. CASE Opens
  <2>1. ~CapConditional
    BY <1>5 DEF Opens, ParseTerm, CapConditional, At
  <2>2. PICK g : Stacked(agenda', k + 1, g)
    BY <1>1, <1>5, OpenStacked
  <2>3. Deep(k + 1)'
    BY <1>1, <1>2, <1>5, <2>1, DeepKept
  <2> QED BY <1>3, <2>1, <2>2, <2>3 DEF OpenDeep, NeverPanics
<1>6. CASE ~Opens /\ ~CapConditional
  <2>1. PICK g : Stacked(agenda', k, g)
    <3>1. CASE ParseElse
      BY <1>1, <3>1, ElseStacked
    <3>2. CASE ~ParseElse
      <4>1. Head(agenda).do \notin Frames
        BY <1>6, <3>2 DEF Frames, Step, ParseFunction, ParseBlock, ParseTerm, EndFalse,
         StoreConst, StoreInfix, StoreCopy, ParseCmp, ParseBuiltIn, ConstantRule, StoreRound,
         ParseCall, EndParseCall, ExecuteCallstack, RunOption, RunCall, EndRunCall,
         EndRunOption, CapRunParallel, At
      <4> QED BY <1>1, <1>6, <4>1, OtherStacked
    <3> QED BY <3>1, <3>2
  <2>2. Deep(k)'
    BY <1>1, <1>2, <1>6, DeepKept
  <2> QED BY <1>3, <1>6, <2>1, <2>2 DEF OpenDeep, NeverPanics
<1> QED BY <1>4, <1>5, <1>6

LEMMA NextDeep == IInv /\ RInv /\ DInv /\ [Next]_vars => DInv'
<1> SUFFICES ASSUME IInv, RInv, DInv, [Next]_vars PROVE DInv'
  OBVIOUS
<1>1. CASE Step
  <2>1. code' = code
    BY <1>1, CodeKept
  <2>2. OpenDeep' /\ NeverPanics'
    BY <1>1, StepDeep
  <2>3. FromGlobals'
    BY <1>1, StepFromGlobals DEF DInv
  <2>4. \A v \in Vars : Own(code, v) \/ (~Named(code, v) /\ Unsaid(v)')
    BY <1>1, StepUnsaid DEF DInv
  <2> QED BY <2>1, <2>2, <2>3, <2>4 DEF DInv
<1>2. CASE UNCHANGED vars
  <2>1. UNCHANGED <<code, agenda, ssa, phis, trail, declared, panicked>>
    BY <1>2 DEF vars, genVars, ctlVars, ruleVars, histVars
  <2>2. OpenDeep'
    BY <2>1 DEF DInv, OpenDeep, Deep, Known
  <2>3. FromGlobals' /\ NeverPanics'
    BY <2>1 DEF DInv, FromGlobals, NeverPanics
  <2>4. \A v \in Vars : Unsaid(v) => Unsaid(v)'
    BY <2>1 DEF Unsaid
  <2> QED BY <2>1, <2>2, <2>3, <2>4 DEF DInv
<1> QED BY <1>1, <1>2 DEF Next, Finished

LEMMA InitDeep == Init /\ Initialised(code) /\ OwnState(code) => DInv
<1> SUFFICES ASSUME Init, Initialised(code), OwnState(code) PROVE DInv
  OBVIOUS
<1>1. \A i \in DOMAIN agenda : agenda[i] \in Items /\ agenda[i].do \in {"global", "function"}
  BY InitAgenda
<1>2. PICK f : f = [c \in 1..0 |-> 1]
  OBVIOUS
<1>3. f \in [1..0 -> DOMAIN agenda] /\ \A c \in 1..0 : FALSE
  BY <1>2
<1>4. Stacked(agenda, 0, f)
  BY <1>1, <1>3 DEF Stacked, Frames
<1>5. \A v \in Vars : ~Known(v)
  BY DEF Init, Known
<1>6. OpenDeep
  BY <1>4, <1>5 DEF OpenDeep, Deep
<1>7. FromGlobals
  <2> SUFFICES ASSUME NEW i \in DOMAIN agenda, agenda[i].do = "global"
               PROVE  \E j \in DOMAIN code.globals : code.globals[j] = agenda[i].v
    BY DEF FromGlobals
  <2> DEFINE gs == [j \in DOMAIN code.globals |-> Global(code.globals[j])]
  <2>1. code.globals \in Seq(Vars)
    BY InitInv DEF IInv, TypeOK, Modules
  <2>2. PICK n \in Nat : DOMAIN code.globals = 1..n
    BY <2>1
  <2>3. PICK S : S = {gs[j] : j \in 1..n} \cup {Function(Run, 1)}
    OBVIOUS
  <2>4. gs \in Seq(S)
    <3>1. gs = [j \in 1..n |-> Global(code.globals[j])] /\ \A j \in 1..n : Global(code.globals[j]) \in S
      BY <2>2, <2>3
    <3>2. \A T : (\A j \in 1..n : Global(code.globals[j]) \in T)
                   => [j \in 1..n |-> Global(code.globals[j])] \in Seq(T)
      OBVIOUS
    <3> QED BY <3>1, <3>2
  <2>5. PICK g : g = Function(Run, 1) /\ g \in S
    BY <2>3
  <2>6. agenda = gs \o <<g>>
    BY <2>5 DEF Init
  <2> HIDE DEF gs
  <2>7. agenda[i] \in S
    BY <2>4, <2>5, <2>6
  <2>8. agenda[i] # Function(Run, 1)
    BY DEF Function
  <2>9. PICK j \in 1..n : agenda[i] = gs[j]
    BY <2>3, <2>7, <2>8
  <2>10. gs[j] = Global(code.globals[j])
    BY <2>2 DEF gs
  <2> QED BY <2>2, <2>9, <2>10 DEF Global
<1>8. \A v \in Vars : Unsaid(v)
  <2>1. \A v \in Vars : ~Said(trail, v)
    BY DEF Init, Said, NoTrails, NoTrail
  <2>2. \A v \in Vars : \A i \in DOMAIN agenda : Mute(agenda[i], v)
    BY <1>1 DEF Mute, Names, Frames
  <2> QED BY <2>1, <2>2 DEF Unsaid
<1>9. \A v \in Vars : Own(code, v) \/ ~Named(code, v)
  BY DEF OwnState, Named
<1>10. NeverPanics
  BY DEF Init, NeverPanics
<1> QED BY <1>6, <1>7, <1>8, <1>9, <1>10 DEF DInv

\* The sync rules of a conditional are always written: StoreLastState never
\* indexes an empty stack (capCondSyncRules, AppendState), with else, copies and
\* parallel runs nested in any way, in models whose rules name no global
\* constant.  One that occurs in a branch has no stack, and the code panics.
THEOREM NoEmptyStack == Spec /\ Initialised(code) /\ OwnState(code) => []NeverPanics
<1>1. Init /\ Initialised(code) /\ OwnState(code) => IInv /\ RInv /\ DInv
  BY InitInv, InitRounds, InitDeep
<1>2. IInv /\ RInv /\ DInv /\ [Next]_vars => (IInv /\ RInv /\ DInv)'
  BY NextInv, NextRounds, NextDeep
<1>3. DInv => NeverPanics
  BY DEF DInv
<1> QED BY <1>1, <1>2, <1>3, PTL DEF Spec

-----------------------------------------------------------------------------
(***************************************************************************)
(* The ends of the branches: MergesPathEnds.  A stack p fits k open        *)
(* conditionals that started at the versions x if each has its list, which *)
(* begins at its start, where the list before it ends.                     *)
(***************************************************************************)
Fits(p, k, x) ==
  \A d \in 1..k : Head(p[Len(p) - k + d]) = x[d] /\ Last(p[Len(p) - k + d - 1]) = x[d]

LEMMA Extended ==
  ASSUME NEW q \in NonEmpty(Nat), NEW n \in Nat
  PROVE  Append(q, n) \in NonEmpty(Nat) /\ Head(Append(q, n)) = Head(q) /\ Last(Append(q, n)) = n
<1>1. q \in Seq(Nat) /\ q # <<>> /\ Len(q) \in Nat /\ Len(q) # 0
  BY EmptySeq DEF NonEmpty
<1>2. PICK r : r = Append(q, n)
  OBVIOUS
<1>3. r \in Seq(Nat) /\ Len(r) = Len(q) + 1 /\ r[Len(q) + 1] = n /\ r[1] = q[1]
  BY <1>1, <1>2
<1>4. r # <<>>
  <2>1. Len(<<>>) = 0
    OBVIOUS
  <2> QED BY <1>1, <1>3, <2>1
<1>5. Head(r) = r[1] /\ Head(q) = q[1] /\ Last(r) = r[Len(r)]
  BY <1>1, <1>3, <1>4 DEF Last
<1> QED BY <1>2, <1>3, <1>4, <1>5 DEF NonEmpty

\* A version is added to the last list.
LEMMA FitsStored ==
  ASSUME NEW k \in Nat, NEW p \in Seq(NonEmpty(Nat)), Len(p) >= k + 1, NEW x, Fits(p, k, x), NEW n \in Nat
  PROVE  Fits(StoreLastState(p, n), k, x) /\ GetLastState(StoreLastState(p, n)) = n
<1>1. PICK l \in Nat : l = Len(p)
  OBVIOUS
<1>2. l # 0 /\ p # <<>> /\ l \in 1..l /\ DOMAIN p = 1..l
  <2>1. Len(<<>>) = 0
    OBVIOUS
  <2> QED BY <1>1, <2>1
<1>3. PICK q : q = StoreLastState(p, n)
  OBVIOUS
<1>4. q = [p EXCEPT ![l] = Append(p[l], n)]
  BY <1>1, <1>2, <1>3 DEF StoreLastState, Last
<1>5. p[l] \in NonEmpty(Nat) /\ q \in Seq(NonEmpty(Nat)) /\ Len(q) = l
  <2>1. p[l] \in NonEmpty(Nat)
    BY <1>2
  <2>2. Append(p[l], n) \in NonEmpty(Nat)
    BY <2>1, Extended
  <2> QED BY <1>1, <1>2, <1>4, <2>1, <2>2
<1>6. q[l] = Append(p[l], n) /\ \A i \in 1..l : i # l => q[i] = p[i]
  BY <1>2, <1>4
<1>7. Head(q[l]) = Head(p[l]) /\ Last(q[l]) = n
  BY <1>5, <1>6, Extended
<1>8. GetLastState(q) = n
  <2>1. q # <<>>
    <3>1. Len(<<>>) = 0
      OBVIOUS
    <3> QED BY <1>2, <1>5, <3>1
  <2>2. Last(q) = q[l]
    BY <1>5 DEF Last
  <2> QED BY <1>7, <2>1, <2>2 DEF GetLastState
<1>9. ASSUME NEW d \in 1..k PROVE Head(q[l - k + d]) = x[d] /\ Last(q[l - k + d - 1]) = x[d]
  <2>1. PICK i \in Int : i = l - k + d
    BY <1>1
  <2>2. i \in 1..l /\ i - 1 \in 1..l /\ i - 1 # l
    BY <1>1, <2>1
  <2>3. Head(p[i]) = x[d] /\ Last(p[i - 1]) = x[d]
    BY <1>1, <2>1 DEF Fits
  <2>4. Head(q[i]) = Head(p[i])
    BY <1>6, <1>7, <2>2
  <2>5. q[i - 1] = p[i - 1]
    BY <1>6, <2>2
  <2> QED BY <2>1, <2>3, <2>4, <2>5
<1>10. Fits(q, k, x)
  BY <1>5, <1>9 DEF Fits
<1> QED BY <1>3, <1>8, <1>10

\* A list is put on the stack.
LEMMA FitsPut ==
  ASSUME NEW p \in Seq(NonEmpty(Nat)), p # <<>>, NEW n \in Nat
  PROVE  /\ GetLastState(Append(p, <<n>>)) = n
         /\ \A k \in Nat : \A x, y :
              /\ Len(p) >= k + 1 /\ Fits(p, k, x) /\ n = GetLastState(p)
              /\ y[k + 1] = n /\ \A d \in 1..k : y[d] = x[d]
              => Fits(Append(p, <<n>>), k + 1, y)
<1>1. PICK l \in Nat : l = Len(p)
  OBVIOUS
<1>2. l # 0 /\ l \in 1..l /\ DOMAIN p = 1..l
  BY <1>1, EmptySeq
<1>3. PICK u : u = <<n>>
  OBVIOUS
<1>4. u \in NonEmpty(Nat) /\ Head(u) = n /\ Last(u) = n
  BY <1>3 DEF NonEmpty, Last
<1>5. PICK q : q = Append(p, u)
  OBVIOUS
<1>6. q \in Seq(NonEmpty(Nat)) /\ Len(q) = l + 1 /\ q[l + 1] = u /\ \A i \in 1..l : q[i] = p[i]
  BY <1>1, <1>4, <1>5
<1>7. GetLastState(q) = n
  <2>1. q # <<>>
    <3>1. Len(<<>>) = 0
      OBVIOUS
    <3> QED BY <1>2, <1>6, <3>1
  <2>2. Last(q) = u
    BY <1>6 DEF Last
  <2> QED BY <1>4, <2>1, <2>2 DEF GetLastState
<1>8. ASSUME NEW k \in Nat, NEW x, NEW y, Len(p) >= k + 1, Fits(p, k, x), n = GetLastState(p),
             y[k + 1] = n, \A d \in 1..k : y[d] = x[d]
      PROVE  Fits(q, k + 1, y)
  <2>0. PICK m \in Nat : m = k + 1
    OBVIOUS
  <2>1. Last(p[l]) = n
    BY <1>1, <1>2, <1>8 DEF GetLastState, Last
  <2>2. ASSUME NEW d \in 1..m
        PROVE  Head(q[l + 1 - m + d]) = y[d] /\ Last(q[l + 1 - m + d - 1]) = y[d]
    <3>1. CASE d = m
      <4>1. l + 1 - m + d = l + 1 /\ l + 1 - m + d - 1 = l
        BY <1>1, <2>0, <3>1
      <4>2. Head(q[l + 1]) = n /\ Last(q[l]) = n
        BY <1>2, <1>4, <1>6, <2>1
      <4> QED BY <1>8, <2>0, <3>1, <4>1, <4>2
    <3>2. CASE d # m
      <4>0. l - k + d \in Int
        OBVIOUS
      <4>1. PICK i \in Int : i = l - k + d
        BY <4>0
      <4>2. d \in 1..k /\ i \in 1..l /\ i - 1 \in 1..l /\ l + 1 - m + d = i
        BY <1>1, <1>8, <2>0, <3>2, <4>1
      <4>3. Head(p[i]) = x[d] /\ Last(p[i - 1]) = x[d]
        BY <1>1, <1>8, <4>1, <4>2 DEF Fits
      <4>4. q[i] = p[i] /\ q[i - 1] = p[i - 1] /\ y[d] = x[d]
        BY <1>6, <1>8, <4>2
      <4> QED BY <4>2, <4>3, <4>4
    <3> QED BY <3>1, <3>2
  <2>3. Fits(q, m, y)
    BY <1>6, <2>2 DEF Fits
  <2> QED BY <2>0, <2>3
<1> QED BY <1>3, <1>5, <1>7, <1>8

\* The last list is taken off the stack.
LEMMA FitsPopped ==
  ASSUME NEW k \in Nat \ {0}, NEW p \in Seq(NonEmpty(Nat)), Len(p) >= k + 1, NEW x, Fits(p, k, x)
  PROVE  /\ GetStartState(p) = x[k]
         /\ PopPhi(p) \in Seq(NonEmpty(Nat)) /\ Len(PopPhi(p)) = Len(p) - 1
         /\ GetLastState(PopPhi(p)) = x[k] /\ Fits(PopPhi(p), k - 1, x)
<1>1. PICK l \in Nat : l = Len(p)
  OBVIOUS
<1>2. PICK m \in Nat : m = l - 1
  BY <1>1
<1>3. p # <<>> /\ l \in 1..l /\ DOMAIN p = 1..l /\ m # 0 /\ m \in 1..l
  <2>1. Len(<<>>) = 0
    OBVIOUS
  <2> QED BY <1>1, <1>2, <2>1
<1>4. PICK q : q = PopPhi(p)
  OBVIOUS
<1>5. q = [i \in 1..m |-> p[i]]
  BY <1>1, <1>2, <1>3, <1>4 DEF PopPhi, Front
<1>6. q \in Seq(NonEmpty(Nat)) /\ Len(q) = m /\ \A i \in 1..m : q[i] = p[i]
  <2>1. \A i \in 1..m : p[i] \in NonEmpty(Nat)
    BY <1>1, <1>2
  <2> QED BY <1>5, <2>1
<1>7. k \in 1..k /\ l - k + k = l /\ l - k + k - 1 = m
  BY <1>1, <1>2
<1>8. Head(p[l]) = x[k] /\ Last(p[m]) = x[k]
  BY <1>1, <1>7 DEF Fits
<1>9. GetStartState(p) = x[k]
  BY <1>1, <1>3, <1>8 DEF GetStartState, Last
<1>10. GetLastState(q) = x[k]
  <2>1. q # <<>>
    <3>1. Len(<<>>) = 0
      OBVIOUS
    <3> QED BY <1>3, <1>6, <3>1
  <2>2. Last(q) = p[m]
    BY <1>3, <1>6 DEF Last
  <2> QED BY <1>8, <2>1, <2>2 DEF GetLastState
<1>11. PICK j \in Nat : j = k - 1
  OBVIOUS
<1>12. ASSUME NEW d \in 1..j PROVE Head(q[m - j + d]) = x[d] /\ Last(q[m - j + d - 1]) = x[d]
  <2>1. PICK i \in Int : i = l - k + d
    BY <1>1, <1>11
  <2>2. d \in 1..k /\ i \in 1..m /\ i - 1 \in 1..m /\ m - j + d = i
    BY <1>1, <1>2, <1>11, <2>1
  <2>3. Head(p[i]) = x[d] /\ Last(p[i - 1]) = x[d]
    BY <1>1, <2>1, <2>2 DEF Fits
  <2> QED BY <1>6, <2>2, <2>3
<1>13. Fits(q, j, x)
  BY <1>6, <1>12 DEF Fits
<1> QED BY <1>1, <1>2, <1>4, <1>6, <1>9, <1>10, <1>11, <1>13

\* The version that v had where the conditional that entry e ends was opened,
\* c being the versions on the path.
Opener(e, c, v) == IF e.do = "else" THEN e.start[v] ELSE c[v]
Openers(a, k, f, c, v) == [d \in 1..k |-> Opener(a[f[d]], c, v)]

\* The stack of v tells the starts of the open conditionals and the version of v.
Traced(v, k, f) ==
  /\ Fits(phis[v], k, Openers(agenda, k, f, cur, v))
  /\ ~At("capCond") => GetLastState(phis[v]) = cur[v]

LevelOf(k) == level = IF At("capCond") THEN k - 1 ELSE k
OpenPaths ==
  \E k, f : /\ Stacked(agenda, k, f) /\ Deep(k) /\ LevelOf(k)
            /\ \A v \in Vars : Own(code, v) /\ Known(v) => Traced(v, k, f)

\* Of the entries that end a conditional, only the first can be at its end.
LEMMA ElseBelow ==
  ASSUME IInv, CapsFirst, NEW k, NEW f, Stacked(agenda, k, f)
  PROVE  \A d \in 1..k : agenda[f[d]].do = "else" \/ (At("capCond") /\ d = k)
<1> SUFFICES ASSUME NEW d \in 1..k, agenda[f[d]].do # "else" PROVE At("capCond") /\ d = k
  OBVIOUS
<1>1. k \in Nat /\ f[d] \in DOMAIN agenda /\ agenda[f[d]].do = "capCond" /\ \A c, e \in 1..k : c < e => f[e] < f[c]
  BY DEF Stacked, Frames
<1>2. f[d] = 1
  BY <1>1 DEF CapsFirst
<1>3. agenda \in Seq(Items) /\ agenda # <<>> /\ Head(agenda) = agenda[1]
  <2>1. agenda \in Seq(Items)
    BY DEF IInv, TypeOK
  <2> QED BY <1>1, <2>1
<1>4. PICK l \in Nat \ {0} : DOMAIN agenda = 1..l
  <2>1. Len(agenda) \in Nat /\ DOMAIN agenda = 1..Len(agenda) /\ Len(agenda) # 0
    BY <1>3, EmptySeq
  <2> QED BY <2>1
<1>5. f[k] = 1
  BY <1>1, <1>2, <1>4, BeneathFrame DEF Frames
<1>6. d = k
  <2> SUFFICES ASSUME d # k PROVE FALSE
    OBVIOUS
  <2>1. d < k /\ k \in 1..k
    BY <1>1
  <2>2. f[k] < f[d]
    BY <1>1, <2>1
  <2> QED BY <1>2, <1>5, <2>2
<1> QED BY <1>1, <1>2, <1>3, <1>6 DEF At

LEMMA SameOpeners ==
  ASSUME NEW a, NEW b, NEW k, NEW f, NEW g, NEW c, NEW e, NEW v, Moved(a, f, b, g, k),
         \A d \in 1..k : a[f[d]].do = "else"
  PROVE  Openers(b, k, g, e, v) = Openers(a, k, f, c, v)
<1>1. \A d \in 1..k : Opener(b[g[d]], e, v) = Opener(a[f[d]], c, v)
  BY DEF Moved, Opener
<1> QED BY <1>1 DEF Openers

\* The first version of a variable.
LEMMA TracedFirst ==
  ASSUME IInv, NEW v \in Vars, Coming(v), StoreConst, Head(agenda).dst = v
  PROVE  GetLastState(phis'[v]) = cur'[v]
<1>1. phis \in [Vars -> Seq(NonEmpty(Nat))] /\ cur \in [Vars -> Nat] /\ ssa[v] = Absent
  BY DEF IInv, TypeOK, Versions, Coming
<1>2. phis[v] = <<>>
  <2>1. phis[v] \in Seq(NonEmpty(0..Absent))
    BY <1>1 DEF IInv, PhisHandedOut
  <2> QED BY <2>1, AbsentStack
<1>3. PICK n : n = GetSSA(ssa[v]) + 1
  OBVIOUS
<1>4. phis' = [phis EXCEPT ![v] = IF level = 0 THEN NewPhi(@, n) ELSE StoreLastState(@, n)]
      /\ cur' = [cur EXCEPT ![v] = AdvanceSSA(ssa[v])]
  BY <1>3 DEF StoreConst, Assign
<1>5. phis'[v] \in {NewPhi(<<>>, n), StoreLastState(<<>>, n)} /\ cur'[v] = 0
  <2>1. AdvanceSSA(Absent) = 0
    BY DEF AdvanceSSA
  <2> QED BY <1>1, <1>2, <1>4, <2>1
<1>6. phis'[v] = << <<0>> >>
  BY <1>5 DEF NewPhi, StoreLastState
<1>7. GetLastState(<< <<0>> >>) = 0
  <2>1. << <<0>> >> # <<>>
    OBVIOUS
  <2>2. PICK u : u = <<0>>
    OBVIOUS
  <2>3. Last(<<u>>) = u
    BY DEF Last
  <2>4. Last(u) = 0
    BY <2>2 DEF Last
  <2> QED BY <2>1, <2>2, <2>3, <2>4 DEF GetLastState
<1> QED BY <1>5, <1>6, <1>7

\* A store of a variable that is known.
LEMMA TracedStored ==
  ASSUME IInv, runStart = FALSE, Stores, NEW v \in Vars, ssa[v] # Absent, NEW k \in Nat, level = k, NEW x,
         Len(phis[v]) >= k + 1, Fits(phis[v], k, x), GetLastState(phis[v]) = cur[v]
  PROVE  Fits(phis'[v], k, x) /\ GetLastState(phis'[v]) = cur'[v]
<1>1. phis \in [Vars -> Seq(NonEmpty(Nat))] /\ cur \in [Vars -> Nat] /\ cur \in Versions /\ ssa[v] \in Nat
  BY DEF IInv, TypeOK, Versions
<1>2. PICK w \in Vars, base \in [Vars -> Nat \cup {Absent}], ts \in Trails : Assigned(w, base, ts)
  BY StoresAssign
<1>3. PICK num : Assign(w, base, num, ts)
  BY <1>2 DEF Assigned
<1>4. PICK m : m = GetSSA(base[w]) + 1
  OBVIOUS
<1>5. phis' = [phis EXCEPT ![w] = IF level = 0 THEN NewPhi(@, m) ELSE StoreLastState(@, m)]
      /\ cur' = [cur EXCEPT ![w] = AdvanceSSA(base[w])]
  BY <1>3, <1>4 DEF Assign
<1>6. CASE w # v
  <2>1. phis'[v] = phis[v] /\ cur'[v] = cur[v]
    BY <1>1, <1>5, <1>6
  <2> QED BY <2>1
<1>7. CASE w = v
  <2>1. base[v] = ssa[v]
    BY <1>2 DEF Assigned
  <2>2. m = ssa[v] + 1 /\ AdvanceSSA(base[v]) = m /\ m \in Nat
    BY <1>1, <1>4, <1>7, <2>1 DEF GetSSA, AdvanceSSA
  <2>3. phis'[v] = (IF level = 0 THEN NewPhi(phis[v], m) ELSE StoreLastState(phis[v], m)) /\ cur'[v] = m
    BY <1>1, <1>5, <1>7, <2>2
  <2>4. phis[v] \in Seq(NonEmpty(Nat)) /\ phis[v] # <<>>
    <3>1. Len(<<>>) = 0
      OBVIOUS
    <3> QED BY <1>1, <3>1
  <2>5. CASE level = 0
    <3>1. phis'[v] = Append(phis[v], <<m>>)
      BY <2>3, <2>4, <2>5 DEF NewPhi
    <3>2. GetLastState(phis'[v]) = m
      BY <2>2, <2>4, <3>1, FitsPut
    <3>3. \A d \in 1..0 : FALSE
      OBVIOUS
    <3>4. Fits(phis'[v], 0, x)
      BY <3>3 DEF Fits
    <3> QED BY <2>3, <2>5, <3>2, <3>4
  <2>6. CASE level # 0
    <3>1. phis'[v] = StoreLastState(phis[v], m)
      BY <2>3, <2>6
    <3> QED BY <2>2, <2>3, <2>4, <3>1, FitsStored
  <2> QED BY <2>5, <2>6
<1> QED BY <1>6, <1>7

\* A step that neither opens, halves nor ends a conditional.
LEMMA TracedStill ==
  ASSUME IInv, RInv, FromGlobals, CapsFirst, runStart = FALSE, Stores \/ Idles, Step,
         NEW k, NEW f, NEW g, Stacked(agenda, k, f), Moved(agenda, f, agenda', g, k),
         Deep(k), LevelOf(k), ~At("capCond"), NEW v \in Vars, Own(code, v), Known(v) => Traced(v, k, f), Known(v)'
  PROVE  Traced(v, k, g)'
<1>1. \A d \in 1..k : agenda[f[d]].do = "else"
  BY ElseBelow
<1>2. PICK x : x = Openers(agenda, k, f, cur, v)
  OBVIOUS
<1>3. Openers(agenda', k, g, cur', v) = x
  BY <1>1, <1>2, SameOpeners
<1>4. k \in Nat /\ level = k
  BY DEF LevelOf, Stacked
<1>5. CASE Known(v)
  <2>1. Fits(phis[v], k, x) /\ GetLastState(phis[v]) = cur[v] /\ Len(phis[v]) >= k + 1 /\ ssa[v] # Absent
    BY <1>2, <1>5 DEF Traced, Deep, Known
  <2>2. CASE Stores
    <3>1. Fits(phis'[v], k, x) /\ GetLastState(phis'[v]) = cur'[v]
      BY <1>4, <2>1, <2>2, TracedStored
    <3> QED BY <1>3, <3>1 DEF Traced
  <2>3. CASE Idles
    <3>1. phis' = phis
      BY <2>3 DEF Idles, ParseFunction, ParseBlock, EndFalse, ParseBuiltIn, At, StoreRound, ParseCall,
           EndParseCall, ExecuteCallstack, ParseTerm, ParseCmp, ConstantRule, genVars
    <3>2. cur'[v] = cur[v]
      <4>1. CASE ConstantRule
        <5>1. agenda \in Seq(Items) /\ agenda # <<>> /\ Head(agenda) = agenda[1] /\ 1 \in DOMAIN agenda
              /\ Head(agenda).do = "global"
          BY <4>1 DEF IInv, TypeOK, ConstantRule, At
        <5>2. ssa[Head(agenda).v] = Absent
          BY <5>1 DEF RInv, GlobalsFirst
        <5>3. Head(agenda).v # v
          BY <2>1, <5>2
        <5>4. PICK n, u : u = Head(agenda).v /\ cur' = [cur EXCEPT ![u] = n]
          BY <4>1 DEF ConstantRule
        <5>5. cur \in [Vars -> Nat]
          BY DEF IInv, TypeOK, Versions
        <5> QED BY <5>3, <5>4, <5>5
      <4>2. CASE ~ConstantRule
        <5>1. cur' = cur
          BY <2>3, <4>2 DEF Idles, ParseFunction, ParseBlock, EndFalse, ParseBuiltIn, At, StoreRound, ParseCall,
             EndParseCall, ExecuteCallstack, ParseTerm, ParseCmp, histVars
        <5> QED BY <5>1
      <4> QED BY <4>1, <4>2
    <3> QED BY <1>3, <2>1, <3>1, <3>2 DEF Traced
  <2> QED BY <2>2, <2>3
<1>6. CASE ~Known(v)
  <2>1. StoreConst /\ Head(agenda).dst = v /\ Coming(v)
    BY <1>6, OwnFirst DEF RInv, Started
  <2>2. GetLastState(phis'[v]) = cur'[v]
    BY <2>1, TracedFirst
  <2>3. k = 0
    BY <1>6 DEF Deep
  <2>4. \A d \in 1..0 : FALSE
    OBVIOUS
  <2>5. Fits(phis'[v], 0, x)
    BY <2>4 DEF Fits
  <2> QED BY <1>3, <2>2, <2>3, <2>5 DEF Traced
<1> QED BY <1>5, <1>6

\* A conditional is opened.
LEMMA TracedOpened ==
  ASSUME IInv, CapsFirst, Opens, NEW k, NEW f, NEW g, Stacked(agenda, k, f),
         Moved(agenda, f, agenda', g, k), agenda'[g[k + 1]] = Opened,
         NEW v \in Vars, Len(phis[v]) >= k + 1, Traced(v, k, f)
  PROVE  Traced(v, k + 1, g)'
<1>1. ~At("capCond") /\ k \in Nat
  BY DEF Opens, ParseTerm, At, Stacked
<1>2. \A d \in 1..k : agenda[f[d]].do = "else"
  BY <1>1, ElseBelow
<1>3. PICK p, x, y : /\ p = phis[v] /\ x = Openers(agenda, k, f, cur, v)
                     /\ y = Openers(agenda', k + 1, g, cur', v)
  OBVIOUS
<1>4. Fits(p, k, x) /\ GetLastState(p) = cur[v] /\ Len(p) >= k + 1 /\ p \in Seq(NonEmpty(Nat))
  BY <1>1, <1>3 DEF Traced, IInv, TypeOK
<1>5. cur' = cur /\ phis'[v] = InitPhi(p)
  BY <1>3 DEF Opens, ParseTerm
<1>6. p # <<>>
  <2>1. Len(<<>>) = 0
    OBVIOUS
  <2> QED BY <1>1, <1>4, <2>1
<1>7. PICK n \in Nat : n = GetLastState(p)
  BY <1>4, StackReads
<1>8. phis'[v] = Append(p, <<n>>)
  BY <1>5, <1>6, <1>7 DEF InitPhi
<1>9. y[k + 1] = n
  <2>1. k + 1 \in 1..(k + 1)
    BY <1>1
  <2>2. y[k + 1] = Opener(Opened, cur', v)
    BY <1>3, <2>1 DEF Openers
  <2>3. Opener(Opened, cur', v) = cur[v]
    BY DEF Opener, Opened, Else
  <2> QED BY <1>4, <1>7, <2>2, <2>3
<1>10. \A d \in 1..k : y[d] = x[d]
  <2>1. \A d \in 1..k : d \in 1..(k + 1)
    BY <1>1
  <2>2. \A d \in 1..k : agenda'[g[d]] = agenda[f[d]]
    BY DEF Moved
  <2>3. \A d \in 1..k : y[d] = Opener(agenda'[g[d]], cur', v) /\ x[d] = Opener(agenda[f[d]], cur, v)
    BY <1>3, <2>1 DEF Openers
  <2> QED BY <1>2, <2>2, <2>3 DEF Opener
<1>11. Fits(phis'[v], k + 1, y) /\ GetLastState(phis'[v]) = n
  BY <1>1, <1>4, <1>6, <1>7, <1>8, <1>9, <1>10, FitsPut
<1> QED BY <1>3, <1>4, <1>5, <1>7, <1>11 DEF Traced

\* Its branch ends.
LEMMA TracedHalved ==
  ASSUME IInv, CapsFirst, ParseElse, NEW k \in Nat \ {0}, NEW f, NEW g, Stacked(agenda, k, f), f[k] = 1,
         agenda[1] = Head(agenda), Moved(agenda, f, agenda', g, k - 1), agenda'[g[k]] = Halved,
         At("capCond")', NEW v \in Vars, Traced(v, k, f)
  PROVE  Traced(v, k, g)'
<1>1. At("else") /\ cur' = Head(agenda).start /\ phis' = phis
  BY DEF ParseElse, genVars
<1>2. ~At("capCond") /\ agenda[1].do = "else"
  BY <1>1 DEF At
<1>3. \A d \in 1..k : agenda[f[d]].do = "else"
  BY <1>2, ElseBelow
<1>4. ASSUME NEW d \in 1..k PROVE Opener(agenda'[g[d]], cur', v) = Opener(agenda[f[d]], cur, v)
  <2>1. CASE d = k
    <3>1. Opener(Halved, cur', v) = cur'[v]
      BY DEF Opener, Halved, CapCond
    <3>2. Opener(agenda[f[k]], cur, v) = Head(agenda).start[v]
      BY <1>2 DEF Opener
    <3> QED BY <1>1, <2>1, <3>1, <3>2
  <2>2. CASE d # k
    <3>1. d \in 1..(k - 1)
      BY <2>2
    <3>2. agenda'[g[d]] = agenda[f[d]]
      BY <3>1 DEF Moved
    <3> QED BY <1>3, <3>2 DEF Opener
  <2> QED BY <2>1, <2>2
<1>5. Openers(agenda', k, g, cur', v) = Openers(agenda, k, f, cur, v)
  BY <1>4 DEF Openers
<1> QED BY <1>1, <1>5 DEF Traced

\* It ends, and what occurs in the branch gets a phi.
LEMMA FitsEnded ==
  ASSUME NEW k \in Nat \ {0}, NEW p \in Seq(NonEmpty(Nat)), Len(p) >= k + 1, NEW x, Fits(p, k, x), NEW n \in Nat,
         NEW q, q \in {p, StoreLastState(p, n)} \/ (k = 1 /\ q = NewPhi(p, n))
  PROVE  /\ Fits(StoreLastState(PopPhi(q), n), k - 1, x)
         /\ GetLastState(StoreLastState(PopPhi(q), n)) = n
<1>1. CASE q \in {p, StoreLastState(p, n)}
  <2>1. p # <<>> /\ Len(p) \in Nat
    <3>1. Len(<<>>) = 0 /\ Len(p) \in Nat
      OBVIOUS
    <3> QED BY <3>1
  <2>2. q \in Seq(NonEmpty(Nat)) /\ Len(q) = Len(p) /\ Fits(q, k, x)
    <3>1. CASE q = p
      BY <3>1
    <3>2. CASE q = StoreLastState(p, n)
      BY <2>1, <3>2, StackWrites, Heights, FitsStored
    <3> QED BY <1>1, <3>1, <3>2
  <2>3. PopPhi(q) \in Seq(NonEmpty(Nat)) /\ Len(PopPhi(q)) = Len(p) - 1 /\ Fits(PopPhi(q), k - 1, x)
    BY <2>2, FitsPopped
  <2>4. k - 1 \in Nat /\ Len(PopPhi(q)) >= (k - 1) + 1
    BY <2>1, <2>3
  <2> QED BY <2>3, <2>4, FitsStored
<1>2. CASE k = 1 /\ q = NewPhi(p, n)
  <2>1. Len(p) \in Nat /\ Len(p) >= 2
    BY <1>2
  <2>2. q \in Seq(NonEmpty(Nat)) /\ Len(q) = Len(p) + 1
    BY <1>2, StackWrites, Heights
  <2>3. q # <<>>
    <3>1. Len(<<>>) = 0
      OBVIOUS
    <3> QED BY <2>1, <2>2, <3>1
  <2>4. PopPhi(q) \in Seq(NonEmpty(Nat)) /\ Len(PopPhi(q)) = Len(p)
    <3>1. PopPhi(q) \in Seq(NonEmpty(Nat)) /\ Len(PopPhi(q)) = Len(q) - 1
      BY <2>2, <2>3, StackWrites, Heights
    <3> QED BY <2>1, <2>2, <3>1
  <2>5. \A d \in 1..0 : FALSE
    OBVIOUS
  <2>6. Fits(PopPhi(q), 0, x)
    BY <2>5 DEF Fits
  <2>7. 0 \in Nat /\ Len(PopPhi(q)) >= 0 + 1
    BY <2>1, <2>4
  <2> QED BY <1>2, <2>4, <2>6, <2>7, FitsStored
<1> QED BY <1>1, <1>2

LEMMA TracedEnded ==
  ASSUME IInv, CapsFirst, CapConditional, NEW k \in Nat \ {0}, NEW f, NEW g, Stacked(agenda, k, f), f[k] = 1,
         LevelOf(k), Moved(agenda, f, agenda', g, k - 1),
         NEW v \in Vars, Len(phis[v]) >= k + 1, Traced(v, k, f)
  PROVE  Traced(v, k - 1, g)'
<1> DEFINE c      == Head(agenda)
           fork   == CondFork(c.true)
           used   == ForkVars(fork)
           phi    == [w \in Vars |-> AdvanceSSA(ssa[w])]
           popped == [w \in Vars |-> SyncedPhis(w, fork, phi[w])]
<1>1. At("capCond") /\ agenda \in Seq(Items) /\ c = agenda[1] /\ c.do = "capCond"
  <2>1. At("capCond")
    BY DEF CapConditional
  <2> QED BY <2>1 DEF IInv, TypeOK, At
<1>2. \A d \in 1..(k - 1) : agenda[f[d]].do = "else"
  <2>1. \A d \in 1..(k - 1) : d \in 1..k /\ d # k
    OBVIOUS
  <2> QED BY <2>1, ElseBelow
<1>3. PICK p, x, n : p = phis[v] /\ x = Openers(agenda, k, f, cur, v) /\ n = AdvanceSSA(ssa[v])
  OBVIOUS
<1>4. Fits(p, k, x) /\ Len(p) >= k + 1 /\ p \in Seq(NonEmpty(Nat)) /\ n \in Nat
  <2>1. ssa[v] \in Nat \cup {Absent} /\ phis[v] \in Seq(NonEmpty(Nat))
    BY DEF IInv, TypeOK
  <2>2. n \in Nat
    BY <1>3, <2>1, Numbers
  <2> QED BY <1>3, <2>1, <2>2 DEF Traced
<1>5. x[k] = cur[v]
  <2>1. k \in 1..k
    OBVIOUS
  <2>2. x[k] = Opener(agenda[f[k]], cur, v)
    BY <1>3, <2>1 DEF Openers
  <2> QED BY <1>1, <2>2 DEF Opener
<1>6. In(level) = k
  <2>1. level = k - 1
    BY <1>1 DEF LevelOf
  <2> QED BY <2>1 DEF In
<1>7. /\ phis'[v] = IF v \in used THEN StoreLastState(popped[v], phi[v]) ELSE popped[v]
      /\ cur'[v] = IF v \in used THEN phi[v] ELSE cur[v]
  BY DEF CapConditional
<1>8. phi[v] = n
  BY <1>3
<1>9. ASSUME NEW y, \A d \in 1..(k - 1) : y[d] = x[d], NEW q, Fits(q, k - 1, x)
      PROVE  Fits(q, k - 1, y)
  BY <1>9 DEF Fits
<1>10. PICK y : y = Openers(agenda', k - 1, g, cur', v)
  OBVIOUS
<1>11. \A d \in 1..(k - 1) : y[d] = x[d]
  <2>1. y = Openers(agenda, k - 1, f, cur, v)
    BY <1>2, <1>10, SameOpeners
  <2>2. \A d \in 1..(k - 1) : d \in 1..k
    OBVIOUS
  <2> QED BY <1>3, <2>1, <2>2 DEF Openers
<1>12. CASE v \in used
  <2>1. \E q : /\ popped[v] = PopPhi(q)
               /\ q \in {p, StoreLastState(p, n)} \/ (k = 1 /\ q = NewPhi(p, n))
    BY <1>3, <1>6, <1>8 DEF SyncedPhis
  <2>2. PICK q : /\ popped[v] = PopPhi(q)
                 /\ q \in {p, StoreLastState(p, n)} \/ (k = 1 /\ q = NewPhi(p, n))
    BY <2>1
  <2>3. phis'[v] = StoreLastState(PopPhi(q), n) /\ cur'[v] = n
    BY <1>7, <1>8, <1>12, <2>2
  <2>4. Fits(phis'[v], k - 1, x) /\ GetLastState(phis'[v]) = n
    BY <1>4, <2>2, <2>3, FitsEnded
  <2>5. Fits(phis'[v], k - 1, y)
    BY <1>9, <1>11, <2>4
  <2> QED BY <1>10, <2>3, <2>4, <2>5 DEF Traced
<1>13. CASE v \notin used
  <2>1. fork[v] = <<>>
    BY <1>13 DEF ForkVars
  <2> HIDE DEF fork, used
  <2>2. Len(fork[v]) # 1
    <3>1. Len(<<>>) = 0
      OBVIOUS
    <3> QED BY <2>1, <3>1
  <2>3. popped[v] = PopPhi(p)
    BY <1>3, <2>2 DEF SyncedPhis
  <2>4. phis'[v] = PopPhi(p) /\ cur'[v] = cur[v]
    BY <1>7, <1>13, <2>3
  <2>5. Fits(PopPhi(p), k - 1, x) /\ GetLastState(PopPhi(p)) = x[k]
    BY <1>4, FitsPopped
  <2>6. Fits(phis'[v], k - 1, y)
    BY <1>9, <1>11, <2>4, <2>5
  <2> QED BY <1>5, <1>10, <2>4, <2>5, <2>6 DEF Traced
<1> QED BY <1>12, <1>13

\* The entry after the true branch of a conditional without else is its end.
NoFalse == \A i \in DOMAIN agenda : agenda[i].do # "endElse"

MInv == /\ NoElse(code) /\ Sequential(code) /\ QInv({}) /\ LatestEnds
        /\ PathsInv /\ NoFalse /\ OpenPaths /\ MergesPathEnds

LEMMA StepNoFalse ==
  ASSUME IInv, PathsInv, NoFalse, Step
  PROVE  NoFalse'
<1>1. agenda # <<>> /\ agenda \in Seq(Items) /\ Head(agenda) = agenda[1] /\ 1 \in DOMAIN agenda
  BY StepMakes DEF IInv, TypeOK
<1> DEFINE S == {h \in Items : h.do # "endElse"}
<1>2. \A i \in DOMAIN agenda : i # 1 => agenda[i] \in S
  BY <1>1 DEF NoFalse
<1>3. ASSUME NEW h \in Made, h.do = "endElse" PROVE FALSE
  <2>1. Head(agenda).do = "else" /\ Head(agenda).b # NoBlock
    BY <1>3 DEF Made, Origin
  <2>2. agenda[1].do = "else" => agenda[1].b = NoBlock
    BY <1>1 DEF PathsInv, StartsKept
  <2> QED BY <1>1, <2>1, <2>2
<1>4. Made \subseteq S
  BY <1>3 DEF Made
<1> HIDE DEF S
<1>5. \A i \in DOMAIN agenda' : agenda'[i] \in S
  BY <1>2, <1>4, AgendaNext
<1> QED BY <1>5 DEF NoFalse, S

\* The level counts the open conditionals, the one that is ending left out.
LEMMA StepLevel ==
  ASSUME IInv, Step, NoRuns, NoFalse, PathsInv, NEW k \in Nat, LevelOf(k)
  PROVE  /\ Opens => level' = k + 1
         /\ ParseElse /\ k # 0 => level' = k - 1
         /\ CapConditional => level' = k - 1
         /\ ~Opens /\ ~ParseElse /\ ~CapConditional => level' = k
<1>1. agenda \in Seq(Items) /\ agenda # <<>> /\ Head(agenda) = agenda[1] /\ 1 \in DOMAIN agenda
  BY StepMakes DEF IInv, TypeOK
<1>2. CASE Opens
  <2>1. level' = In(level) /\ ~At("capCond") /\ ~ParseElse /\ ~CapConditional
    BY <1>2 DEF Opens, ParseTerm, ParseElse, CapConditional, At
  <2> QED BY <1>2, <2>1 DEF LevelOf, In
<1>3. CASE ParseElse
  <2>1. At("else")
    BY <1>3 DEF ParseElse
  <2>2. ~At("capCond") /\ ~Opens /\ ~CapConditional
    BY <2>1 DEF At, Opens, ParseTerm, CapConditional
  <2>3. Head(agenda).b = NoBlock
    BY <1>1, <2>1 DEF PathsInv, StartsKept, At
  <2>4. level' = Out(level)
    BY <1>3, <2>3 DEF ParseElse
  <2> QED BY <1>3, <2>2, <2>4 DEF LevelOf, Out
<1>4. CASE CapConditional
  <2>1. level' = level /\ At("capCond")
    BY <1>4 DEF CapConditional, ctlVars
  <2>2. ~Opens /\ ~ParseElse
    BY <2>1 DEF At, Opens, ParseTerm, ParseElse
  <2> QED BY <1>4, <2>1, <2>2 DEF LevelOf
<1>5. CASE ~Opens /\ ~ParseElse /\ ~CapConditional
  <2>1. Head(agenda).do \notin {"endElse", "calls", "endCall"}
    BY <1>1 DEF NoFalse, NoRuns, FromRun
  <2>2. level' = level /\ ~At("capCond")
    BY <1>5, <2>1 DEF Step, Opens, ParseFunction, ParseBlock, ParseTerm, EndFalse, StoreConst,
         StoreInfix, StoreCopy, ParseCmp, ParseBuiltIn, ConstantRule, StoreRound, ParseCall,
         EndParseCall, ExecuteCallstack, RunOption, RunCall, EndRunCall, EndRunOption,
         CapRunParallel, At, ctlVars
  <2> QED BY <1>5, <2>2 DEF LevelOf
<1> QED BY <1>2, <1>3, <1>4, <1>5

\* Only the end of a branch leads to the end of a conditional.
LEMMA CapNext ==
  ASSUME IInv, GlobalsFirst, runStart = FALSE, NoRuns, NoElse(code), Head(agenda).do # "copy",
         PathsInv, Step, ~ParseElse
  PROVE  ~At("capCond")'
<1>1. Head(agenda).do # "else"
  BY DEF Step, ParseFunction, ParseBlock, ParseTerm, EndFalse, CapConditional,
       StoreConst, StoreInfix, StoreCopy, ParseCmp, ParseBuiltIn, ConstantRule, StoreRound,
       ParseCall, EndParseCall, ExecuteCallstack, RunOption, RunCall, EndRunCall,
       EndRunOption, CapRunParallel, At
<1>2. \A i \in DOMAIN agenda' : agenda'[i].do # "capCond"
  BY <1>1, StartsNext
<1>3. IInv'
  BY NextInv DEF Next
<1>4. agenda' \in Seq(Items)
  BY <1>3 DEF IInv, TypeOK
<1>5. agenda' # <<>> => Head(agenda') = agenda'[1] /\ 1 \in DOMAIN agenda'
  BY <1>4
<1> QED BY <1>2, <1>5 DEF At

\* Every step.
LEMMA StepOpenPaths ==
  ASSUME IInv, EInv, DInv, MInv, Step, PathsInv'
  PROVE  OpenPaths'
<1>1. PICK k, f : /\ Stacked(agenda, k, f) /\ Deep(k) /\ LevelOf(k)
                  /\ \A v \in Vars : Own(code, v) /\ Known(v) => Traced(v, k, f)
  BY DEF MInv, OpenPaths
<1>2. k \in Nat /\ FromGlobals /\ RInv /\ GlobalsFirst /\ CapsFirst /\ PathsInv /\ runStart = FALSE
      /\ NoRuns /\ NoFalse /\ NoElse(code)
  BY <1>1 DEF Stacked, DInv, EInv, RInv, MInv, PathsInv, QInv
<1>3. agenda # <<>> /\ agenda \in Seq(Items) /\ Head(agenda).do # "copy" /\ code' = code
  BY HeadNoCopy, StepMakes, CodeKept DEF IInv, TypeOK
<1>4. \A v \in Vars : Own(code, v) /\ Known(v) => Len(phis[v]) >= k + 1
  BY <1>1 DEF Deep
<1>5. ~ParseElse => ~At("capCond")'
  BY <1>2, <1>3, CapNext
<1>6. ASSUME NEW l \in Nat, NEW g, Stacked(agenda', l, g), Deep(l)', level' = IF At("capCond")' THEN l - 1 ELSE l,
             \A v \in Vars : Own(code, v) /\ Known(v)' => Traced(v, l, g)'
      PROVE  OpenPaths'
  <2>1. LevelOf(l)'
    BY <1>6 DEF LevelOf
  <2>2. \A v \in Vars : Own(code', v) /\ Known(v)' => Traced(v, l, g)'
    BY <1>3, <1>6
  <2> QED BY <1>6, <2>1, <2>2 DEF OpenPaths
<1>7. ASSUME Head(agenda).do \notin Early \cup {"function", "block"}
      PROVE  \A v \in Vars : Known(v)
  BY <1>2, <1>3, <1>7, AllKnown DEF RInv
<1>8. CASE Opens
  <2>1. ~CapConditional /\ ~ParseElse /\ Head(agenda).do = "term"
    BY <1>8 DEF Opens, ParseTerm, CapConditional, ParseElse, At
  <2>2. PICK g : /\ Stacked(agenda', k + 1, g) /\ Moved(agenda, f, agenda', g, k)
                 /\ agenda'[g[k + 1]] = Opened
    BY <1>1, <1>8, OpenStacked
  <2>3. Deep(k + 1)'
    BY <1>1, <1>2, <1>8, <2>1, DeepKept
  <2>4. \A v \in Vars : Known(v)
    BY <1>7, <2>1 DEF Early
  <2>5. \A v \in Vars : Own(code, v) => Traced(v, k + 1, g)'
    BY <1>1, <1>2, <1>4, <1>8, <2>2, <2>4, TracedOpened
  <2>6. level' = k + 1 /\ ~At("capCond")' /\ k + 1 \in Nat
    BY <1>1, <1>2, <1>5, <1>8, <2>1, StepLevel
  <2> QED BY <1>6, <2>2, <2>3, <2>5, <2>6
<1>9. CASE ParseElse
  <2>1. ~CapConditional /\ ~Opens /\ Head(agenda).do = "else"
    BY <1>9 DEF Opens, ParseTerm, CapConditional, ParseElse, At
  <2>2. k \in Nat \ {0} /\ f[k] = 1 /\ agenda[1] = Head(agenda)
    BY <1>1, <1>9, ElseStacked
  <2>3. PICK g : /\ Stacked(agenda', k, g) /\ Moved(agenda, f, agenda', g, k - 1)
                 /\ agenda'[g[k]] = Halved
    BY <1>1, <1>9, ElseStacked
  <2>4. Deep(k)'
    BY <1>1, <1>2, <2>1, DeepKept
  <2>5. \A v \in Vars : Known(v)
    BY <1>7, <2>1 DEF Early
  <2>6. At("capCond")'
    <3>1. Halved.do = "capCond"
      BY DEF Halved, CapCond
    <3>2. g[k] \in DOMAIN agenda'
      <4>1. k \in 1..k
        BY <2>2
      <4> QED BY <2>3, <4>1 DEF Stacked
    <3>3. g[k] = 1
      BY <2>3, <3>1, <3>2 DEF PathsInv, CapsFirst
    <3>4. agenda' \in Seq(Items)
      <4>1. IInv'
        BY NextInv DEF Next
      <4> QED BY <4>1 DEF IInv, TypeOK
    <3>5. agenda' # <<>> /\ Head(agenda') = agenda'[1]
      BY <3>2, <3>4
    <3> QED BY <2>3, <3>1, <3>3, <3>5 DEF At
  <2>7. \A v \in Vars : Own(code, v) => Traced(v, k, g)'
    BY <1>1, <1>2, <1>9, <2>2, <2>3, <2>5, <2>6, TracedHalved
  <2>8. level' = k - 1
    BY <1>1, <1>2, <1>9, <2>2, StepLevel
  <2> QED BY <1>2, <1>6, <2>3, <2>4, <2>6, <2>7, <2>8
<1>10. CASE CapConditional
  <2>1. ~ParseElse /\ Head(agenda).do = "capCond"
    BY <1>10 DEF CapConditional, ParseElse, At
  <2>2. k \in Nat \ {0} /\ f[k] = 1 /\ agenda[1] = Head(agenda)
    BY <1>1, <1>10, CapStacked
  <2>3. ~panicked' /\ Deep(k - 1)'
    BY <1>1, <1>2, <1>10, <2>2, DeepEnd DEF DInv
  <2>4. PICK g : Stacked(agenda', k - 1, g) /\ Moved(agenda, f, agenda', g, k - 1)
    BY <1>1, <1>10, <2>3, CapStacked
  <2>5. \A v \in Vars : Known(v)
    BY <1>7, <2>1 DEF Early
  <2>6. \A v \in Vars : Own(code, v) => Traced(v, k - 1, g)'
    BY <1>1, <1>2, <1>4, <1>10, <2>2, <2>4, <2>5, TracedEnded
  <2>7. level' = k - 1 /\ ~At("capCond")' /\ k - 1 \in Nat
    BY <1>1, <1>2, <1>5, <1>10, <2>1, <2>2, StepLevel
  <2> QED BY <1>6, <2>3, <2>4, <2>6, <2>7
<1>11. CASE ~Opens /\ ~ParseElse /\ ~CapConditional
  <2>1. Stores \/ Idles
    BY <1>2, <1>3, <1>11, QuietSteps DEF Opens
  <2>2. Head(agenda).do \notin Frames
    BY <1>11 DEF Frames, Step, ParseFunction, ParseBlock, ParseTerm, EndFalse,
         StoreConst, StoreInfix, StoreCopy, ParseCmp, ParseBuiltIn, ConstantRule, StoreRound,
         ParseCall, EndParseCall, ExecuteCallstack, RunOption, RunCall, EndRunCall,
         EndRunOption, CapRunParallel, At
  <2>3. ~At("capCond")
    BY <2>2 DEF Frames, At
  <2>4. PICK g : Stacked(agenda', k, g) /\ Moved(agenda, f, agenda', g, k)
    BY <1>1, <1>11, <2>2, OtherStacked
  <2>5. Deep(k)'
    BY <1>1, <1>2, <1>11, DeepKept
  <2>6. \A v \in Vars : Own(code, v) /\ Known(v)' => Traced(v, k, g)'
    BY <1>1, <1>2, <2>1, <2>3, <2>4, TracedStill
  <2>7. level' = k /\ ~At("capCond")'
    BY <1>1, <1>2, <1>5, <1>11, StepLevel
  <2> QED BY <1>2, <1>6, <2>4, <2>5, <2>6, <2>7
<1> QED BY <1>8, <1>9, <1>10, <1>11

\* The end of a conditional without else: its phi is equated with the end of the
\* branch and with the version before it.
LEMMA CapMerges ==
  ASSUME IInv, EInv, DInv, MInv, CapConditional, NEW v \in Vars, Used(v)
  PROVE  CondEnd(v, Head(agenda).true) = Head(agenda).end[v] /\ CondEnd(v, trail) = cur[v]
<1> DEFINE c == Head(agenda)
<1>1. At("capCond") /\ agenda # <<>> /\ agenda \in Seq(Items) /\ c = agenda[1] /\ 1 \in DOMAIN agenda
      /\ c.do = "capCond"
  <2>1. At("capCond")
    BY DEF CapConditional
  <2> QED BY <2>1 DEF IInv, TypeOK, At
<1>2. AroundBranch /\ CapsFirst
  BY <1>1 DEF MInv, PathsInv
<1>3. trail[v].vals = {} /\ ~Said(trail, v) /\ Said(c.true, v)
  <2>1. trail[v].vals = {}
    BY <1>2 DEF AroundBranch, NoTrails, NoTrail
  <2> QED BY <2>1 DEF Used, Said
<1>4. c.true[v].end = GetSSA(ssa[v])
  <2>1. FrameLatest(ssa, trail, agenda, 1)
    BY <1>1 DEF MInv, LatestEnds
  <2>2. Latest(ssa, c.true, v)
    BY <1>1, <1>3, <2>1, FrameFirst DEF Frames
  <2> QED BY <1>3, <2>2 DEF Latest
<1>5. CondEnd(v, c.true) = c.end[v]
  <2>1. c.end[v] = GetSSA(ssa[v])
    BY <1>2 DEF AroundBranch
  <2>2. CondEnd(v, c.true) = c.true[v].end
    BY <1>3 DEF CondEnd, Said
  <2> QED BY <1>4, <2>1, <2>2
<1>6. PICK k, f : /\ Stacked(agenda, k, f) /\ Deep(k)
                  /\ \A w \in Vars : Own(code, w) /\ Known(w) => Traced(w, k, f)
  BY DEF MInv, OpenPaths
<1>7. k \in Nat \ {0} /\ f[k] = 1
  BY <1>6, CapStacked
<1>8. Own(code, v)
  <2>1. CASE Unsaid(v)
    <3>1. Mute(c, v)
      BY <1>1, <2>1 DEF Unsaid
    <3> QED BY <1>1, <1>3, <3>1 DEF Mute
  <2> QED BY <2>1 DEF DInv
<1>9. Known(v)
  BY <1>6, <1>7 DEF Deep
<1>10. PICK p, x : p = phis[v] /\ x = Openers(agenda, k, f, cur, v)
  OBVIOUS
<1>11. Fits(p, k, x) /\ Len(p) >= k + 1 /\ p \in Seq(NonEmpty(Nat))
  BY <1>6, <1>8, <1>9, <1>10 DEF Traced, Deep, IInv, TypeOK
<1>12. GetStartState(p) = x[k]
  BY <1>7, <1>11, FitsPopped
<1>13. x[k] = cur[v]
  <2>1. k \in 1..k
    BY <1>7
  <2>2. x[k] = Opener(agenda[f[k]], cur, v)
    BY <1>10, <2>1 DEF Openers
  <2> QED BY <1>1, <1>7, <2>2 DEF Opener
<1>14. CondEnd(v, trail) = GetStartState(phis[v])
  BY <1>3 DEF CondEnd
<1> QED BY <1>5, <1>10, <1>12, <1>13, <1>14

LEMMA StepMerges ==
  ASSUME IInv, EInv, DInv, MInv, Step
  PROVE  MergesPathEnds'
<1>1. agenda \in Seq(Items) /\ agenda # <<>> /\ Head(agenda) = agenda[1] /\ 1 \in DOMAIN agenda
  BY StepMakes DEF IInv, TypeOK
<1>2. CASE seen'.merges = {}
  BY <1>2 DEF MergesPathEnds
<1>3. CASE CapConditional
  <2> DEFINE c    == Head(agenda)
             used == ForkVars(CondFork(c.true))
             phi  == [v \in Vars |-> AdvanceSSA(ssa[v])]
  <2>1. seen' = [reads |-> {},
                   merges |-> {[var |-> v, phi |-> phi[v], ends |-> {CondEnd(v, c.true)},
                                want |-> {c.end[v]}] : v \in used}
                         \cup {[var |-> v, phi |-> phi[v], ends |-> {CondEnd(v, trail)},
                                want |-> {cur[v]}] : v \in used}]
    BY <1>3 DEF CapConditional
  <2>2. ASSUME NEW v \in used PROVE v \in Vars /\ Used(v)
    <3>1. v \in Vars /\ CondFork(c.true)[v] # <<>>
      BY <2>2 DEF ForkVars
    <3>2. CASE ~Used(v)
      <4>1. c.true[v].vals = {} /\ trail[v].vals = {}
        BY <3>2 DEF Used, Said
      <4>2. Choice(c.true[v], "true") = <<>> /\ Choice(trail[v], "false") = <<>>
        BY <4>1 DEF Choice
      <4>3. CondFork(c.true)[v] = Choice(c.true[v], "true") \o Choice(trail[v], "false")
        BY <3>1 DEF CondFork
      <4>4. <<>> \o <<>> = <<>>
        OBVIOUS
      <4> QED BY <3>1, <4>2, <4>3, <4>4
    <3> QED BY <3>1, <3>2
  <2>3. \A v \in used : CondEnd(v, c.true) = c.end[v] /\ CondEnd(v, trail) = cur[v]
    BY <1>3, <2>2, CapMerges
  <2> HIDE DEF used
  <2>4. ASSUME NEW m \in seen'.merges PROVE m.ends = m.want
    <3>1. \/ \E v \in used : m = [var |-> v, phi |-> phi[v], ends |-> {CondEnd(v, c.true)}, want |-> {c.end[v]}]
          \/ \E v \in used : m = [var |-> v, phi |-> phi[v], ends |-> {CondEnd(v, trail)}, want |-> {cur[v]}]
      BY <2>1, <2>4
    <3>2. ASSUME NEW v \in used,
                 m = [var |-> v, phi |-> phi[v], ends |-> {CondEnd(v, c.true)}, want |-> {c.end[v]}]
          PROVE  m.ends = m.want
      <4>1. m.ends = {CondEnd(v, c.true)} /\ m.want = {c.end[v]}
        BY <3>2
      <4> QED BY <2>3, <4>1
    <3>3. ASSUME NEW v \in used,
                 m = [var |-> v, phi |-> phi[v], ends |-> {CondEnd(v, trail)}, want |-> {cur[v]}]
          PROVE  m.ends = m.want
      <4>1. m.ends = {CondEnd(v, trail)} /\ m.want = {cur[v]}
        BY <3>3
      <4> QED BY <2>3, <4>1
    <3> QED BY <3>1, <3>2, <3>3
  <2> QED BY <2>4 DEF MergesPathEnds
<1>4. ~CapRunParallel
  BY <1>1 DEF CapRunParallel, At, MInv, QInv, NoRuns, FromRun
<1>5. CASE StoreInfix \/ StoreCopy \/ ParseCmp
  <2>1. seen'.merges = {}
    BY <1>5 DEF StoreInfix, StoreCopy, ParseCmp
  <2> QED BY <1>2, <2>1
<1>6. CASE \/ ParseFunction \/ ParseBlock \/ ParseTerm \/ ParseElse \/ EndFalse
           \/ StoreConst \/ ParseBuiltIn \/ ConstantRule \/ StoreRound
           \/ ParseCall \/ EndParseCall \/ ExecuteCallstack \/ RunOption \/ RunCall
           \/ EndRunCall \/ EndRunOption
  <2>1. Quiet
    BY <1>6 DEF ParseFunction, ParseBlock, ParseTerm, ParseElse, EndFalse, StoreConst,
           ParseBuiltIn, ConstantRule, StoreRound, ParseCall, EndParseCall, ExecuteCallstack,
           RunOption, RunCall, EndRunCall, EndRunOption
  <2>2. seen'.merges = {}
    BY <2>1 DEF Quiet
  <2> QED BY <1>2, <2>2
<1> QED BY <1>3, <1>4, <1>5, <1>6 DEF Step

LEMMA InitMerges == Init /\ NoElse(code) /\ Sequential(code) => MInv
<1> SUFFICES ASSUME Init, NoElse(code), Sequential(code) PROVE MInv
  OBVIOUS
<1>1. \A i \in DOMAIN agenda : agenda[i] \in Items /\ agenda[i].do \in {"global", "function"}
  BY InitAgenda
<1>2. QInv({}) /\ LatestEnds /\ PathsInv
  BY InitAbove, InitPaths DEF AInv
<1>3. NoFalse
  BY <1>1 DEF NoFalse
<1>4. MergesPathEnds
  BY DEF Init, MergesPathEnds
<1>5. PICK f : f = [c \in 1..0 |-> 1]
  OBVIOUS
<1>6. f \in [1..0 -> DOMAIN agenda] /\ \A c \in 1..0 : FALSE
  BY <1>5
<1>7. Stacked(agenda, 0, f)
  BY <1>1, <1>6 DEF Stacked, Frames
<1>8. \A v \in Vars : ~Known(v)
  BY DEF Init, Known
<1>9. ~At("capCond")
  <2>1. agenda \in Seq(Items)
    BY InitInv DEF IInv, TypeOK
  <2>2. agenda # <<>> => Head(agenda) = agenda[1] /\ 1 \in DOMAIN agenda
    BY <2>1
  <2> QED BY <1>1, <2>2 DEF At
<1>10. LevelOf(0)
  BY <1>9 DEF LevelOf, Init
<1>11. OpenPaths
  BY <1>7, <1>8, <1>10 DEF OpenPaths, Deep
<1> QED BY <1>2, <1>3, <1>4, <1>11 DEF MInv

LEMMA NextMerges == IInv /\ EInv /\ DInv /\ MInv /\ [Next]_vars => MInv'
<1> SUFFICES ASSUME IInv, EInv, DInv, MInv, [Next]_vars PROVE MInv'
  OBVIOUS
<1>1. CASE Step
  <2>1. agenda # <<>> /\ Head(agenda).do # "copy" /\ code' = code
    BY <1>1, HeadNoCopy, StepMakes, CodeKept
  <2>2. NoElse(code)' /\ Sequential(code)'
    BY <2>1 DEF MInv
  <2>3. {} \subseteq Reading /\ \A b \in Blocks : Apart(code.insts[b], {})
    BY DEF MInv, Sequential
  <2>4. QInv({})'
    BY <1>1, <2>3, StepQuiet DEF MInv
  <2>5. GlobalsFirst /\ runStart = FALSE /\ NoRuns /\ EndsReached /\ NoElse(code)
    BY DEF EInv, RInv, MInv, QInv
  <2>6. LatestEnds'
    BY <1>1, <2>1, <2>5, StepLatest DEF MInv
  <2>7. PathsInv'
    BY <1>1, <2>1, <2>5, StepPaths DEF MInv
  <2>8. NoFalse'
    BY <1>1, StepNoFalse DEF MInv
  <2>9. OpenPaths'
    BY <1>1, <2>7, StepOpenPaths
  <2>10. MergesPathEnds'
    BY <1>1, StepMerges
  <2> QED BY <2>2, <2>4, <2>6, <2>7, <2>8, <2>9, <2>10 DEF MInv
<1>2. CASE UNCHANGED vars
  <2>1. UNCHANGED <<code, agenda, ssa, phis, declared, level, trail, cur, seen, callstack, runStart, grouping>>
    BY <1>2 DEF vars, genVars, ctlVars, ruleVars, histVars
  <2>2. NoElse(code)' /\ Sequential(code)' /\ MergesPathEnds' /\ NoFalse'
    BY <2>1 DEF MInv, MergesPathEnds, NoFalse
  <2>3. QInv({})'
    BY <2>1 DEF MInv, QInv, OneCall, NoRuns, CallsApart, Alone
  <2>4. LatestEnds'
    BY <2>1 DEF MInv, LatestEnds
  <2>5. PathsInv'
    BY <2>1 DEF MInv, PathsInv, CapsFirst, StartsKept, AroundBranch, Current, At
  <2>6. OpenPaths'
    BY <2>1 DEF MInv, OpenPaths, Deep, LevelOf, Traced, Known, At
  <2> QED BY <2>2, <2>3, <2>4, <2>5, <2>6 DEF MInv
<1> QED BY <1>1, <1>2 DEF Next, Finished

\* The phi that ends a conditional is equated with the version at the end of the
\* branch and with the one before the conditional (capCond, capCondSyncRules), in
\* models without parallel steps, without else and without global constants in
\* their rules, however deep conditionals are nested, also through calls.
THEOREM MergesMeet ==
  Spec /\ Initialised(code) /\ NoCopies(code) /\ OwnState(code) /\ NoElse(code) /\ Sequential(code)
    => []MergesPathEnds
<1>1. Init /\ Initialised(code) /\ NoCopies(code) /\ OwnState(code) /\ NoElse(code) /\ Sequential(code)
        => IInv /\ EInv /\ ReadsDeclared /\ DInv /\ MInv
  BY InitInv, InitEnds, InitDeep, InitMerges
<1>2. IInv /\ EInv /\ ReadsDeclared /\ DInv /\ MInv /\ [Next]_vars
        => (IInv /\ EInv /\ ReadsDeclared /\ DInv /\ MInv)'
  BY NextInv, NextEnds, NextDeep, NextMerges DEF EInv
<1>3. MInv => MergesPathEnds
  BY DEF MInv
<1> QED BY <1>1, <1>2, <1>3, PTL DEF Spec
=============================================================================
