---------------------------- MODULE SmtVariables ----------------------------
(***************************************************************************)
(* The bookkeeping of package smt/variables and smt/forks as operators.    *)
(*                                                                         *)
(* The SMT generator turns every assignment to a variable v into a fresh   *)
(* constant v_0, v_1, ... (static single assignment).  VarData keeps, per  *)
(* variable, the last number handed out (SSA) and a stack of lists of      *)
(* numbers (Phis): the last list belongs to the innermost open conditional *)
(* or parallel run, its head is the version the branches start from.       *)
(*                                                                         *)
(* A Go map without an entry for v is modelled by Absent (SSA) and by the  *)
(* empty stack (Phis).                                                     *)
(***************************************************************************)
EXTENDS Integers, SequencesExt

Absent == -1                                  \* no entry in the SSA map

(***************************************************************************)
(* SSA numbers.  A read of a missing map entry yields 0.                   *)
(***************************************************************************)
\* Mutant: AdvanceSSA skips a number.
AdvanceTwice(n) == IF n = Absent THEN 0 ELSE n + 2

GetSSA(n)     == IF n = Absent THEN 0 ELSE n
AdvanceSSA(n) == IF n = Absent THEN 0 ELSE n + 1

(***************************************************************************)
(* Phis.  p is the stack of one variable.                                  *)
(***************************************************************************)
\* Mutants: the start state is the last entry of the list; the first list of a
\* variable starts at init; a conditional opens no list.
StartIsLast(p)    == IF p = <<>> THEN 0 ELSE Last(Last(p))
PhiFromInit(p, init) == Append(p, <<init>>)
NoInitPhi(p)      == p

GetLastState(p)  == IF p = <<>> THEN 0 ELSE Last(Last(p))
GetStartState(p) == IF p = <<>> THEN 0 ELSE Head(Last(p))

\* The first NewPhi of a variable starts its stack at 0 whatever init says.
NewPhi(p, init) == IF p = <<>> THEN << <<0>> >> ELSE Append(p, <<init>>)

\* NewPhi(k, -1) for every known variable.
InitPhi(p) == IF p = <<>> THEN p ELSE Append(p, <<GetLastState(p)>>)
PopPhi(p)  == IF p = <<>> THEN p ELSE Front(p)

StoreLastState(p, n) ==
  IF p = <<>> THEN NewPhi(p, 0)
              ELSE [p EXCEPT ![Len(p)] = Append(Last(p), n)]

(***************************************************************************)
(* forks.Choice: the versions of one variable that occur in the rules of   *)
(* one branch.  AddChoiceValue keeps them sorted, so GetEnd is the largest.*)
(***************************************************************************)
NoTrail == [vals |-> {}, end |-> 0]

Larger(a, b) == IF a > b THEN a ELSE b

AddChoiceValue(t, n) == [vals |-> t.vals \cup {n}, end |-> Larger(t.end, n)]
JoinTrails(t, u)     == [vals |-> t.vals \cup u.vals, end |-> Larger(t.end, u.end)]

(***************************************************************************)
(* forks.PhiState: a depth counter that never goes below zero.             *)
(***************************************************************************)
\* Mutants: leaving is forgotten; leaving is not checked for level zero.
NeverOut(l)     == l
OutUnchecked(l) == l - 1

In(l)  == l + 1
Out(l) == IF l # 0 THEN l - 1 ELSE l
=============================================================================
