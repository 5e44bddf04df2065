-------------------------- MODULE AdmissionProofs --------------------------
(***************************************************************************)
(* What holds of admission for every set of calls, every limit and every   *)
(* interleaving of their transactions.                                     *)
(***************************************************************************)
EXTENDS Admission, FiniteSetTheorems, WellFoundedInduction, TLAPS

-----------------------------------------------------------------------------
(* Types. *)

\* Every reachable row of budget_periods, run and transaction is well formed.
THEOREM AdmissionTypes == Spec => []TypeOK
<1> USE AdmissionAssumption
<1>1. Init => TypeOK
  BY DEF Init, TypeOK, Reading
<1>2. TypeOK /\ [Next]_vars => TypeOK'
  <2> SUFFICES ASSUME TypeOK, [Next]_vars PROVE TypeOK'
    OBVIOUS
  <2> USE DEF TypeOK, Answer
  <2>1. ASSUME NEW c \in Calls, FindDuplicate(c) \/ Begin(c) PROVE TypeOK'
    BY <2>1 DEF FindDuplicate, Begin, budget
  <2>2. ASSUME NEW c \in Calls, InsertPeriod(c) PROVE TypeOK'
    BY <2>2 DEF InsertPeriod, Reading
  <2>3. ASSUME NEW c \in Calls, Admit(c) PROVE TypeOK'
    <3>1. reserved[using[c]] + Units[c] \in Int
      OBVIOUS
    <3> QED BY <2>3, <3>1 DEF Admit, Close
  <2>4. ASSUME NEW c \in Calls, Deny(c) \/ Abort(c) PROVE TypeOK'
    BY <2>4 DEF Deny, Abort, Close, budget
  <2>5. ASSUME NEW c \in Calls, NEW p \in Calls, ReadPeriod(c, p) PROVE TypeOK'
    <3>1. [used |-> committed[p] + reserved[p],
           stop |-> IF p \in stopped THEN "on" ELSE "off"] \in Reading
      BY DEF Reading
    <3>2. Current \subseteq Calls
      BY DEF Current
    <3> QED BY <2>5, <3>1, <3>2 DEF ReadPeriod, budget
  <2>6. ASSUME NEW c \in Calls, NEW final \in {"succeeded", "ended"}, Settle(c, final)
        PROVE  TypeOK'
    <3>1. /\ reserved[home[c]] - Units[c] \in Int
          /\ committed[home[c]] + (IF final = "succeeded" THEN Units[c] ELSE 0) \in Int
      OBVIOUS
    <3> QED BY <2>6, <3>1 DEF Settle, SettledIn, transaction
  <2>7. ASSUME NEW enabled \in BOOLEAN, SetSpendStop(enabled) PROVE TypeOK'
    BY <2>7 DEF SetSpendStop, transaction
  <2>8. CASE NextMonth
    BY <2>8 DEF NextMonth, budget, transaction
  <2>9. CASE UNCHANGED vars
    BY <2>9 DEF vars, budget, transaction
  <2> QED BY <2>1, <2>2, <2>3, <2>4, <2>5, <2>6, <2>7, <2>8, <2>9 DEF Next
<1> QED BY <1>1, <1>2, PTL DEF Spec

-----------------------------------------------------------------------------
(* Who owns which row. *)

\* A period is committed by the call it is named for; a run is settled in a committed
\* period; only open transactions hold locks, each on rows of its own.
Ownership ==
  /\ \A p \in periods : txn[p] = "admitted"
  /\ \A c \in Calls : run[c] # "none" => txn[c] = "admitted" /\ home[c] \in periods
  /\ \A c \in Calls : txn[c] # "open" => locks[c] = {}
  /\ \A c \in Calls : locks[c] \subseteq periods
  /\ \A c, d \in Calls : c # d => locks[c] \cap locks[d] = {}
  /\ \A c \in Calls : txn[c] = "open" => using[c] = c \/ using[c] \in locks[c]

LEMMA OwnershipHolds == Spec => []Ownership
<1>1. Init => Ownership
  BY DEF Init, Ownership
<1>2. TypeOK /\ Ownership /\ [Next]_vars => Ownership'
  <2> SUFFICES ASSUME TypeOK, Ownership, [Next]_vars PROVE Ownership'
    OBVIOUS
  <2> USE DEF TypeOK, Ownership
  <2>1. ASSUME NEW c \in Calls, FindDuplicate(c) \/ Begin(c) PROVE Ownership'
    <3>1. /\ txn[c] = "idle" /\ UNCHANGED <<budget, run, home, using, locks>>
          /\ \A d \in Calls \ {c} : txn'[d] = txn[d]
          /\ txn'[c] \in {"begun", "duplicate"}
      BY <2>1 DEF FindDuplicate, Begin
    <3> QED BY <3>1 DEF budget
  <2>2. ASSUME NEW c \in Calls, InsertPeriod(c) PROVE Ownership'
    BY <2>2 DEF InsertPeriod
  <2>3. ASSUME NEW c \in Calls, Admit(c) PROVE Ownership'
    BY <2>3 DEF Admit, Close
  <2>4. ASSUME NEW c \in Calls, Deny(c) \/ Abort(c) PROVE Ownership'
    <3>1. PICK answer \in {"denied", "aborted"} :
            /\ txn' = [txn EXCEPT ![c] = answer] /\ locks' = [locks EXCEPT ![c] = {}]
            /\ UNCHANGED <<budget, run, home, using>>
      BY <2>4 DEF Deny, Abort, Close
    <3>2. txn[c] # "admitted"
      BY <2>4 DEF Deny, Abort
    <3> QED BY <3>1, <3>2 DEF budget
  <2>5. ASSUME NEW c \in Calls, NEW p \in Calls, ReadPeriod(c, p) PROVE Ownership'
    <3>1. \A d \in Calls : locks[d] \cap Current = {}
      BY <2>5 DEF ReadPeriod, Locked
    <3>2. Current \subseteq periods /\ p \in Current
      BY <2>5 DEF ReadPeriod, Current
    <3> QED BY <2>5, <3>1, <3>2 DEF ReadPeriod, budget
  <2>6. ASSUME NEW c \in Calls, NEW final \in {"succeeded", "ended"}, Settle(c, final)
        PROVE  Ownership'
    BY <2>6 DEF Settle, transaction
  <2>7. ASSUME NEW enabled \in BOOLEAN, SetSpendStop(enabled) PROVE Ownership'
    BY <2>7 DEF SetSpendStop, transaction
  <2>8. CASE NextMonth
    BY <2>8 DEF NextMonth, budget, transaction
  <2>9. CASE UNCHANGED vars
    BY <2>9 DEF vars, budget, transaction
  <2> QED BY <2>1, <2>2, <2>3, <2>4, <2>5, <2>6, <2>7, <2>8, <2>9 DEF Next
<1> QED BY <1>1, <1>2, AdmissionTypes, PTL DEF Spec

-----------------------------------------------------------------------------
(* What an open transaction has read is still true when it reserves. *)

Read(c) ==
  /\ seen[c].used = committed[using[c]] + reserved[using[c]]
  /\ seen[c].stop = "off" => using[c] \notin stopped

ReadingInv ==
  /\ \A p \in Calls \ periods : reserved[p] = 0 /\ committed[p] = 0
  /\ \A c \in Calls : txn[c] = "open" => Read(c)
  /\ PeriodWithinLimit

LEMMA ReadingInvHolds == Spec => []ReadingInv
<1> USE AdmissionAssumption
<1>1. Init => ReadingInv
  BY DEF Init, ReadingInv, PeriodWithinLimit
<1>2. TypeOK /\ Ownership /\ ReadingInv /\ [Next]_vars => ReadingInv'
  <2> SUFFICES ASSUME TypeOK, Ownership, ReadingInv, [Next]_vars PROVE ReadingInv'
    OBVIOUS
  <2> USE DEF TypeOK, ReadingInv, Read, PeriodWithinLimit
  \* Two open transactions never use the same row.
  <2>0. ASSUME NEW c \in Calls, NEW d \in Calls, txn[c] = "open", txn[d] = "open", c # d
        PROVE  using[c] # using[d]
    <3>1. c \notin periods /\ d \notin periods
      BY <2>0 DEF Ownership
    <3> QED BY <2>0, <3>1 DEF Ownership
  <2>1. ASSUME NEW c \in Calls, FindDuplicate(c) \/ Begin(c) PROVE ReadingInv'
    BY <2>1 DEF FindDuplicate, Begin, budget
  <2>2. ASSUME NEW c \in Calls, InsertPeriod(c) PROVE ReadingInv'
    <3>1. c \notin periods
      BY <2>2 DEF InsertPeriod, Ownership
    <3> QED BY <2>2, <3>1 DEF InsertPeriod
  <2>3. ASSUME NEW c \in Calls, Admit(c) PROVE ReadingInv'
    <3> DEFINE p == using[c]
    <3>1. txn[c] = "open" /\ seen[c].used + Units[c] <= HardLimit
      BY <2>3 DEF Admit, WithinLimit
    <3>2. /\ committed' = committed /\ stopped' = stopped /\ using' = using /\ seen' = seen
          /\ periods' = periods \cup {p}
          /\ \A q \in Calls : reserved'[q] = IF q = p THEN reserved[p] + Units[c] ELSE reserved[q]
          /\ \A d \in Calls : txn'[d] = IF d = c THEN "admitted" ELSE txn[d]
      BY <2>3 DEF Admit, Close
    <3>3. \A q \in Calls \ periods' : reserved'[q] = 0 /\ committed'[q] = 0
      BY <3>2
    <3>4. ASSUME NEW d \in Calls, txn'[d] = "open" PROVE Read(d)'
      <4>1. d # c /\ txn[d] = "open"
        BY <3>2, <3>4
      <4>2. using[d] # p
        BY <2>0, <3>1, <4>1
      <4> QED BY <3>2, <4>1, <4>2
    <3>5. ASSUME NEW q \in periods' PROVE reserved'[q] + committed'[q] <= HardLimit
      <4>1. CASE q = p
        <5>1. seen[c].used = committed[p] + reserved[p]
          BY <3>1
        <5> QED BY <3>1, <3>2, <4>1, <5>1
      <4>2. CASE q # p
        BY <3>2, <4>2
      <4> QED BY <4>1, <4>2
    <3> QED BY <3>3, <3>4, <3>5
  <2>4. ASSUME NEW c \in Calls, Deny(c) \/ Abort(c) PROVE ReadingInv'
    BY <2>4 DEF Deny, Abort, Close, budget
  <2>5. ASSUME NEW c \in Calls, NEW p \in Calls, ReadPeriod(c, p) PROVE ReadingInv'
    BY <2>5 DEF ReadPeriod, budget
  <2>6. ASSUME NEW c \in Calls, NEW final \in {"succeeded", "ended"}, Settle(c, final)
        PROVE  ReadingInv'
    <3> DEFINE p == home[c]
               u == IF final = "succeeded" THEN Units[c] ELSE 0
    <3>1. p \in periods /\ u \in Nat /\ u <= Units[c]
      BY <2>6 DEF Settle, Ownership
    <3>2. /\ UNCHANGED <<periods, stopped, txn, using, seen>>
          /\ \A q \in Calls : reserved'[q] = IF q = p THEN reserved[p] - Units[c] ELSE reserved[q]
          /\ \A q \in Calls : committed'[q] = IF q = p THEN committed[p] + u ELSE committed[q]
      BY <2>6 DEF Settle, SettledIn, transaction
    <3>3. ASSUME NEW d \in Calls, txn[d] = "open" PROVE using[d] # p
      <4>1. d \notin periods
        BY <3>3 DEF Ownership
      <4>2. p \notin locks[d]
        BY <2>6 DEF Settle, SettledIn, Locked
      <4> QED BY <3>1, <3>3, <4>1, <4>2 DEF Ownership
    <3>4. \A d \in Calls : txn'[d] = "open" => Read(d)'
      BY <3>2, <3>3
    <3>5. ASSUME NEW q \in periods PROVE reserved'[q] + committed'[q] <= HardLimit
      <4>1. CASE q = p
        <5>1. reserved[p] \in Int /\ committed[p] \in Int /\ Units[c] \in Nat
          BY <3>1
        <5>2. reserved[p] + committed[p] <= HardLimit
          BY <3>1
        <5>3. reserved'[p] = reserved[p] - Units[c] /\ committed'[p] = committed[p] + u
          BY <3>1, <3>2
        <5> HIDE DEF u
        <5> QED BY <3>1, <4>1, <5>1, <5>2, <5>3
      <4>2. CASE q # p
        BY <3>2, <4>2
      <4> QED BY <4>1, <4>2
    <3>6. \A q \in Calls \ periods' : reserved'[q] = 0 /\ committed'[q] = 0
      BY <3>1, <3>2
    <3> QED BY <3>2, <3>4, <3>5, <3>6
  <2>7. ASSUME NEW enabled \in BOOLEAN, SetSpendStop(enabled) PROVE ReadingInv'
    <3>1. ASSUME NEW d \in Calls, txn[d] = "open" PROVE using[d] \notin periods
      <4>1. d \notin periods /\ \A p \in periods : p \notin locks[d]
        BY <2>7, <3>1 DEF SetSpendStop, Locked, Ownership
      <4> QED BY <3>1, <4>1 DEF Ownership
    <3>2. stopped' \subseteq periods
      BY <2>7 DEF SetSpendStop
    <3> QED BY <2>7, <3>1, <3>2 DEF SetSpendStop, transaction
  <2>8. CASE NextMonth
    BY <2>8 DEF NextMonth, budget, transaction
  <2>9. CASE UNCHANGED vars
    BY <2>9 DEF vars, budget, transaction
  <2> QED BY <2>1, <2>2, <2>3, <2>4, <2>5, <2>6, <2>7, <2>8, <2>9 DEF Next
<1> QED BY <1>1, <1>2, AdmissionTypes, OwnershipHolds, PTL DEF Spec

\* The row lock taken by SELECT ... FOR UPDATE makes check and reservation one step:
\* no period exceeds the hard limit.
THEOREM LimitRespected == Spec => []PeriodWithinLimit
BY ReadingInvHolds, PTL DEF ReadingInv

\* No start that was under way when spending was stopped reserves in a stopped period.
THEOREM StopRespected == Spec => StopHolds
<1>1. TypeOK /\ ReadingInv /\ [Next]_vars => [\A p \in stopped : reserved'[p] <= reserved[p]]_vars
  <2> SUFFICES ASSUME TypeOK, ReadingInv, [Next]_vars, NEW p \in stopped
               PROVE  reserved'[p] <= reserved[p]
    OBVIOUS
  <2>0. p \in Calls /\ reserved[p] \in Int
    BY DEF TypeOK
  <2>1. ASSUME NEW c \in Calls, Admit(c) PROVE reserved'[p] = reserved[p]
    <3>1. using[c] \notin stopped
      BY <2>1 DEF Admit, WithinLimit, ReadingInv, Read
    <3> QED BY <2>0, <2>1, <3>1 DEF Admit, TypeOK
  <2>2. ASSUME NEW c \in Calls, NEW final \in {"succeeded", "ended"}, Settle(c, final)
        PROVE  reserved'[p] <= reserved[p]
    <3>1. Units[c] \in Nat
      BY AdmissionAssumption
    <3>2. reserved'[p] = IF p = home[c] THEN reserved[p] - Units[c] ELSE reserved[p]
      BY <2>0, <2>2 DEF Settle, SettledIn, TypeOK
    <3> QED BY <2>0, <3>1, <3>2
  <2>3. ASSUME NEW c \in Calls,
               FindDuplicate(c) \/ Begin(c) \/ InsertPeriod(c) \/ Deny(c) \/ Abort(c)
                 \/ \E q \in Calls : ReadPeriod(c, q)
        PROVE  reserved' = reserved
    BY <2>3 DEF FindDuplicate, Begin, InsertPeriod, Deny, Abort, ReadPeriod, budget
  <2>4. ASSUME NEW enabled \in BOOLEAN, SetSpendStop(enabled) PROVE reserved' = reserved
    BY <2>4 DEF SetSpendStop
  <2>5. NextMonth \/ UNCHANGED vars => reserved' = reserved
    BY DEF NextMonth, vars, budget
  <2> QED BY <2>0, <2>1, <2>2, <2>3, <2>4, <2>5 DEF Next
<1> QED BY <1>1, AdmissionTypes, ReadingInvHolds, PTL DEF Spec, StopHolds

\* A request's copies start one run, however their transactions overlap.
THEOREM OneRunPerRequest == Spec => []StartedOnce
<1> DEFINE KeysUnique == \A c, d \in Admitted : Key[c] = Key[d] => c = d
<1>1. Init => KeysUnique
  BY DEF Init, Admitted
<1>2. TypeOK /\ KeysUnique /\ [Next]_vars => KeysUnique'
  <2> SUFFICES ASSUME TypeOK, KeysUnique, [Next]_vars PROVE KeysUnique'
    OBVIOUS
  <2>1. ASSUME NEW c \in Calls, Admit(c) PROVE KeysUnique'
    <3>1. Admitted' = Admitted \cup {c}
      BY <2>1 DEF Admit, Admitted, TypeOK
    <3> QED BY <2>1, <3>1 DEF Admit, KeyFree
  <2>2. ASSUME NEW c \in Calls, NEW final \in {"succeeded", "ended"}, Settle(c, final)
        PROVE  Admitted' = Admitted
    BY <2>2 DEF Settle, Admitted, TypeOK
  <2>3. ASSUME NEW c \in Calls,
               FindDuplicate(c) \/ Begin(c) \/ InsertPeriod(c) \/ Deny(c) \/ Abort(c)
                 \/ \E q \in Calls : ReadPeriod(c, q)
        PROVE  Admitted' = Admitted
    BY <2>3 DEF FindDuplicate, Begin, InsertPeriod, Deny, Abort, ReadPeriod, Admitted
  <2>4. ASSUME NEW enabled \in BOOLEAN, SetSpendStop(enabled) PROVE Admitted' = Admitted
    BY <2>4 DEF SetSpendStop, Admitted
  <2>5. NextMonth \/ UNCHANGED vars => Admitted' = Admitted
    BY DEF NextMonth, vars, Admitted
  <2> QED BY <2>1, <2>2, <2>3, <2>4, <2>5 DEF Next
<1>3. KeysUnique => StartedOnce
  BY DEF StartedOnce, SameRequest
<1> QED BY <1>1, <1>2, <1>3, AdmissionTypes, PTL DEF Spec

-----------------------------------------------------------------------------
(* Sums of units.  UnitsOf folds over a set in an order nobody knows; the  *)
(* lemmas show that the order does not matter.  Their inductions are on    *)
(* least counterexamples.                                                  *)

Chosen(s) == CHOOSE x \in s : TRUE
Adds(g, s) == g[s] = IF s = {} THEN 0 ELSE Units[Chosen(s)] + g[s \ {Chosen(s)}]
IsSum(g) == g \in [SUBSET Calls -> Int] /\ \A s \in SUBSET Calls : Adds(g, s)

\* The least-number principle.
LEMMA LeastNumber ==
  ASSUME NEW N \in SUBSET Nat, N # {}
  PROVE  \E n \in N : \A m \in N : n <= m
<1> DEFINE R == OpToRel(<, Nat)
<1>1. IsWellFoundedOn(R, Nat)
  BY NatLessThanWellFounded
<1>2. \A m, n \in Nat : m < n => <<m, n>> \in R
  BY DEF OpToRel
<1> HIDE DEF R
<1>3. \E n \in N : \A m \in N : ~(<<m, n>> \in R)
  BY <1>1, WFMin
<1>4. PICK n \in N : \A m \in N : ~(<<m, n>> \in R)
  BY <1>3
<1>5. \A m \in N : ~(m < n)
  BY <1>2, <1>4
<1>6. n \in Nat /\ \A m \in N : m \in Nat
  OBVIOUS
<1>7. \A m \in N : n <= m
  BY <1>5, <1>6
<1> QED BY <1>7

\* A nonempty family of sets of calls has a least member.
LEMMA LeastSubset ==
  ASSUME NEW F \in SUBSET SUBSET Calls, F # {}
  PROVE  \E s \in F : \A t \in F : t \subseteq s => t = s
<1>1. F \subseteq FiniteSubsetsOf(Calls)
  BY FS_Subset, AdmissionAssumption DEF FiniteSubsetsOf
<1>2. PICK s \in F : \A t \in F : ~(<<t, s>> \in StrictSubsetOrdering(Calls))
  BY <1>1, FS_StrictSubsetOrderingWellFounded, WFMin
<1> QED BY <1>2 DEF StrictSubsetOrdering

\* There is a function that sums over every set of calls.
LEMMA SumExists == \E g : IsSum(g)
<1> USE AdmissionAssumption
<1> DEFINE Fun == [SUBSET Calls -> Int]
           UpTo(g, n) == \A s \in SUBSET Calls : Cardinality(s) <= n => Adds(g, s)
           N == {n \in Nat : ~\E g \in Fun : UpTo(g, n)}
<1>0. \A s \in SUBSET Calls : IsFiniteSet(s) /\ Cardinality(s) \in Nat
                              /\ Cardinality(s) <= Cardinality(Calls)
  BY FS_Subset, FS_CardinalityType
<1>1. ASSUME NEW n \in Nat, n \in N, \A m \in N : n <= m PROVE FALSE
  <2>1. CASE n = 0
    <3> DEFINE zero == [s \in SUBSET Calls |-> 0]
    <3>1. \A s \in SUBSET Calls : Cardinality(s) <= 0 => s = {}
      BY <1>0, FS_EmptySet
    <3>2. zero \in Fun /\ UpTo(zero, 0)
      BY <3>1 DEF Adds
    <3> HIDE DEF zero
    <3> QED BY <1>1, <2>1, <3>2
  <2>2. CASE n # 0
    <3>0. n - 1 \in Nat /\ ~(n <= n - 1)
      BY <2>2
    <3>1. n - 1 \in Nat /\ n - 1 \notin N
      <4> HIDE DEF N
      <4> QED BY <1>1, <3>0
    <3>2. PICK g \in Fun : UpTo(g, n - 1)
      BY <3>1
    <3> DEFINE next(s) == Units[Chosen(s)] + g[s \ {Chosen(s)}]
               h == [s \in SUBSET Calls |-> IF Cardinality(s) = n THEN next(s) ELSE g[s]]
    <3>3. ASSUME NEW s \in SUBSET Calls, s # {}
          PROVE  /\ Chosen(s) \in Calls /\ s \ {Chosen(s)} \in SUBSET Calls
                 /\ Cardinality(s \ {Chosen(s)}) = Cardinality(s) - 1
      <4>1. Chosen(s) \in s
        BY <3>3 DEF Chosen
      <4> QED BY <4>1, <1>0, FS_RemoveElement
    <3>4. \A s \in SUBSET Calls : Cardinality(s) = n => s # {}
      BY <2>2, FS_EmptySet
    <3>5. \A s \in SUBSET Calls : s # {} => next(s) \in Int
      <4>1. ASSUME NEW s \in SUBSET Calls, s # {} PROVE next(s) \in Int
        <5>1. Chosen(s) \in Calls /\ s \ {Chosen(s)} \in SUBSET Calls
          BY <3>3, <4>1
        <5>2. Units[Chosen(s)] \in Int /\ g[s \ {Chosen(s)}] \in Int
          BY <5>1
        <5> QED BY <5>2
      <4> QED BY <4>1
    <3>6. h \in Fun
      BY <3>4, <3>5
    <3>7. ASSUME NEW s \in SUBSET Calls, Cardinality(s) <= n PROVE Adds(h, s)
      <4>1. CASE s = {}
        <5>1. Cardinality(s) = 0
          BY <4>1, FS_EmptySet
        <5>2. h[s] = g[s]
          BY <2>2, <5>1
        <5>3. Adds(g, s)
          BY <3>2, <5>1, <3>1
        <5> QED BY <4>1, <5>2, <5>3 DEF Adds
      <4>2. CASE s # {}
        <5> DEFINE r == s \ {Chosen(s)}
        <5>1. /\ r \in SUBSET Calls /\ Cardinality(r) = Cardinality(s) - 1
              /\ Cardinality(s) \in Nat
          BY <3>3, <4>2, <1>0
        <5>2. h[r] = g[r]
          <6>1. Cardinality(r) # n
            <7> HIDE DEF r
            <7> QED BY <3>7, <5>1
          <6> QED BY <5>1, <6>1
        <5>3. h[s] = Units[Chosen(s)] + g[r]
          <6>1. CASE Cardinality(s) = n
            BY <6>1
          <6>2. CASE Cardinality(s) # n
            <7>1. Cardinality(s) <= n - 1
              BY <3>7, <5>1, <6>2
            <7>2. Adds(g, s)
              BY <3>2, <7>1
            <7> QED BY <4>2, <6>2, <7>2 DEF Adds
          <6> QED BY <6>1, <6>2
        <5> QED BY <4>2, <5>2, <5>3 DEF Adds
      <4> QED BY <4>1, <4>2
    <3> HIDE DEF h
    <3> QED BY <1>1, <3>6, <3>7
  <2> QED BY <2>1, <2>2
<1>2. N = {}
  BY <1>1, LeastNumber
<1>3. Cardinality(Calls) \in Nat
  BY FS_CardinalityType
<1>4. PICK g \in Fun : UpTo(g, Cardinality(Calls))
  BY <1>2, <1>3
<1> QED BY <1>0, <1>4 DEF IsSum

\* UnitsOf is that function.
LEMMA UnitsOfIsSum ==
  ASSUME NEW g, IsSum(g), NEW cs \in SUBSET Calls
  PROVE  UnitsOf(cs) = g[cs]
<1> DEFINE body(f) == [s \in SUBSET cs |->
             IF s = {} THEN 0 ELSE Units[Chosen(s)] + f[s \ {Chosen(s)}]]
           iter == CHOOSE f : f = body(f)
           h == [s \in SUBSET cs |-> g[s]]
<1>1. UnitsOf(cs) = iter[cs]
  BY DEF UnitsOf, MapThenSumSet, MapThenFoldSet, Chosen
<1>2. h = body(h)
  <2>1. ASSUME NEW s \in SUBSET cs
        PROVE  h[s] = IF s = {} THEN 0 ELSE Units[Chosen(s)] + h[s \ {Chosen(s)}]
    <3>1. Adds(g, s)
      BY DEF IsSum
    <3> QED BY <3>1 DEF Adds
  <2> HIDE DEF h
  <2>2. h = [s \in SUBSET cs |-> h[s]]
    BY DEF h
  <2> QED BY <2>1, <2>2
<1> HIDE DEF h
<1>3. iter = body(iter)
  BY <1>2
<1> HIDE DEF iter
<1>4. \A s \in SUBSET cs :
        iter[s] = IF s = {} THEN 0 ELSE Units[Chosen(s)] + iter[s \ {Chosen(s)}]
  BY <1>3
<1> DEFINE F == {s \in SUBSET cs : iter[s] # g[s]}
<1>5. ASSUME F # {} PROVE FALSE
  <2>0. F \in SUBSET SUBSET Calls
    OBVIOUS
  <2>1. \E s \in F : \A t \in F : t \subseteq s => t = s
    <3> HIDE DEF F
    <3> QED BY <1>5, <2>0, LeastSubset
  <2>2. PICK s \in F : \A t \in F : t \subseteq s => t = s
    BY <2>1
  <2>3. Adds(g, s)
    BY DEF IsSum
  <2>4. s # {}
    BY <1>4, <2>2, <2>3 DEF Adds
  <2>5. Chosen(s) \in s
    BY <2>4 DEF Chosen
  <2>6. iter[s \ {Chosen(s)}] = g[s \ {Chosen(s)}]
    BY <2>2, <2>5
  <2> QED BY <1>4, <2>2, <2>3, <2>4, <2>6 DEF Adds
<1> QED BY <1>1, <1>5

\* Any element of a set may be taken out of its sum first.
LEMMA SumTakesAny ==
  ASSUME NEW g, IsSum(g), NEW cs \in SUBSET Calls, NEW c \in cs
  PROVE  g[cs] = Units[c] + g[cs \ {c}]
<1> USE AdmissionAssumption
<1> DEFINE F == {s \in SUBSET Calls : \E y \in s : g[s] # Units[y] + g[s \ {y}]}
<1>1. ASSUME F # {} PROVE FALSE
  <2>0. F \in SUBSET SUBSET Calls
    OBVIOUS
  <2>1. \E s \in F : \A t \in F : t \subseteq s => t = s
    <3> HIDE DEF F
    <3> QED BY <1>1, <2>0, LeastSubset
  <2>2. PICK s \in F : \A t \in F : t \subseteq s => t = s
    BY <2>1
  <2>3. PICK y \in s : g[s] # Units[y] + g[s \ {y}]
    BY <2>2
  <2> DEFINE x == Chosen(s)
             both == (s \ {x}) \ {y}
  <2>4. x \in s
    BY <2>3 DEF Chosen
  <2>5. g[s] = Units[x] + g[s \ {x}]
    BY <2>3 DEF IsSum, Adds
  <2>6. x # y
    BY <2>3, <2>5
  <2>7. s \ {x} \notin F /\ s \ {y} \notin F
    BY <2>2, <2>3, <2>4
  <2>8. both = (s \ {y}) \ {x} /\ y \in s \ {x} /\ x \in s \ {y}
    BY <2>3, <2>4, <2>6
  <2> HIDE DEF x, both
  <2>9. g[s \ {x}] = Units[y] + g[both]
    BY <2>7, <2>8 DEF both
  <2>10. g[s \ {y}] = Units[x] + g[both]
    BY <2>7, <2>8
  <2>11. Units[x] \in Int /\ Units[y] \in Int /\ g[both] \in Int
    BY <2>3, <2>4 DEF IsSum, both
  <2> QED BY <2>3, <2>5, <2>9, <2>10, <2>11
<1> QED BY <1>1

\* What the books need of the sum: it starts at 0, and a call that joins or leaves
\* adds or subtracts its units.
LEMMA UnitsOfFacts ==
  /\ UnitsOf({}) = 0
  /\ \A cs \in SUBSET Calls : UnitsOf(cs) \in Int
  /\ \A cs \in SUBSET Calls : \A c \in Calls \ cs :
       UnitsOf(cs \cup {c}) = UnitsOf(cs) + Units[c]
  /\ \A cs \in SUBSET Calls : \A c \in cs :
       UnitsOf(cs \ {c}) = UnitsOf(cs) - Units[c]
<1> USE AdmissionAssumption
<1>1. PICK g : IsSum(g)
  BY SumExists
<1>2. \A cs \in SUBSET Calls : UnitsOf(cs) = g[cs] /\ g[cs] \in Int
  BY <1>1, UnitsOfIsSum DEF IsSum
<1>3. g[{}] = 0
  BY <1>1 DEF IsSum, Adds
<1>4. ASSUME NEW cs \in SUBSET Calls, NEW c \in Calls \ cs
      PROVE  g[cs \cup {c}] = g[cs] + Units[c]
  <2>1. cs \cup {c} \in SUBSET Calls /\ (cs \cup {c}) \ {c} = cs /\ c \in cs \cup {c}
    OBVIOUS
  <2>2. g[cs \cup {c}] = Units[c] + g[(cs \cup {c}) \ {c}]
    BY <1>1, <2>1, SumTakesAny
  <2>3. g[cs] \in Int /\ Units[c] \in Int
    BY <1>2
  <2> QED BY <2>1, <2>2, <2>3
<1>5. ASSUME NEW cs \in SUBSET Calls, NEW c \in cs
      PROVE  g[cs \ {c}] = g[cs] - Units[c]
  <2>1. g[cs] = Units[c] + g[cs \ {c}]
    BY <1>1, SumTakesAny
  <2>2. g[cs] \in Int /\ g[cs \ {c}] \in Int /\ Units[c] \in Int
    BY <1>2
  <2> QED BY <2>1, <2>2
<1>6. \A cs \in SUBSET Calls : \A c \in cs : cs \ {c} \in SUBSET Calls
  OBVIOUS
<1>7. \A cs \in SUBSET Calls : \A c \in Calls : cs \cup {c} \in SUBSET Calls
  OBVIOUS
<1> QED BY <1>2, <1>3, <1>4, <1>5, <1>6, <1>7
-----------------------------------------------------------------------------
(* The books. *)

RunsOf(p, state) == {c \in Calls : home[c] = p /\ run[c] = state}

\* Also a period that is not committed yet is balanced: nothing is booked in it.
Balanced ==
  \A p \in Calls : /\ reserved[p] = UnitsOf(RunsOf(p, "open"))
                   /\ committed[p] = UnitsOf(RunsOf(p, "succeeded"))

LEMMA BalancedHolds == Spec => []Balanced
<1> USE AdmissionAssumption
<1>1. Init => Balanced
  <2> SUFFICES ASSUME Init, NEW p \in Calls
               PROVE  /\ reserved[p] = UnitsOf(RunsOf(p, "open"))
                      /\ committed[p] = UnitsOf(RunsOf(p, "succeeded"))
    BY DEF Balanced
  <2>1. RunsOf(p, "open") = {} /\ RunsOf(p, "succeeded") = {}
    BY DEF Init, RunsOf
  <2> QED BY <2>1, UnitsOfFacts DEF Init
<1>2. TypeOK /\ Ownership /\ Balanced /\ [Next]_vars => Balanced'
  <2> SUFFICES ASSUME TypeOK, Ownership, Balanced, [Next]_vars PROVE Balanced'
    OBVIOUS
  <2>0. \A p \in Calls : /\ RunsOf(p, "open") \in SUBSET Calls
                         /\ RunsOf(p, "succeeded") \in SUBSET Calls
    BY DEF RunsOf
  \* A step that books nothing and moves no run keeps the balance.
  <2>1. ASSUME UNCHANGED <<reserved, committed, run, home>> PROVE Balanced'
    <3>1. \A p \in Calls : RunsOf(p, "open")' = RunsOf(p, "open")
                           /\ RunsOf(p, "succeeded")' = RunsOf(p, "succeeded")
      BY <2>1 DEF RunsOf
    <3> QED BY <2>1, <3>1 DEF Balanced
  <2>2. ASSUME NEW c \in Calls, Admit(c) PROVE Balanced'
    <3> SUFFICES ASSUME NEW p \in Calls
                 PROVE  /\ reserved'[p] = UnitsOf(RunsOf(p, "open")')
                        /\ committed'[p] = UnitsOf(RunsOf(p, "succeeded")')
      BY DEF Balanced
    \* The call has no run yet, so it was counted in no period.
    <3>1. run[c] = "none" /\ using[c] \in Calls /\ Units[c] \in Int
      BY <2>2 DEF Admit, Ownership, TypeOK
    <3>2. /\ committed' = committed
          /\ reserved'[p] = IF p = using[c] THEN reserved[p] + Units[c] ELSE reserved[p]
          /\ \A d \in Calls : run'[d] = IF d = c THEN "open" ELSE run[d]
          /\ \A d \in Calls : home'[d] = IF d = c THEN using[c] ELSE home[d]
      BY <2>2, <3>1 DEF Admit, TypeOK
    <3>3. RunsOf(p, "succeeded")' = RunsOf(p, "succeeded")
      BY <3>1, <3>2 DEF RunsOf
    <3>4. RunsOf(p, "open")' = IF p = using[c] THEN RunsOf(p, "open") \cup {c}
                                               ELSE RunsOf(p, "open")
      BY <3>1, <3>2 DEF RunsOf
    <3>5. c \notin RunsOf(p, "open")
      BY <3>1 DEF RunsOf
    <3>6. CASE p = using[c]
      <4>1. UnitsOf(RunsOf(p, "open") \cup {c}) = UnitsOf(RunsOf(p, "open")) + Units[c]
        BY <2>0, <3>5, UnitsOfFacts
      <4> QED BY <3>2, <3>3, <3>4, <3>6, <4>1 DEF Balanced
    <3>7. CASE p # using[c]
      BY <3>2, <3>3, <3>4, <3>7 DEF Balanced
    <3> QED BY <3>6, <3>7
  <2>3. ASSUME NEW c \in Calls, NEW final \in {"succeeded", "ended"}, Settle(c, final)
        PROVE  Balanced'
    <3> SUFFICES ASSUME NEW p \in Calls
                 PROVE  /\ reserved'[p] = UnitsOf(RunsOf(p, "open")')
                        /\ committed'[p] = UnitsOf(RunsOf(p, "succeeded")')
      BY DEF Balanced
    <3>1. run[c] = "open" /\ home[c] \in Calls /\ Units[c] \in Int
      BY <2>3 DEF Settle, TypeOK
    <3>2. /\ reserved'[p] = IF p = home[c] THEN reserved[p] - Units[c] ELSE reserved[p]
          /\ p # home[c] \/ final = "ended" => committed'[p] = committed[p]
          /\ p = home[c] /\ final = "succeeded" => committed'[p] = committed[p] + Units[c]
          /\ \A d \in Calls : run'[d] = IF d = c THEN final ELSE run[d]
          /\ home' = home
      BY <2>3, <3>1 DEF Settle, SettledIn, TypeOK
    <3>3. p = home[c] => c \in RunsOf(p, "open") /\ c \notin RunsOf(p, "succeeded")
      BY <3>1 DEF RunsOf
    <3>4. RunsOf(p, "open")' = IF p = home[c] THEN RunsOf(p, "open") \ {c}
                                              ELSE RunsOf(p, "open")
      BY <3>1, <3>2 DEF RunsOf
    <3>5. RunsOf(p, "succeeded")' = IF p = home[c] /\ final = "succeeded"
                                      THEN RunsOf(p, "succeeded") \cup {c}
                                      ELSE RunsOf(p, "succeeded")
      BY <3>1, <3>2 DEF RunsOf
    <3>6. reserved'[p] = UnitsOf(RunsOf(p, "open")')
      <4>1. CASE p = home[c]
        <5>1. UnitsOf(RunsOf(p, "open") \ {c}) = UnitsOf(RunsOf(p, "open")) - Units[c]
          BY <2>0, <3>3, <4>1, UnitsOfFacts
        <5> QED BY <3>2, <3>4, <4>1, <5>1 DEF Balanced
      <4>2. CASE p # home[c]
        BY <3>2, <3>4, <4>2 DEF Balanced
      <4> QED BY <4>1, <4>2
    <3>7. committed'[p] = UnitsOf(RunsOf(p, "succeeded")')
      <4>1. CASE p = home[c] /\ final = "succeeded"
        <5>1. UnitsOf(RunsOf(p, "succeeded") \cup {c})
                = UnitsOf(RunsOf(p, "succeeded")) + Units[c]
          BY <2>0, <3>3, <4>1, UnitsOfFacts
        <5> QED BY <3>2, <3>5, <4>1, <5>1 DEF Balanced
      <4>2. CASE ~(p = home[c] /\ final = "succeeded")
        BY <3>2, <3>5, <4>2 DEF Balanced
      <4> QED BY <4>1, <4>2
    <3> QED BY <3>6, <3>7
  <2>4. ASSUME NEW c \in Calls,
               FindDuplicate(c) \/ Begin(c) \/ InsertPeriod(c) \/ Deny(c) \/ Abort(c)
                 \/ \E q \in Calls : ReadPeriod(c, q)
        PROVE  UNCHANGED <<reserved, committed, run, home>>
    BY <2>4 DEF FindDuplicate, Begin, InsertPeriod, Deny, Abort, ReadPeriod, budget
  <2>5. ASSUME NEW enabled \in BOOLEAN, SetSpendStop(enabled)
        PROVE  UNCHANGED <<reserved, committed, run, home>>
    BY <2>5 DEF SetSpendStop
  <2>6. NextMonth \/ UNCHANGED vars => UNCHANGED <<reserved, committed, run, home>>
    BY DEF NextMonth, vars, budget
  <2> QED BY <2>1, <2>2, <2>3, <2>4, <2>5, <2>6 DEF Next
<1> QED BY <1>1, <1>2, AdmissionTypes, OwnershipHolds, PTL DEF Spec

\* Every period's books balance against its runs, however starts and settlements
\* interleave and whatever the month they end in.
THEOREM BooksKept == Spec => []BooksBalance
<1>1. TypeOK /\ Balanced => BooksBalance
  BY DEF TypeOK, Balanced, BooksBalance, RunsOf
<1> QED BY <1>1, AdmissionTypes, BalancedHolds, PTL

=============================================================================
