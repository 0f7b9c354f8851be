------------------------ MODULE ConcurrentMapProofs ------------------------
(***************************************************************************)
(* Theorems about ConcurrentMap for every finite set of threads and every  *)
(* set of keys and values.                                                 *)
(***************************************************************************)
EXTENDS ConcurrentMap, FiniteSetTheorems, TLAPS

AddingTo(k) == {t \in Threads : adding[t] = k}

LEMMA AddingFinite ==
  ASSUME NEW S \in SUBSET Threads
  PROVE  /\ IsFiniteSet(S)
         /\ Cardinality(S) \in Nat /\ Cardinality(Threads) \in Nat
         /\ Cardinality(S) <= Cardinality(Threads)
BY MapAssumption, FS_Subset, FS_CardinalityType

LEMMA TypeStep == TypeOK /\ [Next]_vars => TypeOK'
<1>. SUFFICES ASSUME TypeOK, [Next]_vars PROVE TypeOK'
  OBVIOUS
<1>. USE DEF TypeOK, Answers, Outcomes
<1>1. ASSUME NEW t \in Threads, NEW k \in Keys, Get(t, k) PROVE TypeOK'
  BY <1>1 DEF Get, First, Absent
<1>2. ASSUME NEW t \in Threads, NEW k \in Keys, Remove(t, k) PROVE TypeOK'
  BY <1>2 DEF Remove, First, Absent
<1>3. ASSUME NEW t \in Threads, NEW k \in Keys, Subscript(t, k) PROVE TypeOK'
  BY <1>3 DEF Subscript, First, Absent
<1>4. ASSUME NEW t \in Threads, NEW k \in Keys, Refuse(t, k) PROVE TypeOK'
  BY <1>4 DEF Refuse
<1>5. ASSUME NEW t \in Threads, NEW k \in Keys, FindAbsent(t, k) PROVE TypeOK'
  BY <1>5 DEF FindAbsent
<1>6. ASSUME NEW t \in Threads, NEW k \in Keys, NEW v \in Values, Add(t, k, v)
      PROVE  TypeOK'
  BY <1>6 DEF Add
<1>7. ASSUME NEW t \in Threads, Confirm(t) PROVE TypeOK'
  BY <1>7 DEF Confirm
<1>8. ASSUME NEW t \in Threads, ReadBucket(t) PROVE TypeOK'
  BY <1>8 DEF ReadBucket
<1>9. CASE UNCHANGED vars
  BY <1>9 DEF vars
<1>. QED  BY <1>1, <1>2, <1>3, <1>4, <1>5, <1>6, <1>7, <1>8, <1>9 DEF Next

LEMMA AtMostOne ==
  ASSUME NEW s, s = << >> \/ \E v \in Values : s = <<v>>
  PROVE  s \in Seq(Values) /\ (Len(s) = 0 \/ Len(s) = 1)
<1>1. CASE s = << >>
  <2>1. << >> \in Seq(Values) /\ Len(<< >>) = 0
    OBVIOUS
  <2>. QED  BY <1>1, <2>1
<1>2. ASSUME NEW v \in Values, s = <<v>>
      PROVE  s \in Seq(Values) /\ (Len(s) = 0 \/ Len(s) = 1)
  <2>1. <<v>> \in Seq(Values) /\ Len(<<v>>) = 1
    OBVIOUS
  <2>. QED  BY <1>2, <2>1
<1>. QED  BY <1>1, <1>2

LEMMA InitType == Init => TypeOK
<1>. SUFFICES ASSUME Init PROVE TypeOK
  OBVIOUS
<1>1. \A k \in Keys : chain[k] \in Seq(Values)
  <2>. TAKE k \in Keys
  <2>1. chain[k] = << >> \/ \E v \in Values : chain[k] = <<v>>
    BY DEF Init
  <2>. QED  BY <2>1, AtMostOne
<1>2. chain \in [Keys -> Seq(Values)]
  BY <1>1 DEF Init
<1>. QED  BY <1>2 DEF Init, TypeOK, Outcomes

\* Types hold in every reachable state.
THEOREM TypeCorrect == Spec => []TypeOK
BY InitType, TypeStep, PTL DEF Spec

(***************************************************************************)
(* BoundedDuplicates is inductive together with TypeOK: a thread can only  *)
(* join those that are adding k while k is absent, and only one of those   *)
(* can make its chain longer, by leaving them.                             *)
(***************************************************************************)
LEMMA InitBound == Init => BoundedDuplicates
<1>. SUFFICES ASSUME Init, NEW k \in Keys
              PROVE  Len(chain[k]) + Cardinality(AddingTo(k)) <= Cardinality(Threads)
  BY DEF BoundedDuplicates, AddingTo
<1>1. AddingTo(k) = {}
  BY MapAssumption DEF Init, AddingTo
<1>2. Cardinality(AddingTo(k)) = 0
  BY <1>1, FS_EmptySet
<1>3. Len(chain[k]) = 0 \/ Len(chain[k]) = 1
  <2>1. chain[k] = << >> \/ \E v \in Values : chain[k] = <<v>>
    BY DEF Init
  <2>. QED  BY <2>1, AtMostOne
<1>4. Cardinality(Threads) \in Nat /\ Cardinality(Threads) >= 1
  BY MapAssumption, FS_CardinalityType, FS_EmptySet
<1>5. ASSUME NEW m, NEW n, NEW c \in Nat, m = 0 \/ m = 1, n = 0, c >= 1
      PROVE  m + n <= c
  BY <1>5
<1>. QED  BY ONLY <1>2, <1>3, <1>4, <1>5

LEMMA BoundStep == TypeOK /\ BoundedDuplicates /\ [Next]_vars => BoundedDuplicates'
<1>. SUFFICES ASSUME TypeOK, BoundedDuplicates, [Next]_vars, NEW k \in Keys
              PROVE  Len(chain'[k]) + Cardinality(AddingTo(k)') <= Cardinality(Threads)
  BY DEF BoundedDuplicates, AddingTo
<1>0. /\ Len(chain[k]) + Cardinality(AddingTo(k)) <= Cardinality(Threads)
      /\ Len(chain[k]) \in Nat
      /\ IsFiniteSet(AddingTo(k)) /\ Cardinality(AddingTo(k)) \in Nat
      /\ Cardinality(AddingTo(k)') \in Nat
      /\ Cardinality(AddingTo(k)') <= Cardinality(Threads)
      /\ Cardinality(Threads) \in Nat
  <2>1. AddingTo(k) \in SUBSET Threads /\ AddingTo(k)' \in SUBSET Threads
    BY DEF AddingTo
  <2>. QED  BY <2>1, AddingFinite DEF BoundedDuplicates, AddingTo, TypeOK
\* A step that gives k no more entries and no more adders.
<1>1. ASSUME AddingTo(k)' \subseteq AddingTo(k), Len(chain'[k]) \in Nat,
             Len(chain'[k]) <= Len(chain[k])
      PROVE  Len(chain'[k]) + Cardinality(AddingTo(k)') <= Cardinality(Threads)
  <2>1. Cardinality(AddingTo(k)') <= Cardinality(AddingTo(k))
    BY <1>0, <1>1, FS_Subset
  <2>. QED  BY <1>0, <1>1, <2>1
<1>2. ASSUME UNCHANGED <<chain, adding>>
      PROVE  Len(chain'[k]) + Cardinality(AddingTo(k)') <= Cardinality(Threads)
  BY <1>0, <1>1, <1>2 DEF AddingTo
<1>3. ASSUME NEW t \in Threads, NEW j \in Keys, Remove(t, j)
      PROVE  Len(chain'[k]) + Cardinality(AddingTo(k)') <= Cardinality(Threads)
  <2>1. AddingTo(k)' = AddingTo(k)
    BY <1>3 DEF Remove, AddingTo
  <2>2. Len(chain'[k]) \in Nat /\ Len(chain'[k]) <= Len(chain[k])
    <3>1. CASE j = k
      <4>1. chain[k] \in Seq(Values) /\ chain[k] # << >> /\ chain'[k] = Tail(chain[k])
        BY <1>3, <3>1 DEF Remove, Absent, TypeOK
      <4>. QED  BY <4>1
    <3>2. CASE j # k
      BY <1>0, <1>3, <3>2 DEF Remove, TypeOK
    <3>. QED  BY <3>1, <3>2
  <2>. QED  BY <1>1, <2>1, <2>2
<1>4. ASSUME NEW t \in Threads, NEW j \in Keys, FindAbsent(t, j)
      PROVE  Len(chain'[k]) + Cardinality(AddingTo(k)') <= Cardinality(Threads)
  <2>1. CASE j = k
    <3>1. Len(chain'[k]) = 0
      BY <1>4, <2>1 DEF FindAbsent, Absent
    <3>. QED  BY <1>0, <3>1
  <2>2. CASE j # k
    <3>1. AddingTo(k)' \subseteq AddingTo(k)
      BY <1>4, <2>2 DEF FindAbsent, AddingTo, TypeOK
    <3>. QED  BY <1>0, <1>1, <1>4, <3>1 DEF FindAbsent
  <2>. QED  BY <2>1, <2>2
<1>5. ASSUME NEW t \in Threads, NEW j \in Keys, NEW v \in Values, Add(t, j, v)
      PROVE  Len(chain'[k]) + Cardinality(AddingTo(k)') <= Cardinality(Threads)
  <2>0. Added # k
    BY MapAssumption
  <2>1. CASE j = k
    <3>1. t \in AddingTo(k) /\ AddingTo(k)' = AddingTo(k) \ {t}
      BY <1>5, <2>0, <2>1 DEF Add, AddingTo, TypeOK
    <3>2. Cardinality(AddingTo(k)') = Cardinality(AddingTo(k)) - 1
      BY <1>0, <3>1, FS_RemoveElement
    <3>3. Len(chain'[k]) = Len(chain[k]) + 1
      BY <1>5, <2>1 DEF Add, TypeOK
    <3>. QED  BY <1>0, <3>2, <3>3
  <2>2. CASE j # k
    <3>1. AddingTo(k)' \subseteq AddingTo(k) /\ chain'[k] = chain[k]
      BY <1>5, <2>0, <2>2 DEF Add, AddingTo, TypeOK
    <3>. QED  BY <1>0, <1>1, <3>1
  <2>. QED  BY <2>1, <2>2
<1>6. ASSUME NEW t \in Threads, Confirm(t)
      PROVE  Len(chain'[k]) + Cardinality(AddingTo(k)') <= Cardinality(Threads)
  <2>1. AddingTo(k)' \subseteq AddingTo(k)
    BY <1>6, MapAssumption DEF Confirm, AddingTo, TypeOK
  <2>. QED  BY <1>0, <1>1, <1>6, <2>1 DEF Confirm
<1>7. ASSUME NEW t \in Threads, NEW j \in Keys,
             Get(t, j) \/ Subscript(t, j) \/ Refuse(t, j)
      PROVE  Len(chain'[k]) + Cardinality(AddingTo(k)') <= Cardinality(Threads)
  BY <1>2, <1>7 DEF Get, Subscript, Refuse
<1>8. ASSUME NEW t \in Threads, ReadBucket(t)
      PROVE  Len(chain'[k]) + Cardinality(AddingTo(k)') <= Cardinality(Threads)
  BY <1>2, <1>8 DEF ReadBucket
<1>9. CASE UNCHANGED vars
  BY <1>2, <1>9 DEF vars
<1>. QED  BY <1>3, <1>4, <1>5, <1>6, <1>7, <1>8, <1>9 DEF Next

\* However insert() races with itself, no key is present more often than there
\* are threads.
THEOREM DuplicatesBounded == Spec => []BoundedDuplicates
<1>1. Spec => [](TypeOK /\ BoundedDuplicates)
  BY InitType, InitBound, TypeStep, BoundStep, PTL DEF Spec
<1>. QED  BY <1>1, PTL

=============================================================================
