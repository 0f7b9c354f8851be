------------------------ MODULE CircularBufferProofs ------------------------
(***************************************************************************)
(* Theorems about CircularBuffer for every capacity, every finite set of   *)
(* producers and consumers and every number of messages.                   *)
(***************************************************************************)
EXTENDS CircularBuffer, ModularArithmetic, FiniteSetTheorems, SequenceTheorems, TLAPS

(***************************************************************************)
(* Counting.  When one process moves from label a to label b, the number   *)
(* of processes within a set of labels changes by the obvious amount.      *)
(***************************************************************************)
InSet(x, S) == IF x \in S THEN 1 ELSE 0

LEMMA ProcsFinite == IsFiniteSet(Procs)
BY BufferAssumption, FS_Union DEF Procs

LEMMA AtFinite ==
  ASSUME NEW S
  PROVE  IsFiniteSet(At(S)) /\ Cardinality(At(S)) \in Nat
<1>1. At(S) \subseteq Procs
  BY DEF At
<1>. QED  BY <1>1, ProcsFinite, FS_Subset, FS_CardinalityType

LEMMA MoveCounts ==
  ASSUME NEW p \in Procs, NEW a, NEW b, NEW S,
         pc \in [Procs -> {"idle"} \cup PushLabels \cup PopLabels],
         Goto(p, a, b)
  PROVE  Cardinality(At(S)') = Cardinality(At(S)) - InSet(a, S) + InSet(b, S)
<1>1. /\ pc[p] = a /\ pc'[p] = b
      /\ \A q \in Procs : q # p => pc'[q] = pc[q]
  BY DEF Goto
<1>2. IsFiniteSet(At(S)) /\ Cardinality(At(S)) \in Nat
  BY AtFinite
<1>3. CASE a \in S /\ b \in S
  <2>1. At(S)' = At(S)
    BY <1>1, <1>3 DEF At
  <2>. QED  BY <2>1, <1>2, <1>3 DEF InSet
<1>4. CASE a \in S /\ b \notin S
  <2>1. At(S)' = At(S) \ {p} /\ p \in At(S)
    BY <1>1, <1>4 DEF At
  <2>2. Cardinality(At(S) \ {p}) = Cardinality(At(S)) - 1
    BY <2>1, <1>2, FS_RemoveElement
  <2>. QED  BY <2>1, <2>2, <1>2, <1>4 DEF InSet
<1>5. CASE a \notin S /\ b \in S
  <2>1. At(S)' = At(S) \cup {p} /\ p \notin At(S)
    BY <1>1, <1>5 DEF At
  <2>2. Cardinality(At(S) \cup {p}) = Cardinality(At(S)) + 1
    BY <2>1, <1>2, FS_AddElement
  <2>. QED  BY <2>1, <2>2, <1>2, <1>5 DEF InSet
<1>6. CASE a \notin S /\ b \notin S
  <2>1. At(S)' = At(S)
    BY <1>1, <1>6 DEF At
  <2>. QED  BY <2>1, <1>2, <1>6 DEF InSet
<1>. QED  BY <1>3, <1>4, <1>5, <1>6


\* The positions of the ring.
LEMMA SlotsMod ==
  /\ \A x \in Int : x % N \in Slots
  /\ \A i \in Slots : Next1(i) \in Slots
  /\ \A i \in Slots : i % N = i
<1>1. \A x \in Int : x % N \in Slots
  BY BufferAssumption DEF Slots
<1>2. \A i \in Slots : Next1(i) \in Slots
  BY <1>1 DEF Slots, Next1
<1>3. \A i \in Slots : i % N = i
  BY BufferAssumption DEF Slots
<1>. QED  BY <1>1, <1>2, <1>3

-----------------------------------------------------------------------------
(***************************************************************************)
(* The inductive invariant.  TypeOK alone is not inductive: that _size and *)
(* the semaphores stay within 0..N follows from TokensConserved, and that  *)
(* only one index is ever ahead of the other from MutexHeld.               *)
(***************************************************************************)
IInv == TypeOK /\ TokensConserved /\ MutexHeld /\ IndicesAgree

LEMMA InitIInv == Init => IInv
<1>. SUFFICES ASSUME Init PROVE IInv
  OBVIOUS
<1>1. TypeOK
  BY BufferAssumption DEF Init, TypeOK, Slots, Procs
<1>2. \A S : "idle" \notin S => At(S) = {}
  BY DEF Init, At
<1>3. TokensConserved
  <2>1. /\ At(Filling) = {}
        /\ At(Emptying) = {}
        /\ At(Filled) = {}
        /\ At(Claimed) = {}
    BY <1>2 DEF Filling, Emptying, Filled, Claimed
  <2>. QED  BY <2>1, FS_EmptySet, BufferAssumption DEF Init, TokensConserved
<1>4. MutexHeld
  BY BufferAssumption DEF Init, MutexHeld
<1>5. IndicesAgree
  BY BufferAssumption DEF Init, IndicesAgree, Front, Back, HalfPopped, HalfPushed, Procs
<1>. QED  BY <1>1, <1>3, <1>4, <1>5 DEF IInv

\* The change of InSet when a process moves from label a to label b.
Moved(a, b, S) == InSet(b, S) - InSet(a, S)

\* TokensConserved survives a move that keeps its two sums balanced.
LEMMA TokensAfterMove ==
  ASSUME IInv, NEW p \in Procs, NEW a, NEW b, Goto(p, a, b),
         openSlots' \in Int, fullSlots' \in Int,
         openSlots' + fullSlots' + Moved(a, b, Filling) + Moved(a, b, Emptying)
           = openSlots + fullSlots,
         size' - fullSlots' - Moved(a, b, Filled) - Moved(a, b, Claimed)
           = size - fullSlots,
         size' \in Int
  PROVE  TokensConserved'
<1>1. pc \in [Procs -> {"idle"} \cup PushLabels \cup PopLabels]
  BY DEF IInv, TypeOK
<1>2. \A S : Cardinality(At(S)) \in Nat
  BY AtFinite
<1>3. \A S : /\ Moved(a, b, S) \in Int
             /\ Cardinality(At(S)') = Cardinality(At(S)) + Moved(a, b, S)
  <2>. TAKE S
  <2>1. InSet(a, S) \in Int /\ InSet(b, S) \in Int
    BY DEF InSet
  <2>2. Cardinality(At(S)') = Cardinality(At(S)) - InSet(a, S) + InSet(b, S)
    BY <1>1, MoveCounts
  <2>. QED  BY <1>2, <2>1, <2>2 DEF Moved
<1>4. TokensConserved /\ openSlots \in Int /\ fullSlots \in Int /\ size \in Int
  BY BufferAssumption DEF IInv, TypeOK
<1>5. /\ Cardinality(At(Filling)') = Cardinality(At(Filling)) + Moved(a, b, Filling)
      /\ Cardinality(At(Emptying)') = Cardinality(At(Emptying)) + Moved(a, b, Emptying)
      /\ Cardinality(At(Filled)') = Cardinality(At(Filled)) + Moved(a, b, Filled)
      /\ Cardinality(At(Claimed)') = Cardinality(At(Claimed)) + Moved(a, b, Claimed)
  BY <1>3
<1>. QED  BY <1>2, <1>3, <1>4, <1>5, BufferAssumption DEF TokensConserved

LEMMA TokensStep == IInv /\ [Next]_vars => TokensConserved'
<1>. SUFFICES ASSUME IInv, [Next]_vars PROVE TokensConserved'
  OBVIOUS
<1>. USE BufferAssumption DEF Filling, Emptying, Filled, Claimed, Moved, InSet
<1>0. openSlots \in Int /\ fullSlots \in Int /\ size \in Int
  BY DEF IInv, TypeOK
<1>1. ASSUME NEW p \in Producers, PushCheck(p) PROVE TokensConserved'
  BY <1>0, <1>1, TokensAfterMove DEF PushCheck, Procs
<1>2. ASSUME NEW p \in Producers, PushWait(p) PROVE TokensConserved'
  BY <1>0, <1>2, TokensAfterMove DEF PushWait, Procs
<1>3. ASSUME NEW p \in Producers, PushLock(p) PROVE TokensConserved'
  BY <1>0, <1>3, TokensAfterMove DEF PushLock, Procs
<1>4. ASSUME NEW p \in Producers, PushAdvance(p) PROVE TokensConserved'
  BY <1>0, <1>4, TokensAfterMove DEF PushAdvance, Procs
<1>5. ASSUME NEW p \in Producers, PushPost(p) PROVE TokensConserved'
  BY <1>0, <1>5, TokensAfterMove DEF PushPost, Procs
<1>6. ASSUME NEW c \in Consumers, PopCheck(c) PROVE TokensConserved'
  BY <1>0, <1>6, TokensAfterMove DEF PopCheck, Procs
<1>7. ASSUME NEW c \in Consumers, PopWait(c) PROVE TokensConserved'
  BY <1>0, <1>7, TokensAfterMove DEF PopWait, Procs
<1>8. ASSUME NEW c \in Consumers, PopLock(c) PROVE TokensConserved'
  BY <1>0, <1>8, TokensAfterMove DEF PopLock, Procs
<1>9. ASSUME NEW c \in Consumers, PopAdvance(c) PROVE TokensConserved'
  BY <1>0, <1>9, TokensAfterMove DEF PopAdvance, Procs
<1>10. ASSUME NEW c \in Consumers, PopPost(c) PROVE TokensConserved'
  BY <1>0, <1>10, TokensAfterMove DEF PopPost, Procs
<1>11. ASSUME NEW u \in Updaters, NEW i \in Slots, Update(u, i)
      PROVE TokensConserved'
  BY <1>11 DEF Update, IInv, TokensConserved, At
<1>12. ASSUME NEW p \in Mortal, Die(p) PROVE TokensConserved'
  BY <1>12 DEF Die, IInv, TokensConserved, At
<1>13. CASE UNCHANGED vars
  BY <1>13 DEF vars, IInv, TokensConserved, At
<1>. QED
  BY <1>1, <1>2, <1>3, <1>4, <1>5, <1>6, <1>7, <1>8, <1>9, <1>10, <1>11, <1>12, <1>13 DEF Next, Pushing, Popping

\* The types, given that the tokens are still conserved.
LEMMA TypeStep == IInv /\ [Next]_vars => TypeOK'
<1>. SUFFICES ASSUME IInv, [Next]_vars PROVE TypeOK'
  OBVIOUS
<1>. USE BufferAssumption DEF IInv, TypeOK, Procs, PushLabels, PopLabels, Goto
<1>0. /\ openSlots' \in Int /\ fullSlots' \in Int /\ size' \in Int
      /\ openSlots' >= 0 /\ fullSlots' >= 0
      => openSlots' \in 0 .. N /\ fullSlots' \in 0 .. N /\ size' \in 0 .. N
  <2>. SUFFICES ASSUME openSlots' \in Int, fullSlots' \in Int, size' \in Int,
                       openSlots' >= 0, fullSlots' >= 0
                PROVE  openSlots' \in 0 .. N /\ fullSlots' \in 0 .. N /\ size' \in 0 .. N
    OBVIOUS
  <2>1. TokensConserved'
    BY TokensStep
  <2>2. /\ Cardinality(At(Filling)') \in Nat /\ Cardinality(At(Emptying)') \in Nat
        /\ Cardinality(At(Filled)') \in Nat /\ Cardinality(At(Claimed)') \in Nat
        /\ Cardinality(At(Filled)') <= Cardinality(At(Filling)')
        /\ Cardinality(At(Claimed)') <= Cardinality(At(Emptying)')
    <3>1. \A S : At(S)' \subseteq Procs
      BY DEF At
    <3>2. \A S : IsFiniteSet(At(S)') /\ Cardinality(At(S)') \in Nat
      BY <3>1, ProcsFinite, FS_Subset, FS_CardinalityType
    <3>3. At(Filled)' \subseteq At(Filling)' /\ At(Claimed)' \subseteq At(Emptying)'
      BY DEF At, Filled, Filling, Claimed, Emptying
    <3>. QED  BY <3>2, <3>3, FS_Subset
  <2>. QED  BY <2>1, <2>2 DEF TokensConserved
<1>1. ASSUME NEW p \in Producers, PushCheck(p) PROVE TypeOK'
  BY <1>0, <1>1 DEF PushCheck
<1>2. ASSUME NEW p \in Producers, PushWait(p) PROVE TypeOK'
  BY <1>0, <1>2 DEF PushWait
<1>3. ASSUME NEW p \in Producers, PushLock(p) PROVE TypeOK'
  BY <1>0, <1>3 DEF PushLock, Messages
<1>4. ASSUME NEW p \in Producers, PushAdvance(p) PROVE TypeOK'
  BY <1>0, <1>4, SlotsMod DEF PushAdvance
<1>5. ASSUME NEW p \in Producers, PushPost(p) PROVE TypeOK'
  BY <1>0, <1>5 DEF PushPost
<1>6. ASSUME NEW c \in Consumers, PopCheck(c) PROVE TypeOK'
  BY <1>0, <1>6 DEF PopCheck
<1>7. ASSUME NEW c \in Consumers, PopWait(c) PROVE TypeOK'
  BY <1>0, <1>7 DEF PopWait
<1>8. ASSUME NEW c \in Consumers, PopLock(c) PROVE TypeOK'
  BY <1>0, <1>8 DEF PopLock, Entry
<1>9. ASSUME NEW c \in Consumers, PopAdvance(c) PROVE TypeOK'
  BY <1>0, <1>9, SlotsMod DEF PopAdvance
<1>10. ASSUME NEW c \in Consumers, PopPost(c) PROVE TypeOK'
  BY <1>0, <1>10 DEF PopPost
<1>11. ASSUME NEW u \in Updaters, NEW i \in Slots, Update(u, i)
      PROVE TypeOK'
  BY <1>11 DEF Update, Messages
<1>12. ASSUME NEW p \in Mortal, Die(p) PROVE TypeOK'
  BY <1>12 DEF Die
<1>13. CASE UNCHANGED vars
  BY <1>13 DEF vars
<1>. QED
  BY <1>1, <1>2, <1>3, <1>4, <1>5, <1>6, <1>7, <1>8, <1>9, <1>10, <1>11, <1>12, <1>13 DEF Next, Pushing, Popping

LEMMA MutexStep == IInv /\ [Next]_vars => MutexHeld'
<1>. SUFFICES ASSUME IInv, [Next]_vars PROVE MutexHeld'
  OBVIOUS
<1>. USE BufferAssumption DEF IInv, TypeOK, MutexHeld, Procs, PushLabels,
                              PopLabels, Goto
<1>1. ASSUME NEW p \in Producers, PushCheck(p) PROVE MutexHeld'
  BY <1>1 DEF PushCheck
<1>2. ASSUME NEW p \in Producers, PushWait(p) PROVE MutexHeld'
  BY <1>2 DEF PushWait
<1>3. ASSUME NEW p \in Producers, PushLock(p) PROVE MutexHeld'
  BY <1>3 DEF PushLock
<1>4. ASSUME NEW p \in Producers, PushAdvance(p) PROVE MutexHeld'
  BY <1>4 DEF PushAdvance
<1>5. ASSUME NEW p \in Producers, PushPost(p) PROVE MutexHeld'
  BY <1>5 DEF PushPost
<1>6. ASSUME NEW c \in Consumers, PopCheck(c) PROVE MutexHeld'
  BY <1>6 DEF PopCheck
<1>7. ASSUME NEW c \in Consumers, PopWait(c) PROVE MutexHeld'
  BY <1>7 DEF PopWait
<1>8. ASSUME NEW c \in Consumers, PopLock(c) PROVE MutexHeld'
  BY <1>8 DEF PopLock
<1>9. ASSUME NEW c \in Consumers, PopAdvance(c) PROVE MutexHeld'
  BY <1>9 DEF PopAdvance
<1>10. ASSUME NEW c \in Consumers, PopPost(c) PROVE MutexHeld'
  BY <1>10 DEF PopPost
<1>11. ASSUME NEW u \in Updaters, NEW i \in Slots, Update(u, i)
      PROVE MutexHeld'
  BY <1>11 DEF Update
<1>12. ASSUME NEW p \in Mortal, Die(p) PROVE MutexHeld'
  BY <1>12 DEF Die
<1>13. CASE UNCHANGED vars
  BY <1>13 DEF vars
<1>. QED
  BY <1>1, <1>2, <1>3, <1>4, <1>5, <1>6, <1>7, <1>8, <1>9, <1>10, <1>11, <1>12, <1>13 DEF Next, Pushing, Popping

\* Who can be in the middle of a critical section, read off the mutex.
LEMMA HalfWay ==
  ASSUME IInv
  PROVE  /\ mutex = Free => ~HalfPushed /\ ~HalfPopped
         /\ \A p \in Producers :
              pc[p] = "pushAdvance" =>
                /\ HalfPushed /\ ~HalfPopped
                /\ \A q \in Procs : pc[q] = "pushAdvance" => q = p
         /\ \A c \in Consumers :
              pc[c] = "popAdvance" =>
                /\ HalfPopped /\ ~HalfPushed
                /\ \A q \in Procs : pc[q] = "popAdvance" => q = c
BY BufferAssumption DEF IInv, MutexHeld, TypeOK, Procs, HalfPushed, HalfPopped

\* A step that neither enters nor leaves a critical section.
LEMMA HalfUnchanged ==
  ASSUME IInv, NEW p \in Procs, NEW a, NEW b, Goto(p, a, b),
         {a, b} \cap {"pushAdvance", "popAdvance"} = {}
  PROVE  HalfPushed' = HalfPushed /\ HalfPopped' = HalfPopped
<1>1. pc \in [Procs -> {"idle"} \cup PushLabels \cup PopLabels]
  BY DEF IInv, TypeOK
<1>2. \A q \in Procs : /\ pc'[q] = "pushAdvance" <=> pc[q] = "pushAdvance"
                       /\ pc'[q] = "popAdvance" <=> pc[q] = "popAdvance"
  BY <1>1 DEF Goto
<1>. QED  BY <1>2 DEF HalfPushed, HalfPopped, Procs

\* What the head and the tail of the abstract queue are after each step.
LEMMA FrontBackStep ==
  ASSUME IInv
  PROVE  /\ \A p \in Producers : PushLock(p) =>
              /\ Front = headIdx /\ Back = tailIdx
              /\ Front' = Front /\ Back' = Next1(Back)
         /\ \A c \in Consumers : PopLock(c) =>
              /\ Front = headIdx /\ Back = tailIdx
              /\ Front' = Next1(Front) /\ Back' = Back
         /\ \A p \in Producers : PushAdvance(p) => Front' = Front /\ Back' = Back
         /\ \A c \in Consumers : PopAdvance(c) => Front' = Front /\ Back' = Back
<1>. USE BufferAssumption DEF IInv, TypeOK, Procs, Front, Back, Goto, Next1
<1>1. ASSUME NEW p \in Producers, PushLock(p)
      PROVE  /\ Front = headIdx /\ Back = tailIdx
             /\ Front' = Front /\ Back' = Next1(Back)
  <2>1. ~HalfPushed /\ ~HalfPopped
    BY <1>1, HalfWay DEF PushLock
  <2>2. HalfPushed' /\ ~HalfPopped'
    BY <1>1, <2>1 DEF PushLock, HalfPushed, HalfPopped
  <2>. QED  BY <1>1, <2>1, <2>2 DEF PushLock
<1>2. ASSUME NEW c \in Consumers, PopLock(c)
      PROVE  /\ Front = headIdx /\ Back = tailIdx
             /\ Front' = Next1(Front) /\ Back' = Back
  <2>1. ~HalfPushed /\ ~HalfPopped
    BY <1>2, HalfWay DEF PopLock
  <2>2. HalfPopped' /\ ~HalfPushed'
    BY <1>2, <2>1 DEF PopLock, HalfPushed, HalfPopped
  <2>. QED  BY <1>2, <2>1, <2>2 DEF PopLock
<1>3. ASSUME NEW p \in Producers, PushAdvance(p)
      PROVE  Front' = Front /\ Back' = Back
  <2>1. HalfPushed /\ ~HalfPopped
    BY <1>3, HalfWay DEF PushAdvance
  <2>2. ~HalfPushed' /\ ~HalfPopped'
    BY <1>3, <2>1, HalfWay DEF PushAdvance, HalfPushed, HalfPopped
  <2>. QED  BY <1>3, <2>1, <2>2 DEF PushAdvance
<1>4. ASSUME NEW c \in Consumers, PopAdvance(c)
      PROVE  Front' = Front /\ Back' = Back
  <2>1. HalfPopped /\ ~HalfPushed
    BY <1>4, HalfWay DEF PopAdvance
  <2>2. ~HalfPushed' /\ ~HalfPopped'
    BY <1>4, <2>1, HalfWay DEF PopAdvance, HalfPushed, HalfPopped
  <2>. QED  BY <1>4, <2>1, <2>2 DEF PopAdvance
<1>. QED  BY <1>1, <1>2, <1>3, <1>4

LEMMA IndexStep == IInv /\ [Next]_vars => IndicesAgree'
<1>. SUFFICES ASSUME IInv, [Next]_vars PROVE IndicesAgree'
  OBVIOUS
<1>0. /\ IndicesAgree /\ headIdx \in Slots /\ tailIdx \in Slots
      /\ size \in Int /\ Front \in Int /\ Back \in Slots /\ N \in Nat \ {0}
  <2>1. /\ IndicesAgree /\ headIdx \in Slots /\ tailIdx \in Slots
        /\ size \in Int /\ N \in Nat \ {0}
    BY BufferAssumption DEF IInv, TypeOK
  <2>2. Front \in Slots /\ Back \in Slots
    BY <2>1, SlotsMod DEF Front, Back
  <2>3. Slots \subseteq Int
    BY DEF Slots
  <2>. QED  BY <2>1, <2>2, <2>3
\* Steps outside the two critical sections leave all three values alone.
<1>1. ASSUME NEW p \in Procs, NEW a, NEW b, Goto(p, a, b),
             {a, b} \cap {"pushAdvance", "popAdvance"} = {},
             UNCHANGED <<headIdx, tailIdx, size>>
      PROVE  IndicesAgree'
  BY <1>0, <1>1, HalfUnchanged DEF IndicesAgree, Front, Back
<1>2. ASSUME NEW p \in Producers, PushLock(p) PROVE IndicesAgree'
  <2>1. Front' = Front /\ Back' = Next1(Back) /\ size' = size + 1
    BY <1>2, FrontBackStep DEF PushLock
  <2>2. Front + size \in Int /\ Front + (size + 1) = (Front + size) + 1
    BY <1>0
  <2>3. (((Front + size) % N) + 1) % N = ((Front + size) + 1) % N
    BY <1>0, <2>2, ModSucc
  <2>. QED  BY <1>0, <2>1, <2>2, <2>3 DEF IndicesAgree, Next1
<1>3. ASSUME NEW c \in Consumers, PopLock(c) PROVE IndicesAgree'
  <2>1. Front' = Next1(Front) /\ Back' = Back /\ size' = size - 1
    BY <1>3, FrontBackStep DEF PopLock
  <2>2. /\ Front + 1 \in Int /\ size - 1 \in Int
        /\ (Front + 1) + (size - 1) = Front + size
    BY <1>0
  <2>3. (((Front + 1) % N) + (size - 1)) % N = ((Front + 1) + (size - 1)) % N
    BY <1>0, <2>2, ModAdd
  <2>. QED  BY <1>0, <2>1, <2>2, <2>3 DEF IndicesAgree, Next1
<1>4. ASSUME NEW p \in Producers, PushAdvance(p) PROVE IndicesAgree'
  BY <1>0, <1>4, FrontBackStep DEF IndicesAgree, PushAdvance
<1>5. ASSUME NEW c \in Consumers, PopAdvance(c) PROVE IndicesAgree'
  BY <1>0, <1>5, FrontBackStep DEF IndicesAgree, PopAdvance
<1>6. ASSUME NEW p \in Producers, PushCheck(p) \/ PushWait(p) \/ PushPost(p)
      PROVE  IndicesAgree'
  BY <1>1, <1>6 DEF PushCheck, PushWait, PushPost, Procs
<1>7. ASSUME NEW c \in Consumers, PopCheck(c) \/ PopWait(c) \/ PopPost(c)
      PROVE  IndicesAgree'
  BY <1>1, <1>7 DEF PopCheck, PopWait, PopPost, Procs
<1>8. ASSUME NEW u \in Updaters, NEW i \in Slots, Update(u, i)
      PROVE  IndicesAgree'
  BY <1>0, <1>8 DEF Update, IndicesAgree, Front, Back, HalfPushed, HalfPopped
<1>9. ASSUME NEW p \in Mortal, Die(p) PROVE IndicesAgree'
  BY <1>0, <1>9 DEF Die, IndicesAgree, Front, Back, HalfPushed, HalfPopped
<1>10. CASE UNCHANGED vars
  BY <1>0, <1>10 DEF vars, IndicesAgree, Front, Back, HalfPushed, HalfPopped
<1>. QED
  BY <1>2, <1>3, <1>4, <1>5, <1>6, <1>7, <1>8, <1>9, <1>10 DEF Next, Pushing, Popping

LEMMA StepIInv == IInv /\ [Next]_vars => IInv'
BY TokensStep, TypeStep, MutexStep, IndexStep DEF IInv

LEMMA InvariantHolds == Spec => []IInv
BY InitIInv, StepIInv, PTL DEF Spec

-----------------------------------------------------------------------------
(***************************************************************************)
(* What the invariant is good for: slots are filled and emptied in turn.   *)
(***************************************************************************)
LEMMA SlotReady == IInv => NoOverrunNoUnderrun
<1>. SUFFICES ASSUME IInv PROVE NoOverrunNoUnderrun
  OBVIOUS
<1>1. /\ TokensConserved /\ openSlots \in 0 .. N /\ fullSlots \in 0 .. N
      /\ size \in 0 .. N /\ N \in Nat
  BY BufferAssumption DEF IInv, TypeOK
<1>2. \A S : IsFiniteSet(At(S)) /\ Cardinality(At(S)) \in Nat
  BY AtFinite
<1>3. At({"pushLock"}) # {} => size < N
  <2>. SUFFICES ASSUME At({"pushLock"}) # {} PROVE size < N
    OBVIOUS
  <2>1. PICK p \in At({"pushLock"}) : TRUE
    OBVIOUS
  <2>2. p \in At(Filling) /\ p \notin At(Filled)
    BY <2>1 DEF At, Filling, Filled
  <2>3. At(Filled) \subseteq At(Filling) \ {p}
    BY <2>2 DEF At, Filling, Filled
  <2>4. Cardinality(At(Filling) \ {p}) = Cardinality(At(Filling)) - 1
    BY <1>2, <2>2, FS_RemoveElement
  <2>5. Cardinality(At(Filled)) <= Cardinality(At(Filling)) - 1
    BY <1>2, <2>3, <2>4, FS_RemoveElement, FS_Subset
  <2>6. Cardinality(At(Claimed)) <= Cardinality(At(Emptying))
    <3>1. At(Claimed) \subseteq At(Emptying)
      BY DEF At, Claimed, Emptying
    <3>. QED  BY <1>2, <3>1, FS_Subset
  <2>. QED  BY <1>1, <1>2, <2>5, <2>6 DEF TokensConserved
<1>4. At({"popLock"}) # {} => size > 0
  <2>1. At(Claimed) # {} => Cardinality(At(Claimed)) > 0
    BY <1>2, FS_EmptySet
  <2>. QED  BY <1>1, <1>2, <2>1 DEF TokensConserved, Claimed
<1>. QED  BY <1>3, <1>4 DEF NoOverrunNoUnderrun

\* The slot at position j of the queue.
Ring(j) == (Front + j - 1) % N

LEMMA WaitingShape ==
  ASSUME IInv
  PROVE  /\ Waiting = [j \in 1 .. size |-> [msg |-> buffer[Ring(j)], idx |-> Ring(j)]]
         /\ size \in Nat /\ size <= N /\ Front \in Slots /\ Back \in Slots
         /\ \A j \in Nat : Ring(j) \in Slots
         /\ Waiting \in Seq([msg : Messages \cup {Blank}, idx : Slots]) /\ Len(Waiting) = size
<1>1. size \in Nat /\ size <= N /\ Front \in Slots /\ Back \in Slots
  BY BufferAssumption, SlotsMod DEF IInv, TypeOK, Front, Back
<1>2. \A j \in Nat : Ring(j) \in Slots
  BY <1>1, SlotsMod DEF Ring, Slots
<1>3. Waiting = [j \in 1 .. size |-> [msg |-> buffer[Ring(j)], idx |-> Ring(j)]]
  BY DEF Waiting, Ring
<1>4. \A j \in 1 .. size : buffer[Ring(j)] \in Messages \cup {Blank}
  BY <1>1, <1>2 DEF IInv, TypeOK
<1>5. Waiting \in [1 .. size -> [msg : Messages \cup {Blank}, idx : Slots]]
  BY <1>1, <1>2, <1>3, <1>4
<1>6. Waiting \in Seq([msg : Messages \cup {Blank}, idx : Slots]) /\ Len(Waiting) = size
  <2>. DEFINE E == [msg : Messages \cup {Blank}, idx : Slots]
              w == Waiting
  <2>1. w \in [1 .. size -> E] /\ size \in Nat
    BY <1>1, <1>5
  <2>. HIDE DEF E, w
  <2>2. w \in Seq(E) /\ Len(w) = size
    BY <2>1
  <2>. QED  BY <2>2 DEF E, w
<1>. QED  BY <1>1, <1>2, <1>3, <1>6

LEMMA FrontType ==
  ASSUME IInv
  PROVE  Front \in Int /\ Next1(Front) \in Int /\ N \in Nat \ {0}
<1>1. Front \in Slots /\ Next1(Front) \in Slots
  BY WaitingShape, SlotsMod
<1>. QED  BY <1>1, BufferAssumption DEF Slots

\* Different positions have different slots.
LEMMA RingInjective ==
  ASSUME IInv, NEW j \in Nat, NEW k \in Nat, j < k, k - j < N
  PROVE  Ring(j) # Ring(k)
<1>0. Front \in Int /\ N \in Nat \ {0}
  BY FrontType
<1>1. Front + j - 1 \in Int /\ Front + k - 1 \in Int
      /\ (Front + k - 1) - (Front + j - 1) = k - j
  BY <1>0
<1>. DEFINE x == Front + j - 1
            y == Front + k - 1
<1>2. x \in Int /\ y \in Int /\ 0 < y - x /\ y - x < N
  BY <1>1
<1>3. Ring(j) = x % N /\ Ring(k) = y % N
  BY DEF Ring
<1>. HIDE DEF x, y
<1>. QED  BY <1>0, <1>2, <1>3, ModDistinct

\* A step that leaves the ring alone leaves the queue alone.
LEMMA QueueUnchanged ==
  ASSUME UNCHANGED <<buffer, size, given, out>>, Front' = Front, Back' = Back
  PROVE  UNCHANGED Abstract!vars
BY DEF Abstract!vars, Waiting

LEMMA PushEnqueues ==
  ASSUME IInv, IInv', NEW p \in Producers, PushLock(p)
  PROVE  Abstract!Enqueue(p, <<p, sent[p]>>)
<1>. DEFINE m == <<p, sent[p]>>
<1>1. /\ Front = headIdx /\ Back = tailIdx /\ Front' = Front /\ Back' = Next1(Back)
      /\ size' = size + 1 /\ buffer' = [buffer EXCEPT ![tailIdx] = m]
      /\ given' = [given EXCEPT ![p] = tailIdx] /\ UNCHANGED out
  BY FrontBackStep DEF PushLock
<1>2. size < N
  <2>1. p \in At({"pushLock"})
    BY DEF At, PushLock, Goto, Procs
  <2>. QED  BY <2>1, SlotReady DEF NoOverrunNoUnderrun
<1>3. Ring(size + 1) = tailIdx
  BY <1>1, WaitingShape DEF IInv, IndicesAgree, Ring, Slots
<1>4. \A j \in Nat : Ring(j)' = Ring(j)
  BY <1>1 DEF Ring
<1>. HIDE DEF m
<1>5. /\ \A j \in 1 .. size : Ring(j) \in Slots /\ Ring(j) # tailIdx
      /\ tailIdx \in Slots /\ buffer \in [Slots -> Messages \cup {Blank}]
  <2>1. ASSUME NEW j \in 1 .. size PROVE Ring(j) # tailIdx
    BY <1>2, <1>3, RingInjective, WaitingShape, BufferAssumption
  <2>. QED  BY <1>1, <2>1, WaitingShape DEF IInv, TypeOK
<1>6. /\ buffer'[tailIdx] = m
      /\ \A j \in 1 .. size : buffer'[Ring(j)] = buffer[Ring(j)]
  BY <1>1, <1>5
<1>7. Waiting' = [j \in 1 .. size + 1 |-> [msg |-> buffer'[Ring(j)], idx |-> Ring(j)]]
  BY <1>1, <1>4 DEF Waiting, Ring
<1>8. Waiting' = Append(Waiting, [msg |-> m, idx |-> Back])
  <2>. DEFINE e == [msg |-> m, idx |-> Back]
              w == Waiting
              v == Waiting'
  <2>1. /\ size \in Nat /\ Len(w) = size
        /\ w \in Seq([msg : Messages \cup {Blank}, idx : Slots])
    BY WaitingShape
  <2>2. \A j \in 1 .. size : v[j] = w[j]
    BY <1>6, <1>7, <2>1, WaitingShape
  <2>3. v[size + 1] = e /\ DOMAIN v = 1 .. size + 1
    BY <1>1, <1>3, <1>6, <1>7, <2>1
  <2>4. v = [j \in 1 .. size + 1 |-> v[j]]
    BY <1>7, <2>3
  <2>. HIDE DEF e, w, v
  <2>. QED  BY <2>1, <2>2, <2>3, <2>4 DEF e, w, v
<1>. QED  BY <1>1, <1>2, <1>8, WaitingShape DEF Abstract!Enqueue, Next1, m

LEMMA PopDequeues ==
  ASSUME IInv, IInv', NEW c \in Consumers, PopLock(c)
  PROVE  Abstract!Dequeue(c)
<1>1. /\ Front = headIdx /\ Back = tailIdx /\ Front' = Next1(Front) /\ Back' = Back
      /\ size' = size - 1 /\ UNCHANGED <<buffer, given>>
      /\ out' = [out EXCEPT ![c] = [msg |-> buffer[headIdx], idx |-> headIdx]]
  BY FrontBackStep DEF PopLock
<1>2. size > 0 /\ size \in Nat
  <2>1. c \in At({"popLock"})
    BY DEF At, PopLock, Goto, Procs
  <2>. QED  BY <2>1, SlotReady, WaitingShape DEF NoOverrunNoUnderrun
<1>3. Ring(1) = headIdx
  BY <1>1, WaitingShape, SlotsMod DEF Ring, Slots
<1>4. \A j \in Nat : Ring(j)' = Ring(j + 1)
  <2>. SUFFICES ASSUME NEW j \in Nat PROVE Ring(j)' = Ring(j + 1)
    OBVIOUS
  <2>0. Front \in Int /\ Next1(Front) \in Int /\ N \in Nat \ {0}
    BY FrontType
  <2>1. /\ Front + 1 \in Int /\ j - 1 \in Int
        /\ (Front + 1) + (j - 1) = Front + (j + 1) - 1
        /\ Next1(Front) + j - 1 = Next1(Front) + (j - 1)
    BY <2>0
  <2>2. (((Front + 1) % N) + (j - 1)) % N = ((Front + 1) + (j - 1)) % N
    BY <2>0, <2>1, ModAdd
  <2>. QED  BY <1>1, <2>1, <2>2 DEF Ring, Next1
<1>5. Waiting' = [j \in 1 .. size - 1 |-> [msg |-> buffer[Ring(j + 1)], idx |-> Ring(j + 1)]]
  <2>1. Waiting' = [j \in 1 .. size - 1 |-> [msg |-> buffer[Ring(j)'], idx |-> Ring(j)']]
    BY <1>1 DEF Waiting, Ring
  <2>2. \A j \in 1 .. size - 1 : Ring(j)' = Ring(j + 1)
    BY <1>2, <1>4
  <2>. QED  BY <2>1, <2>2
<1>. DEFINE w == Waiting
            v == Waiting'
<1>6. /\ Len(w) = size /\ w \in Seq([msg : Messages \cup {Blank}, idx : Slots])
      /\ \A j \in 1 .. size : w[j] = [msg |-> buffer[Ring(j)], idx |-> Ring(j)]
  BY WaitingShape
<1>7. v = [j \in 1 .. size - 1 |-> w[j + 1]]
  BY <1>2, <1>5, <1>6
<1>8. w[1] = [msg |-> buffer[headIdx], idx |-> headIdx]
  BY <1>2, <1>3, <1>6
<1>. HIDE DEF w, v
<1>9. w # << >> /\ w[1] = Head(w)
  BY <1>2, <1>6
<1>10. v = Tail(w)
  <2>. DEFINE E == [msg : Messages \cup {Blank}, idx : Slots]
  <2>. HIDE DEF E
  <2>1. w \in Seq(E) /\ Len(w) = size /\ size \in Nat /\ size > 0
    BY <1>2, <1>6 DEF E
  <2>2. v \in Seq(E) /\ Len(v) = size - 1 /\ \A j \in 1 .. Len(v) : v[j] = w[j + 1]
    BY <1>7, <2>1
  <2>3. Tail(w) \in Seq(E) /\ Len(Tail(w)) = size - 1
        /\ \A j \in 1 .. Len(v) : Tail(w)[j] = w[j + 1]
    BY <2>1, <2>2
  <2>. QED  BY <2>2, <2>3, SeqEqual
<1>. QED  BY <1>1, <1>8, <1>9, <1>10 DEF Abstract!Dequeue, w, v

LEMMA UpdateReplaces ==
  ASSUME IInv, NEW u \in Updaters, NEW i \in Slots, Update(u, i)
  PROVE  Abstract!Update(i, <<u, 0>>)
<1>1. /\ buffer' = [buffer EXCEPT ![i] = <<u, 0>>] /\ UNCHANGED <<size, given, out>>
      /\ Front' = Front /\ Back' = Back
  BY DEF Update, Front, Back, HalfPushed, HalfPopped
<1>2. \A j \in Nat : Ring(j)' = Ring(j)
  BY <1>1 DEF Ring
<1>3. Waiting' = [j \in 1 .. size |-> [msg |-> buffer'[Ring(j)], idx |-> Ring(j)]]
  BY <1>1, <1>2 DEF Waiting, Ring
<1>4. /\ Waiting = [j \in 1 .. size |-> [msg |-> buffer[Ring(j)], idx |-> Ring(j)]]
      /\ \A j \in 1 .. size : Ring(j) \in Slots
      /\ buffer \in [Slots -> Messages \cup {Blank}]
  BY WaitingShape DEF IInv, TypeOK
<1>5. ASSUME NEW j \in 1 .. size
      PROVE  [msg |-> buffer'[Ring(j)], idx |-> Ring(j)] =
               IF Waiting[j].idx = i THEN [msg |-> <<u, 0>>, idx |-> i] ELSE Waiting[j]
  BY <1>1, <1>4
<1>6. Waiting' = [j \in DOMAIN Waiting |->
                    IF Waiting[j].idx = i THEN [msg |-> <<u, 0>>, idx |-> i] ELSE Waiting[j]]
  BY <1>3, <1>4, <1>5
<1>. QED  BY <1>1, <1>6 DEF Abstract!Update

-----------------------------------------------------------------------------
(***************************************************************************)
(* The theorems.                                                           *)
(***************************************************************************)

\* Every variable of the buffer keeps its type: _size and both semaphores stay
\* within 0..N whatever the number of clients and server threads.
THEOREM TypeCorrect == Spec => []TypeOK
BY InvariantHolds, PTL DEF IInv

\* The two semaphores and the processes between wait() and post() account for
\* every slot, and for _size.
THEOREM TokensAlwaysConserved == Spec => []TokensConserved
BY InvariantHolds, PTL DEF IInv

\* Head, tail and _size describe the same window of the ring.
THEOREM IndicesAlwaysAgree == Spec => []IndicesAgree
BY InvariantHolds, PTL DEF IInv

\* _pmutex is held by the one process that is inside push_back's or pop's
\* section, and by nobody else.
THEOREM MutexAlwaysHeld == Spec => []MutexHeld
BY InvariantHolds, PTL DEF IInv

\* The answer of isFull() or isEmpty() may be stale by the time the mutex is
\* taken again, but a pusher always finds a free slot and a popper a message:
\* the "_size < 0" exits are dead code and no unread message is overwritten.
THEOREM NeverOverrunsNorUnderruns == Spec => []NoOverrunNoUnderrun
BY SlotReady, InvariantHolds, PTL

\* The buffer is a FIFO queue of at most N messages; push_back() and pop() take
\* effect at once, in their critical sections, and a message leaves the queue
\* with the slot index that push_back() returned for it.
THEOREM ImplementsQueue == Spec => RefinesQueue
<1>1. Init => Abstract!Init
  <2>. SUFFICES ASSUME Init PROVE Abstract!Init
    OBVIOUS
  <2>1. size = 0 /\ tailIdx = 0 /\ ~HalfPushed
    BY DEF Init, HalfPushed, Procs
  <2>2. Waiting = << >> /\ Back = 0
    BY <2>1 DEF Waiting, Back
  <2>. QED  BY <2>2 DEF Init, NoEntry, Abstract!Init, Abstract!NoEntry
<1>2. IInv /\ [Next]_vars => [Abstract!Next]_(Abstract!vars)
  <2>. SUFFICES ASSUME IInv, [Next]_vars PROVE Abstract!Next \/ UNCHANGED Abstract!vars
    OBVIOUS
  <2>0. IInv'
    BY StepIInv
  <2>1. ASSUME NEW p \in Procs, NEW a, NEW b, Goto(p, a, b),
               {a, b} \cap {"pushAdvance", "popAdvance"} = {},
               UNCHANGED <<buffer, headIdx, tailIdx, size, given, out>>
        PROVE  UNCHANGED Abstract!vars
    BY <2>1, HalfUnchanged, QueueUnchanged DEF Front, Back
  <2>2. ASSUME NEW p \in Producers, PushLock(p) PROVE Abstract!Next
    <3>1. <<p, sent[p]>> \in Messages
      BY <2>2 DEF IInv, TypeOK, Messages
    <3>. QED  BY <2>0, <2>2, <3>1, PushEnqueues DEF Abstract!Next
  <2>3. ASSUME NEW c \in Consumers, PopLock(c) PROVE Abstract!Next
    BY <2>0, <2>3, PopDequeues DEF Abstract!Next
  <2>4. ASSUME NEW p \in Producers, PushAdvance(p) PROVE UNCHANGED Abstract!vars
    BY <2>4, FrontBackStep, QueueUnchanged DEF PushAdvance
  <2>5. ASSUME NEW c \in Consumers, PopAdvance(c) PROVE UNCHANGED Abstract!vars
    BY <2>5, FrontBackStep, QueueUnchanged DEF PopAdvance
  <2>6. ASSUME NEW p \in Producers, PushCheck(p) \/ PushWait(p) \/ PushPost(p)
        PROVE  UNCHANGED Abstract!vars
    BY <2>1, <2>6 DEF PushCheck, PushWait, PushPost, Procs
  <2>7. ASSUME NEW c \in Consumers, PopCheck(c) \/ PopWait(c) \/ PopPost(c)
        PROVE  UNCHANGED Abstract!vars
    BY <2>1, <2>7 DEF PopCheck, PopWait, PopPost, Procs
  <2>8. ASSUME NEW u \in Updaters, NEW i \in Slots, Update(u, i) PROVE Abstract!Next
    <3>1. <<u, 0>> \in Messages /\ Abstract!Slots = Slots
      BY BufferAssumption DEF Messages, Slots, Abstract!Slots
    <3>. QED  BY <2>8, <3>1, UpdateReplaces DEF Abstract!Next
  <2>9. ASSUME NEW p \in Mortal, Die(p) PROVE UNCHANGED Abstract!vars
    BY <2>9, QueueUnchanged DEF Die, Front, Back, HalfPushed, HalfPopped
  <2>10. CASE UNCHANGED vars
    BY <2>10, QueueUnchanged DEF vars, Front, Back, HalfPushed, HalfPopped
  <2>. QED  BY <2>2, <2>3, <2>4, <2>5, <2>6, <2>7, <2>8, <2>9, <2>10
            DEF Next, Pushing, Popping
<1>. QED  BY <1>1, <1>2, InvariantHolds, PTL DEF Spec, RefinesQueue, Abstract!Spec

=============================================================================
