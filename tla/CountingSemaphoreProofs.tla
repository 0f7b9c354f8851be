----------------------- MODULE CountingSemaphoreProofs -----------------------
(***************************************************************************)
(* Theorems about CountingSemaphore for every finite set of waiters and    *)
(* posters, every initial value and every number of calls.                 *)
(***************************************************************************)
EXTENDS CountingSemaphore, FiniteSetTheorems, TLAPS

(***************************************************************************)
(* The calls that the posters have begun, and the posters inside a call.   *)
(* The difference is the number of tokens that were added: it bounds the   *)
(* counter.                                                                *)
(***************************************************************************)
Begun  == {c \in Posters \X (1 .. MaxCalls) : c[2] <= calls[c[1]]}
Inside == {p \in Posters : pc[p] # "idle"}

LEMMA SetsFinite ==
  /\ \A B \in SUBSET (Posters \X (1 .. MaxCalls)) :
       /\ IsFiniteSet(B) /\ Cardinality(B) \in Nat
       /\ Cardinality(B) <= MaxCalls * Cardinality(Posters)
  /\ \A I \in SUBSET Posters : IsFiniteSet(I) /\ Cardinality(I) \in Nat
  /\ Cardinality(Posters) \in Nat
<1>. USE SemaphoreAssumption
<1>1. IsFiniteSet(1 .. MaxCalls) /\ Cardinality(1 .. MaxCalls) = MaxCalls
  BY FS_Interval
<1>2. Cardinality(Posters) \in Nat
  BY FS_CardinalityType
<1>3. /\ IsFiniteSet(Posters \X (1 .. MaxCalls))
      /\ Cardinality(Posters \X (1 .. MaxCalls))
           = Cardinality(Posters) * Cardinality(1 .. MaxCalls)
  BY <1>1, FS_Product
<1>4. Cardinality(Posters) * Cardinality(1 .. MaxCalls) = MaxCalls * Cardinality(Posters)
  BY <1>1, <1>2
<1>. QED  BY <1>2, <1>3, <1>4, FS_Subset, FS_CardinalityType

LEMMA SubsetsOfThem ==
  /\ Begun \subseteq Posters \X (1 .. MaxCalls) /\ Inside \subseteq Posters
  /\ Begun' \subseteq Posters \X (1 .. MaxCalls) /\ Inside' \subseteq Posters
BY DEF Begun, Inside

(***************************************************************************)
(* The inductive invariant: the types, but for the upper bound of the      *)
(* counter, which follows from the tokens posted.                          *)
(***************************************************************************)
Typed ==
  /\ count \in Nat
  /\ mutex \in Procs \cup {Free}
  /\ pc \in [Procs -> Labels]
  /\ calls \in [Procs -> 0 .. MaxCalls]
TokensPosted == count + Cardinality(Inside) <= InitValue + Cardinality(Begun)
IInv == Typed /\ TokensPosted /\ NoTokenStranded

\* What leaving wait() or post() does to the processes.
LEMMA LeaveStep ==
  ASSUME Typed, NEW p \in Procs, NEW c \in Int, pc[p] = "held", Leave(p, c)
  PROVE  /\ pc' \in [Procs -> Labels] /\ mutex' = Free
         /\ pc'[p] = "idle"
         /\ \A q \in Procs \ {p} : pc'[q] = "idle" <=> pc[q] = "idle"
         /\ Sleepers' \subseteq Sleepers
         /\ c > 0 /\ Sleepers # {} => \E q \in Procs : pc'[q] = "lock"
<1>1. PICK woken \in SUBSET Sleepers :
        /\ c > 0 /\ Sleepers # {} => woken # {}
        /\ pc' = [q \in Procs |-> IF q = p THEN "idle"
                                  ELSE IF q \in woken THEN "lock" ELSE pc[q]]
  BY DEF Leave
<1>. USE DEF Typed, Labels, Sleepers
<1>2. p \notin woken
  OBVIOUS
<1>. QED  BY <1>1, <1>2 DEF Leave

LEMMA InitIInv == Init => IInv
<1>. SUFFICES ASSUME Init PROVE IInv
  OBVIOUS
<1>1. Typed
  BY SemaphoreAssumption DEF Init, Typed, Labels
<1>2. TokensPosted
  <2>1. Inside = {}
    BY DEF Init, Inside, Procs
  <2>. QED  BY <2>1, SetsFinite, SubsetsOfThem, FS_EmptySet, SemaphoreAssumption DEF Init, TokensPosted
<1>3. NoTokenStranded
  BY DEF Init, NoTokenStranded, Sleepers
<1>. QED  BY <1>1, <1>2, <1>3 DEF IInv

LEMMA TypedStep == Typed /\ [Next]_vars => Typed'
<1>. SUFFICES ASSUME Typed, [Next]_vars PROVE Typed'
  OBVIOUS
<1>. USE SemaphoreAssumption DEF Typed
<1>1. ASSUME NEW p \in Procs, Begin(p) PROVE Typed'
  BY <1>1 DEF Begin, Goto, Labels
<1>2. ASSUME NEW p \in Procs, Lock(p) PROVE Typed'
  BY <1>2 DEF Lock, Goto, Labels
<1>3. ASSUME NEW p \in Procs, WaitSleep(p) PROVE Typed'
  BY <1>3 DEF WaitSleep, Goto, Labels
<1>4. ASSUME NEW p \in Procs, WaitTake(p) PROVE Typed'
  BY <1>4, LeaveStep DEF WaitTake
<1>5. ASSUME NEW p \in Procs, Post(p) PROVE Typed'
  BY <1>5, LeaveStep DEF Post
<1>6. ASSUME NEW p \in Procs, WakeUp(p) PROVE Typed'
  BY <1>6 DEF WakeUp, Goto, Labels
<1>7. CASE UNCHANGED vars
  BY <1>7 DEF vars
<1>. QED
  BY <1>1, <1>2, <1>3, <1>4, <1>5, <1>6, <1>7 DEF Next, Waiting, Posting, Procs

\* Tokens added by post() are paid for by a call that is over.
LEMMA TokensStep == Typed /\ TokensPosted /\ [Next]_vars => TokensPosted'
<1>. SUFFICES ASSUME Typed, TokensPosted, [Next]_vars PROVE TokensPosted'
  OBVIOUS
<1>0. /\ count \in Nat /\ InitValue \in Nat
      /\ IsFiniteSet(Begun) /\ Cardinality(Begun) \in Nat
      /\ IsFiniteSet(Inside) /\ Cardinality(Inside) \in Nat
      /\ Cardinality(Begun') \in Nat /\ Cardinality(Inside') \in Nat
  BY SetsFinite, SubsetsOfThem, SemaphoreAssumption DEF Typed
\* Steps that neither begin nor end a call of post(), nor add a token.
<1>1. ASSUME Inside' = Inside, Begun' = Begun, count' \in Nat, count' <= count
      PROVE  TokensPosted'
  BY <1>0, <1>1 DEF TokensPosted
<1>2. ASSUME NEW p \in Waiters, Begin(p) PROVE TokensPosted'
  <2>1. Inside' = Inside /\ Begun' = Begun
    BY <1>2, SemaphoreAssumption DEF Begin, Goto, Typed, Inside, Begun, Procs
  <2>. QED  BY <1>0, <1>1, <1>2, <2>1 DEF Begin
<1>3. ASSUME NEW p \in Posters, Begin(p) PROVE TokensPosted'
  <2>1. Inside' = Inside \cup {p} /\ p \notin Inside
    BY <1>3 DEF Begin, Goto, Typed, Inside, Procs
  <2>2. Cardinality(Inside') = Cardinality(Inside) + 1
    BY <1>0, <2>1, FS_AddElement
  <2>3. /\ calls[p] \in 0 .. MaxCalls /\ calls[p] < MaxCalls /\ MaxCalls \in Nat
        /\ calls'[p] = calls[p] + 1
        /\ \A q \in Posters : q # p => calls'[q] = calls[q]
        /\ \A q \in Posters : calls[q] \in Nat
    BY <1>3, SemaphoreAssumption DEF Begin, Typed, Procs
  <2>4. Begun' = Begun \cup {<<p, calls[p] + 1>>} /\ <<p, calls[p] + 1>> \notin Begun
    BY <2>3 DEF Begun
  <2>5. Cardinality(Begun') = Cardinality(Begun) + 1
    BY <1>0, <2>4, FS_AddElement
  <2>. QED  BY <1>0, <1>3, <2>2, <2>5 DEF Begin, TokensPosted
<1>4. ASSUME NEW p \in Procs, Lock(p) \/ WaitSleep(p) \/ WakeUp(p)
      PROVE  TokensPosted'
  <2>1. Inside' = Inside /\ Begun' = Begun
    BY <1>4 DEF Lock, WaitSleep, WakeUp, Goto, Typed, Inside, Begun, Procs
  <2>. QED  BY <1>0, <1>1, <1>4, <2>1 DEF Lock, WaitSleep, WakeUp
<1>5. ASSUME NEW p \in Waiters, WaitTake(p) PROVE TokensPosted'
  <2>1. p \in Procs /\ p \notin Posters
    BY SemaphoreAssumption DEF Procs
  <2>2. Inside' = Inside /\ Begun' = Begun
    BY <1>0, <1>5, <2>1, LeaveStep DEF WaitTake, Inside, Begun, Procs
  <2>. QED  BY <1>0, <1>1, <1>5, <2>2 DEF WaitTake
<1>6. ASSUME NEW p \in Posters, Post(p) PROVE TokensPosted'
  <2>1. Inside' = Inside \ {p} /\ p \in Inside /\ Begun' = Begun
    BY <1>0, <1>6, LeaveStep DEF Post, Inside, Begun, Procs
  <2>2. Cardinality(Inside') = Cardinality(Inside) - 1
    BY <1>0, <2>1, FS_RemoveElement
  <2>. QED  BY <1>0, <1>6, <2>1, <2>2 DEF Post, TokensPosted
<1>7. CASE UNCHANGED vars
  BY <1>0, <1>1, <1>7 DEF vars, Inside, Begun
<1>. QED
  BY <1>2, <1>3, <1>4, <1>5, <1>6, <1>7 DEF Next, Waiting, Posting, Procs

\* Whoever leaves a token behind wakes a sleeper; who wakes up by itself counts too.
LEMMA StrandedStep == Typed /\ NoTokenStranded /\ [Next]_vars => NoTokenStranded'
<1>. SUFFICES ASSUME Typed, NoTokenStranded, [Next]_vars PROVE NoTokenStranded'
  OBVIOUS
<1>. USE DEF NoTokenStranded
<1>1. ASSUME NEW p \in Procs, Begin(p) \/ Lock(p) \/ WakeUp(p)
      PROVE  NoTokenStranded'
  <2>1. pc'[p] \in {"lock", "held"}
    BY <1>1 DEF Begin, Lock, WakeUp, Goto, Typed
  <2>. QED  BY <2>1
<1>2. ASSUME NEW p \in Procs, WaitSleep(p) PROVE NoTokenStranded'
  BY <1>2 DEF WaitSleep, Typed
<1>3. ASSUME NEW p \in Procs, WaitTake(p) PROVE NoTokenStranded'
  BY <1>3, LeaveStep DEF WaitTake, Typed
<1>4. ASSUME NEW p \in Procs, Post(p) PROVE NoTokenStranded'
  BY <1>4, LeaveStep DEF Post, Typed
<1>5. CASE UNCHANGED vars
  BY <1>5 DEF vars, Sleepers
<1>. QED
  BY <1>1, <1>2, <1>3, <1>4, <1>5 DEF Next, Waiting, Posting, Procs

LEMMA InvariantHolds == Spec => []IInv
<1>1. IInv /\ [Next]_vars => IInv'
  BY TypedStep, TokensStep, StrandedStep DEF IInv
<1>. QED  BY InitIInv, <1>1, PTL DEF Spec

-----------------------------------------------------------------------------
(***************************************************************************)
(* The theorems.                                                           *)
(***************************************************************************)

\* _count never falls below zero, where it would wrap around, and never exceeds
\* the initial value plus one per call of post().
THEOREM TypeCorrect == Spec => []TypeOK
<1>1. IInv => TypeOK
  <2>. SUFFICES ASSUME IInv PROVE TypeOK
    OBVIOUS
  <2>1. count <= InitValue + MaxCalls * Cardinality(Posters)
    <3>1. MaxCalls * Cardinality(Posters) \in Nat
      BY SetsFinite, SemaphoreAssumption
    <3>. QED  BY <3>1, SetsFinite, SubsetsOfThem, SemaphoreAssumption DEF IInv, Typed, TokensPosted
  <2>2. InitValue + MaxCalls * Cardinality(Posters) \in Nat
    BY SetsFinite, SemaphoreAssumption
  <2>. QED  BY <2>1, <2>2 DEF IInv, Typed, TypeOK
<1>. QED  BY <1>1, InvariantHolds, PTL

\* wait() and post() never leave a token beside a sleeper whom nobody will wake,
\* although a signal is sent only by those who see a positive count.
THEOREM TokensNeverStranded == Spec => []NoTokenStranded
BY InvariantHolds, PTL DEF IInv

\* The counter, the mutex and the condition variable implement the semaphore that
\* the buffer relies on: locking, sleeping and waking up are invisible, taking and
\* adding a token is one atomic step.
THEOREM ImplementsSemaphore == Spec => RefinesSemaphore
<1>1. Init => Abstract!Init
  BY DEF Init, Abstract!Init
<1>2. IInv /\ [Next]_vars => [Abstract!Next]_(Abstract!vars)
  <2>. SUFFICES ASSUME Typed, [Next]_vars
                PROVE  Abstract!Next \/ UNCHANGED Abstract!vars
    BY DEF IInv
  <2>. DEFINE calling == {p \in Procs : pc[p] # "idle"}
  <2>1. ASSUME NEW p \in Procs, Begin(p)
        PROVE  Abstract!Call(p)
    <3>1. p \notin calling /\ calling' = calling \cup {p}
      BY <2>1 DEF Begin, Goto, Typed
    <3>. QED  BY <2>1, <3>1 DEF Begin, Abstract!Call
  <2>2. ASSUME NEW p \in Procs, Lock(p) \/ WaitSleep(p) \/ WakeUp(p)
        PROVE  UNCHANGED Abstract!vars
    <3>1. calling' = calling
      BY <2>2 DEF Lock, WaitSleep, WakeUp, Goto, Typed
    <3>. QED  BY <2>2, <3>1 DEF Lock, WaitSleep, WakeUp, Abstract!vars
  <2>3. ASSUME NEW p \in Procs, WaitTake(p)
        PROVE  Abstract!Acquire(p)
    <3>1. p \in calling /\ calling' = calling \ {p}
      BY <2>3, LeaveStep DEF WaitTake, Typed
    <3>. QED  BY <2>3, <3>1 DEF WaitTake, Abstract!Acquire
  <2>4. ASSUME NEW p \in Procs, Post(p)
        PROVE  Abstract!Release(p)
    <3>1. p \in calling /\ calling' = calling \ {p}
      BY <2>4, LeaveStep DEF Post, Typed
    <3>. QED  BY <2>4, <3>1 DEF Post, Abstract!Release
  <2>5. CASE UNCHANGED vars
    BY <2>5 DEF vars, Abstract!vars
  <2>. QED
    BY <2>1, <2>2, <2>3, <2>4, <2>5
    DEF Next, Waiting, Posting, Procs, Abstract!Next
<1>. QED  BY <1>1, <1>2, InvariantHolds, PTL DEF Spec, RefinesSemaphore, Abstract!Spec

=============================================================================
