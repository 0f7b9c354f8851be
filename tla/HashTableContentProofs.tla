----------------------- MODULE HashTableContentProofs -----------------------
(***************************************************************************)
(* What is in a HashTable, whatever the number of threads, keys and        *)
(* buckets: _size counts the entries; the values under each key are those  *)
(* of ConcurrentMap, however often the table is resized meanwhile; and if  *)
(* the threads clean up behind themselves, nothing is left in the end.     *)
(***************************************************************************)
EXTENDS HashTableProofs, ModularArithmetic

-----------------------------------------------------------------------------
(***************************************************************************)
(* _size.  A thread that has put an entry into a list and not yet counted  *)
(* it, or has counted an entry out and not yet erased it, is Counting.  So *)
(* _size is the number of entries minus the number of those threads.       *)
(***************************************************************************)
Counting == {t \in Threads : pc[t] \in {"insertCount", "removeErase"}}
Collecting == \E t \in Threads : pc[t] = "resizeCollect"

\* What _size should be; it is a size_t and counts modulo Wrap.
Uncounted == Cardinality(Stored) - Cardinality(Counting)
SizeInv == ~Collecting => size = Uncounted % Wrap

(***************************************************************************)
(* The set of stored entries.                                              *)
(***************************************************************************)
LEMMA StoredFinite ==
  ASSUME TypeOK
  PROVE  IsFiniteSet(Stored) /\ Cardinality(Stored) \in Nat
<1>. DEFINE Part(i) == {i} \X DOMAIN storage[i].l
            Parts == {Part(i) : i \in DOMAIN storage}
<1>1. IsFiniteSet(DOMAIN storage)
  <2>1. PICK n \in {capacity, 4} : DOMAIN storage = 0 .. n - 1 /\ n \in Int
    BY DEF TypeOK
  <2>. QED  BY <2>1, FS_Interval
<1>2. ASSUME NEW i \in DOMAIN storage PROVE IsFiniteSet(Part(i))
  <2>1. storage[i].l \in Seq(Entry)
    BY StorageType
  <2>2. DOMAIN storage[i].l = 1 .. Len(storage[i].l) /\ Len(storage[i].l) \in Int
    BY <2>1
  <2>3. IsFiniteSet(DOMAIN storage[i].l)
    BY <2>2, FS_Interval
  <2>4. IsFiniteSet({i})
    BY FS_Singleton
  <2>. QED  BY <2>3, <2>4, FS_Product
<1>3. IsFiniteSet(Parts)
  <2>. DEFINE f == [i \in DOMAIN storage |-> Part(i)]
  <2>1. f \in Surjection(DOMAIN storage, Parts)
    BY DEF Surjection
  <2>. QED  BY <1>1, <2>1, FS_Surjection
<1>4. IsFiniteSet(UNION Parts)
  BY <1>2, <1>3, FS_UNION
<1>. QED  BY <1>4, FS_CardinalityType DEF Stored

LEMMA CountingFinite == IsFiniteSet(Counting) /\ Cardinality(Counting) \in Nat
BY TableAssumption, FS_Subset, FS_CardinalityType DEF Counting

\* How the two sets change with a thread or a list.
LEMMA CountingMoves ==
  ASSUME NEW t \in Threads, \A u \in Threads \ {t} : pc'[u] = pc[u]
  PROVE  LET in == pc[t] \in {"insertCount", "removeErase"}
         IN  /\ (in <=> in') => Cardinality(Counting') = Cardinality(Counting)
             /\ ~in /\ in' => Cardinality(Counting') = Cardinality(Counting) + 1
             /\ in /\ ~in' => Cardinality(Counting') = Cardinality(Counting) - 1
<1>. DEFINE in == pc[t] \in {"insertCount", "removeErase"}
<1>1. ASSUME in <=> in' PROVE Counting' = Counting
  BY <1>1 DEF Counting
<1>2. ASSUME ~in, in' PROVE Counting' = Counting \cup {t} /\ t \notin Counting
  BY <1>2 DEF Counting
<1>3. ASSUME in, ~in' PROVE Counting' = Counting \ {t} /\ t \in Counting
  BY <1>3 DEF Counting
<1>. QED  BY <1>1, <1>2, <1>3, CountingFinite, FS_AddElement, FS_RemoveElement

LEMMA StoredSame ==
  ASSUME DOMAIN storage' = DOMAIN storage,
         \A i \in DOMAIN storage : DOMAIN storage'[i].l = DOMAIN storage[i].l
  PROVE  Stored' = Stored
BY DEF Stored

LEMMA StoredAppend ==
  ASSUME TypeOK, NEW i \in DOMAIN storage, DOMAIN storage' = DOMAIN storage,
         \A j \in DOMAIN storage : j # i => storage'[j].l = storage[j].l,
         NEW e \in Entry, storage'[i].l = Append(storage[i].l, e)
  PROVE  Cardinality(Stored') = Cardinality(Stored) + 1
<1>. DEFINE n == Len(storage[i].l)
<1>1. storage[i].l \in Seq(Entry) /\ DOMAIN storage[i].l = 1 .. n /\ n \in Nat
  BY StorageType
<1>2. DOMAIN storage'[i].l = 1 .. n + 1
  BY <1>1
<1>. HIDE DEF n
<1>3. Stored' = Stored \cup {<<i, n + 1>>}
  BY <1>1, <1>2 DEF Stored
<1>4. <<i, n + 1>> \notin Stored
  BY <1>1 DEF Stored
<1>. QED  BY <1>3, <1>4, StoredFinite, FS_AddElement

LEMMA StoredErase ==
  ASSUME TypeOK, NEW i \in DOMAIN storage, DOMAIN storage' = DOMAIN storage,
         \A j \in DOMAIN storage : j # i => storage'[j].l = storage[j].l,
         storage'[i].l \in Seq(Entry), storage[i].l # << >>,
         Len(storage'[i].l) = Len(storage[i].l) - 1
  PROVE  Cardinality(Stored') = Cardinality(Stored) - 1
<1>. DEFINE n == Len(storage[i].l)
<1>1. storage[i].l \in Seq(Entry) /\ DOMAIN storage[i].l = 1 .. n /\ n \in Nat \ {0}
  BY StorageType
<1>2. DOMAIN storage'[i].l = 1 .. n - 1
  BY <1>1
<1>. HIDE DEF n
<1>3. Stored' = Stored \ {<<i, n>>}
  BY <1>1, <1>2 DEF Stored
<1>4. <<i, n>> \in Stored
  BY <1>1 DEF Stored
<1>. QED  BY <1>3, <1>4, StoredFinite, FS_RemoveElement

(***************************************************************************)
(* The invariant.                                                          *)
(***************************************************************************)
\* The steps that change neither _size nor a list, and after which the thread is
\* Counting if it was before.
LEMMA QuietStep ==
  ASSUME SizeInv, NEW t \in Threads, \A u \in Threads \ {t} : pc'[u] = pc[u],
         UNCHANGED size, Stored' = Stored, pc[t] # "resizeCollect",
         pc[t] \notin {"insertCount", "removeErase"},
         pc'[t] \notin {"insertCount", "removeErase"}
  PROVE  SizeInv'
<1>1. Cardinality(Counting') = Cardinality(Counting)
  BY CountingMoves
<1>2. ~Collecting' => ~Collecting
  BY DEF Collecting
<1>. QED  BY <1>1, <1>2 DEF SizeInv, Uncounted

\* Adding one to, or subtracting one from, a number modulo Wrap.
LEMMA WrapMoves ==
  ASSUME NEW x \in Int
  PROVE  /\ ((x % Wrap) + 1) % Wrap = (x + 1) % Wrap
         /\ ((x % Wrap) - 1) % Wrap = (x - 1) % Wrap
         /\ x \in 0 .. Wrap - 1 => x % Wrap = x
<1>1. Wrap \in Nat \ {0}
  BY TableAssumption
<1>2. \A y \in Int : ((x % Wrap) + y) % Wrap = (x + y) % Wrap
  BY <1>1, ModAdd
<1>3. 1 \in Int /\ -1 \in Int /\ (x % Wrap) \in Int
  BY <1>1
<1>4. ((x % Wrap) + (-1)) % Wrap = (x + (-1)) % Wrap
  BY <1>2, <1>3
<1>5. (x % Wrap) + (-1) = (x % Wrap) - 1 /\ x + (-1) = x - 1
  BY <1>3
<1>6. x \in 0 .. Wrap - 1 => x % Wrap = x
  BY <1>1
<1>. QED  BY <1>2, <1>3, <1>4, <1>5, <1>6

LEMMA InitSizeInv == Init => SizeInv
<1>. SUFFICES ASSUME Init PROVE size = Uncounted % Wrap
  BY DEF SizeInv
<1>1. Counting = {}
  BY DEF Init, Counting
<1>2. Stored = UNION {{i} \X DOMAIN InitChains[i] : i \in InitBuckets}
  BY DEF Init, Stored, NewNode
<1>3. size = Cardinality(Stored) /\ size \in 0 .. Wrap - 1
  BY <1>2, TableAssumption DEF Init, InitSize
<1>4. Uncounted = size
  BY <1>1, <1>3, FS_EmptySet, TableAssumption DEF Uncounted
<1>. QED  BY <1>3, <1>4, WrapMoves

\* Each step keeps the count.
LEMMA SizeStep ==
  ASSUME IInv, SizeInv, Next
  PROVE  SizeInv'
<1>. PICK t \in Threads : Step(t)
  BY DEF Next
<1>0. /\ TypeOK /\ CallShape /\ InBucketExists /\ ErasesWhatItFound /\ Placement
      /\ pc \in [Threads -> Labels]
      /\ \A u \in Threads \ {t} : pc'[u] = pc[u]
  BY OthersStay DEF IInv, Control, TypeOK
<1>1. Cardinality(Stored) \in Nat /\ Cardinality(Counting) \in Nat /\ Uncounted \in Int
  BY <1>0, StoredFinite, CountingFinite DEF Uncounted
<1>2. ASSUME pc[t] # "resizeCollect", ~Collecting' PROVE size = Uncounted % Wrap
  BY <1>0, <1>2 DEF SizeInv, Collecting
<1>3. CASE \/ Lookup(t) \/ LookupFirst(t) \/ CopyBucket(t) \/ RemoveMiss(t)
           \/ BoundCheckFails(t) \/ ScanEnd(t)
           \/ StrayBucket(t) /\ Complete(t, Garbage, FALSE)
  <2>1. PICK r \in Values \cup Outcomes, found \in BOOLEAN : Complete(t, r, found)
    BY <1>0, <1>3, Ends
  <2>2. pc[t] \in {"boundCheck", "scan", "bucketLock", "access"} /\ UNCHANGED size
    BY <1>3 DEF Lookup, LookupFirst, CopyBucket, RemoveMiss, BoundCheckFails, ScanEnd,
                StrayBucket, tableVars
  <2>3. pc'[t] \in {"idle", "tableLock"}
    BY <1>0, <2>1, <2>2, CompleteStep
  <2>4. Stored' = Stored
    <3>1. ~Collect(t) /\ ~Rebuild(t) /\ ~Refill(t) /\ ~InsertPush(t) /\ ~RemoveErase(t)
      BY <1>0, <2>2, <2>3 DEF Collect, Rebuild, Refill, InsertPush, RemoveErase, Goto
    <3>. QED  BY <1>0, <3>1, ListMoves, StoredSame
  <2>. QED  BY <1>0, <2>2, <2>3, <2>4, QuietStep
<1>4. CASE \/ Begin(t) \/ BoundCheckPasses(t) \/ LockTable(t) \/ CheckEmpty(t) \/ CheckLoad(t)
           \/ ScanBegin(t) \/ ScanBucket(t) \/ ResizeNotNeeded(t) \/ ResizeBegin(t)
           \/ ResizeEnd(t)
           \/ StrayBucket(t) /\ Goto(t, "bucketLock", "stuck")
  <2>1. UNCHANGED <<storage, size>>
    BY <1>4 DEF Begin, BoundCheckPasses, LockTable, CheckEmpty, CheckLoad, KeepSize, WantResize,
         ScanBegin, ScanBucket, ResizeNotNeeded, ResizeBegin, ResizeEnd, StrayBucket, tableVars
  <2>2. /\ pc[t] \notin {"resizeCollect", "insertCount", "removeErase"}
        /\ pc'[t] \notin {"insertCount", "removeErase"}
    BY <1>0, <1>4 DEF Begin, BoundCheckPasses, LockTable, CheckEmpty, CheckLoad, KeepSize,
         WantResize, ScanBegin, ScanBucket, ResizeNotNeeded, ResizeBegin, ResizeEnd, Goto
  <2>. QED  BY <1>0, <2>1, <2>2, QuietStep DEF Stored
<1>5. CASE LockBucket(t)
  <2>1. UNCHANGED size /\ pc[t] = "bucketLock" /\ pc'[t] = "access"
    BY <1>0, <1>5 DEF LockBucket, Goto
  <2>2. Stored' = Stored
    <3>1. ~Collect(t) /\ ~Rebuild(t) /\ ~Refill(t) /\ ~InsertPush(t) /\ ~RemoveErase(t)
      BY <1>0, <2>1 DEF Collect, Rebuild, Refill, InsertPush, RemoveErase, Goto
    <3>. QED  BY <1>0, <3>1, ListMoves, StoredSame
  <2>. QED  BY <1>0, <2>1, <2>2, QuietStep
<1>6. CASE Collect(t)
  BY <1>6 DEF Collect, SizeInv, Collecting
<1>7. CASE Rebuild(t)
  <2>1. Stored' = {} /\ size' = 0
    BY <1>7 DEF Rebuild, NewNode, Stored
  <2>2. Counting' = {}
    <3>1. pc[t] = "resizeCollect" /\ pc'[t] = "resizeFill"
      BY <1>0, <1>7 DEF Rebuild, Goto
    <3>2. readers = {}
      BY <3>1, TableAssumption DEF IInv, Control, LocksHeld, Resizing
    <3>. QED  BY <1>0, <3>1, <3>2 DEF Counting, IInv, Control, LocksHeld, Reading
  <2>. QED  BY <2>1, <2>2, FS_EmptySet, TableAssumption DEF SizeInv, Uncounted
<1>8. CASE Refill(t)
  <2>. DEFINE e == Head(pending)
              h == Hash(e.key)
  <2>1. e \in Entry
    BY <1>0, <1>8 DEF Refill, TypeOK
  <2>2. h \in DOMAIN storage
    BY <1>0, <2>1, BucketThere DEF Entry
  <2>3. storage' = [storage EXCEPT ![h].l = Append(@, e)] /\ size' = (size + 1) % Wrap
        /\ UNCHANGED pc /\ pc[t] # "resizeCollect"
    BY <1>8 DEF Refill
  <2>. HIDE DEF e, h
  <2>4. storage'[h].l = Append(storage[h].l, e)
    BY <1>0, <2>2, <2>3, StorageType DEF Node
  <2>5. Cardinality(Stored') = Cardinality(Stored) + 1
    BY <1>0, <2>1, <2>2, <2>3, <2>4, StoredAppend
  <2>6. Counting' = Counting
    BY <2>3 DEF Counting
  <2>7. Uncounted' = Uncounted + 1
    BY <1>1, <2>5, <2>6 DEF Uncounted
  <2>. QED  BY <1>1, <1>2, <2>3, <2>7, WrapMoves DEF SizeInv
<1>9. CASE InsertPush(t)
  <2>. DEFINE e == [key |-> Current(t).key, val |-> Current(t).val]
  <2>1. /\ pc[t] = "access" /\ pc'[t] = "insertCount" /\ doing[t] = "insert"
        /\ storage' = [storage EXCEPT ![idx[t]].l = Append(@, e)] /\ UNCHANGED size
    BY <1>0, <1>9 DEF InsertPush, Goto
  <2>2. e \in Entry
    BY <1>0, <2>1, CurrentType DEF Entry
  <2>3. idx[t] \in DOMAIN storage
    BY <1>0, <2>1 DEF InBucketExists, InBucket
  <2>. HIDE DEF e
  <2>4. storage'[idx[t]].l = Append(storage[idx[t]].l, e)
    BY <1>0, <2>1, <2>3, StorageType DEF Node
  <2>5. Cardinality(Stored') = Cardinality(Stored) + 1
    BY <1>0, <2>1, <2>2, <2>3, <2>4, StoredAppend
  <2>6. Cardinality(Counting') = Cardinality(Counting) + 1
    BY <1>0, <2>1, CountingMoves
  <2>7. Uncounted' = Uncounted
    BY <1>1, <2>5, <2>6 DEF Uncounted
  <2>. QED  BY <1>2, <2>1, <2>7 DEF SizeInv
<1>10. CASE InsertCount(t)
  <2>1. PICK r \in Values \cup Outcomes, found \in BOOLEAN : Complete(t, r, found)
    BY <1>0, <1>10, Ends
  <2>2. pc[t] = "insertCount" /\ size' = (size + 1) % Wrap
    BY <1>10 DEF InsertCount
  <2>3. pc'[t] \in {"idle", "tableLock"}
    BY <1>0, <2>1, <2>2, CompleteStep
  <2>4. Stored' = Stored
    <3>1. ~Collect(t) /\ ~Rebuild(t) /\ ~Refill(t) /\ ~InsertPush(t) /\ ~RemoveErase(t)
      BY <2>2 DEF Collect, Rebuild, Refill, InsertPush, RemoveErase, Goto
    <3>. QED  BY <1>0, <3>1, ListMoves, StoredSame
  <2>5. Cardinality(Counting') = Cardinality(Counting) - 1
    BY <1>0, <2>2, <2>3, CountingMoves
  <2>6. Uncounted' = Uncounted + 1
    BY <1>1, <2>4, <2>5 DEF Uncounted
  <2>. QED  BY <1>1, <1>2, <2>2, <2>6, WrapMoves DEF SizeInv
<1>11. CASE RemoveCount(t)
  <2>1. /\ pc[t] = "access" /\ pc'[t] = "removeErase" /\ size' = (size - 1) % Wrap
        /\ UNCHANGED storage
    BY <1>0, <1>11 DEF RemoveCount, Goto
  <2>2. Cardinality(Counting') = Cardinality(Counting) + 1
    BY <1>0, <2>1, CountingMoves
  <2>3. Stored' = Stored
    BY <2>1 DEF Stored
  <2>4. Uncounted' = Uncounted - 1
    BY <1>1, <2>2, <2>3 DEF Uncounted
  <2>. QED  BY <1>1, <1>2, <2>1, <2>4, WrapMoves DEF SizeInv
<1>12. CASE RemoveErase(t)
  <2>. DEFINE k == Current(t).key
              l == Erase(List(t), FirstAt(List(t), k))
  <2>1. /\ pc[t] = "removeErase" /\ doing[t] = "remove" /\ Found(t)
        /\ idx[t] \in DOMAIN storage /\ List(t) \in Seq(Entry)
    BY <1>0, <1>12, ListType
       DEF RemoveErase, ErasesWhatItFound, CallShape, InBucketExists, InBucket
  <2>2. FirstAt(List(t), k) \in 1 .. Len(List(t))
    BY <2>1, FirstAtPosition DEF Found
  <2>3. l \in Seq(Entry) /\ Len(l) = Len(List(t)) - 1 /\ List(t) # << >>
    BY <2>1, <2>2, EraseStep
  <2>4. storage' = Unlocked(t, l) /\ UNCHANGED <<capacity, size>>
    BY <1>12 DEF RemoveErase
  <2>. HIDE DEF l
  <2>5. /\ DOMAIN storage' = DOMAIN storage /\ storage'[idx[t]].l = l
        /\ \A i \in DOMAIN storage : i # idx[t] => storage'[i] = storage[i]
    BY <1>0, <2>1, <2>3, <2>4, UnlockStep
  <2>6. Cardinality(Stored') = Cardinality(Stored) - 1
    BY <1>0, <2>1, <2>3, <2>5, StoredErase DEF List
  <2>7. PICK r \in Values \cup Outcomes, found \in BOOLEAN : Complete(t, r, found)
    BY <1>0, <1>12, Ends
  <2>8. pc'[t] \in {"idle", "tableLock"}
    BY <1>0, <2>1, <2>7, CompleteStep
  <2>9. Cardinality(Counting') = Cardinality(Counting) - 1
    BY <1>0, <2>1, <2>8, CountingMoves
  <2>10. Uncounted' = Uncounted
    BY <1>1, <2>6, <2>9 DEF Uncounted
  <2>. QED  BY <1>2, <2>1, <2>4, <2>10 DEF SizeInv
<1>. QED  BY <1>3, <1>4, <1>5, <1>6, <1>7, <1>8, <1>9, <1>10, <1>11, <1>12
          DEF Step, Resize, Access, Scan, StrayBucket

\* Each Counting thread is in a bucket of its own that is not empty.
LEMMA CountingBounded ==
  ASSUME IInv
  PROVE  Cardinality(Counting) <= Cardinality(Stored)
<1>1. ASSUME NEW t \in Counting
      PROVE  /\ <<idx[t], 1>> \in Stored
             /\ idx[t] \in DOMAIN storage /\ storage[idx[t]].owner = t
  <2>1. pc[t] \in InBucket /\ ~Shares(t) /\ idx[t] \in DOMAIN storage
    BY DEF Counting, InBucket, Shares, IInv, Control, CallShape, InBucketExists
  <2>2. storage[idx[t]].owner = t
    BY <2>1 DEF Counting, IInv, Control, LocksHeld
  <2>3. List(t) \in Seq(Entry)
    BY <2>1, StorageType DEF IInv, Control, List
  <2>4. List(t) # << >>
    BY <2>3 DEF Counting, IInv, InBucketExists, ErasesWhatItFound, Found, Positions
  <2>5. 1 \in DOMAIN List(t)
    BY <2>3, <2>4
  <2>. QED  BY <2>1, <2>2, <2>5 DEF Stored, List
<1>. DEFINE f == [t \in Counting |-> <<idx[t], 1>>]
<1>2. f \in Injection(Counting, Stored)
  <2>1. f \in [Counting -> Stored]
    BY <1>1
  <2>2. ASSUME NEW t \in Counting, NEW u \in Counting, f[t] = f[u] PROVE t = u
    <3>1. idx[t] = idx[u]
      BY <2>2
    <3>. QED  BY <1>1, <3>1
  <2>. QED  BY <2>1, <2>2 DEF Injection, IsInjective
<1>. QED  BY <1>2, StoredFinite, FS_Injection DEF IInv, Control

LEMMA AlwaysSizeInv == Spec => []SizeInv
<1>1. IInv /\ SizeInv /\ [Next]_vars => SizeInv'
  <2>1. SizeInv /\ UNCHANGED vars => SizeInv'
    BY DEF SizeInv, Collecting, Uncounted, Stored, Counting, vars
  <2>. QED  BY <2>1, SizeStep
<1>. QED  BY <1>1, InitSizeInv, AlwaysIInv, PTL DEF Spec

\* _size is the number of entries in the buckets, up to the threads between the
\* two halves of an insert or a remove, as long as that number fits a size_t.
THEOREM SizeCounts == Spec => [](Cardinality(Stored) < Wrap => SizeAccurate)
<1>2. IInv /\ SizeInv => (Cardinality(Stored) < Wrap => SizeAccurate)
  <2>. SUFFICES ASSUME IInv, SizeInv, Cardinality(Stored) < Wrap, ~Collecting
                PROVE  size + Cardinality(Counting) = Cardinality(Stored)
    BY DEF SizeAccurate, Counting, Collecting
  <2>1. Cardinality(Stored) \in Nat /\ Cardinality(Counting) \in Nat
    BY StoredFinite, CountingFinite DEF IInv, Control
  <2>2. Uncounted \in 0 .. Wrap - 1
    BY <2>1, CountingBounded, TableAssumption DEF Uncounted
  <2>3. Uncounted % Wrap = Uncounted
    BY <2>2, WrapMoves
  <2>. QED  BY <2>1, <2>3 DEF SizeInv, Uncounted
<1>. QED  BY <1>2, AlwaysSizeInv, AlwaysIInv, PTL

-----------------------------------------------------------------------------
(***************************************************************************)
(* The values of a key in a list.  The order of its entries is given by    *)
(* their rank among its positions.                                         *)
(***************************************************************************)
\* Counting the elements of a finite set of numbers from the smallest on.
Rank(S, j) == Cardinality({i \in S : i <= j})

\* The elements of S, numbered in order, bear the numbers from 1 on.
LEMMA RankOf ==
  ASSUME NEW S \in SUBSET Nat, IsFiniteSet(S)
  PROVE  /\ Cardinality(S) \in Nat
         /\ \A j \in S : Rank(S, j) \in 1 .. Cardinality(S)
         /\ \A i, j \in S : i < j => Rank(S, i) < Rank(S, j)
         /\ \A n \in 1 .. Cardinality(S) : \E j \in S : Rank(S, j) = n
<1>. DEFINE Upto(j) == {i \in S : i <= j}
<1>1. Cardinality(S) \in Nat
  BY FS_CardinalityType
<1>2. ASSUME NEW j \in Nat
      PROVE  /\ IsFiniteSet(Upto(j)) /\ Rank(S, j) = Cardinality(Upto(j))
             /\ Rank(S, j) \in Nat /\ Rank(S, j) <= Cardinality(S)
             /\ Rank(S, j) = 0 <=> Upto(j) = {}
  BY FS_Subset, FS_CardinalityType, FS_EmptySet DEF Rank
<1>3. ASSUME NEW j \in S PROVE Rank(S, j) \in 1 .. Cardinality(S)
  <2>1. j \in Upto(j) /\ j \in Nat
    OBVIOUS
  <2>2. Rank(S, j) # 0 /\ Rank(S, j) \in Nat /\ Rank(S, j) <= Cardinality(S)
    BY <1>2, <2>1
  <2>. QED  BY <1>1, <2>2
<1>4. ASSUME NEW i \in S, NEW j \in S, i < j PROVE Rank(S, i) < Rank(S, j)
  <2>0. j <= j /\ ~(j <= i) /\ \A x \in S : x <= i => x <= j
    BY <1>4
  <2>1. Upto(i) \subseteq Upto(j) /\ j \in Upto(j) /\ j \notin Upto(i)
    <3>1. Upto(i) \subseteq Upto(j)
      BY <2>0
    <3>2. j \in Upto(j)
      BY <2>0
    <3>3. j \notin Upto(i)
      BY <2>0
    <3>. QED  BY <3>1, <3>2, <3>3
  <2>2. /\ IsFiniteSet(Upto(j)) /\ IsFiniteSet(Upto(i))
        /\ Rank(S, i) = Cardinality(Upto(i)) /\ Rank(S, j) = Cardinality(Upto(j))
        /\ Rank(S, i) \in Nat /\ Rank(S, j) \in Nat
    BY <1>2
  <2>. HIDE DEF Upto
  <2>3. Cardinality(Upto(i)) <= Cardinality(Upto(j)) /\ Cardinality(Upto(i)) # Cardinality(Upto(j))
    BY <2>1, <2>2, FS_Subset
  <2>. QED  BY <2>2, <2>3
<1>5. \A n \in 1 .. Cardinality(S) : \E j \in S : Rank(S, j) = n
  <2>. DEFINE f == [j \in S |-> Rank(S, j)]
              T == 1 .. Cardinality(S)
  <2>1. f \in [S -> T]
    BY <1>3
  <2>2. ASSUME NEW i \in S, NEW j \in S, f[i] = f[j] PROVE i = j
    <3>1. ~(i < j) /\ ~(j < i)
      BY <1>1, <1>3, <1>4, <2>2
    <3>. QED  BY <3>1
  <2>3. f \in Injection(S, T)
    BY <2>1, <2>2 DEF Injection, IsInjective
  <2>4. IsFiniteSet(T) /\ Cardinality(T) = Cardinality(S)
    BY <1>1, FS_Interval
  <2>. HIDE DEF T
  <2>5. f \in Surjection(S, T)
    BY <2>3, <2>4, FS_Injection
  <2>6. \A n \in T : \E j \in S : f[j] = n
    BY <2>5 DEF Surjection
  <2>. QED  BY <2>6 DEF T
<1>. QED  BY <1>1, <1>3, <1>4, <1>5

\* A numbering in order is kept by whatever keeps the order.
LEMMA RankKept ==
  ASSUME NEW S \in SUBSET Nat, IsFiniteSet(S), NEW T \in SUBSET Nat,
         NEW f \in [S -> T], \A y \in T : \E x \in S : f[x] = y,
         \A x, y \in S : x < y => f[x] < f[y]
  PROVE  /\ IsFiniteSet(T) /\ Cardinality(T) = Cardinality(S)
         /\ \A x \in S : Rank(T, f[x]) = Rank(S, x)
<1>1. \A x, y \in S : f[x] <= f[y] <=> x <= y
  <2>. SUFFICES ASSUME NEW x \in S, NEW y \in S PROVE f[x] <= f[y] <=> x <= y
    OBVIOUS
  <2>1. x \in Nat /\ y \in Nat /\ f[x] \in Nat /\ f[y] \in Nat
    OBVIOUS
  <2>2. /\ x < y => f[x] < f[y]
        /\ y < x => f[y] < f[x]
    OBVIOUS
  <2>. QED  BY <2>1, <2>2
<1>2. f \in Surjection(S, T) /\ f \in Injection(S, T)
  <2>1. \A x, y \in S : f[x] = f[y] => x = y
    <3>. SUFFICES ASSUME NEW x \in S, NEW y \in S, f[x] = f[y] PROVE x = y
      OBVIOUS
    <3>1. x <= y /\ y <= x
      BY <1>1
    <3>. QED  BY <3>1
  <2>. QED  BY <2>1 DEF Surjection, Injection, IsInjective
<1>3. IsFiniteSet(T) /\ Cardinality(T) = Cardinality(S)
  BY <1>2, FS_Surjection
<1>4. ASSUME NEW x \in S PROVE Rank(T, f[x]) = Rank(S, x)
  <2>. DEFINE A == {i \in S : i <= x}
              B == {i \in T : i <= f[x]}
              g == [i \in A |-> f[i]]
  <2>1. \A i \in A : f[i] \in B
    BY <1>1
  <2>2. \A y \in B : \E i \in A : f[i] = y
    BY <1>1
  <2>3. \A i, j \in A : f[i] = f[j] => i = j
    BY <1>2 DEF Injection, IsInjective
  <2>4. IsFiniteSet(A)
    BY FS_Subset
  <2>. HIDE DEF A, B
  <2>5. g \in Surjection(A, B) /\ g \in Injection(A, B)
    BY <2>1, <2>2, <2>3 DEF Surjection, Injection, IsInjective
  <2>6. Cardinality(A) = Cardinality(B)
    BY <2>4, <2>5, FS_Surjection
  <2>. QED  BY <2>6 DEF Rank, A, B
<1>. QED  BY <1>3, <1>4

\* The positions of a key in a list.
LEMMA PositionsType ==
  ASSUME NEW l \in Seq(Entry), NEW k
  PROVE  /\ Positions(l, k) \in SUBSET Nat /\ Positions(l, k) \subseteq 1 .. Len(l)
         /\ IsFiniteSet(Positions(l, k)) /\ Cardinality(Positions(l, k)) \in Nat
         /\ \A j \in Positions(l, k) : l[j] \in Entry /\ l[j].val \in Values
<1>1. Positions(l, k) \subseteq 1 .. Len(l) /\ Len(l) \in Nat
  BY DEF Positions
<1>2. IsFiniteSet(1 .. Len(l))
  BY <1>1, FS_Interval
<1>3. IsFiniteSet(Positions(l, k))
  BY <1>1, <1>2, FS_Subset
<1>4. \A j \in Positions(l, k) : l[j] \in Entry /\ l[j].val \in Values
  <2>1. \A j \in 1 .. Len(l) : l[j] \in Entry
    OBVIOUS
  <2>2. \A e \in Entry : e.val \in Values
    BY DEF Entry
  <2>. QED  BY <1>1, <2>1, <2>2
<1>. QED  BY <1>1, <1>3, <1>4, FS_CardinalityType

\* NthAt and Rank are inverse to each other.
LEMMA NthAtIs ==
  ASSUME NEW l \in Seq(Entry), NEW k
  PROVE  /\ \A j \in Positions(l, k) : NthAt(l, k, Rank(Positions(l, k), j)) = j
         /\ \A n \in 1 .. Cardinality(Positions(l, k)) :
              /\ NthAt(l, k, n) \in Positions(l, k)
              /\ Rank(Positions(l, k), NthAt(l, k, n)) = n
<1>. DEFINE P == Positions(l, k)
<1>1. /\ P \in SUBSET Nat /\ IsFiniteSet(P)
      /\ \A n : NthAt(l, k, n) = CHOOSE j \in P : Rank(P, j) = n
  BY PositionsType DEF NthAt, Rank
<1>. HIDE DEF P
<1>2. /\ Cardinality(P) \in Nat
      /\ \A j \in P : Rank(P, j) \in 1 .. Cardinality(P)
      /\ \A i, j \in P : i < j => Rank(P, i) < Rank(P, j)
      /\ \A n \in 1 .. Cardinality(P) : \E j \in P : Rank(P, j) = n
  BY <1>1, RankOf
<1>3. \A n \in 1 .. Cardinality(P) : NthAt(l, k, n) \in P /\ Rank(P, NthAt(l, k, n)) = n
  BY <1>1, <1>2
<1>4. ASSUME NEW i \in P, NEW j \in P, Rank(P, i) = Rank(P, j) PROVE i = j
  <2>1. ~(i < j) /\ ~(j < i)
    BY <1>2, <1>4
  <2>. QED  BY <1>1, <2>1
<1>5. ASSUME NEW j \in P PROVE NthAt(l, k, Rank(P, j)) = j
  BY <1>2, <1>3, <1>4
<1>. QED  BY <1>3, <1>5 DEF P

\* ValuesIn is a sequence with one value for each position.
LEMMA ValuesType ==
  ASSUME NEW l \in Seq(Entry), NEW k
  PROVE  /\ ValuesIn(l, k) \in Seq(Values)
         /\ Len(ValuesIn(l, k)) = Cardinality(Positions(l, k))
         /\ \A n \in 1 .. Cardinality(Positions(l, k)) :
              ValuesIn(l, k)[n] = l[NthAt(l, k, n)].val
         /\ ValuesIn(l, k) = << >> <=> Positions(l, k) = {}
<1>1. /\ IsFiniteSet(Positions(l, k)) /\ Cardinality(Positions(l, k)) \in Nat
      /\ \A n \in 1 .. Cardinality(Positions(l, k)) : l[NthAt(l, k, n)].val \in Values
  BY PositionsType, NthAtIs
<1>2. /\ ValuesIn(l, k) \in Seq(Values)
      /\ Len(ValuesIn(l, k)) = Cardinality(Positions(l, k))
  BY <1>1 DEF ValuesIn
<1>3. ValuesIn(l, k) = << >> <=> Cardinality(Positions(l, k)) = 0
  BY <1>1, <1>2
<1>. QED  BY <1>1, <1>2, <1>3, FS_EmptySet DEF ValuesIn

\* Two lists hold the same values under a key when their entries of that key
\* correspond in order.
LEMMA SameValues ==
  ASSUME NEW l \in Seq(Entry), NEW m \in Seq(Entry), NEW k,
         NEW f \in [Positions(l, k) -> Positions(m, k)],
         \A y \in Positions(m, k) : \E x \in Positions(l, k) : f[x] = y,
         \A x, y \in Positions(l, k) : x < y => f[x] < f[y],
         \A x \in Positions(l, k) : m[f[x]].val = l[x].val
  PROVE  ValuesIn(m, k) = ValuesIn(l, k)
<1>. DEFINE P == Positions(l, k)
            Q == Positions(m, k)
<1>1. /\ P \in SUBSET Nat /\ IsFiniteSet(P) /\ Q \in SUBSET Nat
      /\ f \in [P -> Q] /\ \A y \in Q : \E x \in P : f[x] = y
      /\ \A x, y \in P : x < y => f[x] < f[y]
  BY PositionsType
<1>. HIDE DEF P, Q
<1>2. /\ Cardinality(Q) = Cardinality(P)
      /\ \A x \in P : Rank(Q, f[x]) = Rank(P, x)
  BY <1>1, RankKept
<1>3. ASSUME NEW n \in 1 .. Cardinality(P)
      PROVE  m[NthAt(m, k, n)].val = l[NthAt(l, k, n)].val
  <2>1. NthAt(l, k, n) \in P /\ Rank(P, NthAt(l, k, n)) = n
    BY NthAtIs DEF P
  <2>2. f[NthAt(l, k, n)] \in Q /\ Rank(Q, f[NthAt(l, k, n)]) = n
    BY <1>1, <1>2, <2>1
  <2>3. NthAt(m, k, n) = f[NthAt(l, k, n)]
    BY <2>2, NthAtIs DEF Q
  <2>. QED  BY <2>1, <2>3 DEF P
<1>. QED  BY <1>2, <1>3 DEF ValuesIn, P, Q

\* Appending an entry appends its value.
LEMMA ValuesAppend ==
  ASSUME NEW l \in Seq(Entry), NEW e \in Entry, NEW k
  PROVE  ValuesIn(Append(l, e), k) = IF e.key = k THEN Append(ValuesIn(l, k), e.val)
                                                  ELSE ValuesIn(l, k)
<1>. DEFINE m == Append(l, e)
            P == Positions(l, k)
            Q == Positions(m, k)
            n == Len(l) + 1
<1>1. /\ m \in Seq(Entry) /\ Len(m) = n /\ n \in Nat /\ m[n] = e
      /\ \A j \in 1 .. Len(l) : m[j] = l[j] /\ j < n
      /\ 1 .. Len(m) = (1 .. Len(l)) \cup {n} /\ n \notin 1 .. Len(l)
  OBVIOUS
<1>2. /\ P = {j \in 1 .. Len(l) : l[j].key = k}
      /\ Q = {j \in 1 .. Len(m) : m[j].key = k}
  BY DEF Positions
<1>3. Q = IF e.key = k THEN P \cup {n} ELSE P
  BY <1>1, <1>2
<1>4. /\ P \in SUBSET Nat /\ IsFiniteSet(P) /\ Cardinality(P) \in Nat /\ P \subseteq 1 .. Len(l)
      /\ Q \in SUBSET Nat /\ IsFiniteSet(Q)
  <2>. HIDE DEF m
  <2>. QED  BY <1>1, PositionsType
<1>. HIDE DEF m, P, Q, n
<1>5. CASE e.key # k
  <2>1. Q = P
    BY <1>3, <1>5
  <2>2. \A j : NthAt(m, k, j) = NthAt(l, k, j)
    BY <2>1 DEF NthAt, P, Q
  <2>3. \A j \in 1 .. Cardinality(P) : m[NthAt(m, k, j)] = l[NthAt(l, k, j)]
    BY <1>1, <1>4, <2>2, NthAtIs DEF P
  <2>4. ValuesIn(m, k) = ValuesIn(l, k)
    BY <2>1, <2>3 DEF ValuesIn, P, Q
  <2>. QED  BY <1>5, <2>4 DEF m
<1>6. CASE e.key = k
  <2>1. Q = P \cup {n} /\ n \notin P
    BY <1>1, <1>3, <1>4, <1>6
  <2>2. Cardinality(Q) = Cardinality(P) + 1
    BY <1>4, <2>1, FS_AddElement
  <2>3. ASSUME NEW j \in P PROVE Rank(Q, j) = Rank(P, j)
    <3>1. {i \in Q : i <= j} = {i \in P : i <= j}
      BY <1>1, <1>4, <2>1
    <3>. QED  BY <3>1 DEF Rank
  <2>4. Rank(Q, n) = Cardinality(Q)
    <3>1. \A i \in Q : i <= n
      BY <1>1, <1>4, <2>1
    <3>2. {i \in Q : i <= n} = Q
      BY <3>1
    <3>. QED  BY <3>2 DEF Rank
  <2>5. ASSUME NEW j \in 1 .. Cardinality(P) PROVE m[NthAt(m, k, j)] = l[NthAt(l, k, j)]
    <3>1. NthAt(l, k, j) \in P /\ Rank(P, NthAt(l, k, j)) = j
      BY NthAtIs DEF P
    <3>2. NthAt(l, k, j) \in Q /\ Rank(Q, NthAt(l, k, j)) = j
      BY <2>1, <2>3, <3>1
    <3>3. NthAt(m, k, j) = NthAt(l, k, j)
      BY <1>1, <3>2, NthAtIs DEF Q
    <3>. QED  BY <1>1, <1>4, <3>1, <3>3
  <2>6. m[NthAt(m, k, Cardinality(P) + 1)] = e
    BY <1>1, <2>1, <2>2, <2>4, NthAtIs DEF Q
  <2>7. /\ ValuesIn(m, k) = [j \in 1 .. Cardinality(P) + 1 |-> m[NthAt(m, k, j)].val]
        /\ ValuesIn(l, k) = [j \in 1 .. Cardinality(P) |-> l[NthAt(l, k, j)].val]
    BY <2>2 DEF ValuesIn, P, Q
  <2>8. /\ ValuesIn(l, k) \in Seq(Values) /\ Len(ValuesIn(l, k)) = Cardinality(P)
        /\ ValuesIn(m, k) \in Seq(Values) /\ Len(ValuesIn(m, k)) = Cardinality(P) + 1
    BY <1>1, <2>2, ValuesType DEF P, Q
  <2>. DEFINE v == ValuesIn(l, k)
              w == ValuesIn(m, k)
  <2>9. \A j \in 1 .. Cardinality(P) + 1 : w[j] = Append(v, e.val)[j]
    <3>1. e.val \in Values
      BY DEF Entry
    <3>2. \A j \in 1 .. Cardinality(P) : w[j] = v[j]
      BY <1>4, <2>5, <2>7
    <3>3. w[Cardinality(P) + 1] = e.val
      BY <1>4, <2>6, <2>7
    <3>4. v \in Seq(Values) /\ Len(v) = Cardinality(P)
      BY <2>8
    <3>. HIDE DEF v, w
    <3>. QED  BY <1>4, <3>1, <3>2, <3>3, <3>4
  <2>10. w = Append(v, e.val)
    <3>1. e.val \in Values
      BY DEF Entry
    <3>2. /\ v \in Seq(Values) /\ Len(v) = Cardinality(P)
          /\ w \in Seq(Values) /\ Len(w) = Cardinality(P) + 1
      BY <2>8
    <3>. HIDE DEF v, w
    <3>3. Append(v, e.val) \in Seq(Values) /\ Len(Append(v, e.val)) = Cardinality(P) + 1
      BY <3>1, <3>2
    <3>. QED  BY <2>9, <3>2, <3>3, SeqEqual
  <2>. QED  BY <1>6, <2>10 DEF m
<1>. QED  BY <1>5, <1>6

\* The entry that find_if comes upon holds the first value.
LEMMA ValuesHead ==
  ASSUME NEW l \in Seq(Entry), NEW k, Positions(l, k) # {}
  PROVE  /\ Rank(Positions(l, k), FirstAt(l, k)) = 1
         /\ Head(ValuesIn(l, k)) = l[FirstAt(l, k)].val
         /\ ValuesIn(l, k) # << >>
<1>. DEFINE P == Positions(l, k)
            a == FirstAt(l, k)
<1>1. a \in P /\ P \in SUBSET Nat /\ \A i \in P : a <= i
  BY FirstAtPosition, PositionsType
<1>. HIDE DEF P, a
<1>2. Rank(P, a) = 1
  <2>1. \A i \in P : i <= a <=> i = a
    BY <1>1
  <2>2. {i \in P : i <= a} = {a}
    BY <1>1, <2>1
  <2>. QED  BY <2>2, FS_Singleton DEF Rank
<1>3. NthAt(l, k, 1) = a
  BY <1>1, <1>2, NthAtIs DEF P
<1>4. 1 \in 1 .. Cardinality(P)
  BY <1>1, <1>2, PositionsType, RankOf DEF P
<1>5. ValuesIn(l, k)[1] = l[a].val
  BY <1>3, <1>4, ValuesType DEF P
<1>6. ValuesIn(l, k) # << >> /\ Head(ValuesIn(l, k)) = ValuesIn(l, k)[1]
  <2>1. ValuesIn(l, k) \in Seq(Values) /\ ValuesIn(l, k) # << >>
    BY <1>1, ValuesType DEF P
  <2>. QED  BY <2>1
<1>. QED  BY <1>2, <1>5, <1>6 DEF P, a

\* Erasing it takes away that value and leaves those of other keys alone.
LEMMA ValuesErase ==
  ASSUME NEW l \in Seq(Entry), NEW k, Positions(l, k) # {}
  PROVE  /\ ValuesIn(Erase(l, FirstAt(l, k)), k) = Tail(ValuesIn(l, k))
         /\ \A h : h # k => ValuesIn(Erase(l, FirstAt(l, k)), h) = ValuesIn(l, h)
<1>. DEFINE a == FirstAt(l, k)
            m == Erase(l, a)
            P(h) == Positions(l, h)
            Q(h) == Positions(m, h)
            shift(x) == IF x < a THEN x ELSE x - 1
<1>1. a \in P(k) /\ a \in 1 .. Len(l) /\ \A i \in P(k) : a <= i
  BY FirstAtPosition
<1>2. /\ m \in Seq(Entry) /\ Len(m) = Len(l) - 1
      /\ \A i \in 1 .. Len(l) - 1 : m[i] = IF i < a THEN l[i] ELSE l[i + 1]
  BY <1>1, EraseStep
<1>3. \A h : /\ P(h) = {j \in 1 .. Len(l) : l[j].key = h}
             /\ Q(h) = {j \in 1 .. Len(m) : m[j].key = h}
  BY <1>2 DEF Positions
<1>4. l[a].key = k /\ Len(l) \in Nat /\ a \in Nat
  BY <1>1, <1>3
<1>. HIDE DEF a, m, P, Q
<1>5. ASSUME NEW h, NEW x \in P(h) \ {a}
      PROVE  shift(x) \in Q(h) /\ m[shift(x)] = l[x]
  <2>1. x \in 1 .. Len(l) /\ l[x].key = h /\ x # a
    BY <1>3, <1>5
  <2>2. shift(x) \in 1 .. Len(l) - 1 /\ (shift(x) < a => shift(x) = x)
        /\ (~(shift(x) < a) => shift(x) + 1 = x)
    BY <1>1, <1>4, <2>1
  <2>. HIDE DEF shift
  <2>3. m[shift(x)] = l[x]
    BY <1>2, <2>2
  <2>. QED  BY <1>2, <1>3, <2>1, <2>2, <2>3
<1>6. ASSUME NEW h, NEW y \in Q(h) PROVE \E x \in P(h) \ {a} : shift(x) = y
  <2>1. y \in 1 .. Len(l) - 1 /\ m[y].key = h
    BY <1>2, <1>3, <1>6
  <2>2. CASE y < a
    <3>1. y \in 1 .. Len(l) /\ l[y].key = h /\ y # a /\ shift(y) = y
      BY <1>2, <1>4, <2>1, <2>2
    <3>. QED  BY <1>3, <3>1
  <2>3. CASE ~(y < a)
    <3>1. y + 1 \in 1 .. Len(l) /\ l[y + 1].key = h /\ y + 1 # a /\ shift(y + 1) = y
      BY <1>2, <1>4, <2>1, <2>3
    <3>. QED  BY <1>3, <3>1
  <2>. QED  BY <2>2, <2>3
<1>7. ASSUME NEW h, NEW x \in P(h) \ {a}, NEW y \in P(h) \ {a}, x < y
      PROVE  shift(x) < shift(y)
  <2>1. x \in Nat /\ y \in Nat /\ x # a /\ y # a
    BY <1>3, <1>7
  <2>. QED  BY <1>4, <1>7, <2>1
<1>8. \A h : P(h) \in SUBSET Nat /\ IsFiniteSet(P(h)) /\ Q(h) \in SUBSET Nat
  BY <1>2, PositionsType DEF P, Q
<1>. HIDE DEF shift
<1>9. ASSUME NEW h, h # k PROVE ValuesIn(m, h) = ValuesIn(l, h)
  <2>. DEFINE f == [x \in P(h) |-> shift(x)]
  <2>1. a \notin P(h)
    BY <1>3, <1>4, <1>9
  <2>2. /\ f \in [P(h) -> Q(h)]
        /\ \A y \in Q(h) : \E x \in P(h) : f[x] = y
        /\ \A x, y \in P(h) : x < y => f[x] < f[y]
        /\ \A x \in P(h) : m[f[x]].val = l[x].val
    BY <1>5, <1>6, <1>7, <2>1
  <2>. HIDE DEF f
  <2>. QED  BY <1>2, <2>2, SameValues DEF P, Q
<1>10. ValuesIn(m, k) = Tail(ValuesIn(l, k))
  <2>. DEFINE S == P(k) \ {a}
              T == Q(k)
              f == [x \in S |-> shift(x)]
              c == Cardinality(P(k))
  <2>1. /\ f \in [S -> T]
        /\ \A y \in T : \E x \in S : f[x] = y
        /\ \A x, y \in S : x < y => f[x] < f[y]
        /\ \A x \in S : m[f[x]] = l[x]
    BY <1>5, <1>6, <1>7
  <2>2. /\ S \in SUBSET Nat /\ T \in SUBSET Nat /\ IsFiniteSet(S)
        /\ Cardinality(S) = c - 1 /\ c \in Nat
    BY <1>1, <1>8, FS_RemoveElement, FS_CardinalityType
  <2>3. ASSUME NEW x \in S PROVE Rank(P(k), x) = Rank(S, x) + 1
    <3>. DEFINE A == {i \in P(k) : i <= x}
    <3>1. a \in A /\ IsFiniteSet(A)
      BY <1>1, <1>8, FS_Subset
    <3>2. A \ {a} = {i \in S : i <= x}
      OBVIOUS
    <3>3. Cardinality(A \ {a}) = Cardinality(A) - 1 /\ Cardinality(A) \in Nat
      BY <3>1, FS_RemoveElement, FS_CardinalityType
    <3>. HIDE DEF A
    <3>4. Rank(P(k), x) = Cardinality(A) /\ Rank(S, x) = Cardinality(A \ {a})
      BY <3>2 DEF Rank, A
    <3>. QED  BY <3>3, <3>4
  <2>. HIDE DEF S, T, f, c
  <2>4. Cardinality(T) = c - 1 /\ \A x \in S : Rank(T, f[x]) = Rank(S, x)
    BY <2>1, <2>2, RankKept
  <2>. DEFINE v == ValuesIn(l, k)
              w == ValuesIn(m, k)
  <2>5. /\ v \in Seq(Values) /\ Len(v) = c /\ w \in Seq(Values) /\ Len(w) = c - 1
        /\ \A n \in 1 .. c : v[n] = l[NthAt(l, k, n)].val
        /\ \A n \in 1 .. c - 1 : w[n] = m[NthAt(m, k, n)].val
    BY <1>2, <2>4, ValuesType DEF c, P, T, Q
  <2>6. ASSUME NEW n \in 1 .. c - 1 PROVE w[n] = v[n + 1]
    <3>1. n + 1 \in 1 .. c /\ n \in Nat
      BY <2>2
    <3>2. NthAt(l, k, n + 1) \in P(k) /\ Rank(P(k), NthAt(l, k, n + 1)) = n + 1
      BY <3>1, NthAtIs DEF P, c
    <3>3. Rank(P(k), a) = 1
      BY <1>1, ValuesHead DEF P, a
    <3>4. NthAt(l, k, n + 1) \in S
      BY <3>1, <3>2, <3>3 DEF S
    <3>5. /\ f[NthAt(l, k, n + 1)] \in T
          /\ Rank(T, f[NthAt(l, k, n + 1)]) = Rank(S, NthAt(l, k, n + 1))
          /\ Rank(S, NthAt(l, k, n + 1)) + 1 = n + 1
      BY <2>1, <2>3, <2>4, <3>2, <3>4
    <3>6. Rank(S, NthAt(l, k, n + 1)) \in Nat
      <4>1. IsFiniteSet({i \in S : i <= NthAt(l, k, n + 1)})
        BY <2>2, FS_Subset
      <4>. QED  BY <4>1, FS_CardinalityType DEF Rank
    <3>7. Rank(T, f[NthAt(l, k, n + 1)]) = n
      BY <3>1, <3>5, <3>6
    <3>8. NthAt(m, k, n) = f[NthAt(l, k, n + 1)]
      BY <1>2, <3>5, <3>7, NthAtIs DEF T, Q
    <3>9. m[NthAt(m, k, n)] = l[NthAt(l, k, n + 1)]
      BY <2>1, <3>4, <3>8
    <3>. QED  BY <2>5, <3>1, <3>9
  <2>7. v # << >>
    BY <1>1, ValuesHead DEF P
  <2>. HIDE DEF v, w
  <2>8. /\ Tail(v) \in Seq(Values) /\ Len(Tail(v)) = c - 1
        /\ \A n \in 1 .. c - 1 : Tail(v)[n] = v[n + 1]
    BY <2>2, <2>5, <2>7
  <2>9. w = Tail(v)
    BY <2>5, <2>6, <2>8, SeqEqual
  <2>. QED  BY <2>9 DEF v, w
<1>. QED  BY <1>9, <1>10 DEF m, a

\* Entries of other keys in between do not matter.
LEMMA ValuesSkip ==
  ASSUME NEW a \in Seq(Entry), NEW b \in Seq(Entry), NEW c \in Seq(Entry), NEW k,
         Positions(b, k) = {}
  PROVE  ValuesIn(a \o (b \o c), k) = ValuesIn(a \o c, k)
<1>. DEFINE l == a \o c
            m == a \o (b \o c)
            P == Positions(l, k)
            Q == Positions(m, k)
            shift(x) == IF x <= Len(a) THEN x ELSE x + Len(b)
<1>1. /\ l \in Seq(Entry) /\ Len(l) = Len(a) + Len(c)
      /\ \A i \in 1 .. Len(a) + Len(c) : l[i] = IF i <= Len(a) THEN a[i] ELSE c[i - Len(a)]
  BY ConcatProperties
<1>2. /\ b \o c \in Seq(Entry) /\ Len(b \o c) = Len(b) + Len(c)
      /\ \A i \in 1 .. Len(b) + Len(c) :
           (b \o c)[i] = IF i <= Len(b) THEN b[i] ELSE c[i - Len(b)]
  BY ConcatProperties
<1>3. /\ m \in Seq(Entry) /\ Len(m) = Len(a) + Len(b \o c)
      /\ \A i \in 1 .. Len(a) + Len(b \o c) :
           m[i] = IF i <= Len(a) THEN a[i] ELSE (b \o c)[i - Len(a)]
  BY <1>2, ConcatProperties
<1>4. Len(a) \in Nat /\ Len(b) \in Nat /\ Len(c) \in Nat
  OBVIOUS
<1>5. \A j \in 1 .. Len(b) : b[j].key # k
  BY DEF Positions
<1>6. /\ P = {j \in 1 .. Len(l) : l[j].key = k}
      /\ Q = {j \in 1 .. Len(m) : m[j].key = k}
  BY <1>1, <1>3 DEF Positions
<1>. HIDE DEF l, m, P, Q
<1>7. ASSUME NEW x \in P PROVE shift(x) \in Q /\ m[shift(x)] = l[x]
  <2>1. x \in 1 .. Len(a) + Len(c) /\ l[x].key = k
    BY <1>1, <1>6
  <2>2. CASE x <= Len(a)
    <3>1. shift(x) = x /\ x \in 1 .. Len(a) + Len(b \o c)
      BY <1>2, <1>4, <2>1, <2>2
    <3>. QED  BY <1>1, <1>3, <1>6, <2>1, <2>2, <3>1
  <2>3. CASE ~(x <= Len(a))
    <3>1. /\ shift(x) = x + Len(b) /\ shift(x) \in 1 .. Len(a) + Len(b \o c)
          /\ ~(shift(x) <= Len(a)) /\ shift(x) - Len(a) \in 1 .. Len(b) + Len(c)
          /\ ~(shift(x) - Len(a) <= Len(b))
          /\ shift(x) - Len(a) - Len(b) = x - Len(a)
      BY <1>2, <1>4, <2>1, <2>3
    <3>. HIDE DEF shift
    <3>2. m[shift(x)] = c[x - Len(a)]
      BY <1>2, <1>3, <3>1
    <3>. QED  BY <1>1, <1>3, <1>6, <2>1, <2>3, <3>1, <3>2
  <2>. QED  BY <2>2, <2>3
<1>8. ASSUME NEW y \in Q PROVE \E x \in P : shift(x) = y
  <2>1. y \in 1 .. Len(a) + (Len(b) + Len(c)) /\ m[y].key = k
    BY <1>2, <1>3, <1>6
  <2>2. CASE y <= Len(a)
    <3>1. /\ shift(y) = y /\ y \in 1 .. Len(a) + Len(c)
          /\ y \in 1 .. Len(a) + Len(b \o c)
      BY <1>2, <1>4, <2>1, <2>2
    <3>2. l[y] = m[y]
      BY <1>1, <1>3, <2>2, <3>1
    <3>. QED  BY <1>1, <1>6, <2>1, <3>1, <3>2
  <2>3. CASE y > Len(a)
    <3>1. y - Len(a) \in 1 .. Len(b) + Len(c)
      BY <1>4, <2>1, <2>3
    <3>2. m[y] = (b \o c)[y - Len(a)]
      BY <1>2, <1>3, <1>4, <2>1, <2>3
    <3>3. ~(y - Len(a) <= Len(b))
      BY <1>2, <1>5, <2>1, <3>1, <3>2
    <3>4. /\ y - Len(b) \in 1 .. Len(a) + Len(c) /\ ~(y - Len(b) <= Len(a))
          /\ y - Len(b) - Len(a) = y - Len(a) - Len(b)
          /\ shift(y - Len(b)) = y
      BY <1>4, <2>1, <2>3, <3>3
    <3>5. l[y - Len(b)] = m[y]
      BY <1>1, <1>2, <3>1, <3>2, <3>3, <3>4
    <3>. QED  BY <1>1, <1>6, <2>1, <3>4, <3>5
  <2>. QED  BY <1>4, <2>1, <2>2, <2>3
<1>9. ASSUME NEW x \in P, NEW y \in P, x < y PROVE shift(x) < shift(y)
  <2>1. x \in Nat /\ y \in Nat
    BY <1>6
  <2>. QED  BY <1>4, <1>9, <2>1
<1>. HIDE DEF shift
<1>. DEFINE f == [x \in P |-> shift(x)]
<1>10. /\ f \in [P -> Q]
       /\ \A y \in Q : \E x \in P : f[x] = y
       /\ \A x, y \in P : x < y => f[x] < f[y]
       /\ \A x \in P : m[f[x]].val = l[x].val
  BY <1>7, <1>8, <1>9
<1>. HIDE DEF f
<1>11. /\ l \in Seq(Entry) /\ m \in Seq(Entry)
       /\ f \in [Positions(l, k) -> Positions(m, k)]
       /\ \A y \in Positions(m, k) : \E x \in Positions(l, k) : f[x] = y
       /\ \A x, y \in Positions(l, k) : x < y => f[x] < f[y]
       /\ \A x \in Positions(l, k) : m[f[x]].val = l[x].val
  BY <1>1, <1>3, <1>10 DEF P, Q
<1>12. ValuesIn(m, k) = ValuesIn(l, k)
  BY <1>11, SameValues, SMTT(20)
<1>. QED  BY <1>12 DEF l, m

-----------------------------------------------------------------------------
(***************************************************************************)
(* What the steps do to the values under each key.                         *)
(***************************************************************************)

\* Entries are on their way from the buckets to the buckets only while
\* somebody resizes, and collecting empties the buckets one after the other.
Gathered ==
  /\ (\A t \in Threads : pc[t] \notin Resizing) => pending = << >>
  /\ \A t \in Threads : pc[t] = "resizeCollect" =>
       \A i \in DOMAIN storage : i < idx[t] => storage[i].l = << >>

\* Who resizes is alone.
LEMMA Alone ==
  ASSUME IInv, NEW t \in Threads
  PROVE  /\ pc[t] \in Resizing => \A u \in Threads \ {t} : pc[u] \notin Resizing \cup Reading
         /\ pc[t] \in Reading => \A u \in Threads : pc[u] \notin Resizing
BY TableAssumption DEF IInv, Control, LocksHeld, TypeOK

LEMMA GatheredStep ==
  ASSUME IInv, IInv', Gathered, NEW t \in Threads, Step(t)
  PROVE  Gathered'
<1>0. /\ TypeOK /\ CallShape /\ InBucketExists /\ ErasesWhatItFound
      /\ \A u \in Threads \ {t} : pc'[u] = pc[u] /\ idx'[u] = idx[u]
      /\ \A u \in Threads : writer = u <=> pc[u] \in Resizing
      /\ \A u \in Threads : writer' = u <=> pc'[u] \in Resizing
      /\ "resizeCollect" \in Resizing
  BY OthersStay DEF IInv, Control, LocksHeld, Resizing
<1>1. CASE Collect(t)
  <2>1. /\ pc[t] = "resizeCollect" /\ UNCHANGED pc
        /\ storage' = [storage EXCEPT ![idx[t]].l = << >>]
        /\ idx' = [idx EXCEPT ![t] = @ + 1] /\ idx[t] \in Nat /\ idx'[t] = idx[t] + 1
    BY <1>0, <1>1 DEF Collect, TypeOK
  <2>2. \A i \in DOMAIN storage : storage[i].l = << >> \/ i = idx[t] => storage'[i].l = << >>
    BY <1>0, <2>1, StorageType DEF Node
  <2>3. ASSUME NEW i \in DOMAIN storage', i < idx'[t] PROVE storage'[i].l = << >>
    <3>1. i \in DOMAIN storage /\ i \in Nat
      BY <1>0, <2>1, StorageType
    <3>2. i < idx[t] \/ i = idx[t]
      BY <2>1, <2>3, <3>1
    <3>. QED  BY <2>1, <2>2, <3>1, <3>2 DEF Gathered
  <2>4. \A u \in Threads : pc'[u] = "resizeCollect" => u = t
    BY <1>0, <2>1, Alone
  <2>. QED  BY <1>0, <2>1, <2>3, <2>4 DEF Gathered
<1>2. CASE Rebuild(t) \/ Refill(t)
  <2>1. pc[t] \in Resizing /\ pc'[t] = "resizeFill"
    BY <1>0, <1>2 DEF Rebuild, Refill, Goto, TypeOK, Resizing
  <2>2. \A u \in Threads : pc'[u] # "resizeCollect"
    BY <1>0, <2>1, Alone
  <2>. QED  BY <2>1, <2>2 DEF Gathered, Resizing
<1>3. CASE ResizeEnd(t)
  <2>1. pc[t] \in Resizing /\ pc'[t] = "tableLock" /\ pending' = << >>
    BY <1>0, <1>3 DEF ResizeEnd, Goto, TypeOK, Resizing, tableVars
  <2>2. \A u \in Threads : pc'[u] # "resizeCollect"
    BY <1>0, <2>1, Alone
  <2>. QED  BY <2>1, <2>2 DEF Gathered
<1>4. CASE ResizeBegin(t)
  <2>1. /\ pc'[t] = "resizeCollect" /\ idx'[t] = 0 /\ UNCHANGED storage /\ writer = Nobody
    BY <1>0, <1>4 DEF ResizeBegin, Goto, TypeOK, tableVars, MayLockExclusive
  <2>2. \A u \in Threads \ {t} : pc'[u] # "resizeCollect"
    BY <1>0, <2>1, TableAssumption
  <2>3. \A i \in DOMAIN storage' : ~(i < 0)
    BY <1>0, <2>1, StorageType
  <2>. QED  BY <1>0, <2>1, <2>2, <2>3 DEF Gathered
<1>5. pc[t] \in Resizing => Collect(t) \/ Rebuild(t) \/ Refill(t) \/ ResizeEnd(t)
  BY DEF Step, Resize, Access, Scan, Begin, BoundCheckPasses, BoundCheckFails, LockTable,
         CheckEmpty, CheckLoad, KeepSize, WantResize, ScanBegin, ScanBucket, ScanEnd,
         ResizeNotNeeded, ResizeBegin, LockBucket, StrayBucket, Lookup, LookupFirst,
         CopyBucket, InsertPush, InsertCount, RemoveMiss, RemoveCount, RemoveErase,
         Goto, Resizing
<1>6. CASE pc[t] \notin Resizing /\ ~ResizeBegin(t)
  <2>1. ~Collect(t) /\ ~Rebuild(t) /\ ~Refill(t) /\ ~ResizeEnd(t)
    BY <1>6 DEF Collect, Rebuild, Refill, ResizeEnd, Goto, Resizing
  <2>2. UNCHANGED <<pending, writer>>
    BY <1>6, <2>1
       DEF Step, Resize, Access, Scan, Begin, BoundCheckPasses, BoundCheckFails, LockTable,
           CheckEmpty, CheckLoad, KeepSize, WantResize, ScanBegin, ScanBucket, ScanEnd,
           ResizeNotNeeded, LockBucket, StrayBucket, Lookup, LookupFirst,
           CopyBucket, InsertPush, InsertCount, RemoveMiss, RemoveCount, RemoveErase, tableVars
  <2>3. \A u \in Threads : pc'[u] \in Resizing <=> pc[u] \in Resizing
    BY <1>0, <2>2
  <2>4. ASSUME NEW u \in Threads, pc'[u] = "resizeCollect",
               NEW i \in DOMAIN storage', i < idx'[u]
        PROVE  storage'[i].l = << >>
    <3>1. pc[u] \in Resizing /\ u # t
      BY <1>0, <1>6, <2>3, <2>4
    <3>2. ~InsertPush(t) /\ ~RemoveErase(t)
      <4>1. InsertPush(t) \/ RemoveErase(t) => pc[t] \in Reading
        BY DEF InsertPush, RemoveErase, Goto, Reading
      <4>. QED  BY <3>1, <4>1, Alone
    <3>3. DOMAIN storage' = DOMAIN storage /\ storage'[i].l = storage[i].l
      BY <1>0, <2>1, <2>4, <3>2, ListMoves
    <3>. QED  BY <1>0, <2>4, <3>1, <3>3 DEF Gathered
  <2>5. (\A u \in Threads : pc'[u] \notin Resizing) => pending' = << >>
    BY <2>2, <2>3 DEF Gathered
  <2>. QED  BY <2>4, <2>5 DEF Gathered
<1>. QED  BY <1>1, <1>2, <1>3, <1>4, <1>5, <1>6

LEMMA InitGathered == Init => Gathered
BY DEF Init, Gathered

LEMMA AlwaysGathered == Spec => [](IInv /\ Gathered)
<1>1. IInv /\ Gathered /\ [Next]_vars => Gathered'
  <2>1. Gathered /\ UNCHANGED vars => Gathered'
    BY DEF Gathered, vars
  <2>2. ASSUME IInv, Gathered, Next PROVE Gathered'
    BY <2>2, Inductive, GatheredStep DEF Next
  <2>. QED  BY <2>1, <2>2
<1>. QED  BY <1>1, AlwaysIInv, InitGathered, PTL DEF Spec

\* A thread inside a bucket sees in its list the values of the key it works on.
LEMMA ChainHere ==
  ASSUME IInv, Gathered, NEW t \in Threads, pc[t] \in InBucket, doing[t] # "bucket"
  PROVE  /\ Current(t).key \in Keys /\ Current(t).val \in Values
         /\ idx[t] = Hash(Current(t).key) /\ idx[t] \in DOMAIN storage
         /\ pending = << >> /\ List(t) \in Seq(Entry)
         /\ ChainOf(Current(t).key) = ValuesIn(List(t), Current(t).key)
         /\ Found(t) <=> ChainOf(Current(t).key) # << >>
         /\ Found(t) => Value(t) = Head(ChainOf(Current(t).key))
<1>1. /\ TypeOK /\ CallShape /\ pc[t] # "idle" /\ doing[t] \notin {"bucket", "scan"}
      /\ pc[t] \in Reading
  BY DEF IInv, Control, CallShape, InBucket, Reading
<1>2. Current(t).key \in Keys /\ Current(t).val \in Values
  BY <1>1, CurrentType
<1>3. idx[t] = Hash(Current(t).key) /\ idx[t] \in DOMAIN storage
  BY DEF IInv, BucketNotStale
<1>4. pending = << >>
  BY <1>1, Alone DEF Gathered
<1>5. List(t) \in Seq(Entry)
  BY <1>1, <1>3, ListType
<1>6. ChainOf(Current(t).key) = ValuesIn(List(t), Current(t).key)
  <2>1. List(t) \o << >> = List(t)
    BY <1>5
  <2>. QED  BY <1>3, <1>4, <2>1 DEF ChainOf, List
<1>7. Found(t) <=> ChainOf(Current(t).key) # << >>
  BY <1>5, <1>6, ValuesType DEF Found
<1>8. Found(t) => Value(t) = Head(ChainOf(Current(t).key))
  BY <1>5, <1>6, ValuesHead DEF Found, Value
<1>. QED  BY <1>2, <1>3, <1>4, <1>5, <1>6, <1>7, <1>8

LEMMA ModType ==
  ASSUME NEW x \in Nat, NEW c \in Nat \ {0}
  PROVE  x % c \in 0 .. c - 1
OBVIOUS

LEMMA HashIn ==
  ASSUME TypeOK, NEW k \in Keys
  PROVE  /\ Hash(k) \in DOMAIN storage /\ storage[Hash(k)].l \in Seq(Entry)
         /\ UNCHANGED capacity => Hash(k)' = Hash(k)
<1>1. Hash(k) \in DOMAIN storage
  BY HashType, StorageType
<1>2. UNCHANGED capacity => Hash(k)' = Hash(k)
  BY DEF Hash
<1>. QED  BY <1>1, <1>2, StorageType

\* Lists that stay as they are keep the values of every key.
LEMMA ChainsStay ==
  ASSUME TypeOK, UNCHANGED <<capacity, pending>>, DOMAIN storage' = DOMAIN storage,
         \A i \in DOMAIN storage : storage'[i].l = storage[i].l, NEW k \in Keys
  PROVE  ChainOf(k)' = ChainOf(k)
<1>1. Hash(k)' = Hash(k) /\ Hash(k) \in DOMAIN storage
  BY HashType, StorageType DEF Hash
<1>. QED  BY <1>1 DEF ChainOf

\* The lists are of other keys, too; a key's values are those of its bucket.
LEMMA ChainElsewhere ==
  ASSUME IInv, UNCHANGED <<capacity, pending>>, NEW i \in DOMAIN storage,
         DOMAIN storage' = DOMAIN storage,
         \A j \in DOMAIN storage : j # i => storage'[j].l = storage[j].l,
         NEW k \in Keys, Hash(k) # i
  PROVE  ChainOf(k)' = ChainOf(k)
<1>1. Hash(k)' = Hash(k) /\ Hash(k) \in DOMAIN storage
  BY HashType, StorageType DEF Hash, IInv, Control
<1>. QED  BY <1>1 DEF ChainOf

\* collectPairs() takes a list out of its bucket, and its keys are all of that bucket.
LEMMA ChainCollect ==
  ASSUME IInv, NEW t \in Threads, Collect(t), NEW k \in Keys
  PROVE  ChainOf(k)' = ChainOf(k)
<1>. DEFINE h == Hash(k)
            i == idx[t]
            b == storage[i].l
<1>0. TypeOK
  BY DEF IInv, Control
<1>1. /\ storage' = [storage EXCEPT ![i].l = << >>] /\ pending' = b \o pending
      /\ UNCHANGED capacity /\ i \in DOMAIN storage
  BY <1>0, StorageType DEF Collect, TypeOK
<1>2. /\ h \in DOMAIN storage /\ h' = h /\ storage[h].l \in Seq(Entry)
      /\ b \in Seq(Entry) /\ pending \in Seq(Entry)
  <2>1. b \in Seq(Entry) /\ pending \in Seq(Entry)
    BY <1>0, <1>1, StorageType DEF TypeOK
  <2>. QED  BY <1>0, <1>1, <2>1, HashIn
<1>3. /\ storage'[i].l = << >>
      /\ h # i => storage'[h].l = storage[h].l
  BY <1>0, <1>1, <1>2, StorageType DEF Node
<1>4. CASE h = i
  <2>1. storage'[h].l \o pending' = storage[h].l \o pending
    <3>1. b \o pending \in Seq(Entry)
      BY <1>2, ConcatProperties
    <3>2. << >> \o (b \o pending) = b \o pending
      BY <3>1
    <3>. QED  BY <1>1, <1>3, <1>4, <3>2
  <2>. QED  BY <1>2, <2>1 DEF ChainOf
<1>5. CASE h # i
  <2>1. Positions(b, k) = {}
    BY <1>1, <1>5 DEF Positions, IInv, Placement
  <2>2. ValuesIn(storage[h].l \o (b \o pending), k) = ValuesIn(storage[h].l \o pending, k)
    BY <1>2, <2>1, ValuesSkip
  <2>. QED  BY <1>1, <1>2, <1>3, <1>5, <2>2 DEF ChainOf
<1>. QED  BY <1>4, <1>5

\* When the nodes are replaced everything has been taken out of them.
LEMMA ChainRebuild ==
  ASSUME IInv, TypeOK', Gathered, NEW t \in Threads, Rebuild(t), NEW k \in Keys
  PROVE  ChainOf(k)' = ChainOf(k)
<1>0. TypeOK
  BY DEF IInv, Control
<1>1. Hash(k) \in DOMAIN storage /\ Hash(k) \in Nat /\ Hash(k) < capacity
  BY <1>0, BucketThere
<1>2. storage[Hash(k)].l = << >>
  BY <1>1 DEF Rebuild, Goto, Gathered
<1>3. Hash(k)' \in DOMAIN storage'
  <2>1. capacity' \in Nat \ {0}
    BY DEF TypeOK
  <2>2. DOMAIN storage' = 0 .. capacity' - 1
    BY DEF Rebuild
  <2>3. HashOf[k] \in Nat
    BY TableAssumption
  <2>4. HashOf[k] % capacity' \in 0 .. capacity' - 1
    BY <2>1, <2>3, ModType
  <2>. QED  BY <2>2, <2>4 DEF Hash
<1>4. storage'[Hash(k)'].l = << >>
  BY <1>3 DEF Rebuild, NewNode
<1>5. pending' = pending
  BY DEF Rebuild
<1>. QED  BY <1>2, <1>4, <1>5 DEF ChainOf

\* The first entry that is put back goes to the end of its bucket: the entries of a
\* key keep their order.
LEMMA ChainRefill ==
  ASSUME IInv, NEW t \in Threads, Refill(t), NEW k \in Keys
  PROVE  ChainOf(k)' = ChainOf(k)
<1>. DEFINE h == Hash(k)
            e == Head(pending)
            i == Hash(e.key)
            rest == Tail(pending)
<1>0. TypeOK
  BY DEF IInv, Control
<1>1. /\ pending \in Seq(Entry) /\ pending # << >>
      /\ storage' = [storage EXCEPT ![i].l = Append(@, e)] /\ pending' = rest
      /\ UNCHANGED capacity
  BY <1>0 DEF Refill, TypeOK
<1>2. e \in Entry /\ rest \in Seq(Entry) /\ pending = <<e>> \o rest /\ <<e>> \in Seq(Entry)
  BY <1>1
<1>3. /\ h \in DOMAIN storage /\ h' = h /\ i \in DOMAIN storage
      /\ storage[h].l \in Seq(Entry)
  <2>1. e.key \in Keys
    BY <1>2 DEF Entry
  <2>2. i \in DOMAIN storage
    BY <1>0, <2>1, HashIn
  <2>. QED  BY <1>0, <1>1, <2>2, HashIn
<1>4. /\ storage'[i].l = Append(storage[i].l, e)
      /\ h # i => storage'[h].l = storage[h].l
  BY <1>0, <1>1, <1>3, StorageType DEF Node
<1>. HIDE DEF e, rest
<1>5. CASE h = i
  <2>1. storage'[h].l \o pending' = storage[h].l \o pending
    <3>1. \A s, r \in Seq(Entry) : Append(s, e) \o r = s \o (<<e>> \o r)
      BY <1>2
    <3>2. Append(storage[h].l, e) \o rest = storage[h].l \o (<<e>> \o rest)
      BY <1>2, <1>3, <3>1
    <3>3. storage'[h].l = Append(storage[h].l, e)
      BY <1>4, <1>5
    <3>4. pending = <<e>> \o rest /\ pending' = rest
      BY <1>1, <1>2
    <3>. QED  BY <3>2, <3>3, <3>4
  <2>. QED  BY <1>3, <2>1 DEF ChainOf
<1>6. CASE h # i
  <2>1. Positions(<<e>>, k) = {}
    <3>1. e.key # k
      BY <1>6
    <3>. QED  BY <3>1 DEF Positions
  <2>2. ValuesIn(storage[h].l \o (<<e>> \o rest), k) = ValuesIn(storage[h].l \o rest, k)
    <3>. DEFINE s == <<e>>
    <3>1. /\ storage[h].l \in Seq(Entry) /\ s \in Seq(Entry) /\ rest \in Seq(Entry)
          /\ Positions(s, k) = {}
      BY <1>2, <1>3, <2>1
    <3>. HIDE DEF h, s
    <3>2. ValuesIn(storage[h].l \o (s \o rest), k) = ValuesIn(storage[h].l \o rest, k)
      BY <3>1, ValuesSkip
    <3>. QED  BY <3>2 DEF s
  <2>. QED  BY <1>1, <1>2, <1>3, <1>4, <1>6, <2>2 DEF ChainOf
<1>. QED  BY <1>5, <1>6

\* insert() and remove() change the values of their key, in its bucket.
LEMMA ChainPush ==
  ASSUME IInv, Gathered, NEW t \in Threads, InsertPush(t), NEW k \in Keys
  PROVE  ChainOf(k)' = IF k = Current(t).key THEN Append(ChainOf(k), Current(t).val)
                                             ELSE ChainOf(k)
<1>. DEFINE e == [key |-> Current(t).key, val |-> Current(t).val]
<1>0. TypeOK /\ pc[t] = "access" /\ doing[t] = "insert"
  BY DEF IInv, Control, InsertPush, Goto
<1>1. /\ Current(t).key \in Keys /\ Current(t).val \in Values
      /\ idx[t] = Hash(Current(t).key) /\ idx[t] \in DOMAIN storage
      /\ pending = << >> /\ List(t) \in Seq(Entry)
      /\ ChainOf(Current(t).key) = ValuesIn(List(t), Current(t).key)
  BY <1>0, ChainHere DEF InBucket
<1>2. /\ storage' = [storage EXCEPT ![idx[t]].l = Append(@, e)]
      /\ UNCHANGED <<capacity, pending>>
  BY DEF InsertPush
<1>3. e \in Entry /\ e.key = Current(t).key /\ e.val = Current(t).val
  BY <1>1 DEF Entry
<1>. HIDE DEF e
<1>4. /\ storage'[idx[t]].l = Append(List(t), e)
      /\ DOMAIN storage' = DOMAIN storage
      /\ \A j \in DOMAIN storage : j # idx[t] => storage'[j].l = storage[j].l
  BY <1>0, <1>1, <1>2, StorageType DEF Node, List
<1>5. CASE Hash(k) # idx[t]
  BY <1>1, <1>2, <1>4, <1>5, ChainElsewhere
<1>6. CASE Hash(k) = idx[t]
  <2>1. Hash(k)' = idx[t]
    BY <1>2, <1>6 DEF Hash
  <2>2. /\ Append(List(t), e) \o << >> = Append(List(t), e)
        /\ List(t) \o << >> = List(t)
    BY <1>1, <1>3
  <2>3. /\ ChainOf(k)' = ValuesIn(Append(List(t), e), k)
        /\ ChainOf(k) = ValuesIn(List(t), k)
    BY <1>1, <1>2, <1>4, <1>6, <2>1, <2>2 DEF ChainOf, List
  <2>. QED  BY <1>1, <1>3, <2>3, ValuesAppend
<1>. QED  BY <1>5, <1>6

LEMMA ChainErase ==
  ASSUME IInv, Gathered, NEW t \in Threads, RemoveErase(t), NEW k \in Keys
  PROVE  ChainOf(k)' = IF k = Current(t).key THEN Tail(ChainOf(k)) ELSE ChainOf(k)
<1>. DEFINE h == Current(t).key
            l == Erase(List(t), FirstAt(List(t), h))
<1>0. TypeOK /\ CallShape /\ pc[t] = "removeErase" /\ doing[t] = "remove" /\ Found(t)
  BY DEF IInv, Control, CallShape, ErasesWhatItFound, RemoveErase
<1>1. /\ idx[t] = Hash(h) /\ idx[t] \in DOMAIN storage
      /\ pending = << >> /\ List(t) \in Seq(Entry)
  BY <1>0, ChainHere DEF InBucket
<1>2. storage' = Unlocked(t, l) /\ UNCHANGED <<capacity, pending>>
  BY DEF RemoveErase
<1>3. l \in Seq(Entry)
  BY <1>0, <1>1, ListType
<1>4. /\ ValuesIn(l, h) = Tail(ValuesIn(List(t), h))
      /\ k # h => ValuesIn(l, k) = ValuesIn(List(t), k)
  BY <1>0, <1>1, ValuesErase DEF Found
<1>. HIDE DEF l
<1>5. /\ storage'[idx[t]].l = l
      /\ DOMAIN storage' = DOMAIN storage
      /\ \A j \in DOMAIN storage : j # idx[t] => storage'[j].l = storage[j].l
  BY <1>0, <1>1, <1>2, <1>3, UnlockStep
<1>6. CASE Hash(k) # idx[t]
  BY <1>1, <1>2, <1>5, <1>6, ChainElsewhere
<1>7. CASE Hash(k) = idx[t]
  <2>1. Hash(k)' = idx[t]
    BY <1>2, <1>7 DEF Hash
  <2>2. l \o << >> = l /\ List(t) \o << >> = List(t)
    BY <1>1, <1>3
  <2>3. /\ ChainOf(k)' = ValuesIn(l, k)
        /\ ChainOf(k) = ValuesIn(List(t), k)
    BY <1>1, <1>2, <1>5, <1>7, <2>1, <2>2 DEF ChainOf, List
  <2>. QED  BY <1>4, <2>3
<1>. QED  BY <1>6, <1>7

\* Only insert() and remove() change the map.
LEMMA ChainsKept ==
  ASSUME IInv, IInv', Gathered, NEW t \in Threads, Step(t),
         ~InsertPush(t), ~RemoveErase(t), NEW k \in Keys
  PROVE  ChainOf(k)' = ChainOf(k)
<1>0. TypeOK /\ TypeOK' /\ CallShape /\ InBucketExists /\ ErasesWhatItFound
  BY DEF IInv, Control
<1>1. CASE Collect(t) \/ Rebuild(t) \/ Refill(t)
  BY <1>0, <1>1, ChainCollect, ChainRebuild, ChainRefill
<1>2. CASE ~Collect(t) /\ ~Rebuild(t) /\ ~Refill(t)
  <2>1. UNCHANGED pending
    BY <1>2
       DEF Step, Resize, Access, Scan, Begin, BoundCheckPasses, BoundCheckFails, LockTable,
           CheckEmpty, CheckLoad, KeepSize, WantResize, ScanBegin, ScanBucket, ScanEnd,
           ResizeNotNeeded, ResizeBegin, ResizeEnd, LockBucket, StrayBucket, Lookup,
           LookupFirst, CopyBucket, InsertPush, InsertCount, RemoveMiss, RemoveCount,
           RemoveErase, tableVars
  <2>. QED  BY <1>0, <1>2, <2>1, ListMoves, ChainsStay
<1>. QED  BY <1>1, <1>2

-----------------------------------------------------------------------------
(***************************************************************************)
(* The table implements the map.                                           *)
(***************************************************************************)
SameChains == \A k \in Keys : ChainOf(k)' = ChainOf(k)
SameAdding == \A t \in Threads : Adding(t)' = Adding(t)
Sets(t, r) == result' = [result EXCEPT ![t] = r]

\* The operations of the map, in terms of the table.
LEMMA MapStutter == SameChains /\ SameAdding /\ UNCHANGED result => UNCHANGED Map!vars
BY DEF SameChains, SameAdding, Map!vars

LEMMA MapReads ==
  ASSUME SameChains, SameAdding, NEW t \in Threads, NEW k \in Keys
  PROVE  /\ ChainOf(k) # << >> /\ Sets(t, Head(ChainOf(k))) =>
              Map!Get(t, k) /\ Map!Subscript(t, k)
         /\ ChainOf(k) = << >> /\ Sets(t, Missing) => Map!Get(t, k)
         /\ ChainOf(k) = << >> /\ Sets(t, Garbage) => Map!Subscript(t, k)
         /\ ChainOf(k) # << >> /\ Sets(t, Refused) => Map!Refuse(t, k)
BY DEF SameChains, SameAdding, Sets, Map!Get, Map!Subscript, Map!Refuse, Map!Answers,
       Map!Absent, Map!First, Missing, Garbage, Refused, Map!Missing, Map!Garbage, Map!Refused

LEMMA MapReadBucket ==
  ASSUME SameChains, SameAdding, NEW t \in Threads, Sets(t, Missing) \/ Sets(t, Copied)
  PROVE  Map!ReadBucket(t)
BY DEF SameChains, SameAdding, Sets, Map!ReadBucket, Map!Answers,
       Missing, Copied, Map!Missing, Map!Copied

LEMMA MapFindAbsent ==
  ASSUME SameChains, NEW t \in Threads, NEW k \in Keys, ChainOf(k) = << >>,
         Adding(t) = Map!NoKey, Adding(t)' = k,
         \A u \in Threads \ {t} : Adding(u)' = Adding(u), Sets(t, Missing)
  PROVE  Map!FindAbsent(t, k)
BY DEF SameChains, Sets, Map!FindAbsent, Map!Answers, Map!Absent, Missing, Map!Missing

LEMMA MapAdd ==
  ASSUME NEW t \in Threads, NEW k \in Keys, NEW v \in Values,
         Adding(t) = k, Adding(t)' = Map!Added,
         \A u \in Threads \ {t} : Adding(u)' = Adding(u),
         \A h \in Keys : ChainOf(h)' = IF h = k THEN Append(ChainOf(h), v) ELSE ChainOf(h),
         UNCHANGED result
  PROVE  Map!Add(t, k, v)
BY DEF Map!Add

LEMMA MapConfirm ==
  ASSUME SameChains, NEW t \in Threads, Adding(t) = Map!Added, Adding(t)' = Map!NoKey,
         \A u \in Threads \ {t} : Adding(u)' = Adding(u), Sets(t, Inserted)
  PROVE  Map!Confirm(t)
BY DEF SameChains, Sets, Map!Confirm, Map!Answers, Inserted, Map!Inserted

LEMMA MapRemove ==
  ASSUME SameAdding, NEW t \in Threads, NEW k \in Keys, ChainOf(k) # << >>,
         Sets(t, Head(ChainOf(k))),
         \A h \in Keys : ChainOf(h)' = IF h = k THEN Tail(ChainOf(h)) ELSE ChainOf(h)
  PROVE  Map!Remove(t, k)
BY DEF SameAdding, Sets, Map!Remove, Map!Answers, Map!Absent, Map!First

\* What a thread is about to add changes with its own steps only.
LEMMA OthersAdding ==
  ASSUME IInv, NEW t \in Threads, Step(t), NEW u \in Threads \ {t}
  PROVE  Adding(u)' = Adding(u)
BY OthersStay DEF IInv, Control, Adding, Current

\* What a thread is about to add when an operation of its call is over.
LEMMA AddingAfter ==
  ASSUME IInv, NEW t \in Threads, pc[t] # "idle", NEW r, NEW found, Complete(t, r, found)
  PROVE  /\ Adding(t)' = IF doing[t] = "exists" /\ ~found THEN Current(t).key ELSE Map!NoKey
         /\ Sets(t, r)
<1>. DEFINE next == Following(Current(t).op, doing[t], found)
<1>0. TypeOK
  BY DEF IInv, Control
<1>1. \/ next = "return" /\ pc'[t] = "idle"
      \/ /\ next # "return" /\ pc'[t] = "tableLock" /\ doing'[t] = next
         /\ todo' = todo
  BY <1>0 DEF Complete, TypeOK
<1>2. /\ next = "insert" <=> doing[t] = "exists" /\ ~found
      /\ doing[t] = "exists" /\ found => next = "return"
  BY DEF Following
<1>. HIDE DEF next
<1>. QED  BY <1>1, <1>2 DEF Adding, Map!NoKey, Current, Complete, Sets

\* Steps in which a thread only moves on.
LEMMA AddingQuiet ==
  ASSUME IInv, NEW t \in Threads,
         \/ Begin(t) \/ BoundCheckPasses(t) \/ LockTable(t) \/ CheckEmpty(t) \/ CheckLoad(t)
         \/ Resize(t) \/ ScanBegin(t) \/ ScanBucket(t) \/ LockBucket(t) \/ RemoveCount(t)
  PROVE  Adding(t)' = Adding(t) /\ UNCHANGED result
<1>0. TypeOK /\ CallShape
  BY DEF IInv, Control
<1>1. CASE Begin(t)
  <2>1. pc[t] = "idle" /\ doing'[t] = FirstOf(Current(t).op)
    BY <1>0, <1>1 DEF Begin, Goto, TypeOK
  <2>2. FirstOf(Current(t).op) # "insert"
    BY DEF FirstOf
  <2>3. pc'[t] # "insertCount"
    BY <1>0, <1>1 DEF Begin, Goto, TypeOK
  <2>. QED  BY <1>1, <2>1, <2>2, <2>3 DEF Begin, Adding
<1>2. CASE \/ BoundCheckPasses(t) \/ LockTable(t) \/ CheckEmpty(t) \/ CheckLoad(t)
           \/ ScanBegin(t) \/ ScanBucket(t) \/ LockBucket(t) \/ RemoveCount(t)
  <2>1. UNCHANGED <<doing, todo, result>>
    BY <1>2 DEF BoundCheckPasses, LockTable, CheckEmpty, CheckLoad, KeepSize, WantResize,
                ScanBegin, ScanBucket, LockBucket, RemoveCount
  <2>2. pc[t] \notin {"idle", "insertCount"} /\ pc'[t] \notin {"idle", "insertCount"}
    BY <1>0, <1>2 DEF BoundCheckPasses, LockTable, CheckEmpty, CheckLoad, KeepSize, WantResize,
                      ScanBegin, ScanBucket, LockBucket, RemoveCount, Goto, TypeOK
  <2>. QED  BY <2>1, <2>2 DEF Adding, Current
<1>3. CASE Resize(t)
  <2>1. UNCHANGED <<doing, todo, result>>
    BY <1>3 DEF Resize, ResizeNotNeeded, ResizeBegin, Collect, Rebuild, Refill, ResizeEnd
  <2>2. pc[t] \notin {"idle", "insertCount"} /\ pc'[t] \notin {"idle", "insertCount"}
    BY <1>0, <1>3 DEF Resize, ResizeNotNeeded, ResizeBegin, Collect, Rebuild, Refill, ResizeEnd,
                      Goto, TypeOK
  <2>. QED  BY <2>1, <2>2 DEF Adding, Current
<1>. QED  BY <1>1, <1>2, <1>3

\* Each step is an operation of the map, or none, except reading a bucket that is
\* not there.
LEMMA MapStep ==
  ASSUME IInv, IInv', Gathered, NEW t \in Threads, Step(t), ~StrayBucket(t)
  PROVE  Map!Next \/ UNCHANGED Map!vars
<1>. DEFINE k == Current(t).key
            Old == ~InsertPush(t) /\ ~RemoveErase(t)
<1>0. /\ TypeOK /\ CallShape
      /\ \A u \in Threads \ {t} : Adding(u)' = Adding(u)
  BY OthersAdding DEF IInv, Control
<1>1. Old => SameChains
  BY ChainsKept DEF SameChains
<1>2. Adding(t)' = Adding(t) => SameAdding
  BY <1>0 DEF SameAdding
<1>3. pc[t] \in InBucket /\ doing[t] # "bucket" =>
        /\ k \in Keys /\ Current(t).val \in Values
        /\ Found(t) <=> ChainOf(k) # << >>
        /\ Found(t) => Value(t) = Head(ChainOf(k))
  BY ChainHere
<1>4. pc[t] # "idle" /\ pc[t] # "insertCount" /\ doing[t] # "insert" => Adding(t) = Map!NoKey
  BY DEF Adding, Map!NoKey
<1>5. CASE \/ Begin(t) \/ BoundCheckPasses(t) \/ LockTable(t) \/ CheckEmpty(t) \/ CheckLoad(t)
           \/ Resize(t) \/ ScanBegin(t) \/ ScanBucket(t) \/ LockBucket(t) \/ RemoveCount(t)
  <2>1. Adding(t)' = Adding(t) /\ UNCHANGED result
    BY <1>5, AddingQuiet
  <2>2. Old
    <3>1. pc'[t] # "insertCount"
      BY <1>0, <1>5
         DEF Begin, BoundCheckPasses, LockTable, CheckEmpty, CheckLoad, KeepSize, WantResize,
             Resize, ResizeNotNeeded, ResizeBegin, Collect, Rebuild, Refill, ResizeEnd,
             ScanBegin, ScanBucket, LockBucket, RemoveCount, Goto, TypeOK
    <3>2. pc[t] # "removeErase"
      BY <1>5
         DEF Begin, BoundCheckPasses, LockTable, CheckEmpty, CheckLoad, KeepSize, WantResize,
             Resize, ResizeNotNeeded, ResizeBegin, Collect, Rebuild, Refill, ResizeEnd,
             ScanBegin, ScanBucket, LockBucket, RemoveCount, Goto
    <3>. QED  BY <1>0, <3>1, <3>2 DEF InsertPush, RemoveErase, Goto, TypeOK
  <2>. QED  BY <1>1, <1>2, <2>1, <2>2, MapStutter
<1>6. CASE BoundCheckFails(t) \/ ScanEnd(t) \/ CopyBucket(t)
  <2>1. /\ pc[t] \in {"boundCheck", "scan", "access"} /\ doing[t] \in {"bucket", "scan"}
        /\ Complete(t, Missing, FALSE) \/ Complete(t, Copied, TRUE)
    BY <1>0, <1>6 DEF BoundCheckFails, ScanEnd, CopyBucket, CallShape
  <2>2. Adding(t)' = Map!NoKey /\ (Sets(t, Missing) \/ Sets(t, Copied))
    BY <2>1, AddingAfter
  <2>3. Old
    BY <2>1 DEF InsertPush, RemoveErase
  <2>4. Map!ReadBucket(t)
    BY <1>1, <1>2, <1>4, <2>1, <2>2, <2>3, MapReadBucket
  <2>. QED  BY <2>4 DEF Map!Next
<1>7. CASE Lookup(t) \/ RemoveMiss(t)
  <2>1. /\ pc[t] = "access" /\ doing[t] \in {"get", "subscript", "remove"}
        /\ \/ Found(t) /\ doing[t] # "remove" /\ Complete(t, Value(t), TRUE)
           \/ ~Found(t) /\ doing[t] # "subscript" /\ Complete(t, Missing, FALSE)
           \/ ~Found(t) /\ doing[t] = "subscript" /\ Complete(t, Garbage, FALSE)
    BY <1>7 DEF Lookup, RemoveMiss
  <2>2. /\ Adding(t)' = Map!NoKey
        /\ \/ Found(t) /\ Sets(t, Value(t))
           \/ ~Found(t) /\ (Sets(t, Missing) \/ Sets(t, Garbage))
    BY <2>1, AddingAfter
  <2>3. Old
    BY <2>1 DEF InsertPush, RemoveErase
  <2>4. Map!Get(t, k) \/ Map!Subscript(t, k)
    BY <1>1, <1>2, <1>3, <1>4, <2>1, <2>2, <2>3, MapReads DEF InBucket
  <2>. QED  BY <1>3, <2>1, <2>4 DEF Map!Next, InBucket
<1>8. CASE LookupFirst(t)
  <2>1. /\ pc[t] = "access" /\ doing[t] = "exists"
        /\ Complete(t, IF Found(t) THEN Refused ELSE Missing, Found(t))
    BY <1>8 DEF LookupFirst
  <2>2. /\ Adding(t)' = IF ~Found(t) THEN k ELSE Map!NoKey
        /\ Sets(t, IF Found(t) THEN Refused ELSE Missing)
    BY <2>1, AddingAfter
  <2>3. Old
    BY <2>1 DEF InsertPush, RemoveErase
  <2>4. CASE Found(t)
    <3>1. Map!Refuse(t, k)
      BY <1>1, <1>2, <1>3, <1>4, <2>1, <2>2, <2>3, <2>4, MapReads DEF InBucket
    <3>. QED  BY <1>3, <2>1, <3>1 DEF Map!Next, InBucket
  <2>5. CASE ~Found(t)
    <3>1. Map!FindAbsent(t, k)
      BY <1>0, <1>1, <1>3, <1>4, <2>1, <2>2, <2>3, <2>5, MapFindAbsent DEF InBucket
    <3>. QED  BY <1>3, <2>1, <3>1 DEF Map!Next, InBucket
  <2>. QED  BY <2>4, <2>5
<1>9. CASE InsertPush(t)
  <2>1. /\ pc[t] = "access" /\ doing[t] = "insert" /\ pc'[t] = "insertCount"
        /\ UNCHANGED result
    BY <1>0, <1>9 DEF InsertPush, Goto, TypeOK
  <2>2. Adding(t) = k /\ Adding(t)' = Map!Added
    BY <2>1 DEF Adding, Map!Added
  <2>3. k \in Keys /\ Current(t).val \in Values
    BY <1>3, <2>1 DEF InBucket
  <2>4. \A h \in Keys : ChainOf(h)' = IF h = k THEN Append(ChainOf(h), Current(t).val)
                                               ELSE ChainOf(h)
    BY <1>9, ChainPush
  <2>5. Map!Add(t, k, Current(t).val)
    BY <1>0, <2>1, <2>2, <2>3, <2>4, MapAdd
  <2>. QED  BY <2>3, <2>5 DEF Map!Next
<1>10. CASE InsertCount(t)
  <2>1. pc[t] = "insertCount" /\ doing[t] = "insert" /\ Complete(t, Inserted, TRUE)
    BY <1>0, <1>10 DEF InsertCount, CallShape
  <2>2. Adding(t)' = Map!NoKey /\ Sets(t, Inserted) /\ Adding(t) = Map!Added
    BY <2>1, AddingAfter DEF Adding, Map!Added
  <2>3. Old
    BY <2>1 DEF InsertPush, RemoveErase, Goto
  <2>4. Map!Confirm(t)
    BY <1>0, <1>1, <2>2, <2>3, MapConfirm
  <2>. QED  BY <2>4 DEF Map!Next
<1>11. CASE RemoveErase(t)
  <2>1. /\ pc[t] = "removeErase" /\ doing[t] = "remove" /\ Found(t)
        /\ Complete(t, Value(t), TRUE)
    BY <1>0, <1>11 DEF RemoveErase, CallShape, IInv, ErasesWhatItFound
  <2>2. Adding(t)' = Map!NoKey /\ Sets(t, Value(t))
    BY <2>1, AddingAfter
  <2>3. \A h \in Keys : ChainOf(h)' = IF h = k THEN Tail(ChainOf(h)) ELSE ChainOf(h)
    BY <1>11, ChainErase
  <2>4. Map!Remove(t, k)
    BY <1>2, <1>3, <1>4, <2>1, <2>2, <2>3, MapRemove DEF InBucket
  <2>. QED  BY <1>3, <2>1, <2>4 DEF Map!Next, InBucket
<1>. QED  BY <1>5, <1>6, <1>7, <1>8, <1>9, <1>10, <1>11 DEF Step, Access, Scan

LEMMA ElementInSeq ==
  ASSUME NEW S, NEW s \in Seq(S), NEW j \in 1 .. Len(s)
  PROVE  s[j] \in S
OBVIOUS

\* A list in which a key is at most once.
LEMMA OneValue ==
  ASSUME NEW l \in Seq(Entry), NEW k, \A i, j \in Positions(l, k) : i = j
  PROVE  ValuesIn(l, k) = << >> \/ \E v \in Values : ValuesIn(l, k) = <<v>>
<1>. DEFINE P == Positions(l, k)
            w == ValuesIn(l, k)
<1>1. /\ w \in Seq(Values) /\ Len(w) = Cardinality(P) /\ IsFiniteSet(P)
      /\ w = << >> <=> P = {}
  BY PositionsType, ValuesType
<1>2. ASSUME P # {} PROVE Cardinality(P) = 1
  <2>1. PICK j : j \in P
    BY <1>2
  <2>2. P = {j}
    BY <2>1
  <2>. QED  BY <2>2, FS_Singleton
<1>. HIDE DEF P, w
<1>3. ASSUME P # {} PROVE w = <<w[1]>> /\ w[1] \in Values
  <2>1. Len(w) = 1
    BY <1>1, <1>2, <1>3
  <2>2. w[1] \in Values
    <3>1. w \in Seq(Values) /\ 1 \in 1 .. Len(w)
      BY <1>1, <2>1
    <3>. QED  BY <3>1, ElementInSeq
  <2>3. <<w[1]>> \in Seq(Values) /\ Len(<<w[1]>>) = 1 /\ <<w[1]>>[1] = w[1]
    BY <2>2
  <2>4. \A i \in 1 .. Len(w) : w[i] = <<w[1]>>[i]
    BY <2>1, <2>3
  <2>5. w = <<w[1]>>
    BY <1>1, <2>1, <2>3, <2>4, SeqEqual
  <2>. QED  BY <2>2, <2>5
<1>. QED  BY <1>1, <1>3 DEF P, w

\* At the start each key is in the table at most once.
LEMMA MapInit == Init => Map!Init
<1>. SUFFICES ASSUME Init PROVE Map!Init
  OBVIOUS
<1>1. ASSUME NEW k \in Keys
      PROVE  ChainOf(k) = << >> \/ \E v \in Values : ChainOf(k) = <<v>>
  <2>. DEFINE l == storage[Hash(k)].l
  <2>1. Hash(k) \in InitBuckets
    <3>1. InitCapacity \in Nat \ {0} /\ HashOf[k] \in Nat /\ capacity = InitCapacity
      BY TableAssumption DEF Init
    <3>2. HashOf[k] % InitCapacity \in 0 .. InitCapacity - 1
      BY <3>1
    <3>. QED  BY <3>1, <3>2 DEF Hash, InitBuckets
  <2>2. l = InitChains[Hash(k)] /\ l \in Seq(Entry) /\ pending = << >>
    BY <2>1, TableAssumption DEF Init, NewNode
  <2>3. \A i, j \in Positions(l, k) : i = j
    BY <2>1, <2>2, TableAssumption DEF Positions
  <2>. HIDE DEF l
  <2>4. ChainOf(k) = ValuesIn(l, k)
    <3>1. l \o << >> = l
      BY <2>2
    <3>. QED  BY <2>2, <3>1 DEF ChainOf, l
  <2>. QED  BY <2>2, <2>3, <2>4, OneValue
<1>2. [k \in Keys |-> ChainOf(k)] \in [Keys -> {<< >>} \cup {<<v>> : v \in Values}]
  BY <1>1
<1>3. \A t \in Threads : Adding(t) = Map!NoKey
  BY DEF Init, Adding, Map!NoKey
<1>. QED  BY <1>2, <1>3 DEF Init, Map!Init, Missing, Map!Missing

LEMMA MapUnchanged == UNCHANGED vars => UNCHANGED Map!vars
BY DEF vars, Map!vars, ChainOf, Adding, Current, Hash

\* As long as getBucket() is only asked for buckets that exist, the table is the
\* map of ConcurrentMap, for all threads, keys, programs and hash functions.
THEOREM ImplementsMap == Spec /\ []BucketInRange => RefinesMap
<1>1. IInv /\ IInv' /\ Gathered /\ BucketInRange /\ [Next]_vars => [Map!Next]_Map!vars
  <2>1. ASSUME BucketInRange, NEW t \in Threads PROVE ~StrayBucket(t)
    BY <2>1 DEF BucketInRange, StrayBucket
  <2>. QED  BY <2>1, MapStep, MapUnchanged DEF Next
<1>. QED  BY <1>1, MapInit, AlwaysGathered, PTL DEF Spec, RefinesMap, Map!Spec

\* A table that is not resizable keeps its buckets, so it always is that map.
THEOREM FixedTableImplementsMap ==
  ASSUME ~Resizable
  PROVE  Spec => RefinesMap
BY ImplementsMap, FixedTableInRange, PTL

(***************************************************************************)
(* How long the server's check of an index lasts.                          *)
(***************************************************************************)
\* An index that passed the check against capacity() is still below it when
\* getBucket() has the lock of the table, if the table has not shrunk since.
Checked ==
  \A t \in Threads :
    pc[t] \in {"tableLock", "bucketLock"} /\ doing[t] = "bucket" => idx[t] < capacity

LEMMA CheckedStep ==
  ASSUME IInv, Checked, Next, capacity' >= capacity
  PROVE  Checked'
<1>. PICK t \in Threads : Step(t)
  BY DEF Next
<1>0. /\ TypeOK /\ CallShape /\ InBucketExists /\ ErasesWhatItFound
      /\ pc \in [Threads -> Labels] /\ idx \in [Threads -> Nat]
      /\ doing \in [Threads -> Operations] /\ capacity \in Nat
  BY DEF IInv, Control, TypeOK
<1>1. capacity' \in Nat /\ \A n \in Nat : n < capacity => n < capacity'
  <2>1. capacity' \in Nat
    BY Inductive DEF IInv, Control, TypeOK
  <2>. QED  BY <1>0, <2>1
<1>. DEFINE Good(u) == pc[u] \in {"tableLock", "bucketLock"} /\ doing[u] = "bucket" => idx[u] < capacity
<1>2. ASSUME NEW u \in Threads \ {t} PROVE Good(u)'
  BY <1>0, <1>1, OthersStay DEF Checked
<1>3. Good(t)'
  <2>0. Good(t)
    BY DEF Checked
  <2>1. CASE \/ BoundCheckFails(t) \/ ScanEnd(t) \/ Lookup(t) \/ LookupFirst(t)
             \/ CopyBucket(t) \/ InsertCount(t) \/ RemoveMiss(t) \/ RemoveErase(t)
             \/ StrayBucket(t) /\ Complete(t, Garbage, FALSE)
    <3>1. PICK r \in Values \cup Outcomes, found \in BOOLEAN :
            /\ Complete(t, r, found)
            /\ pc[t] \in {"boundCheck", "scan", "bucketLock"} \cup InBucket
      BY <1>0, <2>1, Ends
    <3>2. /\ pc'[t] \in {"idle", "tableLock"}
          /\ pc'[t] = "tableLock" => doing'[t] # "bucket"
      BY <1>0, <3>1, CompleteStep DEF InBucket
    <3>. QED  BY <3>2
  <2>2. CASE Begin(t)
    <3>1. Current(t) \in Call
      BY <1>0, <2>2 DEF Begin, Current, TypeOK
    <3>2. Current(t).op # "bucket" => FirstOf(Current(t).op) # "bucket"
      BY <3>1, CallType DEF FirstOf
    <3>. QED  BY <1>0, <2>2, <3>2 DEF Begin, Goto
  <2>3. CASE BoundCheckPasses(t)
    <3>1. /\ idx' = [idx EXCEPT ![t] = Current(t).idx] /\ Current(t).idx < capacity
          /\ UNCHANGED capacity
      BY <2>3 DEF BoundCheckPasses, tableVars
    <3>. QED  BY <1>0, <3>1
  <2>4. CASE LockTable(t)
    BY <1>0, <2>0, <2>4 DEF LockTable, BucketOf, Goto, tableVars
  <2>5. CASE CheckEmpty(t) \/ CheckLoad(t) \/ Resize(t)
    <3>1. pc[t] \in {"checkEmpty", "checkLoad", "resizeLock", "resizeCollect", "resizeFill"}
          /\ UNCHANGED doing
      BY <2>5 DEF CheckEmpty, CheckLoad, KeepSize, WantResize, Goto, Resize,
           ResizeNotNeeded, ResizeBegin, Collect, Rebuild, Refill, ResizeEnd
    <3>2. doing[t] # "bucket"
      BY <3>1 DEF IInv, Control, CallShape
    <3>. QED  BY <3>1, <3>2
  <2>6. CASE \/ ScanBegin(t) \/ LockBucket(t) \/ Goto(t, "bucketLock", "stuck")
             \/ InsertPush(t) \/ RemoveCount(t)
    BY <1>0, <2>6 DEF ScanBegin, LockBucket, InsertPush, RemoveCount, Goto
  <2>7. CASE ScanBucket(t)
    BY <2>0, <2>7 DEF ScanBucket
  <2>. QED  BY <2>1, <2>2, <2>3, <2>4, <2>5, <2>6, <2>7 DEF Step, Access, Scan, StrayBucket
<1>. HIDE DEF Good
<1>4. \A u \in Threads : Good(u)'
  BY <1>2, <1>3
<1>. QED  BY <1>4 DEF Checked, Good

\* A table that never shrinks, resizable or not, is only asked for buckets that
\* exist: it takes a shrink between the server's check and the lock.
THEOREM GrowingTableInRange == Spec /\ [][capacity' >= capacity]_capacity => []BucketInRange
<1>1. Init => Checked
  BY DEF Init, Checked
<1>2. IInv /\ Checked /\ [Next]_vars /\ [capacity' >= capacity]_capacity => Checked'
  <2>1. Checked /\ UNCHANGED vars => Checked'
    BY DEF Checked, vars
  <2>2. IInv /\ UNCHANGED capacity => capacity' >= capacity
    BY DEF IInv, Control, TypeOK
  <2>. QED  BY <2>1, <2>2, CheckedStep
<1>3. IInv /\ Checked => BucketInRange
  <2>. SUFFICES ASSUME IInv, Checked, NEW t \in Threads, pc[t] = "bucketLock"
                PROVE  idx[t] \in DOMAIN storage
    BY DEF BucketInRange
  <2>1. CASE doing[t] = "bucket"
    BY <2>1, StorageType DEF Checked, IInv, Control, TypeOK
  <2>2. CASE doing[t] # "bucket"
    BY <2>2 DEF IInv, BucketNotStale
  <2>. QED  BY <2>1, <2>2
<1>. QED  BY <1>1, <1>2, <1>3, AlwaysIInv, PTL DEF Spec

\* And so it is the map of ConcurrentMap, through all its growing.
THEOREM GrowingTableImplementsMap ==
  Spec /\ [][capacity' >= capacity]_capacity => RefinesMap
BY ImplementsMap, GrowingTableInRange, PTL

-----------------------------------------------------------------------------
(***************************************************************************)
(* How often a key can be in the table.                                    *)
(***************************************************************************)
\* The threads that are about to add k, and the entries of k that makes.
Adders(k) == {t \in Threads : Adding(t) = k}
Weight(k) == Len(ChainOf(k)) + Cardinality(Adders(k))

\* Only the lookup of insert() makes a thread add a key, and only an absent one.
LEMMA AddingGrows ==
  ASSUME IInv, Gathered, NEW t \in Threads, Step(t), ~InsertPush(t),
         NEW k \in Keys, Adding(t)' = k
  PROVE  Adding(t) = k \/ (ChainOf(k) = << >> /\ LookupFirst(t))
<1>0. /\ TypeOK /\ CallShape /\ InBucketExists /\ ErasesWhatItFound
      /\ k # Map!NoKey
  BY KeysAssumption DEF IInv, Control, Map!NoKey
<1>1. CASE \/ Begin(t) \/ BoundCheckPasses(t) \/ LockTable(t) \/ CheckEmpty(t) \/ CheckLoad(t)
           \/ Resize(t) \/ ScanBegin(t) \/ ScanBucket(t) \/ LockBucket(t) \/ RemoveCount(t)
  BY <1>1, AddingQuiet
<1>2. CASE LookupFirst(t)
  <2>1. /\ pc[t] = "access" /\ doing[t] = "exists"
        /\ Complete(t, IF Found(t) THEN Refused ELSE Missing, Found(t))
    BY <1>2 DEF LookupFirst
  <2>2. Adding(t)' = IF ~Found(t) THEN Current(t).key ELSE Map!NoKey
    BY <2>1, AddingAfter
  <2>3. ~Found(t) /\ Current(t).key = k
    BY <1>0, <2>2
  <2>4. ChainOf(k) = << >>
    BY <2>1, <2>3, ChainHere DEF InBucket
  <2>. QED  BY <1>2, <2>4
<1>3. CASE StrayBucket(t) /\ ~Complete(t, Garbage, FALSE)
  <2>1. Adding(t)' = Adding(t)
    BY <1>0, <1>3 DEF StrayBucket, Goto, Adding, Current, TypeOK
  <2>. QED  BY <2>1
<1>4. CASE \/ BoundCheckFails(t) \/ ScanEnd(t) \/ Lookup(t) \/ CopyBucket(t)
           \/ InsertCount(t) \/ RemoveMiss(t) \/ RemoveErase(t)
           \/ StrayBucket(t) /\ Complete(t, Garbage, FALSE)
  <2>1. PICK r \in Values \cup Outcomes, found \in BOOLEAN :
          /\ Complete(t, r, found)
          /\ pc[t] \in {"boundCheck", "scan", "bucketLock"} \cup InBucket
    BY <1>0, <1>4, Ends
  <2>2. doing[t] # "exists"
    <3>1. /\ pc[t] # "idle"
          /\ pc[t] = "boundCheck" => doing[t] = "bucket"
          /\ pc[t] = "scan" => doing[t] = "scan"
          /\ pc[t] = "insertCount" => doing[t] = "insert"
          /\ pc[t] = "removeErase" => doing[t] = "remove"
          /\ pc[t] = "bucketLock" /\ idx[t] \notin DOMAIN storage => doing[t] = "bucket"
      BY <1>0, <2>1 DEF CallShape, IInv, BucketNotStale, InBucket
    <3>. QED  BY <1>4, <3>1 DEF BoundCheckFails, ScanEnd, Lookup, CopyBucket,
                                InsertCount, RemoveMiss, RemoveErase, StrayBucket
  <2>3. Adding(t)' = Map!NoKey
    BY <2>1, <2>2, AddingAfter DEF InBucket
  <2>. QED  BY <1>0, <2>3
<1>. QED  BY <1>1, <1>2, <1>3, <1>4 DEF Step, Access, Scan

ChainsTyped == \A k \in Keys : ChainOf(k) \in Seq(Values) /\ Len(ChainOf(k)) \in Nat

LEMMA ChainType == TypeOK => ChainsTyped
<1>. SUFFICES ASSUME TypeOK, NEW k \in Keys
              PROVE  ChainOf(k) \in Seq(Values) /\ Len(ChainOf(k)) \in Nat
  BY DEF ChainsTyped
<1>1. storage[Hash(k)].l \in Seq(Entry) /\ pending \in Seq(Entry)
  BY HashIn DEF TypeOK
<1>2. storage[Hash(k)].l \o pending \in Seq(Entry)
  BY <1>1
<1>3. ChainOf(k) \in Seq(Values)
  BY <1>2, ValuesType DEF ChainOf
<1>. QED  BY <1>3

LEMMA AddersFinite ==
  ASSUME NEW k
  PROVE  /\ IsFiniteSet(Adders(k)) /\ Cardinality(Adders(k)) \in Nat
         /\ IsFiniteSet(Adders(k)') /\ Cardinality(Adders(k)') \in Nat
<1>1. Adders(k) \subseteq Threads /\ Adders(k)' \subseteq Threads
  BY DEF Adders
<1>. QED  BY <1>1, TableAssumption, FS_Subset, FS_CardinalityType

\* A key gains weight only when insert() looks it up and it is absent; a remove()
\* that finds it takes one away.
LEMMA WeightMoves ==
  ASSUME IInv, IInv', Gathered, NEW t \in Threads, Step(t), NEW k \in Keys
  PROVE  /\ Len(ChainOf(k)) \in Nat /\ Weight(k) \in Nat
         /\ Len(ChainOf(k)') \in Nat /\ Weight(k)' \in Nat
         /\ \/ ChainOf(k) = << >> /\ ChainOf(k)' = << >> /\ t \in Adders(k)'
            \/ /\ Weight(k)' <= Weight(k)
               /\ RemoveErase(t) /\ Current(t).key = k => Weight(k)' <= Weight(k) - 1
<1>. DEFINE h == Current(t).key
<1>0. /\ TypeOK /\ TypeOK' /\ CallShape
      /\ \A u \in Threads \ {t} : Adding(u)' = Adding(u)
  BY OthersAdding DEF IInv, Control
<1>1. /\ ChainOf(k) \in Seq(Values) /\ Len(ChainOf(k)) \in Nat /\ Len(ChainOf(k)') \in Nat
      /\ Cardinality(Adders(k)) \in Nat /\ Cardinality(Adders(k)') \in Nat
      /\ Weight(k) \in Nat /\ Weight(k)' \in Nat
  <2>1. TypeOK' => ChainsTyped'
    BY ChainType, PTL
  <2>2. ChainOf(k) \in Seq(Values) /\ Len(ChainOf(k)) \in Nat /\ Len(ChainOf(k)') \in Nat
    BY <1>0, <2>1, ChainType DEF ChainsTyped
  <2>. QED  BY <2>2, AddersFinite DEF Weight
<1>2. Adders(k)' \subseteq Adders(k) => Cardinality(Adders(k)') <= Cardinality(Adders(k))
  BY AddersFinite, FS_Subset
<1>3. CASE RemoveErase(t)
  <2>1. ChainOf(k)' = IF k = h THEN Tail(ChainOf(k)) ELSE ChainOf(k)
    BY <1>3, ChainErase
  <2>2. /\ pc[t] = "removeErase" /\ doing[t] = "remove" /\ Found(t)
        /\ Complete(t, Value(t), TRUE)
    BY <1>0, <1>3 DEF RemoveErase, CallShape, IInv, ErasesWhatItFound
  <2>3. Adding(t)' = Map!NoKey
    BY <2>2, AddingAfter
  <2>4. Adders(k)' \subseteq Adders(k)
    BY <1>0, <2>3, KeysAssumption DEF Adders, Map!NoKey
  <2>5. CASE k = h
    <3>1. ChainOf(k) # << >>
      BY <2>2, <2>5, ChainHere DEF InBucket
    <3>2. Len(ChainOf(k)') = Len(ChainOf(k)) - 1
      BY <1>1, <2>1, <2>5, <3>1
    <3>. QED  BY <1>1, <1>2, <2>4, <3>2 DEF Weight
  <2>6. CASE k # h
    BY <1>1, <1>2, <2>1, <2>4, <2>6 DEF Weight
  <2>. QED  BY <2>5, <2>6
<1>4. CASE InsertPush(t)
  <2>1. /\ pc[t] = "access" /\ doing[t] = "insert" /\ pc'[t] = "insertCount"
    BY <1>0, <1>4 DEF InsertPush, Goto, TypeOK
  <2>2. Adding(t) = h /\ Adding(t)' = Map!Added
    BY <2>1 DEF Adding, Map!Added
  <2>3. ChainOf(k)' = IF k = h THEN Append(ChainOf(k), Current(t).val) ELSE ChainOf(k)
    BY <1>4, ChainPush
  <2>4. ~RemoveErase(t)
    BY <2>1 DEF RemoveErase
  <2>5. CASE k = h
    <3>1. t \in Adders(k) /\ Adders(k)' = Adders(k) \ {t}
      BY <1>0, <2>2, <2>5, KeysAssumption DEF Adders, Map!Added
    <3>2. Cardinality(Adders(k)') = Cardinality(Adders(k)) - 1
      BY <3>1, AddersFinite, FS_RemoveElement
    <3>3. Current(t).val \in Values
      BY <2>1, ChainHere DEF InBucket
    <3>4. Len(ChainOf(k)') = Len(ChainOf(k)) + 1
      BY <1>1, <2>3, <2>5, <3>3
    <3>. QED  BY <1>1, <2>4, <3>2, <3>4 DEF Weight
  <2>6. CASE k # h
    <3>1. Adders(k)' = Adders(k)
      BY <1>0, <2>2, <2>6, KeysAssumption DEF Adders, Map!Added
    <3>. QED  BY <1>1, <2>3, <2>4, <2>6, <3>1 DEF Weight
  <2>. QED  BY <2>5, <2>6
<1>5. CASE ~RemoveErase(t) /\ ~InsertPush(t)
  <2>1. ChainOf(k)' = ChainOf(k)
    BY <1>5, ChainsKept
  <2>2. CASE Adding(t)' = k => Adding(t) = k
    <3>1. Adders(k)' \subseteq Adders(k)
      BY <1>0, <2>2 DEF Adders
    <3>. QED  BY <1>1, <1>2, <1>5, <2>1, <3>1 DEF Weight
  <2>3. CASE Adding(t)' = k /\ Adding(t) # k
    <3>1. ChainOf(k) = << >>
      BY <1>5, <2>3, AddingGrows
    <3>2. t \in Adders(k)'
      BY <2>3 DEF Adders
    <3>. QED  BY <1>1, <2>1, <3>1, <3>2
  <2>. QED  BY <2>2, <2>3
<1>. QED  BY <1>3, <1>4, <1>5

\* At the start nobody adds anything, and each key is present at most once.
LEMMA InitWeight ==
  ASSUME Init, NEW k \in Keys
  PROVE  /\ Adders(k) = {} /\ Weight(k) = Len(ChainOf(k)) /\ Weight(k) \in {0, 1}
         /\ (\A i \in InitBuckets : InitChains[i] = << >>) => Weight(k) = 0
<1>1. Adders(k) = {}
  BY KeysAssumption DEF Init, Adders, Adding
<1>2. TypeOK /\ Hash(k) \in DOMAIN storage
  BY InitIInv, HashIn DEF IInv, Control
<1>3. Len(ChainOf(k)) \in Nat /\ Weight(k) = Len(ChainOf(k))
  BY <1>1, <1>2, ChainType, FS_EmptySet DEF ChainsTyped, Weight
<1>4. Len(ChainOf(k)) \in {0, 1}
  <2>1. ChainOf(k) = << >> \/ \E v \in Values : ChainOf(k) = <<v>>
    BY MapInit DEF Map!Init
  <2>2. Len(<< >>) = 0 /\ \A v : Len(<<v>>) = 1
    OBVIOUS
  <2>. QED  BY <2>1, <2>2
<1>5. ASSUME \A i \in InitBuckets : InitChains[i] = << >> PROVE ChainOf(k) = << >>
  <2>1. storage[Hash(k)].l = << >> /\ pending = << >>
    BY <1>2, <1>5 DEF Init, NewNode
  <2>2. << >> \in Seq(Entry) /\ << >> \o << >> = << >> /\ DOMAIN << >> = {}
    OBVIOUS
  <2>3. Positions(<< >>, k) = {}
    BY <2>2 DEF Positions
  <2>4. ValuesIn(<< >>, k) = << >>
    BY <2>2, <2>3, ValuesType
  <2>. QED  BY <2>1, <2>2, <2>4 DEF ChainOf
<1>. QED  BY <1>1, <1>3, <1>4, <1>5

\* Two threads may insert the same key at once, but a table never holds a key
\* more often than there are threads, counting those that are about to add it;
\* however it is resized, and whatever bucket it is asked for.
THEOREM TableDuplicatesBounded == Spec => []Map!BoundedDuplicates
<1>. DEFINE Bound == \A k \in Keys : Weight(k) <= Cardinality(Threads)
<1>0. Cardinality(Threads) \in Nat /\ Cardinality(Threads) >= 1
  BY TableAssumption, FS_CardinalityType, FS_EmptySet
<1>1. Init => Bound
  BY <1>0, InitWeight
<1>2. IInv /\ IInv' /\ Gathered /\ Bound /\ [Next]_vars => Bound'
  <2>1. Bound /\ UNCHANGED vars => Bound'
    BY DEF Weight, Adders, Adding, Current, ChainOf, Hash, vars
  <2>2. ASSUME IInv, IInv', Gathered, Bound, NEW t \in Threads, Step(t), NEW k \in Keys
        PROVE  Weight(k)' <= Cardinality(Threads)
    <3>1. CASE Weight(k)' <= Weight(k)
      BY <1>0, <2>2, <3>1, WeightMoves
    <3>2. CASE ChainOf(k)' = << >>
      <4>1. Adders(k)' \subseteq Threads
        BY DEF Adders
      <4>2. Cardinality(Adders(k)') <= Cardinality(Threads)
        BY <4>1, TableAssumption, FS_Subset
      <4>. QED  BY <1>0, <3>2, <4>2, AddersFinite DEF Weight
    <3>. QED  BY <2>2, <3>1, <3>2, WeightMoves
  <2>. QED  BY <2>1, <2>2 DEF Next
<1>3. Bound => Map!BoundedDuplicates
  <2>1. ASSUME NEW S PROVE Map!Cardinality(S) = Cardinality(S)
    BY DEF Cardinality, Map!Cardinality
  <2>. QED  BY <2>1 DEF Map!BoundedDuplicates, Weight, Adders
<1>. QED  BY <1>1, <1>2, <1>3, AlwaysGathered, PTL DEF Spec

-----------------------------------------------------------------------------
(***************************************************************************)
(* What follows from the calls that the threads make.                      *)
(***************************************************************************)
\* The keys that calls p insert or assign, and those they remove; a program is
\* tidy when it removes every key after it has inserted or assigned it.
Adds(p, k) == \E j \in DOMAIN p : p[j].op \in {"insert", "assign"} /\ p[j].key = k
Removes(p, k) == \E j \in DOMAIN p : p[j].op = "remove" /\ p[j].key = k
CleansUp(p) ==
  \A i \in DOMAIN p : p[i].op \in {"insert", "assign"} =>
    \E j \in DOMAIN p : i < j /\ p[j].op = "remove" /\ p[j].key = p[i].key

\* What is left of the calls when one is done.
LEMMA TailOf ==
  ASSUME NEW p \in Seq(Call), p # << >>
  PROVE  /\ CleansUp(p) => CleansUp(Tail(p))
         /\ \A k : Adds(Tail(p), k) => Adds(p, k)
         /\ \A k : Removes(p, k) <=> \/ Removes(Tail(p), k)
                                     \/ Head(p).op = "remove" /\ Head(p).key = k
<1>. DEFINE q == Tail(p)
            n == Len(p)
<1>1. /\ n \in Nat \ {0} /\ DOMAIN p = 1 .. n /\ DOMAIN q = 1 .. n - 1
      /\ \A i \in 1 .. n - 1 : q[i] = p[i + 1]
      /\ Head(p) = p[1]
  OBVIOUS
<1>2. /\ \A i \in 1 .. n - 1 : i + 1 \in 1 .. n /\ i + 1 # 1
      /\ \A j \in 1 .. n : j = 1 \/ (j - 1 \in 1 .. n - 1 /\ (j - 1) + 1 = j)
      /\ 1 \in 1 .. n
  BY <1>1
<1>. HIDE DEF q, n
<1>3. ASSUME CleansUp(p) PROVE CleansUp(q)
  <2>. SUFFICES ASSUME NEW i \in 1 .. n - 1, q[i].op \in {"insert", "assign"}
                PROVE  \E j \in 1 .. n - 1 : i < j /\ q[j].op = "remove" /\ q[j].key = q[i].key
    BY <1>1 DEF CleansUp
  <2>1. PICK j \in 1 .. n : i + 1 < j /\ p[j].op = "remove" /\ p[j].key = p[i + 1].key
    BY <1>1, <1>2, <1>3 DEF CleansUp
  <2>2. j - 1 \in 1 .. n - 1 /\ i < j - 1 /\ (j - 1) + 1 = j
    BY <1>1, <2>1
  <2>. QED  BY <1>1, <2>1, <2>2
<1>4. ASSUME NEW k PROVE Removes(p, k) <=> \/ Removes(q, k)
                                           \/ Head(p).op = "remove" /\ Head(p).key = k
  <2>1. ASSUME NEW j \in 1 .. n, p[j].op = "remove", p[j].key = k
        PROVE  Removes(q, k) \/ (Head(p).op = "remove" /\ Head(p).key = k)
    <3>1. CASE j = 1
      BY <1>1, <2>1, <3>1
    <3>2. CASE j # 1
      <4>1. j - 1 \in 1 .. n - 1 /\ q[j - 1] = p[j]
        BY <1>1, <1>2, <3>2
      <4>. QED  BY <1>1, <2>1, <4>1 DEF Removes
    <3>. QED  BY <3>1, <3>2
  <2>2. Removes(q, k) => Removes(p, k)
    BY <1>1, <1>2 DEF Removes
  <2>3. Head(p).op = "remove" /\ Head(p).key = k => Removes(p, k)
    BY <1>1, <1>2 DEF Removes
  <2>. QED  BY <1>1, <2>1, <2>2, <2>3 DEF Removes
<1>5. ASSUME NEW k, Adds(q, k) PROVE Adds(p, k)
  BY <1>1, <1>2, <1>5 DEF Adds
<1>. QED  BY <1>3, <1>4, <1>5 DEF q

\* A thread is done with a call when the operation that ends it returns; with a
\* remove() when that found the key or did not.
LEMMA TodoMoves ==
  ASSUME IInv, NEW t \in Threads, Step(t)
  PROVE  \/ UNCHANGED todo
         \/ /\ todo[t] \in Seq(Call) /\ todo[t] # << >>
            /\ todo' = [todo EXCEPT ![t] = Tail(@)]
            /\ Current(t).op = "remove" => RemoveMiss(t) \/ RemoveErase(t)
<1>0. TypeOK /\ CallShape /\ InBucketExists /\ ErasesWhatItFound
  BY DEF IInv, Control
<1>. DEFINE Ending == \/ BoundCheckFails(t) \/ ScanEnd(t) \/ Lookup(t) \/ LookupFirst(t)
                      \/ CopyBucket(t) \/ InsertCount(t) \/ RemoveMiss(t) \/ RemoveErase(t)
                      \/ StrayBucket(t) /\ Complete(t, Garbage, FALSE)
<1>1. CASE ~Ending
  BY <1>1
     DEF Step, Resize, Access, Scan, Begin, BoundCheckPasses, LockTable,
         CheckEmpty, CheckLoad, KeepSize, WantResize, ScanBegin, ScanBucket,
         ResizeNotNeeded, ResizeBegin, Collect, Rebuild, Refill, ResizeEnd,
         LockBucket, StrayBucket, InsertPush, RemoveCount
<1>2. CASE Ending
  <2>1. PICK r \in Values \cup Outcomes, found \in BOOLEAN :
          /\ Complete(t, r, found)
          /\ pc[t] \in {"boundCheck", "scan", "bucketLock"} \cup InBucket
    BY <1>0, <1>2, Ends
  <2>2. UNCHANGED todo \/ todo' = [todo EXCEPT ![t] = Tail(@)]
    BY <2>1 DEF Complete
  <2>3. pc[t] # "idle" /\ todo[t] \in Seq(Call) /\ todo[t] # << >>
    BY <1>0, <2>1 DEF InBucket, TypeOK
  <2>4. ASSUME Current(t).op = "remove" PROVE RemoveMiss(t) \/ RemoveErase(t)
    <3>1. doing[t] = "remove"
      BY <1>0, <2>3, <2>4 DEF CallShape, OpsOf
    <3>2. /\ pc[t] = "boundCheck" => doing[t] = "bucket"
          /\ pc[t] = "scan" => doing[t] = "scan"
          /\ pc[t] = "insertCount" => doing[t] = "insert"
          /\ pc[t] = "bucketLock" /\ idx[t] \notin DOMAIN storage => doing[t] = "bucket"
      BY <1>0 DEF CallShape, IInv, BucketNotStale
    <3>. QED  BY <1>2, <3>1, <3>2 DEF BoundCheckFails, ScanEnd, Lookup, LookupFirst, CopyBucket,
                                      InsertCount, StrayBucket
  <2>. QED  BY <2>2, <2>3, <2>4
<1>. QED  BY <1>1, <1>2

\* The keys that thread t may insert or assign.
MayAdd(t, k) == \E p \in Programs[t] : Adds(p, k)
AddsItsOwn == \A t \in Threads : \A k \in Keys : Adds(todo[t], k) => MayAdd(t, k)

\* Who is about to add a key is in a call that adds it.
LEMMA AddersAdd ==
  ASSUME IInv, NEW k \in Keys, NEW t \in Adders(k)
  PROVE  /\ todo[t] \in Seq(Call) /\ todo[t] # << >> /\ 1 \in DOMAIN todo[t]
         /\ todo[t][1].op \in {"insert", "assign"} /\ todo[t][1].key = k
<1>1. t \in Threads /\ pc[t] # "idle" /\ doing[t] = "insert" /\ Current(t).key = k
  BY KeysAssumption DEF Adders, Adding
<1>2. todo[t] \in Seq(Call) /\ todo[t] # << >> /\ Current(t) \in Call
  BY <1>1, CurrentType DEF IInv, Control, TypeOK
<1>3. Current(t).op \in {"insert", "assign"}
  <2>1. doing[t] \in OpsOf(Current(t).op)
    BY <1>1 DEF IInv, Control, CallShape
  <2>. QED  BY <1>1, <1>2, <2>1, CallType DEF OpsOf
<1>4. 1 \in DOMAIN todo[t] /\ todo[t][1] = Current(t)
  BY <1>2 DEF Current
<1>. QED  BY <1>1, <1>2, <1>3, <1>4

AddersMay == \A k \in Keys : \A t \in Adders(k) : MayAdd(t, k)

LEMMA OwnAdders == IInv /\ AddsItsOwn => AddersMay
BY AddersAdd DEF AddsItsOwn, AddersMay, Adds, Adders

\* A key that one thread inserts or assigns is never present twice, whoever reads
\* and removes it: what hashtable.h:105 says holds if no two threads insert the
\* same key.
THEOREM NoDuplicatesByOne ==
  ASSUME \A t, u \in Threads : \A k \in Keys : MayAdd(t, k) /\ MayAdd(u, k) => t = u
  PROVE  Spec => []NoDuplicateKeys
<1>. DEFINE Single == \A k \in Keys : Weight(k) <= 1
<1>1. Init => AddsItsOwn /\ Single
  <2>1. Init => AddsItsOwn
    BY DEF Init, AddsItsOwn, MayAdd
  <2>. QED  BY <2>1, InitWeight
<1>2. IInv /\ IInv' /\ Gathered /\ AddsItsOwn /\ Single /\ [Next]_vars => AddsItsOwn' /\ Single'
  <2>1. AddsItsOwn /\ Single /\ UNCHANGED vars => AddsItsOwn' /\ Single'
    BY DEF AddsItsOwn, Weight, Adders, Adding, Current, ChainOf, Hash, vars
  <2>2. ASSUME IInv, AddsItsOwn, NEW t \in Threads, Step(t) PROVE AddsItsOwn'
    <3>1. todo \in [Threads -> Seq(Call)]
      BY <2>2 DEF IInv, Control, TypeOK
    <3>2. ASSUME NEW u \in Threads, NEW k \in Keys, Adds(todo'[u], k) PROVE Adds(todo[u], k)
      <4>1. CASE todo'[u] = todo[u]
        BY <3>2, <4>1
      <4>2. CASE todo'[u] = Tail(todo[u]) /\ todo[u] \in Seq(Call) /\ todo[u] # << >>
        BY <3>2, <4>2, TailOf
      <4>. QED  BY <2>2, <3>1, <4>1, <4>2, TodoMoves
    <3>. QED  BY <2>2, <3>2 DEF AddsItsOwn
  <2>3. ASSUME IInv, IInv', Gathered, AddsItsOwn', Single,
               NEW t \in Threads, Step(t), NEW k \in Keys
        PROVE  Weight(k)' <= 1
    <3>1. CASE Weight(k)' <= Weight(k)
      BY <2>3, <3>1, WeightMoves
    <3>2. CASE ChainOf(k)' = << >> /\ t \in Adders(k)'
      <4>1. AddersMay'
        <5>1. IInv' /\ AddsItsOwn' => AddersMay'
          BY OwnAdders, PTL
        <5>. QED  BY <2>3, <5>1
      <4>2. \A u \in Adders(k)' : u \in Threads /\ MayAdd(u, k)
        BY <4>1 DEF AddersMay, Adders
      <4>3. Adders(k)' = {t}
        BY <3>2, <4>2
      <4>4. Cardinality(Adders(k)') = 1
        BY <4>3, FS_Singleton
      <4>5. Len(ChainOf(k)') = 0
        BY <3>2
      <4>. QED  BY <4>4, <4>5 DEF Weight
    <3>. QED  BY <2>3, <3>1, <3>2, WeightMoves
  <2>. QED  BY <2>1, <2>2, <2>3 DEF Next
<1>3. IInv /\ Single => NoDuplicateKeys
  <2>1. ASSUME IInv, Single, NEW k \in Keys PROVE Len(ChainOf(k)) <= 1
    <3>1. Len(ChainOf(k)) \in Nat /\ Cardinality(Adders(k)) \in Nat /\ Weight(k) <= 1
      BY <2>1, ChainType, AddersFinite DEF ChainsTyped, IInv, Control
    <3>. QED  BY <3>1 DEF Weight
  <2>. QED  BY <2>1 DEF NoDuplicateKeys
<1>. QED  BY <1>1, <1>2, <1>3, AlwaysGathered, PTL DEF Spec

(***************************************************************************)
(* Threads that clean up behind themselves.                                *)
(***************************************************************************)
\* The threads that have not yet made all their attempts at removing k.
Owing(k) == {t \in Threads : Removes(todo[t], k)}
Cleaning == \A t \in Threads : CleansUp(todo[t])

\* A key is present, or about to be, at most as often as somebody will try to
\* remove it.  So it is gone when nobody will.
Owed == \A k \in Keys : Weight(k) <= Cardinality(Owing(k))

\* A thread has made its last attempt at removing a key when its remove() returns.
LEMMA OwingMoves ==
  ASSUME IInv, NEW t \in Threads, Step(t), NEW k \in Keys
  PROVE  \/ Owing(k)' = Owing(k)
         \/ /\ t \in Owing(k) /\ Owing(k)' = Owing(k) \ {t}
            /\ Current(t).key = k /\ (RemoveMiss(t) \/ RemoveErase(t))
<1>1. CASE UNCHANGED todo
  BY <1>1 DEF Owing
<1>2. CASE /\ todo[t] \in Seq(Call) /\ todo[t] # << >>
           /\ todo' = [todo EXCEPT ![t] = Tail(@)]
           /\ Current(t).op = "remove" => RemoveMiss(t) \/ RemoveErase(t)
  <2>1. /\ todo \in [Threads -> Seq(Call)]
        /\ todo'[t] = Tail(todo[t]) /\ \A u \in Threads \ {t} : todo'[u] = todo[u]
    BY <1>2 DEF IInv, Control, TypeOK
  <2>2. Removes(todo[t], k) <=> \/ Removes(todo'[t], k)
                                \/ Current(t).op = "remove" /\ Current(t).key = k
    BY <1>2, <2>1, TailOf DEF Current
  <2>3. CASE Removes(todo'[t], k) <=> Removes(todo[t], k)
    BY <2>1, <2>3 DEF Owing
  <2>4. CASE ~(Removes(todo'[t], k) <=> Removes(todo[t], k))
    <3>1. Removes(todo[t], k) /\ ~Removes(todo'[t], k)
      BY <2>2, <2>4
    <3>2. t \in Owing(k) /\ Owing(k)' = Owing(k) \ {t}
      BY <2>1, <3>1 DEF Owing
    <3>. QED  BY <1>2, <2>2, <3>1, <3>2
  <2>. QED  BY <2>3, <2>4
<1>. QED  BY <1>1, <1>2, TodoMoves

LEMMA CleaningStep ==
  ASSUME IInv, Cleaning, NEW t \in Threads, Step(t)
  PROVE  Cleaning'
<1>1. CASE UNCHANGED todo
  BY <1>1 DEF Cleaning
<1>2. CASE /\ todo[t] \in Seq(Call) /\ todo[t] # << >>
           /\ todo' = [todo EXCEPT ![t] = Tail(@)]
  <2>1. /\ todo \in [Threads -> Seq(Call)]
        /\ todo'[t] = Tail(todo[t]) /\ \A u \in Threads \ {t} : todo'[u] = todo[u]
    BY <1>2 DEF IInv, Control, TypeOK
  <2>2. CleansUp(todo'[t])
    BY <1>2, <2>1, TailOf DEF Cleaning
  <2>. QED  BY <2>1, <2>2 DEF Cleaning
<1>. QED  BY <1>1, <1>2, TodoMoves

AddersAmongOwing == \A k \in Keys : Adders(k) \subseteq Owing(k)

LEMMA AddersOwe == IInv /\ Cleaning => AddersAmongOwing
<1>. SUFFICES ASSUME IInv, Cleaning, NEW k \in Keys, NEW t \in Adders(k)
              PROVE  Removes(todo[t], k)
  BY DEF AddersAmongOwing, Adders, Owing
<1>. QED  BY AddersAdd DEF Adders, Cleaning, CleansUp, Removes

LEMMA OwingFinite ==
  ASSUME NEW k
  PROVE  /\ IsFiniteSet(Owing(k)) /\ Cardinality(Owing(k)) \in Nat
         /\ IsFiniteSet(Owing(k)') /\ Cardinality(Owing(k)') \in Nat
<1>1. Owing(k) \subseteq Threads /\ Owing(k)' \subseteq Threads
  BY DEF Owing
<1>. QED  BY <1>1, TableAssumption, FS_Subset, FS_CardinalityType

\* Who adds a key owes its removal, and who no longer owes it has removed an entry or
\* found none.
LEMMA OwedStep ==
  ASSUME IInv, IInv', Gathered, Cleaning, Owed, NEW t \in Threads, Step(t)
  PROVE  Cleaning' /\ Owed'
<1>0. Cleaning'
  BY CleaningStep
<1>. SUFFICES ASSUME NEW k \in Keys PROVE Weight(k)' <= Cardinality(Owing(k)')
  BY <1>0 DEF Owed
<1>1. /\ Weight(k) <= Cardinality(Owing(k))
      /\ Weight(k) \in Nat /\ Weight(k)' \in Nat
  BY WeightMoves DEF Owed
\* An absent key is owed what is about to be added.
<1>2. CASE ChainOf(k)' = << >>
  <2>1. Adders(k)' \subseteq Owing(k)'
    <3>1. IInv' /\ Cleaning' => AddersAmongOwing'
      BY AddersOwe, PTL
    <3>. QED  BY <1>0, <3>1 DEF AddersAmongOwing
  <2>2. Cardinality(Adders(k)') <= Cardinality(Owing(k)')
    BY <2>1, OwingFinite, FS_Subset
  <2>. QED  BY <1>2, <2>2, AddersFinite DEF Weight
<1>3. CASE ChainOf(k)' # << >>
  <2>1. /\ Weight(k)' <= Weight(k)
        /\ RemoveErase(t) /\ Current(t).key = k => Weight(k)' <= Weight(k) - 1
    BY <1>3, WeightMoves
  <2>2. CASE Owing(k)' = Owing(k)
    BY <1>1, <2>1, <2>2, OwingFinite
  <2>3. CASE /\ t \in Owing(k) /\ Owing(k)' = Owing(k) \ {t}
             /\ Current(t).key = k /\ (RemoveMiss(t) \/ RemoveErase(t))
    <3>1. RemoveErase(t)
      <4>1. ASSUME RemoveMiss(t) PROVE FALSE
        <5>1. pc[t] = "access" /\ doing[t] = "remove" /\ ~Found(t)
          BY <4>1 DEF RemoveMiss
        <5>2. ChainOf(k) = << >>
          BY <2>3, <5>1, ChainHere DEF InBucket
        <5>3. ~InsertPush(t) /\ ~RemoveErase(t)
          BY <5>1 DEF InsertPush, RemoveErase, Goto
        <5>. QED  BY <1>3, <5>2, <5>3, ChainsKept
      <4>. QED  BY <2>3, <4>1
    <3>2. Cardinality(Owing(k)') = Cardinality(Owing(k)) - 1
      BY <2>3, OwingFinite, FS_RemoveElement
    <3>. QED  BY <1>1, <2>1, <2>3, <3>1, <3>2, OwingFinite
  <2>. QED  BY <2>2, <2>3, OwingMoves
<1>. QED  BY <1>2, <1>3

\* Starting from an empty table, threads that remove every key they insert or
\* assign leave an empty table behind, with _size 0: whatever else they call, in
\* any number, however they get in each other's way and however often the table is
\* resized.
THEOREM TableDrained ==
  ASSUME \A i \in InitBuckets : InitChains[i] = << >>,
         \A t \in Threads : \A p \in Programs[t] : CleansUp(p)
  PROVE  Spec => []Drained
<1>. DEFINE Inv == IInv /\ Gathered /\ SizeInv /\ Cleaning /\ Owed
<1>1. Init => Cleaning /\ Owed
  <2>. SUFFICES ASSUME Init PROVE Cleaning /\ Owed
    OBVIOUS
  <2>1. Cleaning
    BY DEF Init, Cleaning
  <2>2. \A k \in Keys : Weight(k) = 0 /\ Cardinality(Owing(k)) \in Nat
    BY InitWeight, OwingFinite
  <2>. QED  BY <2>1, <2>2 DEF Owed
<1>2. IInv /\ IInv' /\ Gathered /\ Cleaning /\ Owed /\ [Next]_vars => Cleaning' /\ Owed'
  <2>1. Cleaning /\ Owed /\ UNCHANGED vars => Cleaning' /\ Owed'
    BY DEF Cleaning, Owed, Weight, Owing, Adders, Adding, Current, ChainOf, Hash, vars
  <2>. QED  BY <2>1, OwedStep DEF Next
<1>3. Inv => Drained
  <2>. SUFFICES ASSUME Inv, \A t \in Threads : todo[t] = << >>
                PROVE  size = 0 /\ Stored = {}
    BY DEF Drained
  <2>1. TypeOK /\ \A t \in Threads : pc[t] = "idle"
    BY DEF IInv, Control, TypeOK
  <2>2. pending = << >>
    BY <2>1 DEF Gathered, Resizing
  <2>3. ASSUME NEW k \in Keys PROVE ChainOf(k) = << >>
    <3>1. Owing(k) = {}
      BY DEF Owing, Removes
    <3>2. Cardinality(Owing(k)) = 0
      BY <3>1, FS_EmptySet
    <3>3. Weight(k) <= 0 /\ Len(ChainOf(k)) \in Nat /\ Cardinality(Adders(k)) \in Nat
      BY <2>1, <3>2, ChainType, AddersFinite DEF Owed, ChainsTyped
    <3>4. Len(ChainOf(k)) = 0
      BY <3>3 DEF Weight
    <3>. QED  BY <2>1, <3>4, ChainType DEF ChainsTyped
  <2>4. Stored = {}
    <3>. SUFFICES ASSUME NEW i \in DOMAIN storage, NEW j \in DOMAIN storage[i].l PROVE FALSE
      BY DEF Stored
    <3>. DEFINE l == storage[i].l
                k == l[j].key
    <3>1. l \in Seq(Entry) /\ l[j] \in Entry
      BY <2>1, StorageType
    <3>2. k \in Keys
      BY <3>1 DEF Entry
    <3>3. Hash(k) = i
      BY DEF IInv, Placement
    <3>4. l \o << >> = l
      BY <3>1
    <3>5. j \in Positions(l, k)
      BY DEF Positions
    <3>. HIDE DEF l, k
    <3>6. ValuesIn(l, k) = << >>
      BY <2>2, <2>3, <3>2, <3>3, <3>4 DEF ChainOf, l
    <3>. QED  BY <3>1, <3>5, <3>6, ValuesType
  <2>5. size = 0
    <3>1. Counting = {} /\ ~Collecting
      BY <2>1 DEF Counting, Collecting
    <3>2. Uncounted = 0
      BY <2>4, <3>1, FS_EmptySet DEF Uncounted
    <3>3. 0 % Wrap = 0
      BY WrapMoves, TableAssumption
    <3>. QED  BY <3>1, <3>2, <3>3 DEF SizeInv
  <2>. QED  BY <2>4, <2>5
<1>. QED  BY <1>1, <1>2, <1>3, AlwaysGathered, AlwaysSizeInv, PTL DEF Spec

=============================================================================
