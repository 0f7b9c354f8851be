--------------------------- MODULE HashTableProofs ---------------------------
(***************************************************************************)
(* Theorems about HashTable for every finite set of threads, every set of  *)
(* keys and values, every hash function, every program and every initial   *)
(* content.                                                                *)
(***************************************************************************)
EXTENDS HashTable, FiniteSetTheorems, SequenceTheorems, WellFoundedInduction, TLAPS

(***************************************************************************)
(* Arithmetic and sequences.                                               *)
(***************************************************************************)
LEMMA WrapType == \A x \in Int : x % Wrap \in 0 .. Wrap - 1
BY TableAssumption

LEMMA HashType ==
  ASSUME NEW k \in Keys, capacity \in Nat \ {0}
  PROVE  Hash(k) \in 0 .. capacity - 1
<1>1. HashOf[k] \in Nat
  BY TableAssumption
<1>2. \A x \in Nat : x % capacity \in 0 .. capacity - 1
  OBVIOUS
<1>. QED  BY <1>1, <1>2 DEF Hash

\* The natural numbers are well-ordered.
Less == {p \in Nat \X Nat : p[1] < p[2]}
LEMMA LeastNat ==
  ASSUME NEW T \in SUBSET Nat, T # {}
  PROVE  \E x \in T : \A y \in T : x <= y
<1>1. IsWellFoundedOn(Less, Nat)
  <2>1. IsWellFoundedOn(OpToRel(<, Nat), Nat)
    BY NatLessThanWellFounded
  <2>. QED  BY <2>1 DEF OpToRel, Less
<1>2. PICK x \in T : \A y \in T : ~ (<<y, x>> \in Less)
  BY <1>1, WFMin
<1>3. ASSUME NEW y \in T PROVE x <= y
  <2>1. x \in Nat /\ y \in Nat
    OBVIOUS
  <2>2. ~ (y < x)
    BY <1>2, <2>1 DEF Less
  <2>. QED  BY <2>1, <2>2
<1>. QED  BY <1>3

\* find_if returns a position of the key, if there is one.
LEMMA FirstAtPosition ==
  ASSUME NEW l \in Seq(Entry), NEW k, Positions(l, k) # {}
  PROVE  /\ FirstAt(l, k) \in Positions(l, k) /\ FirstAt(l, k) \in 1 .. Len(l)
         /\ l[FirstAt(l, k)] \in Entry
         /\ \A i \in Positions(l, k) : FirstAt(l, k) <= i
<1>1. Positions(l, k) \subseteq 1 .. Len(l)
  BY DEF Positions
<1>2. \E j \in Positions(l, k) : \A i \in Positions(l, k) : j <= i
  BY <1>1, LeastNat
<1>3. /\ FirstAt(l, k) \in Positions(l, k)
      /\ \A i \in Positions(l, k) : FirstAt(l, k) <= i
  BY <1>2 DEF FirstAt
<1>. QED  BY <1>1, <1>3

\* list::erase takes out one element and keeps the others in order.
LEMMA EraseStep ==
  ASSUME NEW l \in Seq(Entry), NEW j \in 1 .. Len(l)
  PROVE  /\ Erase(l, j) \in Seq(Entry)
         /\ Len(Erase(l, j)) = Len(l) - 1
         /\ \A i \in 1 .. Len(l) - 1 :
              Erase(l, j)[i] = IF i < j THEN l[i] ELSE l[i + 1]
<1>. DEFINE a == SubSeq(l, 1, j - 1)
            b == SubSeq(l, j + 1, Len(l))
<1>1. /\ a \in Seq(Entry) /\ Len(a) = j - 1
      /\ \A i \in 1 .. j - 1 : a[i] = l[i]
  OBVIOUS
<1>2. /\ b \in Seq(Entry) /\ Len(b) = Len(l) - j
      /\ \A i \in 1 .. Len(l) - j : b[i] = l[j + i]
  OBVIOUS
<1>3. Erase(l, j) = a \o b
  BY DEF Erase
<1>. HIDE DEF a, b
<1>4. /\ a \o b \in Seq(Entry) /\ Len(a \o b) = Len(a) + Len(b)
      /\ \A i \in 1 .. Len(a) + Len(b) :
           (a \o b)[i] = IF i <= Len(a) THEN a[i] ELSE b[i - Len(a)]
  BY <1>1, <1>2, ConcatProperties
<1>5. Len(a) + Len(b) = Len(l) - 1 /\ j \in Int /\ Len(l) \in Int
  BY <1>1, <1>2
<1>6. ASSUME NEW i \in 1 .. Len(l) - 1
      PROVE  (a \o b)[i] = IF i < j THEN l[i] ELSE l[i + 1]
  <2>1. CASE i < j
    BY <1>1, <1>4, <1>5, <2>1
  <2>2. CASE ~ (i < j)
    <3>1. i - (j - 1) \in 1 .. Len(l) - j /\ j + (i - (j - 1)) = i + 1
      BY <2>2
    <3>2. b[i - (j - 1)] = l[i + 1]
      BY <1>2, <3>1
    <3>3. (a \o b)[i] = b[i - (j - 1)]
      BY <1>1, <1>4, <1>5, <2>2
    <3>. QED  BY <2>2, <3>2, <3>3
  <2>. QED  BY <2>1, <2>2
<1>. QED  BY <1>3, <1>4, <1>5, <1>6

(***************************************************************************)
(* Calls.                                                                  *)
(***************************************************************************)
LEMMA CallType ==
  ASSUME NEW c \in Call
  PROVE  /\ c.op \in {"get", "insert", "remove", "subscript", "assign", "bucket", "scan"}
         /\ c.op = "bucket" => c.idx \in Nat
         /\ c.op \notin {"bucket", "scan"} => c.key \in Keys /\ c.val \in Values
BY DEF Call, KeyCall, BucketCall, ScanCall

\* The operations each call may be in.
OpsOf(op) == CASE op = "insert" -> {"exists", "insert"}
               [] op = "assign" -> {"subscript", "get", "remove", "exists", "insert"}
               [] OTHER -> {op}

\* Which operation a thread can be in follows from where it is and from its call.
CallShape ==
  \A t \in Threads : pc[t] # "idle" =>
    /\ todo[t] # << >>
    /\ doing[t] \in OpsOf(Current(t).op)
    /\ pc[t] = "boundCheck" => doing[t] = "bucket"
    /\ pc[t] \in {"checkEmpty", "checkLoad", "resizeLock", "resizeCollect", "resizeFill"}
         => doing[t] \in {"insert", "remove"}
    /\ pc[t] \in {"scanLock", "scan"} => doing[t] = "scan"
    /\ pc[t] \in {"bucketLock", "access"} => doing[t] # "scan"
    /\ pc[t] = "insertCount" => doing[t] = "insert"
    /\ pc[t] = "removeErase" => doing[t] = "remove"

LEMMA CurrentType ==
  ASSUME TypeOK, CallShape, NEW t \in Threads, pc[t] # "idle"
  PROVE  /\ Current(t) \in Call
         /\ doing[t] = "bucket" <=> Current(t).op = "bucket"
         /\ doing[t] = "scan" <=> Current(t).op = "scan"
         /\ doing[t] = "bucket" => Current(t).idx \in Nat
         /\ doing[t] \notin {"bucket", "scan"} =>
              Current(t).key \in Keys /\ Current(t).val \in Values
<1>1. todo[t] \in Seq(Call) /\ todo[t] # << >>
  BY DEF TypeOK, CallShape
<1>2. Current(t) \in Call
  BY <1>1 DEF Current
<1>3. doing[t] \in OpsOf(Current(t).op)
  BY DEF CallShape
<1>. QED  BY <1>2, <1>3, CallType DEF OpsOf

LEMMA FollowingType ==
  ASSUME NEW op \in {"get", "insert", "remove", "subscript", "assign", "bucket", "scan"},
         NEW operation \in OpsOf(op), NEW found \in BOOLEAN
  PROVE  /\ Following(op, operation, found) \in OpsOf(op) \cup {"return"}
         /\ OpsOf(op) \subseteq Operations
         /\ "return" \notin OpsOf(op)
         /\ Following(op, operation, found) # "bucket"
BY DEF Following, OpsOf, Operations

\* What the end of an operation does to the control of the threads.
LEMMA CompleteStep ==
  ASSUME TypeOK, CallShape, NEW t \in Threads, pc[t] # "idle",
         NEW r \in Values \cup Outcomes, NEW found \in BOOLEAN, Complete(t, r, found)
  PROVE  /\ readers' = readers \ {t}
         /\ result' \in [Threads -> Values \cup Outcomes]
         /\ pc' \in [Threads -> Labels]
         /\ doing' \in [Threads -> Operations]
         /\ todo' \in [Threads -> Seq(Call)]
         /\ \A u \in Threads \ {t} :
              pc'[u] = pc[u] /\ doing'[u] = doing[u] /\ todo'[u] = todo[u]
         /\ pc'[t] \in {"idle", "tableLock"}
         /\ pc'[t] = "tableLock" =>
              /\ todo'[t] = todo[t] /\ doing'[t] \in OpsOf(Current(t).op)
              /\ doing'[t] # "bucket"
<1>1. todo[t] \in Seq(Call) /\ todo[t] # << >>
  BY DEF TypeOK, CallShape
<1>2. Current(t) \in Call
  BY CurrentType
<1>3. doing[t] \in OpsOf(Current(t).op)
  BY DEF CallShape
<1>. DEFINE next == Following(Current(t).op, doing[t], found)
<1>4. /\ next \in OpsOf(Current(t).op) \cup {"return"}
      /\ OpsOf(Current(t).op) \subseteq Operations
      /\ "return" \notin OpsOf(Current(t).op)
      /\ next # "bucket"
  BY <1>2, <1>3, CallType, FollowingType
<1>5. Tail(todo[t]) \in Seq(Call)
  BY <1>1
<1>6. readers' = readers \ {t} /\ result' = [result EXCEPT ![t] = r]
  BY DEF Complete
<1>. HIDE DEF next
<1>7. \/ /\ next = "return"
         /\ pc' = [pc EXCEPT ![t] = "idle"]
         /\ todo' = [todo EXCEPT ![t] = Tail(@)]
         /\ UNCHANGED doing
      \/ /\ next # "return"
         /\ pc' = [pc EXCEPT ![t] = "tableLock"]
         /\ doing' = [doing EXCEPT ![t] = next]
         /\ UNCHANGED todo
  BY DEF Complete, next
<1>8. /\ pc \in [Threads -> Labels] /\ doing \in [Threads -> Operations]
      /\ todo \in [Threads -> Seq(Call)] /\ result \in [Threads -> Values \cup Outcomes]
  BY DEF TypeOK
<1>. QED  BY <1>4, <1>5, <1>6, <1>7, <1>8 DEF Labels

-----------------------------------------------------------------------------
(***************************************************************************)
(* The inductive invariant.                                                *)
(***************************************************************************)

\* A thread inside a bucket is inside one that exists, and insert() has left an
\* entry there when it comes to counting it.
InBucketExists ==
  \A t \in Threads :
    /\ pc[t] \in InBucket => idx[t] \in DOMAIN storage
    /\ pc[t] = "insertCount" => List(t) # << >>

\* The reason for which a resize() began stays good until the table is rebuilt.
ResizeDue ==
  \A t \in Threads : pc[t] = "resizeCollect" =>
    MustGrow(Delta(doing[t])) \/ MustShrink(Delta(doing[t]))

Control == TypeOK /\ CallShape /\ LocksHeld
IInv == /\ Control /\ InBucketExists /\ BucketNotStale /\ Placement
        /\ ErasesWhatItFound /\ ResizeDue

LEMMA StorageType ==
  ASSUME TypeOK
  PROVE  /\ capacity \in Nat \ {0}
         /\ \A i \in Nat : i < capacity => i \in DOMAIN storage
         /\ DOMAIN storage \subseteq Nat
         /\ \A i \in DOMAIN storage :
              /\ storage[i] \in Node
              /\ storage[i].l \in Seq(Entry)
              /\ storage[i].owner \in Threads \cup {Nobody}
              /\ storage[i].sharers \subseteq Threads
<1>1. capacity \in Nat \ {0}
  BY DEF TypeOK
<1>2. PICK n \in {capacity, 4} : n >= capacity /\ storage \in [0 .. n - 1 -> Node]
  BY DEF TypeOK
<1>3. DOMAIN storage = 0 .. n - 1 /\ n \in Nat
  BY <1>1, <1>2
<1>. QED  BY <1>1, <1>2, <1>3 DEF Node

\* The bucket of a key is there.
LEMMA BucketThere ==
  ASSUME TypeOK, NEW k \in Keys
  PROVE  Hash(k) \in DOMAIN storage /\ Hash(k) \in Nat /\ Hash(k) < capacity
<1>1. capacity \in Nat \ {0} /\ \A i \in Nat : i < capacity => i \in DOMAIN storage
  BY StorageType
<1>2. Hash(k) \in 0 .. capacity - 1
  BY <1>1, HashType
<1>3. Hash(k) \in Nat /\ Hash(k) < capacity
  BY <1>1, <1>2
<1>. QED  BY <1>1, <1>3

\* Replacing the list, or the holders of the lock, of a bucket.
LEMMA StorageUpdate ==
  ASSUME TypeOK, UNCHANGED capacity, NEW i, NEW n \in Node,
         storage' = [storage EXCEPT ![i] = n]
  PROVE  \E m \in {capacity', 4} : m >= capacity' /\ storage' \in [0 .. m - 1 -> Node]
BY DEF TypeOK

LEMMA NodeUpdate ==
  ASSUME NEW n \in Node
  PROVE  /\ n = [l |-> n.l, owner |-> n.owner, sharers |-> n.sharers]
         /\ \A l \in Seq(Entry) : [n EXCEPT !.l = l] \in Node
         /\ \A o \in Threads \cup {Nobody} : [n EXCEPT !.owner = o] \in Node
         /\ \A S \in SUBSET Threads : [n EXCEPT !.sharers = S] \in Node
BY DEF Node

\* The lists that the operations leave behind.
LEMMA ListType ==
  ASSUME TypeOK, CallShape, NEW t \in Threads, idx[t] \in DOMAIN storage
  PROVE  /\ List(t) \in Seq(Entry)
         /\ pc[t] # "idle" /\ doing[t] \notin {"bucket", "scan"} =>
              /\ Found(t) => Value(t) \in Values
              /\ Append(List(t), [key |-> Current(t).key, val |-> Current(t).val])
                   \in Seq(Entry)
              /\ Found(t) => Erase(List(t), FirstAt(List(t), Current(t).key)) \in Seq(Entry)
<1>1. List(t) \in Seq(Entry)
  BY StorageType DEF List
<1>2. ASSUME pc[t] # "idle", doing[t] \notin {"bucket", "scan"}, Found(t)
      PROVE  /\ Value(t) \in Values
             /\ Erase(List(t), FirstAt(List(t), Current(t).key)) \in Seq(Entry)
  <2>1. /\ FirstAt(List(t), Current(t).key) \in 1 .. Len(List(t))
        /\ List(t)[FirstAt(List(t), Current(t).key)] \in Entry
    BY <1>1, <1>2, FirstAtPosition DEF Found
  <2>. QED  BY <1>1, <2>1, EraseStep DEF Value, Entry
<1>3. ASSUME pc[t] # "idle", doing[t] \notin {"bucket", "scan"}
      PROVE  [key |-> Current(t).key, val |-> Current(t).val] \in Entry
  BY <1>3, CurrentType DEF Entry
<1>4. ASSUME NEW e \in Entry PROVE Append(List(t), e) \in Seq(Entry)
  BY <1>1, <1>4
<1>. QED  BY <1>1, <1>2, <1>3, <1>4

\* Letting go of a bucket: its list is l, t has no lock on it, and that is all.
LEMMA UnlockStep ==
  ASSUME TypeOK, UNCHANGED capacity, NEW t \in Threads, idx[t] \in DOMAIN storage,
         NEW l \in Seq(Entry), storage' = Unlocked(t, l)
  PROVE  /\ \E m \in {capacity', 4} : m >= capacity' /\ storage' \in [0 .. m - 1 -> Node]
         /\ DOMAIN storage' = DOMAIN storage
         /\ \A i \in DOMAIN storage : i # idx[t] => storage'[i] = storage[i]
         /\ storage'[idx[t]].l = l
         /\ storage'[idx[t]].owner = IF storage[idx[t]].owner = t THEN Nobody
                                     ELSE storage[idx[t]].owner
         /\ storage'[idx[t]].sharers = storage[idx[t]].sharers \ {t}
<1>. DEFINE n == [l |-> l,
                  owner |-> IF storage[idx[t]].owner = t THEN Nobody
                            ELSE storage[idx[t]].owner,
                  sharers |-> storage[idx[t]].sharers \ {t}]
<1>1. storage' = [storage EXCEPT ![idx[t]] = n]
  BY DEF Unlocked
<1>2. n \in Node
  BY StorageType DEF Node
<1>3. /\ n.l = l /\ n.sharers = storage[idx[t]].sharers \ {t}
      /\ n.owner = IF storage[idx[t]].owner = t THEN Nobody ELSE storage[idx[t]].owner
  OBVIOUS
<1>. HIDE DEF n
<1>4. \E m \in {capacity', 4} : m >= capacity' /\ storage' \in [0 .. m - 1 -> Node]
  BY <1>1, <1>2, StorageUpdate
<1>. QED  BY <1>1, <1>3, <1>4

-----------------------------------------------------------------------------
(***************************************************************************)
(* The initial states.                                                     *)
(***************************************************************************)
LEMMA InitIInv == Init => IInv
<1>. SUFFICES ASSUME Init PROVE IInv
  OBVIOUS
<1>1. /\ capacity = InitCapacity /\ capacity \in Nat \ {0}
      /\ InitBuckets = 0 .. (IF InitCapacity < 4 THEN 4 ELSE InitCapacity) - 1
      /\ InitChains \in [InitBuckets -> Seq(Entry)]
      /\ storage = [i \in InitBuckets |-> NewNode(InitChains[i])]
  BY TableAssumption DEF Init, InitBuckets
<1>2. pc = [t \in Threads |-> "idle"] /\ readers = {} /\ writer = Nobody
  BY DEF Init
<1>3. TypeOK
  <2>1. \A i \in InitBuckets : NewNode(InitChains[i]) \in Node
    BY <1>1 DEF NewNode, Node
  <2>2. \E n \in {capacity, 4} : n >= capacity /\ storage \in [0 .. n - 1 -> Node]
    <3>1. CASE InitCapacity < 4
      <4>1. storage \in [0 .. 4 - 1 -> Node]
        BY <1>1, <2>1, <3>1
      <4>. QED  BY <1>1, <3>1, <4>1
    <3>2. CASE ~ (InitCapacity < 4)
      <4>1. storage \in [0 .. capacity - 1 -> Node]
        BY <1>1, <2>1, <3>2
      <4>. QED  BY <1>1, <4>1
    <3>. QED  BY <3>1, <3>2
  <2>3. todo \in [Threads -> Seq(Call)]
    <3>1. todo \in [Threads -> UNION {Programs[t] : t \in Threads}]
      BY DEF Init
    <3>2. \A t \in Threads : Programs[t] \subseteq Seq(Call)
      BY TableAssumption
    <3>. QED  BY <3>1, <3>2
  <2>4. size \in 0 .. Wrap - 1
    BY TableAssumption DEF Init
  <2>5. /\ pending \in Seq(Entry)
        /\ seen \in [Threads -> Seq(Keys)]
    BY DEF Init
  <2>6. /\ pc \in [Threads -> Labels] /\ doing \in [Threads -> Operations]
        /\ result \in [Threads -> Values \cup Outcomes] /\ idx \in [Threads -> Nat]
    BY DEF Init, Labels, Operations, Outcomes
  <2>. QED  BY <1>1, <1>2, <2>2, <2>3, <2>4, <2>5, <2>6 DEF TypeOK
<1>4. CallShape
  BY <1>2 DEF CallShape
<1>5. LocksHeld
  BY <1>1, <1>2, TableAssumption DEF LocksHeld, Reading, Resizing, InBucket, NewNode
<1>6. Placement
  BY <1>1, TableAssumption DEF Placement, NewNode, Hash
<1>7. InBucketExists /\ BucketNotStale /\ ErasesWhatItFound /\ ResizeDue
  BY <1>2 DEF InBucketExists, BucketNotStale, ErasesWhatItFound, ResizeDue, InBucket
<1>. QED  BY <1>3, <1>4, <1>5, <1>6, <1>7 DEF IInv, Control

(***************************************************************************)
(* Types and calls, action by action.                                      *)
(***************************************************************************)
\* A step within an operation that leaves the table alone.
LEMMA GotoType ==
  ASSUME TypeOK, CallShape, NEW t \in Threads, NEW from \in Labels \ {"idle"},
         NEW to \in Labels, Goto(t, from, to), UNCHANGED <<tableVars, todo, result, doing>>,
         readers' \subseteq Threads, writer' \in Threads \cup {Nobody},
         idx' \in [Threads -> Nat], seen' \in [Threads -> Seq(Keys)]
  PROVE  TypeOK'
BY DEF TypeOK, tableVars, Goto

\* The end of an operation.
LEMMA CompleteType ==
  ASSUME TypeOK, CallShape, NEW t \in Threads, pc[t] # "idle",
         NEW r \in Values \cup Outcomes, NEW found \in BOOLEAN, Complete(t, r, found),
         \E m \in {capacity', 4} : m >= capacity' /\ storage' \in [0 .. m - 1 -> Node],
         size' \in 0 .. Wrap - 1, UNCHANGED <<capacity, pending, writer, idx, seen>>
  PROVE  TypeOK'
<1>1. /\ readers' = readers \ {t}
      /\ result' \in [Threads -> Values \cup Outcomes]
      /\ pc' \in [Threads -> Labels]
      /\ doing' \in [Threads -> Operations]
      /\ todo' \in [Threads -> Seq(Call)]
      /\ \A u \in Threads \ {t} : pc'[u] = pc[u] /\ todo'[u] = todo[u]
      /\ pc'[t] \in {"idle", "tableLock"}
      /\ pc'[t] = "tableLock" => todo'[t] = todo[t]
  BY CompleteStep
<1>2. \A u \in Threads : pc'[u] # "idle" => todo'[u] # << >>
  BY <1>1 DEF TypeOK
<1>. QED  BY <1>1, <1>2 DEF TypeOK

LEMMA BucketOfType ==
  ASSUME TypeOK, CallShape, NEW t \in Threads, pc[t] # "idle", doing[t] # "scan"
  PROVE  /\ BucketOf(t) \in Nat
         /\ doing[t] # "bucket" => BucketOf(t) = Hash(Current(t).key)
                                   /\ BucketOf(t) \in 0 .. capacity - 1
BY CurrentType, HashType DEF TypeOK, BucketOf

\* The keys of a list, as a scan notes them.
LEMMA KeysOf ==
  ASSUME NEW l \in Seq(Entry)
  PROVE  [j \in DOMAIN l |-> l[j].key] \in Seq(Keys)
<1>1. Len(l) \in Nat /\ DOMAIN l = 1 .. Len(l)
  OBVIOUS
<1>2. ASSUME NEW j \in 1 .. Len(l) PROVE l[j].key \in Keys
  <2>1. l[j] \in Entry
    OBVIOUS
  <2>. QED  BY <2>1 DEF Entry
<1>3. [j \in 1 .. Len(l) |-> l[j].key] \in [1 .. Len(l) -> Keys]
  BY <1>2
<1>. QED  BY <1>1, <1>3, SeqDef

LEMMA TypeStep ==
  ASSUME TypeOK, CallShape, InBucketExists, ErasesWhatItFound, Next
  PROVE  TypeOK'
<1>. SUFFICES ASSUME NEW t \in Threads, Step(t) PROVE TypeOK'
  BY DEF Next
<1>0. /\ pc \in [Threads -> Labels] /\ doing \in [Threads -> Operations]
      /\ idx \in [Threads -> Nat] /\ todo \in [Threads -> Seq(Call)]
      /\ result \in [Threads -> Values \cup Outcomes]
      /\ seen \in [Threads -> Seq(Keys)] /\ readers \subseteq Threads
      /\ writer \in Threads \cup {Nobody} /\ pending \in Seq(Entry)
      /\ size \in 0 .. Wrap - 1 /\ capacity \in Nat \ {0}
  BY DEF TypeOK
<1>1. CASE Begin(t)
  <2>1. Current(t) \in Call
    BY <1>0, <1>1 DEF Begin, Current
  <2>2. FirstOf(Current(t).op) \in Operations
    BY <2>1, CallType DEF FirstOf, Operations
  <2>. QED  BY <1>0, <1>1, <2>2 DEF TypeOK, Begin, Goto, tableVars, Labels
<1>2. CASE BoundCheckPasses(t)
  <2>1. Current(t).idx \in Nat
    BY <1>2, CurrentType DEF BoundCheckPasses, Goto, CallShape
  <2>2. idx' \in [Threads -> Nat]
    BY <1>0, <1>2, <2>1 DEF BoundCheckPasses
  <2>. QED  BY <1>0, <1>2, <2>2, GotoType DEF BoundCheckPasses, Labels
<1>3. CASE BoundCheckFails(t)
  BY <1>0, <1>3, CompleteType DEF BoundCheckFails, TypeOK, tableVars, Outcomes
<1>4. CASE LockTable(t)
  <2>1. /\ pc[t] = "tableLock"
        /\ \/ idx' = idx
           \/ doing[t] # "scan" /\ idx' = [idx EXCEPT ![t] = BucketOf(t)]
    BY <1>4 DEF LockTable, Goto
  <2>2. idx' \in [Threads -> Nat]
    BY <1>0, <2>1, BucketOfType
  <2>. QED  BY <1>0, <1>4, <2>2, GotoType DEF LockTable, Labels
<1>5. ASSUME NEW label \in {"checkEmpty", "checkLoad"}, KeepSize(t, label)
      PROVE  TypeOK'
  <2>1. BucketOf(t) \in Nat
    BY <1>5, BucketOfType DEF KeepSize, Goto, CallShape
  <2>2. idx' \in [Threads -> Nat]
    BY <1>0, <1>5, <2>1 DEF KeepSize
  <2>. QED  BY <1>0, <1>5, <2>2, GotoType DEF KeepSize, Labels
<1>6. ASSUME NEW label \in {"checkEmpty", "checkLoad"}, WantResize(t, label)
      PROVE  TypeOK'
  BY <1>0, <1>6, GotoType DEF WantResize, Labels
<1>7. CASE CheckEmpty(t)
  BY <1>0, <1>5, <1>6, <1>7, GotoType DEF CheckEmpty, Labels
<1>8. CASE CheckLoad(t)
  BY <1>5, <1>6, <1>8 DEF CheckLoad
<1>9. CASE ScanBegin(t)
  <2>1. idx' \in [Threads -> Nat] /\ seen' \in [Threads -> Seq(Keys)]
    BY <1>0, <1>9 DEF ScanBegin
  <2>. QED  BY <1>0, <1>9, <2>1, GotoType DEF ScanBegin, Labels
<1>10. CASE ScanBucket(t)
  <2>1. storage[idx[t]].l \in Seq(Entry)
    BY <1>0, <1>10, StorageType DEF ScanBucket
  <2>. DEFINE ks == [j \in DOMAIN storage[idx[t]].l |-> storage[idx[t]].l[j].key]
  <2>2. ks \in Seq(Keys)
    BY <2>1, KeysOf
  <2>. HIDE DEF ks
  <2>3. seen' = [seen EXCEPT ![t] = @ \o ks]
    BY <1>10 DEF ScanBucket, ks
  <2>4. seen' \in [Threads -> Seq(Keys)]
    BY <1>0, <2>2, <2>3
  <2>5. idx' \in [Threads -> Nat]
    BY <1>0, <1>10 DEF ScanBucket, TypeOK
  <2>6. UNCHANGED <<tableVars, readers, writer, pc, doing, todo, result>>
    BY <1>10 DEF ScanBucket
  <2>. QED  BY <1>0, <2>4, <2>5, <2>6 DEF TypeOK, tableVars
<1>11. CASE ScanEnd(t)
  BY <1>0, <1>11, CompleteType DEF ScanEnd, TypeOK, tableVars, Outcomes
<1>12. CASE ResizeNotNeeded(t)
  BY <1>0, <1>12, GotoType DEF ResizeNotNeeded, Labels
<1>13. CASE ResizeBegin(t)
  BY <1>0, <1>13, GotoType DEF ResizeBegin, Labels
<1>14. CASE Collect(t)
  <2>1. idx[t] \in DOMAIN storage /\ storage[idx[t]] \in Node
        /\ storage[idx[t]].l \in Seq(Entry)
    BY <1>0, <1>14, StorageType DEF Collect
  <2>2. storage' = [storage EXCEPT ![idx[t]] = [storage[idx[t]] EXCEPT !.l = << >>]]
    BY <1>14 DEF Collect
  <2>3. \E m \in {capacity', 4} : m >= capacity' /\ storage' \in [0 .. m - 1 -> Node]
    <3>1. << >> \in Seq(Entry)
      OBVIOUS
    <3>2. [storage[idx[t]] EXCEPT !.l = << >>] \in Node
      BY <2>1, <3>1, NodeUpdate
    <3>. QED  BY <1>14, <2>2, <3>2, StorageUpdate DEF Collect
  <2>4. pending' \in Seq(Entry)
    BY <1>0, <1>14, <2>1 DEF Collect
  <2>5. idx' \in [Threads -> Nat] /\ pc[t] # "idle"
    BY <1>0, <1>14 DEF Collect
  <2>. QED  BY <1>0, <1>14, <2>3, <2>4, <2>5 DEF Collect, TypeOK
<1>15. CASE Rebuild(t)
  <2>1. capacity' \in Nat \ {0} /\ storage' = [i \in 0 .. capacity' - 1 |-> NewNode(<< >>)]
    BY <1>0, <1>15 DEF Rebuild, NewCapacity
  <2>2. NewNode(<< >>) \in Node
    BY DEF NewNode, Node
  <2>3. \E m \in {capacity', 4} : m >= capacity' /\ storage' \in [0 .. m - 1 -> Node]
    BY <2>1, <2>2
  <2>4. size' \in 0 .. Wrap - 1
    BY <1>15, TableAssumption DEF Rebuild
  <2>. QED  BY <1>0, <1>15, <2>1, <2>3, <2>4 DEF Rebuild, TypeOK, Goto, Labels
<1>16. CASE Refill(t)
  <2>1. Head(pending) \in Entry /\ Tail(pending) \in Seq(Entry)
    BY <1>0, <1>16 DEF Refill
  <2>. DEFINE h == Hash(Head(pending).key)
  <2>2. h \in DOMAIN storage
    BY <1>0, <2>1, HashType, StorageType DEF Entry
  <2>. HIDE DEF h
  <2>3. storage' = [storage EXCEPT ![h] = [storage[h] EXCEPT !.l = Append(storage[h].l, Head(pending))]]
    BY <1>16, <2>2 DEF Refill, h
  <2>4. [storage[h] EXCEPT !.l = Append(storage[h].l, Head(pending))] \in Node
    <3>1. storage[h] \in Node /\ Append(storage[h].l, Head(pending)) \in Seq(Entry)
      BY <2>1, <2>2, StorageType
    <3>. QED  BY <3>1, NodeUpdate
  <2>5. \E m \in {capacity', 4} : m >= capacity' /\ storage' \in [0 .. m - 1 -> Node]
    BY <1>16, <2>3, <2>4, StorageUpdate DEF Refill
  <2>6. size' \in 0 .. Wrap - 1
    BY <1>0, <1>16, WrapType DEF Refill
  <2>. QED  BY <1>0, <1>16, <2>1, <2>5, <2>6 DEF Refill, TypeOK
<1>17. CASE ResizeEnd(t)
  BY <1>0, <1>17, GotoType DEF ResizeEnd, Labels
<1>18. CASE LockBucket(t)
  <2>1. idx[t] \in DOMAIN storage
    BY <1>18 DEF LockBucket
  <2>2. \/ storage' = [storage EXCEPT ![idx[t]] = [storage[idx[t]] EXCEPT !.sharers = @ \cup {t}]]
        \/ storage' = [storage EXCEPT ![idx[t]] = [storage[idx[t]] EXCEPT !.owner = t]]
    BY <1>18 DEF LockBucket
  <2>3. /\ [storage[idx[t]] EXCEPT !.sharers = @ \cup {t}] \in Node
        /\ [storage[idx[t]] EXCEPT !.owner = t] \in Node
    BY <2>1, StorageType DEF Node
  <2>4. \E m \in {capacity', 4} : m >= capacity' /\ storage' \in [0 .. m - 1 -> Node]
    BY <1>18, <2>2, <2>3, StorageUpdate DEF LockBucket
  <2>. QED  BY <1>0, <1>18, <2>4 DEF LockBucket, TypeOK, Goto, Labels
<1>19. CASE StrayBucket(t)
  <2>1. CASE Complete(t, Garbage, FALSE)
    BY <1>0, <1>19, <2>1, CompleteType DEF StrayBucket, TypeOK, tableVars, Outcomes
  <2>2. CASE Goto(t, "bucketLock", "stuck") /\ UNCHANGED <<readers, doing, todo, result>>
    BY <1>0, <1>19, <2>2, GotoType DEF StrayBucket, Labels
  <2>. QED  BY <1>19, <2>1, <2>2 DEF StrayBucket
<1>20. ASSUME NEW r \in Values \cup Outcomes, NEW found \in BOOLEAN, Complete(t, r, found),
              pc[t] \in InBucket, NEW l \in Seq(Entry), storage' = Unlocked(t, l),
              size' \in 0 .. Wrap - 1, UNCHANGED <<capacity, pending, writer, idx, seen>>
       PROVE  TypeOK'
  <2>1. idx[t] \in DOMAIN storage
    BY <1>20 DEF InBucketExists
  <2>2. \E m \in {capacity', 4} : m >= capacity' /\ storage' \in [0 .. m - 1 -> Node]
    BY <1>20, <2>1, UnlockStep
  <2>. QED  BY <1>20, <2>2, CompleteType DEF InBucket
<1>21. pc[t] \in InBucket => idx[t] \in DOMAIN storage /\ List(t) \in Seq(Entry)
  BY ListType DEF InBucketExists
<1>22. CASE Lookup(t)
  <2>1. /\ pc[t] \in InBucket /\ storage' = Unlocked(t, List(t))
        /\ UNCHANGED <<capacity, pending, writer, idx, seen, size>>
    BY <1>22 DEF Lookup, InBucket
  <2>2. CASE Found(t) /\ Complete(t, Value(t), TRUE)
    BY <1>0, <1>20, <1>21, <1>22, <2>1, <2>2, ListType DEF Lookup
  <2>3. CASE Complete(t, IF doing[t] = "get" THEN Missing ELSE Garbage, FALSE)
    <3>1. (IF doing[t] = "get" THEN Missing ELSE Garbage) \in Outcomes
      BY DEF Outcomes
    <3>. QED  BY <1>0, <1>20, <1>21, <2>1, <2>3, <3>1
  <2>. QED  BY <1>22, <2>2, <2>3 DEF Lookup
<1>23. CASE LookupFirst(t)
  <2>1. Found(t) \in BOOLEAN /\ (IF Found(t) THEN Refused ELSE Missing) \in Outcomes
    BY DEF Found, Outcomes
  <2>2. /\ pc[t] \in InBucket /\ storage' = Unlocked(t, List(t))
        /\ UNCHANGED <<capacity, pending, writer, idx, seen, size>>
        /\ Complete(t, IF Found(t) THEN Refused ELSE Missing, Found(t))
    BY <1>23 DEF LookupFirst, InBucket
  <2>. QED  BY <1>0, <1>20, <1>21, <2>1, <2>2
<1>24. CASE CopyBucket(t)
  BY <1>0, <1>20, <1>21, <1>24 DEF CopyBucket, Outcomes, InBucket
<1>25. CASE InsertPush(t)
  <2>1. pc[t] = "access" /\ doing[t] = "insert"
    BY <1>25 DEF InsertPush, Goto
  <2>. DEFINE l == Append(List(t), [key |-> Current(t).key, val |-> Current(t).val])
  <2>2. idx[t] \in DOMAIN storage /\ l \in Seq(Entry)
    BY <2>1, <1>21, ListType DEF InBucket
  <2>3. storage' = [storage EXCEPT ![idx[t]] = [storage[idx[t]] EXCEPT !.l = l]]
    BY <1>25 DEF InsertPush, List
  <2>. HIDE DEF l
  <2>4. \E m \in {capacity', 4} : m >= capacity' /\ storage' \in [0 .. m - 1 -> Node]
    BY <1>25, <2>2, <2>3, StorageType, NodeUpdate, StorageUpdate DEF InsertPush
  <2>. QED  BY <1>0, <1>25, <2>4 DEF InsertPush, TypeOK, Goto, Labels
<1>26. CASE InsertCount(t)
  <2>1. size' \in 0 .. Wrap - 1
    BY <1>0, <1>26, WrapType DEF InsertCount
  <2>. QED  BY <1>20, <1>21, <1>26, <2>1 DEF InsertCount, Outcomes, InBucket
<1>27. CASE RemoveMiss(t)
  BY <1>0, <1>20, <1>21, <1>27 DEF RemoveMiss, Outcomes, InBucket
<1>28. CASE RemoveCount(t)
  <2>1. size' \in 0 .. Wrap - 1
    BY <1>0, <1>28, WrapType DEF RemoveCount
  <2>. QED  BY <1>0, <1>28, <2>1 DEF RemoveCount, TypeOK, Goto, Labels
<1>29. CASE RemoveErase(t)
  <2>1. pc[t] = "removeErase" /\ Found(t) /\ doing[t] = "remove"
    BY <1>29 DEF RemoveErase, ErasesWhatItFound, CallShape
  <2>2. /\ Erase(List(t), FirstAt(List(t), Current(t).key)) \in Seq(Entry)
        /\ Value(t) \in Values
    BY <1>21, <2>1, ListType DEF InBucket
  <2>. QED  BY <1>0, <1>20, <1>29, <2>2 DEF RemoveErase, InBucket
<1>. QED  BY <1>1, <1>2, <1>3, <1>4, <1>7, <1>8, <1>9, <1>10, <1>11, <1>12, <1>13, <1>14,
             <1>15, <1>16, <1>17, <1>18, <1>19, <1>22, <1>23, <1>24, <1>25, <1>26, <1>27,
             <1>28, <1>29 DEF Step, Resize, Access, Scan

\* One thread moves at a time.
LEMMA OthersStay ==
  ASSUME TypeOK, CallShape, NEW t \in Threads, Step(t), NEW u \in Threads \ {t}
  PROVE  pc'[u] = pc[u] /\ doing'[u] = doing[u] /\ todo'[u] = todo[u] /\ idx'[u] = idx[u]
<1>1. ASSUME NEW r, NEW found, Complete(t, r, found)
      PROVE  pc'[u] = pc[u] /\ doing'[u] = doing[u] /\ todo'[u] = todo[u]
  <2>. DEFINE next == Following(Current(t).op, doing[t], found)
  <2>1. \/ /\ pc' = [pc EXCEPT ![t] = "idle"]
           /\ todo' = [todo EXCEPT ![t] = Tail(@)]
           /\ UNCHANGED doing
        \/ /\ pc' = [pc EXCEPT ![t] = "tableLock"]
           /\ doing' = [doing EXCEPT ![t] = next]
           /\ UNCHANGED todo
    BY <1>1 DEF Complete
  <2>. QED  BY <2>1 DEF TypeOK
<1>2. ASSUME NEW from, NEW to, Goto(t, from, to) PROVE pc'[u] = pc[u]
  BY <1>2 DEF Goto, TypeOK
<1>3. ASSUME NEW x, idx' = [idx EXCEPT ![t] = x] PROVE idx'[u] = idx[u]
  BY <1>3 DEF TypeOK
<1>4. CASE Begin(t)
  BY <1>2, <1>4 DEF Begin, TypeOK
<1>5. CASE BoundCheckPasses(t) \/ LockTable(t) \/ ScanBegin(t) \/ ScanBucket(t)
  BY <1>2, <1>3, <1>5 DEF BoundCheckPasses, LockTable, ScanBegin, ScanBucket
<1>6. CASE BoundCheckFails(t) \/ ScanEnd(t)
  BY <1>1, <1>6 DEF BoundCheckFails, ScanEnd
<1>7. CASE CheckEmpty(t) \/ CheckLoad(t)
  BY <1>2, <1>3, <1>7 DEF CheckEmpty, CheckLoad, KeepSize, WantResize
<1>8. CASE Resize(t)
  BY <1>2, <1>3, <1>8 DEF Resize, ResizeNotNeeded, ResizeBegin, Collect, Rebuild, Refill, ResizeEnd
<1>9. CASE LockBucket(t) \/ StrayBucket(t)
  BY <1>1, <1>2, <1>9 DEF LockBucket, StrayBucket
<1>10. CASE Access(t)
  BY <1>1, <1>2, <1>10 DEF Access, Lookup, LookupFirst, CopyBucket, InsertPush, InsertCount,
                           RemoveMiss, RemoveCount, RemoveErase
<1>. QED  BY <1>4, <1>5, <1>6, <1>7, <1>8, <1>9, <1>10 DEF Step, Scan

\* Every operation ends in Complete.
LEMMA Ends ==
  ASSUME TypeOK, CallShape, InBucketExists, ErasesWhatItFound, NEW t \in Threads,
         \/ BoundCheckFails(t) \/ ScanEnd(t) \/ Lookup(t) \/ LookupFirst(t) \/ CopyBucket(t)
         \/ InsertCount(t) \/ RemoveMiss(t) \/ RemoveErase(t)
         \/ StrayBucket(t) /\ Complete(t, Garbage, FALSE)
  PROVE  \E r \in Values \cup Outcomes, found \in BOOLEAN :
           /\ Complete(t, r, found)
           /\ pc[t] \in {"boundCheck", "scan", "bucketLock"} \cup InBucket
<1>1. pc[t] \in InBucket => idx[t] \in DOMAIN storage
  BY DEF InBucketExists
<1>2. CASE BoundCheckFails(t) \/ ScanEnd(t) \/ CopyBucket(t) \/ InsertCount(t)
           \/ RemoveMiss(t) \/ (StrayBucket(t) /\ Complete(t, Garbage, FALSE))
  <2>1. {Missing, Copied, Inserted, Garbage} \subseteq Outcomes
    BY DEF Outcomes
  <2>2. PICK r \in {Missing, Copied, Inserted, Garbage}, found \in BOOLEAN : Complete(t, r, found)
    BY <1>2 DEF BoundCheckFails, ScanEnd, CopyBucket, InsertCount, RemoveMiss
  <2>3. pc[t] \in {"boundCheck", "scan", "bucketLock"} \cup InBucket
    BY <1>2 DEF BoundCheckFails, ScanEnd, CopyBucket, InsertCount, RemoveMiss, StrayBucket,
                InBucket
  <2>4. r \in Values \cup Outcomes
    BY <2>1
  <2>. QED  BY <2>2, <2>3, <2>4, Zenon
<1>3. CASE Lookup(t)
  <2>1. pc[t] = "access" /\ doing[t] \in {"get", "subscript"}
    BY <1>3 DEF Lookup
  <2>2. CASE Found(t) /\ Complete(t, Value(t), TRUE)
    <3>1. Value(t) \in Values
      BY <1>1, <2>1, <2>2, ListType DEF InBucket
    <3>. QED  BY <2>1, <2>2, <3>1 DEF InBucket
  <2>3. CASE Complete(t, IF doing[t] = "get" THEN Missing ELSE Garbage, FALSE)
    <3>1. (IF doing[t] = "get" THEN Missing ELSE Garbage) \in Outcomes
      BY DEF Outcomes
    <3>. QED  BY <2>1, <2>3, <3>1 DEF InBucket
  <2>. QED  BY <1>3, <2>2, <2>3 DEF Lookup
<1>4. CASE LookupFirst(t)
  <2>1. Found(t) \in BOOLEAN /\ (IF Found(t) THEN Refused ELSE Missing) \in Outcomes
    BY DEF Found, Outcomes
  <2>2. pc[t] = "access" /\ Complete(t, IF Found(t) THEN Refused ELSE Missing, Found(t))
    BY <1>4 DEF LookupFirst
  <2>. QED  BY <2>1, <2>2 DEF InBucket
<1>5. CASE RemoveErase(t)
  <2>1. pc[t] = "removeErase" /\ Complete(t, Value(t), TRUE)
    BY <1>5 DEF RemoveErase
  <2>2. Found(t) /\ doing[t] = "remove"
    BY <2>1 DEF ErasesWhatItFound, CallShape
  <2>3. Value(t) \in Values
    BY <1>1, <2>1, <2>2, ListType DEF InBucket
  <2>. QED  BY <2>1, <2>3 DEF InBucket
<1>. QED  BY <1>2, <1>3, <1>4, <1>5

LEMMA CallShapeStep ==
  ASSUME TypeOK, TypeOK', CallShape, InBucketExists, ErasesWhatItFound, Next
  PROVE  CallShape'
<1>. PICK t \in Threads : Step(t)
  BY DEF Next
<1>0. /\ pc \in [Threads -> Labels] /\ doing \in [Threads -> Operations]
      /\ todo \in [Threads -> Seq(Call)]
  BY DEF TypeOK
<1>. DEFINE Shape(u) ==
       pc[u] # "idle" =>
         /\ todo[u] # << >>
         /\ doing[u] \in OpsOf(Current(u).op)
         /\ pc[u] = "boundCheck" => doing[u] = "bucket"
         /\ pc[u] \in {"checkEmpty", "checkLoad", "resizeLock", "resizeCollect", "resizeFill"}
              => doing[u] \in {"insert", "remove"}
         /\ pc[u] \in {"scanLock", "scan"} => doing[u] = "scan"
         /\ pc[u] \in {"bucketLock", "access"} => doing[u] # "scan"
         /\ pc[u] = "insertCount" => doing[u] = "insert"
         /\ pc[u] = "removeErase" => doing[u] = "remove"
<1>1. \A u \in Threads : Shape(u)
  BY DEF CallShape
<1>2. ASSUME NEW u \in Threads \ {t} PROVE Shape(u)'
  BY <1>1, OthersStay DEF Current
<1>3. Shape(t)'
  <2>1. ASSUME NEW r \in Values \cup Outcomes, NEW found \in BOOLEAN, Complete(t, r, found),
               pc[t] # "idle"
        PROVE  Shape(t)'
    <3>1. /\ pc'[t] \in {"idle", "tableLock"}
          /\ pc'[t] = "tableLock" =>
               todo'[t] = todo[t] /\ doing'[t] \in OpsOf(Current(t).op)
      BY <2>1, CompleteStep
    <3>2. todo[t] # << >>
      BY <2>1 DEF CallShape
    <3>. QED  BY <3>1, <3>2 DEF Current
  <2>2. CASE \/ BoundCheckFails(t) \/ ScanEnd(t) \/ Lookup(t) \/ LookupFirst(t)
             \/ CopyBucket(t) \/ InsertCount(t) \/ RemoveMiss(t) \/ RemoveErase(t)
             \/ StrayBucket(t) /\ Complete(t, Garbage, FALSE)
    BY <2>1, <2>2, Ends DEF InBucket
  <2>3. CASE Begin(t)
    <3>1. todo'[t] = todo[t] /\ todo[t] # << >> /\ Current(t) \in Call
      BY <1>0, <2>3 DEF Begin, Current
    <3>2. FirstOf(Current(t).op) \in OpsOf(Current(t).op)
          /\ (Current(t).op = "bucket" => FirstOf(Current(t).op) = "bucket")
      BY <3>1, CallType DEF FirstOf, OpsOf
    <3>3. /\ doing'[t] = FirstOf(Current(t).op)
          /\ pc'[t] = IF Current(t).op = "bucket" THEN "boundCheck" ELSE "tableLock"
      BY <1>0, <2>3 DEF Begin, Goto
    <3>. QED  BY <3>1, <3>2, <3>3 DEF Current
  <2>4. ASSUME UNCHANGED <<doing, todo>>, NEW from \in Labels \ {"idle"}, NEW to \in Labels,
               Goto(t, from, to),
               to = "boundCheck" => doing[t] = "bucket",
               to \in {"checkEmpty", "checkLoad", "resizeLock", "resizeCollect", "resizeFill"}
                 => doing[t] \in {"insert", "remove"},
               to \in {"scanLock", "scan"} => doing[t] = "scan",
               to \in {"bucketLock", "access"} => doing[t] # "scan",
               to = "insertCount" => doing[t] = "insert",
               to = "removeErase" => doing[t] = "remove"
        PROVE  Shape(t)'
    <3>1. pc[t] = from /\ pc'[t] = to /\ doing'[t] = doing[t] /\ todo'[t] = todo[t]
      BY <1>0, <2>4 DEF Goto
    <3>2. todo[t] # << >> /\ doing[t] \in OpsOf(Current(t).op)
      BY <1>1, <2>4, <3>1
    <3>. QED  BY <2>4, <3>1, <3>2 DEF Current
  <2>. HIDE DEF Shape
  <2>5. CASE BoundCheckPasses(t)
    <3>1. doing[t] # "scan"
      BY <2>5 DEF CallShape, BoundCheckPasses, Goto
    <3>. QED  BY <2>4, <2>5, <3>1 DEF BoundCheckPasses, Labels
  <2>6. CASE LockTable(t)
    BY <2>4, <2>6 DEF LockTable, Labels
  <2>7. ASSUME NEW label \in {"checkEmpty", "checkLoad"},
               KeepSize(t, label) \/ WantResize(t, label)
        PROVE  Shape(t)'
    <3>1. pc[t] = label /\ doing[t] \in {"insert", "remove"}
      BY <2>7 DEF CallShape, KeepSize, WantResize, Goto
    <3>2. CASE KeepSize(t, label)
      BY <2>4, <3>1, <3>2 DEF KeepSize, Labels
    <3>3. CASE WantResize(t, label)
      BY <2>4, <3>1, <3>3 DEF WantResize, Labels
    <3>. QED  BY <2>7, <3>2, <3>3
  <2>8. CASE CheckEmpty(t)
    <3>1. CASE Goto(t, "checkEmpty", "checkLoad") /\ UNCHANGED <<doing, todo>>
      <4>1. doing[t] \in {"insert", "remove"}
        BY <3>1 DEF CallShape, Goto
      <4>. QED  BY <2>4, <3>1, <4>1 DEF Labels
    <3>. QED  BY <2>7, <2>8, <3>1 DEF CheckEmpty
  <2>9. CASE CheckLoad(t)
    BY <2>7, <2>9 DEF CheckLoad
  <2>10. CASE ScanBegin(t)
    <3>1. doing[t] = "scan"
      BY <2>10 DEF CallShape, ScanBegin, Goto
    <3>. QED  BY <2>4, <2>10, <3>1 DEF ScanBegin, Labels
  <2>11. CASE ScanBucket(t) \/ Collect(t) \/ Refill(t)
    BY <1>1, <2>11 DEF ScanBucket, Collect, Refill, Shape, Current
  <2>12. CASE ResizeNotNeeded(t) \/ ResizeEnd(t)
    BY <2>4, <2>12 DEF ResizeNotNeeded, ResizeEnd, Labels
  <2>13. CASE ResizeBegin(t) \/ Rebuild(t)
    <3>1. doing[t] \in {"insert", "remove"}
      BY <2>13 DEF CallShape, ResizeBegin, Rebuild, Goto
    <3>2. UNCHANGED <<doing, todo>>
      BY <2>13 DEF ResizeBegin, Rebuild
    <3>3. \/ Goto(t, "resizeLock", "resizeCollect")
          \/ Goto(t, "resizeCollect", "resizeFill")
      BY <2>13 DEF ResizeBegin, Rebuild
    <3>. QED  BY <2>4, <3>1, <3>2, <3>3 DEF Labels
  <2>14. CASE LockBucket(t)
    <3>1. doing[t] # "scan"
      BY <2>14 DEF CallShape, LockBucket, Goto
    <3>. QED  BY <2>4, <2>14, <3>1 DEF LockBucket, Labels
  <2>15. CASE Goto(t, "bucketLock", "stuck") /\ UNCHANGED <<readers, doing, todo, result>>
    BY <2>4, <2>15 DEF Labels
  <2>16. CASE InsertPush(t)
    BY <2>4, <2>16 DEF InsertPush, Labels
  <2>17. CASE RemoveCount(t)
    BY <2>4, <2>17 DEF RemoveCount, Labels
  <2>. QED  BY <2>2, <2>3, <2>5, <2>6, <2>8, <2>9, <2>10, <2>11, <2>12, <2>13, <2>14, <2>15,
               <2>16, <2>17 DEF Step, Resize, Access, Scan, StrayBucket
<1>. HIDE DEF Shape
<1>4. \A u \in Threads : Shape(u)'
  BY <1>2, <1>3
<1>. QED  BY <1>4 DEF Shape, CallShape, Current

(***************************************************************************)
(* The locks.                                                              *)
(***************************************************************************)
\* What the steps do to _mutex: nothing, lock or unlock it in read mode, lock or
\* unlock it in write mode.
LEMMA TableLockMoves ==
  ASSUME TypeOK, CallShape, InBucketExists, ErasesWhatItFound,
         NEW t \in Threads, Step(t)
  PROVE  \/ /\ UNCHANGED <<readers, writer>>
            /\ pc[t] \in Reading <=> pc'[t] \in Reading
            /\ pc[t] \in Resizing <=> pc'[t] \in Resizing
         \/ /\ readers' = readers \cup {t} /\ writer = Nobody /\ writer' = Nobody
            /\ pc[t] = "tableLock" /\ pc'[t] \in Reading
         \/ /\ readers' = readers \ {t} /\ writer' = writer
            /\ pc[t] \notin Resizing /\ pc'[t] \notin Reading \cup Resizing
         \/ /\ writer = Nobody /\ readers = {} /\ writer' = t /\ readers' = readers
            /\ pc'[t] \in Resizing
         \/ /\ writer' = Nobody /\ readers' = readers
            /\ pc[t] \in Resizing /\ pc'[t] = "tableLock"
<1>0. pc \in [Threads -> Labels]
  BY DEF TypeOK
<1>1. CASE \/ BoundCheckFails(t) \/ ScanEnd(t) \/ Lookup(t) \/ LookupFirst(t)
           \/ CopyBucket(t) \/ InsertCount(t) \/ RemoveMiss(t) \/ RemoveErase(t)
           \/ StrayBucket(t) /\ Complete(t, Garbage, FALSE)
  <2>1. PICK r \in Values \cup Outcomes, found \in BOOLEAN :
          /\ Complete(t, r, found)
          /\ pc[t] \in {"boundCheck", "scan", "bucketLock"} \cup InBucket
    BY <1>1, Ends
  <2>2. readers' = readers \ {t} /\ pc'[t] \in {"idle", "tableLock"}
    BY <2>1, CompleteStep DEF InBucket
  <2>3. writer' = writer
    BY <1>1 DEF BoundCheckFails, ScanEnd, Lookup, LookupFirst, CopyBucket, InsertCount,
                RemoveMiss, RemoveErase, StrayBucket
  <2>. QED  BY <2>1, <2>2, <2>3 DEF Reading, Resizing, InBucket
<1>2. CASE Begin(t) \/ BoundCheckPasses(t) \/ ScanBegin(t)
  BY <1>0, <1>2 DEF Begin, BoundCheckPasses, ScanBegin, Goto, Reading, Resizing
<1>3. CASE LockTable(t)
  BY <1>0, <1>3 DEF LockTable, MayLockShared, Goto, Reading
<1>4. ASSUME NEW label \in {"checkEmpty", "checkLoad"}, KeepSize(t, label)
      PROVE  /\ UNCHANGED <<readers, writer>>
             /\ pc[t] \in Reading /\ pc'[t] \in Reading
             /\ pc[t] \notin Resizing /\ pc'[t] \notin Resizing
  BY <1>0, <1>4 DEF KeepSize, Goto, Reading, Resizing
<1>5. ASSUME NEW label \in {"checkEmpty", "checkLoad"}, WantResize(t, label)
      PROVE  /\ readers' = readers \ {t} /\ writer' = writer
             /\ pc[t] \notin Resizing /\ pc'[t] \notin Reading \cup Resizing
  BY <1>0, <1>5 DEF WantResize, Goto, Reading, Resizing
<1>6. CASE CheckEmpty(t)
  <2>1. CASE Goto(t, "checkEmpty", "checkLoad") /\ UNCHANGED <<readers, writer>>
    BY <1>0, <2>1 DEF Goto, Reading, Resizing
  <2>. QED  BY <1>4, <1>5, <1>6, <2>1 DEF CheckEmpty
<1>7. CASE CheckLoad(t)
  BY <1>4, <1>5, <1>7 DEF CheckLoad
<1>8. CASE ResizeNotNeeded(t) \/ Rebuild(t)
  BY <1>0, <1>8 DEF ResizeNotNeeded, Rebuild, Goto, Reading, Resizing
<1>9. CASE ResizeBegin(t)
  BY <1>0, <1>9 DEF ResizeBegin, MayLockExclusive, Goto, Resizing
<1>10. CASE ScanBucket(t) \/ Collect(t) \/ Refill(t)
  BY <1>10 DEF ScanBucket, Collect, Refill
<1>11. CASE ResizeEnd(t)
  BY <1>0, <1>11 DEF ResizeEnd, Goto, Resizing
<1>12. CASE LockBucket(t) \/ InsertPush(t) \/ RemoveCount(t)
  BY <1>0, <1>12 DEF LockBucket, InsertPush, RemoveCount, Goto, Reading, Resizing
<1>13. CASE StrayBucket(t) /\ Goto(t, "bucketLock", "stuck") /\ UNCHANGED <<readers, doing, todo, result>>
  BY <1>0, <1>13 DEF StrayBucket, Goto, Reading, Resizing
<1>. QED  BY <1>1, <1>2, <1>3, <1>6, <1>7, <1>8, <1>9, <1>10, <1>11, <1>12, <1>13
          DEF Step, Resize, Access, Scan, StrayBucket

\* What the steps do to the locks of the buckets: nothing, lock or unlock the
\* bucket of the thread, or replace all buckets.
LEMMA BucketLockMoves ==
  ASSUME TypeOK, CallShape, InBucketExists, ErasesWhatItFound,
         NEW t \in Threads, Step(t)
  PROVE  \/ /\ DOMAIN storage' = DOMAIN storage
            /\ \A i \in DOMAIN storage : /\ storage'[i].owner = storage[i].owner
                                         /\ storage'[i].sharers = storage[i].sharers
            /\ pc[t] \in InBucket <=> pc'[t] \in InBucket
            /\ pc[t] \in InBucket => idx'[t] = idx[t] /\ doing'[t] = doing[t]
         \/ LockBucket(t)
         \/ /\ DOMAIN storage' = DOMAIN storage
            /\ \A i \in DOMAIN storage : i # idx[t] => storage'[i] = storage[i]
            /\ storage'[idx[t]].owner = IF storage[idx[t]].owner = t THEN Nobody
                                        ELSE storage[idx[t]].owner
            /\ storage'[idx[t]].sharers = storage[idx[t]].sharers \ {t}
            /\ pc[t] \in InBucket /\ pc'[t] \notin InBucket
         \/ /\ pc[t] = "resizeCollect" /\ pc'[t] = "resizeFill"
            /\ \A i \in DOMAIN storage' : storage'[i].owner = Nobody /\ storage'[i].sharers = {}
<1>0. pc \in [Threads -> Labels]
  BY DEF TypeOK
<1>1. ASSUME NEW l \in Seq(Entry), storage' = Unlocked(t, l), pc[t] \in InBucket, UNCHANGED capacity
      PROVE  /\ DOMAIN storage' = DOMAIN storage
             /\ \A i \in DOMAIN storage : i # idx[t] => storage'[i] = storage[i]
             /\ storage'[idx[t]].owner = IF storage[idx[t]].owner = t THEN Nobody
                                         ELSE storage[idx[t]].owner
             /\ storage'[idx[t]].sharers = storage[idx[t]].sharers \ {t}
  BY <1>1, UnlockStep DEF InBucketExists
<1>2. CASE \/ Lookup(t) \/ LookupFirst(t) \/ CopyBucket(t) \/ InsertCount(t)
           \/ RemoveMiss(t) \/ RemoveErase(t)
  <2>1. PICK r \in Values \cup Outcomes, found \in BOOLEAN : Complete(t, r, found)
    BY <1>2, Ends
  <2>2. pc[t] \in InBucket /\ UNCHANGED capacity
    BY <1>2 DEF Lookup, LookupFirst, CopyBucket, InsertCount, RemoveMiss, RemoveErase, InBucket
  <2>3. pc'[t] \notin InBucket
    BY <2>1, <2>2, CompleteStep DEF InBucket
  <2>4. List(t) \in Seq(Entry)
    BY <2>2, ListType DEF InBucketExists
  <2>5. CASE \/ Lookup(t) \/ LookupFirst(t) \/ CopyBucket(t) \/ InsertCount(t) \/ RemoveMiss(t)
    <3>1. storage' = Unlocked(t, List(t))
      BY <2>5 DEF Lookup, LookupFirst, CopyBucket, InsertCount, RemoveMiss
    <3>. QED  BY <1>1, <2>2, <2>3, <2>4, <3>1
  <2>6. CASE RemoveErase(t)
    <3>. DEFINE l == Erase(List(t), FirstAt(List(t), Current(t).key))
    <3>1. l \in Seq(Entry)
      BY <2>2, <2>6, ListType DEF RemoveErase, ErasesWhatItFound, CallShape, InBucketExists
    <3>2. storage' = Unlocked(t, l)
      BY <2>6 DEF RemoveErase
    <3>. QED  BY <1>1, <2>2, <2>3, <3>1, <3>2
  <2>. QED  BY <1>2, <2>5, <2>6
<1>3. ASSUME UNCHANGED storage, pc[t] \notin InBucket, pc'[t] \notin InBucket
      PROVE  /\ DOMAIN storage' = DOMAIN storage
             /\ \A i \in DOMAIN storage : /\ storage'[i].owner = storage[i].owner
                                          /\ storage'[i].sharers = storage[i].sharers
             /\ pc[t] \in InBucket <=> pc'[t] \in InBucket
             /\ pc[t] \in InBucket => idx'[t] = idx[t] /\ doing'[t] = doing[t]
  BY <1>3
<1>4. CASE BoundCheckFails(t) \/ ScanEnd(t) \/ (StrayBucket(t) /\ Complete(t, Garbage, FALSE))
  <2>1. PICK r \in Values \cup Outcomes, found \in BOOLEAN : Complete(t, r, found)
    BY <1>4, Ends
  <2>2. pc[t] \in {"boundCheck", "scan", "bucketLock"} /\ UNCHANGED storage
    BY <1>4 DEF BoundCheckFails, ScanEnd, StrayBucket, tableVars
  <2>3. pc'[t] \in {"idle", "tableLock"}
    BY <2>1, <2>2, CompleteStep
  <2>. QED  BY <1>3, <2>2, <2>3 DEF InBucket
<1>5. CASE \/ Begin(t) \/ BoundCheckPasses(t) \/ LockTable(t) \/ ScanBegin(t)
           \/ ResizeNotNeeded(t) \/ ResizeBegin(t) \/ ResizeEnd(t)
           \/ StrayBucket(t) /\ Goto(t, "bucketLock", "stuck")
  <2>1. UNCHANGED storage
    BY <1>5 DEF Begin, BoundCheckPasses, LockTable, ScanBegin, ResizeNotNeeded, ResizeBegin,
                ResizeEnd, StrayBucket, tableVars
  <2>2. pc[t] \notin InBucket /\ pc'[t] \notin InBucket
    BY <1>0, <1>5 DEF Begin, BoundCheckPasses, LockTable, ScanBegin, ResizeNotNeeded,
                      ResizeBegin, ResizeEnd, Goto, InBucket
  <2>. QED  BY <1>3, <2>1, <2>2
<1>6. CASE CheckEmpty(t) \/ CheckLoad(t)
  <2>1. UNCHANGED storage
    BY <1>6 DEF CheckEmpty, CheckLoad, KeepSize, WantResize, tableVars
  <2>2. pc[t] \notin InBucket /\ pc'[t] \notin InBucket
    BY <1>0, <1>6 DEF CheckEmpty, CheckLoad, KeepSize, WantResize, Goto, InBucket
  <2>. QED  BY <1>3, <2>1, <2>2
<1>7. CASE ScanBucket(t)
  BY <1>3, <1>7 DEF ScanBucket, tableVars, InBucket
<1>8. ASSUME NEW i \in DOMAIN storage, NEW l, storage' = [storage EXCEPT ![i].l = l]
      PROVE  /\ DOMAIN storage' = DOMAIN storage
             /\ \A j \in DOMAIN storage : /\ storage'[j].owner = storage[j].owner
                                          /\ storage'[j].sharers = storage[j].sharers
  <2>1. storage[i] = [l |-> storage[i].l, owner |-> storage[i].owner,
                      sharers |-> storage[i].sharers]
    BY StorageType, NodeUpdate
  <2>. DEFINE n == [storage[i] EXCEPT !.l = l]
  <2>2. n.owner = storage[i].owner /\ n.sharers = storage[i].sharers
    BY <2>1
  <2>3. storage' = [storage EXCEPT ![i] = n]
    BY <1>8
  <2>. HIDE DEF n
  <2>. QED  BY <2>2, <2>3
<1>9. CASE Collect(t)
  <2>1. idx[t] \in DOMAIN storage /\ storage' = [storage EXCEPT ![idx[t]].l = << >>]
    BY <1>9, StorageType DEF Collect, TypeOK
  <2>2. UNCHANGED pc /\ pc[t] \notin InBucket
    BY <1>9 DEF Collect, InBucket
  <2>. QED  BY <1>8, <2>1, <2>2
<1>10. CASE Refill(t)
  <2>. DEFINE h == Hash(Head(pending).key)
              l == Append(storage[h].l, Head(pending))
  <2>1. Head(pending) \in Entry
    BY <1>10 DEF Refill, TypeOK
  <2>2. h \in DOMAIN storage
    BY <2>1, HashType, StorageType DEF Entry
  <2>3. storage' = [storage EXCEPT ![h].l = l]
    BY <1>10 DEF Refill
  <2>. HIDE DEF h, l
  <2>4. UNCHANGED pc /\ pc[t] \notin InBucket
    BY <1>10 DEF Refill, InBucket
  <2>. QED  BY <1>8, <2>2, <2>3, <2>4
<1>11. CASE InsertPush(t)
  <2>1. pc[t] = "access" /\ pc'[t] = "insertCount" /\ UNCHANGED <<idx, doing>>
    BY <1>0, <1>11 DEF InsertPush, Goto
  <2>2. idx[t] \in DOMAIN storage
    BY <2>1 DEF InBucketExists, InBucket
  <2>3. \E l : storage' = [storage EXCEPT ![idx[t]].l = l]
    BY <1>11 DEF InsertPush
  <2>. QED  BY <1>8, <2>1, <2>2, <2>3 DEF InBucket
<1>12. CASE RemoveCount(t)
  BY <1>0, <1>12 DEF RemoveCount, Goto, InBucket
<1>13. CASE Rebuild(t)
  <2>1. pc[t] = "resizeCollect" /\ pc'[t] = "resizeFill"
    BY <1>0, <1>13 DEF Rebuild, Goto
  <2>. QED  BY <1>13, <2>1 DEF Rebuild, NewNode
<1>. QED  BY <1>2, <1>4, <1>5, <1>6, <1>7, <1>9, <1>10, <1>11, <1>12, <1>13
          DEF Step, Resize, Access, Scan, StrayBucket

LEMMA LocksHeldStep ==
  ASSUME TypeOK, TypeOK', CallShape, LocksHeld, InBucketExists, ErasesWhatItFound, Next
  PROVE  LocksHeld'
<1>. PICK t \in Threads : Step(t)
  BY DEF Next
<1>0. /\ \A u \in Threads \ {t} : pc'[u] = pc[u] /\ doing'[u] = doing[u] /\ idx'[u] = idx[u]
      /\ Nobody \notin Threads
      /\ readers = {u \in Threads : pc[u] \in Reading} /\ readers \subseteq Threads
      /\ \A u \in Threads : writer = u <=> pc[u] \in Resizing
      /\ writer # Nobody => readers = {}
      /\ writer \in Threads \cup {Nobody}
  BY OthersStay, TableAssumption DEF LocksHeld, TypeOK
<1>1. /\ readers' = {u \in Threads : pc'[u] \in Reading}
      /\ \A u \in Threads : writer' = u <=> pc'[u] \in Resizing
      /\ writer' # Nobody => readers' = {}
  <2>0. /\ "tableLock" \notin Reading \cup Resizing
        /\ Reading \cap Resizing = {}
    BY DEF Reading, Resizing
  <2>1. CASE /\ UNCHANGED <<readers, writer>>
             /\ pc[t] \in Reading <=> pc'[t] \in Reading
             /\ pc[t] \in Resizing <=> pc'[t] \in Resizing
    BY <1>0, <2>1
  <2>2. CASE /\ readers' = readers \cup {t} /\ writer = Nobody /\ writer' = Nobody
             /\ pc[t] = "tableLock" /\ pc'[t] \in Reading
    BY <1>0, <2>0, <2>2
  <2>3. CASE /\ readers' = readers \ {t} /\ writer' = writer
             /\ pc[t] \notin Resizing /\ pc'[t] \notin Reading \cup Resizing
    BY <1>0, <2>3
  <2>4. CASE /\ writer = Nobody /\ readers = {} /\ writer' = t /\ readers' = readers
             /\ pc'[t] \in Resizing
    BY <1>0, <2>0, <2>4
  <2>5. CASE /\ writer' = Nobody /\ readers' = readers
             /\ pc[t] \in Resizing /\ pc'[t] = "tableLock"
    BY <1>0, <2>0, <2>5
  <2>. QED  BY <2>1, <2>2, <2>3, <2>4, <2>5, TableLockMoves
<1>. DEFINE Holds(i) ==
       /\ storage[i].sharers = {u \in Threads : pc[u] \in InBucket /\ Shares(u) /\ idx[u] = i}
       /\ \A u \in Threads :
            storage[i].owner = u <=> pc[u] \in InBucket /\ ~Shares(u) /\ idx[u] = i
       /\ storage[i].owner # Nobody => storage[i].sharers = {}
<1>2. \A i \in DOMAIN storage : Holds(i)
  BY DEF LocksHeld
<1>3. ASSUME NEW i \in DOMAIN storage' PROVE Holds(i)'
  <2>1. ASSUME NEW u \in Threads \ {t} PROVE Shares(u)' <=> Shares(u)
    BY <1>0 DEF Shares
  <2>2. CASE /\ DOMAIN storage' = DOMAIN storage
             /\ \A j \in DOMAIN storage : /\ storage'[j].owner = storage[j].owner
                                          /\ storage'[j].sharers = storage[j].sharers
             /\ pc[t] \in InBucket <=> pc'[t] \in InBucket
             /\ pc[t] \in InBucket => idx'[t] = idx[t] /\ doing'[t] = doing[t]
    <3>1. \A u \in Threads :
            /\ pc'[u] \in InBucket <=> pc[u] \in InBucket
            /\ pc[u] \in InBucket => idx'[u] = idx[u] /\ (Shares(u)' <=> Shares(u))
      BY <1>0, <2>1, <2>2 DEF Shares
    <3>2. /\ storage'[i].owner = storage[i].owner /\ storage'[i].sharers = storage[i].sharers
          /\ Holds(i)
      BY <1>2, <2>2
    <3>. HIDE DEF Shares
    <3>. QED  BY <3>1, <3>2
  <2>3. CASE LockBucket(t)
    <3>1. /\ pc[t] \notin InBucket /\ pc'[t] \in InBucket /\ UNCHANGED <<idx, doing>>
          /\ idx[t] \in DOMAIN storage
          /\ storage[idx[t]].owner = Nobody
          /\ ~Shares(t) => storage[idx[t]].sharers = {}
      BY <2>3 DEF LockBucket, Goto, TypeOK, InBucket
    <3>2. storage[idx[t]] = [l |-> storage[idx[t]].l, owner |-> storage[idx[t]].owner,
                             sharers |-> storage[idx[t]].sharers]
      BY <3>1, StorageType, NodeUpdate
    <3>3. \A u \in Threads : Shares(u)' <=> Shares(u)
      BY <3>1 DEF Shares
    <3>4. storage' = IF Shares(t) THEN [storage EXCEPT ![idx[t]].sharers = @ \cup {t}]
                                  ELSE [storage EXCEPT ![idx[t]].owner = t]
      BY <2>3 DEF LockBucket
    <3>5. DOMAIN storage' = DOMAIN storage /\ Holds(i)
      BY <1>2, <3>4
    <3>6. i # idx[t] => storage'[i] = storage[i]
      BY <3>4, <3>5
    <3>7. CASE i # idx[t]
      BY <1>0, <3>1, <3>3, <3>5, <3>6, <3>7
    <3>8. CASE i = idx[t] /\ Shares(t)
      <4>1. /\ storage'[i].owner = Nobody
            /\ storage'[i].sharers = storage[i].sharers \cup {t}
        BY <3>1, <3>2, <3>4, <3>8
      <4>. QED  BY <1>0, <3>1, <3>3, <3>5, <3>8, <4>1
    <3>9. CASE i = idx[t] /\ ~Shares(t)
      <4>1. /\ storage'[i].owner = t
            /\ storage'[i].sharers = {}
        BY <3>1, <3>2, <3>4, <3>9
      <4>2. storage[i].sharers = {} /\ storage[i].owner = Nobody
        BY <3>1, <3>9
      <4>. QED  BY <1>0, <3>1, <3>3, <3>5, <3>9, <4>1, <4>2
    <3>. QED  BY <3>7, <3>8, <3>9
  <2>4. CASE /\ DOMAIN storage' = DOMAIN storage
             /\ \A j \in DOMAIN storage : j # idx[t] => storage'[j] = storage[j]
             /\ storage'[idx[t]].owner = IF storage[idx[t]].owner = t THEN Nobody
                                         ELSE storage[idx[t]].owner
             /\ storage'[idx[t]].sharers = storage[idx[t]].sharers \ {t}
             /\ pc[t] \in InBucket /\ pc'[t] \notin InBucket
    <3>1. Holds(i)
      BY <1>2, <2>4
    <3>. HIDE DEF Shares
    <3>2. CASE i # idx[t]
      BY <1>0, <2>1, <2>4, <3>1, <3>2
    <3>3. CASE i = idx[t]
      BY <1>0, <2>1, <2>4, <3>1, <3>3
    <3>. QED  BY <3>2, <3>3
  <2>5. CASE /\ pc[t] = "resizeCollect" /\ pc'[t] = "resizeFill"
             /\ \A j \in DOMAIN storage' : storage'[j].owner = Nobody /\ storage'[j].sharers = {}
    <3>1. readers = {}
      BY <1>0, <2>5 DEF Resizing
    <3>2. \A u \in Threads : pc'[u] \notin InBucket
      BY <1>0, <2>5, <3>1 DEF InBucket, Reading
    <3>. QED  BY <1>0, <2>5, <3>2
  <2>. QED  BY <2>2, <2>3, <2>4, <2>5, BucketLockMoves
<1>. QED  BY <1>1, <1>3 DEF LocksHeld

(***************************************************************************)
(* The lists of the buckets.                                               *)
(***************************************************************************)
\* What the steps do to the lists: nothing, something while _mutex is held in
\* write mode, or something in one bucket that is locked in write mode.
LEMMA ListMoves ==
  ASSUME TypeOK, CallShape, InBucketExists, ErasesWhatItFound,
         NEW t \in Threads, Step(t)
  PROVE  \/ /\ UNCHANGED capacity /\ DOMAIN storage' = DOMAIN storage
            /\ \A i \in DOMAIN storage : storage'[i].l = storage[i].l
         \/ Collect(t) \/ Rebuild(t) \/ Refill(t)
         \/ /\ InsertPush(t) \/ RemoveErase(t)
            /\ UNCHANGED capacity /\ DOMAIN storage' = DOMAIN storage
            /\ \A i \in DOMAIN storage : i # idx[t] => storage'[i].l = storage[i].l
<1>1. CASE UNCHANGED <<storage, capacity>>
  BY <1>1
<1>2. CASE \/ Lookup(t) \/ LookupFirst(t) \/ CopyBucket(t) \/ InsertCount(t)
           \/ RemoveMiss(t)
  <2>1. storage' = Unlocked(t, List(t)) /\ pc[t] \in InBucket /\ UNCHANGED capacity
    BY <1>2 DEF Lookup, LookupFirst, CopyBucket, InsertCount, RemoveMiss, InBucket
  <2>2. idx[t] \in DOMAIN storage /\ List(t) \in Seq(Entry)
    BY <2>1, ListType DEF InBucketExists
  <2>3. /\ DOMAIN storage' = DOMAIN storage
        /\ \A i \in DOMAIN storage : i # idx[t] => storage'[i] = storage[i]
        /\ storage'[idx[t]].l = List(t)
    BY <2>1, <2>2, UnlockStep
  <2>. QED  BY <2>1, <2>3 DEF List
<1>3. CASE RemoveErase(t)
  <2>. DEFINE l == Erase(List(t), FirstAt(List(t), Current(t).key))
  <2>1. /\ storage' = Unlocked(t, l) /\ UNCHANGED capacity
        /\ idx[t] \in DOMAIN storage /\ l \in Seq(Entry)
    BY <1>3, ListType
       DEF RemoveErase, ErasesWhatItFound, CallShape, InBucketExists, InBucket
  <2>. HIDE DEF l
  <2>. QED  BY <1>3, <2>1, UnlockStep
<1>4. CASE InsertPush(t)
  <2>1. /\ \E l : storage' = [storage EXCEPT ![idx[t]].l = l]
        /\ UNCHANGED capacity
    BY <1>4 DEF InsertPush
  <2>. QED  BY <1>4, <2>1
<1>5. CASE LockBucket(t)
  <2>1. idx[t] \in DOMAIN storage /\ UNCHANGED capacity
    BY <1>5 DEF LockBucket
  <2>2. storage[idx[t]] = [l |-> storage[idx[t]].l, owner |-> storage[idx[t]].owner,
                           sharers |-> storage[idx[t]].sharers]
    BY <2>1, StorageType, NodeUpdate
  <2>3. \/ storage' = [storage EXCEPT ![idx[t]].sharers = @ \cup {t}]
        \/ storage' = [storage EXCEPT ![idx[t]].owner = t]
    BY <1>5 DEF LockBucket
  <2>4. storage'[idx[t]].l = storage[idx[t]].l
    BY <2>1, <2>2, <2>3
  <2>5. /\ DOMAIN storage' = DOMAIN storage
        /\ \A i \in DOMAIN storage : i # idx[t] => storage'[i] = storage[i]
    BY <2>3
  <2>. QED  BY <2>1, <2>4, <2>5
<1>6. CASE \/ Begin(t) \/ BoundCheckPasses(t) \/ BoundCheckFails(t) \/ LockTable(t)
           \/ ScanBegin(t) \/ ScanBucket(t) \/ ScanEnd(t)
           \/ ResizeNotNeeded(t) \/ ResizeBegin(t) \/ ResizeEnd(t)
           \/ StrayBucket(t) \/ RemoveCount(t)
  BY <1>1, <1>6 DEF Begin, BoundCheckPasses, BoundCheckFails, LockTable, ScanBegin, ScanBucket,
                    ScanEnd, ResizeNotNeeded, ResizeBegin, ResizeEnd, StrayBucket, RemoveCount,
                    tableVars
<1>7. CASE CheckEmpty(t) \/ CheckLoad(t)
  BY <1>1, <1>7 DEF CheckEmpty, CheckLoad, KeepSize, WantResize, tableVars
<1>. QED  BY <1>2, <1>3, <1>4, <1>5, <1>6, <1>7 DEF Step, Resize, Access, Scan

\* While a thread reads the table nobody changes its shape, and while a thread
\* holds a bucket in write mode nobody else changes what is in it.
LEMMA Undisturbed ==
  ASSUME IInv, NEW t \in Threads, Step(t), NEW u \in Threads \ {t}, pc[u] \in Reading
  PROVE  /\ UNCHANGED capacity /\ DOMAIN storage' = DOMAIN storage
         /\ Current(u)' = Current(u) /\ doing'[u] = doing[u] /\ idx'[u] = idx[u]
         /\ pc[u] \in InBucket /\ ~Shares(u) => List(u)' = List(u)
<1>1. pc'[u] = pc[u] /\ doing'[u] = doing[u] /\ todo'[u] = todo[u] /\ idx'[u] = idx[u]
  BY OthersStay DEF IInv, Control
<1>2. pc[t] \notin Resizing
  BY TableAssumption DEF IInv, Control, LocksHeld, TypeOK
<1>3. \/ /\ UNCHANGED capacity /\ DOMAIN storage' = DOMAIN storage
         /\ \A i \in DOMAIN storage : storage'[i].l = storage[i].l
      \/ /\ InsertPush(t) \/ RemoveErase(t)
         /\ UNCHANGED capacity /\ DOMAIN storage' = DOMAIN storage
         /\ \A i \in DOMAIN storage : i # idx[t] => storage'[i].l = storage[i].l
  BY <1>2, ListMoves DEF IInv, Control, Collect, Rebuild, Refill, Goto, Resizing
<1>4. ASSUME pc[u] \in InBucket, ~Shares(u) PROVE List(u)' = List(u)
  <2>1. idx[u] \in DOMAIN storage /\ storage[idx[u]].owner = u
    BY <1>4 DEF IInv, Control, InBucketExists, LocksHeld
  <2>2. CASE InsertPush(t) \/ RemoveErase(t)
    <3>1. pc[t] \in InBucket /\ ~Shares(t)
      BY <2>2 DEF InsertPush, RemoveErase, Goto, InBucket, IInv, Control, CallShape, Shares
    <3>2. storage[idx[t]].owner = t
      BY <3>1 DEF IInv, Control, InBucketExists, LocksHeld
    <3>3. idx[u] # idx[t]
      BY <2>1, <3>2
    <3>. QED  BY <1>1, <1>3, <2>1, <3>3 DEF List
  <2>. QED  BY <1>1, <1>3, <2>1, <2>2 DEF List
<1>. QED  BY <1>1, <1>3, <1>4 DEF Current

\* Where a thread comes from when it is in a bucket or about to lock one.
LEMMA IntoBucket ==
  ASSUME TypeOK, CallShape, InBucketExists, ErasesWhatItFound, NEW t \in Threads, Step(t),
         pc'[t] \in InBucket \cup {"bucketLock"}
  PROVE  /\ UNCHANGED <<capacity, doing, todo>>
         /\ \/ /\ pc[t] \in {"tableLock", "checkEmpty", "checkLoad"} /\ pc'[t] = "bucketLock"
               /\ idx'[t] = BucketOf(t) /\ doing[t] # "scan" /\ UNCHANGED storage
            \/ LockBucket(t) /\ pc[t] = "bucketLock" /\ idx'[t] = idx[t]
            \/ InsertPush(t) /\ pc[t] = "access" /\ pc'[t] = "insertCount" /\ idx'[t] = idx[t]
            \/ RemoveCount(t) /\ pc[t] = "access" /\ pc'[t] = "removeErase" /\ idx'[t] = idx[t]
<1>0. pc \in [Threads -> Labels] /\ idx \in [Threads -> Nat]
  BY DEF TypeOK
<1>1. CASE \/ BoundCheckFails(t) \/ ScanEnd(t) \/ Lookup(t) \/ LookupFirst(t)
           \/ CopyBucket(t) \/ InsertCount(t) \/ RemoveMiss(t) \/ RemoveErase(t)
           \/ StrayBucket(t) /\ Complete(t, Garbage, FALSE)
  <2>1. PICK r \in Values \cup Outcomes, found \in BOOLEAN :
          /\ Complete(t, r, found)
          /\ pc[t] \in {"boundCheck", "scan", "bucketLock"} \cup InBucket
    BY <1>1, Ends
  <2>2. pc'[t] \in {"idle", "tableLock"}
    BY <2>1, CompleteStep DEF InBucket
  <2>. QED  BY <2>2 DEF InBucket
<1>2. CASE Begin(t)
  BY <1>0, <1>2 DEF Begin, Goto, InBucket
<1>3. CASE BoundCheckPasses(t)
  BY <1>0, <1>3 DEF BoundCheckPasses, Goto, InBucket
<1>4. CASE LockTable(t)
  BY <1>0, <1>4 DEF LockTable, Goto, InBucket, tableVars
<1>5. ASSUME NEW label \in {"checkEmpty", "checkLoad"}, KeepSize(t, label)
      PROVE  /\ pc[t] \in {"tableLock", "checkEmpty", "checkLoad"} /\ pc'[t] = "bucketLock"
             /\ idx'[t] = BucketOf(t) /\ doing[t] # "scan"
             /\ UNCHANGED <<storage, capacity, doing, todo>>
  BY <1>0, <1>5 DEF KeepSize, Goto, CallShape, tableVars
<1>6. ASSUME NEW label \in {"checkEmpty", "checkLoad"}, WantResize(t, label)
      PROVE  FALSE
  BY <1>0, <1>6 DEF WantResize, Goto, InBucket
<1>7. CASE CheckEmpty(t)
  <2>1. CASE Goto(t, "checkEmpty", "checkLoad")
    BY <1>0, <2>1 DEF Goto, InBucket
  <2>. QED  BY <1>5, <1>6, <1>7, <2>1 DEF CheckEmpty
<1>8. CASE CheckLoad(t)
  BY <1>5, <1>6, <1>8 DEF CheckLoad
<1>9. CASE Resize(t) \/ ScanBegin(t) \/ ScanBucket(t)
  BY <1>0, <1>9 DEF Resize, ResizeNotNeeded, ResizeBegin, Collect, Rebuild, Refill, ResizeEnd,
                    ScanBegin, ScanBucket, Goto, InBucket
<1>10. CASE LockBucket(t)
  BY <1>0, <1>10 DEF LockBucket, Goto
<1>11. CASE Goto(t, "bucketLock", "stuck")
  BY <1>0, <1>11 DEF Goto, InBucket
<1>12. CASE InsertPush(t) \/ RemoveCount(t)
  BY <1>0, <1>12 DEF InsertPush, RemoveCount, Goto
<1>. QED  BY <1>1, <1>2, <1>3, <1>4, <1>7, <1>8, <1>9, <1>10, <1>11, <1>12
          DEF Step, Access, Scan, StrayBucket

LEMMA InBucketExistsStep ==
  ASSUME IInv, TypeOK', Next
  PROVE  InBucketExists'
<1>. PICK t \in Threads : Step(t)
  BY DEF Next
<1>0. TypeOK /\ CallShape /\ InBucketExists /\ ErasesWhatItFound
  BY DEF IInv, Control
<1>1. ASSUME NEW u \in Threads \ {t}, pc'[u] \in InBucket
      PROVE  idx'[u] \in DOMAIN storage' /\ (pc'[u] = "insertCount" => List(u)' # << >>)
  <2>1. pc'[u] = pc[u] /\ idx'[u] = idx[u]
    BY <1>0, OthersStay
  <2>2. /\ DOMAIN storage' = DOMAIN storage
        /\ ~Shares(u) => List(u)' = List(u)
    BY <1>1, <2>1, Undisturbed DEF InBucket, Reading
  <2>3. pc[u] = "insertCount" => ~Shares(u)
    BY <1>0 DEF CallShape, Shares
  <2>. QED  BY <1>0, <1>1, <2>1, <2>2, <2>3 DEF InBucketExists
<1>2. ASSUME pc'[t] \in InBucket
      PROVE  idx'[t] \in DOMAIN storage' /\ (pc'[t] = "insertCount" => List(t)' # << >>)
  <2>1. CASE LockBucket(t) /\ idx'[t] = idx[t]
    <3>1. idx[t] \in DOMAIN storage /\ DOMAIN storage' = DOMAIN storage /\ pc'[t] = "access"
      BY <1>0, <2>1 DEF LockBucket, Goto, TypeOK
    <3>. QED  BY <2>1, <3>1
  <2>2. CASE InsertPush(t) /\ pc[t] = "access" /\ idx'[t] = idx[t]
    <3>. DEFINE e == [key |-> Current(t).key, val |-> Current(t).val]
    <3>1. idx[t] \in DOMAIN storage /\ List(t) \in Seq(Entry) /\ storage[idx[t]] \in Node
      BY <1>0, <2>2, ListType, StorageType DEF InBucketExists, InBucket
    <3>2. storage' = [storage EXCEPT ![idx[t]].l = Append(@, e)]
      BY <2>2 DEF InsertPush
    <3>. HIDE DEF e
    <3>3. DOMAIN storage' = DOMAIN storage /\ List(t)' = Append(List(t), e)
      BY <2>2, <3>1, <3>2 DEF List, Node
    <3>4. Append(List(t), e) # << >>
      BY <3>1
    <3>. QED  BY <2>2, <3>1, <3>3, <3>4
  <2>3. CASE RemoveCount(t) /\ pc[t] = "access" /\ pc'[t] = "removeErase" /\ idx'[t] = idx[t]
    BY <1>0, <2>3 DEF RemoveCount, InBucketExists, InBucket
  <2>. QED  BY <1>0, <1>2, <2>1, <2>2, <2>3, IntoBucket DEF InBucket
<1>. QED  BY <1>1, <1>2 DEF InBucketExists, InBucket

LEMMA BucketNotStaleStep ==
  ASSUME IInv, TypeOK', Next
  PROVE  BucketNotStale'
<1>. PICK t \in Threads : Step(t)
  BY DEF Next
<1>0. TypeOK /\ CallShape /\ InBucketExists /\ ErasesWhatItFound
  BY DEF IInv, Control
<1>1. ASSUME NEW u \in Threads \ {t}, pc'[u] \in InBucket \cup {"bucketLock"},
             doing'[u] # "bucket"
      PROVE  idx'[u] = Hash(Current(u).key)' /\ idx'[u] \in DOMAIN storage'
  <2>1. pc'[u] = pc[u]
    BY <1>0, OthersStay
  <2>2. /\ UNCHANGED capacity /\ DOMAIN storage' = DOMAIN storage
        /\ Current(u)' = Current(u) /\ doing'[u] = doing[u] /\ idx'[u] = idx[u]
    BY <1>1, <2>1, Undisturbed DEF InBucket, Reading
  <2>. QED  BY <1>1, <2>1, <2>2 DEF IInv, BucketNotStale, Hash
<1>2. ASSUME pc'[t] \in InBucket \cup {"bucketLock"}, doing'[t] # "bucket"
      PROVE  idx'[t] = Hash(Current(t).key)' /\ idx'[t] \in DOMAIN storage'
  <2>1. UNCHANGED <<capacity, doing, todo>>
    BY <1>0, <1>2, IntoBucket
  <2>2. Hash(Current(t).key)' = Hash(Current(t).key)
    BY <2>1 DEF Hash, Current
  <2>3. CASE /\ pc[t] \in {"tableLock", "checkEmpty", "checkLoad"}
             /\ idx'[t] = BucketOf(t) /\ doing[t] # "scan" /\ UNCHANGED storage
    <3>1. BucketOf(t) = Hash(Current(t).key) /\ BucketOf(t) \in 0 .. capacity - 1
      BY <1>0, <1>2, <2>1, <2>3, BucketOfType
    <3>2. BucketOf(t) \in DOMAIN storage
      BY <1>0, <3>1, StorageType
    <3>. QED  BY <2>2, <2>3, <3>1, <3>2
  <2>4. CASE pc[t] \in {"bucketLock", "access"} /\ idx'[t] = idx[t]
             /\ (LockBucket(t) \/ InsertPush(t) \/ RemoveCount(t))
    <3>1. idx[t] = Hash(Current(t).key) /\ idx[t] \in DOMAIN storage
      BY <1>2, <2>1, <2>4 DEF IInv, BucketNotStale, InBucket
    <3>2. DOMAIN storage' = DOMAIN storage
      BY <2>4 DEF LockBucket, InsertPush, RemoveCount
    <3>. QED  BY <2>2, <2>4, <3>1, <3>2
  <2>. QED  BY <1>0, <1>2, <2>3, <2>4, IntoBucket
<1>. QED  BY <1>1, <1>2 DEF BucketNotStale

LEMMA ErasesWhatItFoundStep ==
  ASSUME IInv, TypeOK', Next
  PROVE  ErasesWhatItFound'
<1>. PICK t \in Threads : Step(t)
  BY DEF Next
<1>0. TypeOK /\ CallShape /\ InBucketExists /\ ErasesWhatItFound
  BY DEF IInv, Control
<1>1. ASSUME NEW u \in Threads \ {t}, pc'[u] = "removeErase"
      PROVE  Found(u)'
  <2>1. pc[u] = "removeErase"
    BY <1>0, <1>1, OthersStay
  <2>2. Found(u) /\ ~Shares(u)
    BY <1>0, <2>1 DEF ErasesWhatItFound, CallShape, Shares
  <2>3. Current(u)' = Current(u) /\ List(u)' = List(u)
    BY <2>1, <2>2, Undisturbed DEF InBucket, Reading
  <2>. QED  BY <2>2, <2>3, SMTT(20) DEF Found, Positions
<1>2. ASSUME pc'[t] = "removeErase"
      PROVE  Found(t)'
  <2>1. RemoveCount(t)
    BY <1>0, <1>2, IntoBucket DEF InBucket, LockBucket, Goto, TypeOK
  <2>. QED  BY <2>1 DEF RemoveCount, Found, Positions, List, Current
<1>. QED  BY <1>1, <1>2 DEF ErasesWhatItFound

LEMMA ResizeDueStep ==
  ASSUME IInv, TypeOK', Next
  PROVE  ResizeDue'
<1>. PICK t \in Threads : Step(t)
  BY DEF Next
<1>0. TypeOK /\ CallShape /\ InBucketExists /\ ErasesWhatItFound
  BY DEF IInv, Control
<1>. DEFINE Due(u) == MustGrow(Delta(doing[u])) \/ MustShrink(Delta(doing[u]))
<1>1. ASSUME UNCHANGED <<size, capacity>>, NEW u \in Threads, doing'[u] = doing[u], Due(u)
      PROVE  Due(u)'
  BY <1>1 DEF MustGrow, MustShrink, TooFull, TooEmpty, Load
<1>2. ASSUME NEW u \in Threads, pc'[u] = "resizeCollect"
      PROVE  Due(u)'
  <2>1. CASE u # t
    <3>1. pc[u] = "resizeCollect" /\ doing'[u] = doing[u] /\ Due(u)
      BY <1>0, <1>2, <2>1, OthersStay DEF IInv, ResizeDue
    <3>2. writer = u /\ readers = {}
      BY <3>1, TableAssumption DEF IInv, Control, LocksHeld, Resizing
    <3>3. pc[t] \notin Reading \cup Resizing
      BY <2>1, <3>2 DEF IInv, Control, LocksHeld
    <3>4. UNCHANGED <<size, capacity>>
      <4>1. pc[t] \notin {"access", "insertCount", "removeErase", "checkEmpty", "checkLoad",
                          "bucketLock", "resizeCollect", "resizeFill", "scan"}
        BY <3>3 DEF Reading, Resizing
      <4>. QED  BY <4>1
           DEF Step, Begin, BoundCheckPasses, BoundCheckFails, LockTable, CheckEmpty, CheckLoad,
               KeepSize, WantResize, Resize, ResizeNotNeeded, ResizeBegin, Collect, Rebuild,
               Refill, ResizeEnd, Scan, ScanBegin, ScanBucket, ScanEnd, LockBucket, StrayBucket,
               Access, Lookup, LookupFirst, CopyBucket, InsertPush, InsertCount, RemoveMiss,
               RemoveCount, RemoveErase, Goto, tableVars
    <3>. QED  BY <1>1, <3>1, <3>4
  <2>2. CASE u = t
    <3>1. CASE ResizeBegin(t)
      BY <1>1, <2>2, <3>1 DEF ResizeBegin, tableVars
    <3>2. CASE Collect(t)
      BY <1>1, <1>2, <2>2, <3>2 DEF Collect, IInv, ResizeDue
    <3>3. ASSUME ~ResizeBegin(t), ~Collect(t) PROVE pc'[t] # "resizeCollect"
      <4>1. ASSUME NEW r \in Values \cup Outcomes, NEW found \in BOOLEAN,
                   Complete(t, r, found), pc[t] # "idle"
            PROVE  pc'[t] # "resizeCollect"
        BY <1>0, <4>1, CompleteStep
      <4>2. CASE \/ BoundCheckFails(t) \/ ScanEnd(t) \/ Lookup(t) \/ LookupFirst(t)
                 \/ CopyBucket(t) \/ InsertCount(t) \/ RemoveMiss(t) \/ RemoveErase(t)
                 \/ StrayBucket(t) /\ Complete(t, Garbage, FALSE)
        BY <1>0, <4>1, <4>2, Ends DEF InBucket
      <4>3. pc \in [Threads -> Labels]
        BY <1>0 DEF TypeOK
      <4>4. ASSUME NEW from, NEW to, to # "resizeCollect", Goto(t, from, to)
            PROVE  pc'[t] # "resizeCollect"
        BY <4>3, <4>4 DEF Goto
      <4>5. CASE \/ Begin(t) \/ BoundCheckPasses(t) \/ LockTable(t) \/ CheckEmpty(t)
                 \/ CheckLoad(t) \/ ScanBegin(t) \/ ResizeNotNeeded(t) \/ Rebuild(t)
                 \/ ResizeEnd(t) \/ LockBucket(t) \/ Goto(t, "bucketLock", "stuck")
                 \/ InsertPush(t) \/ RemoveCount(t)
        BY <4>4, <4>5 DEF Begin, BoundCheckPasses, LockTable, CheckEmpty, CheckLoad, KeepSize,
             WantResize, ScanBegin, ResizeNotNeeded, Rebuild, ResizeEnd, LockBucket, InsertPush,
             RemoveCount
      <4>6. CASE ScanBucket(t) \/ Refill(t)
        BY <4>6 DEF ScanBucket, Refill
      <4>. QED  BY <3>3, <4>2, <4>5, <4>6 DEF Step, Resize, Access, Scan, StrayBucket
    <3>. QED  BY <1>2, <2>2, <3>1, <3>2, <3>3
  <2>. QED  BY <2>1, <2>2
<1>. HIDE DEF Due
<1>3. \A u \in Threads : pc'[u] = "resizeCollect" => Due(u)'
  BY <1>2
<1>. QED  BY <1>3 DEF ResizeDue, Due

LEMMA PlacementStep ==
  ASSUME IInv, TypeOK', Next
  PROVE  Placement'
<1>. PICK t \in Threads : Step(t)
  BY DEF Next
<1>0. TypeOK /\ CallShape /\ InBucketExists /\ ErasesWhatItFound /\ Placement
  BY DEF IInv, Control
<1>1. CASE /\ UNCHANGED capacity /\ DOMAIN storage' = DOMAIN storage
           /\ \A i \in DOMAIN storage : storage'[i].l = storage[i].l
  BY <1>0, <1>1 DEF Placement, Hash
<1>2. ASSUME NEW i \in DOMAIN storage, NEW l, UNCHANGED capacity,
             DOMAIN storage' = DOMAIN storage,
             \A j \in DOMAIN storage : j # i => storage'[j].l = storage[j].l,
             storage'[i].l = l,
             \A j \in DOMAIN l : Hash(l[j].key) = i
      PROVE  Placement'
  BY <1>0, <1>2 DEF Placement, Hash
<1>3. CASE Collect(t)
  <2>1. idx[t] \in DOMAIN storage /\ storage[idx[t]] \in Node
    BY <1>0, <1>3, StorageType DEF Collect, TypeOK
  <2>2. /\ storage' = [storage EXCEPT ![idx[t]].l = << >>] /\ UNCHANGED capacity
    BY <1>3 DEF Collect
  <2>3. storage'[idx[t]].l = << >>
    BY <2>1, <2>2 DEF Node
  <2>. QED  BY <1>2, <2>1, <2>2, <2>3
<1>4. CASE Rebuild(t)
  <2>1. \A i \in DOMAIN storage' : storage'[i].l = << >>
    BY <1>4 DEF Rebuild, NewNode
  <2>. QED  BY <2>1 DEF Placement
<1>5. CASE Refill(t)
  <2>. DEFINE e == Head(pending)
              h == Hash(e.key)
  <2>1. e \in Entry /\ h \in DOMAIN storage
    <3>1. e \in Entry
      BY <1>0, <1>5 DEF Refill, TypeOK
    <3>. QED  BY <1>0, <3>1, HashType, StorageType DEF Entry
  <2>2. storage' = [storage EXCEPT ![h].l = Append(@, e)] /\ UNCHANGED capacity
    BY <1>5 DEF Refill
  <2>3. Hash(e.key) = h
    OBVIOUS
  <2>. HIDE DEF e, h
  <2>4. storage[h] \in Node /\ storage[h].l \in Seq(Entry)
    BY <1>0, <2>1, StorageType
  <2>5. storage'[h].l = Append(storage[h].l, e)
    BY <2>1, <2>2, <2>4 DEF Node
  <2>6. \A j \in DOMAIN Append(storage[h].l, e) : Hash(Append(storage[h].l, e)[j].key) = h
    BY <1>0, <2>1, <2>3, <2>4 DEF Placement
  <2>. QED  BY <1>2, <2>1, <2>2, <2>5, <2>6
<1>6. CASE InsertPush(t)
  <2>. DEFINE e == [key |-> Current(t).key, val |-> Current(t).val]
  <2>1. pc[t] = "access" /\ doing[t] = "insert"
    BY <1>6 DEF InsertPush, Goto
  <2>2. idx[t] = Hash(Current(t).key) /\ idx[t] \in DOMAIN storage
    BY <2>1 DEF IInv, BucketNotStale, InBucket
  <2>3. e \in Entry /\ e.key = Current(t).key
    BY <1>0, <2>1, CurrentType DEF Entry
  <2>4. storage' = [storage EXCEPT ![idx[t]].l = Append(@, e)] /\ UNCHANGED capacity
    BY <1>6 DEF InsertPush
  <2>. HIDE DEF e
  <2>5. storage[idx[t]] \in Node /\ storage[idx[t]].l \in Seq(Entry)
    BY <1>0, <2>2, StorageType
  <2>6. storage'[idx[t]].l = Append(storage[idx[t]].l, e)
    BY <2>2, <2>4, <2>5 DEF Node
  <2>7. \A j \in DOMAIN Append(storage[idx[t]].l, e) :
          Hash(Append(storage[idx[t]].l, e)[j].key) = idx[t]
    BY <1>0, <2>2, <2>3, <2>5 DEF Placement
  <2>. QED  BY <1>2, <2>2, <2>4, <2>6, <2>7
<1>7. CASE RemoveErase(t)
  <2>. DEFINE k == Current(t).key
              l == Erase(List(t), FirstAt(List(t), k))
  <2>1. /\ pc[t] = "removeErase" /\ doing[t] = "remove" /\ Found(t)
        /\ idx[t] \in DOMAIN storage /\ List(t) \in Seq(Entry)
    BY <1>0, <1>7, ListType
       DEF RemoveErase, ErasesWhatItFound, CallShape, InBucketExists, InBucket
  <2>2. FirstAt(List(t), k) \in 1 .. Len(List(t))
    BY <2>1, FirstAtPosition DEF Found
  <2>3. /\ l \in Seq(Entry) /\ Len(l) = Len(List(t)) - 1
        /\ \A j \in 1 .. Len(List(t)) - 1 : l[j] = List(t)[j] \/ l[j] = List(t)[j + 1]
    BY <2>1, <2>2, EraseStep
  <2>4. storage' = Unlocked(t, l) /\ UNCHANGED capacity
    BY <1>7 DEF RemoveErase
  <2>. HIDE DEF l
  <2>5. /\ DOMAIN storage' = DOMAIN storage /\ storage'[idx[t]].l = l
        /\ \A i \in DOMAIN storage : i # idx[t] => storage'[i] = storage[i]
    BY <1>0, <2>1, <2>3, <2>4, UnlockStep
  <2>6. \A j \in DOMAIN List(t) : Hash(List(t)[j].key) = idx[t]
    BY <1>0, <2>1 DEF Placement, List
  <2>7. ASSUME NEW j \in DOMAIN l PROVE Hash(l[j].key) = idx[t]
    <3>1. j \in 1 .. Len(List(t)) - 1
      BY <2>3
    <3>2. j \in DOMAIN List(t) /\ j + 1 \in DOMAIN List(t)
      BY <2>1, <3>1
    <3>. QED  BY <2>3, <2>6, <3>1, <3>2
  <2>. QED  BY <1>2, <2>1, <2>4, <2>5, <2>7
<1>. QED  BY <1>0, <1>1, <1>3, <1>4, <1>5, <1>6, <1>7, ListMoves

(***************************************************************************)
(* The invariant is inductive.                                             *)
(***************************************************************************)
LEMMA Inductive == IInv /\ [Next]_vars => IInv'
<1>. SUFFICES ASSUME IInv, [Next]_vars PROVE IInv'
  OBVIOUS
<1>1. CASE Next
  <2>0. TypeOK /\ CallShape /\ InBucketExists /\ ErasesWhatItFound /\ LocksHeld
    BY DEF IInv, Control
  <2>1. TypeOK'
    BY <1>1, <2>0, TypeStep
  <2>. QED  BY <1>1, <2>0, <2>1, CallShapeStep, LocksHeldStep, InBucketExistsStep,
               BucketNotStaleStep, PlacementStep, ErasesWhatItFoundStep, ResizeDueStep
            DEF IInv, Control
<1>2. CASE UNCHANGED vars
  <2>1. TypeOK' /\ CallShape'
    BY <1>2 DEF vars, IInv, Control, TypeOK, CallShape, Current
  <2>2. LocksHeld'
    BY <1>2 DEF vars, IInv, Control, LocksHeld, Shares
  <2>3. InBucketExists' /\ BucketNotStale' /\ Placement'
    BY <1>2 DEF vars, IInv, InBucketExists, BucketNotStale, Placement, List, Hash, Current
  <2>4. ErasesWhatItFound' /\ ResizeDue'
    BY <1>2 DEF vars, IInv, ErasesWhatItFound, ResizeDue, Found, Positions, List, Current,
                MustGrow, MustShrink, TooFull, TooEmpty, Load
  <2>. QED  BY <2>1, <2>2, <2>3, <2>4 DEF IInv, Control
<1>. QED  BY <1>1, <1>2

LEMMA AlwaysIInv == Spec => []IInv
BY InitIInv, Inductive, PTL DEF Spec

-----------------------------------------------------------------------------
(***************************************************************************)
(* The theorems.                                                           *)
(***************************************************************************)
\* Every variable of the table keeps its type.
THEOREM TypeCorrect == Spec => []TypeOK
BY AlwaysIInv, PTL DEF IInv, Control

\* _mutex and the locks of the nodes are held by exactly the threads that are at
\* a place where the code holds them, and never by a writer and somebody else.
THEOREM MutualExclusion == Spec => []LocksHeld
BY AlwaysIInv, PTL DEF IInv, Control

\* From hash(key) to the end of the operation the bucket is the key's, and it
\* exists, whatever other threads insert, remove and resize.
THEOREM HashStaysGood == Spec => []BucketNotStale
BY AlwaysIInv, PTL DEF IInv

\* get(), remove() and operator[] look in the bucket where every entry of their
\* key is.
THEOREM EntriesInPlace == Spec => []Placement
BY AlwaysIInv, PTL DEF IInv

\* remove() decrements _size for an entry that it does erase.
THEOREM RemoveErasesIt == Spec => []ErasesWhatItFound
BY AlwaysIInv, PTL DEF IInv

-----------------------------------------------------------------------------
(***************************************************************************)
(* Resizing.                                                               *)
(***************************************************************************)
\* The load factors at which needsResize() asks for the one and for the other
\* are far enough apart.
LEMMA LoadMargins ==
  ASSUME NEW c \in Nat \ {0}, NEW s \in Nat \ {0}, NEW d \in {1, -1}, NEW e \in {1, -1},
         NEW x \in 0 .. s + e
  PROVE  /\ c <= 4 \/ 4 * x >= 3 * c => (s + d > 0 => 10 * (s + d) > 2 * c)
         /\ c > 4 /\ x > 0 /\ 10 * x <= c /\ x = s + e =>
              (c + 1) \div 2 > 4 /\ 4 * (s + d) < 3 * ((c + 1) \div 2)
<1>1. ASSUME c <= 4 \/ 4 * x >= 3 * c, s + d > 0
      PROVE  10 * (s + d) > 2 * c
  <2>1. s + e <= s + d + 2
    OBVIOUS
  <2>. QED  BY <1>1, <2>1
<1>2. ASSUME c > 4, x > 0, 10 * x <= c, x = s + e
      PROVE  (c + 1) \div 2 > 4 /\ 4 * (s + d) < 3 * ((c + 1) \div 2)
  <2>1. PICK h \in Nat : h = (c + 1) \div 2 /\ 2 * h >= c
    OBVIOUS
  <2>2. s + d <= x + 2
    BY <1>2
  <2>. QED  BY <1>2, <2>1, <2>2
<1>. QED  BY <1>1, <1>2

\* What size_t makes of _size plus or minus one.
LEMMA LoadValue ==
  ASSUME TypeOK, size # 0, NEW e \in {1, -1}
  PROVE  /\ Load(e) \in 0 .. size + e
         /\ Load(e) > 0 => Load(e) = size + e
<1>1. /\ Wrap \in Nat \ {0} /\ size \in 1 .. Wrap - 1
  BY TableAssumption DEF TypeOK
<1>2. \A x \in 0 .. Wrap - 1 : x % Wrap = x
  BY <1>1
<1>3. Wrap % Wrap = 0
  BY <1>1
<1>4. CASE size + e = Wrap
  BY <1>1, <1>3, <1>4 DEF Load
<1>5. CASE size + e # Wrap
  <2>1. size + e \in 0 .. Wrap - 1
    BY <1>1, <1>5
  <2>. QED  BY <1>2, <2>1 DEF Load
<1>. QED  BY <1>4, <1>5

\* Only Rebuild changes _capacity.
LEMMA CapacityMoves ==
  ASSUME IInv, NEW t \in Threads, Step(t), capacity' # capacity
  PROVE  Rebuild(t)
<1>1. CASE Rebuild(t)
  BY <1>1
<1>2. CASE Collect(t) \/ Refill(t)
  BY <1>2 DEF Collect, Refill
<1>. QED  BY <1>1, <1>2, ListMoves DEF IInv, Control

\* Shrinking a table gives no cause to grow it again, and growing it gives none
\* to shrink it, whatever the load and the number of threads.
THEOREM NoEndlessResizing == Spec => NoResizeCircle
<1>. DEFINE Act == \A d \in {1, -1} :
              /\ capacity' < capacity => capacity' > 4 /\ 4 * (size + d) < 3 * capacity'
              /\ capacity' > capacity /\ size + d > 0 => 10 * (size + d) > capacity'
<1>1. IInv /\ [Next]_vars => [Act]_capacity
  <2>. SUFFICES ASSUME IInv, Next, capacity' # capacity, NEW d \in {1, -1}
                PROVE  /\ capacity' < capacity => capacity' > 4 /\ 4 * (size + d) < 3 * capacity'
                       /\ capacity' > capacity /\ size + d > 0 => 10 * (size + d) > capacity'
    BY DEF vars
  <2>1. PICK t \in Threads : Rebuild(t)
    BY CapacityMoves DEF Next
  <2>. DEFINE e == Delta(doing[t])
  <2>2. /\ MustGrow(e) \/ MustShrink(e)
        /\ capacity' = NewCapacity(e)
    BY <2>1 DEF Rebuild, Goto, IInv, ResizeDue
  <2>3. /\ capacity \in Nat \ {0} /\ size \in Nat \ {0} /\ e \in {1, -1}
    BY <2>2 DEF IInv, Control, TypeOK, Delta, MustGrow, MustShrink
  <2>. HIDE DEF e
  <2>4. /\ Load(e) \in 0 .. size + e
        /\ Load(e) > 0 => Load(e) = size + e
    BY <2>3, LoadValue DEF IInv, Control
  <2>5. CASE MustGrow(e)
    <3>1. capacity' = 2 * capacity /\ (capacity <= 4 \/ 4 * Load(e) >= 3 * capacity)
      BY <2>2, <2>5 DEF NewCapacity, MustGrow, TooFull
    <3>. QED  BY <2>3, <2>4, <3>1, LoadMargins
  <2>6. CASE ~MustGrow(e)
    <3>1. /\ capacity' = (capacity + 1) \div 2 /\ capacity > 4
          /\ Load(e) > 0 /\ 10 * Load(e) <= capacity
      BY <2>2, <2>6 DEF NewCapacity, MustShrink, TooEmpty
    <3>2. (capacity + 1) \div 2 <= capacity
      BY <2>3
    <3>. QED  BY <2>3, <2>4, <3>1, <3>2, LoadMargins
  <2>. QED  BY <2>5, <2>6
<1>. QED  BY <1>1, AlwaysIInv, PTL DEF Spec, NoResizeCircle

-----------------------------------------------------------------------------
(***************************************************************************)
(* A table of a fixed size.                                                *)
(***************************************************************************)
\* Nobody resizes it, so the server's check against capacity() lasts.
FixedInv ==
  \A t \in Threads :
    /\ pc[t] \notin {"checkEmpty", "checkLoad", "resizeLock"} \cup Resizing
    /\ pc[t] \in {"tableLock", "bucketLock"} /\ doing[t] = "bucket" => idx[t] < capacity

LEMMA FixedStep ==
  ASSUME ~Resizable, IInv, FixedInv, Next
  PROVE  FixedInv'
<1>. PICK t \in Threads : Step(t)
  BY DEF Next
<1>0. /\ TypeOK /\ CallShape /\ InBucketExists /\ ErasesWhatItFound
      /\ pc \in [Threads -> Labels] /\ idx \in [Threads -> Nat]
      /\ doing \in [Threads -> Operations]
  BY DEF IInv, Control, TypeOK
<1>1. UNCHANGED capacity
  <2>1. ~Rebuild(t)
    BY DEF FixedInv, Rebuild, Goto, Resizing
  <2>. QED  BY <2>1, CapacityMoves
<1>. DEFINE Fixed(u) ==
       /\ pc[u] \notin {"checkEmpty", "checkLoad", "resizeLock"} \cup Resizing
       /\ pc[u] \in {"tableLock", "bucketLock"} /\ doing[u] = "bucket" => idx[u] < capacity
<1>2. ASSUME NEW u \in Threads \ {t} PROVE Fixed(u)'
  BY <1>0, <1>1, OthersStay DEF FixedInv
<1>3. Fixed(t)'
  <2>0. Fixed(t)
    BY DEF FixedInv
  <2>1. CASE \/ BoundCheckFails(t) \/ ScanEnd(t) \/ Lookup(t) \/ LookupFirst(t)
             \/ CopyBucket(t) \/ InsertCount(t) \/ RemoveMiss(t) \/ RemoveErase(t)
             \/ StrayBucket(t) /\ Complete(t, Garbage, FALSE)
    <3>1. PICK r \in Values \cup Outcomes, found \in BOOLEAN :
            /\ Complete(t, r, found)
            /\ pc[t] \in {"boundCheck", "scan", "bucketLock"} \cup InBucket
      BY <1>0, <2>1, Ends
    <3>2. /\ pc'[t] \in {"idle", "tableLock"}
          /\ pc'[t] = "tableLock" => doing'[t] # "bucket"
      BY <1>0, <3>1, CompleteStep DEF InBucket
    <3>. QED  BY <3>2 DEF Resizing
  <2>2. CASE Begin(t)
    <3>1. Current(t) \in Call
      BY <1>0, <2>2 DEF Begin, Current, TypeOK
    <3>2. Current(t).op # "bucket" => FirstOf(Current(t).op) # "bucket"
      BY <3>1, CallType DEF FirstOf
    <3>. QED  BY <1>0, <2>2, <3>2 DEF Begin, Goto, Resizing
  <2>3. CASE BoundCheckPasses(t)
    BY <1>0, <1>1, <2>3 DEF BoundCheckPasses, Goto, Resizing
  <2>4. CASE LockTable(t)
    BY <1>0, <1>1, <2>0, <2>4 DEF LockTable, BucketOf, Goto, Resizing
  <2>5. CASE CheckEmpty(t) \/ CheckLoad(t) \/ Resize(t)
    BY <2>0, <2>5 DEF CheckEmpty, CheckLoad, KeepSize, WantResize, Goto, Resize,
         ResizeNotNeeded, ResizeBegin, Collect, Rebuild, Refill, ResizeEnd, Resizing
  <2>6. CASE \/ ScanBegin(t) \/ LockBucket(t) \/ Goto(t, "bucketLock", "stuck")
             \/ InsertPush(t) \/ RemoveCount(t)
    BY <1>0, <2>6 DEF ScanBegin, LockBucket, InsertPush, RemoveCount, Goto, Resizing
  <2>7. CASE ScanBucket(t)
    BY <2>0, <2>7 DEF ScanBucket
  <2>. QED  BY <2>1, <2>2, <2>3, <2>4, <2>5, <2>6, <2>7 DEF Step, Access, Scan, StrayBucket
<1>. HIDE DEF Fixed
<1>4. \A u \in Threads : Fixed(u)'
  BY <1>2, <1>3
<1>. QED  BY <1>4 DEF FixedInv, Fixed

\* In a table that is not resizable, getBucket() is only ever asked for a bucket
\* that exists: the server compares the index with capacity() before it takes a
\* lock, and that is good enough.
THEOREM FixedTableInRange ==
  ASSUME ~Resizable
  PROVE  Spec => []BucketInRange
<1>1. Init => FixedInv
  BY DEF Init, FixedInv, Resizing
<1>2. IInv /\ FixedInv /\ [Next]_vars => FixedInv'
  <2>1. IInv /\ FixedInv /\ UNCHANGED vars => FixedInv'
    BY DEF FixedInv, vars
  <2>. QED  BY <2>1, FixedStep
<1>3. IInv /\ FixedInv => BucketInRange
  <2>. SUFFICES ASSUME IInv, FixedInv, NEW t \in Threads, pc[t] = "bucketLock"
                PROVE  idx[t] \in DOMAIN storage
    BY DEF BucketInRange
  <2>1. CASE doing[t] = "bucket"
    BY <2>1, StorageType DEF FixedInv, IInv, Control, TypeOK
  <2>2. CASE doing[t] # "bucket"
    BY <2>2 DEF IInv, BucketNotStale
  <2>. QED  BY <2>1, <2>2
<1>. QED  BY <1>1, <1>2, <1>3, AlwaysIInv, PTL DEF Spec

=============================================================================
