------------------------------ MODULE HashTable ------------------------------
(***************************************************************************)
(* HashTable<K, V> of hashtable.h: chaining with one reader/writer lock    *)
(* per bucket (Node::_lock) and one for the whole table (_mutex).  Every   *)
(* operation holds _mutex in read mode while it works on one bucket;       *)
(* resize() takes it in write mode.  _size and _capacity are atomics that  *)
(* anybody may read without a lock.                                        *)
(*                                                                         *)
(* A call is executed as a sequence of the table's own operations, each of *)
(* which takes and releases its locks by itself:                           *)
(*   insert     exists (the get() of line 124), then insert (the rest)     *)
(*   ht[k] = v  subscript, get, remove if it was there, exists, insert     *)
(*   bucket     the server's bounds check (server.cpp:171), then getBucket *)
(*   scan       getKeys, or getValues, one bucket after the other          *)
(*                                                                         *)
(* Releasing locks commutes with what other threads do, so the last access *)
(* under a lock and its release are one step.                              *)
(*                                                                         *)
(* LastAt, HalfEmpty, InsertOver, BoundCheckOffByOne, HashThenUnlock,      *)
(* ResizeStillLocked, ScanUnlocked, RebuildTooSmall, RebuildKeepingSize,   *)
(* RefillOldHash and SharesToRemove are bugs this code could have.         *)
(* Each stands in for the definition after it, to show that the properties *)
(* tell the two apart.                                                     *)
(***************************************************************************)
EXTENDS Integers, Sequences, FiniteSets

CONSTANTS
  Threads,        \* the threads that use the table
  Keys, Values,
  HashOf,         \* std::hash of each key
  Resizable,      \* _resizable
  InitCapacity,   \* _capacity after the constructor
  InitChains,     \* the list of each bucket at the start
  Programs,       \* for each thread, the sequences of calls it may make
  Wrap,           \* bound: size_t counts modulo Wrap
  Nobody          \* the owner of a lock that is free

Missing  == "missing"    \* std::nullopt
Refused  == "refused"    \* insert() returned false
Inserted == "inserted"   \* insert() returned true
Copied   == "copied"     \* getBucket() returned the bucket's entries
Garbage  == "garbage"    \* bytes that are not an element of the table
Outcomes == {Missing, Refused, Inserted, Copied, Garbage}

Entry == [key : Keys, val : Values]
KeyCall == [op : {"get", "insert", "remove", "subscript", "assign"},
            key : Keys, val : Values]
BucketCall == [op : {"bucket"}, idx : Nat]
ScanCall == [op : {"scan"}]
Call == KeyCall \cup BucketCall \cup ScanCall

\* make_unique<Node[]> never allocates fewer than 4 buckets in a constructor.
InitBuckets == 0 .. (IF InitCapacity < 4 THEN 4 ELSE InitCapacity) - 1
InitSize == Cardinality(UNION {{i} \X DOMAIN InitChains[i] : i \in InitBuckets})

\* The initial content is one that the constructor and some insertions leave
\* behind.  The server never makes a table of capacity 0.
ASSUME TableAssumption ==
  /\ IsFiniteSet(Threads) /\ Threads # {}
  /\ HashOf \in [Keys -> Nat]
  /\ Resizable \in BOOLEAN
  /\ InitCapacity \in Nat \ {0}
  /\ InitChains \in [InitBuckets -> Seq(Entry)]
  /\ \A i \in InitBuckets : \A j \in DOMAIN InitChains[i] :
       /\ HashOf[InitChains[i][j].key] % InitCapacity = i
       /\ \A n \in DOMAIN InitChains[i] : InitChains[i][n].key = InitChains[i][j].key => n = j
  /\ Wrap \in Nat \ {0} /\ InitSize \in 0 .. Wrap - 1
  /\ Programs \in [Threads -> SUBSET Seq(Call)]
  /\ Nobody \notin Threads
  /\ Values \cap Outcomes = {}

\* Keys are distinct from the markers of Adding, which the code does not have.
ASSUME KeysAssumption == Keys \cap {"no key", "added"} = {}

VARIABLES
  storage,     \* _storage: the nodes, each a list and a lock
  capacity,    \* _capacity
  size,        \* _size
  readers,     \* the threads that hold _mutex in read mode
  writer,      \* the thread that holds _mutex in write mode, or Nobody
  pending,     \* old_elems in resize(): the entries taken out of the buckets
  pc,          \* where each thread is
  doing,       \* which of the table's operations it is executing
  idx,         \* the bucket it works on
  todo,        \* its calls, the current one first
  result,      \* what its last operation returned
  seen         \* the keys of the entries its last scan has come upon

vars == <<storage, capacity, size, readers, writer, pending, pc, doing, idx,
          todo, result, seen>>
tableVars == <<storage, capacity, size, pending>>

Operations == {"get", "exists", "insert", "remove", "subscript", "bucket", "scan"}
Labels == {"idle", "boundCheck", "tableLock", "checkEmpty", "checkLoad",
           "bucketLock", "access", "insertCount", "removeErase",
           "resizeLock", "resizeCollect", "resizeFill", "stuck", "scanLock", "scan"}

-----------------------------------------------------------------------------
(***************************************************************************)
(* Nodes, hashing and the load factor.                                     *)
(***************************************************************************)
Node == [l : Seq(Entry), owner : Threads \cup {Nobody}, sharers : SUBSET Threads]
NewNode(l) == [l |-> l, owner |-> Nobody, sharers |-> {}]

Hash(k) == HashOf[k] % capacity

\* The positions of key k in a list; find_if returns the first of them.
Positions(l, k) == {j \in DOMAIN l : l[j].key = k}
LastAt(l, k) == CHOOSE j \in Positions(l, k) : \A i \in Positions(l, k) : i <= j
FirstAt(l, k) == CHOOSE j \in Positions(l, k) : \A i \in Positions(l, k) : j <= i
Erase(l, j) == SubSeq(l, 1, j - 1) \o SubSeq(l, j + 1, Len(l))

Delta(operation) == IF operation = "insert" THEN 1 ELSE -1

\* load_factor(delta) >= ALPHA_MAX, and 0 < load_factor(delta) <= ALPHA_MIN.
\* The size_t addition wraps around.
Load(delta) == (size + delta) % Wrap
TooFull(delta)  == 4 * Load(delta) >= 3 * capacity
HalfEmpty(delta) == Load(delta) > 0 /\ 2 * Load(delta) <= capacity
TooEmpty(delta) == Load(delta) > 0 /\ 10 * Load(delta) <= capacity

\* needsResize(delta) when nobody changes _size while it runs.
MustGrow(delta)   == size # 0 /\ (capacity <= 4 \/ TooFull(delta))
MustShrink(delta) == size # 0 /\ capacity > 4 /\ ~TooFull(delta) /\ TooEmpty(delta)
NewCapacity(delta) == IF MustGrow(delta) THEN 2 * capacity
                                         ELSE (capacity + 1) \div 2

-----------------------------------------------------------------------------
Init ==
  /\ storage = [i \in InitBuckets |-> NewNode(InitChains[i])]
  /\ capacity = InitCapacity
  /\ size = InitSize
  /\ readers = {} /\ writer = Nobody
  /\ pending = << >>
  /\ pc = [t \in Threads |-> "idle"]
  /\ doing = [t \in Threads |-> "get"]
  /\ idx = [t \in Threads |-> 0]
  /\ todo \in [Threads -> UNION {Programs[t] : t \in Threads}]
  /\ \A t \in Threads : todo[t] \in Programs[t]
  /\ result = [t \in Threads |-> Missing]
  /\ seen = [t \in Threads |-> << >>]

Current(t) == Head(todo[t])

\* The operation a call starts with, and the one that follows when one is
\* done; found says whether it came upon the key.
FirstOf(op) == CASE op = "insert" -> "exists"
                 [] op = "assign" -> "subscript"
                 [] OTHER -> op
InsertOver(op, operation, found) ==
  CASE operation = "subscript" /\ op = "assign" -> "get"
    [] operation = "get" /\ op = "assign" -> "exists"
    [] operation = "exists" /\ ~found -> "insert"
    [] OTHER -> "return"
Following(op, operation, found) ==
  CASE operation = "subscript" /\ op = "assign" -> "get"
    [] operation = "get" /\ op = "assign" -> IF found THEN "remove" ELSE "exists"
    [] operation = "remove" /\ op = "assign" -> "exists"
    [] operation = "exists" /\ ~found -> "insert"
    [] OTHER -> "return"

\* The operation under way is over with outcome r: all its locks are released
\* and the thread goes on with the call, or returns from it.
Complete(t, r, found) ==
  LET next == Following(Current(t).op, doing[t], found)
  IN  /\ readers' = readers \ {t}
      /\ result' = [result EXCEPT ![t] = r]
      /\ \/ /\ next = "return"
            /\ pc' = [pc EXCEPT ![t] = "idle"]
            /\ todo' = [todo EXCEPT ![t] = Tail(@)]
            /\ UNCHANGED doing
         \/ /\ next # "return"
            /\ pc' = [pc EXCEPT ![t] = "tableLock"]
            /\ doing' = [doing EXCEPT ![t] = next]
            /\ UNCHANGED todo

Goto(t, from, to) == pc[t] = from /\ pc' = [pc EXCEPT ![t] = to]

-----------------------------------------------------------------------------
Begin(t) ==
  /\ todo[t] # << >>
  /\ Goto(t, "idle", IF Current(t).op = "bucket" THEN "boundCheck" ELSE "tableLock")
  /\ doing' = [doing EXCEPT ![t] = FirstOf(Current(t).op)]
  /\ UNCHANGED <<tableVars, readers, writer, idx, todo, result, seen>>

(***************************************************************************)
(* READ_BUCKET in the server compares the index with capacity() before     *)
(* getBucket() takes any lock.                                             *)
(***************************************************************************)
BoundCheckOffByOne(t) ==
  /\ Goto(t, "boundCheck", "tableLock")
  /\ Current(t).idx <= capacity
  /\ idx' = [idx EXCEPT ![t] = Current(t).idx]
  /\ UNCHANGED <<tableVars, readers, writer, doing, todo, result, seen>>

BoundCheckPasses(t) ==
  /\ Goto(t, "boundCheck", "tableLock")
  /\ Current(t).idx < capacity
  /\ idx' = [idx EXCEPT ![t] = Current(t).idx]
  /\ UNCHANGED <<tableVars, readers, writer, doing, todo, result, seen>>

BoundCheckFails(t) ==
  /\ pc[t] = "boundCheck"
  /\ Current(t).idx >= capacity
  /\ Complete(t, Missing, FALSE)
  /\ UNCHANGED <<tableVars, writer, idx, seen>>

(***************************************************************************)
(* std::shared_lock glock(_mutex), then the hash of the key; insert() and  *)
(* remove() of a resizable table first ask needsResize().                  *)
(***************************************************************************)
BucketOf(t) == IF doing[t] = "bucket" THEN idx[t] ELSE Hash(Current(t).key)

MayLockShared == writer = Nobody

LockTable(t) ==
  /\ MayLockShared
  /\ readers' = readers \cup {t}
  /\ LET resizes == Resizable /\ doing[t] \in {"insert", "remove"} IN
     \/ /\ resizes
        /\ Goto(t, "tableLock", "checkEmpty")
        /\ UNCHANGED idx
     \/ /\ doing[t] = "scan"
        /\ Goto(t, "tableLock", "scanLock")
        /\ UNCHANGED idx
     \/ /\ ~resizes /\ doing[t] # "scan"
        /\ Goto(t, "tableLock", "bucketLock")
        /\ idx' = [idx EXCEPT ![t] = BucketOf(t)]
  /\ UNCHANGED <<tableVars, writer, doing, todo, result, seen>>

HashThenUnlock(t, label) ==
  /\ Goto(t, label, "bucketLock")
  /\ idx' = [idx EXCEPT ![t] = BucketOf(t)]
  /\ readers' = readers \ {t}
  /\ UNCHANGED <<tableVars, writer, doing, todo, result, seen>>

\* needsResize() said no: hash(key).
KeepSize(t, label) ==
  /\ Goto(t, label, "bucketLock")
  /\ idx' = [idx EXCEPT ![t] = BucketOf(t)]
  /\ UNCHANGED <<tableVars, readers, writer, doing, todo, result, seen>>

ResizeStillLocked(t, label) ==
  /\ Goto(t, label, "resizeLock")
  /\ UNCHANGED <<tableVars, readers, writer, doing, idx, todo, result, seen>>

\* needsResize() said yes: glock.unlock() and on to resize().
WantResize(t, label) ==
  /\ Goto(t, label, "resizeLock")
  /\ readers' = readers \ {t}
  /\ UNCHANGED <<tableVars, writer, doing, idx, todo, result, seen>>

\* needsResize() reads _size twice: here, and again in load_factor().
CheckEmpty(t) ==
  \/ size = 0 /\ KeepSize(t, "checkEmpty")
  \/ size # 0 /\ capacity <= 4 /\ WantResize(t, "checkEmpty")
  \/ /\ size # 0 /\ capacity > 4
     /\ Goto(t, "checkEmpty", "checkLoad")
     /\ UNCHANGED <<tableVars, readers, writer, doing, idx, todo, result, seen>>

CheckLoad(t) ==
  LET delta == Delta(doing[t])
  IN  \/ (TooFull(delta) \/ TooEmpty(delta)) /\ WantResize(t, "checkLoad")
      \/ ~TooFull(delta) /\ ~TooEmpty(delta) /\ KeepSize(t, "checkLoad")

(***************************************************************************)
(* getKeys() and getValues().  They lock _mutex in read mode a second      *)
(* time, before they visit the buckets; a lock that prefers writers may    *)
(* keep them from it.                                                      *)
(***************************************************************************)
ScanUnlocked(t) ==       \* let go of _mutex while it visits the buckets
  /\ MayLockShared
  /\ Goto(t, "scanLock", "scan")
  /\ idx' = [idx EXCEPT ![t] = 0]
  /\ seen' = [seen EXCEPT ![t] = << >>]
  /\ readers' = readers \ {t}
  /\ UNCHANGED <<tableVars, writer, doing, todo, result>>
ScanBegin(t) ==
  /\ MayLockShared
  /\ Goto(t, "scanLock", "scan")
  /\ idx' = [idx EXCEPT ![t] = 0]
  /\ seen' = [seen EXCEPT ![t] = << >>]
  /\ UNCHANGED <<tableVars, readers, writer, doing, todo, result>>

\* Nothing happens between the lock of a bucket in read mode and its release.
ScanBucket(t) ==
  /\ pc[t] = "scan" /\ idx[t] < capacity
  /\ LET node == storage[idx[t]]
     IN  /\ node.owner = Nobody
         /\ seen' = [seen EXCEPT ![t] = @ \o [j \in DOMAIN node.l |-> node.l[j].key]]
  /\ idx' = [idx EXCEPT ![t] = @ + 1]
  /\ UNCHANGED <<tableVars, readers, writer, pc, doing, todo, result>>

ScanEnd(t) ==
  /\ pc[t] = "scan" /\ idx[t] >= capacity
  /\ Complete(t, Copied, TRUE)
  /\ UNCHANGED <<tableVars, writer, idx, seen>>

(***************************************************************************)
(* resize(delta), alone in the table.  Nobody can change _size once _mutex *)
(* is held in write mode, so needsResize() is taken again in one piece.    *)
(***************************************************************************)
MayLockExclusive == writer = Nobody /\ readers = {}

ResizeNotNeeded(t) ==    \* somebody else did it meanwhile
  /\ MayLockExclusive
  /\ ~MustGrow(Delta(doing[t])) /\ ~MustShrink(Delta(doing[t]))
  /\ Goto(t, "resizeLock", "tableLock")
  /\ UNCHANGED <<tableVars, readers, writer, doing, idx, todo, result, seen>>

ResizeBegin(t) ==
  /\ MayLockExclusive
  /\ MustGrow(Delta(doing[t])) \/ MustShrink(Delta(doing[t]))
  /\ Goto(t, "resizeLock", "resizeCollect")
  /\ writer' = t
  /\ idx' = [idx EXCEPT ![t] = 0]
  /\ UNCHANGED <<tableVars, readers, doing, todo, result, seen>>

\* One round of collectPairs(): splice bucket i before what was collected.
Collect(t) ==
  /\ pc[t] = "resizeCollect" /\ idx[t] < capacity
  /\ pending' = storage[idx[t]].l \o pending
  /\ storage' = [storage EXCEPT ![idx[t]].l = << >>]
  /\ idx' = [idx EXCEPT ![t] = @ + 1]
  /\ UNCHANGED <<capacity, size, readers, writer, pc, doing, todo, result, seen>>

RebuildTooSmall(t) ==
  /\ idx[t] = capacity
  /\ Goto(t, "resizeCollect", "resizeFill")
  /\ capacity' = NewCapacity(Delta(doing[t]))
  /\ storage' = [i \in 0 .. capacity - 1 |-> NewNode(<< >>)]
  /\ size' = 0
  /\ UNCHANGED <<pending, readers, writer, doing, idx, todo, result, seen>>

RebuildKeepingSize(t) ==
  /\ idx[t] = capacity
  /\ Goto(t, "resizeCollect", "resizeFill")
  /\ LET c == NewCapacity(Delta(doing[t]))
     IN  capacity' = c /\ storage' = [i \in 0 .. c - 1 |-> NewNode(<< >>)]
  /\ UNCHANGED <<size, pending, readers, writer, doing, idx, todo, result, seen>>

\* delete[] the old nodes, allocate new ones, set _capacity, _size = 0.  Only
\* _capacity and _size can be read by others, each on its own.
Rebuild(t) ==
  /\ idx[t] = capacity
  /\ Goto(t, "resizeCollect", "resizeFill")
  /\ LET c == NewCapacity(Delta(doing[t]))
     IN  capacity' = c /\ storage' = [i \in 0 .. c - 1 |-> NewNode(<< >>)]
  /\ size' = 0
  /\ UNCHANGED <<pending, readers, writer, doing, idx, todo, result, seen>>

RefillOldHash(t) ==      \* with the _capacity of before a growth
  /\ pc[t] = "resizeFill" /\ pending # << >>
  /\ LET e == Head(pending)
     IN  storage' = [storage EXCEPT ![HashOf[e.key] % (capacity \div 2)].l = Append(@, e)]
  /\ pending' = Tail(pending)
  /\ size' = (size + 1) % Wrap
  /\ UNCHANGED <<capacity, readers, writer, pc, doing, idx, todo, result, seen>>

\* insert_unsafe() of the next collected entry.
Refill(t) ==
  /\ pc[t] = "resizeFill" /\ pending # << >>
  /\ LET e == Head(pending)
     IN  storage' = [storage EXCEPT ![Hash(e.key)].l = Append(@, e)]
  /\ pending' = Tail(pending)
  /\ size' = (size + 1) % Wrap
  /\ UNCHANGED <<capacity, readers, writer, pc, doing, idx, todo, result, seen>>

ResizeEnd(t) ==
  /\ pending = << >>
  /\ Goto(t, "resizeFill", "tableLock")
  /\ writer' = Nobody
  /\ UNCHANGED <<tableVars, readers, doing, idx, todo, result, seen>>

(***************************************************************************)
(* The bucket: its lock, in read mode for get() and getBucket(), and what  *)
(* each operation does under it.                                           *)
(***************************************************************************)
SharesToRemove(t) == doing[t] \in {"get", "exists", "bucket", "remove"}
Shares(t) == doing[t] \in {"get", "exists", "bucket"}

LockBucket(t) ==
  LET i == idx[t] IN
  /\ Goto(t, "bucketLock", "access")
  /\ i \in DOMAIN storage
  /\ storage[i].owner = Nobody
  /\ ~Shares(t) => storage[i].sharers = {}
  /\ storage' = IF Shares(t) THEN [storage EXCEPT ![i].sharers = @ \cup {t}]
                             ELSE [storage EXCEPT ![i].owner = t]
  /\ UNCHANGED <<capacity, size, pending, readers, writer, doing, idx, todo, result, seen>>

\* getBucket(i) of a bucket that is not there: what it takes for a lock and a
\* list is not one.  It copies garbage, or never returns.
StrayBucket(t) ==
  /\ pc[t] = "bucketLock" /\ idx[t] \notin DOMAIN storage
  /\ \/ Complete(t, Garbage, FALSE)
     \/ Goto(t, "bucketLock", "stuck") /\ UNCHANGED <<readers, doing, todo, result>>
  /\ UNCHANGED <<tableVars, writer, idx, seen>>

List(t)  == storage[idx[t]].l
Found(t) == Positions(List(t), Current(t).key) # {}
Value(t) == List(t)[FirstAt(List(t), Current(t).key)].val

\* Bucket i with list l and without t's lock on it.
Unlocked(t, l) ==
  [storage EXCEPT ![idx[t]] =
     [l |-> l, owner |-> IF @.owner = t THEN Nobody ELSE @.owner,
      sharers |-> @.sharers \ {t}]]

\* get(), and operator[], which does not ask whether find_if came to the end.
Lookup(t) ==
  /\ pc[t] = "access" /\ doing[t] \in {"get", "subscript"}
  /\ \/ Found(t) /\ Complete(t, Value(t), TRUE)
     \/ ~Found(t) /\ Complete(t, IF doing[t] = "get" THEN Missing ELSE Garbage, FALSE)
  /\ storage' = Unlocked(t, List(t))
  /\ UNCHANGED <<capacity, size, pending, writer, idx, seen>>

\* "if(get(key)) return false", the first half of insert().
LookupFirst(t) ==
  /\ pc[t] = "access" /\ doing[t] = "exists"
  /\ Complete(t, IF Found(t) THEN Refused ELSE Missing, Found(t))
  /\ storage' = Unlocked(t, List(t))
  /\ UNCHANGED <<capacity, size, pending, writer, idx, seen>>

CopyBucket(t) ==
  /\ pc[t] = "access" /\ doing[t] = "bucket"
  /\ Complete(t, Copied, TRUE)
  /\ storage' = Unlocked(t, List(t))
  /\ UNCHANGED <<capacity, size, pending, writer, idx, seen>>

InsertPush(t) ==
  /\ Goto(t, "access", "insertCount")
  /\ doing[t] = "insert"
  /\ storage' = [storage EXCEPT ![idx[t]].l =
                   Append(@, [key |-> Current(t).key, val |-> Current(t).val])]
  /\ UNCHANGED <<capacity, size, pending, readers, writer, doing, idx, todo, result, seen>>

InsertCount(t) ==
  /\ pc[t] = "insertCount"
  /\ size' = (size + 1) % Wrap
  /\ Complete(t, Inserted, TRUE)
  /\ storage' = Unlocked(t, List(t))
  /\ UNCHANGED <<capacity, pending, writer, idx, seen>>

RemoveMiss(t) ==
  /\ pc[t] = "access" /\ doing[t] = "remove" /\ ~Found(t)
  /\ Complete(t, Missing, FALSE)
  /\ storage' = Unlocked(t, List(t))
  /\ UNCHANGED <<capacity, size, pending, writer, idx, seen>>

RemoveCount(t) ==
  /\ Goto(t, "access", "removeErase")
  /\ doing[t] = "remove" /\ Found(t)
  /\ size' = (size - 1) % Wrap
  /\ UNCHANGED <<storage, capacity, pending, readers, writer, doing, idx, todo, result, seen>>

RemoveErase(t) ==
  /\ pc[t] = "removeErase"
  /\ Complete(t, Value(t), TRUE)
  /\ storage' = Unlocked(t, Erase(List(t), FirstAt(List(t), Current(t).key)))
  /\ UNCHANGED <<capacity, size, pending, writer, idx, seen>>

-----------------------------------------------------------------------------
Resize(t) == \/ ResizeNotNeeded(t) \/ ResizeBegin(t) \/ Collect(t)
             \/ Rebuild(t) \/ Refill(t) \/ ResizeEnd(t)

Access(t) == \/ Lookup(t) \/ LookupFirst(t) \/ CopyBucket(t)
             \/ InsertPush(t) \/ InsertCount(t)
             \/ RemoveMiss(t) \/ RemoveCount(t) \/ RemoveErase(t)

Scan(t) == ScanBegin(t) \/ ScanBucket(t) \/ ScanEnd(t)

Step(t) == \/ Begin(t) \/ BoundCheckPasses(t) \/ BoundCheckFails(t)
           \/ LockTable(t) \/ CheckEmpty(t) \/ CheckLoad(t) \/ Resize(t) \/ Scan(t)
           \/ LockBucket(t) \/ StrayBucket(t) \/ Access(t)

Next == \E t \in Threads : Step(t)

Spec == Init /\ [][Next]_vars

\* Every thread that can run is run, except that the lock may hold back new
\* readers while a writer waits, or not: std::shared_mutex leaves that open.
\* Weak fairness is enough for the locks too: programs are finite, so a waiting
\* thread cannot be overtaken for ever.
HeldBack(t) == pc[t] \in {"tableLock", "scanLock"} /\ \E u \in Threads : pc[u] = "resizeLock"
Fairness == \A t \in Threads : WF_vars(~HeldBack(t) /\ Step(t))
FairSpec == Spec /\ Fairness

-----------------------------------------------------------------------------
(***************************************************************************)
(* Properties.                                                             *)
(***************************************************************************)
Reading  == {"checkEmpty", "checkLoad", "bucketLock", "access", "insertCount",
             "removeErase", "stuck", "scanLock", "scan"}
Resizing == {"resizeCollect", "resizeFill"}
InBucket == {"access", "insertCount", "removeErase"}

\* Every variable keeps its type.
TypeOK ==
  /\ capacity \in Nat \ {0}
  /\ \E n \in {capacity, 4} : n >= capacity /\ storage \in [0 .. n - 1 -> Node]
  /\ size \in 0 .. Wrap - 1
  /\ readers \subseteq Threads /\ writer \in Threads \cup {Nobody}
  /\ pending \in Seq(Entry)
  /\ pc \in [Threads -> Labels]
  /\ doing \in [Threads -> Operations]
  /\ idx \in [Threads -> Nat]
  /\ todo \in [Threads -> Seq(Call)]
  /\ \A t \in Threads : pc[t] # "idle" => todo[t] # << >>
  /\ result \in [Threads -> Values \cup Outcomes]
  /\ seen \in [Threads -> Seq(Keys)]

\* Who holds which lock follows from where it is, and nobody is inside the
\* table, or inside a bucket, together with a writer.
LocksHeld ==
  /\ readers = {t \in Threads : pc[t] \in Reading}
  /\ \A t \in Threads : writer = t <=> pc[t] \in Resizing
  /\ writer # Nobody => readers = {}
  /\ \A i \in DOMAIN storage :
       /\ storage[i].sharers =
            {t \in Threads : pc[t] \in InBucket /\ Shares(t) /\ idx[t] = i}
       /\ \A t \in Threads :
            storage[i].owner = t <=> pc[t] \in InBucket /\ ~Shares(t) /\ idx[t] = i
       /\ storage[i].owner # Nobody => storage[i].sharers = {}

\* A hash computed under _mutex is still the key's bucket when that bucket is
\* locked, read and written, although the table may have been resized any
\* number of times since the call began; so no operation on a key touches a
\* node that resize() has deleted.
BucketNotStale ==
  \A t \in Threads :
    pc[t] \in InBucket \cup {"bucketLock"} /\ doing[t] # "bucket" =>
      idx[t] = Hash(Current(t).key) /\ idx[t] \in DOMAIN storage

\* getBucket() is only ever asked for a bucket that exists: the server's check
\* against capacity() is still good when the lock is taken.  Holds when the
\* table has a fixed size, or does not shrink.
BucketInRange == \A t \in Threads : pc[t] = "bucketLock" => idx[t] \in DOMAIN storage

\* Every entry is in the bucket its key hashes to, where get() looks for it.
Placement ==
  \A i \in DOMAIN storage : \A j \in DOMAIN storage[i].l :
    Hash(storage[i].l[j].key) = i

\* What remove() found is still there when it erases it.
ErasesWhatItFound == \A t \in Threads : pc[t] = "removeErase" => Found(t)

\* _size counts the entries in the buckets, up to the threads that are between
\* changing the list and changing _size; it can not pass through zero.  While
\* resize() refills the buckets it counts those already back.
Stored == UNION {{i} \X DOMAIN storage[i].l : i \in DOMAIN storage}
SizeAccurate ==
  (\A t \in Threads : pc[t] # "resizeCollect") =>
    size + Cardinality({t \in Threads : pc[t] \in {"insertCount", "removeErase"}})
      = Cardinality(Stored)

\* A resize() never gives cause for the opposite one (hashtable.h:330, "an
\* endless circle of shrinking and growing"): with the entries it found, neither
\* an insert nor a remove makes needsResize() grow a table that was just shrunk,
\* or shrink one that just grew.
NoResizeCircle ==
  [][\A d \in {1, -1} :
       /\ capacity' < capacity => capacity' > 4 /\ 4 * (size + d) < 3 * capacity'
       /\ capacity' > capacity /\ size + d > 0 => 10 * (size + d) > capacity']_capacity

\* The values that list l holds under key k, oldest first.
NthAt(l, k, n) ==
  CHOOSE j \in Positions(l, k) : Cardinality({i \in Positions(l, k) : i <= j}) = n
ValuesIn(l, k) ==
  [n \in 1 .. Cardinality(Positions(l, k)) |-> l[NthAt(l, k, n)].val]

\* The values under a key: in its bucket, then among the entries that resize()
\* still has to put back.
ChainOf(k) == ValuesIn(storage[Hash(k)].l \o pending, k)

Adding(t) ==
  IF pc[t] = "insertCount" THEN "added"
  ELSE IF pc[t] # "idle" /\ doing[t] = "insert" THEN Current(t).key
  ELSE "no key"

\* Under all its locking and resizing the table is the map of ConcurrentMap:
\* every call takes effect on its key at one point, resizing is invisible and
\* keeps the order of the entries of a key, and results match the effects.
Map == INSTANCE ConcurrentMap WITH
         chain <- [k \in Keys |-> ChainOf(k)],
         adding <- [t \in Threads |-> Adding(t)]
RefinesMap == Map!Spec

\* No key is present twice (hashtable.h:105, hashtable_tests.cpp:65).  Holds
\* when no two threads insert the same key.
NoDuplicateKeys == \A k \in Keys : Len(ChainOf(k)) <= 1

\* When all threads are done and each removed what it tried to insert, nothing
\* is left (hashtable_tests.cpp:206, README.md:22), even if threads inserted
\* the same key twice or removed each other's entries.
Drained ==
  (\A t \in Threads : todo[t] = << >>) => size = 0 /\ Stored = {}

\* Every call returns: no deadlock among the locks, whether or not a waiting
\* resize() holds back new readers of _mutex, and no endless resizing.
CallsReturn == \A t \in Threads : pc[t] # "idle" ~> pc[t] = "idle"

\* operator[] returns the value its key is mapped to (hashtable.h:361).
SubscriptFinds ==
  \A t \in Threads :
    pc[t] = "access" /\ doing[t] = "subscript" /\ Current(t).op = "subscript"
      => Found(t)

=============================================================================
