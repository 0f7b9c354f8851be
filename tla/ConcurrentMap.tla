---------------------------- MODULE ConcurrentMap ----------------------------
(***************************************************************************)
(* What HashTable<K, V> (hashtable.h) promises when several threads use it *)
(* at once.  get() and remove() are atomic.  insert() is NOT: it looks the *)
(* key up (line 124), lets go of every lock, and appends later (line 144), *)
(* so a key can be present more than once; the entries of a key are then   *)
(* served oldest first.  operator[] is defined for present keys only.      *)
(*                                                                         *)
(* Buckets, locks, load factors and resizing are implementation: they are  *)
(* in HashTable.tla, which is shown to refine this module.                 *)
(***************************************************************************)
EXTENDS Naturals, Sequences, FiniteSets

CONSTANTS Threads, Keys, Values

Missing  == "missing"    \* std::nullopt, or an index that is out of bounds
Refused  == "refused"    \* insert() returned false
Inserted == "inserted"   \* insert() returned true
Copied   == "copied"     \* getBucket() returned a bucket's entries
Garbage  == "garbage"    \* bytes that are not an element of the table
Outcomes == {Missing, Refused, Inserted, Copied, Garbage}

NoKey == "no key"
Added == "added"

ASSUME MapAssumption ==
  /\ IsFiniteSet(Threads) /\ Threads # {}
  /\ Keys \cap {NoKey, Added} = {}

VARIABLES
  chain,      \* the values stored under each key, oldest first
  adding,     \* what each thread's insert() is about to add or has added
  result      \* what each thread's last operation returned

vars == <<chain, adding, result>>

First(k) == Head(chain[k])
Absent(k) == chain[k] = << >>

TypeOK ==
  /\ chain \in [Keys -> Seq(Values)]
  /\ adding \in [Threads -> Keys \cup {NoKey, Added}]
  /\ result \in [Threads -> Values \cup Outcomes]

\* The table may start with content, each key at most once.
Init ==
  /\ chain \in [Keys -> {<< >>} \cup {<<v>> : v \in Values}]
  /\ adding = [t \in Threads |-> NoKey]
  /\ result = [t \in Threads |-> Missing]

Answers(t, r) == result' = [result EXCEPT ![t] = r]

Get(t, k) ==
  /\ Answers(t, IF Absent(k) THEN Missing ELSE First(k))
  /\ UNCHANGED <<chain, adding>>

Remove(t, k) ==
  /\ ~Absent(k)
  /\ Answers(t, First(k))
  /\ chain' = [chain EXCEPT ![k] = Tail(@)]
  /\ UNCHANGED adding

\* operator[] of an absent key reads past the end of the list.
Subscript(t, k) ==
  /\ Answers(t, IF Absent(k) THEN Garbage ELSE First(k))
  /\ UNCHANGED <<chain, adding>>

\* insert() finds the key and gives up,
Refuse(t, k) ==
  /\ ~Absent(k)
  /\ Answers(t, Refused)
  /\ UNCHANGED <<chain, adding>>

\* or it does not find it (FindAnyway, a bug, does not look),
FindAnyway(t, k) ==
  /\ adding[t] = NoKey
  /\ adding' = [adding EXCEPT ![t] = k]
  /\ Answers(t, Missing)
  /\ UNCHANGED chain
FindAbsent(t, k) ==
  /\ adding[t] = NoKey /\ Absent(k)
  /\ adding' = [adding EXCEPT ![t] = k]
  /\ Answers(t, Missing)
  /\ UNCHANGED chain

\* adds it, whatever happened in between,
Add(t, k, v) ==
  /\ adding[t] = k
  /\ chain' = [chain EXCEPT ![k] = Append(@, v)]
  /\ adding' = [adding EXCEPT ![t] = Added]
  /\ UNCHANGED result

\* and says so.
Confirm(t) ==
  /\ adding[t] = Added
  /\ adding' = [adding EXCEPT ![t] = NoKey]
  /\ Answers(t, Inserted)
  /\ UNCHANGED chain

ReadBucket(t) ==
  /\ \E r \in {Copied, Missing} : Answers(t, r)
  /\ UNCHANGED <<chain, adding>>

Next == \E t \in Threads :
  \/ \E k \in Keys :
       \/ Get(t, k) \/ Remove(t, k) \/ Subscript(t, k)
       \/ Refuse(t, k) \/ FindAbsent(t, k)
       \/ \E v \in Values : Add(t, k, v)
  \/ Confirm(t)
  \/ ReadBucket(t)

Spec == Init /\ [][Next]_vars

\* The race in insert() is bounded: a key is never present more often than
\* there are threads, and a thread about to add it already counts as one.
BoundedDuplicates ==
  \A k \in Keys :
    Len(chain[k]) + Cardinality({t \in Threads : adding[t] = k})
      <= Cardinality(Threads)

=============================================================================
