---------------------------- MODULE MCHashTable ----------------------------
(***************************************************************************)
(* Small instances of HashTable for TLC.                                   *)
(***************************************************************************)
EXTENDS HashTable, SequencesExt, TLC

CONSTANTS t1, t2, t3, k1, k2, k3, v1, v2, v3

\* In 4 buckets all keys collide, in 8 and 10 only some, in 5 none does.
Hashes == (k1 :> 1) @@ (k2 :> 5) @@ (k3 :> 9)

Chains(n, ks) ==
  [i \in 0 .. n - 1 |->
     SetToSeq({[key |-> k, val |-> v1] : k \in {x \in ks : Hashes[x] % n = i}})]
NoEntry    == Chains(4, {})
OneEntry   == Chains(4, {k1})
TwoEntries == Chains(10, {k1, k2})

Do(op, k, v) == [op |-> op, key |-> k, val |-> v]
ScanTable == [op |-> "scan"]
Bucket(i) == [op |-> "bucket", idx |-> i]
ValueOf(t) == IF t = t1 THEN v1 ELSE IF t = t2 THEN v2 ELSE v3

\* Each thread makes one of the calls, with a value of its own.
OneOf(ops, ks) ==
  [t \in Threads |-> {<<Do(op, k, ValueOf(t))>> : op \in ops, k \in ks}]

\* One thread inserts k2 and uses it again; the table then grows at the first
\* insert() or remove(), of whichever thread, and k2 moves.  Only then is there a
\* bucket 4.
GrowPrograms ==
  LET ops == {"insert", "remove", "get"}
  IN  [OneOf(ops, {k1, k2}) EXCEPT
         ![t1] = {<<Do("insert", k2, v1), Do(op, k2, v1)>> : op \in ops},
         ![t2] = @ \cup {<<Bucket(4)>>}]
ShrinkPrograms ==
  [t \in Threads |-> OneOf({"insert", "remove"}, {k1, k2})[t] \cup {<<Bucket(9)>>}]

\* The stress tests: t1 works on a key of its own (hashtable_tests.cpp:149 and
\* :354), the others all on the same key (hashtable_tests.cpp:187).
OwnProgram ==
  <<Do("get", k1, v1), Do("insert", k1, v1), ScanTable, Do("insert", k1, v2),
    Do("assign", k1, v3), Do("get", k1, v1), Do("remove", k1, v1),
    Do("get", k1, v1)>>
SameProgram(t) ==
  <<Do("insert", k2, ValueOf(t)), Do("subscript", k2, v1), Do("remove", k2, v1)>>
StressPrograms == [t \in Threads |-> {IF t = t1 THEN OwnProgram ELSE SameProgram(t)}]

\* What the tests require of each call of OwnProgram.
Required == <<Missing, Inserted, Copied, Refused, Inserted, v3, v3, Missing>>

\* A thread that works on a key of its own sees what it would see alone, call
\* by call, while others use the same buckets and the table is resized.
OwnResults ==
  [][todo'[t1] # todo[t1] =>
       result'[t1] = Required[Len(Required) - Len(todo'[t1])]]_vars

\* A scan lists an entry that nobody touches meanwhile once, here the one of the
\* thread that scans, although others fill, empty and resize the table around it.
OwnKeyListed ==
  [][pc[t1] = "scan" /\ pc'[t1] # "scan" =>
       Cardinality({j \in DOMAIN seen[t1] : seen[t1][j] = k1}) = 1]_vars

\* The race of two insert() of one key, and of operator[] with a remove().
InsertPrograms == OneOf({"insert"}, {k1})
SubscriptPrograms == [t \in Threads |-> {SameProgram(t)}]

=============================================================================
