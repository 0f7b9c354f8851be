------------------------------ MODULE MCSystem ------------------------------
(***************************************************************************)
(* Small instances of System for TLC.                                      *)
(***************************************************************************)
EXTENDS System, TLC

CONSTANTS a, b, own, shared

Do(op, k, v) == [op |-> op, key |-> k, val |-> v]

\* The requests of run_many.sh, on a key that no other client uses.
OwnScript ==
  <<Do("get", own, a), Do("insert", own, a), Do("get", own, a),
    Do("delete", own, a), Do("get", own, a)>>

\* Buckets one after the other, and a key that clients compete for.
ReadScript(n, c) == [i \in 1 .. n |-> Do("read", shared, c)]
SharedScript(c) == <<Do("insert", shared, c), Do("delete", shared, c)>>
InsertScript(c) == <<Do("insert", shared, c), Do("insert", shared, c)>>

Pair(first, second) == (a :> first) @@ (b :> second)
AllScripts == {Pair(OwnScript, SharedScript(b)),
               Pair(InsertScript(a), SharedScript(b)),
               Pair(ReadScript(1, a), SharedScript(b)),
               Pair(ReadScript(2, a), ReadScript(1, b))}
ReadScripts == {Pair(ReadScript(2, a), << >>)}

\* A client that works on a key of its own hears what it would hear alone,
\* command by command, and leaves the table as it was (README.md:22).
Required == <<Missing, Inserted, a, a, Missing>>
OwnKeys ==
  [][todo'[a] # todo[a] /\ Head(todo[a]).key = own =>
       heard'[a] = Required[5 - Len(todo'[a])]]_systemVars

=============================================================================
