------------------------------ MODULE Semaphore ------------------------------
(***************************************************************************)
(* What a counting semaphore promises: wait() takes one token as soon as   *)
(* there is one, post() puts one back, and nothing else changes the count. *)
(* CircularBuffer.tla uses its two semaphores this way.                    *)
(***************************************************************************)
EXTENDS Naturals

CONSTANTS Waiters, Posters, InitValue

VARIABLES
  value,      \* the number of tokens
  calling     \* the processes that are inside wait() or post()

vars == <<value, calling>>

Init == value = InitValue /\ calling = {}

Call(p) ==
  /\ p \notin calling
  /\ calling' = calling \cup {p}
  /\ UNCHANGED value

\* A wait(), or a post(), takes effect and returns.
Acquire(p) ==
  /\ p \in calling /\ value > 0
  /\ value' = value - 1
  /\ calling' = calling \ {p}

Release(p) ==
  /\ p \in calling
  /\ value' = value + 1
  /\ calling' = calling \ {p}

Next ==
  \/ \E p \in Waiters : Call(p) \/ Acquire(p)
  \/ \E p \in Posters : Call(p) \/ Release(p)

Spec == Init /\ [][Next]_vars

=============================================================================
