-------------------------- MODULE CountingSemaphore --------------------------
(***************************************************************************)
(* CountingSemaphore of mutex.cpp as it is built where there are no POSIX  *)
(* semaphores (__APPLE__): a counter, a mutex and a condition variable.    *)
(* README.md:16 reports deadlocks on that platform and suspects            *)
(* pthread_cond_wait(); this module asks whether wait() and post() are     *)
(* right given a condition variable that does what POSIX says: a signal    *)
(* wakes at least one sleeper, and a sleeper may wake up without one.      *)
(*                                                                         *)
(* _count is only changed under _mutex, so the section between lock and    *)
(* unlock, or sleep, is one step once the mutex is held.                   *)
(***************************************************************************)
EXTENDS Integers, FiniteSets

CONSTANTS
  Waiters,     \* processes that call wait()
  Posters,     \* processes that call post()
  InitValue,   \* the constructor's argument
  MaxCalls,    \* bound: calls of each process
  Free         \* the mutex's value when nobody holds it

Procs == Waiters \cup Posters

ASSUME SemaphoreAssumption ==
  /\ IsFiniteSet(Waiters) /\ IsFiniteSet(Posters)
  /\ Waiters \cap Posters = {} /\ Free \notin Procs
  /\ InitValue \in Nat /\ MaxCalls \in Nat

VARIABLES
  count,    \* _count
  mutex,    \* _mutex: its holder, or Free
  pc,       \* where each process is
  calls     \* how many calls each process has begun

vars == <<count, mutex, pc, calls>>

Labels == {"idle", "lock", "held", "asleep"}

Init ==
  /\ count = InitValue
  /\ mutex = Free
  /\ pc = [p \in Procs |-> "idle"]
  /\ calls = [p \in Procs |-> 0]

Goto(p, from, to) == pc[p] = from /\ pc' = [pc EXCEPT ![p] = to]

Begin(p) ==
  /\ calls[p] < MaxCalls
  /\ Goto(p, "idle", "lock")
  /\ calls' = [calls EXCEPT ![p] = @ + 1]
  /\ UNCHANGED <<count, mutex>>

\* pthread_mutex_lock(), also on the way out of pthread_cond_wait().
Lock(p) ==
  /\ mutex = Free
  /\ Goto(p, "lock", "held")
  /\ mutex' = p
  /\ UNCHANGED <<count, calls>>

\* p leaves, and if c > 0, where c is the count it leaves behind, signals.
Sleepers == {p \in Procs : pc[p] = "asleep"}
LeaveSilently(p, c) ==                  \* a bug: nobody is told
  /\ pc' = [pc EXCEPT ![p] = "idle"]
  /\ mutex' = Free
Leave(p, c) ==
  /\ \E woken \in SUBSET Sleepers :
       /\ c > 0 /\ Sleepers # {} => woken # {}
       /\ c <= 0 => woken = {}
       /\ pc' = [q \in Procs |-> IF q = p THEN "idle"
                                 ELSE IF q \in woken THEN "lock" ELSE pc[q]]
  /\ mutex' = Free

\* wait(): go to sleep, or take a token.
WaitSleep(p) ==
  /\ count <= 0
  /\ Goto(p, "held", "asleep")
  /\ mutex' = Free
  /\ UNCHANGED <<count, calls>>

WaitTakeAnyway(p) ==                    \* a bug: do not look at the count
  /\ pc[p] = "held"
  /\ count' = count - 1
  /\ Leave(p, count - 1)
  /\ UNCHANGED calls
WaitTake(p) ==
  /\ pc[p] = "held" /\ count > 0
  /\ count' = count - 1
  /\ Leave(p, count - 1)
  /\ UNCHANGED calls

WakeUp(p) ==                            \* a spurious wake-up
  /\ Goto(p, "asleep", "lock")
  /\ UNCHANGED <<count, mutex, calls>>

Post(p) ==
  /\ pc[p] = "held"
  /\ count' = count + 1
  /\ Leave(p, count + 1)
  /\ UNCHANGED calls

Waiting(p) == Lock(p) \/ WaitSleep(p) \/ WaitTake(p)
Posting(p) == Lock(p) \/ Post(p)

Next ==
  \/ \E p \in Waiters : Begin(p) \/ Waiting(p) \/ WakeUp(p)
  \/ \E p \in Posters : Begin(p) \/ Posting(p)

Spec == Init /\ [][Next]_vars

\* Every process inside a call is run.  Nobody has to call wait() or post(), and
\* no spurious wake-up may come to the rescue.
Fairness == /\ \A p \in Waiters : WF_vars(Waiting(p))
            /\ \A p \in Posters : WF_vars(Posting(p))
FairSpec == Spec /\ Fairness

-----------------------------------------------------------------------------
(***************************************************************************)
(* Properties.                                                             *)
(***************************************************************************)
\* Every variable keeps its type; _count is unsigned and must not pass zero.
TypeOK ==
  /\ count \in 0 .. InitValue + MaxCalls * Cardinality(Posters)
  /\ mutex \in Procs \cup {Free}
  /\ pc \in [Procs -> Labels]
  /\ calls \in [Procs -> 0 .. MaxCalls]

\* The mutex, the condition variable and the counter make a semaphore: every
\* wait() takes a token that is there, every post() adds one.
Abstract == INSTANCE Semaphore WITH
              value <- count, calling <- {p \in Procs : pc[p] # "idle"}
RefinesSemaphore == Abstract!Spec

\* No token is left beside a sleeper: if there are tokens while somebody sleeps,
\* somebody else is on the way to take one or to signal.
NoTokenStranded ==
  count > 0 /\ Sleepers # {} => \E p \in Procs : pc[p] \in {"lock", "held"}

\* A process that waits returns from wait() or the tokens run out.
TokensTaken ==
  \A p \in Waiters : pc[p] # "idle" /\ count > 0 ~> pc[p] = "idle" \/ count = 0

=============================================================================
