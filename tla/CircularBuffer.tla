--------------------------- MODULE CircularBuffer ---------------------------
(***************************************************************************)
(* CircularBuffer<T, N> of circular_buffer.h: the request queue that lives *)
(* in shared memory between the clients (push_back) and the server's       *)
(* threads (pop).  Two counting semaphores gate the slots, _pmutex guards  *)
(* the indices and _size, and both push_back and pop look at _size in a    *)
(* critical section of their own BEFORE they wait on their semaphore, so   *)
(* what they saw may be stale when they get there.                         *)
(*                                                                         *)
(* Steps.  A critical section that only reads (isFull, isEmpty) is one     *)
(* step taken while the mutex is free.  The sections of push_back and pop  *)
(* are two steps each, with the mutex held in between.  sem_wait and       *)
(* sem_post are one step each.                                             *)
(*                                                                         *)
(* A client may be killed inside push_back.  The mutex is not robust and   *)
(* semaphores have no owner: what it took stays taken.  The server's       *)
(* threads live as long as the buffer.                                     *)
(***************************************************************************)
EXTENDS Integers, Sequences, FiniteSets

CONSTANTS
  N,           \* number of slots, the template parameter N
  Producers,   \* processes that call push_back()
  Consumers,   \* threads that call pop()
  Updaters,    \* processes that call update()
  Mortal,      \* the producers that may be killed
  MaxPushes,   \* bound: messages each producer sends (its input is finite)
  Free         \* the mutex's value when nobody holds it

Procs == Producers \cup Consumers

ASSUME BufferAssumption ==
  /\ N \in Nat \ {0}
  /\ MaxPushes \in Nat
  /\ IsFiniteSet(Producers) /\ IsFiniteSet(Consumers)
  /\ Producers \cap Consumers = {}
  /\ Free \notin Procs
  /\ Mortal \subseteq Producers

VARIABLES
  buffer,      \* _buffer
  headIdx,     \* _headIdx: next slot to pop
  tailIdx,     \* _tailIdx: next slot to fill
  size,        \* _size
  mutex,       \* _pmutex: its holder, or Free
  openSlots,   \* value of the semaphore _openSlots
  fullSlots,   \* value of the semaphore _fullSlots
  pc,          \* where each process is inside push_back or pop
  dead,        \* the producers that were killed, there
  sent,        \* messages each producer has begun to push successfully
  given,       \* the slot index each producer's last push_back() returned
  out          \* what each consumer's last successful pop() read

vars == <<buffer, headIdx, tailIdx, size, mutex, openSlots, fullSlots, pc,
          dead, sent, given, out>>

Slots    == 0 .. N - 1
\* A message is named by its sender and its position in the sender's input;
\* position 0 is what update() writes.
Messages == (Producers \cup Updaters) \X (0 .. MaxPushes)
Blank    == <<"blank", 0>>              \* the value-initialised T{}
Entry    == [msg : Messages \cup {Blank}, idx : Slots]
NoEntry  == [msg |-> "none"]

PushLabels == {"pushWait", "pushLock", "pushAdvance", "pushPost"}
PopLabels  == {"popWait", "popLock", "popAdvance", "popPost"}

Next1(i) == (i + 1) % N

\* Process p, which is alive, takes a step.
Goto(p, from, to) ==
  /\ pc[p] = from /\ p \notin dead
  /\ pc' = [pc EXCEPT ![p] = to]
  /\ UNCHANGED dead

(***************************************************************************)
(* Bugs this code could have.  Each stands in for the action it is named   *)
(* after, to show that the properties below tell the two apart.            *)
(***************************************************************************)
PushWaitNever(p) ==          \* fill a slot without waiting for an open one
  /\ Goto(p, "pushWait", "pushLock")
  /\ openSlots' = openSlots - 1
  /\ UNCHANGED <<buffer, headIdx, tailIdx, size, mutex, fullSlots, sent, given, out>>

PushLockUnguarded(p) ==      \* fill the slot without taking _pmutex
  /\ Goto(p, "pushLock", "pushAdvance")
  /\ mutex' = p
  /\ buffer' = [buffer EXCEPT ![tailIdx] = <<p, sent[p]>>]
  /\ given' = [given EXCEPT ![p] = tailIdx]
  /\ size' = size + 1
  /\ UNCHANGED <<headIdx, tailIdx, openSlots, fullSlots, sent, out>>

PushPostForgotten(p) ==      \* do not post _fullSlots
  /\ Goto(p, "pushPost", "idle")
  /\ UNCHANGED <<buffer, headIdx, tailIdx, size, mutex, openSlots, fullSlots, sent,
                 given, out>>

PopLockLateIndex(c) ==       \* report the index the head moves to
  /\ mutex = Free
  /\ Goto(c, "popLock", "popAdvance")
  /\ mutex' = c
  /\ out' = [out EXCEPT ![c] = [msg |-> buffer[headIdx], idx |-> Next1(headIdx)]]
  /\ size' = size - 1
  /\ UNCHANGED <<buffer, headIdx, tailIdx, openSlots, fullSlots, sent, given>>

PopPostForgotten(c) ==       \* do not post _openSlots
  /\ Goto(c, "popPost", "idle")
  /\ UNCHANGED <<buffer, headIdx, tailIdx, size, mutex, openSlots, fullSlots, sent,
                 given, out>>

-----------------------------------------------------------------------------
Init ==
  /\ buffer = [i \in Slots |-> Blank]
  /\ headIdx = 0 /\ tailIdx = 0 /\ size = 0
  /\ mutex = Free
  /\ openSlots = N /\ fullSlots = 0
  /\ pc = [p \in Procs |-> "idle"]
  /\ dead = {}
  /\ sent = [p \in Producers |-> 0]
  /\ given = [p \in Producers |-> -1]
  /\ out = [c \in Consumers |-> NoEntry]

(***************************************************************************)
(* push_back(elem).  The early return -1 when isFull() changes nothing:    *)
(* the caller sleeps and tries the same message again.                     *)
(***************************************************************************)
PushCheck(p) ==          \* isFull() answered false
  /\ mutex = Free
  /\ size # N
  /\ sent[p] < MaxPushes
  /\ Goto(p, "idle", "pushWait")
  /\ sent' = [sent EXCEPT ![p] = @ + 1]
  /\ UNCHANGED <<buffer, headIdx, tailIdx, size, mutex, openSlots, fullSlots,
                 given, out>>

PushWait(p) ==           \* _openSlots.wait()
  /\ openSlots > 0
  /\ Goto(p, "pushWait", "pushLock")
  /\ openSlots' = openSlots - 1
  /\ UNCHANGED <<buffer, headIdx, tailIdx, size, mutex, fullSlots, sent, given,
                 out>>

PushLock(p) ==           \* lock, fill the tail slot, ++_size
  /\ mutex = Free
  /\ Goto(p, "pushLock", "pushAdvance")
  /\ mutex' = p
  /\ buffer' = [buffer EXCEPT ![tailIdx] = <<p, sent[p]>>]
  /\ given' = [given EXCEPT ![p] = tailIdx]
  /\ size' = size + 1
  /\ UNCHANGED <<headIdx, tailIdx, openSlots, fullSlots, sent, out>>

PushAdvance(p) ==        \* move the tail, unlock
  /\ Goto(p, "pushAdvance", "pushPost")
  /\ tailIdx' = Next1(tailIdx)
  /\ mutex' = Free
  /\ UNCHANGED <<buffer, headIdx, size, openSlots, fullSlots, sent, given, out>>

PushPost(p) ==           \* _fullSlots.post()
  /\ Goto(p, "pushPost", "idle")
  /\ fullSlots' = fullSlots + 1
  /\ UNCHANGED <<buffer, headIdx, tailIdx, size, mutex, openSlots, sent, given,
                 out>>

(***************************************************************************)
(* pop().  The early return std::nullopt when isEmpty() changes nothing:   *)
(* the server thread's loop calls pop() again.                             *)
(***************************************************************************)
PopCheck(c) ==           \* isEmpty() answered false
  /\ mutex = Free
  /\ size # 0
  /\ Goto(c, "idle", "popWait")
  /\ UNCHANGED <<buffer, headIdx, tailIdx, size, mutex, openSlots, fullSlots,
                 sent, given, out>>

PopWait(c) ==            \* _fullSlots.wait()
  /\ fullSlots > 0
  /\ Goto(c, "popWait", "popLock")
  /\ fullSlots' = fullSlots - 1
  /\ UNCHANGED <<buffer, headIdx, tailIdx, size, mutex, openSlots, sent, given,
                 out>>

PopLock(c) ==            \* lock, read the head slot and its index, --_size
  /\ mutex = Free
  /\ Goto(c, "popLock", "popAdvance")
  /\ mutex' = c
  /\ out' = [out EXCEPT ![c] = [msg |-> buffer[headIdx], idx |-> headIdx]]
  /\ size' = size - 1
  /\ UNCHANGED <<buffer, headIdx, tailIdx, openSlots, fullSlots, sent, given>>

PopAdvance(c) ==         \* move the head, unlock
  /\ Goto(c, "popAdvance", "popPost")
  /\ headIdx' = Next1(headIdx)
  /\ mutex' = Free
  /\ UNCHANGED <<buffer, tailIdx, size, openSlots, fullSlots, sent, given, out>>

PopPost(c) ==            \* _openSlots.post()
  /\ Goto(c, "popPost", "idle")
  /\ openSlots' = openSlots + 1
  /\ UNCHANGED <<buffer, headIdx, tailIdx, size, mutex, fullSlots, sent, given,
                 out>>

\* update(idx, elem): overwrite a slot under the mutex.  An index outside the
\* buffer throws before anything changes.
Update(u, i) ==
  /\ mutex = Free
  /\ buffer' = [buffer EXCEPT ![i] = <<u, 0>>]
  /\ UNCHANGED <<headIdx, tailIdx, size, mutex, openSlots, fullSlots, pc, dead,
                 sent, given, out>>

\* A client is killed inside push_back().  (Outside, it just sends no more.)
Die(p) ==
  /\ p \notin dead /\ pc[p] # "idle"
  /\ dead' = dead \cup {p}
  /\ UNCHANGED <<buffer, headIdx, tailIdx, size, mutex, openSlots, fullSlots, pc,
                 sent, given, out>>

-----------------------------------------------------------------------------
\* push_back once begun; beginning one is the producer's own choice.
Pushing(p) == PushWait(p) \/ PushLock(p) \/ PushAdvance(p) \/ PushPost(p)

Popping(c) ==
  PopCheck(c) \/ PopWait(c) \/ PopLock(c) \/ PopAdvance(c) \/ PopPost(c)

Next ==
  \/ \E p \in Producers : PushCheck(p) \/ Pushing(p)
  \/ \E c \in Consumers : Popping(c)
  \/ \E u \in Updaters, i \in Slots : Update(u, i)
  \/ \E p \in Mortal : Die(p)

Spec == Init /\ [][Next]_vars

\* The scheduler runs every process that can run, and the server's threads
\* call pop() for ever.  Weak fairness is enough because each producer sends
\* finitely many messages, so nobody can be overtaken for ever.
Fairness ==
  /\ \A p \in Producers : WF_vars(Pushing(p))
  /\ \A c \in Consumers : WF_vars(Popping(c))

FairSpec == Spec /\ Fairness

-----------------------------------------------------------------------------
(***************************************************************************)
(* Properties.                                                             *)
(***************************************************************************)

\* Every variable keeps its type; in particular the semaphores never exceed N.
TypeOK ==
  /\ buffer \in [Slots -> Messages \cup {Blank}]
  /\ headIdx \in Slots /\ tailIdx \in Slots
  /\ size \in 0 .. N
  /\ mutex \in Procs \cup {Free}
  /\ openSlots \in 0 .. N /\ fullSlots \in 0 .. N
  /\ pc \in [Procs -> {"idle"} \cup PushLabels \cup PopLabels]
  /\ \A p \in Producers : pc[p] \in {"idle"} \cup PushLabels
  /\ \A c \in Consumers : pc[c] \in {"idle"} \cup PopLabels
  /\ dead \subseteq Producers
  /\ sent \in [Producers -> 0 .. MaxPushes]
  /\ given \in [Producers -> Slots \cup {-1}]
  /\ out \in [Consumers -> Entry \cup {NoEntry}]

\* The processes whose control is at one of the given labels, and the labels
\* between wait() and post(): pushers that took an open slot (Filled: and have
\* counted it in _size), poppers that took a full one (Claimed: still counted).
At(labels) == {p \in Procs : pc[p] \in labels}
Filling  == {"pushLock", "pushAdvance", "pushPost"}
Emptying == {"popLock", "popAdvance", "popPost"}
Filled   == {"pushAdvance", "pushPost"}
Claimed  == {"popLock"}

\* The semaphore tokens, in the semaphores or in the hands of the processes
\* between their wait() and their post(), always add up to the capacity, and
\* _size differs from _fullSlots only by the processes that are between a
\* critical section and the post() or wait() that belongs to it.
TokensConserved ==
  /\ openSlots + fullSlots + Cardinality(At(Filling))
                           + Cardinality(At(Emptying)) = N
  /\ size = fullSlots + Cardinality(At(Filled)) + Cardinality(At(Claimed))

\* Between unlock and lock the head, the tail and _size agree; while a
\* process holds the mutex exactly one index is one behind.
HalfPushed == \E p \in Producers : pc[p] = "pushAdvance"
HalfPopped == \E c \in Consumers : pc[c] = "popAdvance"
Front == IF HalfPopped THEN Next1(headIdx) ELSE headIdx
Back  == IF HalfPushed THEN Next1(tailIdx) ELSE tailIdx
IndicesAgree == Back = (Front + size) % N

\* _pmutex is held exactly by the process inside the two-step section.
MutexHeld ==
  \A p \in Procs : pc[p] \in {"pushAdvance", "popAdvance"} <=> mutex = p

\* A stale isFull() or isEmpty() answer never hurts: whoever is about to enter
\* push_back's section finds a slot that holds no unread message, and whoever
\* is about to enter pop's finds a message, so neither "_size < 0" exit
\* (circular_buffer.h:109 and :155) is ever taken.
NoOverrunNoUnderrun ==
  /\ At({"pushLock"}) # {} => size < N
  /\ At({"popLock"}) # {} => size > 0

\* The buffer, seen as the queue it stands for.
Waiting == [j \in 1 .. size |->
              LET i == (Front + j - 1) % N IN [msg |-> buffer[i], idx |-> i]]

\* The buffer is a FIFO queue whose entries keep their slot index from
\* push_back to pop, each delivered to exactly one consumer.
Abstract == INSTANCE BoundedQueue WITH queue <- Waiting, tail <- Back
RefinesQueue == Abstract!Spec

\* What deaths cost: one that happens under the mutex stops everybody; one
\* between wait() and post() keeps a slot, and if it has counted its message
\* already, leaves one message behind that no consumer is told of.
Blocked == mutex \in dead
Kept    == Cardinality(dead \cap At(Filling))
Untold  == Cardinality(dead \cap At({"pushPost"}))

\* A message in the buffer is eventually taken out of it, even though consumers
\* may block in _fullSlots.wait() after a stale isEmpty(); only as many of the
\* youngest messages as producers died before their post() may stay.
EveryMessagePopped ==
  \A m \in Producers \X (1 .. MaxPushes) :
    (\E j \in DOMAIN Waiting : Waiting[j].msg = m)
      ~> \/ \A j \in DOMAIN Waiting : Waiting[j].msg = m => Len(Waiting) - j < Untold
         \/ Blocked

\* A push_back that passed isFull() returns: its wait on _openSlots ends, unless
\* every slot has been taken by somebody who died.
PushReturns ==
  \A p \in Producers :
    pc[p] # "idle" ~> pc[p] = "idle" \/ p \in dead \/ Blocked \/ Kept >= N

=============================================================================
