---------------------------- MODULE BoundedQueue ----------------------------
(***************************************************************************)
(* What CircularBuffer<T, N> (circular_buffer.h) promises its callers: a   *)
(* FIFO queue of at most N messages, in which a message keeps, from        *)
(* push_back to pop, the slot index that push_back returned for it.  The   *)
(* client waits for its answer at that index and the server thread that    *)
(* popped the message answers at that index, so the two must agree.        *)
(*                                                                         *)
(* Semaphores, the mutex and the head and tail indices are implementation: *)
(* they appear in CircularBuffer.tla, which is shown to refine this one.   *)
(***************************************************************************)
EXTENDS Integers, Sequences

CONSTANTS
  N,          \* number of slots
  Messages,   \* what can be pushed
  Producers,  \* processes that call push_back()
  Consumers   \* threads that call pop()

VARIABLES
  queue,      \* the messages waiting, oldest first, each with its slot
  tail,       \* the slot the next message will get
  given,      \* the slot each producer's last push_back() returned, or -1
  out         \* the last message and slot each consumer received

vars == <<queue, tail, given, out>>

Slots == 0 .. N - 1
NoEntry == [msg |-> "none"]

Init ==
  /\ queue = << >>
  /\ tail = 0
  /\ given = [p \in Producers |-> -1]
  /\ out = [c \in Consumers |-> NoEntry]

\* p's push_back(m) takes effect: only when a slot is open.
Enqueue(p, m) ==
  /\ Len(queue) < N
  /\ queue' = Append(queue, [msg |-> m, idx |-> tail])
  /\ given' = [given EXCEPT ![p] = tail]
  /\ tail' = (tail + 1) % N
  /\ UNCHANGED out

\* pop() takes effect: the oldest message goes to exactly one consumer.
Dequeue(c) ==
  /\ queue # << >>
  /\ out' = [out EXCEPT ![c] = Head(queue)]
  /\ queue' = Tail(queue)
  /\ UNCHANGED <<tail, given>>

\* update(i, m) replaces the message waiting in slot i, if there is one.
Update(i, m) ==
  /\ queue' = [j \in DOMAIN queue |->
                 IF queue[j].idx = i THEN [msg |-> m, idx |-> i] ELSE queue[j]]
  /\ UNCHANGED <<tail, given, out>>

Next ==
  \/ \E p \in Producers, m \in Messages : Enqueue(p, m)
  \/ \E c \in Consumers : Dequeue(c)
  \/ \E i \in Slots, m \in Messages : Update(i, m)

Spec == Init /\ [][Next]_vars

=============================================================================
