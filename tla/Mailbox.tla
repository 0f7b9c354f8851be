------------------------------- MODULE Mailbox -------------------------------
(***************************************************************************)
(* The request/response protocol of client.cpp and server.cpp over the     *)
(* Mailbox in shared memory (message.h:108).  A client pushes a request    *)
(* into the queue and waits at the response slot with the index push_back  *)
(* returned; a server thread pops the request, with that index, and writes *)
(* its answer there as soon as the slot is free.  Clients and threads that *)
(* wait for slot i share mutexes[i] and the condition variable rcvs[i].    *)
(*                                                                         *)
(* The queue is that of BoundedQueue.tla, which CircularBuffer refines.    *)
(* What a request asks of the table is left open: an answer names the      *)
(* request it answers.  Clients may die.  main() may shut the server down  *)
(* and then destroys the Mailbox, whether or not clients still use it.     *)
(***************************************************************************)
EXTENDS Integers, Sequences, FiniteSets

CONSTANTS
  N,             \* the constant slots: queue slots, response slots, threads
  Clients,
  Threads,       \* the threads that run receiveMsg()
  Main,          \* the server's main()
  MaxRequests,   \* bound: messages each client sends (its input is finite)
  Mortal,        \* the clients that may be killed
  MayStop,       \* may the server receive SIGINT?
  Nobody         \* client_id 0, and the owner of a free mutex

Procs == Clients \cup Threads
Slots == 0 .. N - 1

ASSUME MailboxAssumption ==
  /\ N \in Nat \ {0} /\ MaxRequests \in Nat
  /\ IsFiniteSet(Clients) /\ IsFiniteSet(Threads) /\ Cardinality(Threads) = N
  /\ Clients \cap Threads = {} /\ Main \notin Procs /\ Nobody \notin Procs
  /\ Mortal \subseteq Clients /\ MayStop \in BOOLEAN

VARIABLES
  queue,      \* msgs: the requests waiting, oldest first, each with its index
  tail,       \* the index the next request will get
  slots,      \* responses: ready flag, client_id, and the request answered
  lock,       \* the owner of each of mutexes
  pc,         \* where each client, thread and main() is
  at,         \* the index each client or thread works with
  job,        \* the request each thread popped last
  asked,      \* how many messages each client has sent
  got,        \* the last answer each client took
  exits       \* how many EXIT messages main() has tried to push

vars == <<queue, tail, slots, lock, pc, at, job, asked, got, exits>>

\* INSERT, GET, DELETE and READ_BUCKET ask for an answer; CLOSE_SHM does not.
Request == [from : Clients, n : 1 .. MaxRequests, mode : {"ask", "close"}]
Exit    == [mode |-> "exit"]
None    == [mode |-> "none"]
FreeSlot == [ready |-> FALSE, client |-> Nobody, answer |-> None]

Goto(p, from, to) == pc[p] = from /\ pc' = [pc EXCEPT ![p] = to]

-----------------------------------------------------------------------------
Init ==
  /\ queue = << >> /\ tail = 0
  /\ slots = [i \in Slots |-> FreeSlot]
  /\ lock = [i \in Slots |-> Nobody]
  /\ pc = [p \in Procs \cup {Main} |-> "idle"]
  /\ at = [p \in Procs |-> 0]
  /\ job = [t \in Threads |-> None]
  /\ asked = [c \in Clients |-> 0]
  /\ got = [c \in Clients |-> None]
  /\ exits = 0

Full == Len(queue) = N
PushOver(msg) ==                        \* a bug: do not mind a full queue
  /\ queue' = Append(queue, [msg |-> msg, idx |-> tail])
  /\ tail' = (tail + 1) % N
Push(msg) == /\ ~Full
             /\ queue' = Append(queue, [msg |-> msg, idx |-> tail])
             /\ tail' = (tail + 1) % N

(***************************************************************************)
(* The client.  sendMsg() repeats push_back() while the queue is full.     *)
(* CLOSE_SHM only ever follows the answer to a READ_BUCKET.                *)
(***************************************************************************)
Open(c) == [from |-> c, n |-> asked[c], mode |-> "ask"]

Send(c, mode) ==
  /\ asked[c] < MaxRequests /\ pc[Main] # "returned"
  /\ mode = "close" => got[c] = Open(c)
  /\ Goto(c, "idle", IF mode = "ask" THEN "lock" ELSE "idle")
  /\ Push([from |-> c, n |-> asked[c] + 1, mode |-> mode])
  /\ asked' = [asked EXCEPT ![c] = @ + 1]
  /\ at' = [at EXCEPT ![c] = tail]
  /\ UNCHANGED <<slots, lock, job, got, exits>>

\* mutexes[idx].lock(), or its return inside pthread_cond_wait().
Lock(p) ==
  /\ lock[at[p]] = Nobody /\ pc[Main] # "returned"
  /\ Goto(p, "lock", "held")
  /\ lock' = [lock EXCEPT ![at[p]] = p]
  /\ UNCHANGED <<queue, tail, slots, at, job, asked, got, exits>>

Slot(p) == slots[at[p]]
Mine(c) == Slot(c).ready /\ Slot(c).client = c
Busy(t) == Slot(t).ready \/ Slot(t).client # Nobody

\* pthread_cond_wait(): release the mutex and go to sleep.
Sleep(p) ==
  /\ IF p \in Clients THEN ~Mine(p) ELSE Busy(p)
  /\ Goto(p, "held", "asleep")
  /\ lock' = [lock EXCEPT ![at[p]] = Nobody]
  /\ UNCHANGED <<queue, tail, slots, at, job, asked, got, exits>>

\* pthread_cond_broadcast() and unlock(): p goes on to idle, everybody that
\* sleeps at its slot to lock the mutex again.
Sleepers(i) == {p \in Procs : pc[p] = "asleep" /\ at[p] = i}
SignalOne(p) ==                         \* a bug: pthread_cond_signal()
  /\ \E woken \in SUBSET Sleepers(at[p]) :
       /\ Cardinality(woken) = IF Sleepers(at[p]) = {} THEN 0 ELSE 1
       /\ pc' = [q \in DOMAIN pc |-> IF q = p THEN "idle"
                                     ELSE IF q \in woken THEN "lock" ELSE pc[q]]
  /\ lock' = [lock EXCEPT ![at[p]] = Nobody]
Broadcast(p) ==
  /\ pc' = [q \in DOMAIN pc |-> IF q = p THEN "idle"
                                ELSE IF q \in Sleepers(at[p]) THEN "lock" ELSE pc[q]]
  /\ lock' = [lock EXCEPT ![at[p]] = Nobody]

TakeAny(c) ==                           \* a bug: do not compare client_id
  /\ pc[c] = "held" /\ Slot(c).ready
  /\ got' = [got EXCEPT ![c] = Slot(c).answer]
  /\ slots' = [slots EXCEPT ![at[c]] = FreeSlot]
  /\ Broadcast(c)
  /\ UNCHANGED <<queue, tail, at, job, asked, exits>>
Take(c) ==
  /\ pc[c] = "held" /\ Mine(c)
  /\ got' = [got EXCEPT ![c] = Slot(c).answer]
  /\ slots' = [slots EXCEPT ![at[c]] = FreeSlot]
  /\ Broadcast(c)
  /\ UNCHANGED <<queue, tail, at, job, asked, exits>>

\* The client is killed, wherever it is.  A mutex it holds stays locked, and a
\* condition variable goes on counting it as a waiter.
Die(c) ==
  /\ pc[c] \notin {"dead", "deadAsleep"}
  /\ pc' = [pc EXCEPT ![c] = IF @ = "asleep" THEN "deadAsleep" ELSE "dead"]
  /\ UNCHANGED <<queue, tail, slots, lock, at, job, asked, got, exits>>

\* Locking a mutex that main() has destroyed fails, and the client exits.
Fail(c) ==
  /\ pc[Main] \in {"returned", "failed"} /\ pc[c] \in {"idle", "lock"}
  /\ pc' = [pc EXCEPT ![c] = "dead"]
  /\ UNCHANGED <<queue, tail, slots, lock, at, job, asked, got, exits>>

(***************************************************************************)
(* The server: receiveMsg() and respond().                                 *)
(***************************************************************************)
AfterPop == [ask |-> "lock", close |-> "idle", exit |-> "exited"]

PopWithTail(t) ==                       \* a bug: the index of the wrong end
  /\ queue # << >>
  /\ Goto(t, "idle", AfterPop[Head(queue).msg.mode])
  /\ job' = [job EXCEPT ![t] = Head(queue).msg]
  /\ at' = [at EXCEPT ![t] = tail]
  /\ queue' = Tail(queue)
  /\ UNCHANGED <<tail, slots, lock, asked, got, exits>>
PopHead(t) ==
  /\ queue # << >>
  /\ Goto(t, "idle", AfterPop[Head(queue).msg.mode])
  /\ job' = [job EXCEPT ![t] = Head(queue).msg]
  /\ at' = [at EXCEPT ![t] = Head(queue).idx]
  /\ queue' = Tail(queue)
  /\ UNCHANGED <<tail, slots, lock, asked, got, exits>>

AnswerOver(t) ==                        \* a bug: do not wait for the slot
  /\ pc[t] = "held"
  /\ slots' = [slots EXCEPT ![at[t]] =
                 [ready |-> TRUE, client |-> job[t].from, answer |-> job[t]]]
  /\ Broadcast(t)
  /\ UNCHANGED <<queue, tail, at, job, asked, got, exits>>
Answer(t) ==
  /\ pc[t] = "held" /\ ~Busy(t)
  /\ slots' = [slots EXCEPT ![at[t]] =
                 [ready |-> TRUE, client |-> job[t].from, answer |-> job[t]]]
  /\ Broadcast(t)
  /\ UNCHANGED <<queue, tail, at, job, asked, got, exits>>

\* main() after SIGINT: one EXIT per slot, whether push_back() takes it or
\* not, then join all threads.
Stop ==
  /\ MayStop
  /\ Goto(Main, "idle", "stopping")
  /\ UNCHANGED <<queue, tail, slots, lock, at, job, asked, got, exits>>

PushExitFirst ==                        \* a bug: put EXIT before the requests
  /\ pc[Main] = "stopping" /\ exits < N
  /\ exits' = exits + 1
  /\ \/ /\ ~Full
        /\ queue' = <<[msg |-> Exit, idx |-> tail]>> \o queue
        /\ tail' = (tail + 1) % N
     \/ Full /\ UNCHANGED <<queue, tail>>
  /\ UNCHANGED <<slots, lock, pc, at, job, asked, got>>
PushExit ==
  /\ pc[Main] = "stopping" /\ exits < N
  /\ exits' = exits + 1
  /\ \/ Push(Exit)
     \/ Full /\ UNCHANGED <<queue, tail>>
  /\ UNCHANGED <<slots, lock, pc, at, job, asked, got>>

Join ==
  /\ exits = N /\ \A t \in Threads : pc[t] = "exited"
  /\ Goto(Main, "stopping", "joined")
  /\ UNCHANGED <<queue, tail, slots, lock, at, job, asked, got, exits>>

\* ~Mailbox().  A locked mutex can not be destroyed: exit(-1).  A condition
\* variable with waiters must not be: destroying it blocks (glibc) or fails.
Asleep == {c \in Clients : pc[c] \in {"asleep", "deadAsleep"}}
Locked == \E i \in Slots : lock[i] # Nobody
Destroy ==
  /\ Asleep = {}
  /\ Goto(Main, "joined", IF Locked THEN "failed" ELSE "returned")
  /\ UNCHANGED <<queue, tail, slots, lock, at, job, asked, got, exits>>
DestroyBusy ==
  /\ Asleep # {}
  /\ Goto(Main, "joined", "failed")
  /\ UNCHANGED <<queue, tail, slots, lock, at, job, asked, got, exits>>

-----------------------------------------------------------------------------
Waiting(c) == Lock(c) \/ Sleep(c) \/ Take(c)
Serving(t) == PopHead(t) \/ Lock(t) \/ Sleep(t) \/ Answer(t)
Stopping == PushExit \/ Join \/ Destroy

Next ==
  \/ \E c \in Clients : \/ Waiting(c) \/ Fail(c)
                        \/ \E mode \in {"ask", "close"} : Send(c, mode)
  \/ \E c \in Mortal : Die(c)
  \/ \E t \in Threads : Serving(t)
  \/ Stop \/ Stopping \/ DestroyBusy

Spec == Init /\ [][Next]_vars

\* Every process that can run is run.  A client sends when it likes.  Weak
\* fairness suffices: traffic is finite, so a mutex is not taken by others for
\* ever.
Fairness ==
  /\ \A c \in Clients : WF_vars(Waiting(c))
  /\ \A t \in Threads : WF_vars(Serving(t))
  /\ WF_vars(Stopping)
FairSpec == Spec /\ Fairness

-----------------------------------------------------------------------------
(***************************************************************************)
(* Properties.                                                             *)
(***************************************************************************)
Labels == {"idle", "lock", "held", "asleep", "dead", "deadAsleep", "exited",
           "stopping", "joined", "returned", "failed"}

\* Every variable keeps its type.
TypeOK ==
  /\ queue \in Seq([msg : Request \cup {Exit}, idx : Slots]) /\ Len(queue) <= N
  /\ tail \in Slots
  /\ slots \in [Slots -> [ready : BOOLEAN, client : Clients \cup {Nobody},
                          answer : Request \cup {None}]]
  /\ lock \in [Slots -> Procs \cup {Nobody}]
  /\ pc \in [Procs \cup {Main} -> Labels]
  /\ at \in [Procs -> Slots]
  /\ job \in [Threads -> Request \cup {Exit, None}]
  /\ asked \in [Clients -> 0 .. MaxRequests]
  /\ got \in [Clients -> Request \cup {None}]
  /\ exits \in 0 .. N

InCall(c) == pc[c] \in {"lock", "held", "asleep"}

\* The request of a client that waits is in exactly one place, and wherever it
\* is it is bound for the slot the client waits at: in the queue, in the hands
\* of one thread, or answered.  So no answer is lost, sent twice, or left where
\* its client does not look, however often the slots are reused.
InQueue(c)  == {j \in DOMAIN queue : queue[j] = [msg |-> Open(c), idx |-> at[c]]}
InThread(c) == {t \in Threads : InCall(t) /\ job[t] = Open(c) /\ at[t] = at[c]}
InSlot(c)   == {i \in Slots : i = at[c] /\
                  slots[i] = [ready |-> TRUE, client |-> c, answer |-> Open(c)]}
OneCopy ==
  \A c \in Clients : InCall(c) =>
    Cardinality(InQueue(c)) + Cardinality(InThread(c)) + Cardinality(InSlot(c)) = 1

\* Nobody sleeps through its wake-up: a client asleep at a slot has no answer
\* there, and a thread asleep at a slot can not write there.  This is what needs
\* broadcast instead of the signal that both programs have commented out
\* (server.cpp:311, client.cpp:128).
NoSleeperForgotten ==
  \A p \in Procs : pc[p] = "asleep" =>
    IF p \in Clients THEN ~Mine(p) ELSE Busy(p)

\* A client that gets an answer gets the one to the request it sent last.
AnswersMatch ==
  [][\A c \in Clients : got'[c] # got[c] => got'[c] = Open(c)]_vars

\* A client that died keeps at most one slot from being reused, that of its
\* last request.
OneSlotPerDeath ==
  \A c \in Clients : pc[c] \in {"dead", "deadAsleep"} =>
    \A i \in Slots : slots[i].client = c \/ lock[i] = c => i = at[c]

\* Every request that was sent before the first EXIT is answered, as long as no
\* client dies: it is ahead of every EXIT in the queue, and a thread that popped
\* it finishes it.  The client takes the answer, unless main() has gone on and
\* destroyed the Mailbox before.
EveryRequestAnswered ==
  \A c \in Clients : exits = 0 /\ InCall(c) ~>
    \/ got[c] = Open(c)
    \/ InSlot(c) # {} /\ pc[Main] \in {"returned", "failed"}

\* After SIGINT all threads return and so does main() (server.cpp:424 and 431).
ServerStops == pc[Main] = "stopping" ~> pc[Main] = "returned"

\* Two things only can keep main() from ending after SIGINT: an EXIT that
\* found the queue full, and a client that waits for an answer nobody will give.
Taken == Cardinality({j \in DOMAIN queue : queue[j].msg = Exit})
           + Cardinality({t \in Threads : pc[t] = "exited"})
StopsUnlessDropped ==
  pc[Main] = "stopping" ~>
    \/ pc[Main] \in {"returned", "failed"}
    \/ exits = N /\ Taken < N
    \/ pc[Main] = "joined" /\ Asleep # {}

=============================================================================
