---------------------------- MODULE MailboxProofs ----------------------------
(***************************************************************************)
(* Theorems about Mailbox for every number of slots, every finite set of   *)
(* clients, with and without deaths and SIGINT.                            *)
(***************************************************************************)
EXTENDS Mailbox, FiniteSetTheorems, SequenceTheorems, TLAPS

(***************************************************************************)
(* The inductive invariant.                                                *)
(***************************************************************************)
Ask == {r \in Request : r.mode = "ask"}
Dead(c) == pc[c] \in {"dead", "deadAsleep"}

\* A slot is free, or holds an answer for the client that asked.
SlotsFilled ==
  \A i \in Slots :
    \/ slots[i] = FreeSlot
    \/ slots[i].ready /\ slots[i].answer \in Ask /\ slots[i].client = slots[i].answer.from

\* A thread that is not idle works on a request that wants an answer.
JobsOpen == \A t \in Threads : InCall(t) => job[t] \in Ask

\* A mutex is held by the process that is at its slot, or died there.
LocksOwned ==
  /\ \A i \in Slots : \A p \in Procs :
       lock[i] = p => at[p] = i /\ pc[p] \in {"held", "dead"}
  /\ \A p \in Procs : pc[p] = "held" => lock[at[p]] = p

\* Wherever a request r is, on its way to slot i: it is the last one its client
\* sent, the client is still in that call, and slot i is where it waits.
Due(r, i) == /\ r.n = asked[r.from] /\ i = at[r.from]
             /\ InCall(r.from) \/ Dead(r.from)
Carried(r, i) ==
  \/ \E j \in DOMAIN queue : queue[j] = [msg |-> r, idx |-> i]
  \/ \E t \in Threads : InCall(t) /\ job[t] = r /\ at[t] = i
  \/ slots[i].ready /\ slots[i].answer = r
AllDue == \A r \in Ask : \A i \in Slots : Carried(r, i) => Due(r, i)

\* OneCopy, by cases.  After its death, too, a client's request is not doubled.
OnePlace(c) ==
  \/ /\ \E j \in InQueue(c) : InQueue(c) = {j}
     /\ InThread(c) = {} /\ InSlot(c) = {}
  \/ /\ \E t \in InThread(c) : InThread(c) = {t}
     /\ InQueue(c) = {} /\ InSlot(c) = {}
  \/ InSlot(c) # {} /\ InQueue(c) = {} /\ InThread(c) = {}
Nothing(c) == \A r \in Ask : \A i \in Slots : r.from = c => ~Carried(r, i)
SinglyPlaced ==
  \A c \in Clients : /\ InCall(c) => OnePlace(c)
                     /\ Dead(c) => OnePlace(c) \/ Nothing(c)

IInv == /\ TypeOK /\ SlotsFilled /\ JobsOpen /\ LocksOwned /\ AllDue
        /\ SinglyPlaced /\ NoSleeperForgotten
-----------------------------------------------------------------------------
(***************************************************************************)
(* Types and steps.                                                        *)
(***************************************************************************)
LEMMA ProcsDisjoint ==
  /\ \A c \in Clients : c \in Procs /\ c \notin Threads /\ c # Main /\ c # Nobody
  /\ \A t \in Threads : t \in Procs /\ t \notin Clients /\ t # Main /\ t # Nobody
  /\ \A p \in Procs : p # Main /\ p # Nobody /\ (p \in Clients \/ p \in Threads)
BY MailboxAssumption DEF Procs

LEMMA SlotArithmetic ==
  /\ 0 \in Slots
  /\ \A i \in Slots : (i + 1) % N \in Slots
BY MailboxAssumption DEF Slots

LEMMA InitIInv == Init => IInv
<1>. SUFFICES ASSUME Init PROVE IInv
  OBVIOUS
<1>1. /\ queue = << >> /\ slots = [i \in Slots |-> FreeSlot]
      /\ lock = [i \in Slots |-> Nobody]
      /\ \A p \in Procs : pc[p] = "idle"
  BY DEF Init
<1>2. TypeOK
  BY SlotArithmetic, MailboxAssumption DEF Init, TypeOK, FreeSlot, Labels, Request
<1>3. SlotsFilled
  BY <1>1 DEF SlotsFilled
<1>4. JobsOpen /\ NoSleeperForgotten /\ SinglyPlaced
  BY <1>1, ProcsDisjoint DEF JobsOpen, NoSleeperForgotten, SinglyPlaced, InCall, Dead
<1>5. LocksOwned
  BY <1>1, ProcsDisjoint DEF LocksOwned
<1>6. AllDue
  BY <1>1, ProcsDisjoint DEF AllDue, Carried, InCall, FreeSlot
<1>. QED  BY <1>2, <1>3, <1>4, <1>5, <1>6 DEF IInv

\* What TypeOK says, without the sizes.
LEMMA Types ==
  ASSUME TypeOK
  PROVE  /\ queue \in Seq([msg : Request \cup {Exit}, idx : Slots])
         /\ tail \in Slots
         /\ slots \in [Slots -> [ready : BOOLEAN, client : Clients \cup {Nobody},
                                 answer : Request \cup {None}]]
         /\ lock \in [Slots -> Procs \cup {Nobody}]
         /\ pc \in [Procs \cup {Main} -> Labels]
         /\ at \in [Procs -> Slots]
         /\ job \in [Threads -> Request \cup {Exit, None}]
         /\ asked \in [Clients -> 0 .. MaxRequests]
         /\ got \in [Clients -> Request \cup {None}]
BY DEF TypeOK

LEMMA Requests ==
  /\ \A r \in Request : /\ r.from \in Clients /\ r.n \in 1 .. MaxRequests
                        /\ r.mode \in {"ask", "close"}
                        /\ r = [from |-> r.from, n |-> r.n, mode |-> r.mode]
  /\ Exit \notin Ask /\ None \notin Ask /\ Ask \subseteq Request
  /\ Exit.mode = "exit" /\ None.mode = "none"
BY DEF Request, Exit, None, Ask

\* Where a process goes, seen by everybody.
LEMMA GotoStep ==
  ASSUME TypeOK, NEW p \in Procs \cup {Main}, NEW from, NEW to \in Labels, Goto(p, from, to)
  PROVE  /\ pc[p] = from /\ pc'[p] = to
         /\ \A q \in Procs \cup {Main} : q # p => pc'[q] = pc[q]
         /\ pc' \in [Procs \cup {Main} -> Labels]
BY DEF Goto, TypeOK

LEMMA BroadcastStep ==
  ASSUME TypeOK, NEW p \in Procs, Broadcast(p)
  PROVE  /\ pc'[p] = "idle"
         /\ \A q \in Procs \cup {Main} : q # p =>
              /\ InCall(q)' <=> InCall(q)
              /\ Dead(q)' <=> Dead(q)
              /\ pc'[q] = "held" <=> pc[q] = "held"
              /\ pc'[q] = "dead" <=> pc[q] = "dead"
              /\ pc'[q] = "asleep" => pc[q] = "asleep" /\ (q \in Procs => at[q] # at[p])
              /\ pc[q] # "asleep" => pc'[q] = pc[q]
         /\ pc' \in [Procs \cup {Main} -> Labels]
         /\ lock' \in [Slots -> Procs \cup {Nobody}]
         /\ lock' = [lock EXCEPT ![at[p]] = Nobody]
<1>1. /\ pc \in [Procs \cup {Main} -> Labels] /\ lock \in [Slots -> Procs \cup {Nobody}]
      /\ lock' = [lock EXCEPT ![at[p]] = Nobody]
  BY DEF TypeOK, Broadcast
<1>2. pc' = [q \in Procs \cup {Main} |->
               IF q = p THEN "idle"
               ELSE IF q \in Sleepers(at[p]) THEN "lock" ELSE pc[q]]
  BY <1>1 DEF Broadcast
<1>3. \A q : q \in Sleepers(at[p]) <=> q \in Procs /\ pc[q] = "asleep" /\ at[q] = at[p]
  BY DEF Sleepers
<1>. QED  BY <1>1, <1>2, <1>3 DEF InCall, Dead, Labels

LEMMA PushType ==
  ASSUME TypeOK, NEW msg \in Request \cup {Exit}, Push(msg)
  PROVE  /\ queue' = Append(queue, [msg |-> msg, idx |-> tail])
         /\ queue' \in Seq([msg : Request \cup {Exit}, idx : Slots])
         /\ Len(queue') <= N /\ tail' \in Slots
<1>1. queue \in Seq([msg : Request \cup {Exit}, idx : Slots]) /\ Len(queue) <= N
      /\ tail \in Slots /\ N \in Nat
  BY MailboxAssumption DEF TypeOK
<1>2. [msg |-> msg, idx |-> tail] \in [msg : Request \cup {Exit}, idx : Slots]
  BY <1>1
<1>. DEFINE e == [msg |-> msg, idx |-> tail]
<1>3. queue' = Append(queue, e) /\ Len(queue) # N
  BY DEF Push, Full
<1>. HIDE DEF e
<1>4. Len(queue') = Len(queue) + 1 /\ queue' \in Seq([msg : Request \cup {Exit}, idx : Slots])
  BY <1>1, <1>2, <1>3 DEF e
<1>. QED  BY <1>1, <1>3, <1>4, SlotArithmetic DEF Push, e

\* The request a thread pops, and what it does next.
LEMMA HeadType ==
  ASSUME TypeOK, queue # << >>
  PROVE  /\ Head(queue) = queue[1] /\ 1 \in DOMAIN queue
         /\ Head(queue).msg \in Request \cup {Exit} /\ Head(queue).idx \in Slots
         /\ AfterPop[Head(queue).msg.mode] \in {"lock", "idle", "exited"}
         /\ AfterPop[Head(queue).msg.mode] = "lock" <=> Head(queue).msg \in Ask
         /\ Tail(queue) \in Seq([msg : Request \cup {Exit}, idx : Slots])
         /\ Len(Tail(queue)) = Len(queue) - 1 /\ Len(queue) \in Nat
         /\ \A j \in 1 .. Len(queue) - 1 : Tail(queue)[j] = queue[j + 1]
<1>. DEFINE E == [msg : Request \cup {Exit}, idx : Slots]
<1>1. queue \in Seq(E)
  BY Types
<1>. HIDE DEF E
<1>2. /\ Head(queue) \in E /\ Tail(queue) \in Seq(E)
      /\ Head(queue) = queue[1] /\ 1 \in DOMAIN queue
      /\ Len(Tail(queue)) = Len(queue) - 1 /\ Len(queue) \in Nat
      /\ \A j \in 1 .. Len(queue) - 1 : Tail(queue)[j] = queue[j + 1]
  BY <1>1
<1>3. Head(queue).msg \in Request \cup {Exit} /\ Head(queue).idx \in Slots
  BY <1>2 DEF E
<1>4. /\ AfterPop[Head(queue).msg.mode] \in {"lock", "idle", "exited"}
      /\ AfterPop[Head(queue).msg.mode] = "lock" <=> Head(queue).msg \in Ask
  BY <1>3, Requests DEF AfterPop, Ask
<1>. QED  BY <1>2, <1>3, <1>4 DEF E

LEMMA TypeStep ==
  ASSUME IInv, Next
  PROVE  TypeOK'
<1>0. TypeOK /\ SlotsFilled /\ JobsOpen
  BY DEF IInv
<1>1. ASSUME NEW c \in Clients, NEW mode \in {"ask", "close"}, Send(c, mode)
      PROVE  TypeOK'
  <2>. DEFINE r == [from |-> c, n |-> asked[c] + 1, mode |-> mode]
  <2>1. /\ asked[c] + 1 \in 1 .. MaxRequests
        /\ asked' = [asked EXCEPT ![c] = asked[c] + 1]
        /\ Push(r) /\ at' = [at EXCEPT ![c] = tail]
        /\ UNCHANGED <<slots, lock, job, got, exits>>
    BY <1>0, <1>1, MailboxAssumption DEF Send, TypeOK
  <2>2. r \in Request
    BY <2>1 DEF Request
  <2>. HIDE DEF r
  <2>3. /\ queue' \in Seq([msg : Request \cup {Exit}, idx : Slots])
        /\ Len(queue') <= N /\ tail' \in Slots
    BY <1>0, <2>1, <2>2, PushType
  <2>4. pc' \in [Procs \cup {Main} -> Labels]
    BY <1>0, <1>1, GotoStep, ProcsDisjoint DEF Send, Labels
  <2>5. asked' \in [Clients -> 0 .. MaxRequests] /\ at' \in [Procs -> Slots]
    <3>1. asked[c] + 1 \in 0 .. MaxRequests
      BY <2>1, MailboxAssumption
    <3>2. asked' \in [Clients -> 0 .. MaxRequests]
      BY <1>0, <2>1, <3>1, Types
    <3>3. at' \in [Procs -> Slots]
      BY <1>0, <2>1, Types
    <3>. QED  BY <3>2, <3>3
  <2>. QED  BY <1>0, <2>1, <2>3, <2>4, <2>5 DEF TypeOK
<1>2. ASSUME NEW p \in Procs, Lock(p) PROVE TypeOK'
  <2>1. pc' \in [Procs \cup {Main} -> Labels]
    BY <1>0, <1>2, GotoStep DEF Lock, Labels
  <2>2. lock' \in [Slots -> Procs \cup {Nobody}]
    BY <1>0, <1>2, Types DEF Lock
  <2>. QED  BY <1>0, <1>2, <2>1, <2>2 DEF TypeOK, Lock
<1>3. ASSUME NEW p \in Procs, Sleep(p) PROVE TypeOK'
  <2>1. pc' \in [Procs \cup {Main} -> Labels]
    BY <1>0, <1>3, GotoStep DEF Sleep, Labels
  <2>2. lock' \in [Slots -> Procs \cup {Nobody}]
    BY <1>0, <1>3, Types DEF Sleep
  <2>. QED  BY <1>0, <1>3, <2>1, <2>2 DEF TypeOK, Sleep
<1>4. ASSUME NEW c \in Clients, Take(c) PROVE TypeOK'
  <2>1. /\ pc' \in [Procs \cup {Main} -> Labels]
        /\ lock' \in [Slots -> Procs \cup {Nobody}]
    BY <1>0, <1>4, BroadcastStep, ProcsDisjoint DEF Take
  <2>2. Slot(c).answer \in Request \cup {None} /\ at[c] \in Slots
    BY <1>0, Types, ProcsDisjoint DEF Slot
  <2>3. got' \in [Clients -> Request \cup {None}]
    BY <1>0, <1>4, <2>2, Types DEF Take
  <2>4. FreeSlot \in [ready : BOOLEAN, client : Clients \cup {Nobody},
                      answer : Request \cup {None}]
    BY DEF FreeSlot
  <2>5. slots' \in [Slots -> [ready : BOOLEAN, client : Clients \cup {Nobody},
                              answer : Request \cup {None}]]
    BY <1>0, <1>4, <2>4, Types DEF Take
  <2>. QED  BY <1>0, <1>4, <2>1, <2>3, <2>5 DEF TypeOK, Take
<1>5. ASSUME NEW c \in Clients, Die(c) \/ Fail(c) PROVE TypeOK'
  <2>1. \E x \in Labels : pc' = [pc EXCEPT ![c] = x]
    BY <1>5 DEF Die, Fail, Labels
  <2>2. pc' \in [Procs \cup {Main} -> Labels]
    BY <1>0, <2>1, Types
  <2>. QED  BY <1>0, <1>5, <2>2 DEF TypeOK, Die, Fail
<1>6. ASSUME NEW t \in Threads, PopHead(t) PROVE TypeOK'
  <2>1. /\ Head(queue).msg \in Request \cup {Exit} /\ Head(queue).idx \in Slots
        /\ Tail(queue) \in Seq([msg : Request \cup {Exit}, idx : Slots])
        /\ Len(Tail(queue)) = Len(queue) - 1 /\ Len(queue) \in Nat
        /\ AfterPop[Head(queue).msg.mode] \in Labels
    BY <1>0, <1>6, HeadType DEF PopHead, Labels
  <2>4. pc' \in [Procs \cup {Main} -> Labels]
    BY <1>0, <1>6, <2>1, GotoStep, ProcsDisjoint DEF PopHead
  <2>5. job' \in [Threads -> Request \cup {Exit, None}] /\ at' \in [Procs -> Slots]
    BY <1>0, <1>6, <2>1, Types DEF PopHead
  <2>6. Len(queue') <= N
    BY <1>0, <1>6, <2>1, MailboxAssumption DEF PopHead, TypeOK
  <2>. QED  BY <1>0, <1>6, <2>1, <2>4, <2>5, <2>6 DEF TypeOK, PopHead
<1>7. ASSUME NEW t \in Threads, Answer(t) PROVE TypeOK'
  <2>1. /\ pc' \in [Procs \cup {Main} -> Labels]
        /\ lock' \in [Slots -> Procs \cup {Nobody}]
    BY <1>0, <1>7, BroadcastStep, ProcsDisjoint DEF Answer
  <2>2. job[t] \in Request
    BY <1>0, <1>7, Requests DEF Answer, JobsOpen, InCall
  <2>. DEFINE s == [ready |-> TRUE, client |-> job[t].from, answer |-> job[t]]
  <2>3. s \in [ready : BOOLEAN, client : Clients \cup {Nobody}, answer : Request \cup {None}]
    BY <2>2, Requests
  <2>4. slots' = [slots EXCEPT ![at[t]] = s]
    BY <1>7 DEF Answer
  <2>. HIDE DEF s
  <2>5. slots' \in [Slots -> [ready : BOOLEAN, client : Clients \cup {Nobody},
                              answer : Request \cup {None}]]
    BY <1>0, <2>3, <2>4, Types
  <2>. QED  BY <1>0, <1>7, <2>1, <2>5 DEF TypeOK, Answer
<1>8. CASE Stop
  <2>1. pc' \in [Procs \cup {Main} -> Labels]
    BY <1>0, <1>8, GotoStep DEF Stop, Labels
  <2>. QED  BY <1>0, <1>8, <2>1 DEF TypeOK, Stop
<1>9. CASE PushExit
  <2>1. /\ queue' \in Seq([msg : Request \cup {Exit}, idx : Slots])
        /\ Len(queue') <= N /\ tail' \in Slots
    BY <1>0, <1>9, PushType DEF PushExit, TypeOK
  <2>2. exits' \in 0 .. N
    BY <1>0, <1>9, MailboxAssumption DEF PushExit, TypeOK
  <2>. QED  BY <1>0, <1>9, <2>1, <2>2 DEF TypeOK, PushExit
<1>10. CASE Join \/ Destroy \/ DestroyBusy
  <2>1. \E from, to \in Labels : Goto(Main, from, to)
    BY <1>10 DEF Join, Destroy, DestroyBusy, Labels
  <2>2. pc' \in [Procs \cup {Main} -> Labels]
    BY <1>0, <2>1, GotoStep
  <2>. QED  BY <1>0, <1>10, <2>2 DEF TypeOK, Join, Destroy, DestroyBusy
<1>. QED  BY <1>1, <1>2, <1>3, <1>4, <1>5, <1>6, <1>7, <1>8, <1>9, <1>10, ProcsDisjoint,
             MailboxAssumption
          DEF Next, Waiting, Serving, Stopping

LEMMA LocksOwnedStep ==
  ASSUME IInv, TypeOK', Next
  PROVE  LocksOwned'
<1>0. TypeOK /\ LocksOwned
  BY DEF IInv
<1>1. /\ lock \in [Slots -> Procs \cup {Nobody}] /\ at \in [Procs -> Slots]
      /\ pc \in [Procs \cup {Main} -> Labels]
      /\ lock' \in [Slots -> Procs \cup {Nobody}]
      /\ \A i \in Slots : \A p \in Procs :
           lock[i] = p => at[p] = i /\ pc[p] \in {"held", "dead"}
      /\ \A p \in Procs : pc[p] = "held" => lock[at[p]] = p
  BY <1>0 DEF TypeOK, LocksOwned
\* Whoever is neither holding a mutex nor dead may go and look elsewhere.
<1>2. ASSUME NEW p \in Procs, UNCHANGED lock, pc[p] \notin {"held", "dead"},
             pc'[p] \in Labels \ {"held"},
             \A q \in Procs \ {p} : pc'[q] = pc[q] /\ at'[q] = at[q]
      PROVE  LocksOwned'
  BY <1>1, <1>2 DEF LocksOwned
<1>3. ASSUME NEW p \in Procs, Broadcast(p), pc[p] = "held", UNCHANGED at
      PROVE  LocksOwned'
  <2>1. /\ pc'[p] = "idle"
        /\ \A q \in Procs : q # p => /\ pc'[q] = "held" <=> pc[q] = "held"
                                     /\ pc'[q] = "dead" <=> pc[q] = "dead"
        /\ lock' = [lock EXCEPT ![at[p]] = Nobody]
    BY <1>0, <1>3, BroadcastStep
  <2>2. lock[at[p]] = p
    BY <1>1, <1>3
  <2>. QED  BY <1>1, <1>3, <2>1, <2>2, ProcsDisjoint DEF LocksOwned
<1>4. ASSUME NEW c \in Clients, NEW mode \in {"ask", "close"}, Send(c, mode)
      PROVE  LocksOwned'
  <2>1. /\ pc[c] = "idle" /\ pc'[c] \in {"lock", "idle"} /\ UNCHANGED lock
        /\ \A q \in Procs \ {c} : pc'[q] = pc[q] /\ at'[q] = at[q]
    BY <1>1, <1>4, ProcsDisjoint DEF Send, Goto
  <2>. QED  BY <1>2, <2>1, ProcsDisjoint DEF Labels
<1>5. ASSUME NEW p \in Procs, Lock(p) PROVE LocksOwned'
  <2>1. /\ pc[p] = "lock" /\ pc'[p] = "held" /\ UNCHANGED at
        /\ \A q \in Procs \ {p} : pc'[q] = pc[q]
        /\ lock[at[p]] = Nobody /\ lock' = [lock EXCEPT ![at[p]] = p]
    BY <1>1, <1>5 DEF Lock, Goto
  <2>. QED  BY <1>1, <2>1, ProcsDisjoint DEF LocksOwned
<1>6. ASSUME NEW p \in Procs, Sleep(p) PROVE LocksOwned'
  <2>1. /\ pc[p] = "held" /\ pc'[p] = "asleep" /\ UNCHANGED at
        /\ \A q \in Procs \ {p} : pc'[q] = pc[q]
        /\ lock' = [lock EXCEPT ![at[p]] = Nobody]
    BY <1>1, <1>6 DEF Sleep, Goto
  <2>. QED  BY <1>1, <2>1, ProcsDisjoint DEF LocksOwned
<1>7. ASSUME NEW c \in Clients, Take(c) PROVE LocksOwned'
  BY <1>3, <1>7, ProcsDisjoint DEF Take
<1>8. ASSUME NEW t \in Threads, Answer(t) PROVE LocksOwned'
  BY <1>3, <1>8, ProcsDisjoint DEF Answer
<1>9. ASSUME NEW c \in Clients, Die(c) PROVE LocksOwned'
  <2>1. /\ pc[c] \notin {"dead", "deadAsleep"} /\ UNCHANGED <<lock, at>>
        /\ pc'[c] = IF pc[c] = "asleep" THEN "deadAsleep" ELSE "dead"
        /\ \A q \in Procs \ {c} : pc'[q] = pc[q]
    BY <1>1, <1>9, ProcsDisjoint DEF Die
  <2>. QED  BY <1>1, <2>1 DEF LocksOwned
<1>10. ASSUME NEW c \in Clients, Fail(c) PROVE LocksOwned'
  <2>1. /\ pc[c] \in {"idle", "lock"} /\ pc'[c] = "dead" /\ UNCHANGED <<lock, at>>
        /\ \A q \in Procs \ {c} : pc'[q] = pc[q]
    BY <1>1, <1>10, ProcsDisjoint DEF Fail
  <2>. QED  BY <1>2, <2>1, ProcsDisjoint DEF Labels
<1>11. ASSUME NEW t \in Threads, PopHead(t) PROVE LocksOwned'
  <2>1. /\ pc[t] = "idle" /\ UNCHANGED lock
        /\ \A q \in Procs \ {t} : pc'[q] = pc[q] /\ at'[q] = at[q]
    BY <1>1, <1>11, ProcsDisjoint DEF PopHead, Goto
  <2>2. pc'[t] \in Labels \ {"held"}
    <3>1. pc'[t] = AfterPop[Head(queue).msg.mode]
      BY <1>1, <1>11, ProcsDisjoint DEF PopHead, Goto
    <3>. QED  BY <1>0, <1>11, <3>1, HeadType DEF PopHead, Labels
  <2>. QED  BY <1>2, <2>1, <2>2, ProcsDisjoint
<1>12. CASE Stop \/ PushExit \/ Join \/ Destroy \/ DestroyBusy
  <2>1. UNCHANGED <<lock, at>> /\ \A q \in Procs : pc'[q] = pc[q]
    BY <1>1, <1>12, ProcsDisjoint DEF Stop, PushExit, Join, Destroy, DestroyBusy, Goto
  <2>. QED  BY <1>1, <2>1 DEF LocksOwned
<1>. QED  BY <1>4, <1>5, <1>6, <1>7, <1>8, <1>9, <1>10, <1>11, <1>12, ProcsDisjoint,
             MailboxAssumption
          DEF Next, Waiting, Serving, Stopping

\* Slots only change together with a broadcast to those who wait there.
LEMMA NoSleeperForgottenStep ==
  ASSUME IInv, TypeOK', Next
  PROVE  NoSleeperForgotten'
<1>0. TypeOK /\ NoSleeperForgotten
  BY DEF IInv
<1>1. /\ at \in [Procs -> Slots] /\ pc \in [Procs \cup {Main} -> Labels]
      /\ slots \in [Slots -> [ready : BOOLEAN, client : Clients \cup {Nobody},
                              answer : Request \cup {None}]]
  BY <1>0 DEF TypeOK
<1>. DEFINE Rightly(p) == IF p \in Clients THEN ~Mine(p) ELSE Busy(p)
<1>2. ASSUME NEW p \in Procs, slots'[at'[p]] = slots[at[p]] PROVE Rightly(p)' <=> Rightly(p)
  BY <1>2 DEF Mine, Busy, Slot
<1>3. ASSUME NEW p \in Procs, pc'[p] # "asleep", UNCHANGED slots,
             \A q \in Procs \ {p} : at'[q] = at[q] /\ (pc'[q] = "asleep" => pc[q] = "asleep")
      PROVE  NoSleeperForgotten'
  <2>1. ASSUME NEW q \in Procs, pc'[q] = "asleep" PROVE Rightly(q)'
    <3>1. q # p
      BY <1>3, <2>1
    <3>. QED  BY <1>0, <1>2, <1>3, <2>1, <3>1 DEF NoSleeperForgotten
  <2>. QED  BY <2>1 DEF NoSleeperForgotten
<1>4. ASSUME NEW p \in Procs, Broadcast(p), UNCHANGED at, NEW x,
             slots' = [slots EXCEPT ![at[p]] = x]
      PROVE  NoSleeperForgotten'
  <2>1. ASSUME NEW q \in Procs, pc'[q] = "asleep" PROVE Rightly(q)'
    <3>1. pc[q] = "asleep" /\ at[q] # at[p]
      BY <1>0, <1>4, <2>1, BroadcastStep
    <3>. QED  BY <1>0, <1>1, <1>2, <1>4, <2>1, <3>1 DEF NoSleeperForgotten
  <2>. QED  BY <2>1 DEF NoSleeperForgotten
<1>5. ASSUME NEW c \in Clients, NEW mode \in {"ask", "close"}, Send(c, mode)
      PROVE  NoSleeperForgotten'
  BY <1>1, <1>3, <1>5, ProcsDisjoint DEF Send, Goto
<1>6. ASSUME NEW p \in Procs, Lock(p) PROVE NoSleeperForgotten'
  BY <1>1, <1>3, <1>6 DEF Lock, Goto
<1>7. ASSUME NEW p \in Procs, Sleep(p) PROVE NoSleeperForgotten'
  <2>1. UNCHANGED <<slots, at>> /\ \A q \in Procs \ {p} : pc'[q] = pc[q]
    BY <1>1, <1>7 DEF Sleep, Goto
  <2>2. Rightly(p)
    BY <1>7 DEF Sleep
  <2>3. ASSUME NEW q \in Procs, pc'[q] = "asleep" PROVE Rightly(q)'
    BY <1>0, <1>2, <2>1, <2>2, <2>3 DEF NoSleeperForgotten
  <2>. QED  BY <2>3 DEF NoSleeperForgotten
<1>8. ASSUME NEW c \in Clients, Take(c) PROVE NoSleeperForgotten'
  BY <1>4, <1>8, ProcsDisjoint DEF Take
<1>9. ASSUME NEW t \in Threads, Answer(t) PROVE NoSleeperForgotten'
  BY <1>4, <1>9, ProcsDisjoint DEF Answer
<1>10. ASSUME NEW c \in Clients, Die(c) \/ Fail(c) PROVE NoSleeperForgotten'
  <2>1. /\ UNCHANGED <<slots, at>> /\ pc'[c] # "asleep"
        /\ \A q \in Procs \ {c} : pc'[q] = pc[q]
    BY <1>1, <1>10, ProcsDisjoint DEF Die, Fail
  <2>. QED  BY <1>3, <2>1, ProcsDisjoint
<1>11. ASSUME NEW t \in Threads, PopHead(t) PROVE NoSleeperForgotten'
  <2>1. /\ pc[t] = "idle" /\ UNCHANGED slots
        /\ pc'[t] = AfterPop[Head(queue).msg.mode]
        /\ \A q \in Procs \ {t} : pc'[q] = pc[q] /\ at'[q] = at[q]
    BY <1>1, <1>11, ProcsDisjoint DEF PopHead, Goto
  <2>2. pc'[t] # "asleep"
    BY <1>0, <1>11, <2>1, HeadType DEF PopHead
  <2>. QED  BY <1>3, <2>1, <2>2, ProcsDisjoint
<1>12. CASE Stop \/ PushExit \/ Join \/ Destroy \/ DestroyBusy
  <2>1. UNCHANGED <<slots, at>> /\ \A q \in Procs : pc'[q] = pc[q]
    BY <1>1, <1>12, ProcsDisjoint DEF Stop, PushExit, Join, Destroy, DestroyBusy, Goto
  <2>2. ASSUME NEW q \in Procs, pc'[q] = "asleep" PROVE Rightly(q)'
    BY <1>0, <1>2, <2>1, <2>2 DEF NoSleeperForgotten
  <2>. QED  BY <2>2 DEF NoSleeperForgotten
<1>. QED  BY <1>5, <1>6, <1>7, <1>8, <1>9, <1>10, <1>11, <1>12, ProcsDisjoint,
             MailboxAssumption
          DEF Next, Waiting, Serving, Stopping

-----------------------------------------------------------------------------
(***************************************************************************)
(* Where the requests are.                                                 *)
(***************************************************************************)
\* The steps that move no request: nobody enters a call or leaves one, but a
\* client may die in it.
Quiet ==
  /\ UNCHANGED <<slots, job, asked, at, got>>
  /\ queue' = queue \/ queue' = Append(queue, [msg |-> Exit, idx |-> tail])
  /\ \A t \in Threads : InCall(t)' <=> InCall(t)
  /\ \A c \in Clients : /\ InCall(c)' => InCall(c)
                        /\ InCall(c) \/ Dead(c) => InCall(c)' \/ Dead(c)'

LEMMA Moves ==
  ASSUME TypeOK, Next
  PROVE  \/ Quiet
         \/ \E c \in Clients : Take(c) \/ \E mode \in {"ask", "close"} : Send(c, mode)
         \/ \E t \in Threads : PopHead(t) \/ Answer(t)
<1>1. /\ pc \in [Procs \cup {Main} -> Labels]
  BY DEF TypeOK
<1>2. ASSUME NEW p \in Procs, Lock(p) \/ Sleep(p) PROVE Quiet
  BY <1>1, <1>2, ProcsDisjoint DEF Lock, Sleep, Goto, Quiet, InCall, Dead
<1>3. ASSUME NEW c \in Clients, Die(c) \/ Fail(c) PROVE Quiet
  <2>1. /\ UNCHANGED <<queue, slots, job, asked, at, got>>
        /\ pc'[c] \in {"dead", "deadAsleep"}
        /\ \A q \in Procs \ {c} : pc'[q] = pc[q]
    BY <1>1, <1>3, ProcsDisjoint DEF Die, Fail
  <2>. QED  BY <2>1, ProcsDisjoint DEF Quiet, InCall, Dead
<1>4. CASE Stop \/ PushExit \/ Join \/ Destroy \/ DestroyBusy
  <2>1. /\ UNCHANGED <<slots, job, asked, at, got>>
        /\ queue' = queue \/ queue' = Append(queue, [msg |-> Exit, idx |-> tail])
        /\ \A q \in Procs : pc'[q] = pc[q]
    BY <1>1, <1>4, ProcsDisjoint
       DEF Stop, PushExit, Push, Join, Destroy, DestroyBusy, Goto
  <2>. QED  BY <2>1, ProcsDisjoint DEF Quiet, InCall, Dead
<1>. QED  BY <1>2, <1>3, <1>4, ProcsDisjoint, MailboxAssumption
          DEF Next, Waiting, Serving, Stopping

\* A client that takes an answer leaves its call; a thread that gives one is
\* free again.  Nobody else enters or leaves a call.
LEMMA TakeStep ==
  ASSUME TypeOK, SlotsFilled, AllDue, NEW c \in Clients, Take(c)
  PROVE  /\ InCall(c) /\ pc'[c] = "idle"
         /\ slots[at[c]].ready /\ slots[at[c]].client = c
         /\ slots[at[c]].answer = Open(c) /\ at[c] \in Slots
         /\ slots' = [slots EXCEPT ![at[c]] = FreeSlot]
         /\ got' = [got EXCEPT ![c] = slots[at[c]].answer]
         /\ UNCHANGED <<queue, at, job, asked>>
         /\ \A p \in Procs \ {c} : /\ (InCall(p)' <=> InCall(p)) /\ (Dead(p)' <=> Dead(p))
                                   /\ pc[p] # "asleep" => pc'[p] = pc[p]
<1>1. /\ pc[c] = "held" /\ slots[at[c]].ready /\ slots[at[c]].client = c /\ at[c] \in Slots
      /\ slots' = [slots EXCEPT ![at[c]] = FreeSlot] /\ Broadcast(c)
      /\ got' = [got EXCEPT ![c] = slots[at[c]].answer]
      /\ UNCHANGED <<queue, at, job, asked>>
  BY Types, ProcsDisjoint DEF Take, Mine, Slot
<1>2. /\ slots[at[c]].answer \in Ask /\ slots[at[c]].answer.from = c
      /\ slots[at[c]].answer.n = asked[c]
  <2>1. slots[at[c]].answer \in Ask /\ slots[at[c]].answer.from = c
    BY <1>1 DEF SlotsFilled, FreeSlot
  <2>2. Carried(slots[at[c]].answer, at[c])
    BY <1>1 DEF Carried
  <2>. QED  BY <1>1, <2>1, <2>2 DEF AllDue, Due
<1>3. slots[at[c]].answer = Open(c)
  BY <1>2, Requests DEF Ask, Open
<1>. QED  BY <1>1, <1>3, BroadcastStep, ProcsDisjoint DEF InCall

LEMMA AnswerStep ==
  ASSUME TypeOK, SlotsFilled, JobsOpen, NEW t \in Threads, Answer(t)
  PROVE  /\ InCall(t) /\ pc'[t] = "idle" /\ job[t] \in Ask /\ at[t] \in Slots
         /\ slots[at[t]] = FreeSlot
         /\ slots' = [slots EXCEPT ![at[t]] = [ready |-> TRUE, client |-> job[t].from,
                                               answer |-> job[t]]]
         /\ UNCHANGED <<queue, at, job, asked, got>>
         /\ \A p \in Procs \ {t} : /\ (InCall(p)' <=> InCall(p)) /\ (Dead(p)' <=> Dead(p))
                                   /\ pc[p] # "asleep" => pc'[p] = pc[p]
<1>1. /\ pc[t] = "held" /\ ~slots[at[t]].ready /\ at[t] \in Slots /\ Broadcast(t)
      /\ UNCHANGED <<queue, at, job, asked, got>>
  BY Types, ProcsDisjoint DEF Answer, Busy, Slot
<1>2. slots[at[t]] = FreeSlot
  BY <1>1 DEF SlotsFilled
<1>3. job[t] \in Ask
  BY <1>1 DEF JobsOpen, InCall
<1>. QED  BY <1>1, <1>2, <1>3, BroadcastStep, ProcsDisjoint DEF InCall, Answer

LEMMA PopStep ==
  ASSUME TypeOK, NEW t \in Threads, PopHead(t)
  PROVE  /\ queue # << >> /\ ~InCall(t) /\ ~Dead(t)
         /\ InCall(t)' <=> queue[1].msg \in Ask
         /\ pc'[t] = AfterPop[queue[1].msg.mode]
         /\ job'[t] = queue[1].msg /\ at'[t] = queue[1].idx
         /\ \A u \in Threads \ {t} : job'[u] = job[u]
         /\ \A p \in Procs \ {t} : /\ at'[p] = at[p] /\ (InCall(p)' <=> InCall(p))
                                   /\ (Dead(p)' <=> Dead(p)) /\ pc'[p] = pc[p]
         /\ UNCHANGED <<slots, asked, got>>
         /\ queue' = Tail(queue)
<1>1. /\ queue # << >> /\ pc[t] = "idle" /\ pc'[t] = AfterPop[Head(queue).msg.mode]
      /\ \A p \in Procs \ {t} : pc'[p] = pc[p] /\ at'[p] = at[p]
      /\ job'[t] = Head(queue).msg /\ at'[t] = Head(queue).idx
      /\ \A u \in Threads \ {t} : job'[u] = job[u]
      /\ UNCHANGED <<slots, asked, got>> /\ queue' = Tail(queue)
  BY Types, ProcsDisjoint DEF PopHead, Goto
<1>2. /\ Head(queue) = queue[1]
      /\ pc'[t] \in {"lock", "idle", "exited"}
      /\ pc'[t] = "lock" <=> queue[1].msg \in Ask
  BY <1>1, HeadType
<1>. QED  BY <1>1, <1>2 DEF InCall, Dead

LEMMA SendStep ==
  ASSUME TypeOK, NEW c \in Clients, NEW mode \in {"ask", "close"}, Send(c, mode)
  PROVE  /\ ~InCall(c) /\ ~Dead(c) /\ (InCall(c)' <=> mode = "ask") /\ ~Dead(c)'
         /\ asked'[c] = asked[c] + 1 /\ at'[c] = tail /\ tail \in Slots
         /\ \A d \in Clients \ {c} : asked'[d] = asked[d]
         /\ \A p \in Procs \ {c} : /\ at'[p] = at[p] /\ (InCall(p)' <=> InCall(p))
                                   /\ (Dead(p)' <=> Dead(p)) /\ pc'[p] = pc[p]
         /\ UNCHANGED <<slots, job, got>>
         /\ queue' = Append(queue, [msg |-> [from |-> c, n |-> asked[c] + 1, mode |-> mode],
                                    idx |-> tail])
<1>1. /\ pc[c] = "idle" /\ pc'[c] = IF mode = "ask" THEN "lock" ELSE "idle"
      /\ \A p \in Procs \ {c} : pc'[p] = pc[p] /\ at'[p] = at[p]
      /\ asked'[c] = asked[c] + 1 /\ at'[c] = tail /\ tail \in Slots
      /\ \A d \in Clients \ {c} : asked'[d] = asked[d]
      /\ UNCHANGED <<slots, job, got>>
  BY Types, ProcsDisjoint DEF Send, Goto
<1>. QED  BY <1>1 DEF InCall, Dead, Send, Push

LEMMA SlotsFilledStep ==
  ASSUME IInv, Next
  PROVE  SlotsFilled' /\ JobsOpen'
<1>0. TypeOK /\ SlotsFilled /\ JobsOpen /\ AllDue
  BY DEF IInv
<1>1. /\ slots \in [Slots -> [ready : BOOLEAN, client : Clients \cup {Nobody},
                              answer : Request \cup {None}]]
  BY <1>0 DEF TypeOK
<1>2. CASE Quiet
  BY <1>0, <1>2 DEF Quiet, SlotsFilled, JobsOpen
<1>3. ASSUME NEW c \in Clients, Take(c) PROVE SlotsFilled' /\ JobsOpen'
  <2>1. /\ slots' = [slots EXCEPT ![at[c]] = FreeSlot] /\ UNCHANGED job
        /\ \A t \in Threads : InCall(t)' <=> InCall(t)
    BY <1>0, <1>3, TakeStep, ProcsDisjoint
  <2>. QED  BY <1>0, <1>1, <2>1 DEF SlotsFilled, JobsOpen
<1>4. ASSUME NEW c \in Clients, NEW mode \in {"ask", "close"}, Send(c, mode)
      PROVE  SlotsFilled' /\ JobsOpen'
  <2>1. UNCHANGED <<slots, job>> /\ \A t \in Threads : InCall(t)' <=> InCall(t)
    BY <1>0, <1>4, SendStep, ProcsDisjoint
  <2>. QED  BY <1>0, <2>1 DEF SlotsFilled, JobsOpen
<1>5. ASSUME NEW t \in Threads, PopHead(t) PROVE SlotsFilled' /\ JobsOpen'
  <2>1. /\ UNCHANGED slots
        /\ \A u \in Threads \ {t} : job'[u] = job[u] /\ (InCall(u)' <=> InCall(u))
        /\ InCall(t)' => job'[t] \in Ask
    BY <1>0, <1>5, PopStep, ProcsDisjoint
  <2>. QED  BY <1>0, <2>1 DEF SlotsFilled, JobsOpen
<1>6. ASSUME NEW t \in Threads, Answer(t) PROVE SlotsFilled' /\ JobsOpen'
  <2>. DEFINE a == [ready |-> TRUE, client |-> job[t].from, answer |-> job[t]]
  <2>1. /\ job[t] \in Ask /\ slots' = [slots EXCEPT ![at[t]] = a]
        /\ UNCHANGED job /\ ~InCall(t)'
        /\ \A u \in Threads \ {t} : InCall(u)' <=> InCall(u)
    BY <1>0, <1>6, AnswerStep, ProcsDisjoint DEF InCall
  <2>2. a.ready /\ a.answer \in Ask /\ a.client = a.answer.from
    BY <2>1
  <2>. HIDE DEF a
  <2>3. SlotsFilled'
    BY <1>0, <1>1, <2>1, <2>2 DEF SlotsFilled
  <2>4. JobsOpen'
    BY <1>0, <2>1 DEF JobsOpen
  <2>. QED  BY <2>3, <2>4
<1>. QED  BY <1>0, <1>2, <1>3, <1>4, <1>5, <1>6, Moves

\* Where the requests are next: nothing appears but what a client sends.
LEMMA CarriedStep ==
  ASSUME TypeOK, SlotsFilled, JobsOpen, AllDue, Next,
         NEW r \in Ask, NEW i \in Slots, Carried(r, i)'
  PROVE  \/ Carried(r, i)
         \/ \E c \in Clients : /\ Send(c, "ask") /\ i = tail
                               /\ r = [from |-> c, n |-> asked[c] + 1, mode |-> "ask"]
<1>. DEFINE E == [msg : Request \cup {Exit}, idx : Slots]
            e == [msg |-> r, idx |-> i]
<1>1. /\ slots \in [Slots -> [ready : BOOLEAN, client : Clients \cup {Nobody},
                              answer : Request \cup {None}]]
      /\ queue \in Seq(E)
  BY Types
<1>. HIDE DEF E, e
\* Unfold the primed claim once.
<1>2. \/ \E j \in DOMAIN queue' : queue'[j] = e
      \/ \E t \in Threads : InCall(t)' /\ job'[t] = r /\ at'[t] = i
      \/ slots'[i].ready /\ slots'[i].answer = r
  BY DEF Carried, e
<1>3. Carried(r, i) <=> \/ \E j \in DOMAIN queue : queue[j] = e
                        \/ \E t \in Threads : InCall(t) /\ job[t] = r /\ at[t] = i
                        \/ slots[i].ready /\ slots[i].answer = r
  BY DEF Carried, e
<1>4. ASSUME NEW x, queue' = Append(queue, x), NEW j \in DOMAIN queue', queue'[j] = e
      PROVE  x = e \/ \E k \in DOMAIN queue : queue[k] = e
  BY <1>1, <1>4
<1>5. CASE Quiet
  <2>1. ASSUME NEW x, x = [msg |-> Exit, idx |-> tail] PROVE x # e
    BY <2>1, Requests DEF e
  <2>2. ASSUME NEW j \in DOMAIN queue', queue'[j] = e
        PROVE  \E k \in DOMAIN queue : queue[k] = e
    BY <1>4, <1>5, <2>1, <2>2 DEF Quiet
  <2>. QED  BY <1>2, <1>3, <1>5, <2>2 DEF Quiet
<1>6. ASSUME NEW c \in Clients, NEW mode \in {"ask", "close"}, Send(c, mode)
      PROVE  \/ Carried(r, i)
             \/ Send(c, "ask") /\ i = tail /\ r = [from |-> c, n |-> asked[c] + 1, mode |-> "ask"]
  <2>. DEFINE m == [from |-> c, n |-> asked[c] + 1, mode |-> mode]
  <2>1. /\ queue' = Append(queue, [msg |-> m, idx |-> tail]) /\ UNCHANGED <<slots, job>>
        /\ \A t \in Threads : at'[t] = at[t] /\ (InCall(t)' <=> InCall(t))
    BY <1>6, SendStep, ProcsDisjoint
  <2>2. CASE \E j \in DOMAIN queue' : queue'[j] = e
    <3>1. \/ [msg |-> m, idx |-> tail] = e
          \/ \E k \in DOMAIN queue : queue[k] = e
      <4>. HIDE DEF m
      <4>. QED  BY <1>4, <2>1, <2>2
    <3>2. CASE [msg |-> m, idx |-> tail] = e
      <4>1. r = m /\ i = tail
        BY <3>2 DEF e
      <4>. QED  BY <1>6, <4>1 DEF Ask
    <3>. QED  BY <1>3, <3>1, <3>2
  <2>. HIDE DEF m
  <2>. QED  BY <1>2, <1>3, <2>1, <2>2
<1>7. ASSUME NEW c \in Clients, Take(c) PROVE Carried(r, i)
  <2>1. /\ UNCHANGED <<queue, at, job>> /\ at[c] \in Slots
        /\ slots' = [slots EXCEPT ![at[c]] = FreeSlot]
        /\ \A t \in Threads : InCall(t)' <=> InCall(t)
    BY <1>7, TakeStep, ProcsDisjoint
  <2>2. slots'[i] = FreeSlot \/ slots'[i] = slots[i]
    BY <1>1, <2>1
  <2>3. slots'[i].ready => slots'[i] = slots[i]
    BY <2>2 DEF FreeSlot
  <2>. QED  BY <1>2, <1>3, <2>1, <2>3
<1>8. ASSUME NEW t \in Threads, PopHead(t) PROVE Carried(r, i)
  <2>1. /\ queue # << >> /\ (InCall(t)' <=> queue[1].msg \in Ask)
        /\ job'[t] = queue[1].msg /\ at'[t] = queue[1].idx
        /\ \A u \in Threads \ {t} : /\ job'[u] = job[u] /\ at'[u] = at[u]
                                    /\ InCall(u)' <=> InCall(u)
        /\ UNCHANGED slots /\ queue' = Tail(queue)
    BY <1>8, PopStep, ProcsDisjoint
  <2>2. /\ 1 \in DOMAIN queue
        /\ \A j \in DOMAIN queue' : j + 1 \in DOMAIN queue /\ queue'[j] = queue[j + 1]
    BY <1>1, <2>1
  <2>3. queue[1] \in E
    BY <1>1, <2>2
  <2>4. queue[1].msg = r /\ queue[1].idx = i => queue[1] = e
    BY <2>3 DEF E, e
  <2>. QED  BY <1>2, <1>3, <2>1, <2>2, <2>4
<1>9. ASSUME NEW t \in Threads, Answer(t) PROVE Carried(r, i)
  <2>1. /\ InCall(t) /\ at[t] \in Slots /\ ~InCall(t)'
        /\ slots' = [slots EXCEPT ![at[t]] = [ready |-> TRUE, client |-> job[t].from,
                                              answer |-> job[t]]]
        /\ UNCHANGED <<queue, at, job>>
        /\ \A u \in Threads \ {t} : InCall(u)' <=> InCall(u)
    BY <1>9, AnswerStep, ProcsDisjoint DEF InCall
  <2>2. CASE i = at[t]
    <3>1. slots'[i].answer = job[t]
      BY <1>1, <2>1, <2>2
    <3>. QED  BY <1>2, <1>3, <2>1, <2>2, <3>1
  <2>3. CASE i # at[t]
    <3>1. slots'[i] = slots[i]
      BY <1>1, <2>1, <2>3
    <3>. QED  BY <1>2, <1>3, <2>1, <3>1
  <2>. QED  BY <2>2, <2>3
<1>. QED  BY <1>5, <1>6, <1>7, <1>8, <1>9, Moves

\* What a client that waits, or died waiting, may still be owed.
LEMMA CarriedIsOpen ==
  ASSUME AllDue, NEW r \in Ask, NEW i \in Slots, Carried(r, i)
  PROVE  /\ r.from \in Clients /\ r = Open(r.from) /\ i = at[r.from]
         /\ InCall(r.from) \/ Dead(r.from)
BY Requests DEF AllDue, Due, Ask, Open

LEMMA AllDueStep ==
  ASSUME IInv, Next
  PROVE  AllDue'
<1>0. TypeOK /\ SlotsFilled /\ JobsOpen /\ AllDue /\ SinglyPlaced
  BY DEF IInv
<1>. SUFFICES ASSUME NEW r \in Ask, NEW i \in Slots, Carried(r, i)'
              PROVE  Due(r, i)'
  <2>1. Slots' = Slots /\ Ask' = Ask
    BY DEF Slots, Ask, Request
  <2>. QED  BY <2>1 DEF AllDue
<1>1. r.from \in Clients
  BY Requests
\* A request stays due as long as its client is not at another one.
<1>2. ASSUME Due(r, i), asked'[r.from] = asked[r.from], at'[r.from] = at[r.from],
             InCall(r.from) \/ Dead(r.from) => InCall(r.from)' \/ Dead(r.from)'
      PROVE  Due(r, i)'
  BY <1>2 DEF Due
<1>3. ASSUME NEW c \in Clients, NEW mode \in {"ask", "close"}, Send(c, mode)
      PROVE  Due(r, i)'
  <2>1. /\ ~InCall(c) /\ ~Dead(c) /\ (InCall(c)' <=> mode = "ask")
        /\ asked'[c] = asked[c] + 1 /\ at'[c] = tail
        /\ \A d \in Clients \ {c} : asked'[d] = asked[d]
        /\ \A p \in Procs \ {c} : /\ at'[p] = at[p] /\ (InCall(p)' <=> InCall(p))
                                  /\ (Dead(p)' <=> Dead(p))
    BY <1>0, <1>3, SendStep
  <2>2. CASE Carried(r, i)
    <3>1. Due(r, i) /\ r.from # c
      BY <1>0, <2>1, <2>2 DEF AllDue, Due
    <3>. QED  BY <1>1, <1>2, <2>1, <3>1, ProcsDisjoint
  <2>3. ASSUME NEW d \in Clients, Send(d, "ask"), i = tail,
               r = [from |-> d, n |-> asked[d] + 1, mode |-> "ask"]
        PROVE  Due(r, i)'
    <3>1. InCall(d)' /\ asked'[d] = asked[d] + 1 /\ at'[d] = tail
      BY <1>0, <2>3, SendStep
    <3>2. r.from = d /\ r.n = asked[d] + 1
      BY <2>3
    <3>. QED  BY <2>3, <3>1, <3>2 DEF Due
  <2>. QED  BY <1>0, <2>2, <2>3, CarriedStep
<1>4. CASE ~\E c \in Clients : \E mode \in {"ask", "close"} : Send(c, mode)
  <2>1. Carried(r, i) /\ Due(r, i)
    BY <1>0, <1>4, CarriedStep DEF AllDue
  <2>2. CASE Quiet
    BY <1>1, <1>2, <2>1, <2>2, ProcsDisjoint DEF Quiet
  <2>3. ASSUME NEW c \in Clients, Take(c) PROVE Due(r, i)'
    <3>1. /\ InCall(c) /\ slots[at[c]].ready /\ slots[at[c]].client = c
          /\ slots[at[c]].answer = Open(c) /\ at[c] \in Slots
          /\ slots' = [slots EXCEPT ![at[c]] = FreeSlot]
          /\ UNCHANGED <<queue, at, job, asked>>
          /\ \A p \in Procs \ {c} : (InCall(p)' <=> InCall(p)) /\ (Dead(p)' <=> Dead(p))
      BY <1>0, <2>3, TakeStep
    <3>2. r.from # c
      <4>. SUFFICES ASSUME r.from = c PROVE FALSE
        OBVIOUS
      <4>1. r = Open(c) /\ i = at[c]
        BY <1>0, <2>1, CarriedIsOpen
      <4>2. InSlot(c) # {}
        BY <1>0, <3>1, Types DEF InSlot
      <4>3. InQueue(c) = {} /\ InThread(c) = {}
        BY <1>0, <3>1, <4>2 DEF SinglyPlaced, OnePlace
      <4>4. ~slots'[i].ready
        BY <1>0, <3>1, <4>1, Types DEF FreeSlot
      <4>5. \A t \in Threads : InCall(t)' <=> InCall(t)
        BY <3>1, ProcsDisjoint
      <4>. QED  BY <3>1, <4>1, <4>3, <4>4, <4>5 DEF Carried, InQueue, InThread
    <3>. QED  BY <1>1, <1>2, <2>1, <3>1, <3>2, ProcsDisjoint
  <2>4. ASSUME NEW t \in Threads, PopHead(t) PROVE Due(r, i)'
    BY <1>0, <1>1, <1>2, <2>1, <2>4, PopStep, ProcsDisjoint
  <2>5. ASSUME NEW t \in Threads, Answer(t) PROVE Due(r, i)'
    BY <1>0, <1>1, <1>2, <2>1, <2>5, AnswerStep, ProcsDisjoint
  <2>. QED  BY <1>0, <1>4, <2>2, <2>3, <2>4, <2>5, Moves
<1>. QED  BY <1>3, <1>4

\* OnePlace looks at three sets only.
LEMMA SamePlace ==
  ASSUME NEW c \in Clients, OnePlace(c),
         InQueue(c)' = InQueue(c), InThread(c)' = InThread(c), InSlot(c)' = InSlot(c)
  PROVE  OnePlace(c)'
BY DEF OnePlace

LEMMA PlaceQuiet ==
  ASSUME TypeOK, NEW c \in Clients, Quiet, OnePlace(c)
  PROVE  OnePlace(c)'
<1>. DEFINE e == [msg |-> Open(c), idx |-> at[c]]
            x == [msg |-> Exit, idx |-> tail]
<1>1. /\ UNCHANGED <<slots, job, asked, at>> /\ Open(c)' = Open(c)
      /\ queue' = queue \/ queue' = Append(queue, x)
      /\ \A t \in Threads : InCall(t)' <=> InCall(t)
  BY DEF Quiet, Open
<1>2. x # e
  BY DEF Open, Exit
<1>3. InQueue(c) = {j \in DOMAIN queue : queue[j] = e}
      /\ InQueue(c)' = {j \in DOMAIN queue' : queue'[j] = e}
  BY <1>1 DEF InQueue
<1>. HIDE DEF e, x
<1>4. InQueue(c)' = InQueue(c)
  <2>1. CASE queue' = queue
    BY <1>3, <2>1
  <2>2. CASE queue' = Append(queue, x)
    BY <1>2, <1>3, <2>2, Types
  <2>. QED  BY <1>1, <2>1, <2>2
<1>5. InThread(c)' = InThread(c) /\ InSlot(c)' = InSlot(c)
  BY <1>1 DEF InThread, InSlot
<1>. QED  BY <1>4, <1>5, SamePlace

\* The client that sends: nothing of it was left anywhere.
LEMMA PlaceSent ==
  ASSUME TypeOK, SlotsFilled, JobsOpen, AllDue, NEW c \in Clients, Send(c, "ask")
  PROVE  OnePlace(c)'
<1>. DEFINE r == [from |-> c, n |-> asked[c] + 1, mode |-> "ask"]
            e == [msg |-> r, idx |-> tail]
<1>1. /\ ~InCall(c) /\ ~Dead(c) /\ asked'[c] = asked[c] + 1 /\ at'[c] = tail
      /\ tail \in Slots
      /\ UNCHANGED <<slots, job>> /\ queue' = Append(queue, e)
      /\ \A t \in Threads : at'[t] = at[t] /\ (InCall(t)' <=> InCall(t))
  BY SendStep, ProcsDisjoint
<1>2. Open(c)' = r /\ r \in Ask /\ r.from = c
  BY <1>1, MailboxAssumption DEF Open, Ask, Request, Send, TypeOK
<1>3. InQueue(c)' = {j \in DOMAIN queue' : queue'[j] = e}
  BY <1>1, <1>2 DEF InQueue
<1>. HIDE DEF r
<1>4. ~Carried(r, tail)
  BY <1>1, <1>2 DEF AllDue, Due
<1>5. InThread(c)' = {}
  BY <1>1, <1>2, <1>4 DEF InThread, Carried
<1>6. InSlot(c)' = {}
  BY <1>1, <1>2, <1>4 DEF InSlot, Carried
<1>7. \A j \in DOMAIN queue : queue[j] # e
  BY <1>4 DEF Carried
<1>. HIDE DEF e
<1>8. InQueue(c)' = {Len(queue) + 1}
  BY <1>1, <1>3, <1>7, Types
<1>. QED  BY <1>5, <1>6, <1>8, Types DEF OnePlace

LEMMA PlaceOthersSend ==
  ASSUME TypeOK, NEW d \in Clients, NEW mode \in {"ask", "close"}, Send(d, mode),
         NEW c \in Clients \ {d}, OnePlace(c)
  PROVE  OnePlace(c)'
<1>. DEFINE e == [msg |-> Open(c), idx |-> at[c]]
            x == [msg |-> [from |-> d, n |-> asked[d] + 1, mode |-> mode], idx |-> tail]
<1>1. /\ asked'[c] = asked[c] /\ at'[c] = at[c] /\ UNCHANGED <<slots, job>>
      /\ queue' = Append(queue, x)
      /\ \A t \in Threads : at'[t] = at[t] /\ (InCall(t)' <=> InCall(t))
  BY SendStep, ProcsDisjoint
<1>2. Open(c)' = Open(c)
  BY <1>1 DEF Open
<1>3. x # e
  BY DEF Open
<1>4. InQueue(c) = {j \in DOMAIN queue : queue[j] = e}
      /\ InQueue(c)' = {j \in DOMAIN queue' : queue'[j] = e}
  BY <1>1, <1>2 DEF InQueue
<1>. HIDE DEF e, x
<1>5. InQueue(c)' = InQueue(c)
  BY <1>1, <1>3, <1>4, Types
<1>6. InThread(c)' = InThread(c) /\ InSlot(c)' = InSlot(c)
  BY <1>1, <1>2 DEF InThread, InSlot
<1>. QED  BY <1>5, <1>6, SamePlace

LEMMA PlaceOthersTake ==
  ASSUME TypeOK, SlotsFilled, AllDue, NEW d \in Clients, Take(d),
         NEW c \in Clients \ {d}, OnePlace(c)
  PROVE  OnePlace(c)'
<1>1. /\ slots[at[d]].client = d /\ at[d] \in Slots
      /\ slots' = [slots EXCEPT ![at[d]] = FreeSlot]
      /\ UNCHANGED <<queue, at, job, asked>>
      /\ \A t \in Threads : InCall(t)' <=> InCall(t)
  BY TakeStep, ProcsDisjoint
<1>2. Open(c)' = Open(c)
  BY <1>1 DEF Open
<1>3. InQueue(c)' = InQueue(c) /\ InThread(c)' = InThread(c)
  BY <1>1, <1>2 DEF InQueue, InThread
<1>. DEFINE a == [ready |-> TRUE, client |-> c, answer |-> Open(c)]
<1>4. /\ slots[at[d]] # a /\ slots'[at[d]] # a
      /\ \A i \in Slots \ {at[d]} : slots'[i] = slots[i]
  BY <1>1, Types DEF FreeSlot
<1>5. /\ InSlot(c) = {i \in Slots : i = at[c] /\ slots[i] = a}
      /\ InSlot(c)' = {i \in Slots : i = at[c] /\ slots'[i] = a}
  BY <1>1, <1>2 DEF InSlot, Slots
<1>. HIDE DEF a
<1>6. InSlot(c)' = InSlot(c)
  BY <1>4, <1>5
<1>. QED  BY <1>3, <1>6, SamePlace

\* A thread takes over the request at the head of the queue.
LEMMA PlacePopped ==
  ASSUME TypeOK, NEW t \in Threads, PopHead(t), NEW c \in Clients, OnePlace(c)
  PROVE  OnePlace(c)'
<1>. DEFINE E == [msg : Request \cup {Exit}, idx : Slots]
            e == [msg |-> Open(c), idx |-> at[c]]
<1>1. /\ queue # << >> /\ ~InCall(t) /\ (InCall(t)' <=> queue[1].msg \in Ask)
      /\ job'[t] = queue[1].msg /\ at'[t] = queue[1].idx
      /\ \A u \in Threads \ {t} : /\ job'[u] = job[u] /\ at'[u] = at[u]
                                  /\ InCall(u)' <=> InCall(u)
      /\ at'[c] = at[c] /\ UNCHANGED <<slots, asked>> /\ queue' = Tail(queue)
  BY PopStep, ProcsDisjoint
<1>2. Open(c)' = Open(c)
  BY <1>1 DEF Open
<1>3. queue \in Seq(E)
  BY Types
<1>4. /\ InQueue(c) = {j \in DOMAIN queue : queue[j] = e}
      /\ InQueue(c)' = {j \in DOMAIN queue' : queue'[j] = e}
      /\ e.msg = Open(c) /\ e.idx = at[c]
  BY <1>1, <1>2 DEF InQueue
<1>5. /\ InThread(c) = {u \in Threads : InCall(u) /\ job[u] = Open(c) /\ at[u] = at[c]}
      /\ InThread(c)' = {u \in Threads : InCall(u)' /\ job'[u] = Open(c) /\ at'[u] = at[c]}
  BY <1>1, <1>2 DEF InThread
<1>6. InSlot(c)' = InSlot(c)
  BY <1>1, <1>2 DEF InSlot
<1>7. queue[1] = e <=> queue[1].msg = Open(c) /\ queue[1].idx = at[c]
  <2>1. queue[1] \in E
    <3>. HIDE DEF E, e
    <3>. QED  BY <1>1, <1>3
  <2>. QED  BY <2>1
<1>. HIDE DEF E, e
<1>8. /\ 1 \in DOMAIN queue
      /\ \A j \in DOMAIN queue' : j + 1 \in DOMAIN queue /\ queue'[j] = queue[j + 1] /\ j \in Nat /\ j >= 1
      /\ \A j \in DOMAIN queue : /\ j \in Nat
                                 /\ j # 1 => j - 1 \in DOMAIN queue' /\ queue'[j - 1] = queue[j]
  BY <1>1, <1>3
<1>9. CASE queue[1] = e
  <2>1. 1 \in InQueue(c)
    BY <1>4, <1>8, <1>9
  <2>2. InQueue(c) = {1} /\ InThread(c) = {} /\ InSlot(c) = {}
    BY <2>1 DEF OnePlace
  <2>3. InQueue(c)' = {}
    <3>1. ASSUME NEW j \in InQueue(c)' PROVE FALSE
      <4>1. j + 1 \in InQueue(c) /\ j \in Nat /\ j >= 1
        BY <1>4, <1>8, <3>1
      <4>. QED  BY <2>2, <4>1
    <3>. QED  BY <3>1
  <2>4. queue[1].msg \in Ask
    <3>1. queue[1].msg \in Request \cup {Exit} /\ queue[1].msg = Open(c)
      BY <1>1, <1>7, <1>9, HeadType
    <3>. QED  BY <3>1 DEF Ask, Open, Exit
  <2>5. InThread(c)' = {t}
    BY <1>1, <1>5, <1>7, <1>9, <2>2, <2>4
  <2>. QED  BY <1>6, <2>2, <2>3, <2>5 DEF OnePlace
<1>10. CASE queue[1] # e
  <2>1. InThread(c)' = InThread(c)
    BY <1>1, <1>5, <1>7, <1>10
  <2>2. \A j \in DOMAIN queue : j \in InQueue(c) => j - 1 \in InQueue(c)'
    BY <1>4, <1>8, <1>10
  <2>3. \A j \in InQueue(c)' : j + 1 \in InQueue(c) /\ j \in Nat
    BY <1>4, <1>8
  <2>4. InQueue(c) = {} => InQueue(c)' = {}
    BY <2>3
  <2>5. ASSUME NEW j \in InQueue(c), InQueue(c) = {j}
        PROVE  InQueue(c)' = {j - 1}
    <3>1. j \in Nat /\ j - 1 \in InQueue(c)'
      BY <1>4, <1>8, <1>10, <2>2, <2>5
    <3>2. \A k \in InQueue(c)' : k = j - 1
      BY <2>3, <2>5, <3>1
    <3>. QED  BY <3>1, <3>2
  <2>. QED  BY <1>6, <2>1, <2>4, <2>5 DEF OnePlace
<1>. QED  BY <1>9, <1>10

\* A thread puts the answer where the client waits, in a slot that was free.
LEMMA PlaceAnswered ==
  ASSUME TypeOK, SlotsFilled, JobsOpen, NEW t \in Threads, Answer(t),
         NEW c \in Clients, OnePlace(c)
  PROVE  OnePlace(c)'
<1>. DEFINE a == [ready |-> TRUE, client |-> c, answer |-> Open(c)]
            b == [ready |-> TRUE, client |-> job[t].from, answer |-> job[t]]
<1>1. /\ InCall(t) /\ ~InCall(t)' /\ at[t] \in Slots /\ slots[at[t]] = FreeSlot
      /\ slots' = [slots EXCEPT ![at[t]] = b]
      /\ UNCHANGED <<queue, at, job, asked>>
      /\ \A u \in Threads \ {t} : InCall(u)' <=> InCall(u)
  BY AnswerStep, ProcsDisjoint DEF InCall
<1>2. Open(c)' = Open(c)
  BY <1>1 DEF Open
<1>3. InQueue(c)' = InQueue(c)
  BY <1>1, <1>2 DEF InQueue
<1>4. /\ InThread(c) = {u \in Threads : InCall(u) /\ job[u] = Open(c) /\ at[u] = at[c]}
      /\ InThread(c)' = {u \in Threads : InCall(u)' /\ job[u] = Open(c) /\ at[u] = at[c]}
  BY <1>1, <1>2 DEF InThread
<1>5. /\ InSlot(c) = {i \in Slots : i = at[c] /\ slots[i] = a}
      /\ InSlot(c)' = {i \in Slots : i = at[c] /\ slots'[i] = a}
  BY <1>1, <1>2 DEF InSlot, Slots
<1>6. /\ slots[at[t]] # a /\ slots'[at[t]] = b
      /\ \A i \in Slots \ {at[t]} : slots'[i] = slots[i]
  BY <1>1, Types DEF FreeSlot
<1>7. b = a <=> job[t] = Open(c)
  <2>1. job[t] = Open(c) => job[t].from = c
    BY DEF Open
  <2>2. /\ b.ready = TRUE /\ b.client = job[t].from /\ b.answer = job[t]
        /\ a.answer = Open(c)
    OBVIOUS
  <2>. QED  BY <2>1, <2>2
<1>. HIDE DEF a, b
<1>8. CASE job[t] = Open(c) /\ at[t] = at[c]
  <2>1. t \in InThread(c)
    BY <1>1, <1>4, <1>8
  <2>2. InThread(c) = {t} /\ InQueue(c) = {} /\ InSlot(c) = {}
    BY <2>1 DEF OnePlace
  <2>3. InThread(c)' = {}
    BY <1>1, <1>4, <2>2
  <2>4. at[c] \in InSlot(c)'
    BY <1>1, <1>5, <1>6, <1>7, <1>8
  <2>. QED  BY <1>3, <2>2, <2>3, <2>4 DEF OnePlace
<1>9. CASE ~(job[t] = Open(c) /\ at[t] = at[c])
  <2>1. InThread(c)' = InThread(c)
    BY <1>1, <1>4, <1>9
  <2>2. InSlot(c)' = InSlot(c)
    BY <1>1, <1>5, <1>6, <1>7, <1>9
  <2>. QED  BY <1>3, <2>1, <2>2, SamePlace
<1>. QED  BY <1>8, <1>9

LEMMA NothingStays ==
  ASSUME TypeOK, SlotsFilled, JobsOpen, AllDue, Next, NEW c \in Clients, Dead(c)', Nothing(c)
  PROVE  Nothing(c)'
<1>1. \A mode \in {"ask", "close"} : ~Send(c, mode)
  BY SendStep
<1>. SUFFICES ASSUME NEW r \in Ask, NEW i \in Slots, r.from = c, Carried(r, i)'
              PROVE  FALSE
  <2>1. Slots' = Slots /\ Ask' = Ask
    BY DEF Slots, Ask, Request
  <2>. QED  BY <2>1 DEF Nothing
<1>2. ~Carried(r, i)
  BY DEF Nothing
<1>. QED  BY <1>1, <1>2, CarriedStep

LEMMA SinglyPlacedStep ==
  ASSUME IInv, Next
  PROVE  SinglyPlaced'
<1>0. TypeOK /\ SlotsFilled /\ JobsOpen /\ AllDue /\ SinglyPlaced
  BY DEF IInv
<1>. SUFFICES ASSUME NEW c \in Clients
              PROVE  /\ InCall(c)' => OnePlace(c)'
                     /\ Dead(c)' => OnePlace(c)' \/ Nothing(c)'
  BY DEF SinglyPlaced
<1>1. ASSUME InCall(c) \/ Dead(c) PROVE OnePlace(c) \/ (Dead(c) /\ Nothing(c))
  BY <1>0, <1>1 DEF SinglyPlaced
<1>2. ASSUME Dead(c)' PROVE OnePlace(c) \/ Nothing(c)
  <2>1. ~InCall(c) /\ ~Dead(c) => Nothing(c)
    BY <1>0 DEF AllDue, Due, Nothing
  <2>. QED  BY <1>1, <2>1
\* It is enough that the step leaves c's request in one place if it was.
<1>3. ASSUME OnePlace(c) => OnePlace(c)', InCall(c)' => InCall(c)
      PROVE  /\ InCall(c)' => OnePlace(c)'
             /\ Dead(c)' => OnePlace(c)' \/ Nothing(c)'
  BY <1>0, <1>2, <1>3, NothingStays DEF SinglyPlaced
<1>4. CASE Quiet
  BY <1>0, <1>3, <1>4, PlaceQuiet DEF Quiet
<1>5. ASSUME NEW d \in Clients, NEW mode \in {"ask", "close"}, Send(d, mode)
      PROVE  /\ InCall(c)' => OnePlace(c)'
             /\ Dead(c)' => OnePlace(c)' \/ Nothing(c)'
  <2>1. /\ InCall(d)' <=> mode = "ask"
        /\ ~Dead(d)'
        /\ \A p \in Procs \ {d} : InCall(p)' <=> InCall(p)
    BY <1>0, <1>5, SendStep
  <2>2. CASE c = d
    BY <1>0, <1>5, <2>1, <2>2, PlaceSent
  <2>3. CASE c # d
    BY <1>0, <1>3, <1>5, <2>1, <2>3, PlaceOthersSend, ProcsDisjoint
  <2>. QED  BY <2>2, <2>3
<1>6. ASSUME NEW d \in Clients, Take(d)
      PROVE  /\ InCall(c)' => OnePlace(c)'
             /\ Dead(c)' => OnePlace(c)' \/ Nothing(c)'
  <2>1. /\ ~InCall(d)' /\ ~Dead(d)'
        /\ \A p \in Procs \ {d} : InCall(p)' <=> InCall(p)
    BY <1>0, <1>6, TakeStep DEF InCall, Dead
  <2>. QED  BY <1>0, <1>3, <1>6, <2>1, PlaceOthersTake, ProcsDisjoint
<1>7. ASSUME NEW t \in Threads, PopHead(t)
      PROVE  /\ InCall(c)' => OnePlace(c)'
             /\ Dead(c)' => OnePlace(c)' \/ Nothing(c)'
  <2>1. InCall(c)' => InCall(c)
    BY <1>0, <1>7, PopStep, ProcsDisjoint
  <2>. QED  BY <1>0, <1>3, <1>7, <2>1, PlacePopped
<1>8. ASSUME NEW t \in Threads, Answer(t)
      PROVE  /\ InCall(c)' => OnePlace(c)'
             /\ Dead(c)' => OnePlace(c)' \/ Nothing(c)'
  <2>1. InCall(c)' => InCall(c)
    BY <1>0, <1>8, AnswerStep, ProcsDisjoint
  <2>. QED  BY <1>0, <1>3, <1>8, <2>1, PlaceAnswered
<1>. QED  BY <1>0, <1>4, <1>5, <1>6, <1>7, <1>8, Moves

-----------------------------------------------------------------------------
(***************************************************************************)
(* The theorems.                                                           *)
(***************************************************************************)
LEMMA Inductive == IInv /\ [Next]_vars => IInv'
<1>1. ASSUME IInv, Next PROVE IInv'
  <2>1. TypeOK'
    BY <1>1, TypeStep
  <2>. QED  BY <1>1, <2>1, LocksOwnedStep, NoSleeperForgottenStep, SlotsFilledStep,
               AllDueStep, SinglyPlacedStep DEF IInv
<1>2. ASSUME IInv, UNCHANGED vars PROVE IInv'
  <2>1. TypeOK' /\ SlotsFilled' /\ JobsOpen' /\ LocksOwned' /\ NoSleeperForgotten'
    BY <1>2 DEF IInv, TypeOK, SlotsFilled, JobsOpen, LocksOwned, NoSleeperForgotten, vars,
                InCall, Mine, Busy, Slot
  <2>2. AllDue'
    BY <1>2 DEF IInv, AllDue, Carried, Due, InCall, Dead, vars
  <2>3. SinglyPlaced'
    <3>1. ASSUME NEW c \in Clients
          PROVE  /\ (InCall(c)' <=> InCall(c)) /\ (Dead(c)' <=> Dead(c))
                 /\ InQueue(c)' = InQueue(c) /\ InThread(c)' = InThread(c)
                 /\ InSlot(c)' = InSlot(c) /\ (Nothing(c)' <=> Nothing(c))
      <4>1. Nothing(c)' <=> Nothing(c)
        BY <1>2 DEF Nothing, Carried, InCall, vars
      <4>. QED  BY <1>2, <4>1 DEF InQueue, InThread, InSlot, InCall, Dead, Open, vars
    <3>. QED  BY <1>2, <3>1, SamePlace DEF IInv, SinglyPlaced
  <2>. QED  BY <2>1, <2>2, <2>3 DEF IInv
<1>. QED  BY <1>1, <1>2

LEMMA AlwaysIInv == Spec => []IInv
BY InitIInv, Inductive, PTL DEF Spec

\* Every variable of the protocol keeps its type; the queue never holds more
\* than N requests (message.h:108).
THEOREM TypeCorrect == Spec => []TypeOK
<1>1. IInv => TypeOK
  BY DEF IInv
<1>. QED  BY <1>1, AlwaysIInv, PTL

\* The request of a client that waits is in exactly one place, bound for the
\* slot the client waits at: nothing is lost, answered twice or delivered
\* elsewhere between push_back(), receiveMsg() and respond().
THEOREM NothingLostOrDoubled == Spec => []OneCopy
<1>1. ASSUME IInv PROVE OneCopy
  <2>. SUFFICES ASSUME NEW c \in Clients, InCall(c)
                PROVE  Cardinality(InQueue(c)) + Cardinality(InThread(c))
                         + Cardinality(InSlot(c)) = 1
    BY DEF OneCopy
  <2>1. OnePlace(c)
    BY <1>1 DEF IInv, SinglyPlaced
  <2>2. InSlot(c) = {} \/ InSlot(c) = {at[c]}
    BY DEF InSlot
  <2>3. /\ \A x : Cardinality({x}) = 1
        /\ Cardinality({}) = 0
    BY FS_Singleton, FS_EmptySet
  <2>4. /\ InQueue(c) = {} => Cardinality(InQueue(c)) = 0
        /\ InThread(c) = {} => Cardinality(InThread(c)) = 0
        /\ InSlot(c) = {} => Cardinality(InSlot(c)) = 0
        /\ InSlot(c) # {} => Cardinality(InSlot(c)) = 1
    BY <2>2, <2>3
  <2>5. CASE \E j \in InQueue(c) : InQueue(c) = {j}
    <3>1. Cardinality(InQueue(c)) = 1 /\ InThread(c) = {} /\ InSlot(c) = {}
      BY <2>1, <2>3, <2>5 DEF OnePlace
    <3>. QED  BY <2>4, <3>1
  <2>6. CASE \E t \in InThread(c) : InThread(c) = {t}
    <3>1. Cardinality(InThread(c)) = 1 /\ InQueue(c) = {} /\ InSlot(c) = {}
      BY <2>1, <2>3, <2>6 DEF OnePlace
    <3>. QED  BY <2>4, <3>1
  <2>7. CASE InSlot(c) # {} /\ InQueue(c) = {} /\ InThread(c) = {}
    BY <2>4, <2>7
  <2>. QED  BY <2>1, <2>5, <2>6, <2>7 DEF OnePlace
<1>. QED  BY <1>1, AlwaysIInv, PTL

\* Nobody sleeps through its wake-up: whoever is asleep at a slot still has to
\* wait (client.cpp:111, server.cpp:298).
THEOREM WokenInTime == Spec => []NoSleeperForgotten
<1>1. IInv => NoSleeperForgotten
  BY DEF IInv
<1>. QED  BY <1>1, AlwaysIInv, PTL

\* However often the slots are reused, a client takes only the answer to the
\* request it sent last (client.cpp:106-133).
THEOREM AnswersBelong == Spec => AnswersMatch
<1>1. ASSUME IInv, [Next]_vars
      PROVE  [\A c \in Clients : got'[c] # got[c] => got'[c] = Open(c)]_vars
  <2>0. TypeOK /\ SlotsFilled /\ JobsOpen /\ AllDue
    BY <1>1 DEF IInv
  <2>. SUFFICES ASSUME Next, NEW c \in Clients, got'[c] # got[c] PROVE got'[c] = Open(c)
    BY <1>1
  <2>1. ASSUME NEW d \in Clients, Take(d) PROVE got'[c] = Open(c)
    <3>1. got' = [got EXCEPT ![d] = slots[at[d]].answer] /\ slots[at[d]].answer = Open(d)
      BY <2>0, <2>1, TakeStep
    <3>. QED  BY <2>0, <3>1, Types
  <2>2. \A d \in Clients : \A mode \in {"ask", "close"} : Send(d, mode) => UNCHANGED got
    BY DEF Send
  <2>. QED  BY <2>0, <2>1, <2>2, Moves DEF Quiet, PopHead, Answer
<1>. QED  BY <1>1, AlwaysIInv, PTL DEF Spec, AnswersMatch

\* A client that died takes at most one slot out of use, that of its last
\* request: the one its answer is left in, or the one it had locked.
THEOREM DeathBlocksOneSlot == Spec => []OneSlotPerDeath
<1>1. ASSUME IInv PROVE OneSlotPerDeath
  <2>. SUFFICES ASSUME NEW c \in Clients, NEW i \in Slots, slots[i].client = c \/ lock[i] = c
                PROVE  i = at[c]
    BY DEF OneSlotPerDeath
  <2>1. CASE lock[i] = c
    BY <1>1, <2>1, ProcsDisjoint DEF IInv, LocksOwned
  <2>2. CASE slots[i].client = c
    <3>1. slots[i].ready /\ slots[i].answer \in Ask /\ slots[i].answer.from = c
      BY <1>1, <2>2, ProcsDisjoint DEF IInv, SlotsFilled, FreeSlot
    <3>2. Carried(slots[i].answer, i)
      BY <3>1 DEF Carried
    <3>. QED  BY <1>1, <3>1, <3>2 DEF IInv, AllDue, Due
  <2>. QED  BY <2>1, <2>2
<1>. QED  BY <1>1, AlwaysIInv, PTL

==============================================================================
