---------------------------- MODULE SystemProofs ----------------------------
(***************************************************************************)
(* Theorems about System for every set of clients, threads, keys, values   *)
(* and scripts: what Mailbox and ConcurrentMap guarantee, put together.    *)
(***************************************************************************)
EXTENDS System, ConcurrentMapProofs, SequenceTheorems

\* OpenFails() may end any client, so that all of them count as mortal.
P == INSTANCE MailboxProofs WITH MayStop <- FALSE, Mortal <- Clients

(***************************************************************************)
(* The inductive invariant.                                                *)
(***************************************************************************)
Asks   == P!Ask
Closes == {r \in P!Request : r.mode = "close"}

\* The queue holds requests only: nobody sends EXIT here.
OnlyRequests == \A j \in DOMAIN queue : queue[j].msg \in Asks \cup Closes

\* A thread executes what it popped before it locks the mutex of the slot, and
\* adds a key only if that is an INSERT.
Phases ==
  \A t \in Threads :
    /\ phase[t] \in {"work", "create", "fill"} => pc[t] = "lock"
    /\ phase[t] = "unlink" => pc[t] = "idle" /\ job[t] \in Closes
    /\ adding[t] # NoKey => phase[t] = "work" /\ Order(t).op = "insert"

\* The command a request is for is at the head of its sender's script.  While a
\* client uses a segment nothing of it is on its way but CLOSE_SHM.
Scripted ==
  /\ \A r \in Asks : \A i \in 0 .. N - 1 : P!Carried(r, i) => todo[r.from] # << >>
  /\ \A c \in Clients : stage[c] # "command" =>
       todo[c] # << >> /\ asked[c] > 0 /\ P!Nothing(c)

\* r is a CLOSE_SHM that has not been executed.
InLine(r)  == {j \in DOMAIN queue : queue[j].msg = r}
InHand(r)  == {t \in Threads : phase[t] = "unlink" /\ job[t] = r}
Closing(r) == InLine(r) # {} \/ InHand(r) # {}

\* A client asks, reads and closes before it asks again.
Busy(c) == stage[c] # "command" \/ ~P!Nothing(c)
ClosesLate ==
  \A r \in Closes : Closing(r) =>
    /\ r.n > 1 /\ r.n <= asked[r.from]
    /\ Busy(r.from) => r.n < asked[r.from]

\* A CLOSE_SHM is executed once.
ClosesOnce ==
  \A r \in Closes :
    /\ \A j, k \in InLine(r) : j = k
    /\ \A t, u \in InHand(r) : t = u
    /\ InLine(r) = {} \/ InHand(r) = {}

\* The bucket that c asked for last has been copied, and c is or will be told.
Served(c) ==
  \/ stage[c] = "open"
  \/ \E t \in Threads : /\ P!InCall(t) /\ job[t].from = c
                        /\ phase[t] = "done" /\ result[t] = Copied
  \/ \E i \in 0 .. N - 1 : /\ slots[i].ready /\ slots[i].answer.from = c
                           /\ reply[i] = Copied
OwnBucket ==
  \A c \in Clients :
    Served(c) => segment[c] \in {NoSegment, [n |-> asked[c], filled |-> TRUE]}

\* A client that read one bucket at most has a segment from its creation to
\* CLOSE_SHM.
Holds(c) ==
  \/ Served(c) \/ stage[c] = "close"
  \/ \E t \in Threads : phase[t] = "fill" /\ job[t].from = c
  \/ \E r \in Closes : r.from = c /\ Closing(r)
FirstHolds ==
  /\ \A c \in Clients : Holds(c) /\ ~ReadsTwice(c) => segment[c] # NoSegment
  /\ ~up => \E c \in Clients : ReadsTwice(c)

SysIInv ==
  /\ SystemTypeOK /\ P!IInv
  /\ OnlyRequests /\ Phases /\ Scripted /\ ClosesLate /\ ClosesOnce
  /\ OwnBucket /\ FirstHolds

-----------------------------------------------------------------------------
(***************************************************************************)
(* Box, the instance of Mailbox in System, and P, that in MailboxProofs.   *)
(***************************************************************************)
LEMMA SameFiniteSets ==
  ASSUME NEW S
  PROVE  /\ P!IsFiniteSet(S) <=> IsFiniteSet(S)
         /\ P!Cardinality(S) = Cardinality(S)
<1>1. P!IsFiniteSet(S) <=> IsFiniteSet(S)
  BY DEF IsFiniteSet, P!IsFiniteSet
<1>2. P!Cardinality(S) = Cardinality(S)
  BY DEF Cardinality, P!Cardinality
<1>. QED  BY <1>1, <1>2

LEMMA BoxAssumption == P!MailboxAssumption /\ N \in Nat \ {0}
<1>1. /\ P!IsFiniteSet(Clients) /\ P!IsFiniteSet(Threads) /\ MaxRequests \in Nat
      /\ IsFiniteSet(Threads) /\ Threads # {}
  BY SystemAssumption, MapAssumption, SameFiniteSets
<1>2. N \in Nat \ {0}
  BY <1>1, FS_CardinalityType, FS_EmptySet DEF N
<1>3. P!Cardinality(Threads) = N
  BY SameFiniteSets DEF N
<1>4. Clients \cap Threads = {} /\ Main \notin P!Procs /\ Nobody \notin P!Procs
  BY SystemAssumption DEF P!Procs
<1>. QED  BY <1>1, <1>2, <1>3, <1>4

LEMMA BoxStates ==
  /\ Box!Init => P!Init
  /\ Box!TypeOK <=> P!TypeOK
  /\ \A c \in Clients : Box!Open(c) = P!Open(c) /\ Box!InSlot(c) = P!InSlot(c)
  /\ \A p : Box!InCall(p) <=> P!InCall(p)
<1>1. Box!Init => P!Init
  BY DEF Box!Init, P!Init, Box!FreeSlot, P!FreeSlot, Box!None, P!None, Box!Slots, P!Slots,
         Box!Procs, P!Procs
<1>2. Box!TypeOK <=> P!TypeOK
  BY DEF Box!TypeOK, P!TypeOK, Box!None, P!None, Box!Slots, P!Slots, Box!Exit, P!Exit,
         Box!Procs, P!Procs, Box!Request, P!Request, Box!Labels, P!Labels
<1>3. \A c \in Clients : Box!Open(c) = P!Open(c) /\ Box!InSlot(c) = P!InSlot(c)
  BY DEF Box!Open, P!Open, Box!InSlot, P!InSlot, Box!Slots, P!Slots
<1>4. \A p : Box!InCall(p) <=> P!InCall(p)
  BY DEF Box!InCall, P!InCall
<1>. QED  BY <1>1, <1>2, <1>3, <1>4

LEMMA BoxSteps ==
  /\ \A c \in Clients : \A mode \in {"ask", "close"} : Box!Send(c, mode) => P!Send(c, mode)
  /\ \A p \in Clients \cup Threads : /\ Box!Lock(p) => P!Lock(p)
                                     /\ Box!Sleep(p) => P!Sleep(p)
  /\ \A c \in Clients : (Box!Take(c) => P!Take(c)) /\ (Box!Die(c) => P!Die(c))
  /\ \A t \in Threads : (Box!PopHead(t) => P!PopHead(t)) /\ (Box!Answer(t) => P!Answer(t))
<1>1. ASSUME NEW c \in Clients, NEW mode \in {"ask", "close"}, Box!Send(c, mode)
      PROVE  P!Send(c, mode)
  BY <1>1 DEF Box!Send, P!Send, Box!Goto, P!Goto, Box!Push, P!Push, Box!Full, P!Full,
              Box!Open, P!Open
<1>2. ASSUME NEW p \in Clients \cup Threads, Box!Lock(p) PROVE P!Lock(p)
  BY <1>2 DEF Box!Lock, P!Lock, Box!Goto, P!Goto
<1>3. ASSUME NEW p \in Clients \cup Threads, Box!Sleep(p) PROVE P!Sleep(p)
  BY <1>3 DEF Box!Sleep, P!Sleep, Box!Goto, P!Goto, Box!Mine, P!Mine, Box!Busy, P!Busy,
              Box!Slot, P!Slot
<1>4. ASSUME NEW p \in Clients \cup Threads, Box!Broadcast(p) PROVE P!Broadcast(p)
  BY <1>4 DEF Box!Broadcast, P!Broadcast, Box!Sleepers, P!Sleepers, Box!Procs, P!Procs
<1>5. ASSUME NEW c \in Clients, Box!Take(c) PROVE P!Take(c)
  BY <1>4, <1>5 DEF Box!Take, P!Take, Box!Mine, P!Mine, Box!Slot, P!Slot,
                    Box!FreeSlot, P!FreeSlot, Box!None, P!None
<1>6. ASSUME NEW c \in Clients, Box!Die(c) PROVE P!Die(c)
  BY <1>6 DEF Box!Die, P!Die
<1>7. ASSUME NEW t \in Threads, Box!PopHead(t) PROVE P!PopHead(t)
  BY <1>7 DEF Box!PopHead, P!PopHead, Box!Goto, P!Goto, Box!AfterPop, P!AfterPop
<1>8. ASSUME NEW t \in Threads, Box!Answer(t) PROVE P!Answer(t)
  BY <1>4, <1>8 DEF Box!Answer, P!Answer, Box!Busy, P!Busy, Box!Slot, P!Slot
<1>. QED  BY <1>1, <1>2, <1>3, <1>5, <1>6, <1>7, <1>8

LEMMA BoxInvariant == SysIInv /\ [SystemNext]_systemVars => P!IInv'
<1>. SUFFICES ASSUME SysIInv, [SystemNext]_systemVars PROVE P!IInv'
  OBVIOUS
<1>1. P!IInv /\ P!MailboxAssumption
  BY BoxAssumption DEF SysIInv
<1>2. P!Next => P!IInv'
  BY <1>1, P!Inductive
<1>3. UNCHANGED boxVars => P!IInv'
  <2>1. UNCHANGED boxVars => UNCHANGED P!vars
    BY DEF boxVars, P!vars
  <2>. QED  BY <1>1, <2>1, P!Inductive
<1>4. ASSUME NEW c \in Clients, Ask(c) \/ Proceed(c) \/ Kill(c)
      PROVE  P!Next \/ UNCHANGED boxVars
  <2>1. /\ \A mode \in {"ask", "close"} : P!Send(c, mode) => P!Next
        /\ P!Lock(c) \/ P!Sleep(c) \/ P!Take(c) \/ P!Die(c) => P!Next
    BY DEF P!Next, P!Waiting
  <2>. QED  BY <1>4, <2>1, BoxSteps
            DEF Ask, Proceed, Kill, Await, Hear, ReadSegment, OpenFails, Close
<1>5. ASSUME NEW t \in Threads, Serve(t) PROVE P!Next \/ UNCHANGED boxVars
  <2>1. P!PopHead(t) \/ P!Lock(t) \/ P!Sleep(t) \/ P!Answer(t) => P!Next
    BY DEF P!Next, P!Serving
  <2>. QED  BY <1>5, <2>1, BoxSteps
            DEF Serve, Fetch, TableStep, ShareBucket, RefuseBucket, CopyBucket, CreateSegment,
                CreateFails, FillSegment, Unlink, UnlinkFails, AwaitSlot, Respond
<1>. QED  BY <1>2, <1>3, <1>4, <1>5, SystemAssumption DEF SystemNext, systemVars

\* The invariant of the protocol, part by part.
LEMMA Parts ==
  ASSUME SysIInv
  PROVE  /\ P!TypeOK /\ P!SlotsFilled /\ P!JobsOpen /\ P!AllDue /\ P!SinglyPlaced
         /\ SystemTypeOK /\ TypeOK /\ P!MailboxAssumption
BY BoxAssumption DEF SysIInv, P!IInv, SystemTypeOK

LEMMA Identities ==
  /\ \A c \in Clients : c \notin Threads /\ c \in P!Procs
  /\ \A t \in Threads : t \notin Clients /\ t \in P!Procs
  /\ P!Slots = 0 .. N - 1
BY SystemAssumption DEF P!Procs, P!Slots

LEMMA RequestTypes ==
  /\ \A r \in Asks : /\ r \in P!Request /\ r.mode = "ask" /\ r.from \in Clients
                     /\ r.n \in 1 .. MaxRequests
                     /\ r = [from |-> r.from, n |-> r.n, mode |-> "ask"]
  /\ \A r \in Closes : /\ r \in P!Request /\ r.mode = "close" /\ r.from \in Clients
                       /\ r.n \in 1 .. MaxRequests
                       /\ r = [from |-> r.from, n |-> r.n, mode |-> "close"]
  /\ Asks \cap Closes = {}
BY DEF Asks, Closes, P!Ask, P!Request

\* Who works for a client is alone to do so, and the client is not elsewhere.
LEMMA Answered ==
  ASSUME SysIInv, NEW i \in 0 .. N - 1, slots[i].ready
  PROVE  /\ slots[i].answer \in Asks /\ slots[i].answer.from \in Clients
         /\ slots[i].answer = P!Open(slots[i].answer.from)
         /\ i = at[slots[i].answer.from]
         /\ i \in P!InSlot(slots[i].answer.from)
         /\ ~P!Nothing(slots[i].answer.from)
<1>1. i \in P!Slots
  BY Identities
<1>2. /\ slots[i].answer \in P!Ask /\ slots[i].client = slots[i].answer.from
  BY <1>1, Parts DEF P!SlotsFilled, P!FreeSlot
<1>3. P!Carried(slots[i].answer, i)
  BY DEF P!Carried
<1>4. /\ slots[i].answer.from \in Clients
      /\ slots[i].answer = P!Open(slots[i].answer.from)
      /\ i = at[slots[i].answer.from]
  BY <1>1, <1>2, <1>3, Parts, P!CarriedIsOpen
<1>5. slots[i] = [ready |-> TRUE, client |-> slots[i].client, answer |-> slots[i].answer]
  BY <1>1, Parts, P!Types
<1>6. i \in P!InSlot(slots[i].answer.from)
  BY <1>1, <1>2, <1>4, <1>5 DEF P!InSlot
<1>7. ~P!Nothing(slots[i].answer.from)
  BY <1>1, <1>2, <1>3 DEF P!Nothing
<1>. QED  BY <1>2, <1>4, <1>6, <1>7 DEF Asks

LEMMA Employed ==
  ASSUME SysIInv, NEW t \in Threads, P!InCall(t)
  PROVE  /\ job[t] \in Asks /\ job[t].from \in Clients
         /\ job[t] = P!Open(job[t].from) /\ at[t] = at[job[t].from]
         /\ stage[job[t].from] = "command" /\ todo[job[t].from] # << >>
         /\ ~P!Nothing(job[t].from)
         /\ P!InThread(job[t].from) = {t} /\ P!InSlot(job[t].from) = {}
         /\ \A u \in Threads : P!InCall(u) /\ job[u].from = job[t].from => u = t
         /\ \A i \in 0 .. N - 1 : slots[i].ready => slots[i].answer.from # job[t].from
<1>1. /\ P!TypeOK /\ P!JobsOpen /\ P!AllDue /\ P!SinglyPlaced /\ P!MailboxAssumption
      /\ Scripted
  BY Parts DEF SysIInv
<1>2. ASSUME NEW u \in Threads, P!InCall(u)
      PROVE  /\ job[u] \in P!Ask /\ P!Carried(job[u], at[u]) /\ job[u].from \in Clients
             /\ job[u] = P!Open(job[u].from) /\ at[u] = at[job[u].from]
             /\ u \in P!InThread(job[u].from) /\ ~P!Nothing(job[u].from)
             /\ P!InCall(job[u].from) \/ P!Dead(job[u].from)
  <2>1. job[u] \in P!Ask /\ P!Carried(job[u], at[u]) /\ at[u] \in P!Slots
    BY <1>1, <1>2, P!Types, Identities DEF P!JobsOpen, P!Carried
  <2>2. /\ job[u].from \in Clients /\ job[u] = P!Open(job[u].from)
        /\ at[u] = at[job[u].from]
        /\ P!InCall(job[u].from) \/ P!Dead(job[u].from)
    BY <1>1, <2>1, P!CarriedIsOpen
  <2>3. u \in P!InThread(job[u].from)
    BY <1>2, <2>2 DEF P!InThread
  <2>4. ~P!Nothing(job[u].from)
    BY <2>1 DEF P!Nothing
  <2>. QED  BY <2>1, <2>2, <2>3, <2>4
<1>3. P!OnePlace(job[t].from)
  BY <1>1, <1>2 DEF P!SinglyPlaced
<1>4. P!InThread(job[t].from) = {t} /\ P!InSlot(job[t].from) = {}
  BY <1>2, <1>3 DEF P!OnePlace
<1>5. stage[job[t].from] = "command" /\ todo[job[t].from] # << >>
  BY <1>1, <1>2, P!Types, Identities DEF Scripted, Asks
<1>6. \A u \in Threads : P!InCall(u) /\ job[u].from = job[t].from => u = t
  BY <1>2, <1>4
<1>7. \A i \in 0 .. N - 1 : slots[i].ready => slots[i].answer.from # job[t].from
  BY <1>4, Answered
<1>. QED  BY <1>2, <1>4, <1>5, <1>6, <1>7 DEF Asks

LEMMA IdleNothing ==
  ASSUME P!AllDue, NEW c \in Clients, pc[c] = "idle"
  PROVE  P!Nothing(c)
BY DEF P!AllDue, P!Due, P!Nothing, P!InCall, P!Dead

-----------------------------------------------------------------------------
(***************************************************************************)
(* Steps that move no request.                                             *)
(***************************************************************************)
Rest == /\ OnlyRequests /\ Phases /\ Scripted /\ ClosesLate /\ ClosesOnce
        /\ OwnBucket /\ FirstHolds

LEMMA Rigid == Asks' = Asks /\ Closes' = Closes /\ N' = N
BY DEF Asks, Closes, N, P!Ask, P!Request

LEMMA Unmoved ==
  ASSUME UNCHANGED <<queue, slots, job, asked, at>>,
         \A t \in Threads : P!InCall(t)' <=> P!InCall(t)
  PROVE  /\ \A r, i : P!Carried(r, i)' <=> P!Carried(r, i)
         /\ \A c : P!Nothing(c)' <=> P!Nothing(c)
         /\ \A r : InLine(r)' = InLine(r)
<1>1. \A r, i : P!Carried(r, i)' <=> P!Carried(r, i)
  BY DEF P!Carried
<1>2. \A c : P!Nothing(c)' <=> P!Nothing(c)
  BY <1>1 DEF P!Nothing, P!Ask, P!Request, P!Slots, N
<1>3. \A r : InLine(r)' = InLine(r)
  BY DEF InLine
<1>. QED  BY <1>1, <1>2, <1>3

\* A step that changes nothing but mutexes and where their users are.
LEMMA QuietStep ==
  ASSUME SysIInv,
         UNCHANGED <<queue, slots, job, asked, at, vars, clientVars, serverVars>>,
         \A t \in Threads : /\ P!InCall(t)' <=> P!InCall(t)
                            /\ phase[t] # "done" => pc'[t] = pc[t]
  PROVE  Rest'
<1>0. /\ \A r, i : P!Carried(r, i)' <=> P!Carried(r, i)
      /\ \A c : P!Nothing(c)' <=> P!Nothing(c)
      /\ \A r : InLine(r)' = InLine(r)
  BY Unmoved
<1>1. /\ UNCHANGED <<adding, result, chain, todo, stage, phase, reply, segment, up>>
      /\ OnlyRequests /\ Phases /\ Scripted /\ ClosesLate /\ ClosesOnce
      /\ OwnBucket /\ FirstHolds
  BY DEF SysIInv, vars, clientVars, serverVars
<1>2. \A r : (InHand(r)' = InHand(r)) /\ (Closing(r)' <=> Closing(r))
  BY <1>0, <1>1 DEF InHand, Closing
<1>3. \A c : (Busy(c)' <=> Busy(c)) /\ (Served(c)' <=> Served(c))
  BY <1>0, <1>1, Rigid DEF Busy, Served
<1>4. \A c : Holds(c)' <=> Holds(c)
  BY <1>1, <1>2, <1>3, Rigid DEF Holds
<1>5. OnlyRequests'
  BY <1>1, Rigid DEF OnlyRequests
<1>6. Phases'
  BY <1>1, Rigid DEF Phases, Order, Owner
<1>7. Scripted'
  BY <1>0, <1>1, Rigid DEF Scripted
<1>8. ClosesLate' /\ ClosesOnce'
  BY <1>0, <1>1, <1>2, <1>3, Rigid DEF ClosesLate, ClosesOnce
<1>9. OwnBucket' /\ FirstHolds'
  BY <1>1, <1>3, <1>4 DEF OwnBucket, FirstHolds, ReadsTwice
<1>. QED  BY <1>5, <1>6, <1>7, <1>8, <1>9 DEF Rest

\* The steps of Mailbox at a mutex are such steps.
LEMMA MutexSteps ==
  ASSUME SysIInv, NEW p \in P!Procs, P!Lock(p) \/ P!Sleep(p) \/ (P!Die(p) /\ p \in Clients),
         p \in Threads => phase[p] = "done",
         UNCHANGED <<vars, clientVars, serverVars>>
  PROVE  Rest'
<1>1. /\ UNCHANGED <<queue, slots, job, asked, at>>
      /\ \A q \in P!Procs \ {p} : pc'[q] = pc[q]
  BY Parts, P!Types DEF P!Lock, P!Sleep, P!Die, P!Goto
<1>2. p \in Threads => P!InCall(p)' /\ P!InCall(p)
  BY Parts, P!Types, Identities DEF P!Lock, P!Sleep, P!Goto, P!InCall
<1>3. \A t \in Threads : /\ P!InCall(t)' <=> P!InCall(t)
                         /\ phase[t] # "done" => pc'[t] = pc[t]
  BY <1>1, <1>2, Identities DEF P!InCall
<1>. QED  BY <1>1, <1>3, QuietStep

LEMMA SimpleSteps ==
  ASSUME SysIInv,
         \/ \E c \in Clients : Await(c) \/ OpenFails(c) \/ Kill(c)
         \/ \E t \in Threads : AwaitSlot(t)
         \/ UNCHANGED systemVars
  PROVE  Rest'
<1>1. ASSUME NEW c \in Clients, Await(c) \/ OpenFails(c) \/ Kill(c) PROVE Rest'
  BY <1>1, BoxSteps, MutexSteps, Identities DEF Await, OpenFails, Kill
<1>2. ASSUME NEW t \in Threads, AwaitSlot(t) PROVE Rest'
  <2>1. /\ t \in P!Procs /\ (t \in Threads => phase[t] = "done")
        /\ UNCHANGED <<vars, clientVars, serverVars>>
    BY <1>2, Identities DEF AwaitSlot
  <2>2. P!Lock(t) \/ P!Sleep(t) \/ (P!Die(t) /\ t \in Clients)
    BY <1>2, BoxSteps DEF AwaitSlot
  <2>. QED  BY <2>1, <2>2, MutexSteps
<1>3. CASE UNCHANGED systemVars
  BY <1>3, QuietStep DEF systemVars, boxVars, P!InCall
<1>. QED  BY <1>1, <1>2, <1>3

-----------------------------------------------------------------------------
(***************************************************************************)
(* Types, and what the steps are to the table.                             *)
(***************************************************************************)
\* A thread that executes a request knows the command it is for.
LEMMA Ordered ==
  ASSUME SysIInv, NEW t \in Threads, phase[t] \in {"work", "create", "fill"}
  PROVE  /\ pc[t] = "lock" /\ P!InCall(t) /\ job[t] \in Asks /\ job[t].n \in 0 .. MaxRequests
         /\ Owner(t) \in Clients /\ job[t].n = asked[Owner(t)]
         /\ Order(t) \in Command /\ Order(t).key \in Keys /\ Order(t).val \in Values
<1>1. pc[t] = "lock" /\ P!InCall(t)
  BY DEF SysIInv, Phases, P!InCall
<1>2. /\ job[t] \in Asks /\ Owner(t) \in Clients /\ job[t] = P!Open(Owner(t))
      /\ todo[Owner(t)] # << >>
  BY <1>1, Employed DEF Owner
<1>3. todo[Owner(t)] \in Seq(Command)
  BY <1>2, Parts DEF SystemTypeOK
<1>4. Order(t) \in Command
  BY <1>2, <1>3 DEF Order
<1>5. Order(t).key \in Keys /\ Order(t).val \in Values
  BY <1>4 DEF Command
<1>6. job[t].n = asked[Owner(t)] /\ job[t].n \in 0 .. MaxRequests
  BY <1>2, Parts, P!Types, Identities DEF P!Open
<1>. QED  BY <1>1, <1>2, <1>4, <1>5, <1>6

LEMMA MapStep == SysIInv /\ [SystemNext]_systemVars => [Next]_vars
<1>. SUFFICES ASSUME SysIInv, [SystemNext]_systemVars PROVE [Next]_vars
  OBVIOUS
<1>1. ASSUME NEW c \in Clients, Ask(c) \/ Proceed(c) \/ Kill(c) PROVE UNCHANGED vars
  BY <1>1 DEF Ask, Proceed, Kill, Await, Hear, ReadSegment, OpenFails, Close
<1>2. ASSUME NEW t \in Threads, TableStep(t) PROVE Next
  <2>1. phase[t] = "work"
    BY <1>2 DEF TableStep, Lookup, Delete, Insert, Enter
  <2>2. Order(t).key \in Keys /\ Order(t).val \in Values
    BY <2>1, Ordered
  <2>. QED  BY <1>2, <2>2 DEF TableStep, Lookup, Delete, Insert, Next
<1>3. ASSUME NEW t \in Threads, ShareBucket(t) PROVE Next \/ UNCHANGED vars
  BY <1>3 DEF ShareBucket, RefuseBucket, CopyBucket, CreateSegment, CreateFails, FillSegment,
              Next
<1>4. ASSUME NEW t \in Threads, Respond(t) PROVE Next
  <2>1. ReadBucket(t)
    BY <1>4 DEF Respond, ReadBucket, Answers
  <2>. QED  BY <2>1 DEF Next
<1>5. ASSUME NEW t \in Threads, Fetch(t) \/ Unlink(t) \/ UnlinkFails(t) \/ AwaitSlot(t)
      PROVE  UNCHANGED vars
  BY <1>5 DEF Fetch, Unlink, UnlinkFails, AwaitSlot
<1>6. CASE UNCHANGED systemVars
  BY <1>6 DEF systemVars
<1>. QED  BY <1>1, <1>2, <1>3, <1>4, <1>5, <1>6, SystemAssumption DEF SystemNext, Serve

LEMMA SystemTypeStep == SysIInv /\ [SystemNext]_systemVars => SystemTypeOK'
<1>. SUFFICES ASSUME SysIInv, [SystemNext]_systemVars PROVE SystemTypeOK'
  OBVIOUS
<1>0. /\ todo \in [Clients -> Seq(Command)]
      /\ stage \in [Clients -> {"command", "open", "close"}]
      /\ heard \in [Clients -> Values \cup Outcomes]
      /\ phase \in [Threads -> {"done", "work", "create", "fill", "unlink"}]
      /\ reply \in [0 .. N - 1 -> Values \cup Outcomes]
      /\ segment \in [Clients -> Segment]
      /\ up \in BOOLEAN
      /\ result \in [Threads -> Values \cup Outcomes]
      /\ at \in [P!Procs -> 0 .. N - 1]
  BY Parts, P!Types, Identities DEF SystemTypeOK, TypeOK
<1>1. TypeOK' /\ result' \in [Threads -> Values \cup Outcomes]
  BY Parts, MapStep, TypeStep DEF TypeOK
<1>2. Box!TypeOK'
  <2>1. P!TypeOK' => Box!TypeOK'
    BY BoxStates, PTL
  <2>2. P!TypeOK'
    BY BoxInvariant DEF P!IInv
  <2>. QED  BY <2>1, <2>2
<1>. DEFINE Own == /\ todo' \in [Clients -> Seq(Command)]
                   /\ stage' \in [Clients -> {"command", "open", "close"}]
                   /\ heard' \in [Clients -> Values \cup Outcomes]
                   /\ phase' \in [Threads -> {"done", "work", "create", "fill", "unlink"}]
                   /\ reply' \in [0 .. N - 1 -> Values \cup Outcomes]
                   /\ segment' \in [Clients -> Segment]
                   /\ up' \in BOOLEAN
<1>3. ASSUME NEW c \in Clients, Ask(c) \/ Await(c) \/ OpenFails(c) \/ Kill(c) PROVE Own
  BY <1>0, <1>3 DEF Ask, Await, OpenFails, Kill, clientVars, serverVars
<1>4. ASSUME NEW c \in Clients, todo[c] # << >> PROVE Tail(todo[c]) \in Seq(Command)
  BY <1>0, <1>4
<1>5. ASSUME NEW c \in Clients, Hear(c) PROVE Own
  <2>1. P!Take(c) /\ at[c] \in 0 .. N - 1
    BY <1>0, <1>5, BoxSteps, Identities DEF Hear
  <2>2. slots[at[c]].ready /\ slots[at[c]].answer = P!Open(c)
    BY <2>1, Parts, P!TakeStep
  <2>3. P!Open(c).from = c
    BY DEF P!Open
  <2>4. /\ slots[at[c]].answer \in P!Ask /\ slots[at[c]].answer.from = c
        /\ P!Carried(slots[at[c]].answer, at[c])
    BY <2>1, <2>2, <2>3, Answered DEF P!Carried, Asks
  <2>5. todo[c] # << >>
    BY <2>1, <2>4 DEF SysIInv, Scripted, Asks
  <2>. QED  BY <1>0, <1>4, <1>5, <2>1, <2>5 DEF Hear, Outcomes
<1>6. ASSUME NEW c \in Clients, ReadSegment(c) PROVE Own
  BY <1>0, <1>6 DEF ReadSegment, serverVars
<1>7. ASSUME NEW c \in Clients, Close(c) PROVE Own
  <2>1. todo[c] # << >>
    BY <1>7 DEF Close, SysIInv, Scripted
  <2>. QED  BY <1>0, <1>4, <1>7, <2>1 DEF Close, serverVars
<1>8. ASSUME NEW t \in Threads, Fetch(t) \/ TableStep(t) PROVE Own
  BY <1>0, <1>8 DEF Fetch, TableStep, Lookup, Delete, Insert, Enter, clientVars
<1>9. ASSUME NEW t \in Threads, NEW s \in Segment, NEW to, Owner(t) \in Clients,
             to \in {"done", "work", "create", "fill", "unlink"},
             Enter(t, phase[t], to), SetSegment(Owner(t), s), UNCHANGED <<clientVars, reply, up>>
      PROVE  Own
  BY <1>0, <1>9 DEF Enter, SetSegment, clientVars
<1>10. ASSUME NEW t \in Threads, ShareBucket(t) PROVE Own
  <2>1. /\ phase[t] \in {"work", "create", "fill"}
        /\ UNCHANGED <<clientVars, reply, up>>
    BY <1>10 DEF ShareBucket, RefuseBucket, CopyBucket, CreateSegment, CreateFails, FillSegment,
                 Enter
  <2>2. /\ Owner(t) \in Clients
        /\ Blank(t) \in Segment /\ [Blank(t) EXCEPT !.filled = TRUE] \in Segment
        /\ NoSegment \in Segment /\ segment[Owner(t)] \in Segment
    <3>1. Owner(t) \in Clients /\ job[t].n \in 0 .. MaxRequests /\ 0 \in 0 .. MaxRequests
      BY <2>1, Ordered, SystemAssumption
    <3>2. Blank(t) \in Segment /\ [Blank(t) EXCEPT !.filled = TRUE] \in Segment
      BY <3>1 DEF Blank, Segment
    <3>. QED  BY <1>0, <3>1, <3>2 DEF NoSegment, Segment
  <2>3. CASE RefuseBucket(t) \/ CopyBucket(t)
    BY <1>0, <2>1, <2>3 DEF RefuseBucket, CopyBucket, Enter, clientVars
  <2>4. CASE CreateSegment(t) \/ CreateFails(t) \/ FillSegment(t)
    <3>1. \E s \in Segment : SetSegment(Owner(t), s)
      BY <2>2, <2>4 DEF CreateSegment, CreateFails, FillSegment
    <3>2. \E to \in {"done", "fill"} : Enter(t, phase[t], to)
      BY <2>4 DEF CreateSegment, CreateFails, FillSegment, Enter
    <3>. QED  BY <1>9, <2>1, <2>2, <3>1, <3>2
  <2>. QED  BY <1>10, <2>3, <2>4 DEF ShareBucket
<1>11. ASSUME NEW t \in Threads, Unlink(t) \/ UnlinkFails(t) \/ AwaitSlot(t) PROVE Own
  <2>1. NoSegment \in Segment
    BY SystemAssumption DEF NoSegment, Segment
  <2>. QED  BY <1>0, <1>11, <2>1 DEF Unlink, UnlinkFails, AwaitSlot, Enter, SetSegment,
               clientVars, serverVars
<1>12. ASSUME NEW t \in Threads, Respond(t) PROVE Own
  <2>1. at[t] \in 0 .. N - 1
    BY <1>0, Identities
  <2>. QED  BY <1>0, <1>12, <2>1 DEF Respond, clientVars
<1>13. ASSUME UNCHANGED systemVars PROVE Own
  BY <1>0, <1>13 DEF systemVars, clientVars, serverVars
<1>14. Own
  BY <1>3, <1>5, <1>6, <1>7, <1>8, <1>10, <1>11, <1>12, <1>13, SystemAssumption
     DEF SystemNext, Proceed, Serve
<1>. QED  BY <1>1, <1>2, <1>14, Rigid DEF SystemTypeOK

-----------------------------------------------------------------------------
(***************************************************************************)
(* Where requests can come from, and who works for nobody.                 *)
(***************************************************************************)
LEMMA Sent ==
  ASSUME SysIInv, NEW c \in Clients, NEW mode \in {"ask", "close"}, P!Send(c, mode)
  PROVE  /\ P!Next /\ pc[c] = "idle" /\ P!Nothing(c)
         /\ asked'[c] = asked[c] + 1 /\ \A d \in Clients \ {c} : asked'[d] = asked[d]
         /\ \A d \in Clients : asked[d] \in Nat
         /\ [from |-> c, n |-> asked[c] + 1, mode |-> mode] \in P!Request
         /\ \A t \in Threads : pc'[t] = pc[t] /\ (P!InCall(t)' <=> P!InCall(t))
         /\ P!InCall(c)' <=> mode = "ask"
         /\ UNCHANGED <<slots, job>>
         /\ queue' = Append(queue, [msg |-> [from |-> c, n |-> asked[c] + 1, mode |-> mode],
                                    idx |-> tail])
<1>0. P!TypeOK /\ P!MailboxAssumption /\ MaxRequests \in Nat
  BY Parts, SystemAssumption
<1>1. \A d \in Clients : asked[d] \in Nat
  BY <1>0, P!Types
<1>2. P!Next /\ pc[c] = "idle" /\ asked[c] < MaxRequests
  BY DEF P!Next, P!Send, P!Goto
<1>3. P!Nothing(c)
  BY <1>2, Parts, IdleNothing
<1>4. [from |-> c, n |-> asked[c] + 1, mode |-> mode] \in P!Request
  BY <1>0, <1>1, <1>2 DEF P!Request
<1>5. /\ asked'[c] = asked[c] + 1 /\ \A d \in Clients \ {c} : asked'[d] = asked[d]
      /\ \A p \in P!Procs \ {c} : pc'[p] = pc[p] /\ (P!InCall(p)' <=> P!InCall(p))
      /\ P!InCall(c)' <=> mode = "ask"
      /\ UNCHANGED <<slots, job>>
      /\ queue' = Append(queue, [msg |-> [from |-> c, n |-> asked[c] + 1, mode |-> mode],
                                 idx |-> tail])
  BY <1>0, P!SendStep
<1>. QED  BY <1>1, <1>2, <1>3, <1>4, <1>5, Identities

LEMMA Kept ==
  ASSUME SysIInv, P!Next, NEW r \in Asks, NEW i \in 0 .. N - 1, P!Carried(r, i)',
         asked'[r.from] = asked[r.from]
  PROVE  P!Carried(r, i)
<1>1. \/ P!Carried(r, i)
      \/ \E c \in Clients : P!Send(c, "ask") /\ r.from = c
  BY Parts, P!CarriedStep, Identities DEF Asks
<1>2. ASSUME NEW c \in Clients, P!Send(c, "ask"), r.from = c PROVE FALSE
  <2>1. asked'[c] = asked[c] + 1 /\ asked[c] \in Nat
    BY <1>2, Sent
  <2>. QED  BY <1>2, <2>1
<1>. QED  BY <1>1, <1>2

LEMMA NothingMeans ==
  ASSUME SysIInv, NEW c \in Clients, P!Nothing(c)
  PROVE  /\ \A t \in Threads : P!InCall(t) => job[t].from # c
         /\ \A t \in Threads : phase[t] \in {"work", "create", "fill"} => job[t].from # c
         /\ \A i \in 0 .. N - 1 : slots[i].ready => slots[i].answer.from # c
         /\ Served(c) => stage[c] = "open"
<1>1. \A t \in Threads : P!InCall(t) => job[t].from # c
  BY Employed
<1>2. \A t \in Threads : phase[t] \in {"work", "create", "fill"} => job[t].from # c
  BY <1>1, Ordered
<1>3. \A i \in 0 .. N - 1 : slots[i].ready => slots[i].answer.from # c
  BY Answered
<1>. QED  BY <1>1, <1>2, <1>3 DEF Served

\* A request is on its way, so its client is in none of the other places.
LEMMA AppendedLine ==
  ASSUME SysIInv, NEW e, queue' = Append(queue, e), NEW r
  PROVE  /\ e.msg # r => InLine(r)' = InLine(r)
         /\ e.msg = r => InLine(r)' = InLine(r) \cup {Len(queue) + 1}
         /\ \A j \in DOMAIN queue' : queue'[j] = e \/ (j \in DOMAIN queue /\ queue'[j] = queue[j])
<1>. DEFINE E == [msg : P!Request \cup {P!Exit}, idx : P!Slots]
<1>1. queue \in Seq(E)
  BY Parts, P!Types
<1>. HIDE DEF E
<1>2. /\ Len(queue) \in Nat /\ DOMAIN queue = 1 .. Len(queue)
      /\ DOMAIN queue' = 1 .. Len(queue) + 1
      /\ \A j \in 1 .. Len(queue) : queue'[j] = queue[j]
      /\ queue'[Len(queue) + 1] = e
  BY <1>1
<1>3. /\ e.msg # r => InLine(r)' = InLine(r)
      /\ e.msg = r => InLine(r)' = InLine(r) \cup {Len(queue) + 1}
  BY <1>2 DEF InLine
<1>. QED  BY <1>2, <1>3

LEMMA AskStep == ASSUME SysIInv, NEW c \in Clients, Ask(c) PROVE Rest'
<1>. DEFINE r == [from |-> c, n |-> asked[c] + 1, mode |-> "ask"]
            e == [msg |-> r, idx |-> tail]
<1>0. /\ OnlyRequests /\ Phases /\ Scripted /\ ClosesLate /\ ClosesOnce
      /\ OwnBucket /\ FirstHolds /\ P!MailboxAssumption /\ P!TypeOK
  BY Parts DEF SysIInv
<1>1. /\ P!Send(c, "ask") /\ stage[c] = "command" /\ todo[c] # << >>
      /\ UNCHANGED <<chain, adding, result, todo, stage, heard, phase, reply, segment, up>>
  BY BoxSteps DEF Ask, vars, clientVars, serverVars
<1>2. P!Next /\ P!Nothing(c)
  BY <1>1, Sent
<1>3. /\ asked'[c] = asked[c] + 1 /\ \A d \in Clients \ {c} : asked'[d] = asked[d]
      /\ \A t \in Threads : pc'[t] = pc[t]
      /\ UNCHANGED <<slots, job>> /\ queue' = Append(queue, e)
      /\ \A d \in Clients : asked[d] \in Nat
  BY <1>1, Sent
<1>5. r \in Asks /\ r.from = c
  BY <1>1, Sent DEF Asks, P!Ask
<1>6. /\ \A q \in Closes : InLine(q)' = InLine(q)
      /\ \A j \in DOMAIN queue' : queue'[j].msg = r \/
            (j \in DOMAIN queue /\ queue'[j] = queue[j])
  <2>1. e.msg = r
    OBVIOUS
  <2>2. \A q \in Closes : r # q
    BY <1>5, RequestTypes
  <2>. QED  BY <1>3, <2>1, <2>2, AppendedLine
<1>. HIDE DEF r, e
<1>7. \A t \in Threads : P!InCall(t)' <=> P!InCall(t)
  BY <1>3 DEF P!InCall
<1>8. \A d \in Clients \ {c} : P!Nothing(d) => P!Nothing(d)'
  BY <1>2, <1>3, Kept, RequestTypes, Rigid DEF P!Nothing, Asks, P!Slots
<1>9. OnlyRequests'
  BY <1>0, <1>5, <1>6, Rigid DEF OnlyRequests
<1>10. Phases'
  BY <1>0, <1>1, <1>3, Rigid DEF Phases, Order, Owner
<1>11. Scripted'
  <2>1. ASSUME NEW q \in Asks, NEW i \in 0 .. N - 1, P!Carried(q, i)'
        PROVE  todo'[q.from] # << >>
    <3>1. CASE q.from = c
      BY <1>1, <3>1
    <3>2. CASE q.from # c
      BY <1>0, <1>1, <1>2, <1>3, <2>1, <3>2, Kept, RequestTypes DEF Scripted
    <3>. QED  BY <3>1, <3>2
  <2>2. ASSUME NEW d \in Clients, stage'[d] # "command"
        PROVE  todo'[d] # << >> /\ asked'[d] > 0 /\ P!Nothing(d)'
    BY <1>0, <1>1, <1>3, <1>8, <2>2 DEF Scripted
  <2>. QED  BY <2>1, <2>2, Rigid DEF Scripted
<1>12. /\ \A q \in Closes : (InHand(q)' = InHand(q)) /\ (Closing(q)' <=> Closing(q))
       /\ \A d \in Clients \ {c} : Busy(d)' => Busy(d)
  BY <1>1, <1>3, <1>6, <1>8 DEF InHand, Closing, Busy
<1>13. ClosesLate'
  <2>. SUFFICES ASSUME NEW q \in Closes, Closing(q)'
                PROVE  /\ q.n > 1 /\ q.n <= asked'[q.from]
                       /\ Busy(q.from)' => q.n < asked'[q.from]
    BY Rigid DEF ClosesLate
  <2>1. /\ q.n > 1 /\ q.n <= asked[q.from] /\ (Busy(q.from) => q.n < asked[q.from])
        /\ q.from \in Clients /\ q.n \in Nat
    BY <1>0, <1>12, RequestTypes, SystemAssumption DEF ClosesLate
  <2>. QED  BY <1>3, <1>12, <2>1
<1>14. ClosesOnce'
  BY <1>0, <1>6, <1>12, Rigid DEF ClosesOnce
<1>15. /\ ~Served(c)' /\ \A t \in Threads : phase'[t] = "fill" => job'[t].from # c
       /\ \A d \in Clients \ {c} : Served(d)' => Served(d)
  BY <1>1, <1>2, <1>3, <1>7, NothingMeans, Rigid DEF Served
<1>16. OwnBucket'
  BY <1>0, <1>1, <1>3, <1>15 DEF OwnBucket
<1>17. \A d \in Clients : ReadsTwice(d) => ReadsTwice(d)'
  BY <1>3 DEF ReadsTwice
<1>18. FirstHolds'
  <2>1. ASSUME NEW d \in Clients, Holds(d)', ~ReadsTwice(d)' PROVE segment'[d] # NoSegment
    <3>1. CASE d # c
      <4>1. Holds(d)
        BY <1>1, <1>3, <1>12, <1>15, <2>1, <3>1, Rigid DEF Holds
      <4>. QED  BY <1>0, <1>1, <1>17, <2>1, <4>1 DEF FirstHolds
    <3>2. CASE d = c
      <4>1. PICK q \in Closes : q.from = c /\ Closing(q)
        BY <1>1, <1>12, <1>15, <2>1, <3>2, Rigid DEF Holds
      <4>2. q.n > 1 /\ q.n <= asked[c] /\ q.n \in Nat
        BY <1>0, <4>1, RequestTypes, SystemAssumption DEF ClosesLate
      <4>. QED  BY <1>3, <2>1, <3>2, <4>2 DEF ReadsTwice
    <3>. QED  BY <3>1, <3>2
  <2>2. ~up' => \E d \in Clients : ReadsTwice(d)'
    BY <1>0, <1>1, <1>17 DEF FirstHolds
  <2>. QED  BY <2>1, <2>2 DEF FirstHolds
<1>. QED  BY <1>9, <1>10, <1>11, <1>13, <1>14, <1>16, <1>18 DEF Rest

LEMMA CloseStep == ASSUME SysIInv, NEW c \in Clients, Close(c) PROVE Rest'
<1>. PICK r : r = [from |-> c, n |-> asked[c] + 1, mode |-> "close"]
  OBVIOUS
<1>. DEFINE e == [msg |-> r, idx |-> tail]
<1>0. /\ OnlyRequests /\ Phases /\ Scripted /\ ClosesLate /\ ClosesOnce
      /\ OwnBucket /\ FirstHolds
  BY DEF SysIInv
<1>1. /\ P!Send(c, "close") /\ stage[c] = "close" /\ asked[c] > 0
      /\ stage'[c] = "command"
      /\ \A d \in Clients \ {c} : stage'[d] = stage[d] /\ todo'[d] = todo[d]
      /\ UNCHANGED <<chain, adding, result, heard, phase, reply, segment, up>>
  BY <1>0, Parts, BoxSteps DEF Close, vars, serverVars, SystemTypeOK, Scripted
<1>2. P!Next /\ P!Nothing(c)
  BY <1>1, Sent
<1>3. /\ asked'[c] = asked[c] + 1 /\ \A d \in Clients \ {c} : asked'[d] = asked[d]
      /\ \A t \in Threads : pc'[t] = pc[t]
      /\ UNCHANGED <<slots, job>> /\ queue' = Append(queue, e)
      /\ \A d \in Clients : asked[d] \in Nat
  BY <1>1, Sent
<1>4. /\ r \in Closes /\ r.from = c /\ r.n = asked[c] + 1 /\ r.n > 1
      /\ \A q \in Closes : q.from = c /\ q.n = r.n => q = r
  <2>1. r \in Closes
    BY <1>1, Sent DEF Closes
  <2>2. r.from = c /\ r.n = asked[c] + 1 /\ r.n > 1
    BY <1>1, <1>3
  <2>3. ASSUME NEW q \in Closes, q.from = c, q.n = r.n PROVE q = r
    <3>1. q = [from |-> q.from, n |-> q.n, mode |-> "close"]
      BY RequestTypes
    <3>. QED  BY <2>2, <2>3, <3>1
  <2>. QED  BY <2>1, <2>2, <2>3
<1>5. /\ \A q \in Closes : q # r => InLine(q)' = InLine(q)
      /\ InLine(r)' = InLine(r) \cup {Len(queue) + 1}
      /\ \A j \in DOMAIN queue' : queue'[j].msg = r \/
            (j \in DOMAIN queue /\ queue'[j] = queue[j])
  <2>1. e.msg = r
    OBVIOUS
  <2>. HIDE DEF e
  <2>2. InLine(r)' = InLine(r) \cup {Len(queue) + 1}
    BY <1>3, <2>1, AppendedLine
  <2>4. ASSUME NEW q \in Closes, q # r PROVE InLine(q)' = InLine(q)
    BY <1>3, <2>1, <2>4, AppendedLine
  <2>3. \A j \in DOMAIN queue' : queue'[j] = e \/ (j \in DOMAIN queue /\ queue'[j] = queue[j])
    BY <1>3, AppendedLine
  <2>. QED  BY <2>1, <2>2, <2>3, <2>4
<1>6. InLine(r) = {} /\ InHand(r) = {}
  BY <1>0, <1>3, <1>4 DEF ClosesLate, Closing
<1>. HIDE DEF e
<1>7. \A t \in Threads : P!InCall(t)' <=> P!InCall(t)
  BY <1>3 DEF P!InCall
\* An ask and a close are not sent in one step.
<1>8. ASSUME NEW q \in Asks, NEW i \in 0 .. N - 1, P!Carried(q, i)' PROVE P!Carried(q, i)
  <2>1. \/ P!Carried(q, i)
        \/ \E d \in Clients : P!Send(d, "ask")
    BY <1>2, <1>8, Parts, P!CarriedStep, Identities DEF Asks
  <2>2. ASSUME NEW d \in Clients, P!Send(d, "ask") PROVE FALSE
    <3>1. asked'[d] = asked[d] + 1 /\ (P!InCall(d)' <=> TRUE)
      BY <2>2, Sent
    <3>2. d = c
      BY <1>3, <3>1
    <3>3. ~P!InCall(c)'
      BY <1>1, Sent
    <3>. QED  BY <3>1, <3>2, <3>3
  <2>. QED  BY <2>1, <2>2
<1>9. \A d \in Clients : P!Nothing(d) => P!Nothing(d)'
  BY <1>8, Identities, Rigid DEF P!Nothing, Asks, P!Slots
<1>10. OnlyRequests'
  BY <1>0, <1>4, <1>5, Rigid DEF OnlyRequests
<1>11. Phases'
  <2>1. \A t \in Threads : adding[t] # NoKey => Owner(t)' = Owner(t) /\ Owner(t) \in Clients \ {c}
    BY <1>0, <1>2, <1>3, NothingMeans, Ordered DEF Owner, Phases
  <2>2. \A t \in Threads : adding[t] # NoKey => Order(t)' = Order(t)
    BY <1>1, <2>1 DEF Order
  <2>. QED  BY <1>0, <1>1, <1>3, <2>2, Rigid DEF Phases
<1>12. Scripted'
  <2>1. ASSUME NEW q \in Asks, NEW i \in 0 .. N - 1, P!Carried(q, i)'
        PROVE  todo'[q.from] # << >>
    <3>1. P!Carried(q, i) /\ q.from # c
      BY <1>2, <1>8, <2>1, Identities DEF P!Nothing, Asks
    <3>. QED  BY <1>0, <1>1, <3>1, RequestTypes DEF Scripted
  <2>2. ASSUME NEW d \in Clients, stage'[d] # "command"
        PROVE  todo'[d] # << >> /\ asked'[d] > 0 /\ P!Nothing(d)'
    BY <1>0, <1>1, <1>3, <1>9, <2>2 DEF Scripted
  <2>. QED  BY <2>1, <2>2, Rigid DEF Scripted
<1>13. /\ \A q \in Closes : InHand(q)' = InHand(q)
       /\ \A q \in Closes : q # r => (Closing(q)' <=> Closing(q))
       /\ \A d \in Clients \ {c} : Busy(d)' => Busy(d)
       /\ ~Busy(c)'
  BY <1>1, <1>2, <1>3, <1>5, <1>9 DEF InHand, Closing, Busy
<1>14. ClosesLate'
  <2>. SUFFICES ASSUME NEW q \in Closes, Closing(q)'
                PROVE  /\ q.n > 1 /\ q.n <= asked'[q.from]
                       /\ Busy(q.from)' => q.n < asked'[q.from]
    BY Rigid DEF ClosesLate
  <2>1. CASE q = r
    BY <1>3, <1>4, <1>13, <2>1
  <2>2. CASE q # r
    <3>1. /\ q.n > 1 /\ q.n <= asked[q.from] /\ (Busy(q.from) => q.n < asked[q.from])
          /\ q.from \in Clients /\ q.n \in Nat
      BY <1>0, <1>13, <2>2, RequestTypes, SystemAssumption DEF ClosesLate
    <3>. QED  BY <1>3, <1>13, <3>1
  <2>. QED  BY <2>1, <2>2
<1>15. ClosesOnce'
  <2>. SUFFICES ASSUME NEW q \in Closes
                PROVE  /\ \A j, k \in InLine(q)' : j = k
                       /\ \A t, u \in InHand(q)' : t = u
                       /\ InLine(q)' = {} \/ InHand(q)' = {}
    BY Rigid DEF ClosesOnce
  <2>1. CASE q = r
    <3>1. InLine(r)' = {Len(queue) + 1} /\ InHand(r)' = {}
      BY <1>4, <1>5, <1>6, <1>13
    <3>2. InLine(q)' = InLine(r)' /\ InHand(q)' = InHand(r)'
      BY <2>1 DEF InLine, InHand
    <3>. QED  BY <3>1, <3>2
  <2>2. CASE q # r
    BY <1>0, <1>5, <1>13, <2>2 DEF ClosesOnce
  <2>. QED  BY <2>1, <2>2
<1>16. ~Served(c)' /\ \A d \in Clients \ {c} : Served(d)' => Served(d)
  BY <1>1, <1>2, <1>3, <1>7, NothingMeans, Rigid DEF Served
<1>17. OwnBucket'
  BY <1>0, <1>1, <1>3, <1>16 DEF OwnBucket
<1>18. \A d \in Clients : ReadsTwice(d) => ReadsTwice(d)'
  BY <1>3 DEF ReadsTwice
<1>19. FirstHolds'
  <2>1. ASSUME NEW d \in Clients, Holds(d)' PROVE Holds(d)
    <3>1. CASE d # c
      BY <1>1, <1>3, <1>4, <1>13, <1>16, <2>1, <3>1, Rigid DEF Holds
    <3>2. CASE d = c
      BY <1>1, <3>2 DEF Holds
    <3>. QED  BY <3>1, <3>2
  <2>. QED  BY <1>0, <1>1, <1>18, <2>1 DEF FirstHolds
<1>. QED  BY <1>10, <1>11, <1>12, <1>14, <1>15, <1>17, <1>19 DEF Rest

LEMMA HearStep == ASSUME SysIInv, NEW c \in Clients, Hear(c), P!IInv' PROVE Rest'
<1>0. /\ OnlyRequests /\ Phases /\ Scripted /\ ClosesLate /\ ClosesOnce
      /\ OwnBucket /\ FirstHolds
  BY DEF SysIInv
<1>1. /\ P!Take(c)
      /\ \A d \in Clients \ {c} : stage'[d] = stage[d] /\ todo'[d] = todo[d]
      /\ \/ stage'[c] = "open" /\ todo'[c] = todo[c] /\ reply[at[c]] = Copied
         \/ stage'[c] = stage[c]
      /\ reply' = [reply EXCEPT ![at[c]] = Missing]
      /\ UNCHANGED <<chain, adding, result, phase, segment, up>>
  BY Parts, BoxSteps DEF Hear, vars, SystemTypeOK
<1>2. /\ P!Next /\ pc'[c] = "idle" /\ at[c] \in 0 .. N - 1
      /\ slots[at[c]].ready /\ slots[at[c]].answer = P!Open(c) /\ P!Open(c).from = c
      /\ slots' = [slots EXCEPT ![at[c]] = P!FreeSlot]
      /\ UNCHANGED <<queue, at, job, asked>>
      /\ \A t \in Threads : /\ P!InCall(t)' <=> P!InCall(t)
                            /\ pc[t] # "asleep" => pc'[t] = pc[t]
  BY <1>1, Parts, P!TakeStep, Identities DEF P!Next, P!Waiting, P!Open
<1>3. /\ stage[c] = "command" /\ todo[c] # << >> /\ asked[c] > 0
      /\ slots[at[c]].answer \in Asks /\ ~P!Nothing(c)
  <2>1. slots[at[c]].answer \in Asks /\ ~P!Nothing(c)
    BY <1>2, Answered
  <2>2. P!Carried(slots[at[c]].answer, at[c])
    BY <1>2 DEF P!Carried
  <2>3. P!Open(c).n \in 1 .. MaxRequests
    BY <1>2, <2>1, RequestTypes
  <2>. QED  BY <1>0, <1>2, <2>1, <2>2, <2>3, SystemAssumption DEF Scripted, P!Open
<1>4. P!Nothing(c)'
  <2>1. P!AllDue' => (pc'[c] = "idle" => P!Nothing(c)')
    BY DEF P!AllDue, P!Due, P!Nothing, P!InCall, P!Dead
  <2>. QED  BY <1>2, <2>1 DEF P!IInv
<1>5. \A q \in Asks : \A i \in 0 .. N - 1 : P!Carried(q, i)' => P!Carried(q, i) /\ q.from # c
  <2>. SUFFICES ASSUME NEW q \in Asks, NEW i \in 0 .. N - 1, P!Carried(q, i)'
                PROVE  P!Carried(q, i) /\ q.from # c
    OBVIOUS
  <2>1. q.from # c
    BY <1>4, Identities, Rigid DEF P!Nothing, Asks, P!Slots
  <2>. QED  BY <1>2, <2>1, Kept
<1>6. \A d \in Clients : P!Nothing(d) => P!Nothing(d)'
  BY <1>5, Identities, Rigid DEF P!Nothing, Asks, P!Slots
<1>7. OnlyRequests'
  BY <1>0, <1>2, Rigid DEF OnlyRequests
<1>8. Phases'
  <2>1. \A t \in Threads : adding[t] # NoKey => Owner(t)' = Owner(t) /\ Owner(t) \in Clients \ {c}
    <3>. SUFFICES ASSUME NEW t \in Threads, adding[t] # NoKey
                  PROVE  Owner(t)' = Owner(t) /\ Owner(t) \in Clients \ {c}
      OBVIOUS
    <3>1. P!InCall(t) /\ Owner(t) \in Clients
      BY <1>0, Ordered DEF Phases
    <3>2. job[t].from # c
      BY <1>2, <3>1, Employed
    <3>. QED  BY <1>2, <3>1, <3>2 DEF Owner
  <2>2. \A t \in Threads : adding[t] # NoKey => Order(t)' = Order(t)
    BY <1>1, <2>1 DEF Order
  <2>. QED  BY <1>0, <1>1, <1>2, <2>2, Rigid DEF Phases
<1>9. Scripted'
  <2>1. ASSUME NEW q \in Asks, NEW i \in 0 .. N - 1, P!Carried(q, i)'
        PROVE  todo'[q.from] # << >>
    BY <1>0, <1>1, <1>5, <2>1, RequestTypes DEF Scripted
  <2>2. ASSUME NEW d \in Clients, stage'[d] # "command"
        PROVE  todo'[d] # << >> /\ asked'[d] > 0 /\ P!Nothing(d)'
    BY <1>0, <1>1, <1>2, <1>3, <1>4, <1>6, <2>2 DEF Scripted
  <2>. QED  BY <2>1, <2>2, Rigid DEF Scripted
<1>10. /\ \A q \in Closes : /\ InHand(q)' = InHand(q) /\ InLine(q)' = InLine(q)
                            /\ Closing(q)' <=> Closing(q)
       /\ \A d \in Clients : Busy(d)' => Busy(d)
  BY <1>1, <1>2, <1>3, <1>6 DEF InHand, InLine, Closing, Busy
<1>11. ClosesLate' /\ ClosesOnce'
  BY <1>0, <1>2, <1>10, RequestTypes, Rigid DEF ClosesLate, ClosesOnce
<1>12. ASSUME NEW d \in Clients, Served(d)' PROVE Served(d)
  <2>1. ASSUME NEW i \in 0 .. N - 1, slots'[i].ready, slots'[i].answer.from = d,
               reply'[i] = Copied
        PROVE  slots[i].ready /\ slots[i].answer.from = d /\ reply[i] = Copied
    <3>1. i # at[c]
      BY <1>2, <2>1, Parts, P!Types, Identities DEF P!FreeSlot
    <3>. QED  BY <1>1, <1>2, <2>1, <3>1, Parts, P!Types, Identities DEF SystemTypeOK
  <2>2. CASE stage'[d] = "open"
    BY <1>1, <1>2, <2>2 DEF Served
  <2>. QED  BY <1>1, <1>2, <1>12, <2>1, <2>2, Rigid DEF Served
<1>13. ASSUME NEW d \in Clients, Holds(d)' PROVE Holds(d)
  BY <1>1, <1>2, <1>3, <1>10, <1>12, <1>13, Rigid DEF Holds
<1>14. OwnBucket' /\ FirstHolds'
  BY <1>0, <1>1, <1>2, <1>12, <1>13 DEF OwnBucket, FirstHolds, ReadsTwice
<1>. QED  BY <1>7, <1>8, <1>9, <1>11, <1>14 DEF Rest

LEMMA ReadStep == ASSUME SysIInv, NEW c \in Clients, ReadSegment(c) PROVE Rest'
<1>0. /\ OnlyRequests /\ Phases /\ Scripted /\ ClosesLate /\ ClosesOnce
      /\ OwnBucket /\ FirstHolds
  BY DEF SysIInv
<1>1. /\ stage[c] = "open" /\ stage' = [stage EXCEPT ![c] = "close"]
      /\ stage \in [Clients -> {"command", "open", "close"}]
      /\ UNCHANGED <<queue, slots, pc, at, job, asked>>
      /\ UNCHANGED <<chain, adding, result, todo, phase, reply, segment, up>>
  BY Parts DEF ReadSegment, vars, boxVars, serverVars, SystemTypeOK
<1>2. /\ \A t \in Threads : P!InCall(t)' <=> P!InCall(t)
      /\ \A q, i : P!Carried(q, i)' <=> P!Carried(q, i)
      /\ \A d : P!Nothing(d)' <=> P!Nothing(d)
      /\ \A q : InLine(q)' = InLine(q)
  <2>1. \A t \in Threads : P!InCall(t)' <=> P!InCall(t)
    BY <1>1 DEF P!InCall
  <2>. QED  BY <1>1, <2>1, Unmoved
<1>3. OnlyRequests' /\ Phases'
  BY <1>0, <1>1, Rigid DEF OnlyRequests, Phases, Order, Owner
<1>4. Scripted'
  BY <1>0, <1>1, <1>2, Rigid DEF Scripted
<1>5. /\ \A q : (InHand(q)' = InHand(q)) /\ (Closing(q)' <=> Closing(q))
      /\ \A d \in Clients : Busy(d)' <=> Busy(d)
  BY <1>1, <1>2 DEF InHand, Closing, Busy
<1>6. ClosesLate' /\ ClosesOnce'
  BY <1>0, <1>1, <1>2, <1>5, RequestTypes, Rigid DEF ClosesLate, ClosesOnce
<1>7. \A d \in Clients : Served(d)' => Served(d)
  BY <1>1, <1>2, Rigid DEF Served
<1>8. \A d \in Clients : Holds(d)' => Holds(d)
  <2>1. Served(c)
    BY <1>1 DEF Served
  <2>. QED  BY <1>1, <1>5, <1>7, <2>1, Rigid DEF Holds
<1>9. OwnBucket' /\ FirstHolds'
  BY <1>0, <1>1, <1>7, <1>8 DEF OwnBucket, FirstHolds, ReadsTwice
<1>. QED  BY <1>3, <1>4, <1>6, <1>9 DEF Rest

LEMMA FetchStep == ASSUME SysIInv, NEW t \in Threads, Fetch(t) PROVE Rest'
<1>. PICK m : m = queue[1].msg
  OBVIOUS
<1>0. /\ OnlyRequests /\ Phases /\ Scripted /\ ClosesLate /\ ClosesOnce
      /\ OwnBucket /\ FirstHolds
  BY DEF SysIInv
<1>1. /\ P!PopHead(t) /\ phase[t] = "done"
      /\ phase' = [phase EXCEPT ![t] = IF Head(queue).msg.mode = "close" THEN "unlink"
                                       ELSE "work"]
      /\ UNCHANGED <<chain, adding, result, todo, stage, heard, reply, segment, up>>
  BY BoxSteps DEF Fetch, Enter, vars, clientVars
<1>2. /\ P!Next /\ queue # << >> /\ job'[t] = m
      /\ \A u \in Threads \ {t} : /\ job'[u] = job[u] /\ pc'[u] = pc[u]
                                  /\ P!InCall(u)' <=> P!InCall(u)
      /\ UNCHANGED <<slots, asked>> /\ queue' = Tail(queue)
      /\ pc'[t] = P!AfterPop[m.mode]
  BY <1>1, Parts, P!PopStep, Identities DEF P!Next, P!Serving
<1>3. /\ Head(queue) = queue[1] /\ 1 \in DOMAIN queue
      /\ \A j \in DOMAIN queue' : queue'[j] = queue[j + 1] /\ j + 1 \in DOMAIN queue /\ j \in Nat
      /\ \A j \in DOMAIN queue' : j # 0
  <2>. DEFINE E == [msg : P!Request \cup {P!Exit}, idx : P!Slots]
  <2>1. queue \in Seq(E)
    BY Parts, P!Types
  <2>. HIDE DEF E
  <2>. QED  BY <1>2, <2>1
<1>4. /\ m \in Asks \cup Closes
      /\ m \in Asks => phase'[t] = "work" /\ pc'[t] = "lock" /\ m \notin Closes
      /\ m \in Closes => phase'[t] = "unlink" /\ pc'[t] = "idle"
      /\ \A u \in Threads \ {t} : phase'[u] = phase[u]
  <2>1. m \in Asks \cup Closes
    BY <1>0, <1>3 DEF OnlyRequests
  <2>. QED  BY <1>1, <1>2, <1>3, <2>1, RequestTypes, Parts DEF SystemTypeOK, P!AfterPop
<1>5. \A q \in Asks : \A i \in 0 .. N - 1 : P!Carried(q, i)' => P!Carried(q, i)
  BY <1>2, Kept
<1>6. \A d \in Clients : P!Nothing(d) => P!Nothing(d)'
  BY <1>5, Identities, Rigid DEF P!Nothing, Asks, P!Slots
<1>7. OnlyRequests'
  BY <1>0, <1>3, Rigid DEF OnlyRequests
<1>8. Phases'
  <2>1. \A u \in Threads : adding[u] # NoKey => u # t /\ Order(u)' = Order(u)
    BY <1>0, <1>1, <1>2 DEF Phases, Order, Owner
  <2>. QED  BY <1>0, <1>1, <1>2, <1>4, <2>1, Rigid DEF Phases
<1>9. Scripted'
  BY <1>0, <1>1, <1>2, <1>5, <1>6, Rigid DEF Scripted
<1>10. /\ \A q \in Closes : \A j \in InLine(q)' : j + 1 \in InLine(q)
       /\ \A q \in Closes : \A j \in InLine(q)' : j \in Nat /\ j # 0
       /\ \A q \in Closes : q # m => InHand(q)' = InHand(q)
       /\ \A q \in Closes : q = m => InHand(q)' = InHand(q) \cup {t} /\ 1 \in InLine(q)
  BY <1>1, <1>2, <1>3, <1>4 DEF InLine, InHand
<1>11. \A q \in Closes : Closing(q)' => Closing(q)
  BY <1>10 DEF Closing
<1>12. \A d \in Clients : Busy(d)' => Busy(d)
  BY <1>1, <1>6 DEF Busy
<1>13. ClosesLate'
  BY <1>0, <1>2, <1>11, <1>12, RequestTypes, Rigid DEF ClosesLate
<1>14. ClosesOnce'
  <2>. SUFFICES ASSUME NEW q \in Closes
                PROVE  /\ \A j, k \in InLine(q)' : j = k
                       /\ \A u, v \in InHand(q)' : u = v
                       /\ InLine(q)' = {} \/ InHand(q)' = {}
    BY Rigid DEF ClosesOnce
  <2>1. ASSUME NEW j \in InLine(q)', NEW k \in InLine(q)' PROVE j = k
    BY <1>0, <1>10, <2>1 DEF ClosesOnce
  <2>2. CASE q = m
    <3>1. InHand(q) = {} /\ 1 \in InLine(q)
      BY <1>0, <1>10, <2>2 DEF ClosesOnce
    <3>2. ASSUME NEW j \in InLine(q)' PROVE FALSE
      <4>1. j + 1 = 1 /\ j \in Nat /\ j # 0
        BY <1>0, <1>10, <3>1, <3>2 DEF ClosesOnce
      <4>. QED  BY <4>1
    <3>. QED  BY <1>10, <2>2, <3>1, <3>2
  <2>3. CASE q # m
    BY <1>0, <1>10, <2>1, <2>3 DEF ClosesOnce
  <2>. QED  BY <2>2, <2>3
<1>15. \A d \in Clients : Served(d)' => Served(d)
  BY <1>1, <1>2, <1>4, Rigid DEF Served
<1>16. \A d \in Clients : Holds(d)' => Holds(d)
  BY <1>1, <1>2, <1>4, <1>11, <1>15, Rigid DEF Holds
<1>17. OwnBucket' /\ FirstHolds'
  BY <1>0, <1>1, <1>2, <1>15, <1>16 DEF OwnBucket, FirstHolds, ReadsTwice
<1>. QED  BY <1>7, <1>8, <1>9, <1>13, <1>14, <1>17 DEF Rest

LEMMA RespondStep == ASSUME SysIInv, NEW t \in Threads, Respond(t) PROVE Rest'
<1>0. /\ OnlyRequests /\ Phases /\ Scripted /\ ClosesLate /\ ClosesOnce
      /\ OwnBucket /\ FirstHolds
  BY DEF SysIInv
<1>1. /\ P!Answer(t) /\ pc[t] = "held"
      /\ reply' = [reply EXCEPT ![at[t]] = result[t]]
      /\ result' = [result EXCEPT ![t] = Missing]
      /\ UNCHANGED <<chain, adding, todo, stage, heard, phase, segment, up>>
  BY BoxSteps DEF Respond, clientVars, P!Answer
<1>2. /\ P!Next /\ P!InCall(t) /\ ~P!InCall(t)' /\ at[t] \in 0 .. N - 1
      /\ slots[at[t]] = P!FreeSlot
      /\ slots' = [slots EXCEPT ![at[t]] = [ready |-> TRUE, client |-> job[t].from,
                                            answer |-> job[t]]]
      /\ UNCHANGED <<queue, at, job, asked>>
      /\ \A u \in Threads \ {t} : /\ P!InCall(u)' <=> P!InCall(u)
                                  /\ pc[u] # "asleep" => pc'[u] = pc[u]
  BY <1>1, Parts, P!AnswerStep, Identities DEF P!Next, P!Serving, P!InCall
<1>3. phase[t] = "done"
  BY <1>0, <1>1, Parts DEF Phases, SystemTypeOK
<1>4. \A q \in Asks : \A i \in 0 .. N - 1 : P!Carried(q, i)' => P!Carried(q, i)
  BY <1>2, Kept
<1>5. \A d \in Clients : P!Nothing(d) => P!Nothing(d)'
  BY <1>4, Identities, Rigid DEF P!Nothing, Asks, P!Slots
<1>6. OnlyRequests'
  BY <1>0, <1>2, Rigid DEF OnlyRequests
<1>7. Phases'
  BY <1>0, <1>1, <1>2, <1>3, Rigid DEF Phases, Order, Owner
<1>8. Scripted'
  BY <1>0, <1>1, <1>2, <1>4, <1>5, Rigid DEF Scripted
<1>9. /\ \A q \in Closes : /\ InHand(q)' = InHand(q) /\ InLine(q)' = InLine(q)
                           /\ Closing(q)' <=> Closing(q)
      /\ \A d \in Clients : Busy(d)' => Busy(d)
  BY <1>1, <1>2, <1>5 DEF InHand, InLine, Closing, Busy
<1>10. ClosesLate' /\ ClosesOnce'
  BY <1>0, <1>2, <1>9, RequestTypes, Rigid DEF ClosesLate, ClosesOnce
<1>11. ASSUME NEW d \in Clients, Served(d)' PROVE Served(d)
  <2>1. CASE stage'[d] = "open"
    BY <1>1, <2>1 DEF Served
  <2>2. ASSUME NEW u \in Threads, P!InCall(u)', job'[u].from = d, phase'[u] = "done",
               result'[u] = Copied
        PROVE  Served(d)
    BY <1>1, <1>2, <2>2, Parts DEF Served, TypeOK
  <2>3. ASSUME NEW i \in 0 .. N - 1, slots'[i].ready, slots'[i].answer.from = d,
               reply'[i] = Copied
        PROVE  Served(d)
    <3>1. CASE i = at[t]
      <4>1. job[t].from = d /\ result[t] = Copied
        BY <1>1, <1>2, <2>3, <3>1, Parts, P!Types, Identities DEF SystemTypeOK
      <4>. QED  BY <1>2, <1>3, <4>1 DEF Served
    <3>2. CASE i # at[t]
      <4>1. slots[i].ready /\ slots[i].answer.from = d /\ reply[i] = Copied
        BY <1>1, <1>2, <2>3, <3>2, Parts, P!Types, Identities DEF SystemTypeOK
      <4>. QED  BY <4>1 DEF Served
    <3>. QED  BY <3>1, <3>2
  <2>. QED  BY <1>11, <2>1, <2>2, <2>3, Rigid DEF Served
<1>12. \A d \in Clients : Holds(d)' => Holds(d)
  BY <1>1, <1>2, <1>9, <1>11, Rigid DEF Holds
<1>13. OwnBucket' /\ FirstHolds'
  BY <1>0, <1>1, <1>2, <1>11, <1>12 DEF OwnBucket, FirstHolds, ReadsTwice
<1>. QED  BY <1>6, <1>7, <1>8, <1>10, <1>13 DEF Rest

\* The steps of a thread that executes a request leave the protocol alone.
LEMMA WorkFrame ==
  ASSUME SysIInv, UNCHANGED <<boxVars, clientVars, reply>>
  PROVE  /\ OnlyRequests' /\ Scripted'
         /\ UNCHANGED <<queue, slots, pc, at, job, asked, todo, stage, reply>>
         /\ \A u \in Threads : P!InCall(u)' <=> P!InCall(u)
         /\ \A r : InLine(r)' = InLine(r)
         /\ \A d : Busy(d)' <=> Busy(d)
<1>1. /\ UNCHANGED <<queue, slots, pc, at, job, asked, todo, stage, reply>>
      /\ \A u \in Threads : P!InCall(u)' <=> P!InCall(u)
      /\ OnlyRequests /\ Scripted
  BY DEF SysIInv, boxVars, clientVars, P!InCall
<1>2. /\ \A r, i : P!Carried(r, i)' <=> P!Carried(r, i)
      /\ \A d : P!Nothing(d)' <=> P!Nothing(d)
      /\ \A r : InLine(r)' = InLine(r)
  BY <1>1, Unmoved
<1>3. OnlyRequests' /\ Scripted'
  BY <1>1, <1>2, Rigid DEF OnlyRequests, Scripted
<1>4. \A d : Busy(d)' <=> Busy(d)
  BY <1>1, <1>2 DEF Busy
<1>. QED  BY <1>1, <1>2, <1>3, <1>4

\* GET, INSERT and DELETE, and READ_BUCKET before there is a segment.
LEMMA TableSteps ==
  ASSUME SysIInv, NEW t \in Threads, TableStep(t) \/ RefuseBucket(t) \/ CopyBucket(t)
  PROVE  Rest'
<1>0. /\ Phases /\ ClosesLate /\ ClosesOnce /\ OwnBucket /\ FirstHolds
  BY DEF SysIInv
<1>1. UNCHANGED <<boxVars, clientVars, reply, segment, up>>
  BY <1>0 DEF TableStep, RefuseBucket, CopyBucket
<1>2. /\ OnlyRequests' /\ Scripted'
      /\ UNCHANGED <<queue, slots, pc, at, job, asked, todo, stage, reply>>
      /\ \A u \in Threads : P!InCall(u)' <=> P!InCall(u)
      /\ \A r : InLine(r)' = InLine(r)
      /\ \A d : Busy(d)' <=> Busy(d)
  BY <1>1, WorkFrame
<1>3. /\ phase[t] = "work"
      /\ phase'[t] \in {"work", "done", "create"}
      /\ \A u \in Threads \ {t} : phase'[u] = phase[u]
  BY Parts DEF TableStep, Lookup, Delete, Insert, RefuseBucket, CopyBucket, Enter, SystemTypeOK
<1>4. Order(t).key \in Keys /\ pc[t] = "lock"
  BY <1>3, Ordered
<1>5. \A u \in Threads : Order(u)' = Order(u)
  BY <1>2 DEF Order, Owner
<1>6. /\ \A u \in Threads \ {t} : adding'[u] = adding[u] /\ result'[u] = result[u]
      /\ adding'[t] # NoKey => phase'[t] = "work" /\ Order(t).op = "insert"
      /\ phase'[t] = "done" => result'[t] # Copied
  <2>0. /\ adding \in [Threads -> Keys \cup {NoKey, Added}]
        /\ result \in [Threads -> Values \cup Outcomes]
        /\ phase \in [Threads -> {"done", "work", "create", "fill", "unlink"}]
        /\ (adding[t] # NoKey => Order(t).op = "insert")
    BY <1>0, Parts DEF TypeOK, SystemTypeOK, Phases
  <2>1. ASSUME ~Absent(Order(t).key) PROVE First(Order(t).key) # Copied
    <3>1. chain[Order(t).key] \in Seq(Values) /\ chain[Order(t).key] # << >>
      BY <1>4, <2>1, Parts DEF TypeOK, Absent
    <3>2. Head(chain[Order(t).key]) \in Values
      BY <3>1
    <3>. QED  BY <3>2, SystemAssumption DEF First, Outcomes
  <2>2. CASE Lookup(t)
    BY <2>0, <2>1, <2>2 DEF Lookup, Get, Answers, Enter, Missing, Copied
  <2>3. CASE Delete(t)
    BY <2>0, <2>1, <2>3 DEF Delete, Remove, Answers, Enter
  <2>4. CASE Insert(t)
    <3>1. CASE Enter(t, "work", "work") /\ FindAbsent(t, Order(t).key)
      BY <2>0, <2>4, <3>1 DEF Insert, FindAbsent, Answers, Enter
    <3>2. CASE Enter(t, "work", "work") /\ Add(t, Order(t).key, Order(t).val)
      BY <2>0, <2>4, <3>2 DEF Insert, Add, Enter
    <3>3. CASE Enter(t, "work", "done") /\ Confirm(t)
      BY <2>0, <3>3 DEF Confirm, Answers, Enter, Inserted, Copied
    <3>4. CASE Enter(t, "work", "done") /\ adding[t] = NoKey /\ Refuse(t, Order(t).key)
      BY <2>0, <3>4 DEF Refuse, Answers, Enter, Refused, Copied
    <3>. QED  BY <2>4, <3>1, <3>2, <3>3, <3>4 DEF Insert
  <2>5. CASE RefuseBucket(t)
    BY <2>0, <2>5 DEF RefuseBucket, ReadBucket, Answers, Enter, Missing, Copied
  <2>6. CASE CopyBucket(t)
    BY <2>0, <2>6 DEF CopyBucket, Enter, vars
  <2>. QED  BY <2>2, <2>3, <2>4, <2>5, <2>6 DEF TableStep
<1>7. Phases'
  BY <1>0, <1>2, <1>3, <1>4, <1>5, <1>6, Rigid DEF Phases
<1>8. \A r : (InHand(r)' = InHand(r)) /\ (Closing(r)' <=> Closing(r))
  BY <1>2, <1>3 DEF InHand, Closing
<1>9. ClosesLate' /\ ClosesOnce'
  BY <1>0, <1>2, <1>8, Rigid DEF ClosesLate, ClosesOnce
<1>10. \A d \in Clients : Served(d)' => Served(d)
  BY <1>2, <1>3, <1>6, Rigid DEF Served
<1>11. \A d \in Clients : Holds(d)' => Holds(d)
  BY <1>2, <1>3, <1>8, <1>10, Rigid DEF Holds
<1>12. OwnBucket' /\ FirstHolds'
  BY <1>0, <1>1, <1>2, <1>10, <1>11 DEF OwnBucket, FirstHolds, ReadsTwice
<1>. QED  BY <1>2, <1>7, <1>9, <1>12 DEF Rest

\* READ_BUCKET from the creation of the segment on.
LEMMA SegmentSteps ==
  ASSUME SysIInv, NEW t \in Threads, CreateSegment(t) \/ CreateFails(t) \/ FillSegment(t)
  PROVE  Rest'
<1>. PICK c : c = Owner(t)
  OBVIOUS
<1>0. /\ Phases /\ ClosesLate /\ ClosesOnce /\ OwnBucket /\ FirstHolds
  BY DEF SysIInv
<1>1. UNCHANGED <<boxVars, clientVars, reply, up>>
  BY DEF CreateSegment, CreateFails, FillSegment
<1>2. /\ OnlyRequests' /\ Scripted'
      /\ UNCHANGED <<queue, slots, pc, at, job, asked, todo, stage, reply>>
      /\ \A u \in Threads : P!InCall(u)' <=> P!InCall(u)
      /\ \A r : InLine(r)' = InLine(r)
      /\ \A d : Busy(d)' <=> Busy(d)
  BY <1>1, WorkFrame
<1>3. /\ phase[t] \in {"create", "fill"} /\ phase'[t] \in {"fill", "done"}
      /\ \A u \in Threads \ {t} : phase'[u] = phase[u] /\ result'[u] = result[u]
      /\ UNCHANGED adding
      /\ \A d \in Clients \ {c} : segment'[d] = segment[d]
  BY Parts DEF CreateSegment, CreateFails, FillSegment, Enter, SetSegment, ReadBucket, Answers,
               vars, SystemTypeOK, TypeOK
<1>4. /\ P!InCall(t) /\ job[t] \in Asks /\ c \in Clients /\ job[t].from = c
      /\ job[t].n = asked[c] /\ job[t].n \in 1 .. MaxRequests /\ pc[t] = "lock"
      /\ stage[c] = "command" /\ ~P!Nothing(c)
      /\ \A u \in Threads : P!InCall(u) /\ job[u].from = c => u = t
      /\ \A i \in 0 .. N - 1 : slots[i].ready => slots[i].answer.from # c
  BY <1>3, Ordered, Employed, RequestTypes DEF Owner
<1>5. Phases'
  BY <1>0, <1>2, <1>3, <1>4, Rigid DEF Phases, Order, Owner
<1>6. \A r : (InHand(r)' = InHand(r)) /\ (Closing(r)' <=> Closing(r))
  BY <1>2, <1>3 DEF InHand, Closing
<1>7. ClosesLate' /\ ClosesOnce'
  BY <1>0, <1>2, <1>6, Rigid DEF ClosesLate, ClosesOnce
<1>8. /\ \A d \in Clients \ {c} : Served(d)' => Served(d)
      /\ Served(c)' => phase'[t] = "done" /\ result'[t] = Copied
  BY <1>2, <1>3, <1>4, Rigid DEF Served
<1>9. /\ \A d \in Clients \ {c} : Holds(d)' => Holds(d)
      /\ phase[t] = "fill" => Holds(c)
      /\ Holds(c)' => \/ phase'[t] = "fill" \/ Served(c)'
                      \/ \E r \in Closes : r.from = c /\ Closing(r)
  <2>1. \A u \in Threads : phase[u] = "fill" => P!InCall(u)
    BY <1>0 DEF Phases, P!InCall
  <2>2. \A d \in Clients \ {c} : Holds(d)' => Holds(d)
    BY <1>2, <1>3, <1>4, <1>6, <1>8, Rigid DEF Holds
  <2>3. phase[t] = "fill" => Holds(c)
    BY <1>4 DEF Holds
  <2>4. Holds(c)' => \/ phase'[t] = "fill" \/ Served(c)'
                     \/ \E r \in Closes : r.from = c /\ Closing(r)
    BY <1>2, <1>3, <1>4, <1>6, <2>1, Rigid DEF Holds
  <2>. QED  BY <2>2, <2>3, <2>4
\* A CLOSE_SHM on its way is that of an earlier read.
<1>10. (\E r \in Closes : r.from = c /\ Closing(r)) => ReadsTwice(c)
  <2>1. Busy(c)
    BY <1>4 DEF Busy
  <2>. QED  BY <1>0, <1>4, <2>1, RequestTypes, SystemAssumption DEF ClosesLate, ReadsTwice
<1>11. /\ Blank(t) = [n |-> asked[c], filled |-> FALSE] /\ Blank(t) # NoSegment
       /\ [Blank(t) EXCEPT !.filled = TRUE] = [n |-> asked[c], filled |-> TRUE]
       /\ [n |-> asked[c], filled |-> TRUE] # NoSegment
  <2>1. asked[c] # 0
    BY <1>4, SystemAssumption
  <2>2. Blank(t) = [n |-> asked[c], filled |-> FALSE]
    BY <1>4 DEF Blank
  <2>3. [Blank(t) EXCEPT !.filled = TRUE] = [n |-> asked[c], filled |-> TRUE]
    <3>. DEFINE s == [Blank(t) EXCEPT !.filled = TRUE]
    <3>1. s \in [n : {asked[c]}, filled : BOOLEAN] /\ s.n = asked[c] /\ s.filled = TRUE
      BY <1>4 DEF Blank
    <3>. HIDE DEF s
    <3>2. s = [n |-> asked[c], filled |-> TRUE]
      BY <3>1
    <3>. QED  BY <3>2 DEF s
  <2>4. \A b \in BOOLEAN : [n |-> asked[c], filled |-> b] # NoSegment
    BY <2>1 DEF NoSegment
  <2>. QED  BY <2>2, <2>3, <2>4
<1>12. CASE CreateSegment(t)
  <2>1. phase'[t] = "fill" /\ segment'[c] = Blank(t)
    BY <1>4, <1>12, Parts DEF CreateSegment, Enter, SetSegment, SystemTypeOK
  <2>2. OwnBucket'
    BY <1>0, <1>2, <1>3, <1>8, <2>1 DEF OwnBucket
  <2>3. FirstHolds'
    BY <1>0, <1>1, <1>2, <1>3, <1>9, <1>11, <2>1 DEF FirstHolds, ReadsTwice
  <2>. QED  BY <1>2, <1>5, <1>7, <2>2, <2>3 DEF Rest
<1>13. CASE CreateFails(t)
  <2>1. phase'[t] = "done" /\ result'[t] # Copied
    BY <1>13, Parts DEF CreateFails, Enter, SystemTypeOK, Missing, Copied
  <2>2. OwnBucket'
    BY <1>0, <1>2, <1>3, <1>8, <2>1 DEF OwnBucket
  <2>3. FirstHolds'
    BY <1>0, <1>1, <1>2, <1>3, <1>8, <1>9, <1>10, <2>1 DEF FirstHolds, ReadsTwice
  <2>. QED  BY <1>2, <1>5, <1>7, <2>2, <2>3 DEF Rest
<1>14. CASE FillSegment(t)
  <2>1. /\ phase[t] = "fill"
        /\ segment'[c] = IF segment[c] = NoSegment THEN NoSegment
                         ELSE [n |-> asked[c], filled |-> TRUE]
    BY <1>4, <1>11, <1>14, Parts DEF FillSegment, Enter, SetSegment, SystemTypeOK
  <2>2. OwnBucket'
    BY <1>0, <1>2, <1>3, <1>8, <2>1 DEF OwnBucket
  <2>3. FirstHolds'
    BY <1>0, <1>1, <1>2, <1>3, <1>4, <1>9, <1>11, <2>1 DEF FirstHolds, ReadsTwice
  <2>. QED  BY <1>2, <1>5, <1>7, <2>2, <2>3 DEF Rest
<1>. QED  BY <1>12, <1>13, <1>14

LEMMA UnlinkSteps ==
  ASSUME SysIInv, NEW t \in Threads, Unlink(t) \/ UnlinkFails(t)
  PROVE  Rest'
<1>. PICK c, r : c = Owner(t) /\ r = job[t]
  OBVIOUS
<1>0. /\ Phases /\ ClosesLate /\ ClosesOnce /\ OwnBucket /\ FirstHolds
  BY DEF SysIInv
<1>1. UNCHANGED <<vars, boxVars, clientVars, reply>>
  BY DEF Unlink, UnlinkFails
<1>2. /\ OnlyRequests' /\ Scripted' /\ UNCHANGED <<chain, adding, result>>
      /\ UNCHANGED <<queue, slots, pc, at, job, asked, todo, stage, reply>>
      /\ \A u \in Threads : P!InCall(u)' <=> P!InCall(u)
      /\ \A q : InLine(q)' = InLine(q)
      /\ \A d : Busy(d)' <=> Busy(d)
  BY <1>1, WorkFrame DEF vars
<1>3. /\ phase[t] = "unlink" /\ phase'[t] \in {"unlink", "done"}
      /\ \A u \in Threads \ {t} : phase'[u] = phase[u]
      /\ \A d \in Clients \ {c} : segment'[d] = segment[d]
  BY Parts DEF Unlink, UnlinkFails, Enter, SetSegment, SystemTypeOK
<1>4. /\ r \in Closes /\ r.from = c /\ c \in Clients /\ t \in InHand(r)
      /\ pc[t] = "idle" /\ ~P!InCall(t) /\ adding[t] = NoKey
  BY <1>0, <1>3, RequestTypes DEF Phases, Owner, InHand, P!InCall
<1>5. Phases'
  BY <1>0, <1>2, <1>3, <1>4, Rigid DEF Phases, Order, Owner
<1>6. /\ \A q \in Closes : InHand(q)' \subseteq InHand(q)
      /\ \A q \in Closes : Closing(q)' => Closing(q)
  BY <1>2, <1>3 DEF InHand, Closing
<1>7. ClosesLate' /\ ClosesOnce'
  BY <1>0, <1>2, <1>6, Rigid DEF ClosesLate, ClosesOnce
<1>8. \A d \in Clients : Served(d)' => Served(d)
  BY <1>2, <1>3, <1>4, Rigid DEF Served
<1>9. \A d \in Clients : Holds(d)' => Holds(d)
  BY <1>2, <1>3, <1>6, <1>8, Rigid DEF Holds
<1>10. CASE Unlink(t)
  <2>1. phase'[t] = "done" /\ segment'[c] = NoSegment /\ UNCHANGED up
    BY <1>4, <1>10, Parts DEF Unlink, Enter, SetSegment, SystemTypeOK
  <2>2. OwnBucket'
    BY <1>0, <1>2, <1>3, <1>8, <2>1 DEF OwnBucket
  <2>3. ASSUME Holds(c)', ~ReadsTwice(c) PROVE FALSE
    <3>1. \A q \in Closes : q.from = c /\ Closing(q) => q.n = 2 /\ ~Busy(c)
      BY <1>0, <1>4, <2>3, Parts, P!Types, RequestTypes, SystemAssumption
         DEF ClosesLate, ReadsTwice
    <3>2. ~Busy(c) /\ r.n = 2
      BY <1>4, <3>1 DEF Closing
    <3>3. stage[c] = "command" /\ P!Nothing(c)
      BY <3>2 DEF Busy
    <3>4. PICK q \in Closes : q.from = c /\ Closing(q)'
      BY <1>2, <1>3, <1>4, <1>8, <2>1, <2>3, <3>3, NothingMeans, Rigid DEF Holds
    <3>5. q = r
      BY <1>4, <1>6, <3>1, <3>2, <3>4, RequestTypes
    <3>6. InLine(q) = {} /\ InHand(q) = {t}
      BY <1>0, <1>4, <3>5 DEF ClosesOnce
    <3>7. InHand(q)' = {}
      BY <1>2, <1>3, <2>1, <3>6 DEF InHand
    <3>. QED  BY <1>2, <3>4, <3>6, <3>7 DEF Closing
  <2>4. FirstHolds'
    BY <1>0, <1>2, <1>3, <1>9, <2>1, <2>3 DEF FirstHolds, ReadsTwice
  <2>. QED  BY <1>2, <1>5, <1>7, <2>2, <2>4 DEF Rest
<1>11. CASE UnlinkFails(t)
  <2>1. segment[c] = NoSegment /\ UNCHANGED segment
    BY <1>11 DEF UnlinkFails
  <2>2. Holds(c)
    BY <1>4 DEF Holds, Closing
  <2>3. ReadsTwice(c)
    BY <1>0, <1>4, <2>1, <2>2 DEF FirstHolds
  <2>4. OwnBucket' /\ FirstHolds'
    BY <1>0, <1>2, <1>4, <1>8, <1>9, <2>1, <2>3 DEF OwnBucket, FirstHolds, ReadsTwice
  <2>. QED  BY <1>2, <1>5, <1>7, <2>4 DEF Rest
<1>. QED  BY <1>10, <1>11

-----------------------------------------------------------------------------
(***************************************************************************)
(* The invariant holds.                                                    *)
(***************************************************************************)
LEMMA InitSysIInv == SystemInit => SysIInv
<1>. SUFFICES ASSUME SystemInit PROVE SysIInv
  OBVIOUS
<1>1. Init
  BY DEF SystemInit, Init
<1>2. P!Init /\ P!IInv
  BY BoxStates, BoxAssumption, P!InitIInv DEF SystemInit
<1>3. /\ queue = << >> /\ job = [t \in Threads |-> P!None]
      /\ slots = [i \in 0 .. N - 1 |-> P!FreeSlot]
      /\ \A p \in P!Procs : pc[p] = "idle"
  BY <1>2, Identities DEF P!Init
<1>4. SystemTypeOK
  <2>1. TypeOK /\ Box!TypeOK
    BY <1>1, <1>2, InitType, BoxStates DEF P!IInv
  <2>2. NoSegment \in Segment
    BY SystemAssumption DEF NoSegment, Segment
  <2>. QED  BY <2>1, <2>2, SystemAssumption DEF SystemTypeOK, SystemInit, Outcomes
<1>5. DOMAIN queue = {} /\ \A t \in Threads : ~P!InCall(t) /\ phase[t] = "done"
  BY <1>3, Identities DEF P!InCall, SystemInit
<1>6. \A r, i : i \in 0 .. N - 1 => ~P!Carried(r, i)
  BY <1>3, <1>5 DEF P!Carried, P!FreeSlot
<1>7. /\ \A c \in Clients : ~Served(c) /\ ~Holds(c)
      /\ \A r : InLine(r) = {} /\ InHand(r) = {} /\ ~Closing(r)
  <2>1. \A r : InLine(r) = {} /\ InHand(r) = {} /\ ~Closing(r)
    BY <1>5 DEF InLine, InHand, Closing
  <2>2. \A c \in Clients : ~Served(c)
    BY <1>3, <1>5 DEF Served, SystemInit, P!FreeSlot
  <2>. QED  BY <1>5, <2>1, <2>2 DEF Holds, SystemInit
<1>8. OnlyRequests /\ Phases /\ Scripted
  BY <1>5, <1>6 DEF OnlyRequests, Phases, Scripted, SystemInit
<1>9. ClosesLate /\ ClosesOnce /\ OwnBucket /\ FirstHolds
  BY <1>7 DEF ClosesLate, ClosesOnce, OwnBucket, FirstHolds, SystemInit
<1>. QED  BY <1>2, <1>4, <1>8, <1>9 DEF SysIInv

LEMMA SystemInductive == SysIInv /\ [SystemNext]_systemVars => SysIInv'
<1>. SUFFICES ASSUME SysIInv, [SystemNext]_systemVars PROVE SysIInv'
  OBVIOUS
<1>1. SystemTypeOK' /\ P!IInv'
  BY SystemTypeStep, BoxInvariant
<1>2. ASSUME NEW c \in Clients, Ask(c) \/ Proceed(c) \/ Kill(c) PROVE Rest'
  BY <1>1, <1>2, AskStep, CloseStep, HearStep, ReadStep, SimpleSteps DEF Proceed
<1>3. ASSUME NEW t \in Threads, Serve(t) PROVE Rest'
  BY <1>3, FetchStep, TableSteps, SegmentSteps, UnlinkSteps, SimpleSteps, RespondStep
     DEF Serve, ShareBucket
<1>4. Rest'
  BY <1>2, <1>3, SimpleSteps, SystemAssumption DEF SystemNext
<1>. QED  BY <1>1, <1>4 DEF SysIInv, Rest

LEMMA AlwaysSysIInv == SystemSpec => []SysIInv
BY InitSysIInv, SystemInductive, PTL DEF SystemSpec

\* Every variable of the whole program keeps its type: no thread executes
\* anything but the command its client waits for, and no script is read past
\* its end.
THEOREM SystemTypeCorrect == SystemSpec => []SystemTypeOK
<1>1. SysIInv => SystemTypeOK
  BY DEF SysIInv
<1>. QED  BY <1>1, AlwaysSysIInv, PTL

\* A client finds the complete bucket of its last READ_BUCKET in its segment or
\* no segment at all, in whatever order the threads execute its requests, also
\* when a failed read left a segment behind (server.cpp:198).
THEOREM BucketOwned == SystemSpec => []ReadsOwnBucket
<1>1. SysIInv => ReadsOwnBucket
  BY DEF SysIInv, OwnBucket, Served, ReadsOwnBucket
<1>. QED  BY <1>1, AlwaysSysIInv, PTL

\* A segment that is missing, and a server that exits because of it, take a
\* client that reads a second bucket before its CLOSE_SHM of the first is done.
THEOREM FirstReadIsSafe == SystemSpec => []FirstReadSafe
<1>1. SysIInv => FirstReadSafe
  BY DEF SysIInv, FirstHolds, Holds, Served, FirstReadSafe
<1>. QED  BY <1>1, AlwaysSysIInv, PTL

\* The server's use of the table keeps insert()'s race bounded.
THEOREM SystemDuplicatesBounded == SystemSpec => []BoundedDuplicates
<1>1. SystemInit => BoundedDuplicates
  BY InitBound DEF SystemInit, Init
<1>2. SysIInv => TypeOK
  BY Parts
<1>3. SysIInv /\ BoundedDuplicates /\ [SystemNext]_systemVars => BoundedDuplicates'
  BY <1>2, MapStep, BoundStep
<1>. QED  BY <1>1, <1>3, AlwaysSysIInv, PTL DEF SystemSpec

-----------------------------------------------------------------------------
(***************************************************************************)
(* The program implements the map, one operation for each call of a client *)
(* (ClientsShareMap): what became of a call is where Told() says.          *)
(***************************************************************************)
Executes(t, c) == /\ P!InCall(t) /\ job[t].from = c
                  /\ phase[t] = "done" \/ adding[t] # NoKey
Replied(i, c)  == slots[i].ready /\ slots[i].answer.from = c
Told(c) ==
  /\ \A t \in Threads : Executes(t, c) =>
       Outcome(c) = result[t] /\ AddingFor(c) = adding[t]
  /\ (\A t \in Threads : ~Executes(t, c)) =>
       /\ AddingFor(c) = NoKey
       /\ \A i \in 0 .. N - 1 : Replied(i, c) => Outcome(c) = reply[i]
       /\ (\A i \in 0 .. N - 1 : ~Replied(i, c)) => Outcome(c) = heard[c]

LEMMA AllTold == SysIInv => \A c \in Clients : Told(c)
<1>. SUFFICES ASSUME SysIInv, NEW c \in Clients PROVE Told(c)
  OBVIOUS
<1>1. \A t \in Threads : t \in Executing(c) <=> Executes(t, c)
  <2>. SUFFICES ASSUME NEW t \in Threads PROVE t \in Executing(c) <=> Executes(t, c)
    OBVIOUS
  <2>1. P!Open(c).from = c
    BY DEF P!Open
  <2>2. P!InCall(t) /\ job[t].from = c => job[t] = P!Open(c)
    BY Employed
  <2>3. Box!Open(c) = P!Open(c) /\ (Box!InCall(t) <=> P!InCall(t))
    BY BoxStates
  <2>. QED  BY <2>1, <2>2, <2>3 DEF Executing, Executes
<1>2. ASSUME NEW t \in Threads, Executes(t, c)
      PROVE  Outcome(c) = result[t] /\ AddingFor(c) = adding[t]
  <2>1. Executing(c) = {t}
    <3>1. \A u \in Threads : Executes(u, c) => u = t
      BY <1>2, Employed DEF Executes
    <3>2. Executing(c) \subseteq Threads
      BY DEF Executing
    <3>. QED  BY <1>1, <1>2, <3>1, <3>2
  <2>2. (CHOOSE u \in {t} : TRUE) = t
    OBVIOUS
  <2>. QED  BY <2>1, <2>2 DEF Outcome, AddingFor
<1>3. ASSUME \A t \in Threads : ~Executes(t, c)
      PROVE  /\ AddingFor(c) = NoKey
             /\ \A i \in 0 .. N - 1 : Replied(i, c) => Outcome(c) = reply[i]
             /\ (\A i \in 0 .. N - 1 : ~Replied(i, c)) => Outcome(c) = heard[c]
  <2>1. Executing(c) = {}
    BY <1>1, <1>3 DEF Executing
  <2>2. Box!InSlot(c) = P!InSlot(c)
    BY BoxStates
  <2>3. \A i \in 0 .. N - 1 : Replied(i, c) => i = at[c] /\ P!InSlot(c) # {}
    BY Answered DEF Replied
  <2>4. P!InSlot(c) # {} => \E i \in 0 .. N - 1 : Replied(i, c)
    BY Identities DEF P!InSlot, P!Open, Replied
  <2>. QED  BY <2>1, <2>2, <2>3, <2>4 DEF Outcome, AddingFor
<1>. QED  BY <1>2, <1>3 DEF Told

LEMMA AllToldNext == SysIInv' => (\A c \in Clients : Told(c))'
BY AllTold, PTL

\* A client nobody does anything for.
LEMMA SameTold ==
  ASSUME SysIInv, SysIInv', NEW c \in Clients, heard'[c] = heard[c],
         \A t \in Threads : /\ Executes(t, c)' <=> Executes(t, c)
                            /\ Executes(t, c) => result'[t] = result[t] /\ adding'[t] = adding[t],
         \A i \in 0 .. N - 1 : /\ Replied(i, c)' <=> Replied(i, c)
                               /\ Replied(i, c) => reply'[i] = reply[i]
  PROVE  Outcome(c)' = Outcome(c) /\ AddingFor(c)' = AddingFor(c)
<1>1. Told(c)
  BY AllTold
<1>2. Told(c)'
  BY AllToldNext
<1>. QED  BY <1>1, <1>2, Rigid DEF Told

\* A step that is nothing to the map.
LEMMA MapStutter ==
  ASSUME UNCHANGED chain,
         \A c \in Clients : Outcome(c)' = Outcome(c) /\ AddingFor(c)' = AddingFor(c)
  PROVE  UNCHANGED ClientMap!vars
BY DEF ClientMap!vars

\* A step by which thread t executes what its client c asked for.
LEMMA MapCall ==
  ASSUME SysIInv, SysIInv', NEW t \in Threads, NEW c, c = Owner(t),
         phase[t] \in {"work", "create", "fill"},
         UNCHANGED <<boxVars, clientVars, reply>>,
         \A u \in Threads \ {t} : /\ phase'[u] = phase[u] /\ adding'[u] = adding[u]
                                  /\ result'[u] = result[u],
         phase'[t] = "done" \/ adding'[t] # NoKey
  PROVE  /\ c \in Clients
         /\ [d \in Clients |-> AddingFor(d)]' =
              [[d \in Clients |-> AddingFor(d)] EXCEPT ![c] = adding'[t]]
         /\ [d \in Clients |-> Outcome(d)]' =
              [[d \in Clients |-> Outcome(d)] EXCEPT ![c] = result'[t]]
         /\ AddingFor(c) = adding[t]
         /\ adding[t] # NoKey => Outcome(c) = result[t]
<1>1. /\ c \in Clients /\ P!InCall(t) /\ job[t].from = c
      /\ UNCHANGED <<queue, slots, pc, at, job, asked, todo, stage, heard, reply>>
      /\ \A u \in Threads : P!InCall(u)' <=> P!InCall(u)
      /\ \A u \in Threads : P!InCall(u) /\ job[u].from = c => u = t
  BY Ordered, Employed DEF Owner, boxVars, clientVars, P!InCall
<1>2. (\A d \in Clients : Told(d)) /\ (\A d \in Clients : Told(d))'
  BY AllTold, AllToldNext
<1>3. Outcome(c)' = result'[t] /\ AddingFor(c)' = adding'[t]
  BY <1>1, <1>2 DEF Told, Executes
<1>4. /\ AddingFor(c) = adding[t]
      /\ adding[t] # NoKey => Outcome(c) = result[t]
  <2>1. phase[t] # "done"
    OBVIOUS
  <2>. QED  BY <1>1, <1>2, <2>1 DEF Told, Executes
<1>5. ASSUME NEW d \in Clients \ {c}
      PROVE  Outcome(d)' = Outcome(d) /\ AddingFor(d)' = AddingFor(d)
  <2>1. \A u \in Threads : /\ Executes(u, d)' <=> Executes(u, d)
                           /\ Executes(u, d) => result'[u] = result[u] /\ adding'[u] = adding[u]
    BY <1>1 DEF Executes
  <2>2. \A i \in 0 .. N - 1 : Replied(i, d)' <=> Replied(i, d)
    BY <1>1 DEF Replied
  <2>. QED  BY <1>1, <2>1, <2>2, SameTold
<1>. QED  BY <1>1, <1>3, <1>4, <1>5

\* Mailbox may do what it likes with nobody's job and no answer.
LEMMA SameForAll ==
  ASSUME SysIInv, SysIInv', UNCHANGED <<chain, adding, result, job, slots, heard, reply>>,
         \A t \in Threads : /\ P!InCall(t)' <=> P!InCall(t)
                            /\ P!InCall(t) /\ adding[t] = NoKey =>
                                 (phase'[t] = "done" <=> phase[t] = "done")
  PROVE  UNCHANGED ClientMap!vars
<1>1. \A c \in Clients : \A t \in Threads : Executes(t, c)' <=> Executes(t, c)
  BY DEF Executes
<1>2. \A c \in Clients : \A i \in 0 .. N - 1 : Replied(i, c)' <=> Replied(i, c)
  BY DEF Replied
<1>. QED  BY <1>1, <1>2, SameTold, MapStutter

LEMMA ClientStutters ==
  ASSUME SysIInv, SysIInv', NEW c \in Clients,
         Ask(c) \/ Await(c) \/ ReadSegment(c) \/ OpenFails(c) \/ Close(c) \/ Kill(c)
  PROVE  UNCHANGED ClientMap!vars
<1>1. UNCHANGED <<chain, adding, result, heard, phase, reply>>
  BY DEF Ask, Await, ReadSegment, OpenFails, Close, Kill, vars, clientVars, serverVars
<1>2. UNCHANGED <<job, slots>> /\ \A t \in Threads : pc'[t] = pc[t]
  <2>1. CASE Ask(c) \/ Close(c)
    BY <2>1, BoxSteps, Sent DEF Ask, Close
  <2>2. CASE Await(c) \/ OpenFails(c) \/ Kill(c)
    <3>1. P!Lock(c) \/ P!Sleep(c) \/ P!Die(c)
      BY <2>2, BoxSteps DEF Await, OpenFails, Kill
    <3>. QED  BY <3>1, Parts, P!Types, Identities DEF P!Lock, P!Sleep, P!Die, P!Goto
  <2>3. CASE ReadSegment(c)
    BY <2>3 DEF ReadSegment, boxVars
  <2>. QED  BY <2>1, <2>2, <2>3
<1>. QED  BY <1>1, <1>2, SameForAll DEF P!InCall

\* The answer moves from the slot to its client.
LEMMA HearStutters ==
  ASSUME SysIInv, SysIInv', NEW c \in Clients, Hear(c)
  PROVE  UNCHANGED ClientMap!vars
<1>1. /\ P!Take(c)
      /\ heard' = [heard EXCEPT ![c] = reply[at[c]]]
      /\ reply' = [reply EXCEPT ![at[c]] = Missing]
      /\ UNCHANGED <<chain, adding, result, phase>>
  BY BoxSteps DEF Hear, vars
<1>2. /\ at[c] \in 0 .. N - 1 /\ Replied(at[c], c)
      /\ slots' = [slots EXCEPT ![at[c]] = P!FreeSlot]
      /\ UNCHANGED job
      /\ \A t \in Threads : P!InCall(t)' <=> P!InCall(t)
  <2>1. /\ at[c] \in P!Slots /\ slots[at[c]].ready /\ slots[at[c]].answer = P!Open(c)
        /\ slots' = [slots EXCEPT ![at[c]] = P!FreeSlot] /\ UNCHANGED job
        /\ \A p \in P!Procs \ {c} : P!InCall(p)' <=> P!InCall(p)
    BY <1>1, Parts, P!TakeStep
  <2>2. P!Open(c).from = c
    BY DEF P!Open
  <2>. QED  BY <2>1, <2>2, Identities DEF Replied
<1>3. \A d \in Clients : \A t \in Threads : Executes(t, d)' <=> Executes(t, d)
  BY <1>1, <1>2 DEF Executes
<1>4. /\ heard'[c] = reply[at[c]]
      /\ \A d \in Clients \ {c} : heard'[d] = heard[d]
      /\ \A i \in (0 .. N - 1) \ {at[c]} : slots'[i] = slots[i] /\ reply'[i] = reply[i]
      /\ ~slots'[at[c]].ready
  BY <1>1, <1>2, Parts, P!Types, Identities DEF SystemTypeOK, P!FreeSlot
<1>5. ASSUME NEW d \in Clients \ {c}
      PROVE  Outcome(d)' = Outcome(d) /\ AddingFor(d)' = AddingFor(d)
  <2>1. \A i \in 0 .. N - 1 : /\ Replied(i, d)' <=> Replied(i, d)
                              /\ Replied(i, d) => reply'[i] = reply[i]
    BY <1>2, <1>4 DEF Replied
  <2>. QED  BY <1>1, <1>3, <1>4, <2>1, SameTold
<1>6. Outcome(c)' = Outcome(c) /\ AddingFor(c)' = AddingFor(c)
  <2>1. \A t \in Threads : ~Executes(t, c)
    BY <1>2, Employed DEF Executes, Replied
  <2>2. \A i \in 0 .. N - 1 : ~Replied(i, c)'
    BY <1>2, <1>4, Answered DEF Replied
  <2>. QED  BY <1>2, <1>3, <1>4, <2>1, <2>2, AllTold, AllToldNext, Rigid DEF Told
<1>. QED  BY <1>1, <1>5, <1>6, MapStutter

\* The answer moves from its thread to the slot.
LEMMA RespondStutters ==
  ASSUME SysIInv, SysIInv', NEW t \in Threads, Respond(t)
  PROVE  UNCHANGED ClientMap!vars
<1>. PICK c : c = Owner(t)
  OBVIOUS
<1>1. /\ P!Answer(t) /\ pc[t] = "held"
      /\ reply' = [reply EXCEPT ![at[t]] = result[t]]
      /\ result' = [result EXCEPT ![t] = Missing]
      /\ UNCHANGED <<chain, adding, heard, phase>>
  BY BoxSteps DEF Respond, clientVars, P!Answer
<1>2. /\ P!InCall(t) /\ ~P!InCall(t)' /\ at[t] \in 0 .. N - 1
      /\ slots' = [slots EXCEPT ![at[t]] = [ready |-> TRUE, client |-> job[t].from,
                                            answer |-> job[t]]]
      /\ ~slots[at[t]].ready /\ UNCHANGED job
      /\ \A u \in Threads \ {t} : P!InCall(u)' <=> P!InCall(u)
  <2>1. /\ P!InCall(t) /\ pc'[t] = "idle" /\ at[t] \in P!Slots /\ slots[at[t]] = P!FreeSlot
        /\ slots' = [slots EXCEPT ![at[t]] = [ready |-> TRUE, client |-> job[t].from,
                                              answer |-> job[t]]]
        /\ UNCHANGED job
        /\ \A p \in P!Procs \ {t} : P!InCall(p)' <=> P!InCall(p)
    BY <1>1, Parts, P!AnswerStep
  <2>2. ~P!FreeSlot.ready
    BY DEF P!FreeSlot
  <2>3. ~P!InCall(t)'
    BY <2>1 DEF P!InCall
  <2>. QED  BY <2>1, <2>2, <2>3, Identities
<1>3. /\ phase[t] = "done" /\ adding[t] = NoKey
      /\ c \in Clients /\ job[t].from = c
      /\ \A u \in Threads : P!InCall(u) /\ job[u].from = c => u = t
      /\ \A i \in 0 .. N - 1 : ~Replied(i, c)
  BY <1>1, <1>2, Parts, Employed DEF SysIInv, Phases, SystemTypeOK, Owner, Replied
<1>4. /\ slots'[at[t]].ready /\ slots'[at[t]].answer.from = c /\ reply'[at[t]] = result[t]
      /\ \A u \in Threads \ {t} : result'[u] = result[u]
      /\ \A i \in (0 .. N - 1) \ {at[t]} : slots'[i] = slots[i] /\ reply'[i] = reply[i]
  BY <1>1, <1>2, <1>3, Parts, P!Types, Identities DEF SystemTypeOK, TypeOK
<1>5. ASSUME NEW d \in Clients \ {c}
      PROVE  Outcome(d)' = Outcome(d) /\ AddingFor(d)' = AddingFor(d)
  <2>1. \A i \in 0 .. N - 1 : /\ Replied(i, d)' <=> Replied(i, d)
                              /\ Replied(i, d) => reply'[i] = reply[i]
    BY <1>2, <1>4 DEF Replied
  <2>2. \A u \in Threads : /\ Executes(u, d)' <=> Executes(u, d)
                           /\ Executes(u, d) => result'[u] = result[u] /\ adding'[u] = adding[u]
    BY <1>1, <1>2, <1>3, <1>4 DEF Executes
  <2>. QED  BY <1>1, <2>1, <2>2, SameTold
<1>6. Outcome(c)' = Outcome(c) /\ AddingFor(c)' = AddingFor(c)
  <2>. PICK i \in 0 .. N - 1 : i = at[t]
    BY <1>2
  <2>1. Executes(t, c) /\ \A u \in Threads : ~Executes(u, c)'
    BY <1>2, <1>3 DEF Executes
  <2>2. Replied(i, c)'
    BY <1>4 DEF Replied
  <2>3. Outcome(c) = result[t] /\ AddingFor(c) = NoKey
    BY <1>3, <2>1, AllTold DEF Told
  <2>4. Told(c)'
    BY <1>3, AllToldNext
  <2>5. Outcome(c)' = reply'[i] /\ AddingFor(c)' = NoKey
    BY <2>1, <2>2, <2>4, Rigid DEF Told
  <2>. QED  BY <1>4, <2>3, <2>5
<1>. QED  BY <1>1, <1>5, <1>6, MapStutter

LEMMA ServerStutters ==
  ASSUME SysIInv, SysIInv', NEW t \in Threads,
         \/ Fetch(t) \/ CopyBucket(t) \/ CreateSegment(t) \/ Unlink(t) \/ UnlinkFails(t)
         \/ AwaitSlot(t)
  PROVE  UNCHANGED ClientMap!vars
<1>0. Phases
  BY DEF SysIInv
<1>1. CASE CopyBucket(t) \/ CreateSegment(t)
  <2>1. /\ UNCHANGED <<chain, adding, result, job, slots, pc, heard, reply>>
        /\ phase[t] # "done" /\ phase'[t] # "done"
        /\ \A u \in Threads \ {t} : phase'[u] = phase[u]
    BY <1>1, Parts DEF CopyBucket, CreateSegment, Enter, vars, boxVars, clientVars, SystemTypeOK
  <2>. QED  BY <2>1, SameForAll DEF P!InCall
<1>2. CASE Unlink(t) \/ UnlinkFails(t)
  <2>1. /\ UNCHANGED <<chain, adding, result, job, slots, pc, heard, reply>>
        /\ phase[t] = "unlink"
        /\ \A u \in Threads \ {t} : phase'[u] = phase[u]
    BY <1>2, Parts DEF Unlink, UnlinkFails, Enter, vars, boxVars, clientVars, SystemTypeOK
  <2>2. ~P!InCall(t)
    BY <1>0, <2>1 DEF Phases, P!InCall
  <2>. QED  BY <2>1, <2>2, SameForAll DEF P!InCall
<1>3. CASE AwaitSlot(t)
  <2>1. P!Lock(t) \/ P!Sleep(t)
    BY <1>3, BoxSteps DEF AwaitSlot
  <2>2. /\ UNCHANGED <<job, slots>> /\ \A u \in Threads : P!InCall(u)' <=> P!InCall(u)
    BY <2>1, Parts, P!Types, Identities DEF P!Lock, P!Sleep, P!Goto, P!InCall
  <2>. QED  BY <1>3, <2>2, SameForAll DEF AwaitSlot, vars, clientVars, serverVars
<1>4. CASE Fetch(t)
  <2>1. /\ P!PopHead(t) /\ phase[t] = "done" /\ phase'[t] # "done"
        /\ \A u \in Threads \ {t} : phase'[u] = phase[u]
        /\ UNCHANGED <<chain, adding, result, heard, reply>>
    BY <1>4, BoxSteps, Parts DEF Fetch, Enter, vars, clientVars, SystemTypeOK
  <2>2. /\ ~P!InCall(t) /\ UNCHANGED slots
        /\ \A u \in Threads \ {t} : job'[u] = job[u] /\ (P!InCall(u)' <=> P!InCall(u))
    BY <2>1, Parts, P!PopStep, Identities
  <2>3. adding[t] = NoKey
    BY <1>0, <2>1 DEF Phases
  <2>4. ASSUME NEW c \in Clients
        PROVE  Outcome(c)' = Outcome(c) /\ AddingFor(c)' = AddingFor(c)
    <3>1. \A u \in Threads : Executes(u, c)' <=> Executes(u, c)
      BY <2>1, <2>2, <2>3 DEF Executes
    <3>2. \A i \in 0 .. N - 1 : Replied(i, c)' <=> Replied(i, c)
      BY <2>2 DEF Replied
    <3>. QED  BY <2>1, <3>1, <3>2, SameTold
  <2>. QED  BY <2>1, <2>4, MapStutter
<1>. QED  BY <1>1, <1>2, <1>3, <1>4

\* What t does to the table for its client is what the client does to the map.
LEMMA ServerCalls ==
  ASSUME SysIInv, SysIInv', NEW t \in Threads,
         TableStep(t) \/ RefuseBucket(t) \/ CreateFails(t) \/ FillSegment(t)
  PROVE  ClientMap!Next
<1>. PICK c : c = Owner(t)
  OBVIOUS
<1>0. /\ adding \in [Threads -> Keys \cup {NoKey, Added}]
      /\ result \in [Threads -> Values \cup Outcomes]
      /\ phase \in [Threads -> {"done", "work", "create", "fill", "unlink"}]
      /\ NoKey \notin Keys /\ Added \notin Keys /\ Added # NoKey
  BY Parts, MapAssumption DEF TypeOK, SystemTypeOK, Added, NoKey
<1>1. /\ phase[t] \in {"work", "create", "fill"}
      /\ UNCHANGED <<boxVars, clientVars, reply>>
      /\ \A u \in Threads \ {t} : phase'[u] = phase[u]
  BY <1>0 DEF TableStep, Lookup, Delete, Insert, RefuseBucket, CreateFails, FillSegment, Enter
<1>2. c \in Clients /\ Order(t).key \in Keys /\ Order(t).val \in Values
  BY <1>1, Ordered
<1>3. ASSUME \A u \in Threads \ {t} : adding'[u] = adding[u] /\ result'[u] = result[u],
             phase'[t] = "done" \/ adding'[t] # NoKey
      PROVE  /\ [d \in Clients |-> AddingFor(d)]' =
                  [[d \in Clients |-> AddingFor(d)] EXCEPT ![c] = adding'[t]]
             /\ [d \in Clients |-> Outcome(d)]' =
                  [[d \in Clients |-> Outcome(d)] EXCEPT ![c] = result'[t]]
             /\ AddingFor(c) = adding[t]
             /\ adding[t] # NoKey => Outcome(c) = result[t]
  BY <1>1, <1>3, MapCall
<1>. DEFINE A == [d \in Clients |-> AddingFor(d)]
            R == [d \in Clients |-> Outcome(d)]
<1>4. /\ A = [d \in Clients |-> A[d]] /\ R = [d \in Clients |-> R[d]]
      /\ A[c] = AddingFor(c) /\ R[c] = Outcome(c)
  BY <1>2
<1>10. ASSUME \A u \in Threads \ {t} : adding'[u] = adding[u] /\ result'[u] = result[u],
              phase'[t] = "done" \/ adding'[t] # NoKey
       PROVE  /\ A' = [A EXCEPT ![c] = adding'[t]] /\ R' = [R EXCEPT ![c] = result'[t]]
              /\ A[c] = adding[t] /\ (adding[t] # NoKey => R[c] = result[t])
  BY <1>3, <1>4, <1>10
<1>. HIDE DEF A, R
\* An operation that t answers at once, with r.
<1>5. ASSUME NEW r, result' = [result EXCEPT ![t] = r], UNCHANGED adding, phase'[t] = "done"
      PROVE  R' = [R EXCEPT ![c] = r] /\ UNCHANGED A
  <2>1. /\ \A u \in Threads \ {t} : adding'[u] = adding[u] /\ result'[u] = result[u]
        /\ adding'[t] = adding[t] /\ result'[t] = r
    BY <1>0, <1>5
  <2>2. R' = [R EXCEPT ![c] = r] /\ A' = [A EXCEPT ![c] = A[c]]
    BY <1>5, <1>10, <2>1
  <2>3. [A EXCEPT ![c] = A[c]] = A
    BY <1>4
  <2>. QED  BY <2>2, <2>3
<1>6. CASE Lookup(t)
  <2>1. Get(t, Order(t).key) /\ phase'[t] = "done"
    BY <1>0, <1>6 DEF Lookup, Enter
  <2>2. ClientMap!Get(c, Order(t).key)
    BY <1>5, <2>1 DEF Get, Answers, Absent, First, ClientMap!Get, ClientMap!Answers,
                      ClientMap!Absent, ClientMap!First, Missing, ClientMap!Missing, A, R
  <2>. QED  BY <1>2, <2>2 DEF ClientMap!Next
<1>7. CASE Delete(t)
  <2>1. Remove(t, Order(t).key) /\ phase'[t] = "done"
    BY <1>0, <1>7 DEF Delete, Enter
  <2>2. ClientMap!Remove(c, Order(t).key)
    BY <1>5, <2>1 DEF Remove, Answers, Absent, First, ClientMap!Remove, ClientMap!Answers,
                      ClientMap!Absent, ClientMap!First, A, R
  <2>. QED  BY <1>2, <2>2 DEF ClientMap!Next
<1>8. CASE Insert(t)
  <2>. DEFINE k == Order(t).key
  <2>1. CASE Enter(t, "work", "work") /\ FindAbsent(t, k)
    <3>1. /\ adding[t] = NoKey /\ Absent(k) /\ adding' = [adding EXCEPT ![t] = k]
          /\ result' = [result EXCEPT ![t] = Missing] /\ UNCHANGED chain
      BY <2>1 DEF FindAbsent, Answers
    <3>2. A' = [A EXCEPT ![c] = k] /\ R' = [R EXCEPT ![c] = Missing] /\ A[c] = NoKey
      BY <1>0, <1>2, <1>10, <3>1
    <3>3. ClientMap!FindAbsent(c, k)
      BY <1>2, <3>1, <3>2 DEF ClientMap!FindAbsent, ClientMap!Answers, ClientMap!Absent, Absent,
           ClientMap!Missing, Missing, ClientMap!NoKey, NoKey, A, R
    <3>. QED  BY <1>2, <3>3 DEF ClientMap!Next
  <2>2. CASE Enter(t, "work", "work") /\ Add(t, k, Order(t).val)
    <3>1. /\ adding[t] = k /\ chain' = [chain EXCEPT ![k] = Append(@, Order(t).val)]
          /\ adding' = [adding EXCEPT ![t] = Added] /\ UNCHANGED result
      BY <2>2 DEF Add
    <3>2. A' = [A EXCEPT ![c] = Added] /\ R' = [R EXCEPT ![c] = result[t]]
          /\ A[c] = k /\ R[c] = result[t]
      BY <1>0, <1>2, <1>10, <3>1
    <3>3. UNCHANGED R
      BY <1>2, <1>4, <3>2
    <3>4. ClientMap!Add(c, k, Order(t).val)
      BY <1>2, <3>1, <3>2, <3>3 DEF ClientMap!Add, ClientMap!Added, Added, A, R
    <3>. QED  BY <1>2, <3>4 DEF ClientMap!Next
  <2>3. CASE Enter(t, "work", "done") /\ Confirm(t)
    <3>1. /\ adding[t] = Added /\ adding' = [adding EXCEPT ![t] = NoKey]
          /\ result' = [result EXCEPT ![t] = Inserted] /\ UNCHANGED chain
          /\ phase'[t] = "done"
      BY <1>0, <2>3 DEF Confirm, Answers, Enter
    <3>2. A' = [A EXCEPT ![c] = NoKey] /\ R' = [R EXCEPT ![c] = Inserted] /\ A[c] = Added
      BY <1>0, <1>2, <1>10, <3>1
    <3>3. ClientMap!Confirm(c)
      BY <1>2, <3>1, <3>2 DEF ClientMap!Confirm, ClientMap!Answers, ClientMap!Inserted,
           Inserted, ClientMap!Added, Added, ClientMap!NoKey, NoKey, A, R
    <3>. QED  BY <1>2, <3>3 DEF ClientMap!Next
  <2>4. CASE Enter(t, "work", "done") /\ adding[t] = NoKey /\ Refuse(t, k)
    <3>1. Refuse(t, k) /\ phase'[t] = "done"
      BY <1>0, <2>4 DEF Enter
    <3>2. ClientMap!Refuse(c, k)
      BY <1>5, <3>1 DEF Refuse, Answers, Absent, ClientMap!Refuse, ClientMap!Answers,
                        ClientMap!Absent, Refused, ClientMap!Refused, A, R
    <3>. QED  BY <1>2, <3>2 DEF ClientMap!Next
  <2>. QED  BY <1>8, <2>1, <2>2, <2>3, <2>4 DEF Insert
<1>9. CASE RefuseBucket(t) \/ CreateFails(t) \/ FillSegment(t)
  <2>1. ReadBucket(t) /\ phase'[t] = "done"
    BY <1>0, <1>9 DEF RefuseBucket, CreateFails, FillSegment, Enter
  <2>2. ClientMap!ReadBucket(c)
    BY <1>5, <2>1 DEF ReadBucket, Answers, ClientMap!ReadBucket, ClientMap!Answers,
                      Missing, ClientMap!Missing, Copied, ClientMap!Copied, A, R
  <2>. QED  BY <1>2, <2>2 DEF ClientMap!Next
<1>. QED  BY <1>6, <1>7, <1>8, <1>9 DEF TableStep

LEMMA SystemMapStep ==
  SysIInv /\ SysIInv' /\ [SystemNext]_systemVars => [ClientMap!Next]_(ClientMap!vars)
<1>. SUFFICES ASSUME SysIInv, SysIInv', [SystemNext]_systemVars
              PROVE  ClientMap!Next \/ UNCHANGED ClientMap!vars
  OBVIOUS
<1>1. ASSUME NEW c \in Clients, Ask(c) \/ Proceed(c) \/ Kill(c)
      PROVE  UNCHANGED ClientMap!vars
  BY <1>1, ClientStutters, HearStutters DEF Proceed
<1>2. ASSUME NEW t \in Threads, Serve(t) PROVE ClientMap!Next \/ UNCHANGED ClientMap!vars
  BY <1>2, ServerStutters, ServerCalls, RespondStutters DEF Serve, ShareBucket
<1>3. CASE UNCHANGED systemVars
  <2>1. /\ UNCHANGED <<chain, adding, result, job, slots, heard, reply, phase>>
        /\ \A t \in Threads : P!InCall(t)' <=> P!InCall(t)
    BY <1>3 DEF systemVars, vars, boxVars, clientVars, serverVars, P!InCall
  <2>. QED  BY <2>1, SameForAll
<1>. QED  BY <1>1, <1>2, <1>3, SystemAssumption DEF SystemNext

LEMMA SystemMapInit == SystemInit => ClientMap!Init
<1>. SUFFICES ASSUME SystemInit PROVE ClientMap!Init
  OBVIOUS
<1>1. SysIInv
  BY InitSysIInv
<1>2. \A c \in Clients : Told(c)
  BY <1>1, AllTold
<1>3. P!Init
  BY BoxStates DEF SystemInit
<1>4. \A c \in Clients : Outcome(c) = Missing /\ AddingFor(c) = NoKey
  <2>1. \A c \in Clients : \A t \in Threads : ~Executes(t, c)
    BY <1>3, Identities DEF P!Init, P!InCall, Executes
  <2>2. \A c \in Clients : \A i \in 0 .. N - 1 : ~Replied(i, c)
    BY <1>3, Identities DEF P!Init, Replied, P!FreeSlot
  <2>. QED  BY <1>2, <2>1, <2>2 DEF Told, SystemInit
<1>. QED  BY <1>4 DEF SystemInit, ClientMap!Init, ClientMap!NoKey, NoKey, ClientMap!Missing,
                      Missing

\* To its clients the server is the map: each call of a client takes effect in
\* one step of the thread that serves it, and what that step returned is what
\* the client hears, by way of a thread, a slot and sendMsg()'s return.
THEOREM ImplementsClientMap == SystemSpec => ClientsShareMap
BY AlwaysSysIInv, SystemMapInit, SystemMapStep, PTL
   DEF SystemSpec, ClientsShareMap, ClientMap!Spec

=============================================================================
