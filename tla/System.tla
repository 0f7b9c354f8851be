------------------------------- MODULE System -------------------------------
(***************************************************************************)
(* The whole program: clients that read commands (client.cpp), the Mailbox *)
(* through which they reach the server (Mailbox.tla), the server threads   *)
(* that execute a command on the table and answer (respond() of            *)
(* server.cpp), and the shared memory segments that carry a bucket to a    *)
(* client, named after its pid: created and filled by the thread that      *)
(* serves READ_BUCKET, unlinked by the thread that gets the client's       *)
(* CLOSE_SHM.                                                              *)
(*                                                                         *)
(* Queue and response slots are the variables and actions of Mailbox, the  *)
(* table those of ConcurrentMap, which HashTable.tla refines.  Shutdown is *)
(* left to Mailbox.                                                        *)
(*                                                                         *)
(* ReadWithoutClose, AnswerBeforeFill, FillAndUnlink and RespondShared     *)
(* are bugs this code could have.                                          *)
(***************************************************************************)
EXTENDS ConcurrentMap

CONSTANTS
  Clients,
  Mortal,        \* the clients that may be killed
  Scripts,       \* the ways to give each client a sequence of commands
  MaxRequests,   \* bound: messages a client sends, those of its longest script
  Main, Nobody   \* see Mailbox

Command == [op : {"get", "insert", "delete", "read"}, key : Keys, val : Values]
NoSegment == [n |-> 0, filled |-> FALSE]
Segment == [n : 0 .. MaxRequests, filled : BOOLEAN]

ASSUME SystemAssumption ==
  /\ IsFiniteSet(Clients) /\ Mortal \subseteq Clients
  /\ Clients \cap Threads = {}
  /\ {Main, Nobody} \cap (Clients \cup Threads) = {}
  /\ Values \cap Outcomes = {}
  /\ MaxRequests \in Nat
  /\ Scripts \subseteq [Clients -> Seq(Command)]

VARIABLES
  queue, tail, slots, lock, pc, at, job, asked, got, exits,   \* see Mailbox
  todo,       \* the commands each client has left, the current one first
  stage,      \* what its next step outside sendMsg() is
  heard,      \* the response it got last
  phase,      \* what each thread does with the request it popped
  reply,      \* the response in each slot that is ready
  segment,    \* the segment with each client's name
  up          \* does the server's process exist?

N == Cardinality(Threads)
Box == INSTANCE Mailbox WITH MayStop <- FALSE

boxVars == <<queue, tail, slots, lock, pc, at, job, asked, got, exits>>
clientVars == <<todo, stage, heard>>
serverVars == <<phase, reply, segment, up>>
systemVars == <<vars, boxVars, clientVars, serverVars>>

SystemInit ==
  /\ chain = [k \in Keys |-> << >>]
  /\ adding = [t \in Threads |-> NoKey]
  /\ result = [t \in Threads |-> Missing]
  /\ Box!Init
  /\ todo \in Scripts
  /\ stage = [c \in Clients |-> "command"]
  /\ heard = [c \in Clients |-> Missing]
  /\ phase = [t \in Threads |-> "done"]
  /\ reply = [i \in 0 .. N - 1 |-> Missing]
  /\ segment = [c \in Clients |-> NoSegment]
  /\ up = TRUE

-----------------------------------------------------------------------------
(***************************************************************************)
(* The client.                                                             *)
(***************************************************************************)
Ask(c) ==
  /\ stage[c] = "command" /\ todo[c] # << >>
  /\ Box!Send(c, "ask")
  /\ UNCHANGED <<vars, clientVars, serverVars>>

Await(c) ==
  /\ Box!Lock(c) \/ Box!Sleep(c)
  /\ UNCHANGED <<vars, clientVars, serverVars>>

Hear(c) ==
  /\ Box!Take(c)
  /\ heard' = [heard EXCEPT ![c] = reply[at[c]]]
  /\ reply' = [reply EXCEPT ![at[c]] = Missing]
  /\ \/ /\ heard'[c] = Copied
        /\ stage' = [stage EXCEPT ![c] = "open"]
        /\ UNCHANGED todo
     \/ /\ heard'[c] # Copied
        /\ todo' = [todo EXCEPT ![c] = Tail(@)]
        /\ UNCHANGED stage
  /\ UNCHANGED <<vars, phase, segment, up>>

\* The client maps the segment named in the response and copies what is there.
ReadWithoutClose(c) ==
  /\ stage[c] = "open" /\ pc[c] = "idle" /\ segment[c] # NoSegment
  /\ stage' = [stage EXCEPT ![c] = "command"]
  /\ todo' = [todo EXCEPT ![c] = Tail(@)]
  /\ UNCHANGED <<vars, boxVars, heard, serverVars>>
ReadSegment(c) ==
  /\ stage[c] = "open" /\ pc[c] = "idle" /\ segment[c] # NoSegment
  /\ stage' = [stage EXCEPT ![c] = "close"]
  /\ UNCHANGED <<vars, boxVars, todo, heard, serverVars>>

\* If shm_open() or mmap() fails, as the first does without a segment, it exits.
OpenFails(c) ==
  /\ stage[c] = "open" /\ Box!Die(c)
  /\ UNCHANGED <<vars, clientVars, serverVars>>

\* CLOSE_SHM is sent, and not waited for.
Close(c) ==
  /\ stage[c] = "close"
  /\ Box!Send(c, "close")
  /\ stage' = [stage EXCEPT ![c] = "command"]
  /\ todo' = [todo EXCEPT ![c] = Tail(@)]
  /\ UNCHANGED <<vars, heard, serverVars>>

Kill(c) == Box!Die(c) /\ UNCHANGED <<vars, clientVars, serverVars>>

(***************************************************************************)
(* A thread of the server.  What a request asks for is the command its     *)
(* sender still has at the head of its script.                             *)
(***************************************************************************)
Owner(t) == job[t].from
Order(t) == Head(todo[Owner(t)])

Enter(t, from, to) == up /\ phase[t] = from /\ phase' = [phase EXCEPT ![t] = to]

Fetch(t) ==
  /\ Box!PopHead(t)
  /\ Enter(t, "done", IF Head(queue).msg.mode = "close" THEN "unlink" ELSE "work")
  /\ UNCHANGED <<vars, clientVars, reply, segment, up>>

\* GET, INSERT and DELETE.
Lookup(t) ==
  /\ Enter(t, "work", "done")
  /\ \/ Order(t).op = "get"
     \/ Order(t).op = "delete" /\ Absent(Order(t).key)
  /\ Get(t, Order(t).key)
Delete(t) ==
  /\ Enter(t, "work", "done")
  /\ Order(t).op = "delete" /\ Remove(t, Order(t).key)
Insert(t) ==
  /\ phase[t] = "work" /\ Order(t).op = "insert"
  /\ LET k == Order(t).key IN
     \/ Enter(t, "work", "work") /\ FindAbsent(t, k)
     \/ Enter(t, "work", "work") /\ Add(t, k, Order(t).val)
     \/ Enter(t, "work", "done") /\ Confirm(t)
     \/ Enter(t, "work", "done") /\ adding[t] = NoKey /\ Refuse(t, k)

TableStep(t) ==
  /\ Lookup(t) \/ Delete(t) \/ Insert(t)
  /\ UNCHANGED <<boxVars, clientVars, reply, segment, up>>

\* READ_BUCKET: the index is out of bounds, or the bucket is copied,
RefuseBucket(t) ==
  /\ Enter(t, "work", "done")
  /\ Order(t).op = "read" /\ ReadBucket(t) /\ result'[t] = Missing
  /\ UNCHANGED <<boxVars, clientVars, reply, segment, up>>
CopyBucket(t) ==
  /\ Enter(t, "work", "create")
  /\ Order(t).op = "read"
  /\ UNCHANGED <<vars, boxVars, clientVars, reply, segment, up>>

\* a segment is created, or the one with that name opened, and mapped,
SetSegment(c, s) == segment' = [segment EXCEPT ![c] = s]
Blank(t) == [n |-> job[t].n, filled |-> FALSE]

AnswerBeforeFill(t) ==
  /\ Enter(t, "create", "done")
  /\ SetSegment(Owner(t), Blank(t))
  /\ ReadBucket(t) /\ result'[t] = Copied
  /\ UNCHANGED <<boxVars, clientVars, reply, up>>
CreateSegment(t) ==
  /\ Enter(t, "create", "fill")
  /\ SetSegment(Owner(t), Blank(t))
  /\ UNCHANGED <<vars, boxVars, clientVars, reply, up>>

\* unless shm_open() fails, or ftruncate(), or mmap(), which leaves it behind,
CreateFails(t) ==
  /\ Enter(t, "create", "done")
  /\ \E s \in {segment[Owner(t)], NoSegment, Blank(t)} : SetSegment(Owner(t), s)
  /\ ReadBucket(t) /\ result'[t] = Missing
  /\ UNCHANGED <<boxVars, clientVars, reply, up>>

\* and filled.  If it was unlinked meanwhile, nobody else can see that.
FillAndUnlink(t) ==
  /\ Enter(t, "fill", "done")
  /\ SetSegment(Owner(t), NoSegment)
  /\ ReadBucket(t) /\ result'[t] = Copied
  /\ UNCHANGED <<boxVars, clientVars, reply, up>>
FillSegment(t) ==
  /\ Enter(t, "fill", "done")
  /\ SetSegment(Owner(t), IF segment[Owner(t)] = NoSegment THEN NoSegment
                          ELSE [Blank(t) EXCEPT !.filled = TRUE])
  /\ ReadBucket(t) /\ result'[t] = Copied
  /\ UNCHANGED <<boxVars, clientVars, reply, up>>

\* CLOSE_SHM.  If there is nothing to unlink, the server exits.
Unlink(t) ==
  /\ Enter(t, "unlink", "done")
  /\ segment[Owner(t)] # NoSegment /\ SetSegment(Owner(t), NoSegment)
  /\ UNCHANGED <<vars, boxVars, clientVars, reply, up>>
UnlinkFails(t) ==
  /\ Enter(t, "unlink", "unlink")
  /\ segment[Owner(t)] = NoSegment /\ up' = FALSE
  /\ UNCHANGED <<vars, boxVars, clientVars, reply, segment>>

AwaitSlot(t) ==
  /\ up /\ phase[t] = "done"
  /\ Box!Lock(t) \/ Box!Sleep(t)
  /\ UNCHANGED <<vars, clientVars, serverVars>>
RespondShared(t) ==      \* all threads prepare their response in one place
  /\ up /\ Box!Answer(t)
  /\ \E u \in Threads : reply' = [reply EXCEPT ![at[t]] = result[u]]
  /\ result' = [result EXCEPT ![t] = Missing]
  /\ UNCHANGED <<chain, adding, clientVars, phase, segment, up>>
Respond(t) ==
  /\ up /\ Box!Answer(t)
  /\ reply' = [reply EXCEPT ![at[t]] = result[t]]
  /\ result' = [result EXCEPT ![t] = Missing]
  /\ UNCHANGED <<chain, adding, clientVars, phase, segment, up>>

-----------------------------------------------------------------------------
Proceed(c) == Await(c) \/ Hear(c) \/ ReadSegment(c) \/ OpenFails(c) \/ Close(c)
ShareBucket(t) == \/ RefuseBucket(t) \/ CopyBucket(t) \/ CreateSegment(t)
                  \/ CreateFails(t) \/ FillSegment(t)
Serve(t) == \/ Fetch(t) \/ TableStep(t) \/ ShareBucket(t)
            \/ Unlink(t) \/ UnlinkFails(t) \/ AwaitSlot(t) \/ Respond(t)

SystemNext ==
  \/ \E c \in Clients : Ask(c) \/ Proceed(c)
  \/ \E c \in Mortal : Kill(c)
  \/ \E t \in Threads : Serve(t)

SystemSpec == SystemInit /\ [][SystemNext]_systemVars

\* The processes are run.  A client sends its next command when the user types
\* it, but what it began it ends: sendMsg() tries again while the queue is full.
SystemFairness ==
  /\ \A c \in Clients : WF_systemVars(Proceed(c))
  /\ \A t \in Threads : WF_systemVars(Serve(t))
FairSystem == SystemSpec /\ SystemFairness

-----------------------------------------------------------------------------
(***************************************************************************)
(* Properties.                                                             *)
(***************************************************************************)

\* Every variable keeps its type.
SystemTypeOK ==
  /\ TypeOK /\ Box!TypeOK
  /\ todo \in [Clients -> Seq(Command)]
  /\ stage \in [Clients -> {"command", "open", "close"}]
  /\ heard \in [Clients -> Values \cup Outcomes]
  /\ phase \in [Threads -> {"done", "work", "create", "fill", "unlink"}]
  /\ reply \in [0 .. N - 1 -> Values \cup Outcomes]
  /\ segment \in [Clients -> Segment]
  /\ up \in BOOLEAN

\* What became of a client's last call: it is known by the thread that has
\* executed it, then by the response slot, then by the client.
Executing(c) ==
  {t \in Threads : job[t] = Box!Open(c) /\ Box!InCall(t)
                     /\ (phase[t] = "done" \/ adding[t] # NoKey)}
Outcome(c) ==
  LET ts == Executing(c)
  IN  IF ts # {} THEN result[CHOOSE t \in ts : TRUE]
      ELSE IF Box!InSlot(c) # {} THEN reply[at[c]] ELSE heard[c]
AddingFor(c) ==
  LET ts == Executing(c)
  IN  IF ts = {} THEN NoKey ELSE adding[CHOOSE t \in ts : TRUE]

\* To its clients the server is the map: every call of a client has the effect
\* and the result of that one operation, on whatever thread it runs, whatever
\* slot its answer takes, and whichever other clients are killed meanwhile.
ClientMap == INSTANCE ConcurrentMap WITH
               Threads <- Clients,
               adding <- [c \in Clients |-> AddingFor(c)],
               result <- [c \in Clients |-> Outcome(c)]
ClientsShareMap == ClientMap!Spec

\* What a client finds in its segment is the complete bucket of the read it
\* asked for last, even if the segment was there before, left by a failed read
\* or because CLOSE_SHM of the last one is still on its way (server.cpp:198).
ReadsOwnBucket ==
  \A c \in Clients : stage[c] = "open" /\ segment[c] # NoSegment =>
    segment[c] = [n |-> asked[c], filled |-> TRUE]

\* A segment that is gone when its client opens it or closes it was unlinked by
\* the CLOSE_SHM of an earlier read of that client.  A client that reads one
\* bucket only gets it, and does not bring the server down.
ReadsTwice(c) == asked[c] > 2
FirstReadSafe ==
  /\ \A c \in Clients : stage[c] \in {"open", "close"} /\ ~ReadsTwice(c) =>
       segment[c] # NoSegment
  /\ ~up => \E c \in Clients : ReadsTwice(c)

\* The segment is there from the answer until the client is done with it
\* (server.cpp:191 to 193).
SegmentUntilClosed ==
  \A c \in Clients : stage[c] \in {"open", "close"} => segment[c] # NoSegment

\* A segment that was handed to a client is unlinked in the end, unless the
\* server exits, the reader can not open it, or a client is killed, whose slot
\* then blocks the thread that has to unlink.
Gone(c) == pc[c] \in {"dead", "deadAsleep"}
SegmentsUnlinked ==
  \A c \in Clients : segment[c].filled ~>
    ~segment[c].filled \/ ~up \/ Gone(c) \/ \E m \in Mortal : Gone(m)

=============================================================================
