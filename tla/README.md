# A formal model of SharedMemoryHashtable

TLA+ modules, TLC configurations and TLAPS proofs for the concurrent hash table
`HashTable<K, V>` and the client/server example built on it. Paths and line
numbers refer to the files of the repository (`hashtable.h:124` is line 124 of
`hashtable.h`). `PROJECT.json` maps every definition to the lines it models.

## 1. Inventory

### Components, their state and their operations

| Component | State | Operations |
|---|---|---|
| `HashTable` (`hashtable.h`) | `_storage`: nodes with a list and a `shared_mutex` each; `_mutex`: one `shared_mutex` for the table; atomics `_size`, `_capacity` | `insert`, `get`, `remove`, `operator[]` and assignment through `Proxy`, `getBucket`, `getKeys`, `getValues`, `print_table`; internally `needsResize`, `resize`, `collectPairs`, `insert_unsafe` |
| `CircularBuffer` (`circular_buffer.h`) | array of N slots, `_headIdx`, `_tailIdx`, `_size`, `_pmutex`, semaphores `_openSlots` and `_fullSlots` | `push_back`, `pop`, `update`, `peek`, `at`, `isFull`, `isEmpty`, `size` |
| `Mailbox` (`message.h`) | a `CircularBuffer` of requests; per slot a response (`ready`, `client_id`, payload), a mutex and a condition variable | none of its own: server and client work on it |
| `PMutex`, `CountingSemaphore` (`mutex.h`, `mutex.cpp`) | a process-shared mutex; `sem_t`, or on macOS a counter with mutex and condition variable | `lock`, `unlock`, `wait`, `post` |
| Server (`server.cpp`) | the table, the mapping, `running`, N threads | `receiveMsg`, `respond`, shutdown in `main` |
| Client (`client.cpp`) | its pid, its mapping | `sendMsg`, the command loop in `main` |
| READ_BUCKET segments (`server.cpp:194`, `client.cpp:274`) | one shared memory segment per client, named after its pid | created and filled by the server, mapped by the client, unlinked at CLOSE_SHM |

### How they interact

A client builds a `Message`, calls `push_back` until the queue has room, and
waits at the response slot whose index `push_back` returned. A server thread
pops the message together with the same index, performs one operation of the
table, waits until that response slot is free, writes the answer and broadcasts
on the slot's condition variable. The client takes the answer, frees the slot
and broadcasts, because a server thread may wait for it. N (the constant
`slots`) is the number of request slots, of response slots and of threads. On
SIGINT `main` pushes N messages with mode EXIT, joins the threads and destroys the
Mailbox.

READ_BUCKET takes a detour: the thread that serves it creates a shared memory
segment named after the client's pid, copies the bucket there and answers; the
client maps the segment, copies it and sends CLOSE_SHM, which is not answered;
whichever thread pops that unlinks the segment.

### What is hard

* `insert` looks the key up and appends in different critical sections;
  `ht[k] = v` is get, remove and insert.
* A thread that finds the table too full or too empty lets go of the table's
  lock, takes it in write mode, asks again, rebuilds, and goes back to compete
  for the read lock. `needsResize` reads `_size` twice without a lock on any
  bucket.
* `push_back` and `pop` decide on a stale answer of `isFull`/`isEmpty` before
  they wait on a semaphore.
* Response slots are reused before their answers were fetched. Threads and
  clients sleep on the same condition variable for different reasons.
* A CLOSE_SHM may still be on its way, or in the hands of a thread that was
  preempted, when the client's next READ_BUCKET is served.
* Clients die with a request in flight or inside `push_back`; the server is
  interrupted; the Mailbox is destroyed under clients that still use it.

### What makes each part correct

* Table: it is a map under all interleavings and resizes (to the degree
  `insert` allows), nothing touches a freed node, `_size` agrees with the
  content, locks do not deadlock, resizing does not go round in circles.
* Buffer: FIFO, no message lost, overwritten or delivered twice, the index
  given to the producer is the one the consumer sees, nobody blocks for ever.
* Protocol: each request gets one answer, the right one, at the right client;
  no wake-up is lost; a dead client harms little; shutdown ends.
* The whole: to its clients the server is the map; a segment holds the complete
  bucket its client asked for last, is there until the client has read it, and is
  unlinked then.

## 2. Modules

| Module | What it is |
|---|---|
| `ConcurrentMap` | what the table promises: a list of values per key, `get` and `remove` atomic, `insert` in two steps |
| `HashTable` | the table itself, step by step; refines `ConcurrentMap` |
| `MCHashTable` | its instances for TLC: programs, hash values, initial content |
| `BoundedQueue` | what the buffer promises: a FIFO queue with slot indices |
| `CircularBuffer` | the buffer itself; refines `BoundedQueue` |
| `MCCircularBuffer` | its instance |
| `Mailbox`, `MCMailbox` | the request/response protocol over a `BoundedQueue`, and its instances |
| `System`, `MCSystem` | the whole program: clients with scripts of commands, `Mailbox`, `ConcurrentMap`, and the segments of READ_BUCKET; its instances |
| `Semaphore` | what a semaphore promises |
| `CountingSemaphore`, `MCSemaphore` | the semaphore of the macOS build; refines `Semaphore` |
| `CircularBufferProofs`, `ConcurrentMapProofs`, `CountingSemaphoreProofs`, `HashTableProofs`, `HashTableContentProofs`, `MailboxProofs`, `SystemProofs` | theorems about the module of that name (section 4); `HashTableContentProofs` goes on from `HashTableProofs` |
| `ModularArithmetic` | lemmas about `%` that several proofs need |

### HashTable

The table's variables carry the names of the members. `storage[i]` is a record
of the list and of the holders of the bucket's lock, `readers` and `writer` are
the holders of `_mutex`. Each thread has a program counter, the operation it is
in, the bucket it works on and the calls it still has to make. A call is a
sequence of operations with locks of their own (`FirstOf`, `Following`):
`insert` is `exists` (line 124) and then `insert`; `ht[k] = v` is the subscript,
`get`, perhaps `remove`, `exists`, `insert`.

Steps: taking `_mutex` and hashing (`LockTable`); the two reads of `_size` in
`needsResize` (`CheckEmpty`, `CheckLoad`); the resize as lock, one step per
bucket collected, rebuild, one step per entry put back, unlock; taking the
bucket's lock (`LockBucket`); the access. `insert` changes the list and `_size`
in two steps, `remove` in the other order. The last access of an operation and
its unlocking are one step: releasing a lock only enables others. `_capacity`
and `_storage` are changed in one step, under the write lock, because nobody
reads `_storage` without a lock and nobody's reading of `_capacity` alone is
told apart from a read earlier or later.

`_size` is a `size_t`: it counts modulo `Wrap`, and the load factor of a table
whose `_size` fell to zero between the two reads wraps around, as in the code.
`std::shared_mutex` leaves open whether a waiting writer holds back new readers:
a reader may always take a free lock, but fairness does not promise that it does
while a writer waits (`HeldBack`). A bucket that does not exist (`getBucket` after
a shrink, undefined behaviour) yields garbage or hangs (`StrayBucket`);
`operator[]` of an absent key yields `Garbage`.

`getKeys` and `getValues` are the same walk (`Scan`): `_mutex` in read mode, once
more in read mode, then one bucket after the other. Between the lock of a bucket
in read mode and its release nothing can happen to it, so a bucket is one step;
`seen` is the vector that is returned.

Data: keys are model values with a hash each, values are model values.

### CircularBuffer

`isFull`, `isEmpty` and `update` are single critical sections, one step each.
`push_back` and `pop` are check, semaphore wait, lock and access, advance and
unlock, semaphore post. `given` and `out` record the index `push_back` returned
and the message and index `pop` returned. The refinement mapping (`Waiting`,
`Back`) reads the queue off the slots between head and tail, looking through
the half-finished section of the process that holds the mutex. A `push_back`
that returns -1 and a `pop` that returns nothing change no state, so they are no
actions. `Die` kills a producer between any two steps; what it holds stays held:
neither the mutex nor the semaphores are robust (`mutex.cpp:13`).

### Mailbox

The queue is that of `BoundedQueue`: one step per push and pop. A response slot
is the record of the ready flag, the client's id and the request it answers.
`Lock`, `Sleep`, `Take` (client) and `Answer` (server thread) are the critical
sections of `sendMsg` and `respond`; the mutex is held between locking and
either sleeping or leaving. A broadcast moves all sleepers of the slot to where
they lock again. `Die` may strike a client anywhere, also while it holds a
mutex, which then stays locked (`mutex.cpp:13`). `Stop`, `PushExit`, `Join` and
`Destroy` are the end of the server's `main`; `PushExit` ignores a full queue, as
the code does. Destroying a condition variable somebody sleeps at is undefined:
it blocks, as in glibc, or fails and ends `main` (`DestroyBusy`), as does a mutex
that is locked. A client that finds the mutexes destroyed exits (`Fail`).

### System

The variables of `ConcurrentMap` and of `Mailbox` (as `Box`), and its own: the
commands each client has left (`todo`), whether its next step outside `sendMsg` is
a command, opening a segment or closing it (`stage`), the last response (`heard`),
what a thread does with the request it popped (`phase`), the responses in the
slots (`reply`), the segment with each client's name, and whether the server
exists (`up`).

Every action joins a step of the parts: `Ask` and `Close` are pushes of `Mailbox`,
`Hear` takes an answer and goes on with the script, `Fetch` pops, `TableStep` is a
step of `ConcurrentMap` on behalf of the client, `Respond` writes what it returned.
So the table is used through its specification, which `HashTable` implements, and
an INSERT is two steps with other threads in between. A message is not copied
through the queue: what a request asks for is the command at the head of its
sender's script, which does not move before the answer is there.

READ_BUCKET is `RefuseBucket` (bad index), or `CopyBucket`, `CreateSegment` or
`CreateFails`, `FillSegment`. `shm_open`, `ftruncate` and `mmap` may each fail: the
first leaves what was there, the second unlinks it, the third leaves a blank
segment. A segment is reduced to the number of the request it was made for and
whether it is complete. `Unlink` and `UnlinkFails` are CLOSE_SHM; the second ends
the server (`server.cpp:255`). `OpenFails` is the exit of a client that cannot open
or map its segment (`client.cpp:278`, `:289`); it sends no CLOSE_SHM.

### CountingSemaphore

The variant of `mutex.cpp` for macOS. `_count` changes only under `_mutex`, so
what happens between locking it and unlocking, or sleeping, is one step. A signal
wakes one sleeper or more and a sleeper may wake up without one (`WakeUp`), as
POSIX allows; fairness does not count on either. `README.md:16` of the repository
reports deadlocks on that platform and suspects `pthread_cond_wait`. The run
supports the suspicion: with a condition variable that does what POSIX says,
`wait` and `post` are an atomic semaphore.

### The abstract specifications

`ConcurrentMap` says that resizing and locking are invisible: every operation
takes effect on its key at one point, a key's entries are served oldest first,
`insert` appends after having seen the key absent at some earlier moment.
`BoundedQueue` says that a message is enqueued and dequeued at one point, in
order, with its index; `Semaphore` that a token is taken or added at one point.
The refinements are checked as properties (`RefinesMap`, `RefinesQueue`,
`RefinesSemaphore`), and all three are theorems, `RefinesMap` of a table that does not
shrink under a READ_BUCKET (section 4). `ConcurrentMap` serves twice: `ClientsShareMap`
says that the whole `System` implements it again, with the clients in the place of the
threads. An outcome is known to the thread that executed the call, then to the response slot,
then to the client (`Outcome`); on the way it must neither change nor get lost.

## 3. Runs

| Run | Instance | What it shows |
|---|---|---|
| `MCCircularBuffer` | 2 slots, 2 producers with 2 messages, both may be killed inside `push_back`, 2 consumers, 1 updater | `TokensConserved`, `IndicesAgree`, `MutexHeld`, `NoOverrunNoUnderrun`, `RefinesQueue`; under fairness `EveryMessagePopped` and `PushReturns` |
| `TableGrow` | 3 threads: one inserts a key and uses it again, the others make one call each (insert, remove or get on 2 keys, or READ_BUCKET of a bucket that exists only later); 4 empty buckets | while the table grows to 8 buckets: `BucketInRange`, `BucketNotStale`, `Placement`, `SizeAccurate`, `RefinesMap`, `CallsReturn` |
| `TableShrink` | 3 threads (insert, remove, READ_BUCKET), 10 buckets, 2 entries | while it shrinks to 5: `LocksHeld`, `ErasesWhatItFound`, `NoResizeCircle` (after a shrink no insert or remove finds the table too full, after a growth none finds it too empty) |
| `TableStress` | the stress tests: one thread runs insert, scan, insert again, overwrite, get, remove on its own key, two threads insert, read and remove a common key; 4 buckets that grow | `OwnResults` (each call returns what the test requires), `OwnKeyListed` (a scan lists its key once), `Drained` (the table ends empty with `_size` 0), `RefinesMap` with `ht[k]` and `ht[k] = v` among the calls |
| `MCSemaphore` | 3 waiters, 2 posters, 2 calls each, 1 token | `RefinesSemaphore`, `NoTokenStranded`; under fairness `TokensTaken` |
| `MailboxSafety` | 2 slots, 2 threads, 3 clients with 2 messages, of which 2 clients may be killed | `OneCopy`, `NoSleeperForgotten`, `AnswersMatch`, `OneSlotPerDeath` |
| `MailboxAnswers` | 2 slots, 2 threads, 2 clients with 2 messages, SIGINT at any moment, fair | `EveryRequestAnswered`, `StopsUnlessDropped` |
| `MCSystem` | 2 threads, 2 clients, one of which may be killed; scripts: that of `run_many.sh` beside insert and delete of a common key, the latter beside two inserts of it, one read beside it, two reads beside one | `ClientsShareMap`, `OwnKeys` (call by call the answers `run_many.sh` gets alone), `ReadsOwnBucket`, `FirstReadSafe`, `BoundedDuplicates`; under fairness `SegmentsUnlinked` |

Four runs end in a violation, each of a sentence in the repository:

* `TableDuplicates` / `NoDuplicateKeys`: two concurrent `insert` of one key both
  succeed, against `hashtable.h:106`. `BoundedDuplicates` is what remains true,
  and `Drained` shows why the stress tests do not notice.
* `TableSubscript` / `SubscriptFinds`: `operator[]` of a key another thread
  removed dereferences `end()`, against `hashtable.h:361`. The same-keys stress
  test does this (`hashtable_tests.cpp:191`).
* `MailboxShutdown` / `ServerStops`: an EXIT message that finds the queue full
  is dropped (`server.cpp:428`), one thread never returns and `main` waits at
  `server.cpp:431` for ever. `StopsUnlessDropped` says what else can keep it:
  only a client asleep at a condition variable that is being destroyed.
* `SystemLateClose` / `SegmentUntilClosed`: a client reads two buckets, and the
  CLOSE_SHM of the first unlinks the segment of the second, against
  `server.cpp:191`. The client then exits, or its CLOSE_SHM ends the server.
  `FirstReadSafe` is what remains true: this takes a second read.

### Bounds, and why they suffice

* Two slots are the smallest buffer in which head and tail differ and wrap
  separately; with two producers and two consumers every stale answer of
  `isFull` and `isEmpty` occurs, and four messages wrap the indices twice.
  The safety properties are proved for every N.
* Three threads are enough for a resizer, a thread that waits to resize as well,
  and one inside a bucket. With hashes 1, 5 and 9 all keys collide in 4 buckets,
  in 8 two of them collide (keys 1 and 9), in 5 none does. A table of 4 buckets
  grows at the first insert or remove once it holds an entry; 10 buckets with 2
  entries shrink at the first remove, and the second remove finds `_size` near
  zero between its reads.
* `Wrap` = 64 is out of reach of `_size`, so only a true underflow wraps.
* Two response slots with three clients make requests overtake: a slot is asked
  for again while its previous answer is still there. Six messages wrap the index
  three times. With shutdown, four requests and two EXIT messages do so as well,
  and find the queue of two full.
* In `System` two reads of one client are enough for a CLOSE_SHM that comes late,
  two threads for a request and a CLOSE_SHM in different hands, and two slots with
  two clients for both to wait at the same slot. `MaxRequests` is the length of
  the longest script.
* CHECK_DEADLOCK is off where programs or inputs are finite and the system
  rests when they are done; liveness properties rule out that it rests earlier.
  In `TableShrink` and `TableStress`, which state no liveness, the
  same locking code is at work as in `TableGrow`, which does (`CallsReturn`), except
  for scans: whether the second read lock of a scan is granted while a `resize`
  waits is up to the lock (see `HeldBack`), and nothing is claimed of it.

### Fairness

Weak fairness of each thread's or process's next step: the operating system runs
every thread that can run. No fairness is assumed of a client's decision to send,
of SIGINT or of death. Weak fairness suffices for locks and semaphores because
every program and input is finite, so nobody is overtaken for ever; strong
fairness, which neither `pthread_mutex` nor `shared_mutex` promises, is not
assumed. The server's threads poll `pop` for ever (`server.cpp:108`), and a
client repeats a failed `push_back` (`client.cpp:91`), which is why a message that
can be taken is taken. In `System` that covers the CLOSE_SHM of a client that has
read its segment; `SegmentsUnlinked` still excepts behaviours in which a client is
killed, since its slot may block the thread that would have to unlink.

Deaths cost what `EveryMessagePopped` and `PushReturns` name: under the mutex,
everything (`Blocked`); between `wait` and `post`, one slot (`Kept`) and one message
that no consumer is told of (`Untold`). Both bounds are tight: TLC refutes the
properties with either one lowered.

## 4. Proofs

Each theorem holds for every value of the constants that meets the named
assumption of its module: finite sets of processes that do not clash, at least
one slot, bucket or thread, a starting table in which every entry is in its bucket and
no key is present twice.
Programs, scripts, hash values and numbers of calls are arbitrary.
`TableAssumption`, `MailboxAssumption` and the others are evaluated in the runs.
Each proof has the same plan: an inductive invariant `IInv` (in `SystemProofs`,
`SysIInv`), which TLC was given as an invariant of the runs first; a lemma per
action or group of actions; the theorems from it.

**`CircularBufferProofs`**: `TypeOK`, `TokensConserved`, `IndicesAgree`,
`MutexHeld`, `NoOverrunNoUnderrun`, `RefinesQueue`. `IInv` is the conjunction of
the first four. None of them is inductive alone: that `size` stays in `0..N`
follows only from the tokens (a pusher past its wait holds one), that indices
agree needs the mutex (at most one index is one behind), and the mutex part needs
the types. `MoveCounts` counts the processes at a set of labels when one of them
moves; with it each action is arithmetic. The death of a producer leaves its
label and what it holds in place, so it preserves all four. `NoOverrunNoUnderrun`
follows: whoever is about to push or pop holds a token that `_size` accounts for,
so the `_size < 0` exits (`circular_buffer.h:109` and `:155`) are dead code. For
the refinement, `push_back` has its effect when it stores, `pop` when it reads,
and `update` when it overwrites; the lemmas on `Waiting` and `Back` say what the
queue between head and tail becomes, also while an index is one behind.

**`CountingSemaphoreProofs`**: `TypeOK`, `NoTokenStranded`, `RefinesSemaphore`. The
upper bound of the counter is not inductive; `TokensPosted`, that every token is
an initial one or that of a finished `post`, is.

**`ConcurrentMapProofs`**: `TypeOK`, `BoundedDuplicates`. A thread joins those that
are about to add a key only while the key is absent, and adds one entry when it
leaves them, so entries and adders together never exceed the number of threads.

**`HashTableProofs`**: `TypeOK`, `LocksHeld`, `BucketNotStale`, `Placement`,
`ErasesWhatItFound`, `NoResizeCircle`. The invariant adds to them that a thread's
operation is one its call consists of (`CallShape`), that the bucket it is in
exists (`InBucketExists`), and that the reason for a resize lasts until the table
is rebuilt (`ResizeDue`). The parts need one another: a hash stays good because a
thread that has computed it holds the read lock of the table (`LocksHeld`) and
the capacity changes only under the write lock; `remove` erases what it found
because the bucket's lock keeps others out of a bucket that is its own only while
the hash is good; an entry goes to its place for the same reason. The circle
(`hashtable.h:330`): `resize` starts only while `ResizeDue`, and then the
thresholds of the new capacity are out of reach of one entry more or less.
`FixedTableInRange` is about a table that is not resizable, and states that as its
hypothesis: there the bound check of READ_BUCKET (`server.cpp:169`) suffices. For one
that is, `BucketInRange` fails in general: the table may shrink between check and
lock.

**`HashTableContentProofs`** is about what the table holds.

`SizeAccurate`. The invariant (`SizeInv`) is that `_size` is,
modulo its width, the number of entries less the threads between the two halves of
`insert` or `remove`. Each of those threads has an entry of its own in a bucket
nobody else can write to, so the difference is not negative, and `_size` is the
number itself wherever a `size_t` can hold it. That is the theorem's hypothesis,
`Cardinality(Stored) < Wrap`: fewer entries than 2^64.

`RefinesMap`. The mapping reads off a list the values it holds under a key, oldest first
(`ValuesIn`): the n-th value is that of the position which is the n-th of the key's
positions, its rank. Ranks are cardinalities, so no induction over sequences is needed: a
map between positions that keeps their order keeps their ranks (`RankKept`), and
appending, erasing the first or dropping other keys are such maps (`ValuesAppend`,
`ValuesErase`, `ValuesSkip`). A key's values are those in its bucket, followed by those in
the list of a `resize` under way. The invariant adds to `IInv` that this list is empty when
nobody resizes, and that buckets already collected are empty (`Gathered`). Then collecting
a bucket, rebuilding and putting an entry back leave the values of every key as they are,
`insert` and `remove` change those of their own key, and nothing else does (`ChainsKept`).
`MapStep` names the operation of the map for each step; the only step without one is
`StrayBucket`. So the theorem `ImplementsMap` has the hypothesis `[]BucketInRange`, that
no `getBucket` is asked for a bucket that does not exist: behind it lies undefined
behaviour, of which no map can be shown. The hypothesis is met by a table that is not
resizable (`FixedTableImplementsMap`; the server with a size on its command line) and by
one that never shrinks (`GrowingTableImplementsMap`, from `GrowingTableInRange`, since
an index below the capacity stays below it). The server's default table may shrink
(`server.cpp:345`); there the hypothesis is about the clients' READ_BUCKETs, and where it
fails `hashtable.h` promises nothing.

How often a key is present needs no hypothesis of that kind. `Weight` is the number of
its entries and of the threads about to add one (`WeightMoves`): it rises only when
`insert` finds the key absent. `BoundedDuplicates` follows for the table itself
(`TableDuplicatesBounded`). The sentence that `TableDuplicates` refutes is true where
only one thread inserts or assigns a key (`NoDuplicatesByOne`).

`Drained` (`TableDrained`): starting empty, threads that remove every key after they
inserted or assigned it leave nothing, whatever other calls they make and however they
get in each other's way. `CleansUp` says so of a program; the stress tests are such
programs. The invariant is that the weight of a key is at most the number of threads that
have yet to make their last attempt at removing it (`Owed`): an attempt that fails has found
the key absent, and who is about to add it still owes its removal. This is why the stress
tests do not notice duplicates, for any number of threads.

**`MailboxProofs`**: `TypeOK`, `OneCopy`, `NoSleeperForgotten`, `AnswersMatch`,
`OneSlotPerDeath`, with deaths, SIGINT, EXIT messages and destruction. `OneCopy`
speaks of waiting clients; to be inductive it must also say that what is in a
slot, in the queue or with a thread comes from somebody who is in that call or died
in it (`AllDue`), and what is left of a dead client's request (`SinglyPlaced`). With
`LocksOwned`, who broadcasts is known to be alone at the slot, which gives
`NoSleeperForgotten`; it is inductive beside `AllDue`, because a thread may sleep only
at a slot whose answer somebody is due to fetch.

**`SystemProofs`**: `SystemTypeOK`, `ReadsOwnBucket`, `FirstReadSafe`,
`BoundedDuplicates`, `ClientsShareMap`. The steps of `Mailbox` in `System` are steps
of an instance of `MailboxProofs` in which every client is mortal (`OpenFails` ends
any), so its invariant holds without being proved again; likewise that of
`ConcurrentMapProofs`. What is new: a thread is in the phase of a request only while
it has that request (`Phases`); the command a request is for is still at the head
of the script (`Scripted`); a CLOSE_SHM is executed once, and one that is still on
its way when its client is busy again belongs to an earlier read (`ClosesOnce`,
`ClosesLate`); from the copy of a bucket to its CLOSE_SHM nobody else writes the
segment (`OwnBucket`), and for a client that reads once nobody removes it
(`FirstHolds`). For `ClientsShareMap` each step is an operation of the map on behalf
of the client whose request the thread executes, or a stutter: as `OneCopy` puts
the request in one place, at most one of thread, slot and client knows the
outcome, and handing it on (`SameTold`) changes nothing. Keys are distinct from the
markers of `ConcurrentMap` and values from outcomes (`SystemAssumption`): both
are markers of the model, which the code tells apart by type.

Only model-checked:

* Liveness: `EveryMessagePopped`, `PushReturns`, `CallsReturn`, `TokensTaken`,
  `EveryRequestAnswered`, `StopsUnlessDropped`, `SegmentsUnlinked`. Fairness and
  `ENABLED` are out of the prover's reach.
* `OwnResults`, `OwnKeyListed`, `OwnKeys`: statements about the programs of one run.

## 5. Not modelled

* `doctest.h`, a vendored test framework, is 7019 of the 9069 lines the repository
  counts as code, so no model of the system can cover a large share of them. The
  modules cover the operations of the table, the buffer, the semaphore, the
  Mailbox, the server and the client that change state; what is left of these
  files is comments, printing, string conversion and the checks listed here.
* How `print_table` pairs the results of its two scans (`hashtable.h:402`): the
  programs and the tests call it when no other thread is left. The const
  `operator[]` (does not compile when used). Tables of capacity 0. `size()`,
  `capacity()` and `load_factor()` called from outside, except in the bound check.
* `sem_t` and `pthread_mutex` on Linux: one step of the modules that use them.
* Methods of the buffer without a caller: `peek`, `at`, `operator[]`, `lock`, `unlock`.
* Spurious wake-ups in `Mailbox`: both waits are loops that would go back to sleep.
* Failing system calls other than those of READ_BUCKET and CLOSE_SHM: each ends the
  process. The descriptors and mappings that are never given back are not counted.
* A server that is started again over a segment in which clients still wait.
* Shutdown in `System`: it is in `Mailbox`, where commands have no content.
* Message contents, string conversion, limits on their length, the parsing of
  commands, the print-out of the server.
* Memory reordering: every shared variable is used under a lock or is an atomic,
  except in `printBuffer` and the print-out of the responses.

## 6. Plan

Done: the buffer with deaths, the abstract map, the table with its scans, the protocol
with shutdown and destruction, the semaphore, the whole program with the segments, and
the theorems of section 4: every safety invariant, action property and refinement
that is not about the programs of one run.

What is left:

1. `OwnResults` and `OwnKeys` for every program: a thread that is alone in inserting,
   assigning and removing a key gets the answers it would get alone.
2. `OwnKeyListed` for every program: a scan lists an entry nobody touches exactly once,
   as it holds the table's lock from the first bucket to the last.
3. In `System`, the table through `HashTable` itself in place of `ConcurrentMap`, whose use
   there now rests on `ImplementsMap`.
