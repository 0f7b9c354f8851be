\* Two clients, one of which may be killed, and two threads.  They run the
\* script of run_many.sh, compete for a common key, or read buckets.
CONSTANTS
  a = a
  b = b
  own = own
  shared = shared
  Threads = {s, t}
  Keys = {own, shared}
  Values = {a, b}
  Clients = {a, b}
  Mortal = {b}
  Scripts <- AllScripts
  MaxRequests = 5
  Main = Main
  Nobody = Nobody

SPECIFICATION FairSystem

INVARIANTS
  SystemTypeOK
  ReadsOwnBucket
  
  BoundedDuplicates

PROPERTIES
  
  OwnKeys
  SegmentsUnlinked

\* Scripts end, and a client that was killed may block the others.
CHECK_DEADLOCK FALSE
