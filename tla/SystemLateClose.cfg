\* One client reads two buckets, one after the other.
CONSTANTS
  a = a
  b = b
  own = own
  shared = shared
  Threads = {s, t}
  Keys = {own, shared}
  Values = {a, b}
  Clients = {a, b}
  Mortal = {}
  Scripts <- ReadScripts
  MaxRequests = 5
  Main = Main
  Nobody = Nobody

SPECIFICATION SystemSpec

INVARIANTS
  SegmentUntilClosed

\* Scripts end, and a client that was killed may block the others.
CHECK_DEADLOCK FALSE
