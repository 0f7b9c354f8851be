\* SIGINT at any moment while clients send.
CONSTANTS
  N = 2
  Clients = {a, b}
  Threads = {s, t}
  Main = Main
  MaxRequests = 2
  Mortal = {}
  MayStop = TRUE
  Nobody = Nobody

SPECIFICATION FairSpec

PROPERTIES
  ServerStops

\* The threads end, or wait for requests that do not come.
CHECK_DEADLOCK FALSE
