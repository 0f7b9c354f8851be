\* SIGINT at any moment while two clients send two messages each; main() then ends
\* and destroys the Mailbox under them.
CONSTANTS
  N = 2
  Clients = {a, b}
  Threads = {s, t}
  Main = Main
  MaxRequests = 2
  Mortal = {}
  MayStop = TRUE
  Nobody = Nobody

SPECIFICATION FairSpec

PROPERTIES
  EveryRequestAnswered
  StopsUnlessDropped

\* The threads end, or wait for requests that do not come.
CHECK_DEADLOCK FALSE
