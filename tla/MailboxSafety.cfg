\* Three clients and two threads share two slots, so slots are reused while
\* earlier answers have not been fetched.  Two clients may be killed.
CONSTANTS
  N = 2
  Clients = {a, b, c}
  Threads = {s, t}
  Main = Main
  MaxRequests = 2
  Mortal = {a, b}
  MayStop = FALSE
  Nobody = Nobody

SPECIFICATION Spec

SYMMETRY Symmetry

INVARIANTS
  TypeOK
  OneCopy
  NoSleeperForgotten
  OneSlotPerDeath
PROPERTIES
  AnswersMatch

\* Requests of survivors may wait for ever behind a slot nobody empties.
CHECK_DEADLOCK FALSE
