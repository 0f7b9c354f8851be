\* Two slots, four messages: the indices wrap, the buffer fills, and both
\* consumers can see the same single message.  Producers may be killed.
CONSTANTS
  N = 2
  Producers = {p1, p2}
  Consumers = {c1, c2}
  Updaters = {u1}
  Mortal = {p1, p2}
  MaxPushes = 2
  Free = Free

SPECIFICATION FairSpec

INVARIANTS
  TypeOK
  TokensConserved
  IndicesAgree
  MutexHeld
  NoOverrunNoUnderrun

PROPERTIES
  RefinesQueue
  EveryMessagePopped
  PushReturns

\* Once the finite input is consumed the consumers poll an empty buffer.
CHECK_DEADLOCK FALSE
