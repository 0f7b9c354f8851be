\* Three waiters and two posters with two calls each: several sleep at once, and
\* tokens come faster than sleepers wake up.
CONSTANTS
  Waiters = {w1, w2, w3}
  Posters = {p1, p2}
  InitValue = 1
  MaxCalls = 2
  Free = Free

SPECIFICATION FairSpec

INVARIANTS
  TypeOK
  NoTokenStranded

PROPERTIES
  RefinesSemaphore
  TokensTaken

\* The last waiters may sleep for ever: there are fewer tokens than calls.
CHECK_DEADLOCK FALSE
