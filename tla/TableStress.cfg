\* One thread runs the stress test on a key of its own, two that on a common key;
\* all share a bucket until the table grows.
CONSTANTS
  t1 = t1
  t2 = t2
  t3 = t3
  k1 = k1
  k2 = k2
  k3 = k3
  v1 = v1
  v2 = v2
  v3 = v3
  Nobody = Nobody
  Threads = {t1, t2, t3}
  Keys = {k1, k2, k3}
  Values = {v1, v2, v3}
  HashOf <- Hashes
  Resizable = TRUE
  InitCapacity = 4
  InitChains <- NoEntry
  Programs <- StressPrograms
  Wrap = 64

SPECIFICATION Spec

INVARIANTS
  Drained

PROPERTIES
  OwnResults
  OwnKeyListed
  

\* Every program ends.
CHECK_DEADLOCK FALSE
