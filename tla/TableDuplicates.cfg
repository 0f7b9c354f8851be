\* Two threads insert the same key.
CONSTANTS
  t1 = t1
  t2 = t2
  t3 = t3
  k1 = k1
  k2 = k2
  k3 = k3
  v1 = v1
  v2 = v2
  v3 = v3
  Nobody = Nobody
  Threads = {t1, t2}
  Keys = {k1, k2, k3}
  Values = {v1, v2, v3}
  HashOf <- Hashes
  Resizable = FALSE
  InitCapacity = 4
  InitChains <- NoEntry
  Programs <- InsertPrograms
  Wrap = 64

SPECIFICATION Spec

INVARIANTS
  NoDuplicateKeys

\* Every program ends.
CHECK_DEADLOCK FALSE
