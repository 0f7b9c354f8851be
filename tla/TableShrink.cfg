\* Ten buckets, two entries: a remove halves the table, the next may find _size
\* zero between its two reads, and READ_BUCKET may ask for a bucket that is gone.
CONSTANTS
  t1 = t1
  t2 = t2
  t3 = t3
  k1 = k1
  k2 = k2
  k3 = k3
  v1 = v1
  v2 = v2
  v3 = v3
  Nobody = Nobody
  Threads = {t1, t2, t3}
  Keys = {k1, k2, k3}
  Values = {v1, v2, v3}
  HashOf <- Hashes
  Resizable = TRUE
  InitCapacity = 10
  InitChains <- TwoEntries
  Programs <- ShrinkPrograms
  Wrap = 64

SPECIFICATION Spec

INVARIANTS
  LocksHeld
  ErasesWhatItFound

PROPERTIES
  NoResizeCircle

\* Every program ends.
CHECK_DEADLOCK FALSE
