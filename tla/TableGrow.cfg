\* Three threads make four calls in an empty table of 4 buckets: once there is an
\* entry, the next insert or remove makes it grow to 8, while the others are
\* anywhere.
CONSTANTS
  t1 = t1
  t2 = t2
  t3 = t3
  k1 = k1
  k2 = k2
  k3 = k3
  v1 = v1
  v2 = v2
  v3 = v3
  Nobody = Nobody
  Threads = {t1, t2, t3}
  Keys = {k1, k2, k3}
  Values = {v1, v2, v3}
  HashOf <- Hashes
  Resizable = TRUE
  InitCapacity = 4
  InitChains <- NoEntry
  Programs <- GrowPrograms
  Wrap = 64

SPECIFICATION FairSpec

INVARIANTS
  TypeOK
  BucketInRange
  BucketNotStale
  Placement
  SizeAccurate

PROPERTIES
  
  CallsReturn

\* Every program ends.
CHECK_DEADLOCK FALSE
