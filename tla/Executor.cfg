SPECIFICATION FairSpec
CONSTANTS
  r1 = r1
  r2 = r2
  k1 = k1
  Txns = {t1, t2}
  Requests = {r1, r2}
  Keys = {k1}
  KeyOf <- SignedWith
  Fresh = 1
  Ttl = 3
  Skew = 1
  Throws = {"error", "empty"}
CHECK_DEADLOCK FALSE
INVARIANTS
  RunsAtMostOnce
  RowsTellTheTruth
PROPERTIES
  EveryRowCloses
