\* Two runs of two users, one of them a discovery call, over midnight.
SPECIFICATION Spec
CONSTANTS
  r1 = r1
  r2 = r2
  r3 = r3
  u1 = u1
  u2 = u2
  Runs = {r1, r2}
  Users = {u1, u2}
  Kind <- OneDiscovery
  UserOf <- TwoUsers
  Cap <- CallDay
  PerRun <- CallRun
  Page = 1
  LastDay = 1
  MaxRefused = 1
CHECK_DEADLOCK FALSE
INVARIANTS
  OrderlyTrafficWithinCap
  FailsClosed
  BooksBalance
  RunWithinLimits
