\* Runs that catch a refusal and call again.
SPECIFICATION Spec
CONSTANTS
  r1 = r1
  r2 = r2
  r3 = r3
  u1 = u1
  u2 = u2
  Runs = {r1, r2}
  Users = {u1, u2}
  Kind <- AllRuns
  UserOf <- TwoUsers
  Cap <- TinyDay
  PerRun <- TinyRun
  Page = 1
  LastDay = 0
  MaxRefused = 1
CHECK_DEADLOCK FALSE
INVARIANTS
  CountWithinCap
