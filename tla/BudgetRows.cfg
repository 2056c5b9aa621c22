\* Three runs that return their rows at the same time.
SPECIFICATION Spec
CONSTANTS
  r1 = r1
  r2 = r2
  r3 = r3
  u1 = u1
  u2 = u2
  Runs = {r1, r2, r3}
  Users = {u1, u2}
  Kind <- AllRuns
  UserOf <- TwoUsers
  Cap <- RowDay
  PerRun <- TinyRun
  Page = 1
  LastDay = 0
  MaxRefused = 0
CHECK_DEADLOCK FALSE
INVARIANTS
  OvershootIsOneCeiling
