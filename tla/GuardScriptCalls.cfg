SPECIFICATION FairSpec
CONSTANTS
  Op = "runServerScript"
  Hibernates = FALSE
  Attempts = {a1, a2}
  Hashes = {h1, h2}
  Retention = 2
  Reversible = FALSE
PROPERTIES
  EveryAttemptEnds
