\* An instance that hibernates.
SPECIFICATION Spec
CONSTANTS
  Op = "tableUpdate"
  Hibernates = TRUE
  Attempts = {a1, a2}
  Hashes = {h1}
  Retention = 1
  Reversible = TRUE
INVARIANTS
  SplashIsDetected
