\* A bearer that cannot be minted inside the effect.
SPECIFICATION Spec
CONSTANTS
  Op = "tableUpdate"
  Hibernates = FALSE
  Attempts = {a1, a2}
  Hashes = {h1}
  Retention = 1
  Reversible = TRUE
INVARIANTS
  PreSendFailureIsClean
