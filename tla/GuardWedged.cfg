\* A result whose recording was lost.
SPECIFICATION FairSpec
CONSTANTS
  Op = "tableUpdate"
  Hibernates = FALSE
  Attempts = {a1, a2}
  Hashes = {h1}
  Retention = 1
  Reversible = TRUE
PROPERTIES
  BlockEndsWithRetention
