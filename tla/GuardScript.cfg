\* runServerScript with an instance whose executor maps a script exception to 401.
SPECIFICATION Spec
CONSTANTS
  Op = "runServerScript"
  Hibernates = FALSE
  Attempts = {a1, a2}
  Hashes = {h1}
  Retention = 1
  Reversible = FALSE
INVARIANTS
  RejectionMeansNotApplied
