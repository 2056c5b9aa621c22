SPECIFICATION Spec
CONSTANTS
  Op = "tableUpdate"
  Hibernates = FALSE
  Attempts = {a1, a2, a3}
  Hashes = {h1, h2}
  Retention = 1
  Reversible = TRUE
SYMMETRY Symmetry
INVARIANTS
  AtMostOnce
  AnswersAndRowsAreTrue
  RejectionMeansNotApplied
  TracedBeforeEffect
PROPERTIES
  NoSendAfterUnknown
  ImplementsEffectOnce
