SPECIFICATION FairSpec
CONSTANTS
  Hashes = {h1, h2, h3}
  Results = {v1, v2}
  Retention = 8
PROPERTIES
  UnknownOutcomeIsKept
  StoredResultIsFinal
  SettledIsDropped
