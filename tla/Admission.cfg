SPECIFICATION AdmissionFairSpec
CONSTANTS
  Slots = {s1, s2}
  LeaseIds = {l1, l2, l3}
  MaxRequests = 2
  MaxInFlight = 1
  RateWindow = 4
  StaleLease = 5
  RenewEvery = 2
  MaxLag = 1
INVARIANTS
  LeasesBounded
  LossHasACause
PROPERTIES
  NoLeaseIsResurrected
  LeakedLeasesLapse
