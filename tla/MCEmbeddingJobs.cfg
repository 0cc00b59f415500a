SPECIFICATION FairSpec
CONSTANTS
  Jobs = {j1}
  Workers = {w1, w2, w3}
  NoJob = NoJob
  MaxAttempts = 2
  MaxLeases = 2
INVARIANTS
  TypeOK
  ClaimTokensDistinct
  VectorIffDone
  AttemptsBounded
PROPERTIES
  LeaseProtectsClaim
  FinalJobsStay
  JobSettles
