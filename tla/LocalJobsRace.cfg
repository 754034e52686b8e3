\* Two processes contend for one observation chain and may abandon their runs.
CONSTANTS
  Version = {}
  Observation = {o1}
  Process = {p1, p2}
  NoJob = NoJob
  MaxAttempts = 2
  Lease = 1
  MaxJobs = 1
  Upgradable = {}
  MaxRelease = 1
  MaxTime = 0
  MaxCrashes = 1
SPECIFICATION FairSpec
INVARIANTS TypeOK RowsCoherent OneHolder LostOnlyAfterExpiry
PROPERTIES LeasesHonoured LedgerRefined JobsSettle
