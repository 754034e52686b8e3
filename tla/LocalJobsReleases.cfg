\* The parser is upgraded while rows of its first release are unfinished.
CONSTANTS
  Version = {v1}
  Observation = {}
  Process = {p1}
  NoJob = NoJob
  MaxAttempts = 1
  Lease = 1
  MaxJobs = 4
  Upgradable = {"parse"}
  MaxRelease = 2
  MaxTime = 0
  MaxCrashes = 1
SPECIFICATION FairSpec
INVARIANTS DependenciesFirst ArtifactsPinned
