\* Live runs, imports of captures and standalone fetches overlap.
SPECIFICATION Spec
CONSTANTS
  Process = {p, q}
  p = p
  q = q
  Reported = {"ACTIVE", "UNAVAILABLE"}
  Captured = TRUE
  Solo = TRUE
  MaxRun = 2
  MaxTime = 3
SYMMETRY Symmetry
INVARIANTS TypeOK AvailabilityFollowsEvidence MissingMeansOmitted
CHECK_DEADLOCK FALSE
