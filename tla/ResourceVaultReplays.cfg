\* One process fetches live, on its own, and from a capture it imports again.
CONSTANTS
  Process = {p}
  p = p
  m1 = m1
  h1 = h1
  Hash = {h1, h2}
  Meta = {m1, m2}
  Capture <- OneCapture
  Interval = 1
  Solo = {TRUE, FALSE}
  Verify = {TRUE, FALSE}
  Inventory = TRUE
  Repairs = TRUE
  MaxRun = 3
  MaxTime = 2
SPECIFICATION Spec
INVARIANTS SkipRestsOnVerification
CHECK_DEADLOCK FALSE
