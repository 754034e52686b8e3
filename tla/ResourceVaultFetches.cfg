\* Two processes fetch, verify, skip and lose changing bytes and views.
CONSTANTS
  Process = {p, q}
  p = p
  q = q
  m1 = m1
  h1 = h1
  Hash = {h1, h2}
  Meta = {m1}
  Capture = {}
  Interval = 1
  Solo = {FALSE}
  Verify = {TRUE, FALSE}
  Inventory = FALSE
  Repairs = FALSE
  MaxRun = 3
  MaxTime = 2
SPECIFICATION Spec
INVARIANTS TypeOK BytesBehindEverything ViewsCatchUp
PROPERTIES CurrentMovesForward
SYMMETRY HashSymmetry
CHECK_DEADLOCK FALSE
