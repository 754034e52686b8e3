\* Downloads, parses, extractions and notes of two processes share one index.
CONSTANTS
  c1 = c1
  r1 = r1
  old = old
  new = new
  words = words
  p1 = p1
  p2 = p2
  Course = {c1}
  Resource = {r1}
  CourseOf <- MCCourseOf
  Contract = {old, new}
  Outcome <- MCOutcome
  Text = {words}
  Process = {p1, p2}
  MaxSync = 2
  MaxParse = 2
  MaxNote = 1
  MaxExtraction = 2
SPECIFICATION Spec
SYMMETRY Symmetry
CHECK_DEADLOCK FALSE
INVARIANTS TypeOK IndexHoldsProjection CompleteHidesNothing OneReusableParse
PROPERTIES TextStaysSearchable ImportIsProjected
