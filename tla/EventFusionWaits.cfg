\* A user decides while a reconciliation has read its instant and not committed.
CONSTANTS
  base = base
  move = move
  other = other
  quiz = quiz
  generic = generic
  Input = {base, move, other}
  Context <- Contexts
  Stamp <- Stamps
  Drafts <- OneAssessment
  Number <- Numbers
  Generic = generic
  NoDraft = NoDraft
  NoValue = NoValue
  LocalValue <- Asserted
  MaxRecord = 3
  MaxDecision = 2
SPECIFICATION Spec
INVARIANTS UnseenEvidenceReopens
CHECK_DEADLOCK FALSE
