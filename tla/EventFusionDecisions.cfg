\* Extractions, reconciliations and two decisions of one course interleave.
CONSTANTS
  base = base
  move = move
  other = other
  quiz = quiz
  generic = generic
  Input = {base, move, other}
  Context <- Contexts
  Stamp <- Stamps
  Drafts <- OneAssessment
  Number <- Numbers
  Generic = generic
  NoDraft = NoDraft
  NoValue = NoValue
  LocalValue <- Asserted
  MaxRecord = 3
  MaxDecision = 2
SPECIFICATION Spec
INVARIANTS TypeOK ManualHonoured LaterEvidenceReopens ReusedRunIsCurrent SupersedesAcyclic
PROPERTIES DecisionsLapseForCause
CHECK_DEADLOCK FALSE
