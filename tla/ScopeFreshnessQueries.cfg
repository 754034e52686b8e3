\* Queries of one process while another synchronizes.
CONSTANTS
  Process = {p1, p2}
  Asker = {p1}
  Requirement <- AllRequirements
  Paginated = TRUE
  MaxRun = 2
  MaxTime = 3
  MaxPage = 2
SPECIFICATION Spec
CHECK_DEADLOCK FALSE
INVARIANTS TypeOK MarkersOrderFree CompleteIsStored CurrentHidesNothing AnswersServeTheirSnapshot PagesAgree
PROPERTIES SatisfiedMeansFresh
