CONSTANTS
  Worker = {w1, w2}
  InCap = 1
  Candidate <- Candidates
  Task <- Calls
  Maps <- Graphs
SPECIFICATION Spec
INVARIANTS PlanNamesTheBest
CHECK_DEADLOCK FALSE
