CONSTANTS
  Worker = {w1, w2, w3}
  InCap = 1
  Candidate <- Candidates
  Task <- Calls
  Maps <- Graphs
SPECIFICATION FairSpec
INVARIANTS HeldOnce WholeRanking BestOfAll SearchesAreShortest
PROPERTIES SurveySpec NoLeak
CHECK_DEADLOCK FALSE
