CONSTANTS
  Workers = {w1, w2}
  MaxCount = 2
SPECIFICATION FairSpec
INVARIANTS TypeOK SummaryIsFinal OverrunBound
PROPERTY LoadTestEnds
CHECK_DEADLOCK FALSE
