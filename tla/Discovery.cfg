SPECIFICATION FairSpec
CONSTANTS
  Callers = {c1, c2}
  NumAdapters = 2
  Workers = 1
  MaxRounds = 2
  MaxTotal = 2
INVARIANTS AbandonedExact NoPileUp InTimeCounts
PROPERTY RoundEnds
