SPECIFICATION Spec
CONSTANTS
  Ids = {1, 2}
  Timestamps = {1, 2}
  Queries <- MCQueries
  MaxSequence = 2
  MaxTables = 2
INVARIANTS TypeOK IndexMatchesTable QueryAnswers LatestIsDecreasing
