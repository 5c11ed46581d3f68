SPECIFICATION FairSpec
CONSTANTS
  Callers = {c1, c2}
  Pages = {p1}
  WriteThreads = 2
  BatchSize = 2
  MaxWrites = 3
  MaxErrors = 2
  MaxCloses = 1
  MaxCrashes = 1
INVARIANT NoWriteForgotten
PROPERTIES Implements WriteAnswered
