SPECIFICATION FairSpec
CONSTANTS
  Callers = {c1, c2, c3}
  Nobody = Nobody
  Works <- Replaced
  MaxRequests = 4
  MaxPanics = 1
INVARIANTS ExecutedInOrder NoCallerForgotten LossNeedsPanic
PROPERTIES CloseDrains CallsReturn
