SPECIFICATION Spec
CONSTANTS
  Callers = {c1}
  Nobody = Nobody
  Works <- Unset
  MaxRequests = 2
  MaxPanics = 0
INVARIANT CallersSurvive
