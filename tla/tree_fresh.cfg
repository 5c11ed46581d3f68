SPECIFICATION Spec
CONSTANTS
  c1 = c1
  c2 = c2
  Clients <- Either
  Keys <- FiveKeys
  MaxLen = 12
  InitialFiles = {"empty"}
  MaxOps = 5
  Budgets <- Fresh
INVARIANT InsertSucceeds
