SPECIFICATION Spec
CONSTANTS
  c1 = c1
  c2 = c2
  Clients <- Either
  Keys <- FiveKeys
  MaxLen = 2
  InitialFiles = {"empty", "tree"}
  MaxOps = 5
  Budgets <- AloneOrTogether
INVARIANTS MapCorrect Balanced PagesOwnedOnce LeafChain InsertNeverPanics InsertedIsFound
PROPERTY MangledByNewMinimum
