SPECIFICATION Spec
CONSTANTS
  Clients = {c1, c2}
  Pages = {1, 2}
  Layouts <- BothLayouts
  MaxCacheSize = 2
  UndoFileSize = 4
  UndoCacheSize = 2
  MaxTx = 3
  Budgets <- WideAndDeep
SYMMETRY ClientSymmetry
INVARIANTS NoneReadsBack DirtyIsHeld CleanIsWritten SnapshotSeesCommitted FlushIsSafe
PROPERTY WalkDescends
