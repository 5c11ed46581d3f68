SPECIFICATION Spec
CONSTANTS
  Clients = {c1}
  Pages = {1}
  Layouts <- CodeLayout
  MaxCacheSize = 4
  UndoFileSize = 8
  UndoCacheSize = 2
  MaxTx = 1
  Budgets <- OneSmall
INVARIANT HeadersFit
