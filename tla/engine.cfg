SPECIFICATION FairSpec
CONSTANTS
  Clients = {c1, c2}
  Checkpointer = ck
  MaxPages = 3
  CheckpointCount = 4
  Budgets <- CrashOrClose
INVARIANTS RestartIsWhole DropKeepsPages OnlyUnclosedLeft
PROPERTIES AllocatedOnce ShutdownEnds CommitsAnswered
