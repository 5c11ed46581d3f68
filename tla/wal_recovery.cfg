SPECIFICATION Spec
CONSTANTS
    c1 = c1
    c2 = c2
    Checkpointer = ck
    Clients <- MCClients
    RecordSize <- MCRecordSize
    EntryLimit = 5
    MaxFileSize = 2
    MaxBufferSize = 100
    CheckpointCount = 2
    MaxTx = 2
    MaxWrites = 2
    MaxCheckpoints = 1
    MaxCrashes = 2
    MaxFailures = 1
SYMMETRY ClientSymmetry
INVARIANTS
    TypeOK
    IndexOrder
    DurableCommits
    AtomicRecovery
    ReplayIsReference
