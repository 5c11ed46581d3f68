SPECIFICATION Spec
CONSTANTS
    c1 = c1
    c2 = c2
    Checkpointer = ck
    Clients <- MCClients
    RecordSize <- MCRecordSize
    EntryLimit = 5
    MaxFileSize = 2
    MaxBufferSize = 3
    CheckpointCount = 2
    MaxTx = 2
    MaxWrites = 1
    MaxCheckpoints = 1
    MaxCrashes = 1
    MaxFailures = 1
SYMMETRY ClientSymmetry
INVARIANTS
    SizeExact
    DurableCommits
    RecoverableReads
PROPERTY
    SnapshotCoversAcked
