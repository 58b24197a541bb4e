CONSTANTS
    ClusterMode = TRUE
    Shards = 2
    DataPods = 4
    SentinelPods = 0
    PreferReplica = FALSE
    MaxChanges = 3
    MaxAborts = 2
    Replicas = {0, 1}
    MaxLosses = 1
    MaxRestarts = 1
SPECIFICATION BackupAndRestore
INVARIANT TypeOK CompletedIsStored ServesOwnShard
PROPERTY Finishes RestoreEnds
CHECK_DEADLOCK FALSE
