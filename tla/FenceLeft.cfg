CONSTANTS
    MaxPods = 2
    Instances = {2}
    Supervised = FALSE
    MaxRevision = 0
    MaxScalings = 0
    MaxFaults = 1
    MaxAborts = 1
SPECIFICATION FairRunningSpec
PROPERTY FencesLifted
