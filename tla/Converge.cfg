CONSTANTS
    MaxPods = 3
    Instances = {2, 3}
    Supervised = FALSE
    MaxRevision = 1
    MaxScalings = 1
    MaxFaults = 2
    MaxAborts = 0
SPECIFICATION PairOrTrioSpec
PROPERTY PrimaryPodKept ScaleSettles Converges
