CONSTANTS
    MaxPods = 3
    Instances = {2, 3}
    Supervised = TRUE
    MaxRevision = 1
    MaxScalings = 1
    MaxFaults = 2
    MaxAborts = 1
SPECIFICATION PairOrTrio
INVARIANT TypeOK FenceHeld
PROPERTY HandoverSpec RivalOnlyUnderFence OnlyOutdatedReplaced NoUnapprovedReplacement
