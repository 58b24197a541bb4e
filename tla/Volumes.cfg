CONSTANTS
    Instances = 2
    MaxSize = 2
    MaxWindows = 2
    MaxFaults = 1
    MaxAborts = 1
SPECIFICATION ExploredSpec
INVARIANT TypeOK OneFencePerCut
PROPERTY ResizeEnds ReplacedReturn
