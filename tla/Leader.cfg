CONSTANTS
    Modes = {"standalone", "sentinel"}
    Pods = 2
    MaxChanges = 2
    MaxAborts = 1
    Sentinels = 2
SPECIFICATION ExploredSpec
INVARIANT TypeOK
PROPERTY Routed OneMaster Led
