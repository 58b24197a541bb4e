CONSTANTS
    Pods = 2
    Name = {n1, n2}
    UserOwned = {n2}
    NoName = NoName
    MaxRotations = 2
    MaxEdits = 1
    MaxFaults = 1
    MaxAborts = 1
SPECIFICATION ExploredSpec
INVARIANT TypeOK
PROPERTIES RotationLands ConnectionCurrent ReachesPoll
