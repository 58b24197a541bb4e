CONSTANTS
    Operator = {o1, o2}
    NoOne = NoOne
    Interval = 2
    Threshold = 5
    Validity = 6
    MaxFaults = 3
SPECIFICATION Spec
INVARIANTS TypeOK NoDrift NeverExpires
PROPERTY Trusted
