SPECIFICATION FairSpec
CONSTANTS
    Slots = 4
    Courses <- AllCourses
INVARIANTS TypeOK KeysFound HandoverKeepsRunning
PROPERTIES OwnersOutliveScaleDown OwnersStay Settles
