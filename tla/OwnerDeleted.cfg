SPECIFICATION Spec
CONSTANTS
    Slots = 3
    Courses <- ThinTwice
PROPERTY NoOwnerDeleted
