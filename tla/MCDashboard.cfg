SPECIFICATION Spec
CONSTANTS
    DashCap = 2
    Tries = 3
    BookEvery = 3
    MaxEvents = 5
INVARIANTS ShownInOrder
PROPERTIES SnapshotsFlow
CHECK_DEADLOCK FALSE
