SPECIFICATION FairSpec
CONSTANTS
    RingCapacity = 2
    FeedCapacity = 2
    Events = 8
    MaxEvents = 4
    MaxCrashes = 1
INVARIANTS ResetMarksGap GapsAccounted MaxEventsRunComplete
PROPERTIES EverythingStops
CHECK_DEADLOCK FALSE
