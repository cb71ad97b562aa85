SPECIFICATION Spec
CONSTANTS
    Zones <- TestZones
    Anchors <- TestAnchors
    Ends <- TestEnds
    Clock <- TestClock
    LastDay = 30
INVARIANTS ScheduleTypeOK OnTheWall EndKept
PROPERTY NextIsNext
