SPECIFICATION FairSpec
CONSTANTS
    HourlyLimit = 5
    MaxFaults = 2
INVARIANTS TypeOK OrganizerNeedsAdmin
PROPERTIES RunsOnlyAdd SeedsTheDatabase
CHECK_DEADLOCK FALSE
