\* The same instrument fails and recovers twice; nothing goes wrong.
SPECIFICATION AlertSpec
CONSTANTS
    Writer = {"cycle", "loop"}
    Feed <- MCFeed
    MAX_REMEMBERED = 3
    MaxFailures = 0
    MaxCrashes = 0
INVARIANTS
    IncidentNeverSilent
CHECK_DEADLOCK FALSE
