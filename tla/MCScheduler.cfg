SPECIFICATION Spec
CONSTANTS
    MaxOccurrences = 2
    MaxSettings = 1
    MaxSteps = 1
    MaxRestarts = 1
INVARIANTS TypeOK GateHolds OncePerOccurrence NoHibernateLoop
PROPERTIES DeferralIsWanted RetainedIsDispatched
CHECK_DEADLOCK FALSE
