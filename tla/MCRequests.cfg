SPECIFICATION FairSpec
CONSTANTS
    DefaultStates = {"suspend"}
    Commands = {"hibernate", "hibernate-for", "hibernate-auto", "hibernate-timer",
                "hibernate-cancel", "reboot"}
    Durations = {0, 60}
    Vehicles = {"stand-by", "parked", "shutting-down", "ready-to-drive"}
    Batteries = {"absent"}
    Inhibitors = {}
    Inputs = {"schedule", "rejection", "hibernation-timer", "suspend-failure"}
    MaxInputs = 2
INVARIANTS TypeOK WakeTimerBelongsToTarget RequestKeepsItsTarget NoStrandedRequest
PROPERTIES IssuingEnds RequestEnds
CHECK_DEADLOCK FALSE
