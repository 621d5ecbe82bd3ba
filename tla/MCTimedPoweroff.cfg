SPECIFICATION Spec
CONSTANTS
    DefaultStates = {"suspend"}
    Commands = {"hibernate-for", "hibernate-cancel"}
    Durations = {60}
    Vehicles = {"stand-by"}
    Batteries = {"absent"}
    Inhibitors = {}
    Inputs = {}
    MaxInputs = 2
PROPERTIES TimedPoweroffWakesUp
CHECK_DEADLOCK FALSE
