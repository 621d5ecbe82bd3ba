SPECIFICATION Spec
CONSTANTS
    DefaultStates = {"suspend"}
    Commands = {}
    Durations = {}
    Vehicles = {"stand-by"}
    Batteries = {"absent"}
    Inhibitors = {"block"}
    Inputs = {}
    MaxInputs = 1
PROPERTIES SuspendIsUnblocked
CHECK_DEADLOCK FALSE
