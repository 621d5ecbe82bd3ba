SPECIFICATION FairSpec
CONSTANTS
    DefaultStates = {"suspend"}
    Commands = {}
    Durations = {}
    Vehicles = {"stand-by"}
    Batteries = {"absent"}
    Inhibitors = {"modem"}
    Inputs = {}
    MaxInputs = 1
PROPERTIES ModemWaitIsBounded
CHECK_DEADLOCK FALSE
