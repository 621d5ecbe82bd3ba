SPECIFICATION Spec
CONSTANTS
    DefaultStates = {"suspend"}
    Commands = {"hibernate"}
    Durations = {}
    Vehicles = {"stand-by"}
    Batteries = {"absent"}
    Inhibitors = {}
    Inputs = {}
    MaxInputs = 1
PROPERTIES ExplicitIntentTakesOver
CHECK_DEADLOCK FALSE
