SPECIFICATION Spec
CONSTANTS
    DefaultStates = {"suspend"}
    Commands = {"hibernate-auto"}
    Durations = {}
    Vehicles = {"stand-by", "parked"}
    Batteries = {"absent"}
    Inhibitors = {}
    Inputs = {}
    MaxInputs = 2
PROPERTIES PoweroffRequiresStandby
CHECK_DEADLOCK FALSE
