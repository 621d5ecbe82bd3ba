SPECIFICATION Spec
CONSTANTS
    DefaultStates = {"suspend", "run"}
    Commands = {"suspend", "run"}
    Durations = {60}
    Vehicles = {"stand-by", "parked"}
    Batteries = {"absent", "active"}
    Inhibitors = {"modem", "block"}
    Inputs = {"remote-access", "online-setting", "suspend-failure", "issue-failure",
              "reserve", "last-ditch-setting", "schedule", "boot-grace"}
    MaxInputs = 2
INVARIANTS PathMatchesTarget AutomaticProvenance
PROPERTIES ModemRestored SuspendIsEligible PoweroffIsUnblocked UnaskedPoweroffIsLastDitch
CHECK_DEADLOCK FALSE
