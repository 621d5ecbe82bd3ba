SPECIFICATION Spec
CONSTANTS
    Handlers = {h1, h2}
    TimeSources = {"ntp", "nrf"}
    Producers = {"nrf"}
    MaxGeneration = 2
    MaxBoots = 2
    MaxFaults = 1
SYMMETRY HandlerSymmetry
INVARIANTS TypeOK EvidenceIsDelivered QualityIsCurrent PreparationIsReturned
PROPERTIES FencesSteps SuspendIsFenced OneStepPerEpisode
CHECK_DEADLOCK FALSE
