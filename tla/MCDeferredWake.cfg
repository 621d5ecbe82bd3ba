SPECIFICATION Spec
CONSTANTS
    MaxOccurrences = 1
    MaxSettings = 0
    MaxSteps = 1
    MaxRestarts = 0
PROPERTIES JumpReevaluatesTarget
CHECK_DEADLOCK FALSE
