SPECIFICATION Spec
CONSTANTS
    Conns = {c1}
    Ids = {i1}
    HashValues = {"absent", "suspend-only", "other"}
    MaxChanges = 2
    MaxFailures = 1
INVARIANTS TypeOK ProtectedWorkBlocks MirrorTracksFields BusyServicesAreCurrent
PROPERTIES GatesTheFSM
CHECK_DEADLOCK FALSE
