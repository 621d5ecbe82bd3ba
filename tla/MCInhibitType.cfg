SPECIFICATION Spec
CONSTANTS
    Conns = {}
    Ids = {i1}
    HashValues = {"absent", "suspend-only", "other"}
    MaxChanges = 1
    MaxFailures = 0
INVARIANTS MirrorIsAuthoritative
CHECK_DEADLOCK FALSE
