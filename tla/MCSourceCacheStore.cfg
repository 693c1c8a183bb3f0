\* A process may end with nothing left to do, so the system may stop.
SPECIFICATION Spec
CONSTANTS
    Servers = {s1, s2}
    Workers = {w1, w2}
    Generations = {old, g1, g2}
    OldGeneration = old
    MaxLeases = 2
    None = None
SYMMETRY Symmetry
CHECK_DEADLOCK FALSE
INVARIANTS
    PointerNamesWhole
    LeasedIsWhole
    FailedBuildIsSettled
PROPERTIES
    CopyReplacesItsSource
