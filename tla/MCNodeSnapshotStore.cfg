\* Processes may all have died, so the system may stop.
SPECIFICATION Spec
CONSTANTS
    Process = {p1, p2}
    Identities = {a, b}
    Generations = {g1, g2}
    Budget = 0
    MaxUpstream = 2
    MaxLeases = 1
    None = None
SYMMETRY Symmetry
CHECK_DEADLOCK FALSE
INVARIANTS
    LeasedSnapshotStays
    NothingIsStranded
    OneDatasetPerSlot
PROPERTIES
    ReplacementIsNoWorse
    PinnedIsNotEvicted
