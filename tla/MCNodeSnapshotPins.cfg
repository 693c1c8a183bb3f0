\* Processes may all have died, so the system may stop.
SPECIFICATION PinsSpec
CONSTANTS
    Process = {p1, p2}
    Identities = {a, b}
    Generations = {g1, g2, g3}
    Budget = 0
    MaxUpstream = 0
    MaxLeases = 1
    None = None
SYMMETRY Symmetry
CHECK_DEADLOCK FALSE
INVARIANTS
    PinProtectsUntilCommit
