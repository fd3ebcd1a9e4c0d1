\* Two workers, as in a rolling restart.
CONSTANTS
    Workers = {w1, w2}
    Period = 2
    Expire = 4
    Stale = 6
    Skews <- MCSkews
    MaxQueued = 1
    MaxLost = 2
SPECIFICATION Spec
SYMMETRY Symmetry
INVARIANTS SeenMeansAlive HeartbeatHasOwner OutageBounded
