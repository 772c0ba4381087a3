\* A finding in two overlapping pushes.
SPECIFICATION Spec
CONSTANTS
    w1 = w1  d1 = d1
    Objects  = {o1}
    Workers  = {w1}
    Managers = {m1}
    Devices  = {d1}
    Owner    <- OneDevice
    Kinds    = {"finding"}
    Meanwhile = {}
    Slots    = {s1, s2}
    MaxMade  = 1
    Faults   = {}
    MaxFaults = 0
SYMMETRY SyncSymmetry
INVARIANT AppliedOnce
CHECK_DEADLOCK FALSE
