\* One device, two overlapping pushes of two mutations, every transient error.
SPECIFICATION Spec
CONSTANTS
    w1 = w1  d1 = d1
    Objects  = {o1}
    Workers  = {w1}
    Managers = {m1}
    Devices  = {d1}
    Owner    <- OneDevice
    Kinds    = {"start", "complete", "finding"}
    Meanwhile = {"assign", "start", "reopen"}
    Slots    = {s1, s2}
    MaxMade  = 2
    Faults   = {"lookup", "apply", "store"}
    MaxFaults = 1
SYMMETRY SyncSymmetry
INVARIANTS
    StartedOnce
CHECK_DEADLOCK FALSE
