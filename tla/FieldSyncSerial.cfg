\* One device, one push at a time, three mutations, one transient error of the dispatch.
SPECIFICATION FairSpec
CONSTANTS
    w1 = w1  d1 = d1
    Objects  = {o1}
    Workers  = {w1}
    Managers = {m1}
    Devices  = {d1}
    Owner    <- OneDevice
    Kinds    = {"start", "complete", "answer", "finding"}
    Meanwhile = {"assign", "unassign", "hold", "cancel", "reopen"}
    Slots    = {s1}
    MaxMade  = 3
    Faults   = {"apply"}
    MaxFaults = 1
INVARIANTS
    AppliedOnce
    EvidenceKept
    NoGap
PROPERTY PromiseKept
PROPERTY QueueDrains
CHECK_DEADLOCK FALSE
