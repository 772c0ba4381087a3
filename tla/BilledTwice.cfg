SPECIFICATION SceneSpec
CONSTANTS
    Objects  = {o1}
    Workers  = {f1, f2}
    Managers = {m1}
    MaxSteps = 3
    Places   = {p1}
    Orders   = {w1}
    Tasks    = {t1}
    Refs     = {r1}
    NoRef    = NoRef
    MaxUsages = 2
    MaxLevel  = 2
    MaxByHand = 1
    Charges  = {c1, c2}
    MaxRuns  = 2
    MaxBills = 3
    MaxRefreshes = 1
    LastDay   = 1
    LeadTime  = 0
    MaxPieces = 2
    Spots     = {s1, s2}
    LastRound = 1
    Notices   = {n1}
    TargetLists = {"house", "tower"}
    LastHour  = 2
    MaxKept   = 2
    WeekLength   = 2
    HorizonDays  = 2
    LastCleaning = 2
    Slots     = {1, 2}
    Sessions  = {a1, a2}
    DayLength = 2
    Early     = 1
    Grace     = 0
    Forgotten = 1
    Counted   = 1
    Backdate  = 2
    LastTick  = 4
    Permits   = {k1, k2}
    Passes    = {e1}
    Late      = 1
    Stay      = 1
    LastDate  = 2
    Requests  = {q1, q2}
    Scenes   = {"double"}
SYMMETRY Symmetry
INVARIANT BilledOnce
CHECK_DEADLOCK FALSE
