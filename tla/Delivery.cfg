SPECIFICATION SceneSpec
CONSTANTS
    w1 = w1  w2 = w2  s1 = s1
    Events    = {e1}
    Endpoints = {w1, w2}
    Sweepers  = {s1, s2}
    JobAttempts = 2
    MaxAttempts = 2
    MaxDeliveries = 4
    MaxFaults  = 2
    MaxRetries = 1
    Posts  = {p1, p2}
    Bodies = {b1, b2}
    MaxEffects = 3
    Scenes = {"event", "sweeps", "requests", "emergency"}
    Requests = {h1, h2}
    Alerts = {a1}
    LastLevel = 3
    LastMoment = 4
INVARIANTS HandedOn SentOnce RepliesAgree EmergenciesKept
PROPERTY NothingWaits
CHECK_DEADLOCK FALSE
