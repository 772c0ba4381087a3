SPECIFICATION SceneSpec
CONSTANTS
    MaxInvoices = 3
    MaxPayments = 3
    MaxNotes = 2
    MaxCredit = 2
    Lines    = {b1, b2}
    Requests = {q1, q2}
    Totals   = {2}
    Amounts  = {1, 3}
    Scenes = {"corrected"}
PROPERTY CorrectsIssued
CHECK_DEADLOCK FALSE
