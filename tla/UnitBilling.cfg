SPECIFICATION SceneSpec
CONSTANTS
    MaxInvoices = 3
    MaxPayments = 3
    MaxNotes = 2
    MaxCredit = 2
    Lines    = {b1, b2}
    Requests = {q1, q2}
    Totals   = {2}
    Amounts  = {1, 3}
    Scenes = {"provider", "payments", "balance", "notes", "void", "penalties", "bank"}
SYMMETRY Rows
INVARIANTS ReceivedIsBooked MoneyOnce CreditBacked InvoiceAgrees PenaltyBilledOnce LineBookedOnce
PROPERTY ClosedStaysClosed
CHECK_DEADLOCK FALSE
