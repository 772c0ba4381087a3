SPECIFICATION FairSpec
CONSTANTS
  l1 = l1
  l2 = l2
  q1 = q1
  q2 = q2
  Lines = {l1, l2}
  UnitLines = {l1}
  Requests = {q1}
  MaxPayments = 3
  MaxNow = 4
  PaymentWindow = 1
  ProofExtension = 1
  ArrivalDay = 2
  ArrivalTime = 3
  DayAfter = 4
INVARIANTS
  MoneyAccounted
  ChargedOnce
  CancelledIsSynced
PROPERTIES
  OverdueReleased
\* a booking that is closed and settled has nothing left to do
CHECK_DEADLOCK FALSE
