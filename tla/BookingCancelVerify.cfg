SPECIFICATION Spec
CONSTANTS
  l1 = l1
  l2 = l2
  q1 = q1
  q2 = q2
  Lines = {l1}
  UnitLines = {l1}
  Requests = {q1, q2}
  MaxPayments = 2
  MaxNow = 1
  PaymentWindow = 0
  ProofExtension = 1
  ArrivalDay = 1
  ArrivalTime = 2
  DayAfter = 3
SYMMETRY Symmetry
INVARIANTS
  MoneyAccounted
\* a booking that is closed and settled has nothing left to do
CHECK_DEADLOCK FALSE
