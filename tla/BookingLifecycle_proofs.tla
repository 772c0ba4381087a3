----------------------- MODULE BookingLifecycle_proofs -----------------------
(***************************************************************************)
(* Proofs about BookingLifecycle, for any number of lines, requests and     *)
(* payments and any clock: first what holds however requests overlap, then  *)
(* what holds of the money while they run one after the other (InTurn).     *)
(***************************************************************************)
EXTENDS BookingLifecycle, FiniteSetTheorems, TLAPS

USE DEF Idle, NoDeadline, Worker

(* What the handler a request is in says about its other fields.            *)
LEMMA OperationFields ==
    ASSUME NEW o \in Operation
    PROVE  /\ o.op = "cancel" => o.pay \in BookingPayment
           /\ o.op = "pay"    => o.slot \in Slots /\ o.method \in Methods
           /\ o.op = "proof"  => o.slot \in Slots
           /\ o.op = "verify" => o.slot \in Slots
           /\ o.op = "reject" => o.slot \in Slots /\ o.pay \in BookingPayment
           /\ o.op = "act"    => o.line \in Lines /\ o.action \in DeskActions
           /\ o.op = "hook"   => /\ o.line \in Lines /\ o.action \in DeskActions
                                 /\ o.pay \in BookingPayment /\ o.last \in BOOLEAN
BY DEF Operation

BookingRow == [pay : BookingPayment, deadline : Int,
               override : {"none", "cancelled", "expired"}]

(* Settling the payment keeps the type of the booking row.                  *)
LEMMA PaymentSettledType ==
    ASSUME booking \in BookingRow, NEW pay \in BookingPayment
    PROVE  PaymentSettled(pay) \in BookingRow
<1>1. NoDeadline \in Int
  OBVIOUS
<1> HIDE DEF NoDeadline
<1> QED
  BY <1>1 DEF PaymentSettled, BookingRow

(* A bulk UPDATE keeps the types of the rows.                               *)
LEMMA SetLinesType ==
    ASSUME res \in [Lines -> ReservationStatus], NEW S, NEW status \in ReservationStatus
    PROVE  SetLines(S, status) \in [Lines -> ReservationStatus]
BY DEF SetLines

PaymentRow == [status : PaymentStatus, method : Methods,
               proof : {"none", "presigned", "uploaded"}]

LEMMA SetPaymentsType ==
    ASSUME payments \in [Slots -> PaymentRow], NEW S, NEW status \in PaymentStatus
    PROVE  SetPayments(S, status) \in [Slots -> PaymentRow]
BY DEF SetPayments, PaymentRow

LEMMA PayAfterCancelType ==
    ASSUME NEW pay \in BookingPayment PROVE PayAfterCancel(pay) \in BookingPayment
BY DEF PayAfterCancel, BookingPayment

(* The state after CreateBooking is well typed.                             *)
LEMMA InitType == Init => TypeOK
<1> SUFFICES ASSUME Init PROVE TypeOK
  OBVIOUS
<1> PICK method \in Methods : CreateBooking(method)
  BY DEF Init
<1> USE ConstantsAssumption
<1>1. booking \in BookingRow
  BY DEF Init, CreateBooking, BookingPayment, BookingRow
<1>2. res \in [Lines -> ReservationStatus]
  BY DEF CreateBooking, ReservationStatus
<1>3. payments \in [Slots -> PaymentRow]
  BY DEF CreateBooking, PaymentRow, Payment, NoPayment, PaymentStatus, Methods
<1>4. requested \in 0 .. MaxPayments
  BY DEF CreateBooking
<1>5. ops \in [Requests -> Operation]
  BY DEF Init, Operation
<1> QED
  BY <1>1, <1>2, <1>3, <1>4, <1>5 DEF Init, TypeOK, PaymentRow, BookingRow

(* Every step keeps the types.                                              *)
LEMMA TypeStep == TypeOK /\ [Next]_vars => TypeOK'
<1> SUFFICES ASSUME TypeOK, [Next]_vars PROVE TypeOK'
  OBVIOUS
<1> USE ConstantsAssumption DEF TypeOK
<1>a. payments \in [Slots -> PaymentRow] /\ booking \in BookingRow
  BY DEF PaymentRow, BookingRow
<1>b. \A q \in Requests : ops[q] \in Operation
  OBVIOUS
<1>1. ASSUME NEW q \in Requests, Request(q) PROVE TypeOK'
  <2>f. Finish(q) => ops' \in [Requests -> Operation]
    BY DEF Finish, Operation
  <2>s. ASSUME NEW operation \in Operation, Start(q, operation)
        PROVE  ops' \in [Requests -> Operation]
    BY <2>s DEF Start
  <2>1. CASE CancelRead(q)
    <3>1. [op |-> "cancel", pay |-> booking.pay] \in Operation
      BY DEF Operation
    <3> QED BY <2>1, <3>1, <2>s DEF CancelRead
  <2>2. CASE CancelCommit(q)
    <3>1. PayAfterCancel(ops[q].pay) \in BookingPayment
      BY <2>2, <1>b, OperationFields, PayAfterCancelType DEF CancelCommit
    <3>2. booking' \in BookingRow
      BY <2>2, <3>1 DEF CancelCommit, CancelRows, BookingRow
    <3>3. payments' \in [Slots -> PaymentRow]
      BY <2>2, <1>a, SetPaymentsType DEF CancelCommit, CancelRows, PaymentStatus
    <3>4. res' \in [Lines -> ReservationStatus]
      BY <2>2, SetLinesType DEF CancelCommit, ReservationStatus
    <3> QED BY <2>2, <2>f, <3>2, <3>3, <3>4 DEF CancelCommit, PaymentRow, BookingRow
  <2>3. ASSUME NEW method \in Methods, PayRead(q, method) PROVE TypeOK'
    <3>1. [op |-> "pay", method |-> method, slot |-> requested + 1] \in Operation
      BY <2>3 DEF PayRead, Operation, Slots
    <3>2. requested' \in 0 .. MaxPayments
      BY <2>3 DEF PayRead
    <3> QED BY <2>3, <2>s, <3>1, <3>2 DEF PayRead
  <2>4. CASE PayCommit(q)
    <3>1. ops[q].slot \in Slots /\ ops[q].method \in Methods
      BY <2>4, <1>b, OperationFields DEF PayCommit
    <3>2. SetPayments(Replaced, "cancelled") \in [Slots -> PaymentRow]
      BY <1>a, SetPaymentsType DEF PaymentStatus
    <3>3. Payment(ops[q].method, "pending") \in PaymentRow
      BY <3>1 DEF Payment, PaymentRow, PaymentStatus
    <3>4. payments' \in [Slots -> PaymentRow]
      BY <2>4, <3>1, <3>2, <3>3 DEF PayCommit
    <3>5. res' \in [Lines -> ReservationStatus]
      BY <2>4, SetLinesType DEF PayCommit, ReservationStatus
    <3>6. booking' \in BookingRow
      <4>1. CASE ops[q].method = "cash_on_site"
        BY <2>4, <4>1, <1>a, PaymentSettledType DEF PayCommit, BookingPayment
      <4>2. CASE ops[q].method # "cash_on_site"
        BY <2>4, <4>2, <1>a DEF PayCommit
      <4> QED BY <4>1, <4>2
    <3> QED BY <2>4, <2>f, <3>4, <3>5, <3>6 DEF PayCommit, PaymentRow, BookingRow
  <2>5. CASE PayRefused(q)
    BY <2>5, <2>f DEF PayRefused
  <2>6. ASSUME NEW p \in Slots, ProofPresign(q, p) PROVE TypeOK'
    BY <2>6 DEF ProofPresign
  <2>7. ASSUME NEW p \in Slots, ProofRead(q, p) PROVE TypeOK'
    <3>1. [op |-> "proof", slot |-> p] \in Operation
      BY DEF Operation
    <3> QED BY <2>7, <2>s, <3>1 DEF ProofRead
  <2>8. CASE ProofCommit(q)
    <3>1. ops[q].slot \in Slots
      BY <2>8, <1>b, OperationFields DEF ProofCommit
    <3>2. payments' \in [Slots -> PaymentRow]
      BY <2>8, <1>a, <3>1 DEF ProofCommit, PaymentRow, PaymentStatus
    <3>3. booking' \in BookingRow
      <4>1. booking.deadline \in Int /\ now + ProofExtension \in Int
        OBVIOUS
      <4>2. Greatest(booking.deadline, now + ProofExtension) \in Int
        BY <4>1 DEF Greatest
      <4>3. [booking EXCEPT !.deadline = Greatest(booking.deadline, now + ProofExtension)]
               \in BookingRow
        BY <4>2, <1>a DEF BookingRow
      <4> QED BY <2>8, <1>a, <4>3 DEF ProofCommit
    <3> QED BY <2>8, <2>f, <3>2, <3>3 DEF ProofCommit, PaymentRow, BookingRow
  <2>9. ASSUME NEW p \in Slots, VerifyRead(q, p) PROVE TypeOK'
    <3>1. [op |-> "verify", slot |-> p] \in Operation
      BY DEF Operation
    <3> QED BY <2>9, <2>s, <3>1 DEF VerifyRead
  <2>10. CASE VerifyCommit(q)
    <3>1. ops[q].slot \in Slots
      BY <2>10, <1>b, OperationFields DEF VerifyCommit
    <3>2. payments' \in [Slots -> PaymentRow]
      BY <2>10, <1>a, SetPaymentsType DEF VerifyCommit, PaymentStatus
    <3>3. res' \in [Lines -> ReservationStatus]
      BY <2>10, SetLinesType DEF VerifyCommit, ReservationStatus
    <3>4. booking' \in BookingRow
      BY <2>10, <1>a, PaymentSettledType DEF VerifyCommit, BookingPayment
    <3> QED BY <2>10, <2>f, <3>1, <3>2, <3>3, <3>4 DEF VerifyCommit, PaymentRow, BookingRow
  <2>11. ASSUME NEW p \in Slots, RejectRead(q, p) PROVE TypeOK'
    <3>1. [op |-> "reject", slot |-> p, pay |-> booking.pay] \in Operation
      BY DEF Operation
    <3> QED BY <2>11, <2>s, <3>1 DEF RejectRead
  <2>12. CASE RejectCommit(q)
    <3>1. ops[q].slot \in Slots
      BY <2>12, <1>b, OperationFields DEF RejectCommit
    <3>2. /\ SetPayments(PaymentsIn(Open), "expired") \in [Slots -> PaymentRow]
          /\ SetPayments({ops[q].slot}, "failed") \in [Slots -> PaymentRow]
      BY <1>a, SetPaymentsType DEF PaymentStatus
    <3>3. payments' \in [Slots -> PaymentRow]
      <4>1. CASE ops[q].pay = "unpaid"
        BY <2>12, <4>1, <3>1, <3>2 DEF RejectCommit, PaymentRow, PaymentStatus
      <4>2. CASE ops[q].pay # "unpaid"
        BY <2>12, <4>2, <3>2 DEF RejectCommit
      <4> QED BY <4>1, <4>2
    <3>4. res' \in [Lines -> ReservationStatus]
      BY <2>12, SetLinesType DEF RejectCommit, ExpireRows, ReservationStatus
    <3>5. booking' \in BookingRow
      <4>1. CASE ops[q].pay = "unpaid"
        BY <2>12, <4>1, <1>a DEF RejectCommit, ExpireRows, BookingPayment, BookingRow
      <4>2. CASE ops[q].pay # "unpaid"
        BY <2>12, <4>2, <1>a DEF RejectCommit
      <4> QED BY <4>1, <4>2
    <3> QED BY <2>12, <2>f, <3>3, <3>4, <3>5 DEF RejectCommit, PaymentRow, BookingRow
  <2>13. CASE RefundDone(q)
    BY <2>13 DEF RefundDone, BookingPayment
  <2>14. ASSUME NEW l \in Lines, NEW action \in DeskActions, ActRead(q, l, action)
         PROVE  TypeOK'
    <3>1. [op |-> "act", line |-> l, action |-> action] \in Operation
      BY DEF Operation
    <3> QED BY <2>14, <2>s, <3>1 DEF ActRead
  <2>15. ASSUME NEW l \in Lines, NEW action \in DeskActions,
                UnitActUpdate(q, l, action)
         PROVE  TypeOK'
    <3>1. Hook(l, action) \in Operation
      BY DEF Hook, Operation
    <3> QED BY <2>15, <2>s, <3>1 DEF UnitActUpdate
  <2>16. CASE ActUpdate(q)
    <3>1. Hook(ops[q].line, ops[q].action) \in Operation
      <4>1. ops[q].line \in Lines /\ ops[q].action \in DeskActions
        BY <2>16, <1>b, OperationFields DEF ActUpdate
      <4> QED BY <4>1 DEF Hook, Operation
    <3> QED BY <2>16, <3>1 DEF ActUpdate
  <2>17. ASSUME NEW S, DeskCommit(q, S)
         PROVE  /\ res' \in [Lines -> ReservationStatus]
                /\ ops' \in [Requests -> Operation]
    BY <2>17, <2>f DEF DeskCommit, Target, ReservationStatus
  <2>18. CASE DeskConfirm(q)
    <3>1. booking' \in BookingRow
      BY <2>18, <1>a, PaymentSettledType DEF DeskConfirm, BookingPayment
    <3> QED BY <2>18, <2>17, <3>1 DEF DeskConfirm, DeskCommit, BookingRow
  <2>19. CASE DeskCheckOut(q)
    <3>1. booking' \in BookingRow
      BY <2>19, <1>a DEF DeskCheckOut, BookingPayment, BookingRow
    <3>2. payments' \in [Slots -> PaymentRow]
      BY <2>19, <1>a, SetPaymentsType DEF DeskCheckOut, PaymentStatus
    <3>3. received' \subseteq Slots
      BY <2>19 DEF DeskCheckOut, CashPending, PaymentsIn
    <3> QED BY <2>19, <2>17, <3>1, <3>2, <3>3 DEF DeskCheckOut, DeskCommit, PaymentRow, BookingRow
  <2>20. CASE DeskCancel(q)
    <3>1. PayAfterCancel(ops[q].pay) \in BookingPayment
      BY <2>20, <1>b, OperationFields, PayAfterCancelType DEF DeskCancel, DeskCommit
    <3>2. booking' \in BookingRow
      <4>1. CASE ops[q].last
        BY <2>20, <4>1, <3>1 DEF DeskCancel, CancelRows, BookingRow
      <4>2. CASE ~ops[q].last
        BY <2>20, <4>2, <1>a DEF DeskCancel
      <4> QED BY <4>1, <4>2
    <3>3. payments' \in [Slots -> PaymentRow]
      BY <2>20, <1>a, SetPaymentsType DEF DeskCancel, CancelRows, PaymentStatus
    <3> QED BY <2>20, <2>17, <3>2, <3>3 DEF DeskCancel, DeskCommit, PaymentRow, BookingRow
  <2>21. CASE DeskOther(q)
    BY <2>21, <2>17 DEF DeskOther, DeskCommit
  <2>22. CASE Abort(q)
    BY <2>22, <2>f DEF Abort
  <2> QED
    BY <1>1, <2>1, <2>2, <2>3, <2>4, <2>5, <2>6, <2>7, <2>8, <2>9, <2>10, <2>11,
       <2>12, <2>13, <2>14, <2>15, <2>16, <2>18, <2>19, <2>20, <2>21, <2>22
       DEF Request
<1>2. ASSUME NEW p \in Slots, UploadProof(p) PROVE TypeOK'
  BY <1>2 DEF UploadProof
<1>3. CASE SweepSelect \/ SweepFail
  BY <1>3 DEF SweepSelect, SweepFail
<1>4. CASE SweepExpire
  <2>1. payments' \in [Slots -> PaymentRow]
    BY <1>4, <1>a, SetPaymentsType DEF SweepExpire, PaymentStatus
  <2>2. res' \in [Lines -> ReservationStatus]
    BY <1>4, SetLinesType DEF SweepExpire, ExpireRows, ReservationStatus
  <2>3. booking' \in BookingRow
    <3>1. CASE StillUnpaid
      BY <1>4, <3>1, <1>a DEF SweepExpire, ExpireRows, BookingPayment, BookingRow
    <3>2. CASE ~StillUnpaid
      BY <1>4, <3>2, <1>a DEF SweepExpire
    <3> QED BY <3>1, <3>2
  <2> QED BY <1>4, <2>1, <2>2, <2>3 DEF SweepExpire, PaymentRow, BookingRow
<1>5. CASE Tick
  BY <1>5 DEF Tick
<1>6. CASE UNCHANGED vars
  BY <1>6 DEF vars
<1> QED
  BY <1>1, <1>2, <1>3, <1>4, <1>5, <1>6 DEF Next

(* Every variable keeps its type in every execution, whatever the constants.*)
THEOREM TypeCorrect == Spec => []TypeOK
BY InitType, TypeStep, PTL DEF Spec

-----------------------------------------------------------------------------
(* The strengthening that makes HoldsReleased and ConfirmedIsCovered        *)
(* inductive: what a Front Office transaction in progress knows stays true  *)
(* until it commits, because it holds the lock of its reservation.          *)

Final   == {"checked_out", "cancelled", "no_show"}
Covered == {"paid", "pay_at_property"}

Hooked(q) == ops[q].op = "hook"

(* Two transactions never hold the same reservation.                        *)
LocksExclude ==
    \A a, b \in Requests :
        Hooked(a) /\ Hooked(b) /\ ops[a].line = ops[b].line => a = b

(* The action that was allowed when the reservation was locked still is.    *)
HookAllowed ==
    \A q \in Requests :
        Hooked(q) /\ ops[q].line \in UnitLines =>
            UnitAllows(res[ops[q].line], ops[q].action)

(* A transaction that found the other lines finished finds them so later.   *)
LastIsLast ==
    \A q \in Requests :
        Hooked(q) /\ ops[q].last =>
            \A l \in UnitLines \ {ops[q].line} : res[l] \in Final

(* A booking that has a new line can still be paid, and one that was        *)
(* covered when a confirmation locked the line still is.                    *)
NewIsPayable ==
    \A l \in UnitLines : res[l] = "new" => booking.pay \in Covered \cup {"unpaid"}

ConfirmCovered ==
    \A q \in Requests :
        /\ Hooked(q) /\ ops[q].line \in UnitLines
        /\ ops[q].action = "confirm" /\ ops[q].pay # "unpaid"
        => booking.pay \in Covered

(* hotel.Act is not used for an apartment.                                  *)
ActIsHotel == \A q \in Requests : ops[q].op = "act" => ops[q].line \notin UnitLines

IInv ==
    /\ TypeOK /\ ActIsHotel
    /\ LocksExclude /\ HookAllowed /\ LastIsLast
    /\ NewIsPayable /\ ConfirmCovered
    /\ HoldsReleased /\ ConfirmedIsCovered

(* No request enters or changes a Front Office transaction in this step.    *)
HooksKept ==
    \A q \in Requests : /\ ops'[q].op = "hook" => ops'[q] = ops[q]
                        /\ ops'[q].op = "act" => ops'[q].line \notin UnitLines

(* A step that leaves the reservations and the two statuses of the booking  *)
(* alone keeps the invariant.                                               *)
LEMMA QuietStep ==
    ASSUME IInv, TypeOK', HooksKept, res' = res,
           booking'.pay = booking.pay, booking'.override = booking.override
    PROVE  IInv'
<1> USE DEF IInv, HooksKept, Hooked
<1>1. ActIsHotel' /\ LocksExclude'
  BY DEF ActIsHotel, LocksExclude
<1>2. HookAllowed'
  BY DEF HookAllowed, UnitAllows
<1>3. LastIsLast'
  BY DEF LastIsLast
<1>4. ConfirmCovered'
  BY DEF ConfirmCovered
<1>5. NewIsPayable' /\ HoldsReleased' /\ ConfirmedIsCovered'
  BY DEF NewIsPayable, HoldsReleased, ConfirmedIsCovered
<1> QED
  BY <1>1, <1>2, <1>3, <1>4, <1>5

(* A cancellation or an expiry takes every line that is held, none of them  *)
(* locked, and may set the booking to anything.                             *)
LEMMA ReleaseStep ==
    ASSUME IInv, TypeOK', HooksKept,
           res' = SetLines(Held, "cancelled"),
           \A q \in Requests : ops'[q].op = "hook" => ops[q].line \notin Held
    PROVE  IInv'
<1> USE DEF IInv, HooksKept, Hooked, TypeOK, SetLines, Held, LinesIn
<1>0. \A q \in Requests : ops'[q].op = "hook" => ops[q].line \in Lines
  BY OperationFields
<1>1. ActIsHotel' /\ LocksExclude'
  BY DEF ActIsHotel, LocksExclude
<1>2. HookAllowed'
  BY <1>0 DEF HookAllowed, UnitAllows
<1>3. LastIsLast'
  BY ConstantsAssumption DEF LastIsLast, Final
<1>4. ConfirmCovered'
  BY <1>0 DEF ConfirmCovered, HookAllowed, UnitAllows
<1>5. NewIsPayable' /\ HoldsReleased' /\ ConfirmedIsCovered'
  BY ConstantsAssumption DEF NewIsPayable, HoldsReleased, ConfirmedIsCovered
<1> QED
  BY <1>1, <1>2, <1>3, <1>4, <1>5

(* A payment confirms every new line, none of them locked.                  *)
LEMMA ConfirmStep ==
    ASSUME IInv, TypeOK', HooksKept,
           res' = SetLines(LinesIn({"new"}), "confirmed"),
           booking'.pay \in Covered, booking'.override = booking.override,
           \A q \in Requests : ops'[q].op = "hook" => ops[q].line \notin LinesIn({"new"})
    PROVE  IInv'
<1> USE DEF IInv, HooksKept, Hooked, TypeOK, SetLines, LinesIn
<1>0. \A q \in Requests : ops'[q].op = "hook" => ops[q].line \in Lines
  BY OperationFields
<1>1. ActIsHotel' /\ LocksExclude'
  BY DEF ActIsHotel, LocksExclude
<1>2. HookAllowed'
  BY <1>0 DEF HookAllowed, UnitAllows
<1>3. LastIsLast'
  BY ConstantsAssumption DEF LastIsLast, Final
<1>4. ConfirmCovered' /\ ConfirmedIsCovered' /\ NewIsPayable'
  BY DEF ConfirmCovered, ConfirmedIsCovered, NewIsPayable, Covered
<1>5. HoldsReleased'
  BY ConstantsAssumption DEF HoldsReleased
<1> QED
  BY <1>1, <1>2, <1>3, <1>4, <1>5

(* A Front Office transaction takes the lock of its line.                   *)
LEMMA HookStep ==
    ASSUME IInv, TypeOK', NEW q \in Requests, NEW l \in Lines, NEW action \in DeskActions,
           ops' = [ops EXCEPT ![q] = Hook(l, action)],
           ~LineLocked(l, q), UNCHANGED <<res, booking>>,
           l \in UnitLines => UnitAllows(res[l], action)
    PROVE  IInv'
<1> USE DEF IInv, Hooked, TypeOK
<1>h. /\ ops'[q].op = "hook" /\ ops'[q].line = l /\ ops'[q].action = action
      /\ ops'[q].pay = booking.pay
      /\ ops'[q].last => LinesIn({"new", "confirmed", "checked_in"}) \subseteq {l}
  BY DEF Hook
<1>o. \A o \in Requests \ {q} : ops'[o] = ops[o]
  OBVIOUS
<1>1. ActIsHotel'
  BY <1>h, <1>o DEF ActIsHotel
<1>2. LocksExclude'
  BY <1>h, <1>o DEF LocksExclude, LineLocked
<1>3. HookAllowed'
  BY <1>h, <1>o DEF HookAllowed, UnitAllows
<1>4. LastIsLast'
  <2>1. ops'[q].last => \A k \in UnitLines \ {l} : res'[k] \in Final
    BY <1>h, ConstantsAssumption DEF LinesIn, Final, ReservationStatus
  <2> QED BY <2>1, <1>h, <1>o DEF LastIsLast
<1>5. ConfirmCovered'
  <2>1. l \in UnitLines /\ action = "confirm" /\ booking.pay # "unpaid"
          => booking.pay \in Covered
    BY DEF UnitAllows, NewIsPayable
  <2> QED BY <2>1, <1>h, <1>o DEF ConfirmCovered
<1>6. NewIsPayable' /\ HoldsReleased' /\ ConfirmedIsCovered'
  BY DEF NewIsPayable, HoldsReleased, ConfirmedIsCovered
<1> QED
  BY <1>1, <1>2, <1>3, <1>4, <1>5, <1>6

(* The commit of a Front Office transaction: the locks, the allowed actions *)
(* and the finished lines of the other ones are untouched.                  *)
LEMMA DeskCommitStep ==
    ASSUME IInv, TypeOK', NEW q \in Requests, NEW S, DeskCommit(q, S)
    PROVE  /\ ActIsHotel' /\ LocksExclude' /\ HookAllowed' /\ LastIsLast'
           /\ ops[q].line \in Lines /\ ops[q].action \in S
           /\ ops[q].line \in UnitLines =>
                 /\ UnitAllows(res[ops[q].line], ops[q].action)
                 /\ res'[ops[q].line] = Target(ops[q].action)
           /\ \A l \in UnitLines \ {ops[q].line} : res'[l] = res[l]
           /\ ops'[q].op = "idle" /\ \A o \in Requests \ {q} : ops'[o] = ops[o]
<1> USE DEF IInv, Hooked, TypeOK
<1>a. ops[q].op = "hook" /\ ops[q].action \in S
  BY DEF DeskCommit
<1>b. ops[q].line \in Lines
  BY <1>a, OperationFields
<1>c. ops'[q].op = "idle" /\ \A o \in Requests \ {q} : ops'[o] = ops[o]
  BY DEF DeskCommit, Finish
<1>d. res'[ops[q].line] = Target(ops[q].action)
  BY <1>b DEF DeskCommit
<1>e. \A l \in UnitLines \ {ops[q].line} : res'[l] = res[l]
  BY ConstantsAssumption DEF DeskCommit
<1>f. ops[q].line \in UnitLines => UnitAllows(res[ops[q].line], ops[q].action)
  BY <1>a DEF HookAllowed
<1>1. ActIsHotel' /\ LocksExclude'
  BY <1>c DEF ActIsHotel, LocksExclude
<1>2. HookAllowed'
  <2>1. \A o \in Requests \ {q} : ops[o].op = "hook" => ops[o].line # ops[q].line
    BY <1>a DEF LocksExclude
  <2> QED BY <1>c, <1>e, <2>1 DEF HookAllowed, UnitAllows
<1>3. LastIsLast'
  <2>1. ops[q].line \in UnitLines => res[ops[q].line] \notin Final
    BY <1>f DEF UnitAllows, Final
  <2> QED BY <1>c, <1>e, <2>1 DEF LastIsLast
<1> QED
  BY <1>a, <1>b, <1>c, <1>d, <1>e, <1>f, <1>1, <1>2, <1>3

(* The initial state satisfies the invariant.                               *)
LEMMA InitIInv == Init => IInv
<1> SUFFICES ASSUME Init PROVE IInv
  OBVIOUS
<1> PICK method \in Methods : CreateBooking(method)
  BY DEF Init
<1>1. TypeOK
  BY InitType
<1>2. \A q \in Requests : ops[q].op = "idle"
  BY DEF Init
<1>3. ActIsHotel /\ LocksExclude /\ HookAllowed /\ LastIsLast /\ ConfirmCovered
  BY <1>2 DEF ActIsHotel, LocksExclude, HookAllowed, LastIsLast, ConfirmCovered, Hooked
<1>4. NewIsPayable /\ HoldsReleased /\ ConfirmedIsCovered
  BY ConstantsAssumption
     DEF CreateBooking, NewIsPayable, HoldsReleased, ConfirmedIsCovered, Covered
<1> QED
  BY <1>1, <1>3, <1>4 DEF IInv

(* Every step keeps the invariant.                                          *)
LEMMA StepIInv == IInv /\ [Next]_vars => IInv'
<1> SUFFICES ASSUME IInv, [Next]_vars PROVE IInv'
  OBVIOUS
<1>t. TypeOK'
  BY TypeStep DEF IInv
<1> USE DEF IInv
<1>1. ASSUME NEW q \in Requests, Request(q) PROVE IInv'
  <2>f. Finish(q) => /\ HooksKept
                     /\ ops'[q].op = "idle" /\ \A o \in Requests \ {q} : ops'[o] = ops[o]
    BY DEF Finish, HooksKept, ActIsHotel, TypeOK
  <2>s. ASSUME NEW operation, Start(q, operation), operation.op # "hook",
               operation.op = "act" => operation.line \notin UnitLines
        PROVE  HooksKept
    BY <2>s DEF Start, HooksKept, ActIsHotel, TypeOK
  <2>l. ASSUME NEW L, LinesFree(L, q), Finish(q)
        PROVE  \A o \in Requests : ops'[o].op = "hook" => ops[o].line \notin L
    BY <2>l, <2>f DEF LinesFree, LineLocked
  <2>1. CASE CancelRead(q)
    BY <1>t, <2>1, <2>s, QuietStep DEF CancelRead
  <2>2. CASE CancelCommit(q)
    BY <1>t, <2>2, <2>f, <2>l, ReleaseStep DEF CancelCommit
  <2>3. ASSUME NEW method \in Methods, PayRead(q, method) PROVE IInv'
    BY <1>t, <2>3, <2>s, QuietStep DEF PayRead
  <2>4. CASE PayCommit(q)
    <3>1. CASE ops[q].method = "cash_on_site"
      <4>1. booking'.pay \in Covered /\ booking'.override = booking.override
        BY <2>4, <3>1 DEF PayCommit, PaymentSettled, Covered, TypeOK
      <4> QED BY <1>t, <2>4, <3>1, <4>1, <2>f, <2>l, ConfirmStep DEF PayCommit
    <3>2. CASE ops[q].method # "cash_on_site"
      BY <1>t, <2>4, <3>2, <2>f, QuietStep DEF PayCommit
    <3> QED BY <3>1, <3>2
  <2>5. CASE PayRefused(q) \/ Abort(q)
    BY <1>t, <2>5, <2>f, QuietStep DEF PayRefused, Abort
  <2>6. ASSUME NEW p \in Slots, ProofPresign(q, p) PROVE IInv'
    <3>1. HooksKept
      BY <2>6 DEF ProofPresign, HooksKept, ActIsHotel
    <3> QED BY <1>t, <2>6, <3>1, QuietStep DEF ProofPresign
  <2>7. ASSUME NEW p \in Slots, ProofRead(q, p) PROVE IInv'
    BY <1>t, <2>7, <2>s, QuietStep DEF ProofRead
  <2>8. CASE ProofCommit(q)
    <3>1. booking'.pay = booking.pay /\ booking'.override = booking.override
      BY <2>8 DEF ProofCommit, TypeOK
    <3> QED BY <1>t, <2>8, <3>1, <2>f, QuietStep DEF ProofCommit
  <2>9. ASSUME NEW p \in Slots, VerifyRead(q, p) PROVE IInv'
    BY <1>t, <2>9, <2>s, QuietStep DEF VerifyRead
  <2>10. CASE VerifyCommit(q)
    <3>1. booking'.pay \in Covered /\ booking'.override = booking.override
      BY <2>10 DEF VerifyCommit, PaymentSettled, Covered, TypeOK
    <3> QED BY <1>t, <2>10, <3>1, <2>f, <2>l, ConfirmStep DEF VerifyCommit
  <2>11. ASSUME NEW p \in Slots, RejectRead(q, p) PROVE IInv'
    BY <1>t, <2>11, <2>s, QuietStep DEF RejectRead
  <2>12. CASE RejectCommit(q)
    <3>1. CASE ops[q].pay = "unpaid"
      BY <1>t, <2>12, <3>1, <2>f, <2>l, ReleaseStep DEF RejectCommit, ExpireRows
    <3>2. CASE ops[q].pay # "unpaid"
      BY <1>t, <2>12, <3>2, <2>f, QuietStep DEF RejectCommit
    <3> QED BY <3>1, <3>2
  <2>13. CASE RefundDone(q)
    <3> USE <2>13 DEF RefundDone, TypeOK
    <3>1. \A l \in UnitLines : res[l] \notin {"new", "confirmed"}
      BY DEF NewIsPayable, ConfirmedIsCovered, Covered
    <3>2. ActIsHotel' /\ LocksExclude' /\ HookAllowed' /\ LastIsLast'
      BY DEF ActIsHotel, LocksExclude, HookAllowed, LastIsLast, Hooked, UnitAllows
    <3>3. ConfirmCovered'
      BY <3>1 DEF ConfirmCovered, HookAllowed, UnitAllows, Hooked
    <3>4. NewIsPayable' /\ HoldsReleased' /\ ConfirmedIsCovered'
      BY <3>1 DEF NewIsPayable, HoldsReleased, ConfirmedIsCovered
    <3> QED BY <1>t, <3>2, <3>3, <3>4
  <2>14. ASSUME NEW l \in Lines, NEW action \in DeskActions, ActRead(q, l, action)
         PROVE  IInv'
    BY <1>t, <2>14, <2>s, QuietStep DEF ActRead
  <2>15. ASSUME NEW l \in Lines, NEW action \in DeskActions,
                UnitActUpdate(q, l, action)
         PROVE  IInv'
    BY <1>t, <2>15, HookStep DEF UnitActUpdate, Start
  <2>16. CASE ActUpdate(q)
    <3>1. /\ ops[q].line \in Lines /\ ops[q].action \in DeskActions
          /\ ops[q].line \notin UnitLines
      BY <2>16, OperationFields DEF ActUpdate, TypeOK, ActIsHotel
    <3>2. ops' = [ops EXCEPT ![q] = Hook(ops[q].line, ops[q].action)]
      BY <2>16 DEF ActUpdate
    <3> QED BY <1>t, <2>16, <3>1, <3>2, HookStep DEF ActUpdate
  <2>18. CASE DeskConfirm(q)
    <3>1. DeskCommit(q, {"confirm"})
      BY <2>18 DEF DeskConfirm
    <3>d. ASSUME NEW l \in UnitLines, l = ops[q].line
          PROVE  res[l] = "new" /\ res'[l] = "confirmed"
      BY <1>t, <3>1, <3>d, DeskCommitStep DEF UnitAllows, Target
    <3>b. /\ booking'.override = booking.override
          /\ booking'.pay = booking.pay \/ booking'.pay \in Covered
          /\ ops[q].pay = "unpaid" /\ booking.pay = "unpaid" => booking'.pay \in Covered
      BY <2>18 DEF DeskConfirm, PaymentSettled, Covered, TypeOK
    <3>c. ops[q].line \in UnitLines => booking'.pay \in Covered
      BY <3>1, <3>b, <3>d DEF ConfirmCovered, NewIsPayable, Hooked, DeskCommit
    <3>o. \A l \in UnitLines : l = ops[q].line \/ res'[l] = res[l]
      BY <1>t, <3>1, DeskCommitStep
    <3>n. NewIsPayable'
      <4> SUFFICES ASSUME NEW l \in UnitLines, res'[l] = "new"
                   PROVE  booking'.pay \in {"unpaid"} \cup Covered
        BY DEF NewIsPayable, Covered
      <4>1. res[l] = "new"
        BY <3>o, <3>d
      <4> QED BY <4>1, <3>b DEF NewIsPayable, Covered
    <3>2. NewIsPayable' /\ ConfirmedIsCovered'
      <4> SUFFICES ASSUME NEW l \in UnitLines, res'[l] = "confirmed"
                   PROVE  booking'.pay \in Covered
        BY <3>n DEF ConfirmedIsCovered, Covered
      <4>1. CASE l = ops[q].line
        BY <4>1, <3>c
      <4>2. CASE l # ops[q].line
        BY <4>2, <3>o, <3>b DEF ConfirmedIsCovered, Covered
      <4> QED BY <4>1, <4>2
    <3>3. ConfirmCovered'
      BY <1>t, <3>1, <3>b, DeskCommitStep DEF ConfirmCovered, Hooked
    <3>4. HoldsReleased'
      BY <1>t, <3>1, <3>b, <3>d, DeskCommitStep DEF HoldsReleased
    <3> QED BY <1>t, <3>1, <3>2, <3>3, <3>4, DeskCommitStep
  <2>19. CASE DeskCheckOut(q) \/ DeskOther(q) \/ (DeskCancel(q) /\ ~ops[q].last)
    <3>1. PICK S \in SUBSET (DeskActions \ {"confirm"}) : DeskCommit(q, S)
      BY <2>19 DEF DeskCheckOut, DeskOther, DeskCancel, DeskActions
    <3>d. ASSUME NEW l \in UnitLines, l = ops[q].line
          PROVE  res'[l] \notin {"new", "confirmed"}
      BY <1>t, <3>1, <3>d, DeskCommitStep DEF Target, DeskActions
    <3>b. /\ booking'.override = booking.override
          /\ booking'.pay = booking.pay \/ booking'.pay \in Covered
      BY <2>19 DEF DeskCheckOut, DeskOther, DeskCancel, Covered, TypeOK
    <3>2. NewIsPayable' /\ ConfirmedIsCovered' /\ HoldsReleased'
      BY <1>t, <3>1, <3>b, <3>d, DeskCommitStep
         DEF NewIsPayable, ConfirmedIsCovered, HoldsReleased, Covered
    <3>3. ConfirmCovered'
      BY <1>t, <3>1, <3>b, DeskCommitStep DEF ConfirmCovered, Hooked
    <3> QED BY <1>t, <3>1, <3>2, <3>3, DeskCommitStep
  <2>20. CASE DeskCancel(q) /\ ops[q].last
    <3>1. DeskCommit(q, {"cancel"})
      BY <2>20 DEF DeskCancel
    <3>2. \A l \in UnitLines : res'[l] \in Final
      <4>1. \A l \in UnitLines \ {ops[q].line} : res[l] \in Final
        BY <2>20, <3>1 DEF LastIsLast, Hooked, DeskCommit
      <4>2. ops[q].line \in UnitLines => res'[ops[q].line] = "cancelled"
        BY <1>t, <3>1, DeskCommitStep DEF Target
      <4> QED BY <1>t, <3>1, <4>1, <4>2, DeskCommitStep DEF Final
    <3>3. NewIsPayable' /\ ConfirmedIsCovered' /\ HoldsReleased'
      BY <3>2 DEF NewIsPayable, ConfirmedIsCovered, HoldsReleased, Final
    <3>4. HookAllowed'
      BY <1>t, <3>1, DeskCommitStep
    <3>5. ConfirmCovered'
      BY <3>2, <3>4 DEF ConfirmCovered, HookAllowed, Hooked, UnitAllows, Final
    <3> QED BY <1>t, <3>1, <3>3, <3>5, DeskCommitStep
  <2> QED
    BY <1>1, <2>1, <2>2, <2>3, <2>4, <2>5, <2>6, <2>7, <2>8, <2>9, <2>10, <2>11,
       <2>12, <2>13, <2>14, <2>15, <2>16, <2>18, <2>19, <2>20
       DEF Request
<1>k. ops' = ops => HooksKept
  BY DEF HooksKept, ActIsHotel
<1>2. ASSUME NEW p \in Slots, UploadProof(p) PROVE IInv'
  BY <1>2, <1>k, <1>t, QuietStep DEF UploadProof
<1>3. CASE SweepSelect \/ SweepFail \/ Tick
  BY <1>3, <1>k, <1>t, QuietStep DEF SweepSelect, SweepFail, Tick
<1>4. CASE SweepExpire
  <2>1. CASE StillUnpaid
    <3>1. \A o \in Requests : ops'[o].op = "hook" => ops[o].line \notin Held
      BY <1>4, <2>1, ConstantsAssumption
         DEF SweepExpire, ExpireRows, LinesFree, LineLocked
    <3> QED BY <1>4, <2>1, <1>k, <1>t, <3>1, ReleaseStep DEF SweepExpire, ExpireRows
  <2>2. CASE ~StillUnpaid
    BY <1>4, <2>2, <1>k, <1>t, QuietStep DEF SweepExpire
  <2> QED BY <2>1, <2>2
<1>5. CASE UNCHANGED vars
  BY <1>5, <1>k, <1>t, QuietStep DEF vars
<1> QED
  BY <1>1, <1>2, <1>3, <1>4, <1>5 DEF Next

(* The strengthened invariant holds in every reachable state.               *)
THEOREM Inductive == Spec => []IInv
BY InitIInv, StepIInv, PTL DEF Spec

(* A booking that was cancelled or expired never holds an apartment, however*)
(* many requests overlap with the sweep.                                    *)
THEOREM HoldsAreReleased == Spec => []HoldsReleased
<1>1. IInv => HoldsReleased
  BY DEF IInv
<1> QED
  BY Inductive, <1>1, PTL

(* A confirmed apartment always belongs to a booking that is paid or will   *)
(* be paid at the property.                                                 *)
THEOREM ConfirmationsAreCovered == Spec => []ConfirmedIsCovered
<1>1. IInv => ConfirmedIsCovered
  BY DEF IInv
<1> QED
  BY Inductive, <1>1, PTL

-----------------------------------------------------------------------------
(* Every step takes the stay of an apartment forward or leaves it alone.    *)
LEMMA StepForward == IInv /\ [Next]_vars => [StayForward]_res
<1> SUFFICES ASSUME IInv, Next PROVE StayForward
  BY DEF vars, StayForward
<1>t. TypeOK'
  BY TypeStep DEF IInv
<1> USE DEF StayForward
<1>n. ASSUME UNCHANGED res PROVE StayForward
  BY <1>n
<1>r. ASSUME res' = SetLines(Held, "cancelled") PROVE StayForward
  BY <1>r, ConstantsAssumption DEF SetLines, Held, LinesIn, MovesForward, Rank
<1>c. ASSUME res' = SetLines(LinesIn({"new"}), "confirmed") PROVE StayForward
  BY <1>c, ConstantsAssumption DEF SetLines, LinesIn, MovesForward, Rank
<1>1. ASSUME NEW q \in Requests, Request(q) PROVE StayForward
  <2>1. ASSUME NEW S, DeskCommit(q, S) PROVE StayForward
    <3> SUFFICES ASSUME NEW l \in UnitLines, l = ops[q].line
                 PROVE  MovesForward(res[l], res'[l])
      BY <1>t, <2>1, DeskCommitStep
    <3>1. UnitAllows(res[l], ops[q].action) /\ res'[l] = Target(ops[q].action)
      BY <1>t, <2>1, DeskCommitStep
    <3> QED BY <3>1 DEF UnitAllows, Target, MovesForward, Rank
  <2>2. CASE \/ CancelRead(q) \/ CancelCommit(q)
             \/ \E method \in Methods : PayRead(q, method)
             \/ PayCommit(q) \/ PayRefused(q)
    BY <2>2, <1>n, <1>r, <1>c DEF CancelRead, CancelCommit, PayRead, PayCommit, PayRefused
  <2>3. CASE \E p \in Slots : \/ ProofPresign(q, p) \/ ProofRead(q, p)
                              \/ VerifyRead(q, p) \/ RejectRead(q, p)
    BY <2>3, <1>n DEF ProofPresign, ProofRead, VerifyRead, RejectRead
  <2>4. CASE \/ ProofCommit(q) \/ VerifyCommit(q) \/ RejectCommit(q)
             \/ RefundDone(q) \/ Abort(q)
    BY <2>4, <1>n, <1>r, <1>c
       DEF ProofCommit, VerifyCommit, RejectCommit, ExpireRows, RefundDone, Abort
  <2>5. CASE \/ \E l \in Lines, action \in DeskActions :
                    ActRead(q, l, action) \/ UnitActUpdate(q, l, action)
             \/ ActUpdate(q)
    BY <2>5, <1>n DEF ActRead, UnitActUpdate, ActUpdate
  <2>6. CASE DeskConfirm(q) \/ DeskCheckOut(q) \/ DeskCancel(q) \/ DeskOther(q)
    BY <2>6, <2>1 DEF DeskConfirm, DeskCheckOut, DeskCancel, DeskOther
  <2> QED
    BY <1>1, <2>2, <2>3, <2>4, <2>5, <2>6 DEF Request
<1>2. CASE \/ \E p \in Slots : UploadProof(p)
           \/ SweepSelect \/ SweepExpire \/ SweepFail \/ Tick
  BY <1>2, <1>n, <1>r
     DEF UploadProof, SweepSelect, SweepExpire, ExpireRows, SweepFail, Tick
<1> QED
  BY <1>1, <1>2 DEF Next

(* No request, however late, takes the stay of an apartment back.           *)
THEOREM StaysForward == Spec => StaysMoveForward
BY Inductive, StepForward, PTL DEF Spec, StaysMoveForward

-----------------------------------------------------------------------------
(* RefundBacked, for a booking of apartments (a stale hotel.Act could take  *)
(* a checked-out hotel room back).  Its strengthening: every payment status *)
(* that says money came in, in the row or in a snapshot, is backed.         *)

Money == {"paid", "refund_pending", "refunded"}

Backed == received # {} \/ \E l \in Lines : res[l] = "checked_out"

PayBacked ==
    /\ booking.pay \in Money => Backed
    /\ \A q \in Requests :
          ops[q].op \in {"cancel", "hook"} /\ ops[q].pay \in Money => Backed

(* Payments that came in are never forgotten, nor is a finished stay.       *)
LEMMA BackedStable ==
    ASSUME Lines = UnitLines, IInv, Next, Backed
    PROVE  Backed'
<1>1. StayForward
  BY StepForward DEF StayForward
<1>2. ASSUME NEW l \in Lines, res[l] = "checked_out" PROVE res'[l] = "checked_out"
  BY <1>1, <1>2, TypeStep DEF StayForward, MovesForward, Rank, IInv, TypeOK, ReservationStatus
<1>3. received \subseteq received'
  BY ZenonT(30) DEF Next, Request, CancelRead, CancelCommit, PayRead, PayCommit, PayRefused,
         ProofPresign, ProofRead, VerifyRead, RejectRead, ProofCommit, VerifyCommit,
         RejectCommit, RefundDone, ActRead, UnitActUpdate, ActUpdate, DeskConfirm,
         DeskCheckOut, DeskCancel, DeskOther, DeskCommit, Abort, UploadProof,
         SweepSelect, SweepExpire, SweepFail, Tick
<1> QED
  BY <1>2, <1>3 DEF Backed

(* A step after which every status that speaks of money was there before.   *)
LEMMA KeepsBacked ==
    ASSUME PayBacked, Backed => Backed',
           booking'.pay \in Money => booking.pay \in Money \/ Backed',
           \A q \in Requests :
               ops'[q].op \in {"cancel", "hook"} /\ ops'[q].pay \in Money
               => \/ ops'[q] = ops[q] \/ ops'[q].pay = booking.pay
    PROVE  PayBacked'
BY DEF PayBacked

(* Every step keeps PayBacked.                                              *)
LEMMA StepBacked ==
    ASSUME Lines = UnitLines
    PROVE  IInv /\ PayBacked /\ [Next]_vars => PayBacked'
<1> SUFFICES ASSUME IInv, PayBacked, [Next]_vars PROVE PayBacked'
  OBVIOUS
<1>t. TypeOK /\ TypeOK'
  BY TypeStep DEF IInv
<1>s. CASE UNCHANGED vars
  BY <1>s DEF vars, PayBacked, Backed
<1> SUFFICES ASSUME Next PROVE PayBacked'
  BY <1>s
<1>b. Backed => Backed'
  BY BackedStable
<1>0. ops' = ops /\ booking'.pay \notin Money \ {booking.pay} => PayBacked'
  BY <1>b, KeepsBacked
<1>1. ASSUME NEW q \in Requests, Request(q) PROVE PayBacked'
  <2>f. Finish(q) => ops'[q].op = "idle" /\ \A o \in Requests \ {q} : ops'[o] = ops[o]
    BY <1>t DEF Finish, TypeOK
  <2>k. ASSUME booking'.pay \in Money => booking.pay \in Money \/ Backed', Finish(q)
        PROVE  PayBacked'
    BY <1>b, <2>f, <2>k, KeepsBacked
  <2>s. ASSUME NEW operation, Start(q, operation), booking' = booking,
               operation.op \in {"cancel", "hook"} => operation.pay = booking.pay
        PROVE  PayBacked'
    <3>1. ops'[q] = operation /\ \A o \in Requests \ {q} : ops'[o] = ops[o]
      BY <1>t, <2>s DEF Start, TypeOK
    <3> QED BY <1>b, <2>s, <3>1, KeepsBacked
  <2>1. CASE CancelRead(q)
    BY <2>1, <2>s DEF CancelRead
  <2>2. CASE CancelCommit(q)
    <3>1. booking'.pay \in Money => ops[q].pay \in Money
      BY <2>2 DEF CancelCommit, CancelRows, PayAfterCancel, Money
    <3>2. ops[q].pay \in Money => Backed
      BY <2>2 DEF CancelCommit, PayBacked
    <3> QED BY <1>b, <2>2, <2>k, <3>1, <3>2 DEF CancelCommit
  <2>3. CASE \E method \in Methods : PayRead(q, method)
    BY <2>3, <2>s DEF PayRead
  <2>4. CASE PayCommit(q) \/ PayRefused(q) \/ Abort(q)
    <3>1. booking'.pay \in Money => booking.pay \in Money
      BY <1>t, <2>4 DEF PayCommit, PayRefused, Abort, PaymentSettled, Money, TypeOK
    <3> QED BY <2>4, <2>k, <3>1 DEF PayCommit, PayRefused, Abort
  <2>5. CASE \E p \in Slots : \/ ProofPresign(q, p) \/ ProofRead(q, p)
                              \/ VerifyRead(q, p) \/ RejectRead(q, p)
    BY <1>0, <2>5, <2>s DEF ProofPresign, ProofRead, VerifyRead, RejectRead
  <2>6. CASE ProofCommit(q)
    <3>1. booking'.pay = booking.pay
      BY <1>t, <2>6 DEF ProofCommit, TypeOK
    <3> QED BY <2>6, <2>k, <3>1 DEF ProofCommit
  <2>7. CASE VerifyCommit(q)
    <3>1. Backed'
      BY <2>7 DEF VerifyCommit, Backed
    <3> QED BY <2>7, <2>k, <3>1 DEF VerifyCommit
  <2>8. CASE RejectCommit(q)
    <3>1. booking'.pay \in Money => booking.pay \in Money
      BY <1>t, <2>8 DEF RejectCommit, ExpireRows, Money, TypeOK
    <3> QED BY <2>8, <2>k, <3>1 DEF RejectCommit
  <2>9. CASE RefundDone(q)
    <3>1. booking.pay \in Money /\ ops' = ops
      BY <2>9 DEF RefundDone, Money
    <3> QED BY <1>b, <3>1, KeepsBacked
  <2>10. CASE \/ \E l \in Lines, action \in DeskActions :
                    ActRead(q, l, action) \/ UnitActUpdate(q, l, action)
    BY <2>10, <2>s DEF ActRead, UnitActUpdate, Hook
  <2>11. CASE ActUpdate(q)
    <3>1. ops[q].line \in Lines
      BY <1>t, <2>11, OperationFields DEF ActUpdate, TypeOK
    <3> QED BY <2>11, <3>1 DEF ActUpdate, IInv, ActIsHotel
  <2>12. CASE DeskConfirm(q) \/ DeskOther(q)
    <3>1. booking'.pay \in Money => booking.pay \in Money
      BY <1>t, <2>12 DEF DeskConfirm, DeskOther, PaymentSettled, Money, TypeOK
    <3> QED BY <2>12, <2>k, <3>1 DEF DeskConfirm, DeskOther, DeskCommit
  <2>13. CASE DeskCheckOut(q)
    <3>1. DeskCommit(q, {"check_out"})
      BY <2>13 DEF DeskCheckOut
    <3>2. Backed'
      <4>1. ops[q].line \in UnitLines /\ ops[q].action = "check_out"
        BY <1>t, <3>1, DeskCommitStep
      <4>2. res'[ops[q].line] = "checked_out"
        BY <1>t, <3>1, <4>1, DeskCommitStep DEF Target
      <4> QED BY <4>1, <4>2 DEF Backed
    <3> QED BY <2>k, <3>1, <3>2 DEF DeskCommit
  <2>14. CASE DeskCancel(q)
    <3>1. booking'.pay \in Money => booking.pay \in Money \/ ops[q].pay \in Money
      BY <2>14 DEF DeskCancel, CancelRows, PayAfterCancel, Money
    <3>2. ops[q].pay \in Money => Backed
      BY <2>14 DEF DeskCancel, DeskCommit, PayBacked
    <3> QED BY <1>b, <2>14, <2>k, <3>1, <3>2 DEF DeskCancel, DeskCommit
  <2> QED
    BY <1>1, <2>1, <2>2, <2>3, <2>4, <2>5, <2>6, <2>7, <2>8, <2>9, <2>10, <2>11,
       <2>12, <2>13, <2>14 DEF Request
<1>2. CASE \/ \E p \in Slots : UploadProof(p)
           \/ SweepSelect \/ SweepFail \/ Tick
  BY <1>0, <1>2 DEF UploadProof, SweepSelect, SweepFail, Tick
<1>3. CASE SweepExpire
  <2>1. ops' = ops /\ (booking' = booking \/ booking'.pay = "expired")
    BY <1>t, <1>3 DEF SweepExpire, ExpireRows, TypeOK
  <2> QED BY <1>0, <2>1 DEF Money
<1> QED
  BY <1>1, <1>2, <1>3 DEF Next

(* A booking of apartments never has a refund queued or done without money  *)
(* behind it, whatever stale cancellations run.                             *)
THEOREM RefundsAreBacked ==
    ASSUME Lines = UnitLines
    PROVE  Spec => []RefundBacked
<1>1. Init => PayBacked
  BY DEF Init, CreateBooking, PayBacked, Money
<1>2. IInv /\ PayBacked /\ [Next]_vars => PayBacked'
  BY StepBacked
<1>3. PayBacked => RefundBacked
  BY DEF PayBacked, RefundBacked, Backed, Money
<1> QED
  BY Inductive, <1>1, <1>2, <1>3, PTL DEF Spec

-----------------------------------------------------------------------------
(* The money of a booking whose requests run one after the other, however   *)
(* many there are.  The sweep still comes between the steps of a request.   *)

InTurn == \A q \in Requests : Request(q) => \A o \in Requests \ {q} : ops[o] = Idle

Alive  == {"new", "confirmed", "checked_in"}
Queued == {"refund_pending", "refunded"}

Movable(action) ==
    IF action = "check_out" THEN {"checked_in"} ELSE {"new", "confirmed"}

AllFinal == \A l \in Lines : res[l] \in Final

(* What an expiry leaves in the row of the booking.                         *)
Expired == booking.override = "expired" /\ booking.pay = "expired"

(* One payment is open at a time.                                           *)
OneOpen == \A a, b \in PaymentsIn(Open) : a = b

(* The payment status, the override and the money agree.                    *)
Accounts ==
    /\ booking.pay = "paid" => booking.override = "none"
    /\ booking.pay \in Queued => booking.override # "none"
    /\ booking.pay = "expired" => booking.override = "expired"
    /\ booking.pay \in {"unpaid", "pay_at_property", "expired"} => received = {}
    /\ \A a, b \in received : a = b

(* A booking that is closed otherwise than by its expiry has no stay left.  *)
ClosedIsOver ==
    booking.override # "none" /\ ~Expired => AllFinal

Synced ==
    (\A l \in Lines : res[l] = "cancelled") => booking.override # "none" \/ Lines = {}

(* What a request has read still holds when it writes, or the booking has   *)
(* expired: a cancellation, a choice of method, a proof, Finance at work on *)
(* a payment, a Front Office transaction and its hook.                      *)
CancelStands(o) ==
    /\ \A l \in Lines : res[l] # "checked_in"
    /\ o.pay \in {"unpaid", "pay_at_property", "paid"}
    /\ (booking.override = "none" /\ booking.pay = o.pay) \/ Expired

PayStands ==
    /\ \A l \in Lines : res[l] # "checked_in"
    /\ booking.pay \in {"unpaid", "expired"}
    /\ booking.override # "none" => AllFinal

VerifyStands(o) ==
    /\ o.slot \in PaymentsIn(Open)
    /\ booking.override = "none" /\ booking.pay \in {"unpaid", "pay_at_property"}

ActStands(o) ==
    (booking.override = "none" /\ res[o.line] \in Movable(o.action)) \/ Expired

HookStands(o) ==
    /\ booking.pay = o.pay \/ (Expired /\ o.pay \in {"unpaid", "expired"})
    /\ o.last /\ o.action # "check_out" =>
         booking.override = "none" /\ \A l \in Lines \ {o.line} : res[l] \in Final
    /\ \/ o.last \/ booking.override # "none"
       \/ \E l \in Lines \ {o.line} : res[l] \in Alive

ReadStands(o) ==
    /\ o.op = "cancel" => CancelStands(o)
    /\ o.op = "pay"    => PayStands
    /\ o.op = "proof"  => PaymentsIn(Open) \subseteq {o.slot}
    /\ o.op = "verify" => VerifyStands(o)
    /\ o.op = "reject" => o.slot \in PaymentsIn(Open) /\ booking.pay = o.pay
    /\ o.op \in {"act", "hook"} => ActStands(o)
    /\ o.op = "hook"   => HookStands(o)

RowsAgree == OneOpen /\ Accounts /\ ClosedIsOver /\ Synced

InTurnInv == TypeOK /\ RowsAgree /\ \A q \in Requests : ReadStands(ops[q])

(* The request at work in this step, alone.                                 *)
Alone(q) == \A o \in Requests \ {q} : ops[o] = Idle /\ ops'[o] = ops[o]

(* The last step of a request, and a step of one that stays idle.           *)
LEMMA EndsStep ==
    ASSUME TypeOK', NEW q \in Requests, Alone(q), ops'[q] = Idle, RowsAgree'
    PROVE  InTurnInv'
<1>1. \A o \in Requests : ops'[o].op = "idle"
  BY DEF Alone
<1> QED
  BY <1>1 DEF InTurnInv, ReadStands

(* A read step: it changes no row but the order of the payments.            *)
LEMMA BeginsStep ==
    ASSUME InTurnInv, TypeOK', NEW q \in Requests, Alone(q),
           UNCHANGED <<booking, res, payments, received>>, ReadStands(ops[q])'
    PROVE  InTurnInv'
<1>1. RowsAgree'
  BY DEF InTurnInv, RowsAgree, OneOpen, Accounts, ClosedIsOver, Synced, AllFinal,
         Expired, PaymentsIn
<1>2. \A o \in Requests \ {q} : ops'[o].op = "idle"
  BY DEF Alone
<1>3. \A o \in Requests \ {q} : ReadStands(ops[o])'
  BY <1>2 DEF ReadStands
<1> QED
  BY <1>1, <1>3 DEF InTurnInv

(* A step that leaves the booking, the stays and the open payments alone.   *)
LEMMA NothingRead ==
    ASSUME InTurnInv, TypeOK', UNCHANGED <<ops, booking, res, received>>,
           PaymentsIn(Open)' = PaymentsIn(Open)
    PROVE  InTurnInv'
<1>1. RowsAgree'
  BY DEF InTurnInv, RowsAgree, OneOpen, Accounts, ClosedIsOver, Synced, AllFinal, Expired
<1>2. ASSUME NEW q \in Requests PROVE ReadStands(ops[q])'
  <2>1. ReadStands(ops[q])
    BY DEF InTurnInv
  <2> QED
    BY <2>1 DEF ReadStands, CancelStands, PayStands, VerifyStands, ActStands, HookStands,
           AllFinal, Expired
<1> QED
  BY <1>1, <1>2 DEF InTurnInv

LEMMA InitInTurn == Init => InTurnInv
<1> SUFFICES ASSUME Init PROVE InTurnInv
  OBVIOUS
<1> PICK method \in Methods : CreateBooking(method)
  BY DEF Init
<1>1. TypeOK
  BY InitType
<1>2. \A q \in Requests : ops[q].op = "idle"
  BY DEF Init
<1>3. OneOpen
  BY DEF OneOpen, PaymentsIn, Open, CreateBooking, Payment, NoPayment
<1>4. Accounts /\ ClosedIsOver /\ Synced
  BY DEF Init, CreateBooking, Accounts, Queued, ClosedIsOver, Synced
<1> QED
  BY <1>1, <1>2, <1>3, <1>4 DEF InTurnInv, RowsAgree, ReadStands

(* The sweep: it waits for Finance and for Front Office, and what the other *)
(* requests have read is that of a booking it may expire.                   *)
LEMMA SweepInTurn ==
    ASSUME InTurnInv, TypeOK', SweepExpire
    PROVE  InTurnInv'
<1>t. TypeOK /\ RowsAgree /\ ops' = ops /\ received' = received
  BY DEF InTurnInv, SweepExpire
<1>1. CASE ~StillUnpaid
  BY <1>1, NothingRead DEF SweepExpire, PaymentsIn
<1>2. CASE StillUnpaid
  <2>1. /\ booking.pay = "unpaid" /\ booking.override = "none"
        /\ booking'.pay = "expired" /\ booking'.override = "expired"
    BY <1>t, <1>2 DEF StillUnpaid, SweepExpire, ExpireRows, TypeOK
  <2>2. \A l \in Lines : res'[l] = IF res[l] \in {"new", "confirmed"} THEN "cancelled" ELSE res[l]
    BY <1>2 DEF SweepExpire, ExpireRows, SetLines, Held, LinesIn
  <2>3. PaymentsIn(Open)' = {}
    BY <1>t, <1>2 DEF SweepExpire, SetPayments, PaymentsIn, Open, TypeOK
  <2>4. Expired'
    BY <2>1 DEF Expired
  <2>5. RowsAgree'
    <3>1. received = {}
      BY <1>t, <2>1 DEF RowsAgree, Accounts
    <3> QED
      BY <1>t, <2>1, <2>3, <2>4, <3>1 DEF RowsAgree, OneOpen, Accounts, ClosedIsOver, Synced, Queued
  <2>6. ASSUME NEW q \in Requests PROVE ReadStands(ops[q])'
    <3> PICK o : o = ops[q]
      OBVIOUS
    <3>1. o = ops[q] /\ o = ops'[q] /\ q # Worker /\ q \in Requests \ {Worker}
      BY <1>t, ConstantsAssumption
    <3>2. ReadStands(o) /\ o \in Operation
      BY <1>t, <3>1 DEF InTurnInv, TypeOK
    <3>3. o.op \in {"verify", "reject"} => o.slot \notin PaymentsIn(Open)
      BY <1>2, <3>1 DEF SweepExpire, PaymentsFree, PaymentLocked
    <3>4. o.op = "hook" => o.line \notin Held
      BY <1>2, <3>1 DEF SweepExpire, ExpireRows, LinesFree, LineLocked
    <3>5. o.op = "cancel" => CancelStands(o)'
      BY <2>2, <2>4, <3>2 DEF ReadStands, CancelStands
    <3>6. o.op = "pay" => PayStands'
      <4>1. o.op = "pay" => \A l \in Lines : res[l] # "checked_in"
        BY <3>2 DEF ReadStands, PayStands
      <4>2. o.op = "pay" => \A l \in Lines : res'[l] # "checked_in" /\ res'[l] \in Final
        BY <1>t, <2>2, <4>1 DEF TypeOK, ReservationStatus, Final
      <4> QED BY <2>1, <4>2 DEF PayStands, AllFinal
    <3>7. o.op # "verify" /\ o.op # "reject"
      BY <3>2, <3>3 DEF ReadStands, VerifyStands
    <3>8. o.op \in {"act", "hook"} => ActStands(o)'
      BY <2>4 DEF ActStands
    <3>9. o.op = "hook" => HookStands(o)'
      <4> SUFFICES ASSUME o.op = "hook" PROVE HookStands(o)'
        OBVIOUS
      <4>1. HookStands(o) /\ ActStands(o) /\ o.line \in Lines
        BY <3>2, OperationFields DEF ReadStands
      <4>2. res[o.line] \in Movable(o.action)
        BY <2>1, <4>1 DEF ActStands, Expired
      <4>3. o.action = "check_out"
        BY <3>4, <4>1, <4>2 DEF Movable, Held, LinesIn
      <4>4. o.pay = "unpaid"
        BY <2>1, <4>1 DEF HookStands, Expired
      <4> QED BY <2>1, <2>4, <4>3, <4>4 DEF HookStands
    <3>10. ReadStands(o)'
      BY <2>3, <3>5, <3>6, <3>7, <3>8, <3>9 DEF ReadStands
    <3> QED BY <3>1, <3>10
  <2> QED
    BY <2>5, <2>6 DEF InTurnInv
<1> QED
  BY <1>1, <1>2

(* The customer's requests.                                                 *)
LEMMA CustomerInTurn ==
    ASSUME InTurnInv, TypeOK', NEW q \in Requests, Alone(q),
           \/ CancelRead(q) \/ CancelCommit(q)
           \/ \E method \in Methods : PayRead(q, method)
           \/ PayCommit(q) \/ PayRefused(q) \/ Abort(q)
           \/ \E p \in Slots : ProofPresign(q, p) \/ ProofRead(q, p)
           \/ ProofCommit(q)
    PROVE  InTurnInv'
<1>t. TypeOK /\ RowsAgree /\ ReadStands(ops[q]) /\ ops[q] \in Operation
  BY DEF InTurnInv, TypeOK
<1>a. OneOpen /\ Accounts /\ ClosedIsOver /\ Synced
  BY <1>t DEF RowsAgree
<1>f. Finish(q) => ops'[q] = Idle
  BY <1>t DEF Finish, TypeOK
<1>s. ASSUME NEW operation, Start(q, operation) PROVE ops'[q] = operation
  BY <1>t, <1>s DEF Start, TypeOK
<1>n. ASSUME Finish(q), UNCHANGED <<booking, res, payments, received>> PROVE InTurnInv'
  <2>1. RowsAgree'
    BY <1>n, <1>a DEF RowsAgree, OneOpen, Accounts, ClosedIsOver, Synced, AllFinal,
           Expired, PaymentsIn
  <2> QED BY <1>f, <1>n, <2>1, EndsStep
<1>1. CASE CancelRead(q)
  <2>1. Status \in {"UNPAID", "PAID"}
    BY <1>1 DEF CancelRead
  <2>2. booking.override = "none" /\ booking.pay # "expired"
    BY <1>t, <2>1 DEF Status, TypeOK
  <2>3. \A l \in Lines : res[l] # "checked_in"
    BY <2>1 DEF Status
  <2>4. booking.pay \in {"unpaid", "pay_at_property", "paid"}
    BY <1>t, <1>a, <2>2 DEF Accounts, Queued, TypeOK, BookingPayment
  <2>5. /\ ops'[q] = [op |-> "cancel", pay |-> booking.pay]
        /\ UNCHANGED <<booking, res, payments, received>>
    BY <1>1, <1>s DEF CancelRead
  <2>6. ReadStands(ops[q])'
    BY <2>2, <2>3, <2>4, <2>5 DEF ReadStands, CancelStands
  <2> QED BY <2>5, <2>6, BeginsStep
<1>2. CASE CancelCommit(q)
  <2>1. CancelStands(ops[q]) /\ ops'[q] = Idle
    BY <1>2, <1>t, <1>f DEF CancelCommit, ReadStands
  <2>2. \A l \in Lines : res'[l] \in Final
    BY <1>2, <1>t, <2>1
       DEF CancelCommit, CancelStands, SetLines, Held, LinesIn, TypeOK, ReservationStatus, Final
  <2>3. /\ booking'.override = "cancelled" /\ received' = received
        /\ booking'.pay = PayAfterCancel(ops[q].pay)
    BY <1>2 DEF CancelCommit, CancelRows
  <2>4. PaymentsIn(Open)' = {}
    BY <1>2, <1>t DEF CancelCommit, CancelRows, SetPayments, PaymentsIn, Open, TypeOK
  <2>5. ops[q].pay # "paid" => received = {}
    BY <1>a, <2>1 DEF CancelStands, Accounts, Expired
  <2>6. Accounts'
    BY <1>a, <2>1, <2>3, <2>5 DEF Accounts, CancelStands, PayAfterCancel, Queued
  <2>7. OneOpen' /\ ClosedIsOver' /\ Synced'
    BY <2>2, <2>3, <2>4 DEF OneOpen, ClosedIsOver, Synced, AllFinal
  <2> QED BY <2>1, <2>6, <2>7, EndsStep DEF RowsAgree
<1>3. ASSUME NEW method \in Methods, PayRead(q, method) PROVE InTurnInv'
  <2>1. Status = "UNPAID"
    BY <1>3 DEF PayRead
  <2>2. booking.pay = "unpaid" /\ booking.override = "none"
    BY <1>t, <2>1 DEF Status, TypeOK
  <2>3. \A l \in Lines : res[l] # "checked_in"
    BY <2>1 DEF Status
  <2>4. ops'[q].op = "pay" /\ UNCHANGED <<booking, res, payments, received>>
    BY <1>3, <1>s DEF PayRead
  <2>5. ReadStands(ops[q])'
    BY <2>2, <2>3, <2>4 DEF ReadStands, PayStands
  <2> QED BY <2>4, <2>5, BeginsStep
<1>4. CASE PayCommit(q)
  <2>1. PayStands /\ ops'[q] = Idle /\ ops[q].slot \in Slots
    BY <1>4, <1>t, <1>f, OperationFields DEF PayCommit, ReadStands
  <2>2. PaymentsIn(Open)' \subseteq {ops[q].slot}
    BY <1>4, <1>t DEF PayCommit, Replaced, SetPayments, PaymentsIn, Open, TypeOK
  <2>3. OneOpen' /\ received' = received /\ received = {}
    BY <1>4, <1>a, <2>1, <2>2 DEF OneOpen, PayCommit, PayStands, Accounts
  <2>4. CASE ops[q].method = "cash_on_site"
    <3>1. booking'.pay = "pay_at_property" /\ booking'.override = booking.override
      BY <1>4, <1>t, <2>4, ZenonT(30) DEF PayCommit, PaymentSettled, TypeOK
    <3>2. \A l \in Lines : res'[l] = IF res[l] = "new" THEN "confirmed" ELSE res[l]
      BY <1>4, <2>4 DEF PayCommit, SetLines, LinesIn
    <3>3. Accounts'
      BY <2>3, <3>1 DEF Accounts, Queued
    <3>4. ClosedIsOver'
      BY <2>1, <3>1, <3>2 DEF PayStands, ClosedIsOver, AllFinal, Final
    <3>5. Synced'
      <4>1. (\A l \in Lines : res'[l] = "cancelled") => \A l \in Lines : res[l] = "cancelled"
        BY <3>2
      <4> QED BY <1>a, <3>1, <4>1 DEF Synced
    <3> QED BY <2>1, <2>3, <3>3, <3>4, <3>5, EndsStep DEF RowsAgree
  <2>5. CASE ops[q].method # "cash_on_site"
    <3>1. UNCHANGED <<booking, res>>
      BY <1>4, <2>5 DEF PayCommit
    <3>2. Accounts' /\ ClosedIsOver' /\ Synced'
      BY <1>a, <2>3, <3>1 DEF Accounts, ClosedIsOver, Synced, AllFinal, Expired
    <3> QED BY <2>1, <2>3, <3>2, EndsStep DEF RowsAgree
  <2> QED BY <2>4, <2>5
<1>5. CASE PayRefused(q) \/ Abort(q)
  BY <1>5, <1>n DEF PayRefused, Abort
<1>6. ASSUME NEW p \in Slots, ProofPresign(q, p) PROVE InTurnInv'
  <2>1. PaymentsIn(Open)' = PaymentsIn(Open)
    BY <1>6, <1>t DEF ProofPresign, PaymentsIn, TypeOK
  <2> QED BY <1>6, <2>1, NothingRead DEF ProofPresign
<1>7. ASSUME NEW p \in Slots, ProofRead(q, p) PROVE InTurnInv'
  <2>1. PaymentsIn(Open) \subseteq {p}
    BY <1>7, <1>a DEF ProofRead, LatestOpen, OneOpen
  <2>2. /\ ops'[q] = [op |-> "proof", slot |-> p]
        /\ UNCHANGED <<booking, res, payments, received>>
    BY <1>7, <1>s DEF ProofRead
  <2>3. ReadStands(ops[q])'
    BY <2>1, <2>2 DEF ReadStands, PaymentsIn
  <2> QED BY <2>2, <2>3, BeginsStep
<1>8. CASE ProofCommit(q)
  <2>1. /\ ops'[q] = Idle /\ PaymentsIn(Open) \subseteq {ops[q].slot}
        /\ UNCHANGED <<res, received>>
    BY <1>8, <1>t, <1>f DEF ProofCommit, ReadStands
  <2>2. PaymentsIn(Open)' \subseteq {ops[q].slot}
    BY <1>8, <1>t, <2>1 DEF ProofCommit, PaymentsIn, TypeOK
  <2>3. booking'.pay = booking.pay /\ booking'.override = booking.override
    BY <1>8, <1>t DEF ProofCommit, TypeOK
  <2>4. RowsAgree'
    BY <1>a, <2>1, <2>2, <2>3
       DEF RowsAgree, OneOpen, Accounts, ClosedIsOver, Synced, AllFinal, Expired
  <2> QED BY <2>1, <2>4, EndsStep
<1> QED
  BY <1>1, <1>2, <1>3, <1>4, <1>5, <1>6, <1>7, <1>8

(* Finance at work on a payment.                                            *)
LEMMA FinanceInTurn ==
    ASSUME InTurnInv, TypeOK', NEW q \in Requests, Alone(q),
           \/ \E p \in Slots : VerifyRead(q, p) \/ RejectRead(q, p)
           \/ VerifyCommit(q) \/ RejectCommit(q) \/ RefundDone(q)
    PROVE  InTurnInv'
<1>t. TypeOK /\ RowsAgree /\ ReadStands(ops[q]) /\ ops[q] \in Operation
  BY DEF InTurnInv, TypeOK
<1>a. OneOpen /\ Accounts /\ ClosedIsOver /\ Synced
  BY <1>t DEF RowsAgree
<1>f. Finish(q) => ops'[q] = Idle
  BY <1>t DEF Finish, TypeOK
<1>s. ASSUME NEW operation, Start(q, operation) PROVE ops'[q] = operation
  BY <1>t, <1>s DEF Start, TypeOK
<1>1. ASSUME NEW p \in Slots, VerifyRead(q, p) PROVE InTurnInv'
  <2>1. /\ ops'[q] = [op |-> "verify", slot |-> p] /\ p \in PaymentsIn(Open)
        /\ UNCHANGED <<booking, res, payments, received>>
    BY <1>1, <1>s DEF VerifyRead
  <2>2. booking.override = "none" /\ booking.pay \in {"unpaid", "pay_at_property"}
    BY <1>1, <1>t DEF VerifyRead, Status, TypeOK
  <2>3. ReadStands(ops[q])'
    BY <2>1, <2>2 DEF ReadStands, VerifyStands, PaymentsIn
  <2> QED BY <2>1, <2>3, BeginsStep
<1>2. ASSUME NEW p \in Slots, RejectRead(q, p) PROVE InTurnInv'
  <2>1. /\ ops'[q] = [op |-> "reject", slot |-> p, pay |-> booking.pay]
        /\ p \in PaymentsIn(Open)
        /\ UNCHANGED <<booking, res, payments, received>>
    BY <1>2, <1>s DEF RejectRead
  <2>2. ReadStands(ops[q])'
    BY <2>1 DEF ReadStands, PaymentsIn
  <2> QED BY <2>1, <2>2, BeginsStep
<1>3. CASE VerifyCommit(q)
  <2>1. VerifyStands(ops[q]) /\ ops'[q] = Idle
    BY <1>3, <1>t, <1>f DEF VerifyCommit, ReadStands
  <2>2. received' = {ops[q].slot}
    BY <1>3, <1>a, <2>1 DEF VerifyCommit, VerifyStands, Accounts
  <2>3. booking'.pay = "paid" /\ booking'.override = "none"
    BY <1>3, <1>t, <2>1 DEF VerifyCommit, VerifyStands, PaymentSettled, TypeOK
  <2>4. PaymentsIn(Open)' \subseteq PaymentsIn(Open)
    BY <1>3, <1>t DEF VerifyCommit, SetPayments, PaymentsIn, Open, TypeOK
  <2>5. Synced'
    <3>1. \A l \in Lines : res'[l] = IF res[l] = "new" THEN "confirmed" ELSE res[l]
      BY <1>3 DEF VerifyCommit, SetLines, LinesIn
    <3>2. (\A l \in Lines : res'[l] = "cancelled") => \A l \in Lines : res[l] = "cancelled"
      BY <3>1
    <3> QED BY <1>a, <2>1, <3>2 DEF Synced, VerifyStands
  <2>6. RowsAgree'
    BY <1>a, <2>2, <2>3, <2>4, <2>5 DEF RowsAgree, OneOpen, Accounts, ClosedIsOver, Queued
  <2> QED BY <2>1, <2>6, EndsStep
<1>4. CASE RejectCommit(q)
  <2>1. /\ ops'[q] = Idle /\ received' = received /\ booking.pay = ops[q].pay
        /\ ops[q].slot \in Slots
    BY <1>4, <1>t, <1>f, OperationFields DEF RejectCommit, ReadStands
  <2>2. CASE ops[q].pay = "unpaid"
    <3>1. booking'.pay = "expired" /\ booking'.override = "expired"
      BY <1>4, <1>t, <2>2 DEF RejectCommit, ExpireRows, TypeOK
    <3>p. payments' = [SetPayments(PaymentsIn(Open), "expired")
                          EXCEPT ![ops[q].slot].status = "failed"]
      BY <1>4, <2>2 DEF RejectCommit
    <3>r. /\ SetPayments(PaymentsIn(Open), "expired") \in [Slots -> PaymentRow]
          /\ \A p \in Slots : SetPayments(PaymentsIn(Open), "expired")[p].status \notin Open
      <4>1. SetPayments(PaymentsIn(Open), "expired") \in [Slots -> PaymentRow]
        BY <1>t, SetPaymentsType DEF TypeOK, PaymentRow, PaymentStatus
      <4> QED BY <1>t, <4>1 DEF SetPayments, PaymentsIn, Open, TypeOK
    <3>s. \A p \in Slots : payments'[p].status \notin Open
      <4> DEFINE swept == SetPayments(PaymentsIn(Open), "expired")
      <4> HIDE DEF swept
      <4>1. \A p \in Slots : payments'[p].status \in {swept[p].status, "failed"}
        BY <3>p, <3>r, <2>1 DEF swept, PaymentRow
      <4> QED BY <3>r, <4>1 DEF swept, Open
    <3>2. PaymentsIn(Open)' = {}
      BY <3>s DEF PaymentsIn
    <3>3. RowsAgree'
      BY <1>a, <2>1, <2>2, <3>1, <3>2
         DEF RowsAgree, OneOpen, Accounts, ClosedIsOver, Synced, Expired, Queued
    <3> QED BY <2>1, <3>3, EndsStep
  <2>3. CASE ops[q].pay # "unpaid"
    <3>1. UNCHANGED <<res, booking>>
      BY <1>4, <2>3 DEF RejectCommit
    <3>2. PaymentsIn(Open)' \subseteq PaymentsIn(Open)
      BY <1>4, <1>t, <2>3 DEF RejectCommit, SetPayments, PaymentsIn, Open, TypeOK
    <3>3. RowsAgree'
      BY <1>a, <2>1, <3>1, <3>2
         DEF RowsAgree, OneOpen, Accounts, ClosedIsOver, Synced, AllFinal, Expired
    <3> QED BY <2>1, <3>3, EndsStep
  <2> QED BY <2>2, <2>3
<1>5. CASE RefundDone(q)
  <2>1. /\ ops'[q] = Idle /\ UNCHANGED <<res, payments, received>>
        /\ booking.pay = "refund_pending"
    BY <1>5 DEF RefundDone
  <2>2. booking'.pay = "refunded" /\ booking'.override = booking.override
    BY <1>5, <1>t DEF RefundDone, TypeOK
  <2>3. RowsAgree'
    BY <1>a, <2>1, <2>2
       DEF RowsAgree, OneOpen, Accounts, ClosedIsOver, Synced, AllFinal, Expired, Queued, PaymentsIn
  <2> QED BY <2>1, <2>3, EndsStep
<1> QED
  BY <1>1, <1>2, <1>3, <1>4, <1>5

(* A Front Office action that was allowed may still be taken, or the        *)
(* booking has expired; the hook reads what the rows say.                   *)
LEMMA HookTrue ==
    ASSUME TypeOK, RowsAgree, NEW l \in Lines, NEW action \in DeskActions,
           ActStands([line |-> l, action |-> action])
    PROVE  ReadStands(Hook(l, action))
<1> DEFINE h == Hook(l, action)
<1>1. /\ h.op = "hook" /\ h.line = l /\ h.action = action /\ h.pay = booking.pay
      /\ h.last = (/\ booking.override = "none"
                   /\ LinesIn({"new", "confirmed", "checked_in"}) \subseteq {l})
  BY DEF Hook
<1> HIDE DEF h
<1>2. h.last <=> booking.override = "none" /\ \A k \in Lines \ {l} : res[k] \notin Alive
  BY <1>1 DEF LinesIn, Alive
<1>3. ActStands(h)
  BY <1>1 DEF ActStands
<1>4. HookStands(h)
  BY <1>1, <1>2 DEF HookStands, TypeOK, ReservationStatus, Alive, Final
<1> QED
  BY <1>1, <1>3, <1>4 DEF h, ReadStands

(* The Front Office.                                                        *)
LEMMA DeskInTurn ==
    ASSUME InTurnInv, TypeOK', NEW q \in Requests, Alone(q),
           \/ \E l \in Lines, action \in DeskActions :
                 ActRead(q, l, action) \/ UnitActUpdate(q, l, action)
           \/ ActUpdate(q)
           \/ DeskConfirm(q) \/ DeskCheckOut(q) \/ DeskCancel(q) \/ DeskOther(q)
    PROVE  InTurnInv'
<1>t. TypeOK /\ RowsAgree /\ ReadStands(ops[q]) /\ ops[q] \in Operation
  BY DEF InTurnInv, TypeOK
<1>a. OneOpen /\ Accounts /\ ClosedIsOver /\ Synced
  BY <1>t DEF RowsAgree
<1>s. ASSUME NEW operation, Start(q, operation) PROVE ops'[q] = operation
  BY <1>t, <1>s DEF Start, TypeOK
<1>m. ASSUME NEW l \in Lines, NEW action, res[l] \in Movable(action)
      PROVE  ActStands([line |-> l, action |-> action])
  BY <1>t, <1>a, <1>m DEF ActStands, ClosedIsOver, AllFinal, Movable, Final, TypeOK
<1>h. ASSUME NEW l \in Lines, NEW action \in DeskActions,
             ActStands([line |-> l, action |-> action]),
             ops'[q] = Hook(l, action), UNCHANGED <<booking, res, payments, received>>
      PROVE  InTurnInv'
  <2>1. ReadStands(Hook(l, action))
    BY <1>t, <1>h, HookTrue
  <2> PICK h : h = Hook(l, action)
    OBVIOUS
  <2>2. ReadStands(h)'
    BY <1>h, <2>1
       DEF ReadStands, CancelStands, PayStands, VerifyStands, ActStands, HookStands,
           AllFinal, Expired, PaymentsIn
  <2>3. ReadStands(ops[q])'
    BY <1>h, <2>2
  <2> QED BY <1>h, <2>3, BeginsStep
<1>1. ASSUME NEW l \in Lines, NEW action \in DeskActions, ActRead(q, l, action)
      PROVE  InTurnInv'
  <2>1. res[l] \in Movable(action)
    BY <1>1 DEF ActRead, HotelAllows, Movable
  <2>2. /\ ops'[q] = [op |-> "act", line |-> l, action |-> action]
        /\ UNCHANGED <<booking, res, payments, received>>
    BY <1>1, <1>s DEF ActRead
  <2>3. ActStands([line |-> l, action |-> action])
    BY <2>1, <1>m
  <2>4. ReadStands(ops[q])'
    BY <2>2, <2>3 DEF ReadStands, ActStands, Expired
  <2> QED BY <2>2, <2>4, BeginsStep
<1>2. ASSUME NEW l \in Lines, NEW action \in DeskActions, UnitActUpdate(q, l, action)
      PROVE  InTurnInv'
  <2>1. res[l] \in Movable(action)
    BY <1>2 DEF UnitActUpdate, UnitAllows, Movable
  <2>2. ops'[q] = Hook(l, action) /\ UNCHANGED <<booking, res, payments, received>>
    BY <1>2, <1>s DEF UnitActUpdate
  <2> QED BY <2>1, <2>2, <1>m, <1>h
<1>3. CASE ActUpdate(q)
  <2>1. /\ ActStands(ops[q]) /\ ops[q].line \in Lines /\ ops[q].action \in DeskActions
    BY <1>3, <1>t, OperationFields DEF ActUpdate, ReadStands
  <2>2. ActStands([line |-> ops[q].line, action |-> ops[q].action])
    BY <2>1 DEF ActStands
  <2> PICK l \in Lines, action \in DeskActions : l = ops[q].line /\ action = ops[q].action
    BY <2>1
  <2>3. ops'[q] = Hook(l, action) /\ UNCHANGED <<booking, res, payments, received>>
    BY <1>3, <1>t DEF ActUpdate, TypeOK
  <2> QED BY <2>2, <2>3, <1>h
<1>d. ASSUME NEW S, DeskCommit(q, S)
      PROVE  /\ ops'[q] = Idle /\ ops[q].line \in Lines /\ ops[q].action \in S
             /\ ActStands(ops[q]) /\ HookStands(ops[q])
             /\ res'[ops[q].line] = Target(ops[q].action)
             /\ \A l \in Lines \ {ops[q].line} : res'[l] = res[l]
  <2>1. ops[q].op = "hook" /\ ops[q].action \in S
    BY <1>d DEF DeskCommit
  <2>2. ops[q].line \in Lines
    BY <2>1, <1>t, OperationFields
  <2>3. ActStands(ops[q]) /\ HookStands(ops[q])
    BY <2>1, <1>t DEF ReadStands
  <2> QED BY <1>d, <1>t, <2>1, <2>2, <2>3 DEF DeskCommit, Finish, TypeOK
<1>o. ActStands(ops[q]) => booking.override = "none" \/ Expired
  BY DEF ActStands
<1>4. CASE DeskConfirm(q)
  <2>1. DeskCommit(q, {"confirm"}) /\ UNCHANGED <<payments, received>>
    BY <1>4 DEF DeskConfirm
  <2>2. /\ booking'.override = booking.override
        /\ \/ booking'.pay = booking.pay
           \/ booking.pay = "unpaid" /\ booking'.pay = "pay_at_property"
    BY <1>4, <1>t DEF DeskConfirm, PaymentSettled, TypeOK
  <2>3. OneOpen' /\ Accounts'
    BY <1>a, <2>1, <2>2 DEF OneOpen, PaymentsIn, Accounts, Queued
  <2>4. ClosedIsOver'
    BY <1>d, <1>o, <2>1, <2>2 DEF ClosedIsOver, Expired
  <2>5. Synced'
    BY <1>d, <2>1 DEF Synced, Target
  <2> QED BY <1>d, <2>1, <2>3, <2>4, <2>5, EndsStep DEF RowsAgree
<1>5. CASE DeskCheckOut(q)
  <2>1. DeskCommit(q, {"check_out"})
    BY <1>5 DEF DeskCheckOut
  <2>2. Synced'
    BY <1>d, <2>1 DEF Synced, Target
  <2>3. CASE ops[q].pay = "pay_at_property"
    <3>1. booking.pay = "pay_at_property" /\ booking.override = "none"
      BY <1>d, <1>o, <2>1, <2>3 DEF HookStands, Expired
    <3>2. booking'.pay = "paid" /\ booking'.override = "none"
      BY <1>5, <1>t, <2>3, <3>1 DEF DeskCheckOut, TypeOK
    <3>3. received' \subseteq PaymentsIn(Open)
      BY <1>5, <1>a, <2>3, <3>1 DEF DeskCheckOut, CashPending, PaymentsIn, Open, Accounts
    <3>4. PaymentsIn(Open)' \subseteq PaymentsIn(Open)
      BY <1>5, <1>t, <2>3 DEF DeskCheckOut, SetPayments, PaymentsIn, Open, TypeOK
    <3>5. RowsAgree'
      BY <1>a, <2>2, <3>2, <3>3, <3>4 DEF RowsAgree, OneOpen, Accounts, ClosedIsOver, Queued
    <3> QED BY <1>d, <2>1, <3>5, EndsStep
  <2>4. CASE ops[q].pay # "pay_at_property"
    <3>1. UNCHANGED <<booking, payments, received>>
      BY <1>5, <2>4 DEF DeskCheckOut
    <3>2. RowsAgree'
      BY <1>a, <1>d, <1>o, <2>1, <2>2, <3>1
         DEF RowsAgree, OneOpen, PaymentsIn, Accounts, ClosedIsOver, Expired
    <3> QED BY <1>d, <2>1, <3>2, EndsStep
  <2> QED BY <2>3, <2>4
<1>6. CASE DeskCancel(q)
  <2>1. DeskCommit(q, {"cancel"}) /\ received' = received
    BY <1>6 DEF DeskCancel
  <2>2. CASE ops[q].last
    <3>1. /\ booking.override = "none" /\ \A l \in Lines \ {ops[q].line} : res[l] \in Final
          /\ booking.pay = ops[q].pay
      BY <1>d, <2>1, <2>2 DEF HookStands, Expired
    <3>2. /\ booking'.override = "cancelled" /\ booking'.pay = PayAfterCancel(booking.pay)
      BY <1>6, <2>2, <3>1 DEF DeskCancel, CancelRows
    <3>3. PaymentsIn(Open)' = {}
      BY <1>6, <1>t, <2>2 DEF DeskCancel, CancelRows, SetPayments, PaymentsIn, Open, TypeOK
    <3>4. Accounts'
      BY <1>a, <2>1, <3>1, <3>2 DEF Accounts, PayAfterCancel, Queued
    <3>5. AllFinal'
      BY <1>d, <2>1, <3>1 DEF AllFinal, Target, Final
    <3>6. OneOpen' /\ ClosedIsOver' /\ Synced'
      BY <3>2, <3>3, <3>5 DEF OneOpen, ClosedIsOver, Synced
    <3> QED BY <1>d, <2>1, <3>4, <3>6, EndsStep DEF RowsAgree
  <2>3. CASE ~ops[q].last
    <3>1. UNCHANGED <<booking, payments>>
      BY <1>6, <2>3 DEF DeskCancel
    <3>2. OneOpen' /\ Accounts' /\ ClosedIsOver'
      BY <1>a, <1>d, <1>o, <2>1, <3>1 DEF OneOpen, PaymentsIn, Accounts, ClosedIsOver, Expired
    <3>3. Synced'
      <4>1. \/ booking.override # "none"
            \/ \E l \in Lines \ {ops[q].line} : res[l] \in Alive
        BY <1>d, <2>1, <2>3 DEF HookStands
      <4>2. ASSUME NEW l \in Lines \ {ops[q].line}, res[l] \in Alive PROVE res'[l] # "cancelled"
        BY <1>d, <2>1, <4>2 DEF Alive
      <4> QED BY <3>1, <4>1, <4>2 DEF Synced
    <3> QED BY <1>d, <2>1, <3>2, <3>3, EndsStep DEF RowsAgree
  <2> QED BY <2>2, <2>3
<1>7. CASE DeskOther(q)
  <2>1. DeskCommit(q, {"check_in", "no_show"}) /\ UNCHANGED <<booking, payments, received>>
    BY <1>7 DEF DeskOther
  <2>2. Synced'
    BY <1>d, <2>1 DEF Synced, Target
  <2>3. RowsAgree'
    BY <1>a, <1>d, <1>o, <2>1, <2>2
       DEF RowsAgree, OneOpen, PaymentsIn, Accounts, ClosedIsOver, Expired
  <2> QED BY <1>d, <2>1, <2>3, EndsStep
<1> QED
  BY <1>1, <1>2, <1>3, <1>4, <1>5, <1>6, <1>7

(* A request that acts in its turn is alone: no step of it touches another. *)
LEMMA AloneInTurn ==
    ASSUME TypeOK, InTurn, NEW q \in Requests, Request(q)
    PROVE  Alone(q)
<1>1. \A o \in Requests \ {q} : ops[o] = Idle
  BY DEF InTurn
<1>2. ops' = ops \/ \E operation : ops' = [ops EXCEPT ![q] = operation]
  BY DEF Request, CancelRead, CancelCommit, PayRead, PayCommit, PayRefused, ProofPresign,
         ProofRead, VerifyRead, RejectRead, ProofCommit, VerifyCommit, RejectCommit,
         RefundDone, ActRead, UnitActUpdate, ActUpdate, DeskConfirm, DeskCheckOut,
         DeskCancel, DeskOther, DeskCommit, Abort, Start, Finish
<1> QED
  BY <1>1, <1>2 DEF Alone, TypeOK

LEMMA StepInTurn == InTurnInv /\ [Next]_vars /\ [InTurn]_vars => InTurnInv'
<1> SUFFICES ASSUME InTurnInv, [Next]_vars, [InTurn]_vars PROVE InTurnInv'
  OBVIOUS
<1>t. TypeOK /\ TypeOK'
  BY TypeStep DEF InTurnInv
<1>1. CASE UNCHANGED vars
  BY <1>1, <1>t, NothingRead DEF vars, PaymentsIn
<1>2. ASSUME InTurn, NEW q \in Requests, Request(q) PROVE InTurnInv'
  <2>1. Alone(q)
    BY <1>2, <1>t, AloneInTurn
  <2> QED BY <1>2, <1>t, <2>1, CustomerInTurn, FinanceInTurn, DeskInTurn DEF Request
<1>3. ASSUME NEW p \in Slots, UploadProof(p) PROVE InTurnInv'
  <2>1. PaymentsIn(Open)' = PaymentsIn(Open)
    BY <1>3, <1>t DEF UploadProof, PaymentsIn, TypeOK
  <2> QED BY <1>3, <1>t, <2>1, NothingRead DEF UploadProof
<1>4. CASE SweepSelect \/ SweepFail \/ Tick
  BY <1>4, <1>t, NothingRead DEF SweepSelect, SweepFail, Tick, PaymentsIn
<1>5. CASE SweepExpire
  BY <1>5, <1>t, SweepInTurn
<1> QED
  BY <1>1, <1>2, <1>3, <1>4, <1>5 DEF Next, vars

THEOREM InTurnInductive == Spec /\ [][InTurn]_vars => []InTurnInv
BY InitInTurn, StepInTurn, PTL DEF Spec

(* When its requests run one after the other, a booking whose money came in *)
(* is paid as long as it stands and has its refund queued once it is closed.*)
THEOREM MoneyIsAccounted == Spec /\ [][InTurn]_vars => []MoneyAccounted
<1>1. InTurnInv => MoneyAccounted
  BY DEF InTurnInv, RowsAgree, Accounts, MoneyAccounted, TypeOK, BookingPayment, Queued
<1> QED
  BY InTurnInductive, <1>1, PTL

(* When its requests run one after the other, one payment of a booking at   *)
(* most is ever marked paid.                                                *)
THEOREM ChargesHappenOnce == Spec /\ [][InTurn]_vars => []ChargedOnce
<1>1. InTurnInv => ChargedOnce
  <2> SUFFICES ASSUME InTurnInv PROVE Cardinality(received) <= 1
    BY DEF ChargedOnce
  <2>1. \A a, b \in received : a = b
    BY DEF InTurnInv, RowsAgree, Accounts
  <2>2. CASE received = {}
    BY <2>2, FS_EmptySet
  <2>3. ASSUME NEW p \in received PROVE Cardinality(received) <= 1
    <3>1. received = {p}
      BY <2>1
    <3>2. Cardinality({p}) = 1
      BY FS_Singleton
    <3> QED BY <3>1, <3>2
  <2> QED BY <2>2, <2>3
<1> QED
  BY InTurnInductive, <1>1, PTL

(* When its requests run one after the other, a booking whose every stay    *)
(* Front Office has cancelled is closed itself.                             *)
THEOREM CancellationsSync == Spec /\ [][InTurn]_vars => []CancelledIsSynced
<1>1. InTurnInv => CancelledIsSynced
  BY DEF InTurnInv, RowsAgree, Synced, CancelledIsSynced, AllLinesIn
<1> QED
  BY InTurnInductive, <1>1, PTL
=============================================================================
