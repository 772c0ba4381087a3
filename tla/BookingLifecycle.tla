-------------------------- MODULE BookingLifecycle --------------------------
(***************************************************************************)
(* One BVRooms booking from its creation to its end: the booking row, the  *)
(* hotel_reservations rows of its lines, its bvrooms_payments rows, the     *)
(* customer's requests, the staff's requests (Finance and Front Office) and *)
(* the worker's sweep (api/internal/bvrooms, and hotel.Act for hotel        *)
(* lines).                                                                  *)
(*                                                                          *)
(* Every handler is one PostgreSQL transaction at READ COMMITTED            *)
(* (platform/db): what a SELECT without FOR UPDATE returned may be stale    *)
(* when the handler writes.  A handler is therefore a read step, which      *)
(* keeps in ops[q] what the handler uses later, and a write step, which     *)
(* re-evaluates the WHERE clauses of its UPDATEs on the committed rows.  A  *)
(* row the handler holds (FOR UPDATE, or updated before a later read) is    *)
(* locked: a write of another handler that would touch it waits.            *)
(***************************************************************************)
EXTENDS Integers, FiniteSets

CONSTANTS
    Lines,            \* the lines of the booking, one reservation row each
    UnitLines,        \* those that are apartment units (the rest: hotel rooms)
    Requests,         \* the HTTP requests that may be in flight together
    MaxPayments,      \* bound: payments the customer may create
    MaxNow,           \* bound: the clock stops here
    PaymentWindow,    \* payment_window_hours of the listing
    ProofExtension,   \* the 24 hours ProofConfirm grants
    ArrivalDay,       \* first moment of the check-in date
    ArrivalTime,      \* check-in hour of that date
    DayAfter          \* first moment of the following date

Worker == "worker"     \* the sweep; it is not a request

ASSUME ConstantsAssumption ==
    /\ Worker \notin Requests
    /\ UnitLines \subseteq Lines
    /\ MaxPayments \in Nat \ {0}
    /\ {MaxNow, PaymentWindow, ProofExtension} \subseteq Nat
    /\ {ArrivalDay, ArrivalTime, DayAfter} \subseteq Nat
    /\ ArrivalDay <= ArrivalTime /\ ArrivalTime < DayAfter

VARIABLES
    now,        \* the clock
    booking,    \* the row of bvrooms_bookings
    res,        \* res[l]: status of the reservation of line l
    payments,   \* the rows of bvrooms_payments, in the order of created_at
    requested,  \* how many payment rows have been given a created_at
    ops,        \* ops[q]: the handler request q is in, with its snapshot
    due,        \* the sweep has selected the booking and not yet handled it
    received    \* history: the payments that were ever marked paid

vars == <<now, booking, res, payments, requested, ops, due, received>>

-----------------------------------------------------------------------------
(* Values of the columns.  NULL deadlines are -1, so that GREATEST, which  *)
(* ignores NULL, is the maximum.                                            *)

NoDeadline == -1

ReservationStatus ==
    {"new", "confirmed", "checked_in", "checked_out", "cancelled", "no_show"}

BookingPayment == {"unpaid", "pay_at_property", "paid", "expired",
                   "refund_pending", "refunded"}

PaymentStatus ==
    {"none", "pending", "proof_submitted", "paid", "expired", "failed", "cancelled"}

Open == {"pending", "proof_submitted"}

Methods == {"transfer", "cash_on_site"}

Slots == 1 .. MaxPayments

Payment(method, status) ==
    [status |-> status, method |-> method, proof |-> "none"]

NoPayment == Payment("transfer", "none")

DeskActions == {"confirm", "check_in", "check_out", "cancel", "no_show"}

(* What a request may be doing.  "act" is hotel.Act after its unlocked      *)
(* read; "hook" is a Front Office transaction that has updated reservation  *)
(* line and, in onReservationTransition, read the booking.                  *)
Idle == [op |-> "idle"]

Operation ==
    {Idle}
    \cup [op : {"cancel"}, pay : BookingPayment]
    \cup [op : {"pay"}, method : Methods, slot : Slots]
    \cup [op : {"proof"}, slot : Slots]
    \cup [op : {"verify"}, slot : Slots]
    \cup [op : {"reject"}, slot : Slots, pay : BookingPayment]
    \cup [op : {"act"}, line : Lines, action : DeskActions]
    \cup [op : {"hook"}, line : Lines, action : DeskActions,
          pay : BookingPayment, last : BOOLEAN]

-----------------------------------------------------------------------------
(* Derived status (deriveStatus): the first rule that applies.              *)

DeadlinePassed == booking.deadline # NoDeadline /\ now > booking.deadline

AllLinesIn(S) == Lines # {} /\ \A l \in Lines : res[l] \in S

Status ==
    IF booking.pay = "expired" \/ booking.override = "expired" THEN "EXPIRED"
    ELSE IF booking.override = "cancelled" \/ AllLinesIn({"cancelled", "no_show"})
         THEN "CANCELLED"
    ELSE IF \E l \in Lines : res[l] = "checked_in" THEN "CHECK IN"
    ELSE IF AllLinesIn({"checked_out", "cancelled", "no_show"}) THEN "CHECK OUT"
    ELSE IF booking.pay # "unpaid" THEN "PAID"
    ELSE IF DeadlinePassed THEN "EXPIRED" ELSE "UNPAID"

-----------------------------------------------------------------------------
(* Row sets the UPDATEs select, and the locks that make them wait.          *)

LinesIn(S)    == {l \in Lines : res[l] \in S}
PaymentsIn(S) == {p \in Slots : payments[p].status \in S}

(* Mutant of LineLocked: unitReservationActTx reads without FOR UPDATE.     *)
LineNeverLocked(l, q) == FALSE

LineLocked(l, q) ==
    \E o \in Requests \ {q} : ops[o].op = "hook" /\ ops[o].line = l

PaymentLocked(p, q) ==
    \E o \in Requests \ {q} : ops[o].op \in {"verify", "reject"} /\ ops[o].slot = p

LinesFree(S, q)    == \A l \in S : ~LineLocked(l, q)
PaymentsFree(S, q) == \A p \in S : ~PaymentLocked(p, q)

SetLines(S, status) == [l \in Lines |-> IF l \in S THEN status ELSE res[l]]

SetPayments(S, status) ==
    [p \in Slots |-> IF p \in S THEN [payments[p] EXCEPT !.status = status]
                                ELSE payments[p]]

(* payment_status = pay, payment_deadline_at = NULL.                        *)
PaymentSettled(pay) == [booking EXCEPT !.pay = pay, !.deadline = NoDeadline]

(* The manual payment ProofPresign and ProofConfirm pick: the open one with *)
(* the latest created_at.                                                   *)
LatestOpen(p) == /\ p \in PaymentsIn(Open)
                 /\ \A o \in PaymentsIn(Open) : o <= p

Start(q, operation) == ops[q] = Idle /\ ops' = [ops EXCEPT ![q] = operation]
Finish(q) == ops' = [ops EXCEPT ![q] = Idle]

-----------------------------------------------------------------------------
(* CreateBooking: the booking, its reservations and, when it is to be paid  *)
(* at the property, its cash payment are inserted in one transaction.       *)

CreateBooking(method) ==
    /\ booking = [pay      |-> IF method = "cash_on_site" THEN "pay_at_property"
                                                          ELSE "unpaid",
                  deadline |-> IF method = "cash_on_site" THEN NoDeadline
                                                          ELSE now + PaymentWindow,
                  override |-> "none"]
    /\ res = [l \in Lines |-> IF method = "cash_on_site" THEN "confirmed" ELSE "new"]
    /\ payments = [p \in Slots |-> IF method = "cash_on_site" /\ p = 1
                                   THEN Payment(method, "pending") ELSE NoPayment]
    /\ requested = IF method = "cash_on_site" THEN 1 ELSE 0

Init ==
    /\ now = 0
    /\ \E method \in Methods : CreateBooking(method)
    /\ ops = [q \in Requests |-> Idle]
    /\ due = FALSE
    /\ received = {}

-----------------------------------------------------------------------------
(* CancelBooking.  cancelBookingTx computes the new payment status from the *)
(* booking that was read before the transaction wrote anything.             *)

(* Mutants of Held: the UPDATE forgets confirmed, or takes checked_in too.  *)
HeldNewOnly == LinesIn({"new"})
HeldAndInHouse == LinesIn({"new", "confirmed", "checked_in"})

Held == LinesIn({"new", "confirmed"})

(* Mutants of PayAfterCancel: the refund is forgotten, or queued for a      *)
(* booking that was to be paid at the property.                             *)
PayAfterCancelNoRefund(pay) == IF pay = "pay_at_property" THEN "unpaid" ELSE pay
PayAfterCancelRefundAll(pay) ==
    IF pay \in {"paid", "pay_at_property"} THEN "refund_pending" ELSE pay

PayAfterCancel(pay) == CASE pay = "paid"            -> "refund_pending"
                         [] pay = "pay_at_property" -> "unpaid"
                         [] OTHER                   -> pay

CancelRows(pay) ==
    /\ booking' = [pay |-> PayAfterCancel(pay), deadline |-> NoDeadline,
                   override |-> "cancelled"]
    /\ payments' = SetPayments(PaymentsIn(Open), "cancelled")

CancelRead(q) ==
    /\ Status \in {"UNPAID", "PAID"}
    /\ now < ArrivalTime
    /\ Start(q, [op |-> "cancel", pay |-> booking.pay])
    /\ UNCHANGED <<now, booking, res, payments, requested, due, received>>

CancelCommit(q) ==
    /\ ops[q].op = "cancel"
    /\ LinesFree(Held, q) /\ PaymentsFree(PaymentsIn(Open), q)
    /\ res' = SetLines(Held, "cancelled")
    /\ CancelRows(ops[q].pay)
    /\ Finish(q)
    /\ UNCHANGED <<now, requested, due, received>>

-----------------------------------------------------------------------------
(* CreatePayment: choose or change the method.  The row's created_at is the *)
(* start of the transaction, so its place in the order is taken at the read.*)

(* Mutant of PayRead: a booking that is paid, or will be at the property,   *)
(* may change its method too.                                               *)
PayReadWhenPaid(q, method) ==
    /\ Status \in {"UNPAID", "PAID"}
    /\ requested < MaxPayments
    /\ Start(q, [op |-> "pay", method |-> method, slot |-> requested + 1])
    /\ requested' = requested + 1
    /\ UNCHANGED <<now, booking, res, payments, due, received>>

PayRead(q, method) ==
    /\ Status = "UNPAID"
    /\ requested < MaxPayments
    /\ Start(q, [op |-> "pay", method |-> method, slot |-> requested + 1])
    /\ requested' = requested + 1
    /\ UNCHANGED <<now, booking, res, payments, due, received>>

Replaced == PaymentsIn({"pending"})

PayCommit(q) ==
    /\ ops[q].op = "pay"
    /\ PaymentsFree(Replaced, q)
    /\ PaymentsIn({"proof_submitted"}) = {}
    /\ payments' = [SetPayments(Replaced, "cancelled")
                      EXCEPT ![ops[q].slot] = Payment(ops[q].method, "pending")]
    /\ IF ops[q].method = "cash_on_site"
       THEN /\ LinesFree(LinesIn({"new"}), q)
            /\ res' = SetLines(LinesIn({"new"}), "confirmed")
            /\ booking' = PaymentSettled("pay_at_property")
       ELSE UNCHANGED <<res, booking>>
    /\ Finish(q)
    /\ UNCHANGED <<now, requested, due, received>>

(* PROOF_PENDING: the error rolls the transaction back.                     *)
PayRefused(q) ==
    /\ ops[q].op = "pay"
    /\ PaymentsIn({"proof_submitted"}) # {}
    /\ Finish(q)
    /\ UNCHANGED <<now, booking, res, payments, requested, due, received>>

-----------------------------------------------------------------------------
(* Transfer proof: ProofPresign names the object the customer will upload,  *)
(* the upload goes to the object storage, ProofConfirm declares it.         *)

ProofPresign(q, p) ==
    /\ ops[q] = Idle
    /\ LatestOpen(p) /\ payments[p].method # "cash_on_site"
    /\ PaymentsFree({p}, q)
    /\ payments' = [payments EXCEPT ![p].proof = "presigned"]
    /\ UNCHANGED <<now, booking, res, requested, ops, due, received>>

UploadProof(p) ==
    /\ payments[p].proof = "presigned"
    /\ payments' = [payments EXCEPT ![p].proof = "uploaded"]
    /\ UNCHANGED <<now, booking, res, requested, ops, due, received>>

ProofRead(q, p) ==
    /\ LatestOpen(p) /\ payments[p].proof = "uploaded"
    /\ Start(q, [op |-> "proof", slot |-> p])
    /\ UNCHANGED <<now, booking, res, payments, requested, due, received>>

Greatest(a, b) == IF a >= b THEN a ELSE b

ProofCommit(q) ==
    /\ ops[q].op = "proof"
    /\ PaymentsFree({ops[q].slot}, q)
    /\ payments' = [payments EXCEPT ![ops[q].slot].status = "proof_submitted"]
    /\ booking' = IF booking.pay = "unpaid"
                  THEN [booking EXCEPT !.deadline = Greatest(@, now + ProofExtension)]
                  ELSE booking
    /\ Finish(q)
    /\ UNCHANGED <<now, res, requested, due, received>>

-----------------------------------------------------------------------------
(* Finance.  VerifyPayment and RejectPayment lock the payment row for the   *)
(* whole transaction; the booking they read is not locked.                  *)

VerifyRead(q, p) ==
    /\ p \in PaymentsIn(Open) /\ PaymentsFree({p}, q)
    /\ booking.pay \in {"unpaid", "pay_at_property"}
    /\ Status \notin {"CANCELLED", "EXPIRED"}
    /\ Start(q, [op |-> "verify", slot |-> p])
    /\ UNCHANGED <<now, booking, res, payments, requested, due, received>>

VerifyCommit(q) ==
    /\ ops[q].op = "verify"
    /\ LinesFree(LinesIn({"new"}), q)
    /\ payments' = SetPayments({ops[q].slot}, "paid")
    /\ received' = received \cup {ops[q].slot}
    /\ booking' = PaymentSettled("paid")
    /\ res' = SetLines(LinesIn({"new"}), "confirmed")
    /\ Finish(q)
    /\ UNCHANGED <<now, requested, due>>

RejectRead(q, p) ==
    /\ p \in PaymentsIn(Open) /\ PaymentsFree({p}, q)
    /\ Start(q, [op |-> "reject", slot |-> p, pay |-> booking.pay])
    /\ UNCHANGED <<now, booking, res, payments, requested, due, received>>

(* expireBookingTx: UNPAID to EXPIRED.                                      *)
ExpireRows(q) ==
    /\ LinesFree(Held, q)
    /\ res' = SetLines(Held, "cancelled")
    /\ booking' = [booking EXCEPT !.pay = "expired", !.override = "expired"]

RejectCommit(q) ==
    /\ ops[q].op = "reject"
    /\ IF ops[q].pay = "unpaid"
       THEN /\ ExpireRows(q)
            /\ PaymentsFree(PaymentsIn(Open), q)
            /\ payments' = [SetPayments(PaymentsIn(Open), "expired")
                              EXCEPT ![ops[q].slot].status = "failed"]
       ELSE /\ payments' = SetPayments({ops[q].slot}, "failed")
            /\ UNCHANGED <<res, booking>>
    /\ Finish(q)
    /\ UNCHANGED <<now, requested, due, received>>

(* RefundDone reads the booking FOR UPDATE: one step.                       *)
RefundDone(q) ==
    /\ ops[q] = Idle
    /\ booking.pay = "refund_pending"
    /\ booking' = [booking EXCEPT !.pay = "refunded"]
    /\ UNCHANGED <<now, res, payments, requested, ops, due, received>>

-----------------------------------------------------------------------------
(* Sweep, every minute: one transaction selects the bookings that are due,  *)
(* then each has a transaction of its own.                                  *)

Overdue ==
    /\ booking.pay = "unpaid" /\ booking.override = "none"
    /\ DeadlinePassed
    /\ PaymentsIn({"proof_submitted"}) = {}

SweepSelect ==
    /\ ~due /\ Overdue
    /\ due' = TRUE
    /\ UNCHANGED <<now, booking, res, payments, requested, ops, received>>

(* Mutant of StillUnpaid: the early return is inverted.                     *)
NoLongerUnpaid == booking.pay # "unpaid" \/ booking.override # "none"

(* The row is read FOR UPDATE and only its payment_status and override are  *)
(* looked at again.                                                         *)
StillUnpaid == booking.pay = "unpaid" /\ booking.override = "none"

SweepExpire ==
    /\ due /\ due' = FALSE
    /\ IF StillUnpaid
       THEN /\ ExpireRows(Worker)
            /\ PaymentsFree(PaymentsIn(Open), Worker)
            /\ payments' = SetPayments(PaymentsIn(Open), "expired")
       ELSE UNCHANGED <<booking, res, payments>>
    /\ UNCHANGED <<now, requested, ops, received>>

(* A transaction that fails is logged; the sweep goes on with the next row. *)
SweepFail ==
    /\ due /\ due' = FALSE
    /\ UNCHANGED <<now, booking, res, payments, requested, ops, received>>

-----------------------------------------------------------------------------
(* Front Office.  AdminBookingAction runs one transaction per line: for a   *)
(* hotel line hotel.Act, whose read is unlocked and whose UPDATE has no     *)
(* status condition; for an apartment unitReservationActTx, which reads the *)
(* reservation FOR UPDATE.  Both end in onReservationTransition.            *)

Target(action) == CASE action = "confirm"   -> "confirmed"
                    [] action = "check_in"  -> "checked_in"
                    [] action = "check_out" -> "checked_out"
                    [] action = "cancel"    -> "cancelled"
                    [] OTHER                -> "no_show"

(* AllowedActions of a hotel reservation, on the day that is now.           *)
HotelAllows(status, action) ==
    \/ action = "confirm"   /\ status = "new"
    \/ action = "check_in"  /\ status \in {"new", "confirmed"} /\ now >= ArrivalDay
    \/ action = "cancel"    /\ status \in {"new", "confirmed"}
    \/ action = "no_show"   /\ status \in {"new", "confirmed"} /\ now >= DayAfter
    \/ action = "check_out" /\ status = "checked_in"

(* unitTransitions: the same, on any day.                                   *)
UnitAllows(status, action) ==
    \/ action = "confirm"   /\ status = "new"
    \/ action = "check_out" /\ status = "checked_in"
    \/ action \in {"check_in", "cancel", "no_show"} /\ status \in {"new", "confirmed"}

(* Mutant of Hook: the count does not leave the line itself out.            *)
HookCountsItself(l, action) ==
    [op |-> "hook", line |-> l, action |-> action, pay |-> booking.pay,
     last |-> /\ booking.override = "none"
              /\ LinesIn({"new", "confirmed", "checked_in"}) = {}]

(* The reservation of line l is updated, not committed, and the hook has    *)
(* read the booking and counted the other lines that are still alive.       *)
Hook(l, action) ==
    [op |-> "hook", line |-> l, action |-> action, pay |-> booking.pay,
     last |-> /\ booking.override = "none"
              /\ LinesIn({"new", "confirmed", "checked_in"}) \subseteq {l}]

ActRead(q, l, action) ==
    /\ l \notin UnitLines /\ HotelAllows(res[l], action)
    /\ Start(q, [op |-> "act", line |-> l, action |-> action])
    /\ UNCHANGED <<now, booking, res, payments, requested, due, received>>

ActUpdate(q) ==
    /\ ops[q].op = "act"
    /\ ~LineLocked(ops[q].line, q)
    /\ ops' = [ops EXCEPT ![q] = Hook(@.line, @.action)]
    /\ UNCHANGED <<now, booking, res, payments, requested, due, received>>

UnitActUpdate(q, l, action) ==
    /\ l \in UnitLines /\ UnitAllows(res[l], action)
    /\ ~LineLocked(l, q)
    /\ Start(q, Hook(l, action))
    /\ UNCHANGED <<now, booking, res, payments, requested, due, received>>

(* Commit of a Front Office transaction whose action is in S.               *)
DeskCommit(q, S) ==
    /\ ops[q].op = "hook" /\ ops[q].action \in S
    /\ res' = [res EXCEPT ![ops[q].line] = Target(ops[q].action)]
    /\ Finish(q)
    /\ UNCHANGED <<now, requested, due>>

DeskConfirm(q) ==
    /\ DeskCommit(q, {"confirm"})
    /\ booking' = IF ops[q].pay = "unpaid" /\ booking.pay = "unpaid"
                  THEN PaymentSettled("pay_at_property")
                  ELSE booking
    /\ UNCHANGED <<payments, received>>

CashPending == {p \in PaymentsIn({"pending"}) : payments[p].method = "cash_on_site"}

DeskCheckOut(q) ==
    /\ DeskCommit(q, {"check_out"})
    /\ IF ops[q].pay = "pay_at_property"
       THEN /\ PaymentsFree(CashPending, q)
            /\ booking' = [booking EXCEPT !.pay = "paid"]
            /\ payments' = SetPayments(CashPending, "paid")
            /\ received' = received \cup CashPending
       ELSE UNCHANGED <<booking, payments, received>>

DeskCancel(q) ==
    /\ DeskCommit(q, {"cancel"})
    /\ IF ops[q].last
       THEN PaymentsFree(PaymentsIn(Open), q) /\ CancelRows(ops[q].pay)
       ELSE UNCHANGED <<booking, payments>>
    /\ UNCHANGED received

(* check_in and no_show only notify the customer.                           *)
DeskOther(q) ==
    /\ DeskCommit(q, {"check_in", "no_show"})
    /\ UNCHANGED <<booking, payments, received>>

-----------------------------------------------------------------------------
(* A request may end without effect in any of its steps: the client goes    *)
(* away, the database refuses, or it is the victim of a deadlock.           *)
Abort(q) ==
    /\ ops[q] # Idle
    /\ Finish(q)
    /\ UNCHANGED <<now, booking, res, payments, requested, due, received>>

Tick ==
    /\ now < MaxNow
    /\ now' = now + 1
    /\ UNCHANGED <<booking, res, payments, requested, ops, due, received>>

Request(q) ==
    \/ CancelRead(q) \/ CancelCommit(q)
    \/ \E method \in Methods : PayRead(q, method)
    \/ PayCommit(q) \/ PayRefused(q)
    \/ \E p \in Slots : \/ ProofPresign(q, p) \/ ProofRead(q, p)
                        \/ VerifyRead(q, p) \/ RejectRead(q, p)
    \/ ProofCommit(q) \/ VerifyCommit(q) \/ RejectCommit(q) \/ RefundDone(q)
    \/ \E l \in Lines, action \in DeskActions :
            ActRead(q, l, action) \/ UnitActUpdate(q, l, action)
    \/ ActUpdate(q)
    \/ DeskConfirm(q) \/ DeskCheckOut(q) \/ DeskCancel(q) \/ DeskOther(q)
    \/ Abort(q)

Next ==
    \/ \E q \in Requests : Request(q)
    \/ \E p \in Slots : UploadProof(p)
    \/ SweepSelect \/ SweepExpire \/ SweepFail
    \/ Tick

Spec == Init /\ [][Next]_vars

(* Every request ends (its context has a timeout); the worker runs the     *)
(* sweep again and again (a River periodic job) and waits for row locks;   *)
(* the transaction that is to expire the booking does not fail for ever.    *)
FairSpec ==
    /\ Spec
    /\ \A q \in Requests : WF_vars(Abort(q))
    /\ WF_vars(SweepSelect) /\ SF_vars(SweepExpire)
    /\ <>[][~(SweepFail /\ StillUnpaid)]_vars

-----------------------------------------------------------------------------
(* Properties.                                                              *)

(* Every variable keeps the type of its column or of its bookkeeping.       *)
TypeOK ==
    /\ now \in Nat
    /\ booking \in [pay : BookingPayment, deadline : Int,
                    override : {"none", "cancelled", "expired"}]
    /\ res \in [Lines -> ReservationStatus]
    /\ payments \in [Slots -> [status : PaymentStatus, method : Methods,
                               proof : {"none", "presigned", "uploaded"}]]
    /\ requested \in 0 .. MaxPayments
    /\ ops \in [Requests -> Operation]
    /\ due \in BOOLEAN
    /\ received \subseteq Slots

(* A booking that was cancelled or expired holds no apartment any more: the *)
(* transaction that sets status_override releases the lines, and because    *)
(* unitReservationActTx works on a locked reservation no stale Front Office *)
(* request revives one of them.                                             *)
HoldsReleased ==
    booking.override # "none" =>
        \A l \in UnitLines : res[l] \notin {"new", "confirmed"}

(* An apartment is confirmed only for a booking that is paid or will be     *)
(* paid at the property: confirmation (CreateBooking, CreatePayment,        *)
(* VerifyPayment, Front Office) and payment status never part, whatever     *)
(* cancellations, expiries and rejections run at the same time.             *)
ConfirmedIsCovered ==
    \A l \in UnitLines :
        res[l] = "confirmed" => booking.pay \in {"paid", "pay_at_property"}

(* A refund is queued or done only for a booking somebody paid: a payment   *)
(* was marked paid, or the guest checked out and paid at the desk.          *)
RefundBacked ==
    booking.pay \in {"refund_pending", "refunded"} =>
        received # {} \/ \E l \in Lines : res[l] = "checked_out"

(* Money that was received is never forgotten: the booking is paid as long  *)
(* as it stands, and waits for its refund or is refunded once it is         *)
(* cancelled (VerifyPayment, cancelBookingTx: "paid to refund_pending",     *)
(* RefundDone).  No expiry ever takes a booking whose money came in.        *)
MoneyAccounted ==
    received # {} =>
        booking.pay \in IF booking.override = "none" THEN {"paid"}
                                                    ELSE {"refund_pending", "refunded"}

(* The customer is charged once: of all the payments of a booking at most   *)
(* one is ever marked paid, although changing the method leaves rows of the *)
(* earlier choices behind.                                                  *)
ChargedOnce == Cardinality(received) <= 1

(* When Front Office has cancelled every line, one after the other, the     *)
(* booking itself is closed, with the refund that goes with it: the hook of *)
(* the last cancellation does it.                                           *)
CancelledIsSynced == AllLinesIn({"cancelled"}) => booking.override # "none"

Rank(status) == CASE status = "new"        -> 0
                  [] status = "confirmed"  -> 1
                  [] status = "checked_in" -> 2
                  [] OTHER                 -> 3

MovesForward(before, after) ==
    /\ Rank(before) < Rank(after)
    /\ before = "checked_in" => after = "checked_out"

StayForward == \A l \in UnitLines : res'[l] = res[l] \/ MovesForward(res[l], res'[l])

(* The stay of an apartment only moves forward: no request, however late,   *)
(* takes a reservation back to an earlier status or out of a final one, and *)
(* a guest in the house is only checked out, never cancelled.               *)
StaysMoveForward == [][StayForward]_res

(* An overdue booking does not keep its rooms: it is expired by the sweep,  *)
(* or paid, cancelled, given a proof.                                       *)
OverdueReleased == Overdue ~> ~Overdue
=============================================================================
