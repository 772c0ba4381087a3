---------------------------- MODULE FacilityBooking ----------------------------
(***************************************************************************)
(* One facility of a property and its bookings (api/internal/booking).      *)
(* Staff and tenants book, staff approve, reject, check in and complete,    *)
(* tenants cancel, and the facility is changed, closed for a while or       *)
(* deleted.  No row is locked: every handler decides on a plain read and    *)
(* writes by id alone; an exclusion constraint on the bookings in           *)
(* BookingHeld stands behind them.  The unit of time is the five minutes a  *)
(* booking may begin in the past.                                           *)
(***************************************************************************)
EXTENDS Transactions, Periods

CONSTANTS
    MaxBookings,   \* bound: rows of bookings
    LastSlot       \* bound: the last slot that can be booked

ASSUME FacilityAssumption == MaxBookings \in Nat /\ LastSlot \in Nat

Bookings == 1 .. MaxBookings
Slots    == 0 .. LastSlot + 1

VARIABLES
    facility,   \* open (active, operational and bookable), approval, deleted
    closures,   \* periods of facility_schedules, kind closure
    fbooking,   \* fbooking[b]: status, from, to
    now

facVars == <<facility, closures, fbooking, now, ops, serial>>

-----------------------------------------------------------------------------
BookingHeld == {"pending", "confirmed", "checked_in"}

(* upcoming_bookings of facSelect.                                          *)
Upcoming == {b \in Bookings : /\ fbooking[b].status \in {"pending", "confirmed"}
                              /\ fbooking[b].from >= now}

BookingWrite(rows) == Apart(rows, BookingHeld) /\ fbooking' = rows

(* Create and TenantCreate, createTx.                                       *)
BookRead(q, from, to) ==
    /\ ~facility.deleted /\ facility.open
    /\ from >= now - 1
    /\ \A c \in closures : ~Meets(c, [from |-> from, to |-> to])
    /\ Begin(q, [kind |-> "book",
                 row |-> [status |-> IF facility.approval THEN "pending" ELSE "confirmed",
                          from |-> from, to |-> to]])
    /\ UNCHANGED <<facility, closures, fbooking, now, serial>>

BookCommit(q) ==
    /\ ops[q].kind = "book" /\ End(q)
    /\ \E b \in Bookings :
         /\ \A c \in Bookings : fbooking[c].status = "none" <=> c >= b
         /\ BookingWrite([fbooking EXCEPT ![b] = ops[q].row])
    /\ UNCHANGED <<facility, closures, now, serial>>

(* staffActions.                                                            *)
StaffActions(b) ==
    CASE fbooking[b].status = "pending"    -> {"approve", "reject", "cancel"}
      [] fbooking[b].status = "confirmed"  -> {"check_in", "no_show", "cancel"}
      [] fbooking[b].status = "checked_in" -> {"complete"}
      [] OTHER                             -> {}

(* tenantActions.                                                           *)
TenantActions(b) == IF b \in Upcoming /\ fbooking[b].from > now THEN {"cancel"} ELSE {}

BookingResult ==
    [approve |-> "confirmed", reject |-> "rejected", cancel |-> "cancelled",
     check_in |-> "checked_in", complete |-> "completed", no_show |-> "no_show"]

(* Act and TenantCancel; applyTx.                                           *)
BookingActRead(q, b, action) ==
    /\ action \in StaffActions(b) \cup TenantActions(b)
    /\ Begin(q, [kind |-> "apply", booking |-> b, action |-> action])
    /\ UNCHANGED <<facility, closures, fbooking, now, serial>>

BookingActCommit(q) ==
    /\ ops[q].kind = "apply" /\ End(q)
    /\ BookingWrite([fbooking EXCEPT ![ops[q].booking].status = BookingResult[ops[q].action]])
    /\ UNCHANGED <<facility, closures, now, serial>>

-----------------------------------------------------------------------------
(* UpdateFacility; what it read may be older than a deletion.               *)
UpdateFacility ==
    /\ Calm /\ (serial => ~facility.deleted)
    /\ \E open, approval \in BOOLEAN :
         facility' = [facility EXCEPT !.open = open, !.approval = approval]
    /\ UNCHANGED <<closures, fbooking, now, ops, serial>>

(* Mutant of DeleteRead: bookings to come do not stand in the way.          *)
DeleteReadAny(q) ==
    /\ ~facility.deleted
    /\ Begin(q, [kind |-> "delete"])
    /\ UNCHANGED <<facility, closures, fbooking, now, serial>>

(* DeleteFacility: HAS_BOOKINGS while a booking is to come.                 *)
DeleteRead(q) ==
    /\ ~facility.deleted /\ Upcoming = {}
    /\ Begin(q, [kind |-> "delete"])
    /\ UNCHANGED <<facility, closures, fbooking, now, serial>>

DeleteCommit(q) ==
    /\ ops[q].kind = "delete" /\ End(q)
    /\ facility' = [facility EXCEPT !.deleted = TRUE, !.open = FALSE]
    /\ UNCHANGED <<closures, fbooking, now, serial>>

AddSchedule(from, to) ==
    /\ Calm /\ ~facility.deleted
    /\ closures' = closures \cup {[from |-> from, to |-> to]}
    /\ UNCHANGED <<facility, fbooking, now, ops, serial>>

DeleteSchedule(c) ==
    /\ Calm /\ ~facility.deleted
    /\ closures' = closures \ {c}
    /\ UNCHANGED <<facility, fbooking, now, ops, serial>>

-----------------------------------------------------------------------------
Clock ==
    /\ now <= LastSlot /\ now' = now + 1
    /\ UNCHANGED <<facility, closures, fbooking, ops, serial>>

FacAbort(q) ==
    /\ ops[q] # NoOp /\ End(q)
    /\ UNCHANGED <<facility, closures, fbooking, now, serial>>

FacIdle ==
    /\ facility = [open |-> TRUE, approval |-> TRUE, deleted |-> FALSE]
    /\ closures = {} /\ now = 1
    /\ fbooking = [b \in Bookings |-> [status |-> "none", from |-> 0, to |-> 1]]

FacInit == FacIdle /\ TxInit

FacNext ==
    \/ Clock \/ UpdateFacility
    \/ \E c \in closures : DeleteSchedule(c)
    \/ \E from, to \in Slots : from < to /\ \/ AddSchedule(from, to)
                                            \/ \E q \in Requests : BookRead(q, from, to)
    \/ \E q \in Requests :
         \/ \E b \in Bookings, action \in DOMAIN BookingResult : BookingActRead(q, b, action)
         \/ BookCommit(q) \/ BookingActCommit(q) \/ DeleteRead(q) \/ DeleteCommit(q) \/ FacAbort(q)

FacSpec == FacInit /\ [][FacNext]_facVars

-----------------------------------------------------------------------------
(* Properties.                                                              *)

BookingStatus == BookingHeld \cup {"none", "rejected", "cancelled", "completed", "no_show"}
BookingRow    == [status : BookingStatus, from : Slots, to : Slots]
FacOp ==
    {NoOp} \cup [kind : {"book"}, row : BookingRow] \cup [kind : {"delete"}]
    \cup [kind : {"apply"}, booking : Bookings, action : DOMAIN BookingResult]

(* Every row keeps its type.                                                *)
FacTypeOK ==
    /\ facility \in [open : BOOLEAN, approval : BOOLEAN, deleted : BOOLEAN]
    /\ closures \subseteq [from : Slots, to : Slots]
    /\ fbooking \in [Bookings -> BookingRow] /\ now \in Slots
    /\ ops \in [Requests -> FacOp] /\ serial \in BOOLEAN

(* While handlers take turns, a deleted facility owes nobody a slot: no     *)
(* booking that is still to come survives the deletion, is made after it or *)
(* is brought back by an action of staff or of the tenant.                  *)
DeletedHoldsNothing == serial /\ facility.deleted => Upcoming = {}
=============================================================================
