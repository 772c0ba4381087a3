---------------------------- MODULE RoomInventory ----------------------------
(***************************************************************************)
(* One room type of a hotel: its rooms, the stays that are reserved on it   *)
(* by the front desk (api/internal/hotel) and by customers of BVRooms, and  *)
(* the statuses of the rooms, which reservations, housekeeping and staff    *)
(* set.  The tasks and invoices these handlers create are not followed.     *)
(*                                                                          *)
(* A stay covers the nights from .. to - 1.  Creation locks the row of the  *)
(* type before it counts; a change of dates, the actions of the desk and    *)
(* every change of a room decide on a plain read and write by id alone.  An *)
(* exclusion constraint of the table stands behind all of them.             *)
(***************************************************************************)
EXTENDS Transactions, Periods, FiniteSets, FiniteSetsExt

CONSTANTS
    Rooms,       \* rooms that may be set up
    NoRoom,      \* a stay without an assigned room
    MaxStays,    \* bound: rows of hotel_reservations
    LastNight    \* bound: the last night that can be booked

ASSUME RoomAssumption ==
    /\ IsFiniteSet(Rooms) /\ NoRoom \notin Rooms
    /\ MaxStays \in Nat /\ LastNight \in Nat

Stays == 1 .. MaxStays
Days  == 0 .. LastNight + 1

VARIABLES
    stay,       \* stay[r]: status, from, to, room of a reservation
    room,       \* room[m]: room_status, "none" before the room is set up
    today,      \* the date at the property
    repaired    \* history: rooms whose status was changed while a guest was in

roomVars == <<stay, room, today, repaired, ops, serial>>

-----------------------------------------------------------------------------
Held == {"new", "confirmed", "checked_in"}

(* The statuses in which the exclusion constraint guards a row.             *)
Kept == Held

Sellable == {m \in Rooms : room[m] \notin {"none", "out_of_order", "out_of_service"}}

Booked(n, S) == {r \in S : stay[r].status \in Held /\ Covers(stay[r], n)}

(* availabilityTx, for the stays S that count.                              *)
Available(from, to, S) ==
    Cardinality(Sellable) - Max({Cardinality(Booked(n, S)) : n \in from .. to - 1})

Free(m, from, to) ==
    /\ m \in Sellable
    /\ \A r \in Stays : stay[r].room = m /\ stay[r].status \in Held
                         => ~Meets(stay[r], [from |-> from, to |-> to])

(* The exclusion constraint on the rows that a statement leaves behind.     *)
Excluded(rows) ==
    \A r, s \in Stays :
        /\ r # s /\ {rows[r].status, rows[s].status} \subseteq Kept
        /\ rows[r].room = rows[s].room /\ rows[r].room # NoRoom
        => ~Meets(rows[r], rows[s])

Write(rows) == Excluded(rows) /\ stay' = rows

-----------------------------------------------------------------------------
(* Creation: CreateReservation takes one room, which may be chosen, and     *)
(* BVRooms several without a choice.                                        *)

Unused == {r \in Stays : stay[r].status = "none"}
NextRows(n) == {S \in SUBSET Unused : /\ Cardinality(S) = n
                                      /\ \A r \in Unused, s \in S : r < s => r \in S}

(* Mutant of TypeLocked: the type is not locked.                            *)
TypeUnlocked == FALSE

TypeLocked == \E q \in Requests : ops[q].kind = "reserve"

(* SELECT ... FOR UPDATE on the type, then the count: reservations wait for *)
(* each other here, so they may overlap in a serial behaviour too.          *)
ReserveRead(q, from, to) ==
    /\ ~TypeLocked
    /\ serial => \A p \in Requests : ops[p].kind \in {"none", "reserve"}
    /\ \E n \in 1 .. 2, m \in Rooms \cup {NoRoom}, status \in {"new", "confirmed"} :
         /\ Available(from, to, Stays) >= n
         /\ m # NoRoom => n = 1 /\ Free(m, from, to)
         /\ Start(q, [kind |-> "reserve", count |-> n,
                      row |-> [status |-> status, from |-> from, to |-> to, room |-> m]])
    /\ UNCHANGED <<stay, room, today, repaired, serial>>

ReserveCommit(q) ==
    /\ ops[q].kind = "reserve" /\ End(q)
    /\ \E S \in NextRows(ops[q].count) :
         Write([r \in Stays |-> IF r \in S THEN ops[q].row ELSE stay[r]])
    /\ UNCHANGED <<room, today, repaired, serial>>

-----------------------------------------------------------------------------
(* Update: other dates, counted without the stay itself and without a lock. *)

MoveRead(q, r, from, to) ==
    /\ stay[r].status \in {"new", "confirmed"}
    /\ Available(from, to, Stays \ {r}) > 0
    /\ Begin(q, [kind |-> "move", stay |-> r, from |-> from, to |-> to])
    /\ UNCHANGED <<stay, room, today, repaired, serial>>

MoveCommit(q) ==
    /\ ops[q].kind = "move" /\ End(q)
    /\ Write([stay EXCEPT ![ops[q].stay].from = ops[q].from, ![ops[q].stay].to = ops[q].to])
    /\ UNCHANGED <<room, today, repaired, serial>>

-----------------------------------------------------------------------------
(* Act.                                                                     *)

(* enrichRes.                                                               *)
Actions(r) ==
    LET s == stay[r]
    IN (IF s.status = "new" THEN {"confirm"} ELSE {})
       \cup (IF s.status \in {"new", "confirmed"} THEN {"assign_room", "cancel"} ELSE {})
       \cup (IF s.status \in {"new", "confirmed"} /\ s.from <= today THEN {"check_in"} ELSE {})
       \cup (IF s.status \in {"new", "confirmed"} /\ s.from < today THEN {"no_show"} ELSE {})
       \cup (IF s.status = "checked_in" THEN {"check_out", "assign_room"} ELSE {})

Outcome == [confirm |-> "confirmed", cancel |-> "cancelled", no_show |-> "no_show",
            check_in |-> "checked_in", check_out |-> "checked_out"]

(* The room of an assignment, a room move or a check-in.                    *)
Ready(action, r, m) ==
    /\ m \in Sellable
    /\ (action = "check_in" \/ stay[r].status = "checked_in") => room[m] # "occupied"

ActRead(q, r, action) ==
    /\ action \in Actions(r)
    /\ \E m \in Rooms \cup {NoRoom} :
         /\ action \in {"assign_room", "check_in"} <=> m # NoRoom
         /\ m # NoRoom => Ready(action, r, m)
         /\ Begin(q, [kind |-> "act", stay |-> r, action |-> action, room |-> m,
                      was |-> stay[r].status, old |-> stay[r].room])
    /\ UNCHANGED <<stay, room, today, repaired, serial>>

(* Mutant of Left: the old room of a move keeps its status.                 *)
LeftAtCheckOut(op) == IF op.action = "check_out" THEN {op.old} \cap Rooms ELSE {}

Relocates(op) == op.action = "assign_room" /\ op.was = "checked_in"

(* The rooms a guest leaves, and the one he takes.                          *)
Left(op) ==
    IF op.action = "check_out" \/ Relocates(op) THEN {op.old} \cap Rooms ELSE {}
Taken(op) ==
    IF op.action = "check_in" \/ Relocates(op) THEN {op.room} ELSE {}

ActCommit(q) ==
    LET op == ops[q]
        r == op.stay
    IN /\ op.kind = "act" /\ End(q)
       /\ Write([stay EXCEPT
            ![r].status = IF op.action = "assign_room" THEN @ ELSE Outcome[op.action],
            ![r].room = IF op.room = NoRoom THEN @ ELSE op.room])
       /\ room' = [m \in Rooms |-> IF m \in Taken(op) THEN "occupied"
                                   ELSE IF m \in Left(op) THEN "dirty" ELSE room[m]]
       /\ UNCHANGED <<today, repaired, serial>>

(* BVRooms confirms or releases the stays of its bookings, by status.       *)
BookingActs(r, to) ==
    /\ Calm
    /\ stay[r].status \in (IF to = "confirmed" THEN {"new"} ELSE {"new", "confirmed"})
    /\ stay' = [stay EXCEPT ![r].status = to]
    /\ UNCHANGED <<room, today, repaired, ops, serial>>

-----------------------------------------------------------------------------
(* Rooms.                                                                   *)

CreateRoom(m) ==
    /\ Calm /\ room[m] = "none"
    /\ room' = [room EXCEPT ![m] = "available"]
    /\ UNCHANGED <<stay, today, repaired, ops, serial>>

Closed == {"out_of_order", "out_of_service"}

(* allowedRoomStatuses: what staff may set by hand.                         *)
ByHand(status) ==
    CASE status = "occupied"  -> {"out_of_order"}
      [] status = "dirty"     -> {"clean", "inspected"} \cup Closed
      [] status = "clean"     -> {"inspected", "available", "dirty"} \cup Closed
      [] status = "inspected" -> {"available", "dirty"} \cup Closed
      [] status = "available" -> {"dirty"} \cup Closed
      [] status \in Closed    -> {"dirty", "available"}
      [] OTHER                -> {}

(* roomHook: a cleaning that is completed, an inspection that passed or     *)
(* failed.                                                                  *)
Housekeeping(status) ==
    (IF status = "dirty" THEN {"clean"} ELSE {})
    \cup (IF status \in {"clean", "dirty"} THEN {"available"} ELSE {})
    \cup (IF status = "clean" THEN {"dirty"} ELSE {})

SetRead(q, m, to) ==
    /\ to \in ByHand(room[m]) \cup Housekeeping(room[m])
    /\ Begin(q, [kind |-> "set", room |-> m, to |-> to])
    /\ UNCHANGED <<stay, room, today, repaired, serial>>

SetCommit(q) ==
    LET m == ops[q].room
    IN /\ ops[q].kind = "set" /\ End(q)
       /\ room' = [room EXCEPT ![m] = ops[q].to]
       /\ repaired' = IF room[m] = "occupied" /\ ops[q].to \in Closed
                      THEN repaired \cup {m} ELSE repaired
       /\ UNCHANGED <<stay, today, serial>>

-----------------------------------------------------------------------------
NextDay ==
    /\ today <= LastNight /\ today' = today + 1
    /\ UNCHANGED <<stay, room, repaired, ops, serial>>

RoomAbort(q) ==
    /\ ops[q] # NoOp /\ End(q)
    /\ UNCHANGED <<stay, room, today, repaired, serial>>

NoStay == [status |-> "none", from |-> 0, to |-> 1, room |-> NoRoom]

RoomIdle ==
    /\ stay = [r \in Stays |-> NoStay]
    /\ room = [m \in Rooms |-> "none"]
    /\ today = 0 /\ repaired = {}

RoomInit == RoomIdle /\ TxInit

RoomNext ==
    \/ NextDay
    \/ \E m \in Rooms : CreateRoom(m)
    \/ \E r \in Stays, to \in {"confirmed", "cancelled"} : BookingActs(r, to)
    \/ \E q \in Requests :
         \/ \E from, to \in Days : from < to /\ \/ ReserveRead(q, from, to)
                                                \/ \E r \in Stays : MoveRead(q, r, from, to)
         \/ \E r \in Stays, action \in DOMAIN Outcome \cup {"assign_room"} : ActRead(q, r, action)
         \/ \E m \in Rooms, to \in {"clean", "inspected", "available", "dirty"} \cup Closed :
              SetRead(q, m, to)
         \/ ReserveCommit(q) \/ MoveCommit(q) \/ ActCommit(q) \/ SetCommit(q) \/ RoomAbort(q)

RoomSpec == RoomInit /\ [][RoomNext]_roomVars

-----------------------------------------------------------------------------
(* Properties.                                                              *)

StayStatus == Held \cup {"none", "checked_out", "cancelled", "no_show"}
RoomStatus == Closed \cup {"none", "available", "occupied", "dirty", "clean", "inspected"}
StayRow    == [status : StayStatus, from : Days, to : Days, room : Rooms \cup {NoRoom}]
NewRow     == [status : {"new", "confirmed"}, from : Days, to : Days, room : Rooms \cup {NoRoom}]

RoomOp ==
    {NoOp}
    \cup [kind : {"reserve"}, count : 1 .. 2, row : NewRow]
    \cup [kind : {"move"}, stay : Stays, from : Days, to : Days]
    \cup [kind : {"act"}, stay : Stays, action : DOMAIN Outcome \cup {"assign_room"},
          room : Rooms \cup {NoRoom}, was : Held, old : Rooms \cup {NoRoom}]
    \cup [kind : {"set"}, room : Rooms, to : RoomStatus]

(* Every row keeps its type.                                                *)
RoomTypeOK ==
    /\ stay \in [Stays -> StayRow] /\ room \in [Rooms -> RoomStatus]
    /\ today \in Days /\ repaired \subseteq Rooms
    /\ ops \in [Requests -> RoomOp] /\ serial \in BOOLEAN

(* No night has more stays than the type has rooms, although reservations   *)
(* count before they insert and two of them may meet.                       *)
NeverOverbooked ==
    serial => \A n \in 0 .. LastNight :
        Cardinality(Booked(n, Stays)) <= Cardinality({m \in Rooms : room[m] # "none"})

Guests(m) == {r \in Stays : stay[r].status = "checked_in" /\ stay[r].room = m}

(* A room counts as occupied exactly while one guest is in it, through      *)
(* check-ins, room moves, check-outs and housekeeping, unless staff closed  *)
(* it under a guest.                                                        *)
GuestsHaveRooms ==
    serial => \A m \in Rooms \ repaired :
        /\ Cardinality(Guests(m)) <= 1
        /\ room[m] = "occupied" <=> Guests(m) # {}
=============================================================================
