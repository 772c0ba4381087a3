-------------------------- MODULE Reservations_proofs --------------------------
(***************************************************************************)
(* Proofs about RoomInventory, for every number of rooms, stays, nights and *)
(* handlers: the types, however handlers overlap, and, while they take      *)
(* turns, that rooms know their guests and that no night has more stays     *)
(* than rooms; about FacilityBooking, for every number of bookings, slots   *)
(* and handlers: the types, and that a deleted facility holds nothing while *)
(* handlers take turns; and about UnitDesk: the types, and that listings,   *)
(* leads, offers and the tenant agree with the sales and rentals of a unit. *)
(***************************************************************************)
EXTENDS RoomInventory, FacilityBooking, UnitDesk, SumTheorems

-----------------------------------------------------------------------------
(* RoomInventory.                                                           *)

ReserveOp == [kind : {"reserve"}, count : 1 .. 2, row : NewRow]
MoveOp    == [kind : {"move"}, stay : Stays, from : Days, to : Days]
ActOp     == [kind : {"act"}, stay : Stays, action : DOMAIN Outcome \cup {"assign_room"},
              room : Rooms \cup {NoRoom}, was : Held, old : Rooms \cup {NoRoom}]
SetOp     == [kind : {"set"}, room : Rooms, to : RoomStatus]

(* What a handler that is at work in a serial behaviour knows of the rows   *)
(* it read: they are still so.                                              *)
ActRemembers(op) ==
    /\ op.was = stay[op.stay].status /\ op.old = stay[op.stay].room
    /\ op.action \in {"check_in", "assign_room"} => op.room \in Rooms
    /\ op.action \notin {"check_in", "assign_room"} => op.room = NoRoom
    /\ op.action = "check_in" => room[op.room] # "occupied" /\ op.was \in {"new", "confirmed"}
    /\ op.action = "check_out" => op.was = "checked_in"
    /\ op.action \in {"confirm", "cancel", "no_show"} => op.was \in {"new", "confirmed"}
    /\ Relocates(op) => room[op.room] # "occupied"

SetRemembers(op) == op.to \in ByHand(room[op.room]) \cup Housekeeping(room[op.room])

Remembers(q) ==
    /\ ops[q].kind = "act" => ActRemembers(ops[q])
    /\ ops[q].kind = "set" => SetRemembers(ops[q])

ReadsHold == \A q \in Requests : Remembers(q)

(* Only reservations of the type work side by side.                         *)
TakeTurns ==
    \A p, q \in Requests : p # q /\ ops[p] # NoOp /\ ops[q] # NoOp =>
        ops[p].kind = "reserve" /\ ops[q].kind = "reserve"

(* One guest for each occupied room, said without counting.                  *)
GuestsApart ==
    \A m \in Rooms \ repaired :
        /\ \A r, s \in Guests(m) : r = s
        /\ room[m] = "occupied" <=> Guests(m) # {}

DeskInOrder == serial => TakeTurns /\ ReadsHold /\ GuestsApart

(* What the exclusion constraint of hotel_reservations says of its rows.    *)
RoomHeldOnce ==
    \A r, s \in Stays :
        r # s /\ {stay[r].status, stay[s].status} \subseteq Held
        /\ stay[r].room = stay[s].room /\ stay[r].room # NoRoom
        => ~Meets(stay[r], stay[s])

RoomInv == RoomTypeOK /\ RoomHeldOnce /\ DeskInOrder

LEMMA RoomOpOfKind ==
    ASSUME RoomTypeOK, NEW q \in Requests
    PROVE  /\ ops[q].kind = "reserve" => ops[q] \in ReserveOp
           /\ ops[q].kind = "move" => ops[q] \in MoveOp
           /\ ops[q].kind = "act" => ops[q] \in ActOp
           /\ ops[q].kind = "set" => ops[q] \in SetOp
BY DEF RoomTypeOK, RoomOp, NoOp, ReserveOp, MoveOp, ActOp, SetOp

LEMMA OutcomeTyped ==
    ASSUME NEW action \in DOMAIN Outcome
    PROVE  Outcome[action] \in StayStatus
BY DEF Outcome, StayStatus, Held

(* The exclusion constraint is RoomHeldOnce of the rows it lets pass.       *)
LEMMA ExclusionHolds ==
    ASSUME NEW rows, Write(rows)
    PROVE  RoomHeldOnce' /\ stay' = rows
BY DEF Write, Excluded, RoomHeldOnce, Kept

(* A handler that begins.                                                   *)
LEMMA RoomBegin ==
    ASSUME RoomInv, NEW q \in Requests, NEW op \in RoomOp, Begin(q, op),
           op.kind # "none",
           UNCHANGED <<stay, room, repaired, serial>>,
           op.kind = "act" => ActRemembers(op),
           op.kind = "set" => SetRemembers(op)
    PROVE  ops' \in [Requests -> RoomOp] /\ DeskInOrder' /\ RoomHeldOnce'
<1>1. ops \in [Requests -> RoomOp] /\ ops' = [ops EXCEPT ![q] = op]
  BY DEF RoomInv, RoomTypeOK, Begin, Start
<1>2. serial' = serial /\ (serial => \A p \in Requests \ {q} : ops[p] = NoOp)
  BY DEF Begin, Turn
<1>3. serial => TakeTurns'
  BY <1>1, <1>2 DEF TakeTurns
<1>4. ASSUME serial, NEW p \in Requests PROVE Remembers(p)'
  <2>1. CASE p = q
    BY <1>1, <2>1 DEF Remembers, ActRemembers, SetRemembers
  <2>2. CASE p # q
    BY <1>1, <1>2, <1>4, <2>2 DEF Remembers, NoOp
  <2> QED
    BY <2>1, <2>2
<1>5. serial => GuestsApart'
  BY DEF RoomInv, DeskInOrder, GuestsApart, Guests
<1>6. RoomHeldOnce'
  BY DEF RoomInv, RoomHeldOnce
<1> QED
  BY <1>1, <1>2, <1>3, <1>4, <1>5, <1>6 DEF DeskInOrder, ReadsHold

(* A handler other than a reservation ends: nobody is at work.              *)
LEMMA RoomEnd ==
    ASSUME RoomInv, NEW q \in Requests, ops[q] # NoOp, ops[q].kind # "reserve", End(q),
           serial' = serial
    PROVE  ops' \in [Requests -> RoomOp] /\ (serial => TakeTurns' /\ ReadsHold')
<1>1. ops \in [Requests -> RoomOp] /\ ops' = [ops EXCEPT ![q] = NoOp] /\ NoOp \in RoomOp
  BY DEF RoomInv, RoomTypeOK, End, RoomOp
<1>2. ASSUME serial, NEW p \in Requests PROVE ops'[p] = NoOp
  BY <1>1, <1>2 DEF RoomInv, DeskInOrder, TakeTurns
<1>3. serial => TakeTurns'
  BY <1>2 DEF TakeTurns
<1>4. serial => ReadsHold'
  BY <1>2 DEF ReadsHold, Remembers, NoOp
<1> QED
  BY <1>1, <1>3, <1>4

(* A reservation begins or ends beside others, or time passes.              *)
LEMMA RoomBeside ==
    ASSUME RoomInv, NEW q \in Requests, NEW op \in RoomOp, ops' = [ops EXCEPT ![q] = op],
           op = NoOp \/ op.kind = "reserve",
           op # NoOp => (serial => \A p \in Requests : ops[p].kind \in {"none", "reserve"}),
           UNCHANGED <<room, repaired, serial>>,
           ops[q].kind = "reserve" \/ stay' = stay
    PROVE  ops' \in [Requests -> RoomOp] /\ (serial => TakeTurns' /\ ReadsHold')
<1>1. ops \in [Requests -> RoomOp] /\ NoOp.kind = "none"
  BY DEF RoomInv, RoomTypeOK, NoOp
<1>2. \A p \in Requests : ops[p].kind = "none" => ops[p] = NoOp
  BY <1>1 DEF RoomOp
<1>3. ASSUME serial PROVE TakeTurns'
  BY <1>1, <1>2, <1>3 DEF TakeTurns, RoomInv, DeskInOrder
<1>4. ASSUME serial, NEW p \in Requests PROVE Remembers(p)'
  <2>1. CASE p = q
    BY <1>1, <2>1 DEF Remembers
  <2>2. CASE p # q /\ stay' = stay
    BY <1>1, <1>4, <2>2 DEF RoomInv, DeskInOrder, ReadsHold, Remembers, ActRemembers, SetRemembers
  <2>3. CASE p # q /\ ops[q].kind = "reserve"
    <3>1. ops'[p] = ops[p] /\ (ops[p] = NoOp \/ ops[p].kind = "reserve")
      BY <1>1, <1>4, <2>3 DEF RoomInv, DeskInOrder, TakeTurns
    <3> QED
      BY <1>1, <3>1 DEF Remembers
  <2> QED
    BY <2>1, <2>2, <2>3
<1> QED
  BY <1>1, <1>3, <1>4 DEF ReadsHold

(* Rows that change dates, or other things of stays without a guest, leave  *)
(* the guests where they are.                                               *)
LEMMA GuestsStay ==
    ASSUME RoomInv, UNCHANGED <<room, repaired>>,
           \A r \in Stays : /\ stay'[r].status = "checked_in" <=> stay[r].status = "checked_in"
                            /\ stay[r].status = "checked_in" => stay'[r].room = stay[r].room
    PROVE  GuestsApart <=> GuestsApart'
<1>1. \A m : Guests(m)' = Guests(m)
  BY DEF Guests
<1> QED
  BY <1>1 DEF GuestsApart

LEMMA RoomInitially == RoomInit => RoomInv
<1> SUFFICES ASSUME RoomInit PROVE RoomInv
  OBVIOUS
<1>0. LastNight \in Nat
  BY RoomAssumption
<1> USE DEF RoomInit, RoomIdle, TxInit
<1>1. RoomTypeOK
  BY <1>0 DEF RoomTypeOK, NoStay, StayRow, StayStatus, RoomStatus, Days, RoomOp
<1>2. RoomHeldOnce
  BY DEF RoomHeldOnce, NoStay, Held
<1>3. TakeTurns /\ ReadsHold
  BY DEF TakeTurns, ReadsHold, Remembers, NoOp
<1>4. GuestsApart
  BY DEF GuestsApart, Guests, NoStay
<1> QED
  BY <1>1, <1>2, <1>3, <1>4 DEF RoomInv, DeskInOrder

(* A reservation that commits inserts rows of stays nobody is in.           *)
LEMMA ReserveKeeps ==
    ASSUME RoomInv, NEW q \in Requests, ReserveCommit(q)
    PROVE  RoomInv'
<1>1. /\ ops[q].kind = "reserve" /\ ops[q] \in ReserveOp /\ ops' = [ops EXCEPT ![q] = NoOp]
      /\ UNCHANGED <<room, today, repaired, serial>>
  BY RoomOpOfKind DEF ReserveCommit, End, RoomInv
<1>2. PICK S \in NextRows(ops[q].count) :
        Write([r \in Stays |-> IF r \in S THEN ops[q].row ELSE stay[r]])
  BY DEF ReserveCommit
<1>3. /\ stay' = [r \in Stays |-> IF r \in S THEN ops[q].row ELSE stay[r]]
      /\ RoomHeldOnce'
  BY <1>2, ExclusionHolds
<1>4. stay' \in [Stays -> StayRow]
  BY <1>1, <1>3 DEF RoomInv, RoomTypeOK, ReserveOp, NewRow, StayRow, StayStatus, Held
<1>5. \A r \in S : stay[r].status = "none"
  BY DEF NextRows, Unused
<1>6. /\ \A r \in Stays : stay'[r].status = "checked_in" <=> stay[r].status = "checked_in"
      /\ \A r \in Stays : stay[r].status = "checked_in" => stay'[r].room = stay[r].room
  BY <1>1, <1>3, <1>5 DEF ReserveOp, NewRow
<1>7. ops' \in [Requests -> RoomOp] /\ (serial => TakeTurns' /\ ReadsHold')
  <2>1. NoOp \in RoomOp
    BY DEF RoomOp
  <2> QED
    BY <1>1, <2>1, RoomBeside
<1>8. serial => GuestsApart'
  BY <1>1, <1>6, GuestsStay DEF RoomInv, DeskInOrder
<1> QED
  BY <1>1, <1>3, <1>4, <1>7, <1>8 DEF RoomInv, RoomTypeOK, DeskInOrder

(* A change of dates.                                                       *)
LEMMA MoveKeeps ==
    ASSUME RoomInv, NEW q \in Requests, MoveCommit(q)
    PROVE  RoomInv'
<1> DEFINE r == ops[q].stay
<1>1. /\ ops[q].kind = "move" /\ ops[q] \in MoveOp /\ End(q) /\ ops[q] # NoOp
      /\ UNCHANGED <<room, today, repaired, serial>>
      /\ Write([stay EXCEPT ![r].from = ops[q].from, ![r].to = ops[q].to])
  BY RoomOpOfKind DEF MoveCommit, RoomInv, NoOp
<1>2. /\ stay' = [stay EXCEPT ![r].from = ops[q].from, ![r].to = ops[q].to]
      /\ RoomHeldOnce'
  BY <1>1, ExclusionHolds
<1>3. r \in Stays /\ ops[q].from \in Days /\ ops[q].to \in Days
  BY <1>1 DEF MoveOp
<1>4. stay \in [Stays -> StayRow]
  BY DEF RoomInv, RoomTypeOK
<1>5. /\ stay' \in [Stays -> StayRow]
      /\ \A x \in Stays : stay'[x].status = stay[x].status /\ stay'[x].room = stay[x].room
  <2> HIDE DEF r
  <2> QED
    BY <1>2, <1>3, <1>4 DEF StayRow
<1>6. ops' \in [Requests -> RoomOp] /\ (serial => TakeTurns' /\ ReadsHold')
  BY <1>1, RoomEnd
<1>7. serial => GuestsApart'
  BY <1>1, <1>5, GuestsStay DEF RoomInv, DeskInOrder
<1> QED
  BY <1>1, <1>2, <1>5, <1>6, <1>7 DEF RoomInv, RoomTypeOK, DeskInOrder

(* An action of the desk: confirmation, room, check-in, check-out, ...      *)
LEMMA ActKeeps ==
    ASSUME RoomInv, NEW q \in Requests, ActCommit(q)
    PROVE  RoomInv'
<1> DEFINE op == ops[q]
           r  == op.stay
           to == IF op.action = "assign_room" THEN stay[r].status ELSE Outcome[op.action]
           in == IF op.room = NoRoom THEN stay[r].room ELSE op.room
<1>1. /\ op.kind = "act" /\ op \in ActOp /\ End(q) /\ op # NoOp
      /\ UNCHANGED <<today, repaired, serial>>
      /\ Write([stay EXCEPT ![r].status = to, ![r].room = in])
      /\ room' = [m \in Rooms |-> IF m \in Taken(op) THEN "occupied"
                                  ELSE IF m \in Left(op) THEN "dirty" ELSE room[m]]
  BY RoomOpOfKind DEF ActCommit, RoomInv, NoOp
<1>2. /\ stay' = [stay EXCEPT ![r].status = to, ![r].room = in]
      /\ RoomHeldOnce'
  <2> DEFINE rows == [stay EXCEPT ![r].status = to, ![r].room = in]
  <2>1. Write(rows)
    BY <1>1
  <2> HIDE DEF rows
  <2>2. stay' = rows /\ RoomHeldOnce'
    BY <2>1, ExclusionHolds
  <2> QED
    BY <2>2 DEF rows
<1>3. /\ stay \in [Stays -> StayRow] /\ room \in [Rooms -> RoomStatus]
      /\ r \in Stays /\ op.room \in Rooms \cup {NoRoom} /\ NoRoom \notin Rooms
      /\ op.action \in DOMAIN Outcome \cup {"assign_room"}
  BY <1>1, RoomAssumption DEF RoomInv, RoomTypeOK, ActOp
<1>4. to \in StayStatus /\ in \in Rooms \cup {NoRoom}
  BY <1>3, OutcomeTyped DEF StayRow
<1>5. /\ stay' \in [Stays -> StayRow]
      /\ stay'[r].status = to /\ stay'[r].room = in
      /\ \A x \in Stays : x # r => stay'[x] = stay[x]
  <2> HIDE DEF r, to, in
  <2> QED
    BY <1>2, <1>3, <1>4 DEF StayRow
<1>6. room' \in [Rooms -> RoomStatus]
  BY <1>1, <1>3 DEF RoomStatus
<1>7. ops' \in [Requests -> RoomOp] /\ (serial => TakeTurns' /\ ReadsHold')
  BY <1>1, RoomEnd
<1>8. ASSUME serial PROVE GuestsApart'
  <2>1. ActRemembers(op) /\ GuestsApart
    BY <1>1, <1>8 DEF RoomInv, DeskInOrder, ReadsHold, Remembers
  <2>2. /\ op.action = "check_in" =>
              /\ Taken(op) = {op.room} /\ Left(op) = {} /\ op.room \in Rooms /\ room[op.room] # "occupied"
              /\ stay[r].status # "checked_in" /\ to = "checked_in" /\ in = op.room
        /\ op.action = "check_out" =>
              /\ Taken(op) = {} /\ Left(op) = {stay[r].room} \cap Rooms
              /\ stay[r].status = "checked_in" /\ to = "checked_out" /\ in = stay[r].room
        /\ Relocates(op) =>
              /\ Taken(op) = {op.room} /\ Left(op) = {stay[r].room} \cap Rooms /\ op.room \in Rooms
              /\ room[op.room] # "occupied"
              /\ stay[r].status = "checked_in" /\ to = "checked_in" /\ in = op.room
        /\ op.action \notin {"check_in", "check_out"} /\ ~Relocates(op) =>
              /\ Taken(op) = {} /\ Left(op) = {}
              /\ stay[r].status # "checked_in" /\ to # "checked_in"
    <3>1. /\ op.was = stay[r].status /\ op.old = stay[r].room
          /\ op.action \in {"check_in", "assign_room"} => op.room \in Rooms
          /\ op.action \notin {"check_in", "assign_room"} => op.room = NoRoom
          /\ op.action = "check_in" => room[op.room] # "occupied" /\ op.was \in {"new", "confirmed"}
          /\ op.action = "check_out" => op.was = "checked_in"
          /\ op.action \in {"confirm", "cancel", "no_show"} => op.was \in {"new", "confirmed"}
          /\ Relocates(op) => room[op.room] # "occupied"
      BY <2>1 DEF ActRemembers
    <3>2. op.action \in {"check_in", "check_out", "confirm", "cancel", "no_show", "assign_room"}
      BY <1>3 DEF Outcome
    <3>3. /\ op.action = "check_in" => to = "checked_in"
          /\ op.action = "check_out" => to = "checked_out"
          /\ op.action = "assign_room" => to = stay[r].status
          /\ op.action \in {"confirm", "cancel", "no_show"} => to # "checked_in"
      BY DEF Outcome
    <3> HIDE DEF to, op
    <3> QED
      BY <1>3, <3>1, <3>2, <3>3 DEF Taken, Left, Relocates
  <2> HIDE DEF to, in
  <2> SUFFICES ASSUME NEW m \in Rooms \ repaired'
               PROVE  /\ \A x, y \in Guests(m)' : x = y
                      /\ room'[m] = "occupied" <=> Guests(m)' # {}
    BY DEF GuestsApart
  <2>3. /\ \A x, y \in Guests(m) : x = y
        /\ room[m] = "occupied" <=> Guests(m) # {}
        /\ room'[m] = IF m \in Taken(op) THEN "occupied"
                      ELSE IF m \in Left(op) THEN "dirty" ELSE room[m]
    BY <1>1, <2>1 DEF GuestsApart
  <2>4. /\ \A x \in Stays : x # r => (x \in Guests(m)' <=> x \in Guests(m))
        /\ r \in Guests(m)' <=> to = "checked_in" /\ in = m
        /\ r \in Guests(m) <=> stay[r].status = "checked_in" /\ stay[r].room = m
        /\ Guests(m) \subseteq Stays /\ Guests(m)' \subseteq Stays
    BY <1>3, <1>5 DEF Guests
  <2> HIDE DEF r
  <2>5. CASE op.action = "check_in"
    BY <2>2, <2>3, <2>4, <2>5
  <2>6. CASE op.action = "check_out"
    BY <1>3, <2>2, <2>3, <2>4, <2>6
  <2>7. CASE Relocates(op)
    BY <1>3, <2>2, <2>3, <2>4, <2>7
  <2>8. CASE op.action \notin {"check_in", "check_out"} /\ ~Relocates(op)
    BY <2>2, <2>3, <2>4, <2>8
  <2> QED
    BY <2>5, <2>6, <2>7, <2>8
<1> QED
  BY <1>1, <1>2, <1>5, <1>6, <1>7, <1>8 DEF RoomInv, RoomTypeOK, DeskInOrder

(* BVRooms confirms or releases a stay.                                     *)
LEMMA BookingActsKeeps ==
    ASSUME RoomInv, NEW r \in Stays, NEW to \in {"confirmed", "cancelled"}, BookingActs(r, to)
    PROVE  RoomInv'
<1>1. /\ stay' = [stay EXCEPT ![r].status = to] /\ stay[r].status \in {"new", "confirmed"}
      /\ to = "confirmed" \/ to = "cancelled"
      /\ UNCHANGED <<room, today, repaired, ops, serial>>
  BY DEF BookingActs
<1>2. stay \in [Stays -> StayRow]
  BY DEF RoomInv, RoomTypeOK
<1>3. /\ stay' \in [Stays -> StayRow]
      /\ stay'[r].status = to /\ stay'[r].room = stay[r].room
      /\ stay'[r].from = stay[r].from /\ stay'[r].to = stay[r].to
      /\ \A x \in Stays : x # r => stay'[x] = stay[x]
  BY <1>1, <1>2 DEF StayRow, StayStatus, Held
<1>4. RoomHeldOnce'
  <2> SUFFICES ASSUME NEW x \in Stays, NEW y \in Stays, x # y,
                      {stay'[x].status, stay'[y].status} \subseteq Held,
                      stay'[x].room = stay'[y].room, stay'[x].room # NoRoom
               PROVE  ~Meets(stay'[x], stay'[y])
    BY DEF RoomHeldOnce
  <2>1. /\ {stay[x].status, stay[y].status} \subseteq Held
        /\ stay[x].room = stay[y].room /\ stay[x].room # NoRoom
        /\ stay'[x].from = stay[x].from /\ stay'[x].to = stay[x].to
        /\ stay'[y].from = stay[y].from /\ stay'[y].to = stay[y].to
    BY <1>1, <1>3 DEF Held
  <2>2. ~Meets(stay[x], stay[y])
    BY <2>1 DEF RoomInv, RoomHeldOnce
  <2> QED
    BY <2>1, <2>2 DEF Meets
<1>5. \A x \in Stays : /\ stay'[x].status = "checked_in" <=> stay[x].status = "checked_in"
                       /\ stay[x].status = "checked_in" => stay'[x].room = stay[x].room
  BY <1>1, <1>3
<1>6. ASSUME serial PROVE TakeTurns' /\ ReadsHold' /\ GuestsApart'
  <2>1. \A p \in Requests : ops'[p] = NoOp
    BY <1>1, <1>6 DEF BookingActs, Calm
  <2>2. TakeTurns' /\ ReadsHold'
    BY <2>1 DEF TakeTurns, ReadsHold, Remembers, NoOp
  <2>3. GuestsApart'
    BY <1>1, <1>5, <1>6, GuestsStay DEF RoomInv, DeskInOrder
  <2> QED
    BY <2>2, <2>3
<1> QED
  BY <1>1, <1>3, <1>4, <1>6 DEF RoomInv, RoomTypeOK, DeskInOrder

(* A status that staff or housekeeping set.                                 *)
LEMMA SetKeeps ==
    ASSUME RoomInv, NEW q \in Requests, SetCommit(q)
    PROVE  RoomInv'
<1> DEFINE m == ops[q].room
           to == ops[q].to
<1>1. /\ ops[q].kind = "set" /\ ops[q] \in SetOp /\ End(q) /\ ops[q] # NoOp
      /\ room' = [room EXCEPT ![m] = to]
      /\ repaired' = IF room[m] = "occupied" /\ to \in Closed THEN repaired \cup {m} ELSE repaired
      /\ UNCHANGED <<stay, today, serial>>
  BY RoomOpOfKind DEF SetCommit, RoomInv, NoOp
<1>2. m \in Rooms /\ to \in RoomStatus /\ room \in [Rooms -> RoomStatus]
  BY <1>1 DEF SetOp, RoomInv, RoomTypeOK
<1>3. ops' \in [Requests -> RoomOp] /\ (serial => TakeTurns' /\ ReadsHold')
  BY <1>1, RoomEnd
<1>4. ASSUME serial PROVE GuestsApart'
  <2>1. to \in ByHand(room[m]) \cup Housekeeping(room[m]) /\ GuestsApart
    BY <1>1, <1>4 DEF RoomInv, DeskInOrder, ReadsHold, Remembers, SetRemembers
  <2>2. to # "occupied" /\ (room[m] = "occupied" => to \in Closed)
    BY <2>1 DEF ByHand, Housekeeping, Closed
  <2> HIDE DEF m, to
  <2>3. \A x : Guests(x)' = Guests(x)
    BY <1>1 DEF Guests
  <2>4. \A x \in Rooms \ repaired' : x \in Rooms \ repaired /\ (room'[x] = "occupied" <=> room[x] = "occupied")
    BY <1>1, <1>2, <2>2
  <2> QED
    BY <2>1, <2>3, <2>4 DEF GuestsApart
<1>5. RoomTypeOK' /\ RoomHeldOnce'
  <2> HIDE DEF m, to
  <2> QED
    BY <1>1, <1>2, <1>3 DEF RoomInv, RoomTypeOK, RoomHeldOnce
<1> QED
  BY <1>1, <1>3, <1>4, <1>5 DEF RoomInv, DeskInOrder

LEMMA RoomStep == RoomInv /\ [RoomNext]_roomVars => RoomInv'
<1> SUFFICES ASSUME RoomInv, [RoomNext]_roomVars PROVE RoomInv'
  OBVIOUS
<1>0. LastNight \in Nat /\ RoomTypeOK
  BY RoomAssumption DEF RoomInv
<1>1. CASE NextDay
  <2>1. today' \in Days /\ UNCHANGED <<stay, room, repaired, ops, serial>>
    BY <1>0, <1>1 DEF NextDay, RoomTypeOK, Days
  <2>2. serial => TakeTurns' /\ ReadsHold'
    BY <2>1 DEF RoomInv, DeskInOrder, TakeTurns, ReadsHold, Remembers, ActRemembers, SetRemembers
  <2> QED
    BY <1>0, <2>1, <2>2, GuestsStay DEF RoomInv, RoomTypeOK, RoomHeldOnce, DeskInOrder
<1>2. ASSUME NEW m \in Rooms, CreateRoom(m) PROVE RoomInv'
  <2>1. /\ room[m] = "none" /\ room' = [room EXCEPT ![m] = "available"]
        /\ UNCHANGED <<stay, today, repaired, ops, serial>>
    BY <1>2 DEF CreateRoom
  <2>2. room' \in [Rooms -> RoomStatus]
    BY <1>0, <2>1 DEF RoomTypeOK, RoomStatus
  <2>3. ASSUME serial PROVE TakeTurns' /\ ReadsHold' /\ GuestsApart'
    <3>1. \A p \in Requests : ops'[p] = NoOp
      BY <1>2, <2>1, <2>3 DEF CreateRoom, Calm
    <3>2. TakeTurns' /\ ReadsHold'
      BY <3>1 DEF TakeTurns, ReadsHold, Remembers, NoOp
    <3>3. GuestsApart'
      BY <1>0, <2>1, <2>3 DEF RoomInv, DeskInOrder, GuestsApart, Guests, RoomTypeOK
    <3> QED
      BY <3>2, <3>3
  <2> QED
    BY <1>0, <2>1, <2>2, <2>3 DEF RoomInv, RoomTypeOK, RoomHeldOnce, DeskInOrder
<1>3. ASSUME NEW r \in Stays, NEW to \in {"confirmed", "cancelled"}, BookingActs(r, to) PROVE RoomInv'
  BY <1>3, BookingActsKeeps
<1>4. ASSUME NEW q \in Requests, NEW from \in Days, NEW to \in Days, ReserveRead(q, from, to)
      PROVE  RoomInv'
  <2>1. PICK n \in 1 .. 2, m \in Rooms \cup {NoRoom}, status \in {"new", "confirmed"} :
          Start(q, [kind |-> "reserve", count |-> n,
                    row |-> [status |-> status, from |-> from, to |-> to, room |-> m]])
    BY <1>4 DEF ReserveRead
  <2> DEFINE op == [kind |-> "reserve", count |-> n,
                    row |-> [status |-> status, from |-> from, to |-> to, room |-> m]]
  <2>2. op \in RoomOp /\ op.kind = "reserve" /\ ops' = [ops EXCEPT ![q] = op]
    BY <2>1 DEF RoomOp, NewRow, Start
  <2>3. /\ UNCHANGED <<stay, room, today, repaired, serial>>
        /\ serial => \A p \in Requests : ops[p].kind \in {"none", "reserve"}
    BY <1>4 DEF ReserveRead
  <2>4. ops' \in [Requests -> RoomOp] /\ (serial => TakeTurns' /\ ReadsHold')
    <3> HIDE DEF op
    <3> QED
      BY <2>2, <2>3, RoomBeside
  <2> QED
    BY <1>0, <2>3, <2>4, GuestsStay DEF RoomInv, RoomTypeOK, RoomHeldOnce, DeskInOrder
<1>5. ASSUME NEW q \in Requests, NEW r \in Stays, NEW from \in Days, NEW to \in Days,
             MoveRead(q, r, from, to)
      PROVE  RoomInv'
  <2> DEFINE op == [kind |-> "move", stay |-> r, from |-> from, to |-> to]
  <2>1. op \in RoomOp /\ op.kind = "move"
    BY DEF RoomOp
  <2>2. Begin(q, op) /\ UNCHANGED <<stay, room, today, repaired, serial>>
    BY <1>5 DEF MoveRead
  <2>3. ops' \in [Requests -> RoomOp] /\ DeskInOrder' /\ RoomHeldOnce'
    <3> HIDE DEF op
    <3> QED
      BY <2>1, <2>2, RoomBegin
  <2> QED
    BY <1>0, <2>2, <2>3 DEF RoomInv, RoomTypeOK
<1>6. ASSUME NEW q \in Requests, NEW r \in Stays, NEW action \in DOMAIN Outcome \cup {"assign_room"},
             ActRead(q, r, action)
      PROVE  RoomInv'
  <2>1. PICK m \in Rooms \cup {NoRoom} :
          /\ action \in {"assign_room", "check_in"} <=> m # NoRoom
          /\ m # NoRoom => Ready(action, r, m)
          /\ Begin(q, [kind |-> "act", stay |-> r, action |-> action, room |-> m,
                       was |-> stay[r].status, old |-> stay[r].room])
    BY <1>6 DEF ActRead
  <2> DEFINE op == [kind |-> "act", stay |-> r, action |-> action, room |-> m,
                    was |-> stay[r].status, old |-> stay[r].room]
  <2>2. /\ stay[r] \in StayRow /\ NoRoom \notin Rooms
        /\ UNCHANGED <<stay, room, today, repaired, serial>>
    BY <1>0, <1>6, RoomAssumption DEF RoomTypeOK, ActRead
  <2>3. /\ stay[r].status \in Held
        /\ action \in {"check_in", "confirm", "cancel", "no_show"} => stay[r].status \in {"new", "confirmed"}
        /\ action = "check_out" => stay[r].status = "checked_in"
    BY <1>6 DEF ActRead, Actions, Held
  <2>4. op \in RoomOp /\ op.kind = "act"
    BY <2>2, <2>3 DEF RoomOp, StayRow
  <2>5. ActRemembers(op)
    BY <2>1, <2>2, <2>3 DEF ActRemembers, Ready, Relocates, Outcome
  <2>6. ops' \in [Requests -> RoomOp] /\ DeskInOrder' /\ RoomHeldOnce'
    <3>1. Begin(q, op)
      BY <2>1
    <3> HIDE DEF op
    <3> QED
      BY <2>2, <2>4, <2>5, <3>1, RoomBegin
  <2> QED
    BY <1>0, <2>2, <2>6 DEF RoomInv, RoomTypeOK
<1>7. ASSUME NEW q \in Requests, NEW m \in Rooms,
             NEW to \in {"clean", "inspected", "available", "dirty"} \cup Closed, SetRead(q, m, to)
      PROVE  RoomInv'
  <2> DEFINE op == [kind |-> "set", room |-> m, to |-> to]
  <2>1. op \in RoomOp /\ op.kind = "set" /\ SetRemembers(op)
    BY <1>7 DEF RoomOp, RoomStatus, Closed, SetRead, SetRemembers
  <2>2. Begin(q, op) /\ UNCHANGED <<stay, room, today, repaired, serial>>
    BY <1>7 DEF SetRead
  <2>3. ops' \in [Requests -> RoomOp] /\ DeskInOrder' /\ RoomHeldOnce'
    <3> HIDE DEF op
    <3> QED
      BY <2>1, <2>2, RoomBegin
  <2> QED
    BY <1>0, <2>2, <2>3 DEF RoomInv, RoomTypeOK
<1>8. ASSUME NEW q \in Requests, RoomAbort(q) PROVE RoomInv'
  <2>1. /\ ops[q] # NoOp /\ ops' = [ops EXCEPT ![q] = NoOp] /\ NoOp \in RoomOp
        /\ UNCHANGED <<stay, room, today, repaired, serial>>
    BY <1>8 DEF RoomAbort, End, RoomOp
  <2>2. ops' \in [Requests -> RoomOp] /\ (serial => TakeTurns' /\ ReadsHold')
    BY <2>1, RoomBeside
  <2> QED
    BY <1>0, <2>1, <2>2, GuestsStay DEF RoomInv, RoomTypeOK, RoomHeldOnce, DeskInOrder
<1>9. CASE UNCHANGED roomVars
  <2>1. UNCHANGED <<stay, room, today, repaired, ops, serial>>
    BY <1>9 DEF roomVars
  <2>2. serial => TakeTurns' /\ ReadsHold'
    BY <2>1 DEF RoomInv, DeskInOrder, TakeTurns, ReadsHold, Remembers, ActRemembers, SetRemembers
  <2> QED
    BY <1>0, <2>1, <2>2, GuestsStay DEF RoomInv, RoomTypeOK, RoomHeldOnce, DeskInOrder
<1> QED
  BY <1>1, <1>2, <1>3, <1>4, <1>5, <1>6, <1>7, <1>8, <1>9,
     ReserveKeeps, MoveKeeps, ActKeeps, SetKeeps DEF RoomNext

LEMMA AlwaysRoomInv == RoomSpec => []RoomInv
BY RoomInitially, RoomStep, PTL DEF RoomSpec

(* A set whose elements are equal has one element at most.                  *)
LEMMA OneAtMost ==
    ASSUME NEW S, \A x, y \in S : x = y
    PROVE  Cardinality(S) <= 1
<1>1. CASE S = {}
  BY <1>1, FS_EmptySet
<1>2. CASE S # {}
  <2>1. PICK x : S = {x}
    BY <1>2
  <2> QED
    BY <2>1, FS_Singleton
<1> QED
  BY <1>1, <1>2

(* Every row keeps its type, however the handlers of a hotel overlap.       *)
THEOREM RoomsTyped == RoomSpec => []RoomTypeOK
<1>1. RoomInv => RoomTypeOK
  BY DEF RoomInv
<1> QED
  BY AlwaysRoomInv, <1>1, PTL

(* While handlers take turns, a room is occupied exactly while one guest is *)
(* in it, unless staff closed it under a guest.                             *)
THEOREM RoomsKnowGuests == RoomSpec => []GuestsHaveRooms
<1>1. RoomInv => GuestsHaveRooms
  BY OneAtMost DEF RoomInv, DeskInOrder, GuestsApart, GuestsHaveRooms
<1> QED
  BY AlwaysRoomInv, <1>1, PTL

-----------------------------------------------------------------------------
(* How many stays a night holds.  While handlers take turns there is one at *)
(* work at most, and what it counted still holds when it commits.           *)

OneHandler == \A p, q \in Requests : ops[p] # NoOp /\ ops[q] # NoOp => p = q

SetUp == {m \in Rooms : room[m] # "none"}

Taking(n, S, k) == Cardinality(Booked(n, S)) + k <= Cardinality(SetUp)

(* There are rooms left for what a handler is about to write.               *)
Fits(op) ==
    /\ op.kind = "reserve" =>
         \A n \in op.row.from .. op.row.to - 1 : Taking(n, Stays, op.count)
    /\ op.kind = "move" =>
         \A n \in op.from .. op.to - 1 : Taking(n, Stays \ {op.stay}, 1)

CountsHold == OneHandler /\ \A q \in Requests : Fits(ops[q])

CountInv == NeverOverbooked /\ (serial => CountsHold)

LEMMA CountOf ==
    ASSUME NEW A \in SUBSET Stays
    PROVE  IsFiniteSet(A) /\ Cardinality(A) \in Nat /\ Cardinality(A) <= Cardinality(Stays)
<1>1. IsFiniteSet(Stays)
  BY RoomAssumption, FS_Interval DEF Stays
<1>2. IsFiniteSet(A) /\ Cardinality(A) <= Cardinality(Stays)
  BY <1>1, FS_Subset
<1> QED
  BY <1>2, FS_CardinalityType

LEMMA CountOfRooms ==
    ASSUME NEW A \in SUBSET Rooms, NEW B \in SUBSET A
    PROVE  Cardinality(A) \in Nat /\ Cardinality(B) \in Nat /\ Cardinality(B) <= Cardinality(A)
<1>1. IsFiniteSet(Rooms) /\ IsFiniteSet(A) /\ IsFiniteSet(B)
  BY RoomAssumption, FS_Subset
<1>2. Cardinality(B) <= Cardinality(A)
  BY <1>1, FS_Subset
<1> QED
  BY <1>1, <1>2, FS_CardinalityType

LEMMA CountJoins ==
    ASSUME NEW A \in SUBSET Stays, NEW B \in SUBSET Stays, NEW C \in SUBSET (A \cup B)
    PROVE  Cardinality(C) <= Cardinality(A) + Cardinality(B)
<1>1. /\ IsFiniteSet(A) /\ IsFiniteSet(B) /\ Cardinality(A) \in Nat /\ Cardinality(B) \in Nat
  BY CountOf
<1>2. A \cup B \in SUBSET Stays /\ A \cap B \in SUBSET Stays
  OBVIOUS
<1>3. IsFiniteSet(A \cup B) /\ Cardinality(A \cup B) = Cardinality(A) + Cardinality(B) - Cardinality(A \cap B)
  BY <1>1, FS_Union
<1>4. Cardinality(C) <= Cardinality(A \cup B)
  BY <1>3, FS_Subset
<1>5. Cardinality(A \cap B) \in Nat /\ Cardinality(A \cup B) \in Nat /\ Cardinality(C) \in Nat
  <2>1. C \in SUBSET Stays
    OBVIOUS
  <2> QED
    BY <1>2, <2>1, CountOf
<1> QED
  BY <1>1, <1>3, <1>4, <1>5

Leaves(from, to, S, k) ==
    Available(from, to, S) >= k \/ (k = 1 /\ Available(from, to, S) > 0)

(* What the calendar of a type leaves for a period holds for each night.    *)
LEMMA AvailableEachNight ==
    ASSUME NEW from \in Nat, NEW to \in Nat, from < to, NEW S \in SUBSET Stays, NEW k \in Nat,
           Leaves(from, to, S, k)
    PROVE  \A n \in from .. to - 1 : Taking(n, S, k)
<1> DEFINE C == {Cardinality(Booked(n, S)) : n \in from .. to - 1}
<1>1. \A n : Booked(n, S) \in SUBSET Stays
  BY DEF Booked
<1>2. \A n : Cardinality(Booked(n, S)) \in Nat /\ Cardinality(Booked(n, S)) <= Cardinality(Stays)
  BY <1>1, CountOf
<1>3. Cardinality(Stays) \in Nat
  BY CountOf
<1>4. C \in SUBSET Nat /\ \A c \in C : c <= Cardinality(Stays)
  BY <1>2
<1>5. C # {}
  <2>1. from \in from .. to - 1
    OBVIOUS
  <2>2. Cardinality(Booked(from, S)) \in C
    BY <2>1
  <2> QED
    BY <2>2
<1>6. IsFiniteSet(C)
  <2> HIDE DEF C
  <2> QED
    BY <1>3, <1>4, FS_BoundedSetOfNaturals
<1>7. PICK c \in C : \A d \in C : d <= c
  <2> HIDE DEF C
  <2> QED
    BY <1>4, <1>5, <1>6, FiniteMax
<1>8. Max(C) \in Nat /\ \A d \in C : d <= Max(C)
  <2> HIDE DEF C
  <2>1. \A d \in C : c >= d
    BY <1>4, <1>7
  <2>2. Max(C) \in C /\ \A d \in C : Max(C) >= d
    BY <1>7, <2>1 DEF Max
  <2> QED
    BY <1>4, <2>2
<1>9. Cardinality(Sellable) <= Cardinality(SetUp) /\ Cardinality(SetUp) \in Nat /\ Cardinality(Sellable) \in Nat
  <2>1. Sellable \subseteq SetUp /\ SetUp \subseteq Rooms
    BY DEF Sellable, SetUp
  <2> QED
    BY <2>1, CountOfRooms
<1>10. Cardinality(Sellable) - Max(C) >= k
  <2>1. Cardinality(Sellable) - Max(C) >= k \/ (k = 1 /\ Cardinality(Sellable) - Max(C) > 0)
    BY DEF Leaves, Available
  <2> HIDE DEF C
  <2> QED
    BY <1>8, <1>9, <2>1
<1>11. ASSUME NEW n \in from .. to - 1 PROVE Cardinality(Booked(n, S)) + k <= Cardinality(SetUp)
  <2>1. Cardinality(Booked(n, S)) \in C
    OBVIOUS
  <2> HIDE DEF C
  <2>2. Cardinality(Booked(n, S)) <= Max(C) /\ Cardinality(Booked(n, S)) \in Nat
    BY <1>2, <1>8, <2>1
  <2> QED
    BY <1>8, <1>9, <1>10, <2>2
<1> QED
  BY <1>11 DEF Taking
(* Rows that are held no longer, or as before, and rooms that stay set up.  *)
LEMMA CountStays ==
    ASSUME RoomTypeOK, NeverOverbooked, serial' = serial,
           \A m \in Rooms : room[m] # "none" => room'[m] # "none",
           \A r \in Stays : stay'[r].status \in Held =>
               /\ stay[r].status \in Held
               /\ stay'[r].from = stay[r].from /\ stay'[r].to = stay[r].to
    PROVE  NeverOverbooked'
<1> SUFFICES ASSUME serial, NEW n \in 0 .. LastNight
             PROVE  Cardinality(Booked(n, Stays)') <= Cardinality(SetUp')
  BY DEF NeverOverbooked, Booked, SetUp
<1>1. Cardinality(Booked(n, Stays)) <= Cardinality(SetUp)
  BY DEF NeverOverbooked, SetUp
<1>2. Booked(n, Stays)' \subseteq Booked(n, Stays) /\ Booked(n, Stays) \subseteq Stays
  BY DEF Booked, Covers
<1>3. Cardinality(Booked(n, Stays)') <= Cardinality(Booked(n, Stays))
  <2> DEFINE A == Booked(n, Stays)
             B == Booked(n, Stays)'
  <2>1. B \subseteq A /\ A \subseteq Stays
    BY <1>2
  <2> HIDE DEF A, B
  <2>2. Cardinality(B) <= Cardinality(A)
    BY <2>1, CountOf, FS_Subset
  <2> QED
    BY <2>2 DEF A, B
<1>4. Cardinality(SetUp) <= Cardinality(SetUp') /\ Cardinality(SetUp) \in Nat /\ Cardinality(SetUp') \in Nat
  <2> DEFINE A == SetUp
             B == SetUp'
  <2>1. A \subseteq B /\ B \subseteq Rooms
    BY DEF SetUp
  <2> HIDE DEF A, B
  <2>2. Cardinality(A) <= Cardinality(B) /\ Cardinality(A) \in Nat /\ Cardinality(B) \in Nat
    BY <2>1, CountOfRooms
  <2> QED
    BY <2>2 DEF A, B
<1>5. Cardinality(Booked(n, Stays)) \in Nat /\ Cardinality(Booked(n, Stays)') \in Nat
  <2> DEFINE A == Booked(n, Stays)
             B == Booked(n, Stays)'
  <2>1. B \subseteq Stays /\ A \subseteq Stays
    BY <1>2
  <2> HIDE DEF A, B
  <2>2. Cardinality(B) \in Nat /\ Cardinality(A) \in Nat
    BY <2>1, CountOf
  <2> QED
    BY <2>2 DEF A, B
<1> QED
  BY <1>1, <1>3, <1>4, <1>5

(* A handler that was alone has ended.                                      *)
LEMMA CountEnds ==
    ASSUME RoomTypeOK, CountInv, NEW q \in Requests, ops[q] # NoOp, End(q), serial' = serial
    PROVE  serial => CountsHold'
<1> SUFFICES ASSUME serial PROVE CountsHold'
  OBVIOUS
<1>1. \A p \in Requests : ops'[p] = NoOp
  BY DEF RoomTypeOK, End, CountInv, CountsHold, OneHandler
<1> QED
  BY <1>1 DEF CountsHold, OneHandler, Fits, NoOp

(* Nobody is at work.                                                       *)
LEMMA CountCalm ==
    ASSUME Calm, UNCHANGED <<ops, serial>>
    PROVE  serial => CountsHold'
<1> SUFFICES ASSUME serial PROVE CountsHold'
  OBVIOUS
<1>1. \A p \in Requests : ops'[p] = NoOp
  BY DEF Calm
<1> QED
  BY <1>1 DEF CountsHold, OneHandler, Fits, NoOp

(* A handler begins with a count that leaves room for it.                   *)
LEMMA CountBegins ==
    ASSUME RoomTypeOK, CountInv, NEW q \in Requests, NEW op, Start(q, op), Fits(op),
           serial => \A p \in Requests \ {q} : ops[p] = NoOp,
           UNCHANGED <<stay, room, serial>>
    PROVE  CountInv'
<1>1. NeverOverbooked'
  BY CountStays DEF CountInv
<1>2. ASSUME serial PROVE CountsHold'
  <2>1. ops' = [ops EXCEPT ![q] = op] /\ ops \in [Requests -> RoomOp]
    BY DEF Start, RoomTypeOK
  <2>2. ops'[q] = op /\ \A p \in Requests \ {q} : ops'[p] = NoOp
    BY <1>2, <2>1
  <2>3. \A n, S, k : Taking(n, S, k) = Taking(n, S, k)'
    BY DEF Taking, Booked, SetUp
  <2>4. Fits(ops[q])'
    <3>1. op.kind = "reserve" =>
            \A n \in op.row.from .. op.row.to - 1 : Taking(n, Stays, op.count)'
      BY <2>3 DEF Fits
    <3>2. op.kind = "move" =>
            \A n \in op.from .. op.to - 1 : Taking(n, Stays \ {op.stay}, 1)'
      BY <2>3 DEF Fits
    <3> HIDE DEF Taking
    <3> QED
      BY <2>2, <3>1, <3>2 DEF Fits
  <2>5. \A p \in Requests \ {q} : Fits(ops[p])'
    BY <2>2 DEF Fits, NoOp
  <2> QED
    BY <2>2, <2>4, <2>5 DEF CountsHold, OneHandler
<1> QED
  BY <1>1, <1>2 DEF CountInv
LEMMA CountSame ==
    ASSUME RoomTypeOK, CountInv, UNCHANGED <<stay, room, ops, serial>>
    PROVE  CountInv'
<1>1. NeverOverbooked'
  BY CountStays DEF CountInv
<1>2. \A n, S, k : Taking(n, S, k) = Taking(n, S, k)'
  BY DEF Taking, Booked, SetUp
<1>3. ASSUME serial, NEW p \in Requests PROVE Fits(ops[p])'
  <2>1. Fits(ops[p]) /\ ops'[p] = ops[p]
    BY <1>3 DEF CountInv, CountsHold
  <2> DEFINE op == ops[p]
  <2>2. /\ op.kind = "reserve" =>
             \A n \in op.row.from .. op.row.to - 1 : Taking(n, Stays, op.count)'
        /\ op.kind = "move" =>
             \A n \in op.from .. op.to - 1 : Taking(n, Stays \ {op.stay}, 1)'
    BY <1>2, <2>1 DEF Fits
  <2> HIDE DEF Taking
  <2> QED
    BY <2>1, <2>2 DEF Fits
<1> QED
  BY <1>1, <1>3 DEF CountInv, CountsHold, OneHandler

(* The rows that are written in a night, besides those booked there.        *)
LEMMA CountWrites ==
    ASSUME NEW n, NEW S \in SUBSET Stays, NEW W \in SUBSET Stays,
           Taking(n, S, Cardinality(W)), room' = room,
           Booked(n, Stays)' \subseteq Booked(n, S) \cup W
    PROVE  Cardinality(Booked(n, Stays)') <= Cardinality(SetUp')
<1> DEFINE A == Booked(n, S)
           B == Booked(n, Stays)'
<1>1. A \subseteq Stays /\ B \subseteq A \cup W /\ Cardinality(A) + Cardinality(W) <= Cardinality(SetUp)
  BY DEF Booked, Taking
<1>2. Cardinality(SetUp) \in Nat /\ SetUp' = SetUp
  <2>1. SetUp \subseteq Rooms /\ SetUp' = SetUp
    BY DEF SetUp
  <2> QED
    BY <2>1, CountOfRooms
<1> HIDE DEF A, B
<1>3. B \subseteq Stays
  BY <1>1
<1>4. Cardinality(B) <= Cardinality(A) + Cardinality(W)
  BY <1>1, CountJoins
<1>5. Cardinality(A) \in Nat /\ Cardinality(B) \in Nat /\ Cardinality(W) \in Nat
  BY <1>1, <1>3, CountOf
<1>6. Cardinality(B) <= Cardinality(SetUp')
  BY <1>1, <1>2, <1>4, <1>5
<1> QED
  BY <1>6 DEF B

(* A night in which nothing new is held.                                    *)
LEMMA CountNight ==
    ASSUME NeverOverbooked, serial, NEW n \in 0 .. LastNight, room' = room,
           Booked(n, Stays)' \subseteq Booked(n, Stays)
    PROVE  Cardinality(Booked(n, Stays)') <= Cardinality(SetUp')
<1>1. {} \in SUBSET Stays /\ Cardinality({}) = 0
  BY FS_EmptySet
<1>2. Cardinality(Booked(n, Stays)) \in Nat
  <2>1. Booked(n, Stays) \subseteq Stays
    BY DEF Booked
  <2> QED
    BY <2>1, CountOf
<1>3. Taking(n, Stays, Cardinality({}))
  BY <1>1, <1>2 DEF NeverOverbooked, Taking, SetUp
<1>4. Booked(n, Stays)' \subseteq Booked(n, Stays) \cup {}
  OBVIOUS
<1> QED
  BY <1>1, <1>3, <1>4, CountWrites

(* The rows of a reservation: the nights they cover had room for them all.  *)
LEMMA ReserveCounts ==
    ASSUME RoomInv, CountInv, NEW q \in Requests, ReserveCommit(q)
    PROVE  CountInv'
<1>1. /\ ops[q].kind = "reserve" /\ ops[q] \in ReserveOp /\ End(q) /\ ops[q] # NoOp
      /\ UNCHANGED <<room, serial>>
  BY RoomOpOfKind DEF ReserveCommit, RoomInv, NoOp
<1>2. PICK W \in NextRows(ops[q].count) :
        stay' = [r \in Stays |-> IF r \in W THEN ops[q].row ELSE stay[r]]
  BY DEF ReserveCommit, Write
<1>3. W \subseteq Stays /\ Cardinality(W) = ops[q].count
  BY DEF NextRows, Unused
<1>4. serial => CountsHold'
  BY <1>1, CountEnds DEF RoomInv
<1>5. ASSUME serial, NEW n \in 0 .. LastNight
      PROVE  Cardinality(Booked(n, Stays)') <= Cardinality(SetUp')
  <2>1. CASE Covers(ops[q].row, n)
    <3>1. Fits(ops[q])
      BY <1>5 DEF CountInv, CountsHold
    <3>2. ops[q].row.from \in Int /\ ops[q].row.to \in Int
      BY <1>1, RoomAssumption DEF ReserveOp, NewRow, Days
    <3>3. n \in ops[q].row.from .. ops[q].row.to - 1
      BY <1>5, <2>1, <3>2 DEF Covers
    <3>4. Taking(n, Stays, Cardinality(W))
      BY <1>1, <1>3, <3>1, <3>3 DEF Fits
    <3>5. Booked(n, Stays)' \subseteq Booked(n, Stays) \cup W
      BY <1>2 DEF Booked
    <3> QED
      BY <1>1, <1>3, <3>4, <3>5, CountWrites
  <2>2. CASE ~Covers(ops[q].row, n)
    <3>1. Booked(n, Stays)' \subseteq Booked(n, Stays)
      BY <1>2, <2>2 DEF Booked
    <3> QED
      BY <1>1, <1>5, <3>1, CountNight DEF CountInv
  <2> QED
    BY <2>1, <2>2
<1> QED
  BY <1>1, <1>4, <1>5 DEF CountInv, NeverOverbooked, Booked, SetUp

(* New dates: each new night had room for the stay besides the others.      *)
LEMMA MoveCounts ==
    ASSUME RoomInv, CountInv, NEW q \in Requests, MoveCommit(q)
    PROVE  CountInv'
<1> DEFINE r == ops[q].stay
<1>1. /\ ops[q].kind = "move" /\ ops[q] \in MoveOp /\ End(q) /\ ops[q] # NoOp
      /\ UNCHANGED <<room, serial>>
      /\ stay' = [stay EXCEPT ![r].from = ops[q].from, ![r].to = ops[q].to]
  BY RoomOpOfKind DEF MoveCommit, RoomInv, NoOp, Write
<1>2. r \in Stays /\ ops[q].from \in Int /\ ops[q].to \in Int /\ stay \in [Stays -> StayRow]
  BY <1>1, RoomAssumption DEF MoveOp, Days, RoomInv, RoomTypeOK
<1>3. /\ stay'[r].from = ops[q].from /\ stay'[r].to = ops[q].to
      /\ \A s \in Stays \ {r} : stay'[s] = stay[s]
  <2> HIDE DEF r
  <2> QED
    BY <1>1, <1>2 DEF StayRow
<1>4. serial => CountsHold'
  BY <1>1, CountEnds DEF RoomInv
<1>5. ASSUME serial, NEW n \in 0 .. LastNight
      PROVE  Cardinality(Booked(n, Stays)') <= Cardinality(SetUp')
  <2> HIDE DEF r
  <2>1. CASE n \in ops[q].from .. ops[q].to - 1
    <3>1. Fits(ops[q])
      BY <1>5 DEF CountInv, CountsHold
    <3>2. {r} \in SUBSET Stays /\ Cardinality({r}) = 1
      BY <1>2, FS_Singleton
    <3>3. Taking(n, Stays \ {r}, Cardinality({r}))
      BY <1>1, <2>1, <3>1, <3>2 DEF Fits, r
    <3>4. Booked(n, Stays)' \subseteq Booked(n, Stays \ {r}) \cup {r}
      BY <1>3 DEF Booked
    <3>5. Stays \ {r} \in SUBSET Stays
      OBVIOUS
    <3> QED
      BY <1>1, <3>2, <3>3, <3>4, <3>5, CountWrites
  <2>2. CASE n \notin ops[q].from .. ops[q].to - 1
    <3>1. r \notin Booked(n, Stays)'
      BY <1>2, <1>3, <1>5, <2>2 DEF Booked, Covers
    <3>2. Booked(n, Stays)' \subseteq Booked(n, Stays)
      BY <1>3, <3>1 DEF Booked
    <3> QED
      BY <1>1, <1>5, <3>2, CountNight DEF CountInv
  <2> QED
    BY <2>1, <2>2
<1> QED
  BY <1>1, <1>4, <1>5 DEF CountInv, NeverOverbooked, Booked, SetUp
(* The desk acts on a stay that is held.                                    *)
LEMMA ActCounts ==
    ASSUME RoomInv, CountInv, NEW q \in Requests, ActCommit(q), serial
    PROVE  CountInv'
<1> DEFINE op == ops[q]
           r  == op.stay
           to == IF op.action = "assign_room" THEN stay[r].status ELSE Outcome[op.action]
           in == IF op.room = NoRoom THEN stay[r].room ELSE op.room
<1>1. /\ op.kind = "act" /\ op \in ActOp /\ End(q) /\ op # NoOp /\ serial' = serial
      /\ stay' = [stay EXCEPT ![r].status = to, ![r].room = in]
      /\ \A m \in Rooms : room'[m] \in {room[m], "occupied", "dirty"}
  BY RoomOpOfKind DEF ActCommit, RoomInv, NoOp, Write
<1>2. r \in Stays /\ stay \in [Stays -> StayRow] /\ op.was \in Held
  BY <1>1 DEF ActOp, RoomInv, RoomTypeOK
<1>3. stay[r].status \in Held
  BY <1>1, <1>2 DEF RoomInv, DeskInOrder, ReadsHold, Remembers, ActRemembers
<1>4. /\ stay'[r].from = stay[r].from /\ stay'[r].to = stay[r].to
      /\ \A s \in Stays \ {r} : stay'[s] = stay[s]
  <2> HIDE DEF r, to, in
  <2> QED
    BY <1>1, <1>2 DEF StayRow
<1>5. NeverOverbooked'
  <2>1. RoomTypeOK /\ NeverOverbooked
    BY DEF RoomInv, CountInv
  <2>2. \A m \in Rooms : room[m] # "none" => room'[m] # "none"
    BY <1>1
  <2> HIDE DEF r
  <2>3. \A s \in Stays : stay'[s].status \in Held =>
          stay[s].status \in Held /\ stay'[s].from = stay[s].from /\ stay'[s].to = stay[s].to
    BY <1>3, <1>4
  <2> QED
    BY <1>1, <2>1, <2>2, <2>3, CountStays
<1> QED
  BY <1>1, <1>5, CountEnds DEF RoomInv, CountInv

LEMMA BookingCounts ==
    ASSUME RoomInv, CountInv, NEW r \in Stays, NEW to \in {"confirmed", "cancelled"}, BookingActs(r, to)
    PROVE  CountInv'
<1>1. /\ stay' = [stay EXCEPT ![r].status = to] /\ stay[r].status \in Held
      /\ Calm /\ UNCHANGED <<room, ops, serial>>
  BY DEF BookingActs, Held
<1>2. stay \in [Stays -> StayRow]
  BY DEF RoomInv, RoomTypeOK
<1>3. \A s \in Stays : stay'[s].status \in Held =>
        stay[s].status \in Held /\ stay'[s].from = stay[s].from /\ stay'[s].to = stay[s].to
  BY <1>1, <1>2 DEF StayRow
<1> QED
  BY <1>1, <1>3, CountStays, CountCalm DEF RoomInv, CountInv

(* Nobody takes a room away again.                                          *)
LEMMA SetCounts ==
    ASSUME RoomInv, CountInv, NEW q \in Requests, SetCommit(q), serial
    PROVE  CountInv'
<1>1. /\ ops[q].kind = "set" /\ End(q) /\ ops[q] # NoOp /\ UNCHANGED <<stay, serial>>
      /\ room' = [room EXCEPT ![ops[q].room] = ops[q].to]
  BY DEF SetCommit, NoOp
<1>2. ops[q].to \in ByHand(room[ops[q].room]) \cup Housekeeping(room[ops[q].room])
  BY <1>1 DEF RoomInv, DeskInOrder, ReadsHold, Remembers, SetRemembers
<1>3. ops[q].to # "none"
  BY <1>2 DEF ByHand, Housekeeping, Closed
<1>4. \A m \in Rooms : room[m] # "none" => room'[m] # "none"
  BY <1>1, <1>3 DEF RoomInv, RoomTypeOK
<1> QED
  BY <1>1, <1>4, CountStays, CountEnds DEF RoomInv, CountInv

LEMMA ReserveReadCounts ==
    ASSUME RoomInv, CountInv, NEW q \in Requests, NEW from \in Days, NEW to \in Days, from < to,
           ReserveRead(q, from, to)
    PROVE  CountInv'
<1>1. PICK n \in 1 .. 2, m \in Rooms \cup {NoRoom}, status \in {"new", "confirmed"} :
        /\ Available(from, to, Stays) >= n
        /\ Start(q, [kind |-> "reserve", count |-> n,
                     row |-> [status |-> status, from |-> from, to |-> to, room |-> m]])
  BY DEF ReserveRead
<1> DEFINE op == [kind |-> "reserve", count |-> n,
                  row |-> [status |-> status, from |-> from, to |-> to, room |-> m]]
<1>2. from \in Nat /\ to \in Nat /\ n \in Nat
  BY RoomAssumption DEF Days
<1>3. \A d \in from .. to - 1 : Taking(d, Stays, n)
  <2>1. Leaves(from, to, Stays, n)
    BY <1>1 DEF Leaves
  <2> QED
    BY <1>2, <2>1, AvailableEachNight
<1>4. Fits(op)
  BY <1>3 DEF Fits
<1>5. /\ serial => \A p \in Requests \ {q} : ops[p] = NoOp
      /\ RoomTypeOK /\ UNCHANGED <<stay, room, serial>>
  <2>1. \A p \in Requests : ops[p] = NoOp \/ ops[p].kind \in {"reserve", "move", "act", "set"}
    BY DEF RoomInv, RoomTypeOK, RoomOp
  <2> QED
    BY <2>1 DEF ReserveRead, TypeLocked, RoomInv
<1>6. Start(q, op)
  BY <1>1
<1> HIDE DEF op
<1> QED
  BY <1>4, <1>5, <1>6, CountBegins

LEMMA MoveReadCounts ==
    ASSUME RoomInv, CountInv, NEW q \in Requests, NEW r \in Stays, NEW from \in Days, NEW to \in Days,
           from < to, MoveRead(q, r, from, to)
    PROVE  CountInv'
<1> DEFINE op == [kind |-> "move", stay |-> r, from |-> from, to |-> to]
<1>1. Available(from, to, Stays \ {r}) > 0 /\ Begin(q, op) /\ UNCHANGED <<stay, room, serial>>
  BY DEF MoveRead
<1>2. from \in Nat /\ to \in Nat /\ Stays \ {r} \in SUBSET Stays
  BY RoomAssumption DEF Days
<1>3. \A d \in from .. to - 1 : Taking(d, Stays \ {r}, 1)
  <2>1. Leaves(from, to, Stays \ {r}, 1)
    BY <1>1 DEF Leaves
  <2> QED
    BY <1>2, <2>1, AvailableEachNight
<1>4. Fits(op)
  BY <1>3 DEF Fits
<1> HIDE DEF op
<1> QED
  BY <1>1, <1>4, CountBegins DEF RoomInv, Begin, Turn
LEMMA CountBegun ==
    ASSUME RoomInv, CountInv, NEW q \in Requests, NEW op, Begin(q, op), op.kind \in {"act", "set"},
           UNCHANGED <<stay, room, serial>>
    PROVE  CountInv'
<1>1. Fits(op)
  BY DEF Fits
<1> QED
  BY <1>1, CountBegins DEF RoomInv, Begin, Turn

LEMMA CountStep == RoomInv /\ CountInv /\ [RoomNext]_roomVars => CountInv'
<1> SUFFICES ASSUME RoomInv, CountInv, [RoomNext]_roomVars PROVE CountInv'
  OBVIOUS
<1>0. RoomTypeOK
  BY DEF RoomInv
<1>1. CASE NextDay
  BY <1>0, <1>1, CountSame DEF NextDay
<1>2. ASSUME NEW m \in Rooms, CreateRoom(m) PROVE CountInv'
  <2>1. /\ room' = [room EXCEPT ![m] = "available"] /\ Calm /\ UNCHANGED <<stay, ops, serial>>
    BY <1>2 DEF CreateRoom
  <2>2. \A x \in Rooms : room[x] # "none" => room'[x] # "none"
    BY <1>0, <2>1 DEF RoomTypeOK
  <2> QED
    BY <1>0, <2>1, <2>2, CountStays, CountCalm DEF CountInv
<1>3. ASSUME NEW r \in Stays, NEW to \in {"confirmed", "cancelled"}, BookingActs(r, to) PROVE CountInv'
  BY <1>3, BookingCounts
<1>4. ASSUME NEW q \in Requests, NEW from \in Days, NEW to \in Days, from < to,
             ReserveRead(q, from, to) \/ \E r \in Stays : MoveRead(q, r, from, to)
      PROVE  CountInv'
  BY <1>4, ReserveReadCounts, MoveReadCounts
<1>5. ASSUME NEW q \in Requests, NEW r \in Stays, NEW action, ActRead(q, r, action)
      PROVE  CountInv'
  <2>1. PICK op : Begin(q, op) /\ op.kind = "act" /\ UNCHANGED <<stay, room, serial>>
    BY <1>5 DEF ActRead
  <2> QED
    BY <2>1, CountBegun
<1>6. ASSUME NEW q \in Requests, NEW m \in Rooms, NEW to, SetRead(q, m, to)
      PROVE  CountInv'
  <2>1. PICK op : Begin(q, op) /\ op.kind = "set" /\ UNCHANGED <<stay, room, serial>>
    BY <1>6 DEF SetRead
  <2> QED
    BY <2>1, CountBegun
<1>7. ASSUME NEW q \in Requests, ActCommit(q) \/ SetCommit(q) PROVE CountInv'
  <2>1. CASE serial
    BY <1>7, <2>1, ActCounts, SetCounts
  <2>2. CASE ~serial
    BY <1>7, <2>2 DEF ActCommit, SetCommit, CountInv, NeverOverbooked
  <2> QED
    BY <2>1, <2>2
<1>8. ASSUME NEW q \in Requests, RoomAbort(q) PROVE CountInv'
  <2>1. ops[q] # NoOp /\ End(q) /\ UNCHANGED <<stay, room, serial>>
    BY <1>8 DEF RoomAbort
  <2> QED
    BY <1>0, <2>1, CountStays, CountEnds DEF CountInv
<1>9. CASE UNCHANGED roomVars
  BY <1>0, <1>9, CountSame DEF roomVars
<1> QED
  BY <1>1, <1>2, <1>3, <1>4, <1>5, <1>6, <1>7, <1>8, <1>9, ReserveCounts, MoveCounts DEF RoomNext

LEMMA CountInitially == RoomInit => CountInv
<1> SUFFICES ASSUME RoomInit PROVE CountInv
  OBVIOUS
<1>1. \A n : Booked(n, Stays) = {}
  BY DEF RoomInit, RoomIdle, NoStay, Booked, Held
<1>2. \A m \in Rooms : room[m] = "none"
  BY DEF RoomInit, RoomIdle
<1>3. {m \in Rooms : room[m] # "none"} = {}
  BY <1>2
<1>4. NeverOverbooked
  BY <1>1, <1>3 , FS_EmptySet DEF NeverOverbooked
<1>5. \A q \in Requests : ops[q] = NoOp
  BY DEF RoomInit, TxInit
<1> QED
  BY <1>4, <1>5 DEF CountInv, CountsHold, OneHandler, Fits, NoOp

(* No night of a type has more stays than the type has rooms, while the     *)
(* handlers take turns: what availability counted still holds at the commit. *)
THEOREM NeverMoreStaysThanRooms == RoomSpec => []NeverOverbooked
<1>1. RoomInit => RoomInv /\ CountInv
  BY RoomInitially, CountInitially
<1>2. RoomInv /\ CountInv /\ [RoomNext]_roomVars => RoomInv' /\ CountInv'
  BY RoomStep, CountStep
<1>3. CountInv => NeverOverbooked
  BY DEF CountInv
<1> QED
  BY <1>1, <1>2, <1>3, PTL DEF RoomSpec

-----------------------------------------------------------------------------
(* FacilityBooking.                                                         *)

BookOp   == [kind : {"book"}, row : BookingRow]
DeleteOp == [kind : {"delete"}]
ApplyOp  == [kind : {"apply"}, booking : Bookings, action : DOMAIN BookingResult]

(* While handlers take turns, what the one at work has read still holds     *)
(* when it writes.                                                          *)
ReadHolds(q) ==
    /\ ops[q].kind = "book" => ~facility.deleted
    /\ ops[q].kind = "delete" => Upcoming = {}
    /\ ops[q].kind = "apply" /\ ops[q].action = "approve"
         => fbooking[ops[q].booking].status = "pending"
TurnsKept == serial => OneHandler /\ \A q \in Requests : ReadHolds(q)

(* What the exclusion constraint of bookings says of its rows.              *)
FacilityHeldOnce == Apart(fbooking, BookingHeld)

FacInv == FacTypeOK /\ FacilityHeldOnce /\ TurnsKept /\ DeletedHoldsNothing

LEMMA ResultTyped ==
    ASSUME NEW action \in DOMAIN BookingResult
    PROVE  BookingResult[action] \in BookingStatus
BY DEF BookingResult, BookingStatus, BookingHeld

LEMMA FacOpOfKind ==
    ASSUME FacTypeOK, NEW q \in Requests
    PROVE  /\ ops[q].kind = "book" => ops[q] \in BookOp
           /\ ops[q].kind = "delete" => ops[q] \in DeleteOp
           /\ ops[q].kind = "apply" => ops[q] \in ApplyOp
BY DEF FacTypeOK, FacOp, NoOp, BookOp, DeleteOp, ApplyOp

(* A handler that begins finds no other one at work.                        *)
LEMMA BeginTurn ==
    ASSUME FacTypeOK, TurnsKept, NEW q \in Requests, NEW op \in FacOp, Begin(q, op),
           UNCHANGED <<facility, fbooking, now, serial>>,
           op.kind = "book" => ~facility.deleted,
           op.kind = "delete" => Upcoming = {},
           op.kind = "apply" /\ op.action = "approve" => fbooking[op.booking].status = "pending"
    PROVE  ops' \in [Requests -> FacOp] /\ TurnsKept'
<1>1. ops \in [Requests -> FacOp] /\ ops' = [ops EXCEPT ![q] = op]
  BY DEF FacTypeOK, Begin, Start
<1>2. serial' = serial /\ (serial => \A p \in Requests \ {q} : ops[p] = NoOp)
  BY DEF Begin, Turn
<1>3. ASSUME serial, NEW p \in Requests PROVE ReadHolds(p)'
  BY <1>1, <1>2, <1>3 DEF ReadHolds, TurnsKept, Upcoming
<1> QED
  BY <1>1, <1>2, <1>3 DEF TurnsKept, OneHandler

(* A handler that ends leaves nobody at work, whatever it wrote.            *)
LEMMA EndTurn ==
    ASSUME FacTypeOK, TurnsKept, NEW q \in Requests, ops[q] # NoOp, End(q), serial' = serial
    PROVE  ops' \in [Requests -> FacOp] /\ TurnsKept'
<1>1. /\ ops \in [Requests -> FacOp] /\ ops' = [ops EXCEPT ![q] = NoOp] /\ NoOp \in FacOp
  BY DEF FacTypeOK, End, FacOp
<1>2. ASSUME serial, NEW p \in Requests PROVE ops'[p] = NoOp
  BY <1>1, <1>2 DEF TurnsKept, OneHandler
<1>3. ASSUME serial, NEW p \in Requests PROVE ReadHolds(p)'
  BY <1>2, <1>3 DEF ReadHolds, NoOp
<1>4. serial => OneHandler'
  BY <1>2 DEF OneHandler
<1> QED
  BY <1>1, <1>3, <1>4 DEF TurnsKept

LEMMA FacInitially == FacInit => FacInv
<1> SUFFICES ASSUME FacInit PROVE FacInv
  OBVIOUS
<1>0. LastSlot \in Nat
  BY FacilityAssumption
<1>1. FacTypeOK
  BY <1>0 DEF FacInit, FacIdle, TxInit, FacTypeOK, BookingRow, BookingStatus, Slots, FacOp
<1>2. FacilityHeldOnce /\ DeletedHoldsNothing
  BY DEF FacInit, FacIdle, FacilityHeldOnce, BookingHeld, Apart, DeletedHoldsNothing
<1>3. TurnsKept
  BY DEF FacInit, TxInit, TurnsKept, OneHandler, ReadHolds, NoOp
<1> QED
  BY <1>1, <1>2, <1>3 DEF FacInv

LEMMA FacStep == FacInv /\ [FacNext]_facVars => FacInv'
<1> SUFFICES ASSUME FacInv, [FacNext]_facVars PROVE FacInv'
  OBVIOUS
<1>0. LastSlot \in Nat /\ FacTypeOK /\ FacilityHeldOnce /\ TurnsKept /\ DeletedHoldsNothing
  BY FacilityAssumption DEF FacInv
<1> USE DEF FacInv
<1>1. CASE Clock
  <2>1. /\ now' = now + 1 /\ now' \in Slots /\ now \in Slots
        /\ UNCHANGED <<facility, closures, fbooking, ops, serial>>
    BY <1>0, <1>1 DEF Clock, Slots, FacTypeOK
  <2>2. Upcoming' \subseteq Upcoming
    BY <1>0, <2>1 DEF Upcoming, Slots, FacTypeOK, BookingRow
  <2>3. TurnsKept'
    BY <1>0, <2>1, <2>2 DEF TurnsKept, OneHandler, ReadHolds
  <2>4. DeletedHoldsNothing'
    BY <1>0, <2>1, <2>2 DEF DeletedHoldsNothing
  <2> QED
    BY <1>0, <2>1, <2>3, <2>4 DEF FacTypeOK, FacilityHeldOnce
<1>2. CASE UpdateFacility
  <2>1. PICK open, approval \in BOOLEAN :
          facility' = [facility EXCEPT !.open = open, !.approval = approval]
    BY <1>2 DEF UpdateFacility
  <2>2. /\ facility' \in [open : BOOLEAN, approval : BOOLEAN, deleted : BOOLEAN]
        /\ facility'.deleted = facility.deleted
        /\ UNCHANGED <<closures, fbooking, now, ops, serial>>
    BY <1>0, <1>2, <2>1 DEF FacTypeOK, UpdateFacility
  <2> QED
    BY <1>0, <2>2 DEF FacTypeOK, FacilityHeldOnce, TurnsKept, OneHandler, ReadHolds,
                      Upcoming, DeletedHoldsNothing
<1>3. CASE \E c \in closures : DeleteSchedule(c)
  BY <1>0, <1>3 DEF DeleteSchedule, FacTypeOK, FacilityHeldOnce, TurnsKept, OneHandler, ReadHolds,
                    Upcoming, DeletedHoldsNothing
<1>4. ASSUME NEW from \in Slots, NEW to \in Slots, AddSchedule(from, to) PROVE FacInv'
  BY <1>0, <1>4 DEF AddSchedule, FacTypeOK, FacilityHeldOnce, TurnsKept, OneHandler, ReadHolds,
                    Upcoming, DeletedHoldsNothing
<1>5. ASSUME NEW from \in Slots, NEW to \in Slots, NEW q \in Requests, BookRead(q, from, to)
      PROVE  FacInv'
  <2> DEFINE row == [status |-> IF facility.approval THEN "pending" ELSE "confirmed",
                     from |-> from, to |-> to]
             op == [kind |-> "book", row |-> row]
  <2>1. op \in FacOp
    BY DEF FacOp, BookingRow, BookingStatus, BookingHeld
  <2>2. /\ Begin(q, op) /\ op.kind = "book" /\ ~facility.deleted
        /\ UNCHANGED <<facility, closures, fbooking, now, serial>>
    BY <1>5 DEF BookRead
  <2>3. ops' \in [Requests -> FacOp] /\ TurnsKept'
    <3> HIDE DEF op
    <3> QED
      BY <1>0, <2>1, <2>2, BeginTurn
  <2> QED
    BY <1>0, <2>2, <2>3 DEF FacTypeOK, FacilityHeldOnce, Upcoming, DeletedHoldsNothing
<1>6. ASSUME NEW q \in Requests, BookCommit(q) PROVE FacInv'
  <2>1. /\ ops[q].kind = "book" /\ ops[q] \in BookOp /\ End(q) /\ ops[q] # NoOp
        /\ UNCHANGED <<facility, closures, now, serial>>
    BY <1>0, <1>6, FacOpOfKind DEF BookCommit, NoOp
  <2>2. PICK b \in Bookings : BookingWrite([fbooking EXCEPT ![b] = ops[q].row])
    BY <1>6 DEF BookCommit
  <2>3. fbooking' \in [Bookings -> BookingRow]
    BY <1>0, <2>1, <2>2 DEF BookingWrite, FacTypeOK, BookOp
  <2>4. FacilityHeldOnce'
    BY <2>2 DEF BookingWrite, FacilityHeldOnce, BookingHeld
  <2>5. ops' \in [Requests -> FacOp] /\ TurnsKept'
    BY <1>0, <2>1, EndTurn
  <2>6. serial => ~facility.deleted
    BY <1>0, <2>1 DEF TurnsKept, ReadHolds
  <2> QED
    BY <1>0, <2>1, <2>3, <2>4, <2>5, <2>6 DEF FacTypeOK, DeletedHoldsNothing
<1>7. ASSUME NEW q \in Requests, NEW b \in Bookings, NEW action \in DOMAIN BookingResult,
             BookingActRead(q, b, action)
      PROVE  FacInv'
  <2> DEFINE op == [kind |-> "apply", booking |-> b, action |-> action]
  <2>1. op \in FacOp
    BY DEF FacOp
  <2>2. Begin(q, op) /\ UNCHANGED <<facility, closures, fbooking, now, serial>>
    BY <1>7 DEF BookingActRead
  <2>3. action = "approve" => fbooking[b].status = "pending"
    <3>1. action \in StaffActions(b) \cup TenantActions(b)
      BY <1>7 DEF BookingActRead
    <3>2. "approve" \notin TenantActions(b)
      BY DEF TenantActions
    <3>3. "approve" \in StaffActions(b) => fbooking[b].status = "pending"
      BY DEF StaffActions
    <3> QED
      BY <3>1, <3>2, <3>3
  <2>4. ops' \in [Requests -> FacOp] /\ TurnsKept'
    BY <1>0, <2>1, <2>2, <2>3, BeginTurn
  <2> QED
    BY <1>0, <2>2, <2>4 DEF FacTypeOK, FacilityHeldOnce, Upcoming, DeletedHoldsNothing
<1>8. ASSUME NEW q \in Requests, BookingActCommit(q) PROVE FacInv'
  <2> DEFINE b == ops[q].booking
             to == BookingResult[ops[q].action]
  <2>1. /\ ops[q].kind = "apply" /\ ops[q] \in ApplyOp /\ End(q) /\ ops[q] # NoOp
        /\ UNCHANGED <<facility, closures, now, serial>>
        /\ BookingWrite([fbooking EXCEPT ![b].status = to])
    BY <1>0, <1>8, FacOpOfKind DEF BookingActCommit, NoOp
  <2>2. b \in Bookings /\ ops[q].action \in DOMAIN BookingResult
    BY <2>1 DEF ApplyOp
  <2>3. to \in BookingStatus
    BY <2>2, ResultTyped
  <2>4. fbooking' = [fbooking EXCEPT ![b].status = to] /\ FacilityHeldOnce'
    BY <2>1 DEF BookingWrite, FacilityHeldOnce, BookingHeld
  <2>5. fbooking' \in [Bookings -> BookingRow]
    BY <1>0, <2>2, <2>3, <2>4 DEF FacTypeOK, BookingRow
  <2>6. ops' \in [Requests -> FacOp] /\ TurnsKept'
    BY <1>0, <2>1, EndTurn
  <2>7. serial => Upcoming' \subseteq Upcoming
    <3>1. /\ fbooking'[b].status = to /\ fbooking'[b].from = fbooking[b].from
          /\ \A c \in Bookings : c # b => fbooking'[c] = fbooking[c]
      BY <1>0, <2>2, <2>4 DEF FacTypeOK, BookingRow
    <3>2. to \in {"pending", "confirmed"} => ops[q].action = "approve"
      BY <2>2 DEF BookingResult
    <3>3. serial /\ ops[q].action = "approve" => fbooking[b].status = "pending"
      BY <1>0, <2>1 DEF TurnsKept, ReadHolds
    <3> HIDE DEF b, to
    <3> QED
      BY <2>1, <3>1, <3>2, <3>3 DEF Upcoming
  <2> QED
    BY <1>0, <2>1, <2>4, <2>5, <2>6, <2>7 DEF FacTypeOK, DeletedHoldsNothing
<1>9. ASSUME NEW q \in Requests, DeleteRead(q) PROVE FacInv'
  <2> DEFINE op == [kind |-> "delete"]
  <2>1. op \in FacOp /\ Begin(q, op) /\ Upcoming = {}
        /\ UNCHANGED <<facility, closures, fbooking, now, serial>>
    BY <1>9 DEF DeleteRead, FacOp
  <2>2. ops' \in [Requests -> FacOp] /\ TurnsKept'
    BY <1>0, <2>1, BeginTurn
  <2> QED
    BY <1>0, <2>1, <2>2 DEF FacTypeOK, FacilityHeldOnce, Upcoming, DeletedHoldsNothing
<1>10. ASSUME NEW q \in Requests, DeleteCommit(q) PROVE FacInv'
  <2>1. /\ ops[q].kind = "delete" /\ End(q) /\ ops[q] # NoOp
        /\ facility' = [facility EXCEPT !.deleted = TRUE, !.open = FALSE]
        /\ UNCHANGED <<closures, fbooking, now, serial>>
    BY <1>10 DEF DeleteCommit, NoOp
  <2>2. ops' \in [Requests -> FacOp] /\ TurnsKept'
    BY <1>0, <2>1, EndTurn
  <2>3. serial => Upcoming' = {}
    BY <1>0, <2>1 DEF TurnsKept, ReadHolds, Upcoming
  <2>4. facility' \in [open : BOOLEAN, approval : BOOLEAN, deleted : BOOLEAN]
    BY <1>0, <2>1 DEF FacTypeOK
  <2> QED
    BY <1>0, <2>1, <2>2, <2>3, <2>4 DEF FacTypeOK, FacilityHeldOnce, DeletedHoldsNothing
<1>11. ASSUME NEW q \in Requests, FacAbort(q) PROVE FacInv'
  <2>1. ops[q] # NoOp /\ End(q) /\ UNCHANGED <<facility, closures, fbooking, now, serial>>
    BY <1>11 DEF FacAbort
  <2>2. ops' \in [Requests -> FacOp] /\ TurnsKept'
    BY <1>0, <2>1, EndTurn
  <2> QED
    BY <1>0, <2>1, <2>2 DEF FacTypeOK, FacilityHeldOnce, Upcoming, DeletedHoldsNothing
<1>12. CASE UNCHANGED facVars
  BY <1>0, <1>12 DEF facVars, FacTypeOK, FacilityHeldOnce, TurnsKept, OneHandler, ReadHolds,
                     Upcoming, DeletedHoldsNothing
<1> QED
  BY <1>1, <1>2, <1>3, <1>4, <1>5, <1>6, <1>7, <1>8, <1>9, <1>10, <1>11, <1>12 DEF FacNext

(* Every row keeps its type, however the handlers of a facility overlap.    *)
THEOREM FacilityTyped == FacSpec => []FacTypeOK
<1>1. FacInv => FacTypeOK
  BY DEF FacInv
<1> QED
  BY FacInitially, FacStep, <1>1, PTL DEF FacSpec

(* While handlers take turns, a facility is deleted only when nobody waits  *)
(* for a slot, and no action brings a booking back that has yet to begin.   *)
THEOREM NothingOwed == FacSpec => []DeletedHoldsNothing
<1>1. FacInv => DeletedHoldsNothing
  BY DEF FacInv
<1> QED
  BY FacInitially, FacStep, <1>1, PTL DEF FacSpec

-----------------------------------------------------------------------------
(* UnitDesk.                                                                *)

ListingOp == [kind : {"listing"}, row : Listings, to : ListingStatus]
OfferOp   == [kind : {"offer"}, row : Offers, to : ListingStatus]
LeadOp    == [kind : {"lead"}, row : Leads, to : LeadStatus]
SellOp    == [kind : {"sell"}, row : [status : {"reserved"}, listing : Listings, lead : Leads]]
SaleOp    == [kind : {"sale"}, row : Sales, to : SaleStatus]
RentOp    == [kind : {"rent"}, row : [status : {"new", "reserved"}, offer : Offers, from : Months, to : Months]]
PeriodOp  == [kind : {"period"}, row : Rentals, from : Months, to : Months]
RentalOp  == [kind : {"rental"}, row : Rentals, to : RentalStatus, was : RentalStatus]

Pledged  == {"reserved", "contract_signed"}
Closing  == {"sold", "handed_over"}
Promised == {"reserved", "sold"}

SaleHas(s, S) == s \in Sales /\ sale[s].status \in S

(* Rows that were inserted refer to a listing, a lead, an offer.            *)
RowsRefer ==
    /\ \A s \in Sales : sale[s].status # "none" => sale[s].listing \in Listings /\ sale[s].lead \in Leads
    /\ \A r \in Rentals : rental[r].status # "none" => rental[r].offer \in Offers

ListingsTell ==
    \A l \in Listings :
        /\ listing[l].status = "reserved" <=> \E s \in Sales : SaleHas(s, Pledged) /\ sale[s].listing = l
        /\ listing[l].status = "sold" <=> \E s \in Sales : SaleHas(s, Closing) /\ sale[s].listing = l
LeadsTell ==
    \A d \in Leads :
        /\ lead[d].status = "reserved" <=> \E s \in Sales : SaleHas(s, Pledged) /\ sale[s].lead = d
        /\ lead[d].status = "sold" <=> \E s \in Sales : SaleHas(s, Closing) /\ sale[s].lead = d
OffersStand ==
    \A r \in Rentals : rental[r].status \in RentalHeld => offer[rental[r].offer].status \in {"draft", "published"}
TenantTells ==
    /\ AtMostOne(rental, {"active"})
    /\ unit.occ = "vacant" => unit.tenant = Nobody
    /\ \A r \in Rentals : rental[r].status = "active" =>
         unit.tenant = Renter(r) \/ \E s \in Sales : SaleHas(s, {"handed_over"})

DeskBooks == RowsRefer /\ ListingsTell /\ LeadsTell /\ OffersStand /\ TenantTells

(* What a handler of a desk has read still holds when it writes.            *)
DeskRemembers(op) ==
    /\ op.kind = "listing" => listing[op.row].status \notin Promised
    /\ op.kind = "lead"    => lead[op.row].status \notin Promised /\ op.to \notin Promised
    /\ op.kind = "sell"    => /\ lead[op.row.lead].status \notin Promised
                              /\ listing[op.row.listing].status = "published"
    /\ op.kind = "sale"    => op.to \in SaleTargets(sale[op.row].status)
    /\ op.kind = "offer"   => /\ op.to \in {"draft", "published", "archived"}
                              /\ op.to = "archived" => Archivable(op.row)
    /\ op.kind = "rent" /\ op.row.status = "reserved" => offer[op.row.offer].status = "published"
    /\ op.kind = "rental"  =>
         /\ op.to \in RentalTargets(rental[op.row].status)
         /\ op.to = "reserved" => offer[rental[op.row].offer].status = "published"
         /\ op.to = "active" => Activatable(op.row)

DeskTurns == OneHandler /\ \A q \in Requests : DeskRemembers(ops[q])

(* What the unique index of sales and the exclusion constraint of rentals   *)
(* say of their rows.                                                       *)
UnitHeldOnce == SaleIndex(sale) /\ Apart(rental, RentalHeld)

DeskInv == UnitTypeOK /\ UnitHeldOnce /\ (serial => DeskBooks /\ DeskTurns)

LEMMA DeskOpOfKind ==
    ASSUME UnitTypeOK, NEW q \in Requests
    PROVE  /\ ops[q].kind = "listing" => ops[q] \in ListingOp
           /\ ops[q].kind = "offer" => ops[q] \in OfferOp
           /\ ops[q].kind = "lead" => ops[q] \in LeadOp
           /\ ops[q].kind = "sell" => ops[q] \in SellOp
           /\ ops[q].kind = "sale" => ops[q] \in SaleOp
           /\ ops[q].kind = "rent" => ops[q] \in RentOp
           /\ ops[q].kind = "period" => ops[q] \in PeriodOp
           /\ ops[q].kind = "rental" => ops[q] \in RentalOp
           /\ ops[q].kind # "none" => ops[q] # NoOp
BY DEF UnitTypeOK, UnitOp, NoOp, ListingOp, OfferOp, LeadOp, SellOp, SaleOp, RentOp, PeriodOp, RentalOp

(* A handler that begins changes no row.                                    *)
LEMMA DeskBegin ==
    ASSUME DeskInv, NEW q \in Requests, NEW op \in UnitOp, Begin(q, op), DeskRemembers(op),
           UNCHANGED <<unit, listing, lead, sale, offer, rental, serial>>
    PROVE  DeskInv'
<1>1. ops \in [Requests -> UnitOp] /\ ops' = [ops EXCEPT ![q] = op]
  BY DEF DeskInv, UnitTypeOK, Begin, Start
<1>2. UnitTypeOK'
  BY <1>1 DEF DeskInv, UnitTypeOK
<1>3. UnitHeldOnce'
  BY DEF DeskInv, UnitHeldOnce
<1>4. ASSUME serial PROVE DeskBooks' /\ DeskTurns'
  <2>1. DeskBooks'
    BY <1>4 DEF DeskInv, DeskBooks, RowsRefer, ListingsTell, LeadsTell, OffersStand, TenantTells, SaleHas
  <2>2. \A p \in Requests \ {q} : ops[p] = NoOp
    BY <1>4 DEF Begin, Turn
  <2>3. \A p \in Requests : ops'[p] = IF p = q THEN op ELSE NoOp
    BY <1>1, <2>2
  <2>4. ASSUME NEW p \in Requests PROVE DeskRemembers(ops[p])'
    <3>1. CASE p = q
      <4>1. ops'[p] = op
        BY <1>1, <3>1
      <4> QED
        BY <4>1 DEF DeskRemembers, Archivable, Activatable
    <3>2. CASE p # q
      BY <2>3, <3>2 DEF DeskRemembers, NoOp
    <3> QED
      BY <3>1, <3>2
  <2> QED
    BY <2>1, <2>3, <2>4 DEF DeskTurns, OneHandler
<1> QED
  BY <1>2, <1>3, <1>4 DEF DeskInv

(* Nobody is at work after a handler has ended.                             *)
LEMMA DeskEnd ==
    ASSUME DeskInv, NEW q \in Requests, ops[q] # NoOp, End(q), serial' = serial
    PROVE  ops' \in [Requests -> UnitOp] /\ (serial => DeskTurns')
<1>1. ops \in [Requests -> UnitOp] /\ ops' = [ops EXCEPT ![q] = NoOp] /\ NoOp \in UnitOp
  BY DEF DeskInv, UnitTypeOK, End, UnitOp
<1>2. ASSUME serial, NEW p \in Requests PROVE ops'[p] = NoOp
  BY <1>1, <1>2 DEF DeskInv, DeskTurns, OneHandler
<1>3. ASSUME serial, NEW p \in Requests PROVE DeskRemembers(ops[p])'
  BY <1>2, <1>3 DEF DeskRemembers, NoOp
<1> QED
  BY <1>1, <1>2, <1>3 DEF DeskTurns, OneHandler

(* Nor while a row is created.                                              *)
LEMMA DeskCalm ==
    ASSUME DeskInv, Calm, UNCHANGED <<ops, serial>>
    PROVE  ops' \in [Requests -> UnitOp] /\ (serial => DeskTurns')
<1>1. ASSUME serial, NEW p \in Requests PROVE ops'[p] = NoOp
  BY <1>1 DEF Calm
<1>2. ASSUME serial, NEW p \in Requests PROVE DeskRemembers(ops[p])'
  BY <1>1, <1>2 DEF DeskRemembers, NoOp
<1> QED
  BY <1>1, <1>2 DEF DeskInv, UnitTypeOK, DeskTurns, OneHandler

LEMMA DeskInitially == UnitInit => DeskInv
<1> SUFFICES ASSUME UnitInit PROVE DeskInv
  OBVIOUS
<1>0. LastMonth \in Nat
  BY UnitAssumption
<1>1. UnitTypeOK
  BY <1>0 DEF UnitInit, UnitIdle, TxInit, UnitTypeOK, SaleRow, RentalRow, SaleStatus, RentalStatus,
              ListingStatus, LeadStatus, Months, UnitOp
<1>2. UnitHeldOnce
  BY DEF UnitInit, UnitIdle, UnitHeldOnce, SaleIndex, AtMostOne, SaleHeld, Apart, RentalHeld
<1>3. DeskBooks
  BY DEF UnitInit, UnitIdle, DeskBooks, RowsRefer, ListingsTell, LeadsTell, OffersStand, TenantTells,
         SaleHas, Pledged, Closing, RentalHeld, AtMostOne
<1>4. DeskTurns
  BY DEF UnitInit, TxInit, DeskTurns, OneHandler, DeskRemembers, NoOp
<1> QED
  BY <1>1, <1>2, <1>3, <1>4 DEF DeskInv

(* A listing or a lead that belongs to no sale changes.                     *)
LEMMA ListingKept ==
    ASSUME DeskInv, serial, NEW l \in Listings,
           listing[l].status \notin Promised, listing'[l].status \notin Promised,
           \A k \in Listings \ {l} : listing'[k] = listing[k],
           UNCHANGED <<unit, lead, sale, offer, rental>>
    PROVE  DeskBooks'
<1>1. DeskBooks
  BY DEF DeskInv
<1>2. ListingsTell'
  BY <1>1 DEF DeskBooks, ListingsTell, SaleHas, Promised
<1> QED
  BY <1>1, <1>2 DEF DeskBooks, RowsRefer, LeadsTell, OffersStand, TenantTells, SaleHas

LEMMA LeadKept ==
    ASSUME DeskInv, serial, NEW d \in Leads,
           lead[d].status \notin Promised, lead'[d].status \notin Promised,
           \A k \in Leads \ {d} : lead'[k] = lead[k],
           UNCHANGED <<unit, listing, sale, offer, rental>>
    PROVE  DeskBooks'
<1>1. DeskBooks
  BY DEF DeskInv
<1>2. LeadsTell'
  BY <1>1 DEF DeskBooks, LeadsTell, SaleHas, Promised
<1> QED
  BY <1>1, <1>2 DEF DeskBooks, RowsRefer, ListingsTell, OffersStand, TenantTells, SaleHas

LEMMA OfferKept ==
    ASSUME DeskInv, serial, NEW o \in Offers,
           offer'[o].status \in {"draft", "published"} \/ Archivable(o),
           \A k \in Offers \ {o} : offer'[k] = offer[k],
           UNCHANGED <<unit, listing, sale, lead, rental>>
    PROVE  DeskBooks'
<1>1. DeskBooks
  BY DEF DeskInv
<1>2. OffersStand'
  <2> SUFFICES ASSUME NEW r \in Rentals, rental[r].status \in RentalHeld
               PROVE  offer'[rental[r].offer].status \in {"draft", "published"}
    BY DEF OffersStand
  <2>1. rental[r].offer \in Offers /\ offer[rental[r].offer].status \in {"draft", "published"}
    BY <1>1 DEF DeskBooks, OffersStand, RowsRefer, RentalHeld
  <2>2. rental[r].offer = o => ~Archivable(o)
    BY DEF Archivable
  <2> QED
    BY <2>1, <2>2
<1> QED
  BY <1>1, <1>2 DEF DeskBooks, RowsRefer, ListingsTell, LeadsTell, TenantTells, SaleHas

(* A new sale: its listing was published and its lead free.                 *)
LEMMA SaleOpens ==
    ASSUME DeskInv, serial, NEW s \in Sales, NEW l \in Listings, NEW d \in Leads,
           sale[s].status = "none",
           sale'[s] = [status |-> "reserved", listing |-> l, lead |-> d],
           \A t \in Sales \ {s} : sale'[t] = sale[t],
           listing[l].status = "published", listing'[l].status = "reserved",
           \A k \in Listings \ {l} : listing'[k] = listing[k],
           lead[d].status \notin Promised, lead'[d].status = "reserved",
           \A k \in Leads \ {d} : lead'[k] = lead[k],
           unit'.occ = "reserved", unit'.tenant = unit.tenant,
           UNCHANGED <<offer, rental>>
    PROVE  DeskBooks'
<1>1. DeskBooks
  BY DEF DeskInv
<1>2. /\ sale'[s].status = "reserved" /\ sale'[s].listing = l /\ sale'[s].lead = d
  OBVIOUS
<1>3. RowsRefer' /\ OffersStand'
  BY <1>1, <1>2 DEF DeskBooks, RowsRefer, OffersStand
<1>4. ASSUME NEW t \in Sales
      PROVE  /\ SaleHas(t, Pledged)' <=> t = s \/ SaleHas(t, Pledged)
             /\ SaleHas(t, Closing)' <=> SaleHas(t, Closing)
             /\ SaleHas(t, {"handed_over"})' <=> SaleHas(t, {"handed_over"})
             /\ t # s => sale'[t].listing = sale[t].listing /\ sale'[t].lead = sale[t].lead
             /\ t = s => ~SaleHas(t, Pledged) /\ ~SaleHas(t, Closing)
  BY <1>2 DEF SaleHas, Pledged, Closing
<1>5. ListingsTell'
  BY <1>1, <1>2, <1>4 DEF DeskBooks, ListingsTell
<1>6. LeadsTell'
  BY <1>1, <1>2, <1>4 DEF DeskBooks, LeadsTell, Promised
<1>7. TenantTells'
  BY <1>1, <1>4 DEF DeskBooks, TenantTells
<1> QED
  BY <1>3, <1>5, <1>6, <1>7 DEF DeskBooks

(* A sale moves on: it is signed, closed, handed over or given back.        *)
LEMMA SaleMoves ==
    ASSUME DeskInv, serial, NEW s \in Sales, NEW to, to \in SaleTargets(sale[s].status),
           sale'[s].status = to, sale'[s].listing = sale[s].listing, sale'[s].lead = sale[s].lead,
           \A t \in Sales \ {s} : sale'[t] = sale[t],
           \A k \in Listings : listing'[k].status = IF k = sale[s].listing THEN ListingAfter(to, listing[k].status)
                                                                          ELSE listing[k].status,
           \A k \in Leads : lead'[k].status = IF k = sale[s].lead THEN LeadAfter(to, lead[k].status)
                                                                 ELSE lead[k].status,
           unit' = UnitAfter(s, to),
           UNCHANGED <<offer, rental>>
    PROVE  DeskBooks'
<1> DEFINE l == sale[s].listing
           d == sale[s].lead
<1>1. DeskBooks /\ SaleIndex(sale) /\ DOMAIN sale = Sales /\ unit \in [occ : {"vacant", "reserved", "occupied"}, tenant : {unit.tenant}]
  BY DEF DeskInv, UnitHeldOnce, UnitTypeOK
<1>2. /\ sale[s].status \in SaleHeld /\ to \in {"contract_signed", "sold", "cancelled", "handed_over"}
      /\ sale[s].status \in Pledged => to \in {"contract_signed", "sold", "cancelled"}
      /\ sale[s].status = "sold" => to = "handed_over"
      /\ SaleHeld = Pledged \cup {"sold"}
  BY DEF SaleTargets, SaleHeld, Pledged
<1>3. l \in Listings /\ d \in Leads
  BY <1>1, <1>2 DEF DeskBooks, RowsRefer, SaleHeld
<1>4. \A t \in Sales \ {s} : sale[t].status \notin SaleHeld
  BY <1>1, <1>2 DEF SaleIndex, AtMostOne
<1>5. RowsRefer' /\ OffersStand'
  BY <1>1, <1>2, <1>3 DEF DeskBooks, RowsRefer, OffersStand
<1>6. ASSUME NEW t \in Sales
      PROVE  /\ SaleHas(t, Pledged) => t = s
             /\ SaleHas(t, Pledged)' <=> t = s /\ to = "contract_signed"
             /\ t # s => (SaleHas(t, Closing)' <=> SaleHas(t, Closing))
             /\ SaleHas(s, Closing)' <=> to \in Closing
             /\ SaleHas(s, Closing) <=> sale[s].status = "sold"
             /\ SaleHas(s, Pledged) <=> sale[s].status \in Pledged
             /\ SaleHas(t, {"handed_over"}) => SaleHas(t, {"handed_over"})'
             /\ sale'[t].listing = sale[t].listing /\ sale'[t].lead = sale[t].lead
  BY <1>2, <1>4 DEF SaleHas, Pledged, Closing, SaleHeld
<1>7. ListingsTell'
  <2>1. /\ to = "contract_signed" => ListingAfter(to, listing[l].status) = listing[l].status
        /\ to = "sold" => ListingAfter(to, listing[l].status) = "sold"
        /\ to = "handed_over" => ListingAfter(to, listing[l].status) = listing[l].status
        /\ to = "cancelled" => ListingAfter(to, listing[l].status) = "published"
    BY DEF ListingAfter
  <2> SUFFICES ASSUME NEW k \in Listings
               PROVE  /\ listing'[k].status = "reserved" <=> \E t \in Sales : SaleHas(t, Pledged)' /\ sale'[t].listing = k
                      /\ listing'[k].status = "sold" <=> \E t \in Sales : SaleHas(t, Closing)' /\ sale'[t].listing = k
    BY DEF ListingsTell
  <2>2. /\ listing[k].status = "reserved" <=> \E t \in Sales : SaleHas(t, Pledged) /\ sale[t].listing = k
        /\ listing[k].status = "sold" <=> \E t \in Sales : SaleHas(t, Closing) /\ sale[t].listing = k
    BY <1>1 DEF DeskBooks, ListingsTell
  <2>3. CASE k = l
    <3>1. listing'[k].status = ListingAfter(to, listing[k].status)
      BY <2>3
    <3> QED
      BY <1>2, <1>6, <2>1, <2>2, <2>3, <3>1 DEF Pledged, Closing
  <2>4. CASE k # l
    BY <1>6, <2>2, <2>4
  <2> QED
    BY <2>3, <2>4
<1>8. LeadsTell'
  <2> SUFFICES ASSUME NEW k \in Leads
               PROVE  /\ lead'[k].status = "reserved" <=> \E t \in Sales : SaleHas(t, Pledged)' /\ sale'[t].lead = k
                      /\ lead'[k].status = "sold" <=> \E t \in Sales : SaleHas(t, Closing)' /\ sale'[t].lead = k
    BY DEF LeadsTell
  <2>2. /\ lead[k].status = "reserved" <=> \E t \in Sales : SaleHas(t, Pledged) /\ sale[t].lead = k
        /\ lead[k].status = "sold" <=> \E t \in Sales : SaleHas(t, Closing) /\ sale[t].lead = k
    BY <1>1 DEF DeskBooks, LeadsTell
  <2>1. /\ to = "contract_signed" => LeadAfter(to, lead[k].status) = lead[k].status
        /\ to = "sold" => LeadAfter(to, lead[k].status) = "sold"
        /\ to = "handed_over" => LeadAfter(to, lead[k].status) = lead[k].status
        /\ to = "cancelled" /\ lead[k].status = "reserved" => LeadAfter(to, lead[k].status) = "qualified"
    BY DEF LeadAfter
  <2>3. CASE k = d
    <3>1. lead'[k].status = LeadAfter(to, lead[k].status)
      BY <2>3
    <3> QED
      BY <1>2, <1>6, <2>1, <2>2, <2>3, <3>1 DEF Pledged, Closing
  <2>4. CASE k # d
    BY <1>6, <2>2, <2>4
  <2> QED
    BY <2>3, <2>4
<1>9. TenantTells'
  <2>1. CASE to = "handed_over"
    <3>1. SaleHas(s, {"handed_over"})' /\ unit'.occ = "occupied"
      BY <2>1 DEF SaleHas, UnitAfter
    <3> QED
      BY <1>1, <3>1 DEF DeskBooks, TenantTells
  <2>2. CASE to # "handed_over"
    <3>1. unit'.tenant = unit.tenant /\ (unit'.occ = "vacant" => unit.occ = "vacant" \/ unit.tenant = Nobody)
      BY <1>1, <1>2, <2>2 DEF UnitAfter
    <3> QED
      BY <1>1, <1>6, <3>1 DEF DeskBooks, TenantTells
  <2> QED
    BY <2>1, <2>2
<1> QED
  BY <1>5, <1>7, <1>8, <1>9 DEF DeskBooks

(* One rental is inserted or moves on, under an offer that stands if it     *)
(* holds the unit.                                                          *)
LEMMA RentalMoves ==
    ASSUME DeskInv, serial, NEW r \in Rentals,
           rental'[r].offer \in Offers,
           rental'[r].status \in RentalHeld => offer[rental'[r].offer].status \in {"draft", "published"},
           rental'[r].status = "active" =>
             /\ \A s \in Rentals \ {r} : rental[s].status # "active"
             /\ unit'.tenant = Renter(r),
           \/ unit'.tenant = unit.tenant
           \/ rental'[r].status = "active"
           \/ rental[r].status = "active" /\ rental'[r].status # "active",
           unit'.occ = "vacant" => unit'.tenant = Nobody,
           \A s \in Rentals \ {r} : rental'[s] = rental[s],
           DOMAIN rental' = Rentals,
           UNCHANGED <<listing, lead, sale, offer>>
    PROVE  DeskBooks'
<1>1. DeskBooks /\ DOMAIN rental = Rentals
  BY DEF DeskInv, UnitTypeOK
<1>2. RowsRefer' /\ OffersStand'
  BY <1>1 DEF DeskBooks, RowsRefer, OffersStand
<1>3. ListingsTell' /\ LeadsTell'
  BY <1>1 DEF DeskBooks, ListingsTell, LeadsTell, SaleHas
<1>4. \A s, t \in Rentals : rental[s].status = "active" /\ rental[t].status = "active" => s = t
  BY <1>1 DEF DeskBooks, TenantTells, AtMostOne
<1>5. \A s, t \in Rentals : rental'[s].status = "active" /\ rental'[t].status = "active" => s = t
  BY <1>4
<1>6. ASSUME NEW s \in Rentals, rental'[s].status = "active"
      PROVE  unit'.tenant = Renter(s) \/ \E t \in Sales : SaleHas(t, {"handed_over"})'
  <2>1. CASE s = r
    BY <1>6, <2>1
  <2>2. CASE s # r
    <3>1. rental[s].status = "active" /\ unit'.tenant = unit.tenant
      BY <1>4, <1>6, <2>2
    <3> QED
      BY <1>1, <3>1 DEF DeskBooks, TenantTells, SaleHas
  <2> QED
    BY <2>1, <2>2
<1>7. TenantTells'
  BY <1>1, <1>5, <1>6 DEF TenantTells, AtMostOne
<1> QED
  BY <1>2, <1>3, <1>7 DEF DeskBooks

(* A row that is to be inserted is not there yet.                           *)
LEMMA NextIsNew ==
    ASSUME NEW S \in SUBSET Nat, NEW T, DOMAIN T = S, NEW i \in S, IsNext(T, i)
    PROVE  T[i].status = "none"
BY DEF IsNext

LEMMA DeskRows == /\ Listings \subseteq Nat /\ Leads \subseteq Nat /\ Sales \subseteq Nat
                  /\ Offers \subseteq Nat /\ Rentals \subseteq Nat
BY DEF Listings, Leads, Sales, Offers, Rentals

(* The sales desk.                                                          *)
LEMMA SaleDeskKeeps == ASSUME DeskInv, SaleDesk PROVE DeskInv'
<1>t. UnitTypeOK /\ UnitHeldOnce /\ (serial => DeskBooks /\ DeskTurns)
  BY DEF DeskInv
<1>1. ASSUME NEW l \in Listings, CreateListing(l) PROVE DeskInv'
  <2>1. /\ Calm /\ IsNext(listing, l) /\ listing' = [listing EXCEPT ![l].status = "draft"]
        /\ UNCHANGED <<unit, lead, sale, offer, rental, ops, serial>>
    BY <1>1 DEF CreateListing
  <2>2. /\ listing[l].status = "none" /\ listing'[l].status = "draft"
        /\ \A k \in Listings \ {l} : listing'[k] = listing[k]
        /\ listing' \in [Listings -> [status : ListingStatus \cup {"reserved", "sold"}]]
    <3>1. listing[l].status = "none"
      BY <1>t, <2>1, NextIsNew, DeskRows DEF UnitTypeOK
    <3> QED
      BY <1>t, <2>1, <3>1 DEF UnitTypeOK, ListingStatus
  <2>3. serial => DeskBooks'
    BY <2>1, <2>2, ListingKept DEF Promised
  <2>4. ops' \in [Requests -> UnitOp] /\ (serial => DeskTurns')
    BY <2>1, DeskCalm
  <2> QED
    BY <1>t, <2>1, <2>2, <2>3, <2>4 DEF DeskInv, UnitTypeOK, UnitHeldOnce
<1>2. ASSUME NEW d \in Leads, CreateLead(d) PROVE DeskInv'
  <2>1. /\ Calm /\ IsNext(lead, d) /\ lead' = [lead EXCEPT ![d].status = "new"]
        /\ UNCHANGED <<unit, listing, sale, offer, rental, ops, serial>>
    BY <1>2 DEF CreateLead
  <2>2. /\ lead[d].status = "none" /\ lead'[d].status = "new"
        /\ \A k \in Leads \ {d} : lead'[k] = lead[k]
        /\ lead' \in [Leads -> [status : LeadStatus]]
    <3>1. lead[d].status = "none"
      BY <1>t, <2>1, NextIsNew, DeskRows DEF UnitTypeOK
    <3> QED
      BY <1>t, <2>1, <3>1 DEF UnitTypeOK, LeadStatus
  <2>3. serial => DeskBooks'
    BY <2>1, <2>2, LeadKept DEF Promised
  <2>4. ops' \in [Requests -> UnitOp] /\ (serial => DeskTurns')
    BY <2>1, DeskCalm
  <2> QED
    BY <1>t, <2>1, <2>2, <2>3, <2>4 DEF DeskInv, UnitTypeOK, UnitHeldOnce
<1>3. ASSUME NEW q \in Requests, NEW l \in Listings, NEW action \in DOMAIN ListingResult,
             ListingRead(q, l, action)
      PROVE  DeskInv'
  <2> DEFINE op == [kind |-> "listing", row |-> l, to |-> ListingResult[action]]
  <2>1. op \in UnitOp
    BY DEF UnitOp, ListingResult, ListingStatus
  <2>2. DeskRemembers(op)
    BY <1>3 DEF DeskRemembers, ListingRead, ListingActions, Promised
  <2>3. Begin(q, op) /\ UNCHANGED <<unit, listing, lead, sale, offer, rental, serial>>
    BY <1>3 DEF ListingRead
  <2> HIDE DEF op
  <2> QED
    BY <2>1, <2>2, <2>3, DeskBegin
<1>4. ASSUME NEW q \in Requests, NEW d \in Leads, NEW to, LeadRead(q, d, to) PROVE DeskInv'
  <2> DEFINE op == [kind |-> "lead", row |-> d, to |-> to]
  <2>0. to \in LeadTargets(lead[d].status)
    BY <1>4 DEF LeadRead
  <2>1. op \in UnitOp /\ lead[d].status \notin Promised /\ to \notin Promised
    BY <2>0 DEF UnitOp, LeadStatus, LeadTargets, Promised
  <2>2. DeskRemembers(op)
    BY <2>1 DEF DeskRemembers
  <2>3. Begin(q, op) /\ UNCHANGED <<unit, listing, lead, sale, offer, rental, serial>>
    BY <1>4 DEF LeadRead
  <2> HIDE DEF op
  <2> QED
    BY <2>1, <2>2, <2>3, DeskBegin
<1>5. ASSUME NEW q \in Requests, NEW l \in Listings, NEW d \in Leads, CreateSaleRead(q, l, d)
      PROVE  DeskInv'
  <2> DEFINE op == [kind |-> "sell", row |-> [status |-> "reserved", listing |-> l, lead |-> d]]
  <2>1. op \in UnitOp
    BY DEF UnitOp
  <2>2. DeskRemembers(op)
    BY <1>5 DEF DeskRemembers, CreateSaleRead, Promised
  <2>3. Begin(q, op) /\ UNCHANGED <<unit, listing, lead, sale, offer, rental, serial>>
    BY <1>5 DEF CreateSaleRead
  <2> HIDE DEF op
  <2> QED
    BY <2>1, <2>2, <2>3, DeskBegin
<1>6. ASSUME NEW q \in Requests, NEW s \in Sales, NEW to \in SaleHeld \cup {"handed_over", "cancelled"},
             SaleRead(q, s, to)
      PROVE  DeskInv'
  <2> DEFINE op == [kind |-> "sale", row |-> s, to |-> to]
  <2>1. op \in UnitOp
    BY DEF UnitOp, SaleStatus
  <2>2. DeskRemembers(op)
    BY <1>6 DEF DeskRemembers, SaleRead
  <2>3. Begin(q, op) /\ UNCHANGED <<unit, listing, lead, sale, offer, rental, serial>>
    BY <1>6 DEF SaleRead
  <2> HIDE DEF op
  <2> QED
    BY <2>1, <2>2, <2>3, DeskBegin
<1>7. ASSUME NEW q \in Requests, ListingCommit(q) PROVE DeskInv'
  <2>1. /\ ops[q].kind = "listing" /\ ops[q] \in ListingOp /\ ops[q] # NoOp /\ End(q)
        /\ listing' = [listing EXCEPT ![ops[q].row].status = ops[q].to]
        /\ UNCHANGED <<unit, lead, sale, offer, rental, serial>>
    BY <1>t, <1>7, DeskOpOfKind DEF ListingCommit, NoOp
  <2>2. PICK l, to : l = ops[q].row /\ to = ops[q].to
    OBVIOUS
  <2>3. /\ l \in Listings /\ to \in ListingStatus /\ listing'[l].status = to
        /\ \A k \in Listings \ {l} : listing'[k] = listing[k]
        /\ listing' \in [Listings -> [status : ListingStatus \cup {"reserved", "sold"}]]
    BY <1>t, <2>1, <2>2 DEF UnitTypeOK, ListingOp
  <2>4. serial => listing[l].status \notin Promised
    BY <1>t, <2>1, <2>2 DEF DeskTurns, DeskRemembers
  <2>5. serial => DeskBooks'
    BY <2>1, <2>3, <2>4, ListingKept DEF Promised, ListingStatus
  <2>6. ops' \in [Requests -> UnitOp] /\ (serial => DeskTurns')
    BY <2>1, DeskEnd
  <2> QED
    BY <1>t, <2>1, <2>3, <2>5, <2>6 DEF DeskInv, UnitTypeOK, UnitHeldOnce
<1>8. ASSUME NEW q \in Requests, LeadCommit(q) PROVE DeskInv'
  <2>1. /\ ops[q].kind = "lead" /\ ops[q] \in LeadOp /\ ops[q] # NoOp /\ End(q)
        /\ lead' = [lead EXCEPT ![ops[q].row].status = ops[q].to]
        /\ UNCHANGED <<unit, listing, sale, offer, rental, serial>>
    BY <1>t, <1>8, DeskOpOfKind DEF LeadCommit, NoOp
  <2>2. PICK d, to : d = ops[q].row /\ to = ops[q].to
    OBVIOUS
  <2>3. /\ d \in Leads /\ to \in LeadStatus /\ lead'[d].status = to
        /\ \A k \in Leads \ {d} : lead'[k] = lead[k]
        /\ lead' \in [Leads -> [status : LeadStatus]]
    BY <1>t, <2>1, <2>2 DEF UnitTypeOK, LeadOp
  <2>4. serial => lead[d].status \notin Promised /\ to \notin Promised
    BY <1>t, <2>1, <2>2 DEF DeskTurns, DeskRemembers
  <2>5. serial => DeskBooks'
    BY <2>1, <2>3, <2>4, LeadKept
  <2>6. ops' \in [Requests -> UnitOp] /\ (serial => DeskTurns')
    BY <2>1, DeskEnd
  <2> QED
    BY <1>t, <2>1, <2>3, <2>5, <2>6 DEF DeskInv, UnitTypeOK, UnitHeldOnce
<1>9. ASSUME NEW q \in Requests, CreateSaleCommit(q) PROVE DeskInv'
  <2>1. /\ ops[q].kind = "sell" /\ ops[q] \in SellOp /\ ops[q] # NoOp /\ End(q)
        /\ SaleIndex(sale')
        /\ listing' = [listing EXCEPT ![ops[q].row.listing].status = "reserved"]
        /\ lead' = [lead EXCEPT ![ops[q].row.lead].status = "reserved"]
        /\ unit' = [unit EXCEPT !.occ = "reserved"]
        /\ UNCHANGED <<offer, rental, serial>>
    BY <1>t, <1>9, DeskOpOfKind DEF CreateSaleCommit, NoOp
  <2>2. PICK s \in Sales : IsNext(sale, s) /\ sale' = [sale EXCEPT ![s] = ops[q].row]
    BY <1>9 DEF CreateSaleCommit
  <2>3. PICK l, d : l = ops[q].row.listing /\ d = ops[q].row.lead
    OBVIOUS
  <2>4. l \in Listings /\ d \in Leads /\ ops[q].row = [status |-> "reserved", listing |-> l, lead |-> d]
    BY <2>1, <2>3 DEF SellOp
  <2>5. /\ sale[s].status = "none" /\ sale'[s] = [status |-> "reserved", listing |-> l, lead |-> d]
        /\ \A t \in Sales \ {s} : sale'[t] = sale[t]
        /\ sale' \in [Sales -> SaleRow]
    <3>1. sale[s].status = "none"
      BY <1>t, <2>2, NextIsNew, DeskRows DEF UnitTypeOK
    <3> QED
      BY <1>t, <2>2, <2>4, <3>1 DEF UnitTypeOK, SaleRow, SaleStatus, SaleHeld
  <2>6. /\ listing'[l].status = "reserved" /\ \A k \in Listings \ {l} : listing'[k] = listing[k]
        /\ listing' \in [Listings -> [status : ListingStatus \cup {"reserved", "sold"}]]
    BY <1>t, <2>1, <2>3, <2>4 DEF UnitTypeOK
  <2>7. /\ lead'[d].status = "reserved" /\ \A k \in Leads \ {d} : lead'[k] = lead[k]
        /\ lead' \in [Leads -> [status : LeadStatus]]
    BY <1>t, <2>1, <2>3, <2>4 DEF UnitTypeOK, LeadStatus
  <2>8. /\ unit'.occ = "reserved" /\ unit'.tenant = unit.tenant
        /\ unit' \in [occ : {"vacant", "reserved", "occupied"},
                      tenant : {Nobody} \cup {Owner(t) : t \in Sales} \cup {Renter(r) : r \in Rentals}]
    BY <1>t, <2>1 DEF UnitTypeOK
  <2>9. serial => listing[l].status = "published" /\ lead[d].status \notin Promised
    BY <1>t, <2>1, <2>3 DEF DeskTurns, DeskRemembers
  <2>10. serial => DeskBooks'
    BY <2>1, <2>4, <2>5, <2>6, <2>7, <2>8, <2>9, SaleOpens
  <2>11. ops' \in [Requests -> UnitOp] /\ (serial => DeskTurns')
    BY <2>1, DeskEnd
  <2> QED
    BY <1>t, <2>1, <2>5, <2>6, <2>7, <2>8, <2>10, <2>11 DEF DeskInv, UnitTypeOK, UnitHeldOnce
<1>10. ASSUME NEW q \in Requests, SaleCommit(q) PROVE DeskInv'
  <2>0. PICK s, to : s = ops[q].row /\ to = ops[q].to
    OBVIOUS
  <2>1. /\ ops[q].kind = "sale" /\ ops[q] \in SaleOp /\ ops[q] # NoOp /\ End(q)
        /\ sale' = [sale EXCEPT ![s].status = to] /\ SaleIndex(sale')
        /\ lead' = [lead EXCEPT ![sale[s].lead].status = LeadAfter(to, @)]
        /\ listing' = [listing EXCEPT ![sale[s].listing].status = ListingAfter(to, @)]
        /\ unit' = UnitAfter(s, to)
        /\ UNCHANGED <<offer, rental, serial>>
    BY <1>t, <1>10, <2>0, DeskOpOfKind DEF SaleCommit, NoOp
  <2>2. s \in Sales /\ to \in SaleStatus
    BY <2>0, <2>1 DEF SaleOp
  <2>3. /\ sale'[s].status = to /\ sale'[s].listing = sale[s].listing /\ sale'[s].lead = sale[s].lead
        /\ \A t \in Sales \ {s} : sale'[t] = sale[t]
        /\ sale' \in [Sales -> SaleRow]
    BY <1>t, <2>1, <2>2 DEF UnitTypeOK, SaleRow
  <2>4. /\ \A k \in Listings : listing'[k].status = IF k = sale[s].listing THEN ListingAfter(to, listing[k].status)
                                                                            ELSE listing[k].status
        /\ listing' \in [Listings -> [status : ListingStatus \cup {"reserved", "sold"}]]
    <3>1. PICK l, status : l = sale[s].listing /\ status = ListingAfter(to, listing[l].status)
      OBVIOUS
    <3>2. listing' = [listing EXCEPT ![l].status = status]
      BY <2>1, <3>1
    <3>3. l \in Listings => status \in ListingStatus \cup {"reserved", "sold"}
      BY <1>t, <3>1 DEF UnitTypeOK, ListingAfter, ListingStatus
    <3>4. listing \in [Listings -> [status : ListingStatus \cup {"reserved", "sold"}]]
      BY <1>t DEF UnitTypeOK
    <3>5. /\ listing' \in [Listings -> [status : ListingStatus \cup {"reserved", "sold"}]]
          /\ \A k \in Listings : listing'[k].status = IF k = l THEN status ELSE listing[k].status
      BY <3>2, <3>3, <3>4
    <3> QED
      BY <3>1, <3>5
  <2>5. /\ \A k \in Leads : lead'[k].status = IF k = sale[s].lead THEN LeadAfter(to, lead[k].status)
                                                                   ELSE lead[k].status
        /\ lead' \in [Leads -> [status : LeadStatus]]
    <3>1. PICK d, status : d = sale[s].lead /\ status = LeadAfter(to, lead[d].status)
      OBVIOUS
    <3>2. lead' = [lead EXCEPT ![d].status = status]
      BY <2>1, <3>1
    <3>3. d \in Leads => status \in LeadStatus
      BY <1>t, <3>1 DEF UnitTypeOK, LeadAfter, LeadStatus
    <3>4. lead \in [Leads -> [status : LeadStatus]]
      BY <1>t DEF UnitTypeOK
    <3>5. /\ lead' \in [Leads -> [status : LeadStatus]]
          /\ \A k \in Leads : lead'[k].status = IF k = d THEN status ELSE lead[k].status
      BY <3>2, <3>3, <3>4
    <3> QED
      BY <3>1, <3>5
  <2>6. unit' \in [occ : {"vacant", "reserved", "occupied"},
                   tenant : {Nobody} \cup {Owner(t) : t \in Sales} \cup {Renter(r) : r \in Rentals}]
    BY <1>t, <2>1, <2>2 DEF UnitTypeOK, UnitAfter
  <2>7. serial => to \in SaleTargets(sale[s].status)
    BY <1>t, <2>0, <2>1 DEF DeskTurns, DeskRemembers
  <2>8. serial => DeskBooks'
    BY <2>1, <2>2, <2>3, <2>4, <2>5, <2>7, SaleMoves
  <2>9. ops' \in [Requests -> UnitOp] /\ (serial => DeskTurns')
    BY <2>1, DeskEnd
  <2> QED
    BY <1>t, <2>1, <2>3, <2>4, <2>5, <2>6, <2>8, <2>9 DEF DeskInv, UnitTypeOK, UnitHeldOnce
<1> QED
  BY <1>1, <1>2, <1>3, <1>4, <1>5, <1>6, <1>7, <1>8, <1>9, <1>10 DEF SaleDesk

(* The rental desk.                                                         *)
LEMMA RentalDeskKeeps == ASSUME DeskInv, RentalDesk PROVE DeskInv'
<1>t. UnitTypeOK /\ UnitHeldOnce /\ (serial => DeskBooks /\ DeskTurns)
  BY DEF DeskInv
<1> DEFINE Tenants == {Nobody} \cup {Owner(t) : t \in Sales} \cup {Renter(r) : r \in Rentals}
           UnitRow == [occ : {"vacant", "reserved", "occupied"}, tenant : Tenants]
<1>u. unit \in UnitRow
  BY <1>t DEF UnitTypeOK
<1>1. ASSUME NEW o \in Offers, CreateOffer(o) PROVE DeskInv'
  <2>1. /\ Calm /\ offer' = [offer EXCEPT ![o].status = "draft"]
        /\ UNCHANGED <<unit, listing, lead, sale, rental, ops, serial>>
    BY <1>1 DEF CreateOffer
  <2>2. /\ offer'[o].status = "draft" /\ \A k \in Offers \ {o} : offer'[k] = offer[k]
        /\ offer' \in [Offers -> [status : ListingStatus]]
    BY <1>t, <2>1 DEF UnitTypeOK, ListingStatus
  <2>3. serial => DeskBooks'
    BY <2>1, <2>2, OfferKept
  <2>4. ops' \in [Requests -> UnitOp] /\ (serial => DeskTurns')
    BY <2>1, DeskCalm
  <2> QED
    BY <1>t, <2>1, <2>2, <2>3, <2>4 DEF DeskInv, UnitTypeOK, UnitHeldOnce
<1>2. ASSUME NEW q \in Requests, NEW o \in Offers, NEW action \in DOMAIN ListingResult,
             OfferRead(q, o, action)
      PROVE  DeskInv'
  <2> DEFINE op == [kind |-> "offer", row |-> o, to |-> ListingResult[action]]
  <2>1. op \in UnitOp /\ op.to \in {"draft", "published", "archived"}
    BY DEF UnitOp, ListingResult, ListingStatus
  <2>2. DeskRemembers(op)
    <3>1. op.to = "archived" => action = "archive"
      BY DEF ListingResult
    <3>2. op.to = "archived" => Archivable(o)
      BY <1>2, <3>1 DEF OfferRead
    <3> QED
      BY <2>1, <3>2 DEF DeskRemembers
  <2>3. Begin(q, op) /\ UNCHANGED <<unit, listing, lead, sale, offer, rental, serial>>
    BY <1>2 DEF OfferRead
  <2> HIDE DEF op
  <2> QED
    BY <2>1, <2>2, <2>3, DeskBegin
<1>3. ASSUME NEW q \in Requests, NEW from \in Months, NEW to \in Months, NEW o \in Offers,
             CreateRentalRead(q, o, from, to)
      PROVE  DeskInv'
  <2>1. PICK status \in {"new", "reserved"} :
          /\ status = "reserved" => Quoted(o, from, to, 0)
          /\ Begin(q, [kind |-> "rent", row |-> [status |-> status, offer |-> o, from |-> from, to |-> to]])
    BY <1>3 DEF CreateRentalRead
  <2> DEFINE op == [kind |-> "rent", row |-> [status |-> status, offer |-> o, from |-> from, to |-> to]]
  <2>2. op \in UnitOp
    BY DEF UnitOp
  <2>3. DeskRemembers(op)
    BY <2>1 DEF DeskRemembers, Quoted
  <2>4. Begin(q, op) /\ UNCHANGED <<unit, listing, lead, sale, offer, rental, serial>>
    BY <1>3, <2>1 DEF CreateRentalRead
  <2> HIDE DEF op
  <2> QED
    BY <2>2, <2>3, <2>4, DeskBegin
<1>4. ASSUME NEW q \in Requests, NEW from \in Months, NEW to \in Months, NEW r \in Rentals,
             PeriodRead(q, r, from, to)
      PROVE  DeskInv'
  <2> DEFINE op == [kind |-> "period", row |-> r, from |-> from, to |-> to]
  <2>1. op \in UnitOp /\ DeskRemembers(op)
    <3>1. rental[r].status # "none"
      BY <1>4 DEF PeriodRead
    <3> QED
      BY <3>1 DEF UnitOp, DeskRemembers
  <2>2. Begin(q, op) /\ UNCHANGED <<unit, listing, lead, sale, offer, rental, serial>>
    BY <1>4 DEF PeriodRead
  <2> HIDE DEF op
  <2> QED
    BY <2>1, <2>2, DeskBegin
<1>5. ASSUME NEW q \in Requests, NEW r \in Rentals, NEW to, RentalRead(q, r, to) PROVE DeskInv'
  <2> DEFINE op == [kind |-> "rental", row |-> r, to |-> to, was |-> rental[r].status]
  <2>1. to \in RentalTargets(rental[r].status) /\ rental[r].status \in RentalStatus
    BY <1>t, <1>5 DEF RentalRead, UnitTypeOK, RentalRow
  <2>2. op \in UnitOp
    BY <2>1 DEF UnitOp, RentalTargets, RentalStatus, RentalHeld
  <2>3. DeskRemembers(op)
    BY <1>5 DEF DeskRemembers, RentalRead, Quoted
  <2>4. Begin(q, op) /\ UNCHANGED <<unit, listing, lead, sale, offer, rental, serial>>
    BY <1>5 DEF RentalRead
  <2> HIDE DEF op
  <2> QED
    BY <2>2, <2>3, <2>4, DeskBegin
<1>6. ASSUME NEW q \in Requests, OfferCommit(q) PROVE DeskInv'
  <2>0. PICK o, to : o = ops[q].row /\ to = ops[q].to
    OBVIOUS
  <2>1. /\ ops[q].kind = "offer" /\ ops[q] \in OfferOp /\ ops[q] # NoOp /\ End(q)
        /\ offer' = [offer EXCEPT ![o].status = to]
        /\ UNCHANGED <<unit, listing, lead, sale, rental, serial>>
    BY <1>t, <1>6, <2>0, DeskOpOfKind DEF OfferCommit, NoOp
  <2>2. /\ o \in Offers /\ to \in ListingStatus /\ offer'[o].status = to
        /\ \A k \in Offers \ {o} : offer'[k] = offer[k]
        /\ offer' \in [Offers -> [status : ListingStatus]]
    BY <1>t, <2>0, <2>1 DEF UnitTypeOK, OfferOp
  <2>3. serial => to \in {"draft", "published", "archived"} /\ (to = "archived" => Archivable(o))
    BY <1>t, <2>0, <2>1 DEF DeskTurns, DeskRemembers
  <2>4. serial => DeskBooks'
    BY <2>1, <2>2, <2>3, OfferKept
  <2>5. ops' \in [Requests -> UnitOp] /\ (serial => DeskTurns')
    BY <2>1, DeskEnd
  <2> QED
    BY <1>t, <2>1, <2>2, <2>4, <2>5 DEF DeskInv, UnitTypeOK, UnitHeldOnce
<1>7. ASSUME NEW q \in Requests, CreateRentalCommit(q) PROVE DeskInv'
  <2>1. /\ ops[q].kind = "rent" /\ ops[q] \in RentOp /\ ops[q] # NoOp /\ End(q)
        /\ IF ops[q].row.status = "reserved" THEN Reserve ELSE UNCHANGED unit
        /\ UNCHANGED <<listing, lead, sale, offer, serial>>
    BY <1>t, <1>7, DeskOpOfKind DEF CreateRentalCommit, NoOp
  <2>2. PICK r \in Rentals : IsNext(rental, r) /\ RentalWrite([rental EXCEPT ![r] = ops[q].row])
    BY <1>7 DEF CreateRentalCommit
  <2>3. PICK row : row = ops[q].row
    OBVIOUS
  <2>4. /\ row \in RentalRow /\ row.status \in {"new", "reserved"} /\ row.offer \in Offers
        /\ rental[r].status = "none" /\ rental'[r] = row
        /\ \A s \in Rentals \ {r} : rental'[s] = rental[s]
        /\ rental' \in [Rentals -> RentalRow]
    <3>1. rental[r].status = "none"
      BY <1>t, <2>2, NextIsNew, DeskRows DEF UnitTypeOK
    <3>2. row \in RentalRow /\ row.status \in {"new", "reserved"} /\ row.offer \in Offers
      BY <2>1, <2>3 DEF RentOp, RentalRow, RentalStatus, RentalHeld
    <3> QED
      BY <1>t, <2>2, <2>3, <3>1, <3>2 DEF UnitTypeOK, RentalWrite
  <2>5. Apart(rental', RentalHeld)
    BY <2>2 DEF RentalWrite
  <2>6. unit' \in UnitRow /\ unit'.tenant = unit.tenant /\ (unit'.occ = "vacant" => unit.occ = "vacant")
    BY <1>u, <2>1 DEF Reserve
  <2>7. ASSUME serial PROVE DeskBooks'
    <3>1. row.status = "reserved" => offer[row.offer].status = "published"
      BY <1>t, <2>1, <2>3, <2>7 DEF DeskTurns, DeskRemembers
    <3>2. row.status \in RentalHeld => row.status = "reserved"
      BY <2>4 DEF RentalHeld
    <3>3. unit.occ = "vacant" => unit.tenant = Nobody
      BY <1>t, <2>7 DEF DeskBooks, TenantTells
    <3> HIDE DEF UnitRow
    <3> QED
      BY <2>1, <2>4, <2>6, <2>7, <3>1, <3>2, <3>3, RentalMoves
  <2>8. ops' \in [Requests -> UnitOp] /\ (serial => DeskTurns')
    BY <2>1, DeskEnd
  <2> QED
    BY <1>t, <2>1, <2>4, <2>5, <2>6, <2>7, <2>8 DEF DeskInv, UnitTypeOK, UnitHeldOnce
<1>8. ASSUME NEW q \in Requests, PeriodCommit(q) PROVE DeskInv'
  <2>1. /\ ops[q].kind = "period" /\ ops[q] \in PeriodOp /\ ops[q] # NoOp /\ End(q)
        /\ RentalWrite([rental EXCEPT ![ops[q].row].from = ops[q].from, ![ops[q].row].to = ops[q].to])
        /\ UNCHANGED <<unit, listing, lead, sale, offer, serial>>
    BY <1>t, <1>8, DeskOpOfKind DEF PeriodCommit, NoOp
  <2>2. PICK r, from, to : r = ops[q].row /\ from = ops[q].from /\ to = ops[q].to
    OBVIOUS
  <2>3. r \in Rentals /\ from \in Months /\ to \in Months
    BY <2>1, <2>2 DEF PeriodOp
  <2>4. /\ rental' = [rental EXCEPT ![r].from = from, ![r].to = to] /\ Apart(rental', RentalHeld)
    BY <2>1, <2>2 DEF RentalWrite
  <2>5. /\ \A s \in Rentals : rental'[s].status = rental[s].status /\ rental'[s].offer = rental[s].offer
        /\ rental' \in [Rentals -> RentalRow]
    <3>1. rental' = [rental EXCEPT ![r] = [rental[r] EXCEPT !.from = from, !.to = to]]
      BY <1>t, <2>3, <2>4 DEF UnitTypeOK
    <3>2. [rental[r] EXCEPT !.from = from, !.to = to] \in RentalRow
      BY <1>t, <2>3, ZenonT(30) DEF UnitTypeOK, RentalRow
    <3>3. /\ [rental[r] EXCEPT !.from = from, !.to = to].status = rental[r].status
          /\ [rental[r] EXCEPT !.from = from, !.to = to].offer = rental[r].offer
      BY <1>t, <2>3 DEF UnitTypeOK, RentalRow
    <3> QED
      BY <1>t, <2>3, <3>1, <3>2, <3>3 DEF UnitTypeOK
  <2>6. ASSUME serial PROVE DeskBooks'
    <3>1. DeskBooks /\ DOMAIN rental = Rentals /\ DOMAIN rental' = Rentals
      BY <1>t, <2>5, <2>6 DEF UnitTypeOK
    <3> QED
      BY <2>1, <2>5, <3>1 DEF DeskBooks, RowsRefer, ListingsTell, LeadsTell, OffersStand, TenantTells,
                              SaleHas, AtMostOne
  <2>7. ops' \in [Requests -> UnitOp] /\ (serial => DeskTurns')
    BY <2>1, DeskEnd
  <2> QED
    BY <1>t, <2>1, <2>4, <2>5, <2>6, <2>7 DEF DeskInv, UnitTypeOK, UnitHeldOnce
<1>9. ASSUME NEW q \in Requests, RentalCommit(q) PROVE DeskInv'
  <2>0. PICK r, to, was : r = ops[q].row /\ to = ops[q].to /\ was = ops[q].was
    OBVIOUS
  <2>1. /\ ops[q].kind = "rental" /\ ops[q] \in RentalOp /\ ops[q] # NoOp /\ End(q)
        /\ RentalWrite([rental EXCEPT ![r].status = to])
        /\ UNCHANGED <<listing, lead, sale, offer, serial>>
    BY <1>t, <1>9, <2>0, DeskOpOfKind DEF RentalCommit, NoOp
  <2>2. /\ to = "reserved" => Reserve
        /\ to = "active" => unit' = [occ |-> "occupied", tenant |-> Renter(r)]
        /\ to = "completed" => unit' = [occ |-> "vacant", tenant |-> Nobody]
        /\ to \notin {"reserved", "active", "completed"} =>
             unit' = [unit EXCEPT !.occ = IF was = "reserved" /\ Freed(r) THEN "vacant" ELSE @]
    BY <1>9, <2>0 DEF RentalCommit
  <2>3. /\ r \in Rentals /\ to \in RentalStatus
        /\ rental' = [rental EXCEPT ![r].status = to] /\ Apart(rental', RentalHeld)
    BY <2>0, <2>1 DEF RentalOp, RentalWrite
  <2>4. /\ rental'[r].status = to /\ rental'[r].offer = rental[r].offer
        /\ \A s \in Rentals \ {r} : rental'[s] = rental[s]
        /\ rental' \in [Rentals -> RentalRow]
    BY <1>t, <2>3 DEF UnitTypeOK, RentalRow
  <2>5. /\ unit' \in UnitRow
        /\ to \notin {"active", "completed"} =>
             unit'.tenant = unit.tenant /\ (unit'.occ = "vacant" => unit.occ = "vacant" \/ unit.tenant = Nobody)
        /\ to = "active" => unit'.tenant = Renter(r) /\ unit'.occ # "vacant"
        /\ to = "completed" => unit'.tenant = Nobody
    BY <1>u, <2>2, <2>3 DEF Reserve, Freed
  <2>6. ASSUME serial PROVE DeskBooks'
    <3>1. /\ to \in RentalTargets(rental[r].status)
          /\ to = "reserved" => offer[rental[r].offer].status = "published"
          /\ to = "active" => Activatable(r)
      BY <1>t, <2>0, <2>1, <2>6 DEF DeskTurns, DeskRemembers
    <3>2. /\ rental[r].status # "none" /\ to # "none"
          /\ to = "active" => rental[r].status = "reserved"
          /\ to = "completed" => rental[r].status = "active"
      BY <3>1 DEF RentalTargets
    <3>3. /\ rental[r].offer \in Offers
          /\ rental[r].status \in RentalHeld => offer[rental[r].offer].status \in {"draft", "published"}
          /\ unit.occ = "vacant" => unit.tenant = Nobody
      BY <1>t, <2>3, <2>6, <3>2 DEF DeskBooks, RowsRefer, OffersStand, TenantTells
    <3>4. to \in RentalHeld => offer[rental[r].offer].status \in {"draft", "published"}
      BY <3>1, <3>2, <3>3 DEF RentalHeld
    <3>5. to = "active" => \A s \in Rentals \ {r} : rental[s].status # "active"
      BY <3>1 DEF Activatable
    <3>6. DOMAIN rental' = Rentals
      BY <2>4
    <3> HIDE DEF UnitRow
    <3> QED
      BY <2>1, <2>3, <2>4, <2>5, <2>6, <3>2, <3>3, <3>4, <3>5, <3>6, RentalMoves
  <2>7. ops' \in [Requests -> UnitOp] /\ (serial => DeskTurns')
    BY <2>1, DeskEnd
  <2> QED
    BY <1>t, <2>1, <2>3, <2>4, <2>5, <2>6, <2>7 DEF DeskInv, UnitTypeOK, UnitHeldOnce
<1> QED
  BY <1>1, <1>2, <1>3, <1>4, <1>5, <1>6, <1>7, <1>8, <1>9 DEF RentalDesk

LEMMA DeskStep == DeskInv /\ [UnitNext]_unitVars => DeskInv'
<1> SUFFICES ASSUME DeskInv, [UnitNext]_unitVars PROVE DeskInv'
  OBVIOUS
<1>1. ASSUME NEW q \in Requests, UnitAbort(q) PROVE DeskInv'
  <2>1. ops[q] # NoOp /\ End(q) /\ UNCHANGED <<unit, listing, lead, sale, offer, rental, serial>>
    BY <1>1 DEF UnitAbort
  <2>2. ops' \in [Requests -> UnitOp] /\ (serial => DeskTurns')
    BY <2>1, DeskEnd
  <2> QED
    BY <2>1, <2>2 DEF DeskInv, UnitTypeOK, UnitHeldOnce, DeskBooks, RowsRefer, ListingsTell, LeadsTell,
                      OffersStand, TenantTells, SaleHas
<1>2. CASE UNCHANGED unitVars
  <2>1. UNCHANGED <<unit, listing, lead, sale, offer, rental, ops, serial>>
    BY <1>2 DEF unitVars
  <2>2. DeskTurns => DeskTurns'
    BY <2>1 DEF DeskTurns, OneHandler, DeskRemembers, Archivable, Activatable
  <2> QED
    BY <2>1, <2>2 DEF DeskInv, UnitTypeOK, UnitHeldOnce, DeskBooks, RowsRefer, ListingsTell, LeadsTell,
                      OffersStand, TenantTells, SaleHas
<1> QED
  BY <1>1, <1>2, SaleDeskKeeps, RentalDeskKeeps DEF UnitNext

LEMMA AlwaysDeskInv == UnitSpec => []DeskInv
BY DeskInitially, DeskStep, PTL DEF UnitSpec

(* No sale refers to the row 0, which DeskAgrees asks for where it means    *)
(* only the listing or only the lead.                                       *)
LEMMA SalesOfOne ==
    ASSUME RowsRefer, ListingsTell, LeadsTell
    PROVE  /\ \A l \in Listings :
                /\ listing[l].status = "reserved" <=> SalesOf(l, 0, {"reserved", "contract_signed"}) # {}
                /\ listing[l].status = "sold" <=> SalesOf(l, 0, {"sold", "handed_over"}) # {}
           /\ \A d \in Leads :
                /\ lead[d].status = "reserved" <=> SalesOf(0, d, {"reserved", "contract_signed"}) # {}
                /\ lead[d].status = "sold" <=> SalesOf(0, d, {"sold", "handed_over"}) # {}
<1>1. 0 \notin Listings /\ 0 \notin Leads
  BY DEF Listings, Leads
<1>2. \A s \in Sales : sale[s].status # "none" => sale[s].listing # 0 /\ sale[s].lead # 0
  BY <1>1 DEF RowsRefer
<1>3. ASSUME NEW l \in Listings
      PROVE  /\ listing[l].status = "reserved" <=> SalesOf(l, 0, {"reserved", "contract_signed"}) # {}
             /\ listing[l].status = "sold" <=> SalesOf(l, 0, {"sold", "handed_over"}) # {}
  BY <1>2 DEF SalesOf, SaleHas, ListingsTell, Pledged, Closing
<1>4. ASSUME NEW d \in Leads
      PROVE  /\ lead[d].status = "reserved" <=> SalesOf(0, d, {"reserved", "contract_signed"}) # {}
             /\ lead[d].status = "sold" <=> SalesOf(0, d, {"sold", "handed_over"}) # {}
  BY <1>2 DEF SalesOf, SaleHas, LeadsTell, Pledged, Closing
<1> QED
  BY <1>3, <1>4

(* Every row keeps its type, however the two desks overlap.                 *)
THEOREM UnitsTyped == UnitSpec => []UnitTypeOK
<1>1. DeskInv => UnitTypeOK
  BY DEF DeskInv
<1> QED
  BY AlwaysDeskInv, <1>1, PTL

(* While handlers take turns, listings and leads tell what became of their  *)
(* sale, an offer stands under a reservation, and the renter is the tenant. *)
THEOREM DesksAgree == UnitSpec => []DeskAgrees
<1>1. ASSUME DeskInv, serial PROVE ListingsAgree /\ TenantAgrees
  <2>1. DeskBooks
    BY <1>1 DEF DeskInv
  <2>2. RowsRefer /\ ListingsTell /\ LeadsTell /\ OffersStand /\ TenantTells
    BY <2>1 DEF DeskBooks
  <2>3. ListingsAgree
    <3>1. ASSUME NEW r \in Rentals, rental[r].status \in RentalHeld
          PROVE  offer[rental[r].offer].status \in {"draft", "published"}
      BY <2>2, <3>1 DEF OffersStand
    <3> QED
      BY <2>2, <3>1, SalesOfOne DEF ListingsAgree
  <2>4. TenantAgrees
    BY <2>2 DEF TenantTells, TenantAgrees, SaleHas
  <2> QED
    BY <2>3, <2>4
<1>2. DeskInv => DeskAgrees
  BY <1>1 DEF DeskAgrees, ListingsAgree, TenantAgrees
<1> QED
  BY AlwaysDeskInv, <1>2, PTL
=============================================================================
