--------------------------------- MODULE Shifts ---------------------------------
(***************************************************************************)
(* The roster and the attendance of one member of staff (api/internal/      *)
(* workforce): shifts are assigned, copied from week to week and cancelled, *)
(* the hours of a shift are changed, staff clock in and out at once or      *)
(* later from a device that was offline, and a sweep ends the sessions that *)
(* were forgotten.  Members of staff share no row.                          *)
(*                                                                          *)
(* A slot is a date of one shift; dates are DayLength apart.  A repeated    *)
(* clock-in finds its session by the id of the client and changes nothing.  *)
(***************************************************************************)
EXTENDS Transactions, Integers, FiniteSets

CONSTANTS
    Slots,      \* dates on which the shift may be assigned, 1 .. n
    Sessions,   \* ids of attendance records
    DayLength, Early, Grace,  \* a day; how long before a shift one may clock in, and
                              \* after its end the sweep waits (2 and 4 hours in the code)
    Forgotten, Counted,       \* without a shift: the sweep ends a session after the one and
                              \* counts the other (16 and 12 hours in the code)
    Backdate,   \* how far back the clock of a device is believed (24 hours in the code)
    LastTick    \* bound: the end of a behaviour

ASSUME ShiftAssumption ==
    /\ Slots \subseteq Nat \ {0} /\ {DayLength, Early, Grace, Forgotten, Counted, Backdate, LastTick} \subseteq Nat
    /\ Counted <= Forgotten

VARIABLES
    hours,    \* shift_definitions: first hour and length
    roster,   \* roster[s]: status, starts_at, ends_at
    attend,   \* attend[r]: status, the slot (0: none), clock_in_at, clock_out_at, from sync
    tick

shiftVars == <<hours, roster, attend, tick, ops, serial>>

-----------------------------------------------------------------------------
NoDuty     == [status |-> "none", starts |-> 0, ends |-> 0]
NoSession  == [status |-> "none", slot |-> 0, in |-> 0, out |-> 0, synced |-> FALSE]

(* ShiftDefinition.window.                                                  *)
Window(h, s) == [starts |-> s * DayLength + h.first, ends |-> s * DayLength + h.first + h.length]

Duty(h, s) == [status |-> "scheduled", starts |-> Window(h, s).starts, ends |-> Window(h, s).ends]

(* AssignRoster: a cancelled assignment returns, as it was.                 *)
AssignRoster(s) ==
    /\ Calm /\ roster[s].status # "scheduled"
    /\ roster' = [roster EXCEPT ![s] = IF @ = NoDuty THEN Duty(hours, s) ELSE [@ EXCEPT !.status = "scheduled"]]
    /\ UNCHANGED <<hours, attend, tick, ops, serial>>

(* CopyWeek: ON CONFLICT DO NOTHING, cancelled assignments stay.            *)
CopyWeek(n) ==
    /\ Calm
    /\ roster' = [s \in Slots |->
         IF roster[s] = NoDuty /\ s - n \in Slots /\ roster[s - n].status = "scheduled"
         THEN Duty(hours, s) ELSE roster[s]]
    /\ UNCHANGED <<hours, attend, tick, ops, serial>>

(* SaveShift: the assignments of today and later get the new hours.         *)
SaveShift(h) ==
    /\ Calm /\ h # hours /\ hours' = h
    /\ roster' = [s \in Slots |->
         IF roster[s] # NoDuty /\ s >= tick \div DayLength
         THEN [roster[s] EXCEPT !.starts = Window(h, s).starts, !.ends = Window(h, s).ends]
         ELSE roster[s]]
    /\ UNCHANGED <<attend, tick, ops, serial>>

Attended(s) == \E r \in Sessions : attend[r].status # "none" /\ attend[r].slot = s

(* Mutant of Cancellable: whether somebody came is not looked at.           *)
CancellableAny(s) == roster[s] # NoDuty

Cancellable(s) == roster[s] # NoDuty /\ ~Attended(s)

CancelRosterRead(q, s) ==
    /\ Cancellable(s)
    /\ Begin(q, [kind |-> "roster", slot |-> s])
    /\ UNCHANGED <<hours, roster, attend, tick, serial>>

CancelRosterCommit(q) ==
    /\ ops[q].kind = "roster" /\ End(q)
    /\ roster' = [roster EXCEPT ![ops[q].slot].status = "cancelled"]
    /\ UNCHANGED <<hours, attend, tick, serial>>

-----------------------------------------------------------------------------
OnDuty == {r \in Sessions : attend[r].status = "on_duty"}

(* The slot of a session: the one asked for, else the nearest that is near  *)
(* enough, else none.                                                       *)
Near(at) == {s \in Slots : /\ roster[s].status = "scheduled"
                           /\ roster[s].starts - Early <= at /\ at <= roster[s].ends}

Apart(s, at) == IF roster[s].starts >= at THEN roster[s].starts - at ELSE at - roster[s].starts

SlotsFor(at) ==
    LET nearest == {s \in Near(at) : \A t \in Near(at) : Apart(s, at) <= Apart(t, at)} IN
    {s \in Slots : roster[s].status = "scheduled"} \cup (IF nearest = {} THEN {0} ELSE nearest)

ClockInRead(q, r, at) ==
    /\ attend[r] = NoSession /\ OnDuty = {}
    /\ \E s \in SlotsFor(at) :
         Begin(q, [kind |-> "in", session |-> r, slot |-> s, at |-> at, synced |-> at < tick])
    /\ UNCHANGED <<hours, roster, attend, tick, serial>>

(* The unique index of open sessions (uq_attendance_open) and the key of    *)
(* the record refuse a second one.                                          *)
ClockInCommit(q) ==
    LET op == ops[q] IN
    /\ op.kind = "in" /\ OnDuty = {} /\ attend[op.session] = NoSession /\ End(q)
    /\ attend' = [attend EXCEPT ![op.session] =
         [status |-> "on_duty", slot |-> op.slot, in |-> op.at, out |-> 0, synced |-> op.synced]]
    /\ UNCHANGED <<hours, roster, tick, serial>>

(* Mutant of Believed: the clock of the device is taken as it is.           *)
BelievedAny(r, at) == at <= tick

(* When a synced clock-out is believed to have happened.                    *)
Believed(r, at) == at = tick \/ (attend[r].in < at /\ at < tick)

ClockOut(r, at) ==
    /\ Calm /\ r \in OnDuty /\ Believed(r, at)
    /\ attend' = [attend EXCEPT ![r].status = "completed", ![r].out = at]
    /\ UNCHANGED <<hours, roster, tick, ops, serial>>

Overdue(r) ==
    /\ r \in OnDuty
    /\ IF attend[r].slot # 0 THEN tick > roster[attend[r].slot].ends + Grace
       ELSE tick > attend[r].in + Forgotten

AttendanceSweep ==
    /\ Calm /\ \E r \in Sessions : Overdue(r)
    /\ attend' = [r \in Sessions |->
         IF Overdue(r)
         THEN [attend[r] EXCEPT !.status = "auto_closed",
                                !.out = IF attend[r].slot # 0 THEN roster[attend[r].slot].ends
                                          ELSE attend[r].in + Counted]
         ELSE attend[r]]
    /\ UNCHANGED <<hours, roster, tick, ops, serial>>

ShiftAbort(q) ==
    /\ ops[q].kind \in {"roster", "in"} /\ End(q)
    /\ UNCHANGED <<hours, roster, attend, tick, serial>>

TickPasses ==
    /\ tick < LastTick /\ tick' = tick + 1
    /\ UNCHANGED <<hours, roster, attend, ops, serial>>

-----------------------------------------------------------------------------
Hours == [first : 0 .. DayLength - 1, length : 1 .. DayLength]

ShiftIdle ==
    /\ hours = [first |-> 0, length |-> 1]
    /\ roster = [s \in Slots |-> NoDuty]
    /\ attend = [r \in Sessions |-> NoSession]
    /\ tick = DayLength

ShiftInit == ShiftIdle /\ TxInit

ShiftNext ==
    \/ \E s \in Slots : AssignRoster(s) \/ CopyWeek(s)
    \/ \E h \in Hours : SaveShift(h)
    \/ \E q \in Requests :
         \/ \E s \in Slots : CancelRosterRead(q, s)
         \/ \E r \in Sessions, at \in tick - Backdate + 1 .. tick : ClockInRead(q, r, at)
         \/ CancelRosterCommit(q) \/ ClockInCommit(q) \/ ShiftAbort(q)
    \/ \E r \in Sessions, at \in 0 .. tick : ClockOut(r, at)
    \/ AttendanceSweep \/ TickPasses

ShiftSpec == ShiftInit /\ [][ShiftNext]_shiftVars

-----------------------------------------------------------------------------
(* Two sessions that were begun online do not count the same time twice.    *)
Disjoint(r, p) ==
    \/ attend[r].synced \/ attend[p].synced
    \/ attend[r].status # "on_duty" /\ attend[r].out <= attend[p].in
    \/ attend[p].status # "on_duty" /\ attend[p].out <= attend[r].in

(* A member of staff is on duty once, however clock-ins overlap.  When no   *)
(* two handlers overlap, whatever the hours of the shifts become and        *)
(* whoever ends a session: sessions begun online do not overlap, one that   *)
(* staff ended did not end before it began, and the shift somebody came for *)
(* is not cancelled.                                                        *)
ShiftsKept ==
    LET Held == {r \in Sessions : attend[r].status # "none"} IN
    /\ Cardinality(OnDuty) <= 1
    /\ serial =>
         /\ \A r, p \in Held : r # p => Disjoint(r, p)
         /\ \A r \in Held :
              /\ attend[r].status = "completed" => attend[r].in <= attend[r].out /\ attend[r].out <= tick
              /\ attend[r].slot # 0 => roster[attend[r].slot].status = "scheduled"
=============================================================================
