---------------------------------- MODULE Gate ----------------------------------
(***************************************************************************)
(* What the guard at the gate looks up: the parking permits of a vehicle    *)
(* with the date they leave on it (api/internal/security/permits.go,        *)
(* parking.go), and a visitor with the passes issued to him                 *)
(* (api/internal/visitor/service.go).  Handlers are modelled one after the  *)
(* other: none of them locks the row it decides on.                         *)
(*                                                                          *)
(* The vehicle belongs to the tenant who asks for permits, and its property *)
(* lies in the time zone of the database.                                   *)
(***************************************************************************)
EXTENDS Integers, FiniteSets

CONSTANTS
    Permits, Passes,   \* ids of parking_permits and of visitor_passes
    Late, Stay,        \* of a visitor: hours he may be late, hours a visit takes if
                       \* nothing is said (2 and 12 in the code)
    LastDate           \* bound: the last day, or hour, of a behaviour

ASSUME GateAssumption == Late \in Nat /\ Stay \in Nat /\ LastDate \in Nat

Dates  == 0 .. LastDate
NoDate == -1

VARIABLES
    vehicle,   \* vehicles: status, "none" before it exists, permit_until
    permit,    \* permit[p]: status, valid_from, valid_until
    apart,     \* history: the date was set by hand, or two permits were approved at once
    visitor,   \* visitors: status, expected_at, expected_until
    pass,      \* pass[k]: status, valid_until
    now

gateVars == <<vehicle, permit, apart, visitor, pass, now>>

parkingVars == <<vehicle, permit, apart>>
visitVars   == <<visitor, pass>>

-----------------------------------------------------------------------------
(* Parking.  A vehicle that is inactive is not there for its tenant.        *)
Visible == vehicle.status \notin {"none", "inactive"}

With(status) == {p \in Permits : permit[p].status = status}

(* permitSelect: is_active.                                                 *)
InForce(p) == permit[p].status = "approved" /\ permit[p].from <= now /\ now <= permit[p].until

(* A vehicle the tenant removed returns with the date it had.               *)
RegisterTenantVehicle ==
    /\ ~Visible /\ vehicle' = [vehicle EXCEPT !.status = "active"]
    /\ UNCHANGED <<permit, apart, visitVars, now>>

SaveVehicle(status, until) ==
    /\ vehicle.status = "none" => status = "active"
    /\ vehicle' = [status |-> status, until |-> until]
    /\ apart' = (apart \/ until # vehicle.until)
    /\ UNCHANGED <<permit, visitVars, now>>

RemoveTenantVehicle ==
    /\ Visible /\ \A p \in Permits : ~InForce(p)
    /\ vehicle' = [vehicle EXCEPT !.status = "inactive"]
    /\ permit' = [p \in Permits |->
         IF p \in With("requested") THEN [permit[p] EXCEPT !.status = "cancelled"] ELSE permit[p]]
    /\ UNCHANGED <<apart, visitVars, now>>

RequestParkingPermit(p) ==
    /\ Visible /\ permit[p].status = "none"
    /\ With("requested") = {} /\ \A o \in Permits : ~InForce(o)
    /\ \E from \in Dates \cup {NoDate} :
         permit' = [permit EXCEPT ![p] = [status |-> "requested", from |-> from, until |-> NoDate]]
    /\ UNCHANGED <<vehicle, apart, visitVars, now>>

CancelTenantParkingPermit(p) ==
    /\ Visible /\ p \in With("requested")
    /\ permit' = [permit EXCEPT ![p].status = "cancelled"]
    /\ UNCHANGED <<vehicle, apart, visitVars, now>>

(* The date of the permit goes to its vehicle, which is active from then on. *)
Grant(p, from, until) ==
    /\ permit' = [permit EXCEPT ![p] = [status |-> "approved", from |-> from, until |-> until]]
    /\ vehicle' = [status |-> "active", until |-> until]
    /\ apart' = (apart \/ With("approved") \ {p} # {})
    /\ UNCHANGED <<visitVars, now>>

ApproveParkingPermit(p) ==
    /\ p \in With("requested")
    /\ \E from, until \in Dates : from <= until /\ Grant(p, from, until)

(* Dates that are not given stay; only two that are given are compared.     *)
UpdateParkingPermit(p) ==
    /\ p \in With("approved")
    /\ \E from, until \in Dates :
         /\ from <= until \/ from = permit[p].from \/ until = permit[p].until
         /\ Grant(p, from, until)

RejectParkingPermit(p) ==
    /\ p \in With("requested")
    /\ permit' = [permit EXCEPT ![p].status = "rejected"]
    /\ UNCHANGED <<vehicle, apart, visitVars, now>>

(* Mutant of AfterRevoke: the date stays on the vehicle.                    *)
AfterRevokeKept(p) == vehicle.until

(* The date is taken from the vehicle unless another permit is approved.    *)
AfterRevoke(p) == IF With("approved") \ {p} = {} THEN NoDate ELSE vehicle.until

RevokeParkingPermit(p) ==
    /\ p \in With("approved")
    /\ permit' = [permit EXCEPT ![p].status = "revoked"]
    /\ vehicle' = [vehicle EXCEPT !.until = AfterRevoke(p)]
    /\ UNCHANGED <<apart, visitVars, now>>

ParkingPermitSweep ==
    LET Over == {p \in With("approved") : permit[p].until < now} IN
    /\ Over # {}
    /\ permit' = [p \in Permits |-> IF p \in Over THEN [permit[p] EXCEPT !.status = "expired"] ELSE permit[p]]
    /\ UNCHANGED <<vehicle, apart, visitVars, now>>

-----------------------------------------------------------------------------
(* Visitors.                                                                *)
(* Passes of the visitor that are active become what is given; issuePassTx  *)
(* then adds one.                                                           *)
EndPasses(status) == [k \in Passes |-> IF pass[k].status = "active" THEN [pass[k] EXCEPT !.status = status] ELSE pass[k]]

IssuePass(at, until) ==
    \E k \in Passes :
      /\ pass[k].status = "none"
      /\ pass' = [EndPasses("revoked") EXCEPT
                    ![k] = [status |-> "active", until |-> IF until = NoDate THEN at + Stay ELSE until + Late]]

(* A tenant's guest may need the approval of the building.                  *)
RegisterVisitor(at, until) ==
    /\ visitor.status = "none" /\ at >= now - Late /\ (until = NoDate \/ until > at)
    /\ \E status \in {"registered", "pending_approval"} :
         /\ visitor' = [status |-> status, at |-> at, until |-> until]
         /\ IF status = "registered" THEN IssuePass(at, until) ELSE UNCHANGED pass
    /\ UNCHANGED <<parkingVars, now>>

VisitRule ==
    [approve   |-> [from |-> {"pending_approval"}, to |-> "registered"],
     deny      |-> [from |-> {"pending_approval"}, to |-> "denied"],
     check_in  |-> [from |-> {"registered"}, to |-> "checked_in"],
     check_out |-> [from |-> {"checked_in"}, to |-> "checked_out"],
     cancel    |-> [from |-> {"pending_approval", "registered"}, to |-> "cancelled"]]

(* Mutant of PassAfter: a cancellation leaves the pass.                     *)
PassAfterLeft(action) == IF action = "check_in" THEN EndPasses("used") ELSE pass

PassAfter(action) ==
    CASE action = "check_in" -> EndPasses("used")
      [] action = "cancel"   -> EndPasses("revoked")
      [] OTHER               -> pass

(* Staff cancel only what is registered, the tenant also what is pending.   *)
ActOnVisitor(action) ==
    /\ visitor.status \in VisitRule[action].from
    /\ visitor' = [visitor EXCEPT !.status = VisitRule[action].to]
    /\ IF action = "approve" THEN IssuePass(visitor.at, visitor.until) ELSE pass' = PassAfter(action)
    /\ UNCHANGED <<parkingVars, now>>

VisitOver == now - Late > (IF visitor.until = NoDate THEN visitor.at + Stay ELSE visitor.until)

ExpireSweep ==
    LET Over == {k \in Passes : pass[k].status = "active" /\ pass[k].until < now} IN
    /\ visitor' = IF visitor.status \in {"pending_approval", "registered"} /\ VisitOver
                  THEN [visitor EXCEPT !.status = "expired"] ELSE visitor
    /\ pass' = [k \in Passes |-> IF k \in Over THEN [pass[k] EXCEPT !.status = "expired"] ELSE pass[k]]
    /\ UNCHANGED <<parkingVars, now>>

-----------------------------------------------------------------------------
GateTimePasses ==
    /\ now < LastDate /\ now' = now + 1
    /\ UNCHANGED <<parkingVars, visitVars>>

GateIdle ==
    /\ vehicle = [status |-> "none", until |-> NoDate]
    /\ permit = [p \in Permits |-> [status |-> "none", from |-> NoDate, until |-> NoDate]]
    /\ apart = FALSE
    /\ visitor = [status |-> "none", at |-> NoDate, until |-> NoDate]
    /\ pass = [k \in Passes |-> [status |-> "none", until |-> NoDate]]
    /\ now = 0

ParkingNext ==
    \/ RegisterTenantVehicle \/ RemoveTenantVehicle \/ ParkingPermitSweep \/ GateTimePasses
    \/ \E status \in {"active", "inactive", "blacklisted"}, until \in Dates \cup {NoDate} : SaveVehicle(status, until)
    \/ \E p \in Permits :
         \/ RequestParkingPermit(p) \/ CancelTenantParkingPermit(p)
         \/ ApproveParkingPermit(p) \/ UpdateParkingPermit(p) \/ RejectParkingPermit(p) \/ RevokeParkingPermit(p)

VisitNext ==
    \/ \E at \in Dates, until \in Dates \cup {NoDate} : RegisterVisitor(at, until)
    \/ \E action \in DOMAIN VisitRule : ActOnVisitor(action)
    \/ ExpireSweep \/ GateTimePasses

GateSpec == GateIdle /\ [][ParkingNext \/ VisitNext]_gateVars

-----------------------------------------------------------------------------
(* The vehicle shows the date of the permit that is granted, and none that  *)
(* is still to come when none is: after every approval, change, revocation, *)
(* expiry, removal and return, unless somebody wrote the date by hand or    *)
(* two permits of the vehicle were approved at the same time.  It never has *)
(* two requests.                                                            *)
ParkingKept ==
    /\ Cardinality(With("requested")) <= 1
    /\ ~apart =>
         /\ With("approved") = {} => vehicle.until < now
         /\ \A p \in With("approved") : vehicle.until = permit[p].until

(* Whoever approves, cancels, admits or forgets him: a visitor holds a pass *)
(* that is active only while he is expected, one at most, and while he is   *)
(* expected he has it until its time is over.                               *)
VisitKept ==
    LET Active == {k \in Passes : pass[k].status = "active"} IN
    /\ Active # {} => visitor.status = "registered" /\ Cardinality(Active) = 1
    /\ visitor.status = "registered" => \E k \in Passes :
         pass[k].status = "active" \/ (pass[k].status = "expired" /\ pass[k].until < now)

GateKept == ParkingKept /\ VisitKept
=============================================================================
