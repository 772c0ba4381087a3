---------------------------- MODULE Premises_proofs ----------------------------
(***************************************************************************)
(* Theorems about the upkeep of a building and the people in it: Gate,      *)
(* Shifts, Notices, CleaningPlan and MaintenancePlan, and about the scenes  *)
(* of MCOperations that are made of them.                                   *)
(*                                                                          *)
(* The argument is the same for the components whose handlers read before   *)
(* they write.  The typing of the rows holds whatever happens.  The rest    *)
(* holds while handlers take turns: at most one operation is under way, and *)
(* what it read still is so (the ...Turns and ...ReadStands below), hence   *)
(* its commit is as good as one step.                                       *)
(***************************************************************************)
EXTENDS MCOperations, FiniteSetTheorems, TLAPS

-----------------------------------------------------------------------------
(* Gate: parking.                                                           *)

VehicleRow == [status : {"none", "active", "inactive", "blacklisted"}, until : Int]
PermitRow  == [status : {"none", "requested", "approved", "rejected", "cancelled", "revoked", "expired"},
               from : Int, until : Int]
VisitorRow == [status : {"none", "registered", "pending_approval", "denied", "checked_in",
                         "checked_out", "cancelled", "expired"},
               at : Int, until : Int]
PassRow    == [status : {"none", "active", "revoked", "used", "expired"}, until : Int]

ParkingTyped ==
    /\ vehicle \in VehicleRow /\ permit \in [Permits -> PermitRow] /\ apart \in BOOLEAN
    /\ now \in Nat

VisitTyped ==
    /\ visitor \in VisitorRow /\ pass \in [Passes -> PassRow] /\ now \in Nat

(* The vehicle shows the date of what is granted.                           *)
OneRequested == \A p, o \in With("requested") : p = o

DateShown ==
    ~apart =>
      /\ With("approved") = {} => vehicle.until < now
      /\ \A p \in With("approved") : vehicle.until = permit[p].until

ParkingInv == ParkingTyped /\ OneRequested /\ DateShown

(* A pass ends when its visit is over for the sweep.                        *)
PassEnd == IF visitor.until = NoDate THEN visitor.at + Stay ELSE visitor.until + Late

ActivePasses == {k \in Passes : pass[k].status = "active"}

OnePass ==
    /\ \A k, m \in ActivePasses : k = m
    /\ \A k \in ActivePasses : visitor.status = "registered" /\ pass[k].until = PassEnd

PassThere ==
    visitor.status = "registered" => \E k \in Passes :
       pass[k].status = "active" \/ (pass[k].status = "expired" /\ pass[k].until < now)

VisitInv == VisitTyped /\ OnePass /\ PassThere

LEMMA AtMostOne ==
    ASSUME NEW S, \A x, y \in S : x = y
    PROVE  Cardinality(S) <= 1 /\ (S # {} => Cardinality(S) = 1)
<1>1. CASE S = {}
  BY <1>1, FS_EmptySet
<1>2. CASE S # {}
  <2>1. PICK x \in S : S = {x}
    BY <1>2
  <2> QED
    BY <2>1, FS_Singleton
<1> QED
  BY <1>1, <1>2

LEMMA GateInitially == GateIdle => ParkingInv /\ VisitInv
<1> SUFFICES ASSUME GateIdle PROVE ParkingInv /\ VisitInv
  OBVIOUS
<1> USE DEF GateIdle, NoDate
<1>1. ParkingTyped
  <2>1. vehicle \in VehicleRow
    BY DEF VehicleRow
  <2>2. [status |-> "none", from |-> NoDate, until |-> NoDate] \in PermitRow
    BY DEF PermitRow
  <2> QED
    BY <2>1, <2>2 DEF ParkingTyped
<1>9. VisitTyped
  BY DEF VisitTyped, VisitorRow, PassRow
<1>2. OneRequested /\ DateShown
  BY DEF OneRequested, DateShown, With
<1>3. OnePass /\ PassThere
  BY DEF OnePass, PassThere, ActivePasses
<1> QED
  BY <1>1, <1>9, <1>2, <1>3 DEF ParkingInv, VisitInv

(* A permit that gets dates is the one that is granted.                     *)
LEMMA GrantKeeps ==
    ASSUME ParkingInv, NEW p \in Permits, NEW from \in Dates, NEW until \in Dates,
           permit[p].status \in {"requested", "approved"}, Grant(p, from, until)
    PROVE  ParkingInv'
<1> DEFINE row == [status |-> "approved", from |-> from, until |-> until]
<1>0. ParkingTyped /\ OneRequested /\ DateShown /\ from \in Int /\ until \in Int
  BY DEF ParkingInv, Dates
<1>1. row \in PermitRow /\ row.status = "approved" /\ row.until = until
  BY <1>0 DEF PermitRow
<1> HIDE DEF row
<1>2. /\ permit' = [permit EXCEPT ![p] = row] /\ vehicle' = [status |-> "active", until |-> until]
      /\ apart' = (apart \/ With("approved") \ {p} # {}) /\ now' = now
  BY DEF Grant, row
<1>3. ParkingTyped'
  BY <1>0, <1>1, <1>2 DEF ParkingTyped, VehicleRow
<1>4. /\ permit'[p] = row /\ \A o \in Permits \ {p} : permit'[o] = permit[o]
      /\ With("requested")' \subseteq With("requested")
  BY <1>0, <1>1, <1>2 DEF ParkingTyped, With
<1>5. OneRequested'
  BY <1>0, <1>4 DEF OneRequested
<1>6. DateShown'
  <2> SUFFICES ASSUME ~apart' PROVE With("approved")' = {p} /\ vehicle'.until = permit'[p].until
    BY DEF DateShown
  <2>1. With("approved") \subseteq {p}
    BY <1>2
  <2>2. With("approved")' = {p}
    BY <1>1, <1>4, <2>1 DEF With
  <2> QED
    BY <1>1, <1>2, <1>4, <2>2
<1> QED
  BY <1>3, <1>5, <1>6 DEF ParkingInv

LEMMA ParkingStep == ParkingInv /\ [ParkingNext]_gateVars => ParkingInv'
<1> SUFFICES ASSUME ParkingInv, [ParkingNext]_gateVars PROVE ParkingInv'
  OBVIOUS
<1>0. ParkingTyped /\ OneRequested /\ DateShown
  BY DEF ParkingInv
<1>1. CASE RegisterTenantVehicle
  <2>1. /\ vehicle' = [vehicle EXCEPT !.status = "active"] /\ permit' = permit /\ apart' = apart /\ now' = now
    BY <1>1 DEF RegisterTenantVehicle
  <2>2. ParkingTyped' /\ vehicle'.until = vehicle.until
    BY <1>0, <2>1 DEF ParkingTyped, VehicleRow
  <2> QED
    BY <1>0, <2>1, <2>2 DEF ParkingInv, OneRequested, DateShown, With
<1>2. CASE RemoveTenantVehicle
  <2>1. /\ vehicle' = [vehicle EXCEPT !.status = "inactive"] /\ apart' = apart /\ now' = now
        /\ permit' = [p \in Permits |->
             IF p \in With("requested") THEN [permit[p] EXCEPT !.status = "cancelled"] ELSE permit[p]]
    BY <1>2 DEF RemoveTenantVehicle
  <2>2. \A p \in Permits : /\ permit'[p] \in PermitRow /\ permit'[p].until = permit[p].until
                           /\ permit'[p].status = IF p \in With("requested") THEN "cancelled" ELSE permit[p].status
    BY <1>0, <2>1 DEF ParkingTyped, PermitRow
  <2>3. permit' \in [Permits -> PermitRow]
    <3> DEFINE f(p) == IF p \in With("requested") THEN [permit[p] EXCEPT !.status = "cancelled"] ELSE permit[p]
    <3>1. permit' = [p \in Permits |-> f(p)]
      BY <2>1
    <3> HIDE DEF f
    <3> QED
      BY <2>2, <3>1
  <2>4. ParkingTyped' /\ vehicle'.until = vehicle.until
    BY <1>0, <2>1, <2>3 DEF ParkingTyped, VehicleRow
  <2>5. With("approved")' = With("approved") /\ With("requested")' = {}
    BY <2>2 DEF With
  <2> QED
    BY <1>0, <2>1, <2>2, <2>4, <2>5 DEF ParkingInv, OneRequested, DateShown, With
<1>3. CASE ParkingPermitSweep
  <2> DEFINE Lapsed == {p \in With("approved") : permit[p].until < now}
  <2>1. /\ vehicle' = vehicle /\ apart' = apart /\ now' = now /\ Lapsed # {}
        /\ permit' = [p \in Permits |-> IF p \in Lapsed THEN [permit[p] EXCEPT !.status = "expired"] ELSE permit[p]]
    BY <1>3 DEF ParkingPermitSweep
  <2>2. \A p \in Permits : /\ permit'[p] \in PermitRow /\ permit'[p].until = permit[p].until
                           /\ permit'[p].status = IF p \in Lapsed THEN "expired" ELSE permit[p].status
    BY <1>0, <2>1 DEF ParkingTyped, PermitRow
  <2>3. permit' \in [Permits -> PermitRow]
    <3> DEFINE f(p) == IF p \in Lapsed THEN [permit[p] EXCEPT !.status = "expired"] ELSE permit[p]
    <3>1. permit' = [p \in Permits |-> f(p)]
      BY <2>1
    <3> HIDE DEF f
    <3> QED
      BY <2>2, <3>1
  <2>4. ParkingTyped'
    BY <1>0, <2>1, <2>3 DEF ParkingTyped
  <2>5. With("approved")' = With("approved") \ Lapsed /\ With("requested")' = With("requested")
    BY <2>2 DEF With
  <2>6. ~apart => vehicle.until < now
    BY <1>0, <2>1 DEF DateShown
  <2>7. \A p \in With("approved")' : p \in Permits /\ p \in With("approved")
    BY <2>5 DEF With
  <2> QED
    BY <1>0, <2>1, <2>2, <2>4, <2>5, <2>6, <2>7 DEF ParkingInv, OneRequested, DateShown
<1>4. CASE GateTimePasses
  <2>1. vehicle' = vehicle /\ permit' = permit /\ apart' = apart /\ now' = now + 1
    BY <1>4 DEF GateTimePasses, parkingVars
  <2>2. ParkingTyped' /\ now \in Nat /\ vehicle.until \in Int
    BY <1>0, <2>1 DEF ParkingTyped, VehicleRow
  <2> QED
    BY <1>0, <2>1, <2>2 DEF ParkingInv, OneRequested, DateShown, With
<1>5. ASSUME NEW status \in {"active", "inactive", "blacklisted"}, NEW until \in Dates \cup {NoDate},
             SaveVehicle(status, until)
      PROVE  ParkingInv'
  <2>1. /\ vehicle' = [status |-> status, until |-> until] /\ permit' = permit /\ now' = now
        /\ apart' = (apart \/ until # vehicle.until)
    BY <1>5 DEF SaveVehicle
  <2>2. until \in Int /\ ParkingTyped' /\ vehicle'.until = until
    BY <1>0, <2>1 DEF ParkingTyped, VehicleRow, Dates, NoDate
  <2> QED
    BY <1>0, <2>1, <2>2 DEF ParkingInv, OneRequested, DateShown, With
<1>6. ASSUME NEW p \in Permits,
             \/ RequestParkingPermit(p) \/ CancelTenantParkingPermit(p)
             \/ RejectParkingPermit(p) \/ RevokeParkingPermit(p)
      PROVE  ParkingInv'
  <2> DEFINE Becomes(row) ==
        /\ permit' = [permit EXCEPT ![p] = row] /\ row \in PermitRow /\ row.status # "approved"
        /\ row.status = "requested" => With("requested") = {}
        /\ apart' = apart /\ now' = now
        /\ \/ vehicle' = vehicle /\ p \notin With("approved")
           \/ p \in With("approved") /\ vehicle' = [vehicle EXCEPT !.until = AfterRevoke(p)]
  <2>1. PICK row : Becomes(row)
    <3>0. permit[p] \in PermitRow
      BY <1>0 DEF ParkingTyped
    <3>1. CASE RequestParkingPermit(p)
      <4>1. PICK from \in Dates \cup {NoDate} :
              permit' = [permit EXCEPT ![p] = [status |-> "requested", from |-> from, until |-> NoDate]]
        BY <3>1 DEF RequestParkingPermit
      <4>2. [status |-> "requested", from |-> from, until |-> NoDate] \in PermitRow
        BY DEF PermitRow, Dates, NoDate
      <4>3. p \notin With("approved") /\ With("requested") = {} /\ vehicle' = vehicle /\ apart' = apart /\ now' = now
        BY <3>1 DEF RequestParkingPermit, With
      <4>4. Becomes([status |-> "requested", from |-> from, until |-> NoDate])
        BY <4>1, <4>2, <4>3
      <4> QED
        BY <4>4
    <3>2. CASE CancelTenantParkingPermit(p)
      <4>1. /\ permit' = [permit EXCEPT ![p] = [permit[p] EXCEPT !.status = "cancelled"]]
            /\ vehicle' = vehicle /\ apart' = apart /\ now' = now /\ p \notin With("approved")
        BY <3>2 DEF CancelTenantParkingPermit, With
      <4>2. /\ [permit[p] EXCEPT !.status = "cancelled"] \in PermitRow
            /\ [permit[p] EXCEPT !.status = "cancelled"].status = "cancelled"
        BY <3>0 DEF PermitRow
      <4>3. Becomes([permit[p] EXCEPT !.status = "cancelled"])
        BY <4>1, <4>2
      <4> QED
        BY <4>3
    <3>3. CASE RejectParkingPermit(p)
      <4>1. /\ permit' = [permit EXCEPT ![p] = [permit[p] EXCEPT !.status = "rejected"]]
            /\ vehicle' = vehicle /\ apart' = apart /\ now' = now /\ p \notin With("approved")
        BY <3>3 DEF RejectParkingPermit, With
      <4>2. /\ [permit[p] EXCEPT !.status = "rejected"] \in PermitRow
            /\ [permit[p] EXCEPT !.status = "rejected"].status = "rejected"
        BY <3>0 DEF PermitRow
      <4>3. Becomes([permit[p] EXCEPT !.status = "rejected"])
        BY <4>1, <4>2
      <4> QED
        BY <4>3
    <3>4. CASE RevokeParkingPermit(p)
      <4>1. /\ permit' = [permit EXCEPT ![p] = [permit[p] EXCEPT !.status = "revoked"]]
            /\ vehicle' = [vehicle EXCEPT !.until = AfterRevoke(p)]
            /\ apart' = apart /\ now' = now /\ p \in With("approved")
        BY <3>4 DEF RevokeParkingPermit
      <4>2. /\ [permit[p] EXCEPT !.status = "revoked"] \in PermitRow
            /\ [permit[p] EXCEPT !.status = "revoked"].status = "revoked"
        BY <3>0 DEF PermitRow
      <4>3. Becomes([permit[p] EXCEPT !.status = "revoked"])
        BY <4>1, <4>2
      <4> QED
        BY <4>3
    <3> QED
      BY <1>6, <3>1, <3>2, <3>3, <3>4
  <2>2. /\ permit' \in [Permits -> PermitRow] /\ permit'[p] = row
        /\ \A o \in Permits \ {p} : permit'[o] = permit[o]
    BY <1>0, <2>1 DEF ParkingTyped
  <2>3. With("approved")' = With("approved") \ {p}
    BY <2>1, <2>2 DEF With
  <2>4. OneRequested'
    BY <1>0, <2>1, <2>2 DEF OneRequested, With
  <2>5. /\ vehicle' \in VehicleRow
        /\ vehicle'.until = IF p \in With("approved") THEN AfterRevoke(p) ELSE vehicle.until
    <3>1. AfterRevoke(p) \in Int /\ vehicle \in VehicleRow
      BY <1>0 DEF ParkingTyped, VehicleRow, AfterRevoke, NoDate
    <3> QED
      BY <2>1, <3>1 DEF VehicleRow
  <2>6. ParkingTyped'
    BY <1>0, <2>1, <2>2, <2>5 DEF ParkingTyped
  <2>7. DateShown'
    <3> SUFFICES ASSUME ~apart'
                 PROVE  /\ With("approved")' = {} => vehicle'.until < now'
                        /\ \A o \in With("approved")' : vehicle'.until = permit'[o].until
      BY DEF DateShown
    <3>1. ~apart /\ now' = now /\ now \in Nat
      BY <1>0, <2>1 DEF ParkingTyped
    <3>2. \A o \in With("approved")' : o \in Permits \ {p} /\ o \in With("approved") /\ permit'[o] = permit[o]
      BY <2>2, <2>3 DEF With
    <3>3. CASE With("approved")' = {}
      BY <1>0, <2>3, <2>5, <3>1, <3>3 DEF DateShown, AfterRevoke, NoDate
    <3>4. CASE With("approved")' # {}
      <4>1. vehicle'.until = vehicle.until
        BY <2>3, <2>5, <3>4 DEF AfterRevoke
      <4> QED
        BY <1>0, <3>1, <3>2, <3>4, <4>1 DEF DateShown
    <3> QED
      BY <3>3, <3>4
  <2> QED
    BY <2>4, <2>6, <2>7 DEF ParkingInv
<1>7. ASSUME NEW p \in Permits, ApproveParkingPermit(p) \/ UpdateParkingPermit(p)
      PROVE  ParkingInv'
  <2>1. PICK from \in Dates, until \in Dates : Grant(p, from, until)
    BY <1>7 DEF ApproveParkingPermit, UpdateParkingPermit
  <2>2. permit[p].status \in {"requested", "approved"}
    BY <1>7 DEF ApproveParkingPermit, UpdateParkingPermit, With
  <2> QED
    BY <2>1, <2>2, GrantKeeps
<1>8. CASE UNCHANGED gateVars
  BY <1>8 DEF gateVars, ParkingInv, ParkingTyped, OneRequested, DateShown, With
<1> QED
  BY <1>1, <1>2, <1>3, <1>4, <1>5, <1>6, <1>7, <1>8 DEF ParkingNext

-----------------------------------------------------------------------------
(* Gate: visitors.                                                          *)

LEMMA EndedPasses ==
    ASSUME VisitTyped, NEW status \in {"revoked", "used"}
    PROVE  /\ EndPasses(status) \in [Passes -> PassRow]
           /\ \A k \in Passes : EndPasses(status)[k].status # "active"
<1> DEFINE f(k) == IF pass[k].status = "active" THEN [pass[k] EXCEPT !.status = status] ELSE pass[k]
<1>1. \A k \in Passes : f(k) \in PassRow /\ f(k).status # "active"
  <2> TAKE k \in Passes
  <2>1. pass[k] \in PassRow
    BY DEF VisitTyped
  <2> QED
    BY <2>1 DEF PassRow
<1>2. EndPasses(status) = [k \in Passes |-> f(k)]
  BY DEF EndPasses
<1> HIDE DEF f
<1> QED
  BY <1>1, <1>2

(* Issued: the visitor's only active pass.                                  *)
LEMMA IssueKeeps ==
    ASSUME VisitInv, visitor' \in VisitorRow, visitor'.status = "registered", now' = now,
           visitor'.at \in Int, visitor'.until \in Int, IssuePass(visitor'.at, visitor'.until)
    PROVE  VisitInv'
<1> DEFINE until == IF visitor'.until = NoDate THEN visitor'.at + Stay ELSE visitor'.until + Late
           row == [status |-> "active", until |-> until]
<1>0. VisitTyped /\ Stay \in Nat /\ Late \in Nat
  BY GateAssumption DEF VisitInv
<1>1. row \in PassRow /\ row.status = "active" /\ row.until = PassEnd'
  BY <1>0 DEF PassRow, PassEnd
<1> HIDE DEF row
<1>2. PICK k \in Passes : pass' = [EndPasses("revoked") EXCEPT ![k] = row]
  BY DEF IssuePass, row
<1>3. /\ pass' \in [Passes -> PassRow] /\ pass'[k] = row
      /\ \A m \in Passes \ {k} : pass'[m].status # "active"
  BY <1>0, <1>1, <1>2, EndedPasses
<1>4. VisitTyped'
  BY <1>0, <1>3 DEF VisitTyped
<1>5. ActivePasses' = {k}
  BY <1>1, <1>3 DEF ActivePasses
<1> QED
  BY <1>1, <1>3, <1>4, <1>5 DEF VisitInv, OnePass, PassThere

(* Nobody is expected, and no pass is active.                               *)
LEMMA NobodyExpected ==
    ASSUME VisitTyped', visitor'.status # "registered", ActivePasses' = {}
    PROVE  VisitInv'
BY DEF VisitInv, OnePass, PassThere

LEMMA VisitStep == VisitInv /\ [VisitNext]_gateVars => VisitInv'
<1> SUFFICES ASSUME VisitInv, [VisitNext]_gateVars PROVE VisitInv'
  OBVIOUS
<1>0. VisitTyped /\ OnePass /\ PassThere /\ Late \in Nat /\ Stay \in Nat
  BY GateAssumption DEF VisitInv
<1>1. ASSUME NEW at \in Dates, NEW until \in Dates \cup {NoDate}, RegisterVisitor(at, until)
      PROVE  VisitInv'
  <2>1. PICK status \in {"registered", "pending_approval"} :
          /\ visitor' = [status |-> status, at |-> at, until |-> until]
          /\ IF status = "registered" THEN IssuePass(at, until) ELSE UNCHANGED pass
    BY <1>1 DEF RegisterVisitor
  <2>2. visitor.status = "none" /\ now' = now
    BY <1>1 DEF RegisterVisitor
  <2>3. /\ visitor' \in VisitorRow /\ visitor'.status = status /\ visitor'.at = at /\ visitor'.until = until
        /\ at \in Int /\ until \in Int
    BY <2>1 DEF VisitorRow, Dates, NoDate
  <2>4. CASE status = "registered"
    BY <2>1, <2>2, <2>3, <2>4, IssueKeeps
  <2>5. CASE status # "registered"
    <3>1. ActivePasses' = {}
      BY <1>0, <2>1, <2>2, <2>5 DEF OnePass, ActivePasses
    <3> QED
      BY <1>0, <2>1, <2>2, <2>3, <2>5, <3>1, NobodyExpected DEF VisitTyped
  <2> QED
    BY <2>4, <2>5
<1>2. ASSUME NEW action \in DOMAIN VisitRule, ActOnVisitor(action)
      PROVE  VisitInv'
  <2>1. /\ visitor.status \in VisitRule[action].from /\ now' = now
        /\ visitor' = [visitor EXCEPT !.status = VisitRule[action].to]
        /\ IF action = "approve" THEN IssuePass(visitor.at, visitor.until) ELSE pass' = PassAfter(action)
    BY <1>2 DEF ActOnVisitor
  <2>2. /\ action \in {"approve", "deny", "check_in", "check_out", "cancel"}
        /\ VisitRule[action].to \in {"registered", "denied", "checked_in", "checked_out", "cancelled"}
        /\ VisitRule[action].to = "registered" <=> action = "approve"
        /\ action \in {"approve", "deny"} => visitor.status = "pending_approval"
        /\ action = "check_out" => visitor.status = "checked_in"
    BY <2>1 DEF VisitRule
  <2>3. /\ visitor' \in VisitorRow /\ visitor'.status = VisitRule[action].to
        /\ visitor'.at = visitor.at /\ visitor'.until = visitor.until
        /\ visitor.at \in Int /\ visitor.until \in Int
    BY <1>0, <2>1, <2>2 DEF VisitTyped, VisitorRow
  <2>4. CASE action = "approve"
    BY <2>1, <2>2, <2>3, <2>4, IssueKeeps
  <2>5. CASE action # "approve"
    <3>1. pass' \in [Passes -> PassRow] /\ ActivePasses' = {}
      <4>1. CASE action = "check_in"
        <5>1. pass' = EndPasses("used")
          BY <2>1, <4>1 DEF PassAfter
        <5> QED
          BY <1>0, <5>1, EndedPasses DEF ActivePasses
      <4>2. CASE action = "cancel"
        <5>1. pass' = EndPasses("revoked")
          BY <2>1, <4>2 DEF PassAfter
        <5> QED
          BY <1>0, <5>1, EndedPasses DEF ActivePasses
      <4>3. CASE action \in {"deny", "check_out"}
        <5>1. pass' = pass /\ visitor.status # "registered"
          BY <2>1, <2>2, <4>3 DEF PassAfter
        <5> QED
          BY <1>0, <5>1 DEF ActivePasses, OnePass, VisitTyped
      <4> QED
        BY <2>2, <2>5, <4>1, <4>2, <4>3
    <3>2. VisitTyped'
      BY <1>0, <2>1, <2>3, <3>1 DEF VisitTyped
    <3> QED
      BY <2>2, <2>3, <2>5, <3>1, <3>2, NobodyExpected
  <2> QED
    BY <2>4, <2>5
<1>3. CASE ExpireSweep
  <2> DEFINE Lapsed == {k \in Passes : pass[k].status = "active" /\ pass[k].until < now}
             f(k) == IF k \in Lapsed THEN [pass[k] EXCEPT !.status = "expired"] ELSE pass[k]
             gone == visitor.status \in {"pending_approval", "registered"} /\ VisitOver
  <2>1. /\ visitor' = IF gone THEN [visitor EXCEPT !.status = "expired"] ELSE visitor
        /\ pass' = [k \in Passes |-> f(k)] /\ now' = now
    BY <1>3 DEF ExpireSweep
  <2>2. \A k \in Passes : f(k) \in PassRow /\ f(k).until = pass[k].until
                          /\ f(k).status = IF k \in Lapsed THEN "expired" ELSE pass[k].status
    BY <1>0 DEF VisitTyped, PassRow
  <2>3. /\ visitor' \in VisitorRow /\ visitor'.status = IF gone THEN "expired" ELSE visitor.status
        /\ visitor'.at = visitor.at /\ visitor'.until = visitor.until
    BY <1>0, <2>1 DEF VisitTyped, VisitorRow
  <2>4. gone => \A k \in ActivePasses : k \in Lapsed
    <3> SUFFICES ASSUME VisitOver, NEW k \in ActivePasses PROVE pass[k].until < now
      BY DEF ActivePasses
    <3>1. /\ pass[k].until = PassEnd /\ visitor.at \in Int /\ visitor.until \in Int /\ now \in Nat
      BY <1>0 DEF OnePass, VisitTyped, VisitorRow
    <3> QED
      BY <1>0, <3>1 DEF PassEnd, VisitOver
  <2> HIDE DEF f, gone
  <2>5. VisitTyped' /\ \A k \in Passes : pass'[k] = f(k)
    BY <1>0, <2>1, <2>2, <2>3 DEF VisitTyped
  <2>6. ActivePasses' = ActivePasses \ Lapsed
    BY <2>2, <2>5 DEF ActivePasses
  <2>7. OnePass'
    <3>1. PassEnd' = PassEnd
      BY <2>3 DEF PassEnd
    <3>2. \A k \in ActivePasses' : k \in Passes /\ k \in ActivePasses /\ ~gone /\ pass'[k].until = pass[k].until
      BY <2>2, <2>4, <2>5, <2>6 DEF ActivePasses
    <3> QED
      BY <1>0, <2>3, <2>6, <3>1, <3>2 DEF OnePass
  <2>8. PassThere'
    <3> SUFFICES ASSUME visitor.status = "registered"
                 PROVE  \E k \in Passes : pass'[k].status = "active"
                                          \/ (pass'[k].status = "expired" /\ pass'[k].until < now)
      BY <2>1, <2>3 DEF PassThere
    <3>1. PICK k \in Passes : pass[k].status = "active" \/ (pass[k].status = "expired" /\ pass[k].until < now)
      BY <1>0 DEF PassThere
    <3> QED
      BY <2>2, <2>5, <3>1
  <2> QED
    BY <2>5, <2>7, <2>8 DEF VisitInv
<1>4. CASE GateTimePasses
  <2>1. visitor' = visitor /\ pass' = pass /\ now' = now + 1 /\ now \in Nat
    BY <1>0, <1>4 DEF GateTimePasses, visitVars, VisitTyped
  <2>2. VisitTyped' /\ OnePass'
    BY <1>0, <2>1 DEF VisitTyped, OnePass, ActivePasses, PassEnd
  <2>3. \A k \in Passes : pass[k].until \in Int
    BY <1>0 DEF VisitTyped, PassRow
  <2>4. PassThere'
    BY <1>0, <2>1, <2>3 DEF PassThere
  <2> QED
    BY <2>2, <2>4 DEF VisitInv
<1>5. CASE UNCHANGED gateVars
  BY <1>0, <1>5 DEF gateVars, VisitInv, VisitTyped, OnePass, PassThere, ActivePasses, PassEnd
<1> QED
  BY <1>1, <1>2, <1>3, <1>4, <1>5 DEF VisitNext

(* The other half of the gate stands still.                                 *)
LEMMA ParkingApart ==
    ASSUME ParkingInv, VisitNext PROVE ParkingInv'
<1>1. CASE GateTimePasses
  BY <1>1, ParkingStep DEF ParkingNext
<1>2. CASE ~GateTimePasses
  <2>1. UNCHANGED <<parkingVars, now>>
    BY <1>2 DEF VisitNext, RegisterVisitor, ActOnVisitor, ExpireSweep
  <2> QED
    BY <2>1 DEF parkingVars, ParkingInv, ParkingTyped, OneRequested, DateShown, With
<1> QED
  BY <1>1, <1>2

LEMMA VisitApart ==
    ASSUME VisitInv, ParkingNext PROVE VisitInv'
<1>1. CASE GateTimePasses
  BY <1>1, VisitStep DEF VisitNext
<1>2. CASE ~GateTimePasses
  <2>1. UNCHANGED <<visitVars, now>>
    <3>1. ASSUME NEW p \in Permits, ApproveParkingPermit(p) \/ UpdateParkingPermit(p)
          PROVE  UNCHANGED <<visitVars, now>>
      BY <3>1 DEF ApproveParkingPermit, UpdateParkingPermit, Grant
    <3>2. ASSUME NEW p \in Permits, ~ApproveParkingPermit(p), ~UpdateParkingPermit(p),
                 \/ RequestParkingPermit(p) \/ CancelTenantParkingPermit(p)
                 \/ ApproveParkingPermit(p) \/ UpdateParkingPermit(p) \/ RejectParkingPermit(p)
                 \/ RevokeParkingPermit(p)
          PROVE  UNCHANGED <<visitVars, now>>
      BY <3>2 DEF RequestParkingPermit, CancelTenantParkingPermit, RejectParkingPermit, RevokeParkingPermit
    <3>3. ASSUME RegisterTenantVehicle \/ RemoveTenantVehicle \/ ParkingPermitSweep
          PROVE  UNCHANGED <<visitVars, now>>
      BY <3>3 DEF RegisterTenantVehicle, RemoveTenantVehicle, ParkingPermitSweep
    <3>4. ASSUME NEW status, NEW until, SaveVehicle(status, until)
          PROVE  UNCHANGED <<visitVars, now>>
      BY <3>4 DEF SaveVehicle
    <3> QED
      BY <1>2, <3>1, <3>2, <3>3, <3>4 DEF ParkingNext
  <2> QED
    BY <2>1 DEF visitVars, VisitInv, VisitTyped, OnePass, PassThere, ActivePasses, PassEnd
<1> QED
  BY <1>1, <1>2

GateInv == ParkingInv /\ VisitInv

LEMMA GateStep == GateInv /\ [ParkingNext \/ VisitNext]_gateVars => GateInv'
BY ParkingStep, VisitStep, ParkingApart, VisitApart DEF GateInv

LEMMA GateIsKept == GateInv => GateKept
<1> SUFFICES ASSUME GateInv PROVE GateKept
  OBVIOUS
<1> USE DEF GateInv, ParkingInv, VisitInv
<1>1. Cardinality(With("requested")) <= 1
  BY AtMostOne DEF OneRequested
<1>2. ActivePasses # {} => visitor.status = "registered" /\ Cardinality(ActivePasses) = 1
  BY AtMostOne DEF OnePass
<1> QED
  BY <1>1, <1>2 DEF GateKept, ParkingKept, VisitKept, DateShown, PassThere, ActivePasses

(* A vehicle shows the date of the permit that is granted, and a visitor    *)
(* has a pass exactly while he is expected.                                 *)
THEOREM GateAgrees == GateSpec => []GateKept
<1>1. GateIdle => GateInv
  BY GateInitially DEF GateInv
<1> QED
  BY <1>1, GateStep, GateIsKept, PTL DEF GateSpec

-----------------------------------------------------------------------------
(* Shifts.                                                                  *)

HoursRow   == [first : Int, length : Int]
DutyRow    == [status : {"none", "scheduled", "cancelled"}, starts : Int, ends : Int]
SessionRow == [status : {"none", "on_duty", "completed", "auto_closed"}, slot : Slots \cup {0},
               in : Int, out : Int, synced : BOOLEAN]

RosterOp  == [kind : {"roster"}, slot : Slots]
ClockInOp == [kind : {"in"}, session : Sessions, slot : Slots \cup {0}, at : Int, synced : BOOLEAN]
ShiftOps  == {NoOp} \cup RosterOp \cup ClockInOp

ShiftTyped ==
    /\ hours \in HoursRow /\ roster \in [Slots -> DutyRow] /\ attend \in [Sessions -> SessionRow]
    /\ tick \in Nat /\ serial \in BOOLEAN /\ ops \in [Requests -> ShiftOps]

HeldSessions == {r \in Sessions : attend[r].status # "none"}

OneOnDuty == \A r, p \in OnDuty : r = p

(* A session lies in the past, and on a shift that stands.                  *)
SessionStands(r) ==
    /\ attend[r].in <= tick
    /\ attend[r].status # "on_duty" => attend[r].out <= tick
    /\ attend[r].status = "completed" => attend[r].in <= attend[r].out
    /\ attend[r].slot # 0 => roster[attend[r].slot].status = "scheduled"

SessionsStand ==
    serial => /\ \A r \in HeldSessions : SessionStands(r)
              /\ \A r, p \in HeldSessions : r # p => Disjoint(r, p)

(* What a handler that takes its turn read still is so: nobody came for the *)
(* slot; nobody is on duty and the shift stands, and a clock-in of this     *)
(* moment comes after every session.                                        *)
ShiftReadStands(op) ==
    /\ op.kind = "roster" => ~Attended(op.slot)
    /\ op.kind = "in" =>
         /\ op.at <= tick
         /\ op.slot # 0 => roster[op.slot].status = "scheduled"
         /\ \A r \in HeldSessions : /\ attend[r].status # "on_duty"
                                    /\ ~op.synced => attend[r].out <= op.at

ShiftTurns ==
    serial => /\ \A q, r \in Requests : ops[q] # NoOp /\ ops[r] # NoOp => q = r
              /\ \A q \in Requests : ops[q] # NoOp => ShiftReadStands(ops[q])

ShiftInv == ShiftTyped /\ OneOnDuty /\ SessionsStand /\ ShiftTurns

LEMMA ShiftOpOfKind ==
    ASSUME NEW op \in ShiftOps
    PROVE  /\ op.kind = "roster" => op \in RosterOp /\ op # NoOp
           /\ op.kind = "in" => op \in ClockInOp /\ op # NoOp
BY DEF ShiftOps, NoOp, RosterOp, ClockInOp

LEMMA WindowTyped ==
    ASSUME NEW h \in HoursRow, NEW s \in Slots
    PROVE  /\ Window(h, s).starts \in Int /\ Window(h, s).ends \in Int
           /\ Duty(h, s) \in DutyRow /\ Duty(h, s).status = "scheduled"
<1>1. s \in Nat /\ DayLength \in Nat
  BY ShiftAssumption
<1>2. s * DayLength \in Int
  BY <1>1
<1>3. h.first \in Int /\ h.length \in Int
  BY DEF HoursRow
<1> QED
  BY <1>2, <1>3 DEF Window, Duty, DutyRow

LEMMA ShiftInitially ==
    ShiftIdle => /\ roster \in [Slots -> DutyRow] /\ attend \in [Sessions -> SessionRow]
                 /\ tick \in Nat /\ HeldSessions = {} /\ OnDuty = {} /\ OneOnDuty /\ SessionsStand
<1> SUFFICES ASSUME ShiftIdle
             PROVE  /\ roster \in [Slots -> DutyRow] /\ attend \in [Sessions -> SessionRow]
                    /\ tick \in Nat /\ HeldSessions = {} /\ OnDuty = {} /\ OneOnDuty /\ SessionsStand
  OBVIOUS
<1>1. NoDuty \in DutyRow /\ NoSession \in SessionRow /\ NoSession.status = "none"
  BY DEF NoDuty, NoSession, DutyRow, SessionRow
<1>2. roster \in [Slots -> DutyRow] /\ attend \in [Sessions -> SessionRow] /\ tick \in Nat
  BY <1>1, ShiftAssumption DEF ShiftIdle
<1>3. HeldSessions = {} /\ OnDuty = {}
  BY <1>1 DEF ShiftIdle, HeldSessions, OnDuty
<1> QED
  BY <1>2, <1>3 DEF OneOnDuty, SessionsStand

(* A handler reads.                                                         *)
LEMMA ShiftBegins ==
    ASSUME ShiftInv, NEW q \in Requests, NEW op \in ShiftOps, op # NoOp, Begin(q, op),
           serial => ShiftReadStands(op), UNCHANGED <<hours, roster, attend, tick, serial>>
    PROVE  ShiftInv'
<1>0. ShiftTyped /\ OneOnDuty /\ SessionsStand /\ ShiftTurns
  BY DEF ShiftInv
<1>1. ops' = [ops EXCEPT ![q] = op] /\ ops \in [Requests -> ShiftOps] /\ Turn(q) /\ ops[q] = NoOp
  BY <1>0 DEF Begin, Start, ShiftTyped
<1>2. ShiftTyped'
  BY <1>0, <1>1 DEF ShiftTyped
<1>3. ShiftTurns'
  <2>1. serial => \A r \in Requests \ {q} : ops'[r] = NoOp
    BY <1>1 DEF Turn
  <2>2. ops'[q] = op
    BY <1>1
  <2>3. serial => ShiftReadStands(op)'
    BY DEF ShiftReadStands, Attended, HeldSessions
  <2> QED
    BY <2>1, <2>2, <2>3 DEF ShiftTurns, ShiftReadStands
<1> QED
  BY <1>0, <1>2, <1>3 DEF ShiftInv, OneOnDuty, OnDuty, SessionsStand, HeldSessions, SessionStands, Disjoint

(* A handler ends, or a step of one piece in a calm moment.                 *)
LEMMA ShiftEnds ==
    ASSUME ShiftInv, serial' = serial,
           \/ \E q \in Requests : ops[q] # NoOp /\ End(q)
           \/ Calm /\ ops' = ops,
           hours' \in HoursRow, roster' \in [Slots -> DutyRow], attend' \in [Sessions -> SessionRow],
           tick' \in Nat, OneOnDuty', serial => SessionsStand'
    PROVE  ShiftInv'
<1>1. ops \in [Requests -> ShiftOps] /\ NoOp \in ShiftOps
  BY DEF ShiftInv, ShiftTyped, ShiftOps
<1>2. ops' \in [Requests -> ShiftOps] /\ (serial => \A r \in Requests : ops'[r] = NoOp)
  BY <1>1 DEF End, ShiftInv, ShiftTurns, Calm
<1> QED
  BY <1>2 DEF ShiftInv, ShiftTyped, ShiftTurns, SessionsStand

(* Some sessions of those on duty end.                                      *)
LEMMA SessionsEnd ==
    ASSUME ShiftInv, UNCHANGED <<hours, roster, tick, ops, serial>>, Calm,
           attend' \in [Sessions -> SessionRow],
           \A r \in Sessions :
              \/ attend'[r] = attend[r]
              \/ /\ r \in OnDuty /\ attend'[r].status \in {"completed", "auto_closed"}
                 /\ attend'[r].in = attend[r].in /\ attend'[r].slot = attend[r].slot
                 /\ attend'[r].synced = attend[r].synced
                 /\ serial => /\ attend'[r].out <= tick
                              /\ attend'[r].status = "completed" => attend[r].in <= attend'[r].out
    PROVE  ShiftInv'
<1>0. ShiftTyped /\ OneOnDuty /\ SessionsStand
  BY DEF ShiftInv
<1>1. OneOnDuty'
  BY <1>0 DEF OneOnDuty, OnDuty
<1>2. ASSUME serial PROVE SessionsStand'
  <2>1. HeldSessions' = HeldSessions
    BY DEF HeldSessions, OnDuty
  <2>2. \A r \in HeldSessions : r \in Sessions /\ SessionStands(r)
    BY <1>0, <1>2 DEF SessionsStand, HeldSessions
  <2>3. \A r \in HeldSessions : SessionStands(r)'
    BY <1>2, <2>2 DEF SessionStands, OnDuty
  <2>4. ASSUME NEW r \in HeldSessions, NEW p \in HeldSessions, r # p PROVE Disjoint(r, p)'
    <3>1. Disjoint(r, p)
      BY <1>0, <1>2, <2>4 DEF SessionsStand
    <3>2. r \in Sessions /\ p \in Sessions
      BY <2>2
    <3> QED
      BY <3>1, <3>2 DEF Disjoint, OnDuty
  <2> QED
    BY <2>1, <2>3, <2>4 DEF SessionsStand
<1> QED
  BY <1>0, <1>1, <1>2, ShiftEnds DEF ShiftTyped

(* The roster changes, but not the status of a shift somebody came for.     *)
LEMMA RosterChanges ==
    ASSUME ShiftInv, UNCHANGED <<attend, tick, serial>>,
           \/ \E q \in Requests : ops[q] # NoOp /\ End(q)
           \/ Calm /\ ops' = ops,
           hours' \in HoursRow, roster' \in [Slots -> DutyRow],
           serial => \A s \in Slots : Attended(s) /\ roster[s].status = "scheduled"
                                         => roster'[s].status = "scheduled"
    PROVE  ShiftInv'
<1>0. ShiftTyped /\ OneOnDuty /\ SessionsStand
  BY DEF ShiftInv
<1>1. OneOnDuty'
  BY <1>0 DEF OneOnDuty, OnDuty
<1>2. ASSUME serial PROVE SessionsStand'
  <2>1. HeldSessions' = HeldSessions
    BY DEF HeldSessions
  <2>2. ASSUME NEW r \in HeldSessions PROVE SessionStands(r)'
    <3>1. SessionStands(r) /\ r \in Sessions /\ attend[r].status # "none"
      BY <1>0, <1>2 DEF SessionsStand, HeldSessions
    <3>2. attend[r] \in SessionRow
      BY <1>0, <3>1 DEF ShiftTyped
    <3>3. attend[r].slot # 0 => attend[r].slot \in Slots /\ Attended(attend[r].slot)
      BY <3>1, <3>2 DEF SessionRow, Attended
    <3> QED
      BY <1>2, <3>1, <3>3 DEF SessionStands
  <2>3. \A r, p \in HeldSessions : r # p => Disjoint(r, p)'
    BY <1>0, <1>2 DEF SessionsStand, Disjoint
  <2> QED
    BY <2>1, <2>2, <2>3 DEF SessionsStand
<1> QED
  BY <1>0, <1>1, <1>2, ShiftEnds DEF ShiftTyped

LEMMA SlotsStand ==
    ASSUME NEW at, NEW s \in SlotsFor(at)
    PROVE  s \in Slots \cup {0} /\ (s # 0 => roster[s].status = "scheduled")
BY DEF SlotsFor, Near

LEMMA ClockInReads ==
    ASSUME ShiftInv, NEW q \in Requests, NEW r \in Sessions, NEW at \in Int, at <= tick,
           ClockInRead(q, r, at)
    PROVE  ShiftInv'
<1>1. PICK s \in SlotsFor(at) :
        Begin(q, [kind |-> "in", session |-> r, slot |-> s, at |-> at, synced |-> at < tick])
  BY DEF ClockInRead
<1> DEFINE op == [kind |-> "in", session |-> r, slot |-> s, at |-> at, synced |-> at < tick]
<1>2. s \in Slots \cup {0} /\ (s # 0 => roster[s].status = "scheduled")
  BY SlotsStand
<1>3. (at < tick) \in BOOLEAN
  OBVIOUS
<1>4. op \in ShiftOps /\ op # NoOp
  <2>1. op \in ClockInOp
    BY <1>2, <1>3 DEF ClockInOp
  <2> QED
    BY <2>1 DEF ShiftOps, NoOp
<1>5. ASSUME serial PROVE ShiftReadStands(op)
  <2>1. /\ op.kind = "in" /\ op.at = at /\ op.slot = s /\ (op.synced <=> at < tick)
    OBVIOUS
  <2>2. OnDuty = {} /\ tick \in Int
    BY DEF ClockInRead, ShiftInv, ShiftTyped
  <2>3. \A p \in HeldSessions : p \in Sessions /\ attend[p].status # "on_duty" /\ attend[p].out <= tick
    BY <1>5, <2>2 DEF ShiftInv, SessionsStand, SessionStands, HeldSessions, OnDuty
  <2> HIDE DEF op
  <2> QED
    BY <1>2, <2>1, <2>2, <2>3 DEF ShiftReadStands
<1> HIDE DEF op
<1>6. Begin(q, op) /\ UNCHANGED <<hours, roster, attend, tick, serial>>
  BY <1>1 DEF ClockInRead, op
<1> QED
  BY <1>4, <1>5, <1>6, ShiftBegins

LEMMA ClockInCommits ==
    ASSUME ShiftInv, NEW q \in Requests, ClockInCommit(q)
    PROVE  ShiftInv'
<1>0. ShiftTyped /\ OneOnDuty /\ SessionsStand /\ ShiftTurns
  BY DEF ShiftInv
<1>9. ops[q] \in ClockInOp /\ ops[q] # NoOp
  BY <1>0, ShiftOpOfKind DEF ClockInCommit, ShiftTyped
<1>1. PICK op \in ClockInOp : op = ops[q] /\ op # NoOp
  BY <1>9
<1>8. PICK r \in Sessions : r = op.session
  BY DEF ClockInOp
<1> DEFINE new == [status |-> "on_duty", slot |-> op.slot, in |-> op.at, out |-> 0, synced |-> op.synced]
<1>2. /\ OnDuty = {} /\ attend[r] = NoSession /\ End(q) /\ attend' = [attend EXCEPT ![r] = new]
      /\ UNCHANGED <<hours, roster, tick, serial>>
  BY <1>1, <1>8 DEF ClockInCommit
<1>3. /\ r \in Sessions /\ new \in SessionRow /\ new.status = "on_duty" /\ new.in = op.at
      /\ new.slot = op.slot /\ new.synced = op.synced
  BY <1>1 DEF ClockInOp, SessionRow
<1>4. serial => ShiftReadStands(op) /\ op.kind = "in"
  BY <1>0, <1>1 DEF ShiftTurns, ClockInOp
<1> HIDE DEF new
<1>5. /\ attend' \in [Sessions -> SessionRow]
      /\ \A p \in Sessions : attend'[p] = IF p = r THEN new ELSE attend[p]
  BY <1>0, <1>2, <1>3 DEF ShiftTyped
<1>6. OneOnDuty'
  <2>1. OnDuty' = {r}
    BY <1>2, <1>3, <1>5 DEF OnDuty
  <2> QED
    BY <2>1 DEF OneOnDuty
<1>7. ASSUME serial PROVE SessionsStand'
  <2>1. HeldSessions' = HeldSessions \cup {r} /\ r \notin HeldSessions
    BY <1>2, <1>3, <1>5 DEF HeldSessions, NoSession
  <2>2. \A p \in HeldSessions : p \in Sessions /\ attend'[p] = attend[p] /\ SessionStands(p)
    BY <1>0, <1>5, <1>7, <2>1 DEF HeldSessions, SessionsStand
  <2>3. /\ op.at <= tick /\ (op.slot # 0 => roster[op.slot].status = "scheduled")
        /\ \A p \in HeldSessions : attend[p].status # "on_duty" /\ (~op.synced => attend[p].out <= op.at)
    BY <1>4, <1>7 DEF ShiftReadStands
  <2>4. SessionStands(r)'
    BY <1>2, <1>3, <1>5, <2>3 DEF SessionStands
  <2>5. \A p \in HeldSessions : SessionStands(p)'
    BY <1>2, <2>2 DEF SessionStands
  <2>6. \A p \in HeldSessions : Disjoint(r, p)' /\ Disjoint(p, r)'
    BY <1>3, <1>5, <2>2, <2>3 DEF Disjoint
  <2>7. \A p, o \in HeldSessions : p # o => Disjoint(p, o)'
    BY <1>0, <1>7, <2>2 DEF SessionsStand, Disjoint
  <2> QED
    BY <2>1, <2>4, <2>5, <2>6, <2>7 DEF SessionsStand
<1> QED
  BY <1>0, <1>1, <1>2, <1>5, <1>6, <1>7, ShiftEnds DEF ShiftTyped

LEMMA ShiftStep == ShiftInv /\ [ShiftNext]_shiftVars => ShiftInv'
<1> SUFFICES ASSUME ShiftInv, [ShiftNext]_shiftVars PROVE ShiftInv'
  OBVIOUS
<1>0. /\ ShiftTyped /\ OneOnDuty /\ SessionsStand /\ ShiftTurns /\ hours \in HoursRow
      /\ roster \in [Slots -> DutyRow] /\ attend \in [Sessions -> SessionRow] /\ tick \in Nat
  BY DEF ShiftInv, ShiftTyped
<1>1. ASSUME NEW s \in Slots, AssignRoster(s) PROVE ShiftInv'
  <2> DEFINE row == IF roster[s] = NoDuty THEN Duty(hours, s) ELSE [roster[s] EXCEPT !.status = "scheduled"]
  <2>1. /\ Calm /\ roster' = [roster EXCEPT ![s] = row] /\ UNCHANGED <<hours, attend, tick, ops, serial>>
    BY <1>1 DEF AssignRoster
  <2>2. row \in DutyRow /\ row.status = "scheduled"
    <3>1. roster[s] \in DutyRow
      BY <1>0
    <3>2. /\ [roster[s] EXCEPT !.status = "scheduled"] \in DutyRow
          /\ [roster[s] EXCEPT !.status = "scheduled"].status = "scheduled"
      BY <3>1 DEF DutyRow
    <3> QED
      BY <1>0, <3>2, WindowTyped
  <2> HIDE DEF row
  <2>3. roster' \in [Slots -> DutyRow] /\ \A t \in Slots : roster'[t] = IF t = s THEN row ELSE roster[t]
    BY <1>0, <2>1, <2>2
  <2> QED
    BY <1>0, <2>1, <2>2, <2>3, RosterChanges
<1>2. ASSUME NEW n \in Slots, CopyWeek(n) PROVE ShiftInv'
  <2> DEFINE f(s) == IF roster[s] = NoDuty /\ s - n \in Slots /\ roster[s - n].status = "scheduled"
                     THEN Duty(hours, s) ELSE roster[s]
  <2>1. /\ Calm /\ roster' = [s \in Slots |-> f(s)] /\ UNCHANGED <<hours, attend, tick, ops, serial>>
    BY <1>2 DEF CopyWeek
  <2>2. \A s \in Slots : f(s) \in DutyRow /\ (f(s) = roster[s] \/ f(s).status = "scheduled")
    BY <1>0, WindowTyped
  <2> HIDE DEF f
  <2>3. roster' \in [Slots -> DutyRow] /\ \A s \in Slots : roster'[s] = f(s)
    BY <2>1, <2>2
  <2> QED
    BY <1>0, <2>1, <2>2, <2>3, RosterChanges
<1>3. ASSUME NEW h \in Hours, SaveShift(h) PROVE ShiftInv'
  <2> DEFINE g(s) == [roster[s] EXCEPT !.starts = Window(h, s).starts, !.ends = Window(h, s).ends]
             f(s) == IF roster[s] # NoDuty /\ s >= tick \div DayLength THEN g(s) ELSE roster[s]
  <2>1. /\ Calm /\ hours' = h /\ roster' = [s \in Slots |-> f(s)] /\ UNCHANGED <<attend, tick, ops, serial>>
    BY <1>3 DEF SaveShift
  <2>9. h \in HoursRow
    BY ShiftAssumption DEF Hours, HoursRow
  <2>2. \A s \in Slots : g(s) \in DutyRow /\ g(s).status = roster[s].status
    <3> TAKE s \in Slots
    <3>1. Window(h, s).starts \in Int /\ Window(h, s).ends \in Int /\ roster[s] \in DutyRow
      BY <1>0, <2>9, WindowTyped
    <3> QED
      BY <3>1 DEF DutyRow
  <2> HIDE DEF g
  <2>3. \A s \in Slots : f(s) \in DutyRow /\ f(s).status = roster[s].status
    BY <1>0, <2>2
  <2> HIDE DEF f
  <2>4. roster' \in [Slots -> DutyRow] /\ \A s \in Slots : roster'[s] = f(s)
    BY <2>1, <2>3
  <2> QED
    BY <1>0, <2>1, <2>3, <2>4, <2>9, RosterChanges
<1>4. ASSUME NEW q \in Requests, NEW s \in Slots, CancelRosterRead(q, s) PROVE ShiftInv'
  <2> DEFINE op == [kind |-> "roster", slot |-> s]
  <2>1. /\ ~Attended(s) /\ Begin(q, op) /\ UNCHANGED <<hours, roster, attend, tick, serial>>
    BY <1>4 DEF CancelRosterRead, Cancellable
  <2>2. op \in ShiftOps /\ op # NoOp /\ op.slot = s /\ op.kind = "roster"
    BY DEF ShiftOps, RosterOp, NoOp
  <2> HIDE DEF op
  <2>3. ShiftReadStands(op)
    BY <2>1, <2>2 DEF ShiftReadStands
  <2> QED
    BY <2>1, <2>2, <2>3, ShiftBegins
<1>5. ASSUME NEW q \in Requests, CancelRosterCommit(q) PROVE ShiftInv'
  <2> DEFINE s == ops[q].slot
  <2>1. ops[q] \in RosterOp /\ ops[q] # NoOp
    BY <1>0, <1>5, ShiftOpOfKind DEF CancelRosterCommit, ShiftTyped
  <2>2. /\ End(q) /\ roster' = [roster EXCEPT ![s] = [roster[s] EXCEPT !.status = "cancelled"]]
        /\ UNCHANGED <<hours, attend, tick, serial>>
    BY <1>5 DEF CancelRosterCommit
  <2>3. s \in Slots /\ [roster[s] EXCEPT !.status = "cancelled"] \in DutyRow
    <3>1. s \in Slots /\ roster[s] \in DutyRow
      BY <1>0, <2>1 DEF RosterOp
    <3> QED
      BY <3>1 DEF DutyRow
  <2>4. serial => ~Attended(s)
    BY <1>0, <2>1 DEF ShiftTurns, ShiftReadStands, RosterOp
  <2>5. roster' \in [Slots -> DutyRow] /\ \A t \in Slots \ {s} : roster'[t] = roster[t]
    BY <1>0, <2>2, <2>3
  <2> QED
    BY <1>0, <2>1, <2>2, <2>4, <2>5, RosterChanges
<1>6. ASSUME NEW q \in Requests, NEW r \in Sessions, NEW at \in tick - Backdate + 1 .. tick,
             ClockInRead(q, r, at)
      PROVE  ShiftInv'
  <2>1. at \in Int /\ at <= tick
    BY <1>0, ShiftAssumption
  <2> QED
    BY <1>6, <2>1, ClockInReads
<1>7. ASSUME NEW q \in Requests, ClockInCommit(q) PROVE ShiftInv'
  BY <1>7, ClockInCommits
<1>8. ASSUME NEW q \in Requests, ShiftAbort(q) PROVE ShiftInv'
  <2>1. ops[q] # NoOp /\ End(q) /\ UNCHANGED <<hours, roster, attend, tick, serial>>
    BY <1>8 DEF ShiftAbort, NoOp
  <2> QED
    BY <1>0, <2>1, RosterChanges
<1>9. ASSUME NEW r \in Sessions, NEW at \in 0 .. tick, ClockOut(r, at) PROVE ShiftInv'
  <2> DEFINE new == [attend[r] EXCEPT !.status = "completed", !.out = at]
  <2>1. /\ Calm /\ r \in OnDuty /\ Believed(r, at) /\ attend' = [attend EXCEPT ![r] = new]
        /\ UNCHANGED <<hours, roster, tick, ops, serial>>
    BY <1>9 DEF ClockOut
  <2>2. attend[r] \in SessionRow /\ at \in Int /\ at <= tick
    BY <1>0
  <2>3. /\ new \in SessionRow /\ new.status = "completed" /\ new.out = at /\ new.in = attend[r].in
        /\ new.slot = attend[r].slot /\ new.synced = attend[r].synced
    BY <2>2 DEF SessionRow
  <2> HIDE DEF new
  <2>4. serial => attend[r].in <= at
    <3> SUFFICES ASSUME serial PROVE attend[r].in <= at
      OBVIOUS
    <3>1. r \in HeldSessions
      BY <2>1 DEF HeldSessions, OnDuty
    <3>2. attend[r].in <= tick /\ attend[r].in \in Int
      BY <1>0, <2>2, <3>1 DEF SessionsStand, SessionStands, SessionRow
    <3> QED
      BY <2>1, <2>2, <3>2 DEF Believed
  <2>5. attend' \in [Sessions -> SessionRow] /\ \A p \in Sessions : attend'[p] = IF p = r THEN new ELSE attend[p]
    BY <1>0, <2>1, <2>3
  <2> QED
    BY <2>1, <2>2, <2>3, <2>4, <2>5, SessionsEnd
<1>10. CASE AttendanceSweep
  <2> DEFINE out(r) == IF attend[r].slot # 0 THEN roster[attend[r].slot].ends ELSE attend[r].in + Counted
             new(r) == [attend[r] EXCEPT !.status = "auto_closed", !.out = out(r)]
             f(r) == IF Overdue(r) THEN new(r) ELSE attend[r]
  <2>1. /\ Calm /\ attend' = [r \in Sessions |-> f(r)] /\ UNCHANGED <<hours, roster, tick, ops, serial>>
    BY <1>10 DEF AttendanceSweep
  <2>2. ASSUME NEW r \in Sessions, Overdue(r)
        PROVE  out(r) \in Int /\ out(r) <= tick
    <3>1. attend[r] \in SessionRow /\ {Grace, Counted, Forgotten} \subseteq Nat /\ Counted <= Forgotten
      BY <1>0, ShiftAssumption
    <3>2. attend[r].in \in Int /\ attend[r].slot \in Slots \cup {0}
      BY <3>1 DEF SessionRow
    <3>3. CASE attend[r].slot # 0
      <4>1. roster[attend[r].slot].ends \in Int /\ tick > roster[attend[r].slot].ends + Grace
        BY <1>0, <2>2, <3>2, <3>3 DEF DutyRow, Overdue
      <4> QED
        BY <1>0, <3>1, <3>3, <4>1
    <3>4. CASE attend[r].slot = 0
      <4>1. tick > attend[r].in + Forgotten
        BY <2>2, <3>4 DEF Overdue
      <4> QED
        BY <1>0, <3>1, <3>2, <3>4, <4>1
    <3> QED
      BY <3>3, <3>4
  <2> HIDE DEF out
  <2>3. ASSUME NEW r \in Sessions, Overdue(r)
        PROVE  /\ new(r) \in SessionRow /\ new(r).status = "auto_closed" /\ new(r).out = out(r)
               /\ new(r).in = attend[r].in /\ new(r).slot = attend[r].slot
               /\ new(r).synced = attend[r].synced
    <3>1. attend[r] \in SessionRow /\ out(r) \in Int
      BY <1>0, <2>2, <2>3
    <3> QED
      BY <3>1 DEF SessionRow
  <2> HIDE DEF new
  <2>4. \A r \in Sessions : f(r) \in SessionRow
    BY <1>0, <2>3
  <2>5. \A r \in Sessions : Overdue(r) => r \in OnDuty
    BY DEF Overdue
  <2>6. attend' \in [Sessions -> SessionRow] /\ \A r \in Sessions : attend'[r] = f(r)
    <3> HIDE DEF f
    <3> QED
      BY <2>1, <2>4
  <2>7. \A r \in Sessions :
          \/ attend'[r] = attend[r]
          \/ /\ r \in OnDuty /\ attend'[r].status \in {"completed", "auto_closed"}
             /\ attend'[r].in = attend[r].in /\ attend'[r].slot = attend[r].slot
             /\ attend'[r].synced = attend[r].synced
             /\ serial => /\ attend'[r].out <= tick
                          /\ attend'[r].status = "completed" => attend[r].in <= attend'[r].out
    BY <2>2, <2>3, <2>5, <2>6
  <2> QED
    BY <2>1, <2>6, <2>7, SessionsEnd
<1>11. CASE TickPasses
  <2>1. tick' = tick + 1 /\ UNCHANGED <<hours, roster, attend, ops, serial>>
    BY <1>11 DEF TickPasses
  <2>2. \A r \in HeldSessions : attend[r].in \in Int /\ attend[r].out \in Int
    BY <1>0 DEF HeldSessions, SessionRow
  <2>3. ShiftTyped' /\ OneOnDuty'
    BY <1>0, <2>1 DEF ShiftTyped, OneOnDuty, OnDuty
  <2>4. SessionsStand'
    BY <1>0, <2>1, <2>2 DEF SessionsStand, SessionStands, HeldSessions, Disjoint
  <2>5. \A q \in Requests : ops[q].kind = "in" => ops[q].at \in Int
    BY <1>0, ShiftOpOfKind DEF ShiftTyped, ClockInOp
  <2>6. ShiftTurns'
    BY <1>0, <2>1, <2>5 DEF ShiftTurns, ShiftReadStands, Attended, HeldSessions
  <2> QED
    BY <2>3, <2>4, <2>6 DEF ShiftInv
<1>12. CASE UNCHANGED shiftVars
  BY <1>0, <1>12 DEF shiftVars, ShiftInv, ShiftTyped, OneOnDuty, OnDuty, SessionsStand, SessionStands,
                     HeldSessions, Disjoint, ShiftTurns, ShiftReadStands, Attended
<1> QED
  BY <1>1, <1>2, <1>3, <1>4, <1>5, <1>6, <1>7, <1>8, <1>9, <1>10, <1>11, <1>12 DEF ShiftNext

LEMMA ShiftsStand == ShiftInv => ShiftsKept
<1> SUFFICES ASSUME ShiftInv PROVE ShiftsKept
  OBVIOUS
<1>1. Cardinality(OnDuty) <= 1
  BY AtMostOne DEF ShiftInv, OneOnDuty
<1> QED
  BY <1>1 DEF ShiftsKept, ShiftInv, SessionsStand, SessionStands, HeldSessions

LEMMA ShiftBegun == ShiftInit => ShiftInv
<1>1. ShiftIdle => hours \in HoursRow
  BY DEF ShiftIdle, HoursRow
<1>2. TxInit => serial \in BOOLEAN /\ ops \in [Requests -> ShiftOps] /\ ShiftTurns
  BY DEF TxInit, ShiftOps, ShiftTurns
<1> QED
  BY <1>1, <1>2, ShiftInitially DEF ShiftInit, ShiftInv, ShiftTyped

LEMMA ShiftsIdle == ShiftIdle => ShiftsKept
BY ShiftInitially, AtMostOne DEF ShiftsKept, OneOnDuty, HeldSessions

(* Staff is on duty once, and while handlers take turns its hours are       *)
(* counted once and on shifts that stand.                                   *)
THEOREM ShiftsAgree == ShiftSpec => []ShiftsKept
BY ShiftBegun, ShiftStep, ShiftsStand, PTL DEF ShiftSpec

-----------------------------------------------------------------------------
(* Notices.                                                                 *)

NoticeRow == [status : {"draft", "scheduled", "published", "archived"},
              publish_at : 0 .. Never, targets : TargetLists, audience : Audiences]

ChangeOp == [kind : {"update"}, of : Notices, was : {"draft", "scheduled", "published"},
             at : Same .. Never, targets : TargetLists, audience : Audiences \cup {"same"}]
MoveNoticeOp == [kind : DOMAIN NoticeRule, of : Notices, audience : Audiences]

NoticeOps == {NoOp} \cup ChangeOp \cup MoveNoticeOp

(* A handler works on a notice that was written.                            *)
NoticesTyped ==
    /\ NoticeTypeOK /\ serial \in BOOLEAN /\ ops \in [Requests -> NoticeOps]
    /\ \A q \in Requests : ops[q] # NoOp => notice[ops[q].of] \in NoticeRow

(* What a handler that takes its turn read still is so.                     *)
NoticeReadStands(op) ==
    /\ op.kind = "update" =>
         /\ op.was = notice[op.of].status
         /\ op.targets = notice[op.of].targets \/ op.was \in {"draft", "scheduled"}
    /\ op.kind # "update" =>
         /\ notice[op.of].status \in NoticeRule[op.kind].from
         /\ op.kind = "schedule" => notice[op.of].publish_at # Never
         /\ op.audience = notice[op.of].audience

NoticeTurns ==
    serial => /\ \A q, r \in Requests : ops[q] # NoOp /\ ops[r] # NoOp => q = r
              /\ \A q \in Requests : ops[q] # NoOp => NoticeReadStands(ops[q])

(* One notice: published once, for the audience it has or had before it was *)
(* changed.                                                                 *)
NoticeKept(n, row, told, others) ==
    /\ row.status = "published" =>
         \E audience \in Audiences : /\ told = <<Reach(row, audience)>>
                                     /\ audience = row.audience \/ n \in others
    /\ row.status \in {"none", "draft", "scheduled"} => told = <<>>
    /\ row.status = "scheduled" => row.publish_at # Never

NoticeInv == NoticesTyped /\ NoticeTurns /\ NoticesKept

LEMMA KeptEach ==
    ASSUME NoticeInv, serial, NEW n \in Notices
    PROVE  NoticeKept(n, notice[n], announced[n], readdressed)
<1>1. NoticesKept /\ NoticeTypeOK
  BY DEF NoticeInv, NoticesTyped
<1>2. ASSUME notice[n].status = "published"
      PROVE  \E audience \in Audiences : /\ announced[n] = <<Reach(notice[n], audience)>>
                                         /\ audience = notice[n].audience \/ n \in readdressed
  <2>1. notice[n].audience \in Audiences
    BY <1>1, <1>2 DEF NoticeTypeOK, NoNotice
  <2>2. CASE announced[n] = <<Reach(notice[n], notice[n].audience)>>
    BY <2>1, <2>2
  <2>3. CASE announced[n] = <<Reach(notice[n], "tenants")>> /\ n \in readdressed
    BY <2>3 DEF Audiences
  <2>4. CASE announced[n] = <<Reach(notice[n], "staff")>> /\ n \in readdressed
    BY <2>4 DEF Audiences
  <2> QED
    BY <1>1, <1>2, <2>2, <2>3, <2>4 DEF NoticesKept, Reach
<1> QED
  BY <1>1, <1>2 DEF NoticesKept, NoticeKept

LEMMA KeptEachNext ==
    ASSUME \A n \in Notices : NoticeKept(n, notice'[n], announced'[n], readdressed')
    PROVE  NoticesKept'
BY DEF NoticesKept, NoticeKept, Reach

LEMMA NoNoticeUnwritten == NoNotice \notin NoticeRow /\ NoNotice.status = "none"
BY DEF NoNotice, NoticeRow

LEMMA NoticeInitially == NoticeIdle => NoticeTypeOK /\ NoticesKept
<1> SUFFICES ASSUME NoticeIdle PROVE NoticeTypeOK /\ NoticesKept
  OBVIOUS
<1>1. \A n \in Notices : notice[n] = NoNotice /\ announced[n] = <<>> /\ NoNotice.status = "none"
  BY DEF NoticeIdle, NoNotice
<1>2. NoticesKept
  BY <1>1 DEF NoticesKept
<1>3. NoticeTypeOK
  BY NoticeAssumption DEF NoticeIdle, NoticeTypeOK
<1> QED
  BY <1>2, <1>3

LEMMA NoticeOpOfKind ==
    ASSUME NEW op \in NoticeOps
    PROVE  /\ op # NoOp => op.of \in Notices
           /\ op.kind = "update" => op \in ChangeOp /\ op # NoOp
           /\ op.kind \in DOMAIN NoticeRule => op \in MoveNoticeOp /\ op # NoOp /\ op.kind # "update"
           /\ op # NoOp => op.kind = "update" \/ op.kind \in DOMAIN NoticeRule
BY DEF NoticeOps, NoOp, ChangeOp, MoveNoticeOp, NoticeRule

(* A handler reads.                                                         *)
LEMMA NoticeBegins ==
    ASSUME NoticeInv, NEW q \in Requests, NEW op \in NoticeOps, op # NoOp, Begin(q, op),
           notice[op.of] \in NoticeRow, serial => NoticeReadStands(op),
           UNCHANGED <<notice, announced, readdressed, hour, serial>>
    PROVE  NoticeInv'
<1>1. ops' = [ops EXCEPT ![q] = op] /\ ops \in [Requests -> NoticeOps] /\ Turn(q) /\ ops[q] = NoOp
  BY DEF Begin, Start, NoticeInv, NoticesTyped
<1>2. NoticesTyped'
  BY <1>1 DEF NoticeInv, NoticesTyped, NoticeTypeOK
<1>3. NoticeTurns'
  <2>1. serial => \A r \in Requests \ {q} : ops'[r] = NoOp
    BY <1>1 DEF Turn
  <2>2. ops'[q] = op
    BY <1>1
  <2>3. NoticeReadStands(op)' <=> NoticeReadStands(op)
    BY DEF NoticeReadStands
  <2> QED
    BY <2>1, <2>2, <2>3 DEF NoticeTurns, NoticeReadStands
<1>4. NoticesKept'
  BY DEF NoticeInv, NoticesKept
<1> QED
  BY <1>2, <1>3, <1>4 DEF NoticeInv

(* A handler ends, and notices that were written stay written.              *)
LEMMA NoticeEnds ==
    ASSUME NoticeInv, NEW q \in Requests, ops[q] # NoOp, End(q), serial' = serial, NoticeTypeOK',
           \A n \in Notices : notice[n] \in NoticeRow => notice'[n] \in NoticeRow,
           serial => NoticesKept'
    PROVE  NoticeInv'
<1>1. ops' = [ops EXCEPT ![q] = NoOp] /\ ops \in [Requests -> NoticeOps] /\ NoOp \in NoticeOps
  BY DEF End, NoticeInv, NoticesTyped, NoticeOps
<1>2. \A r \in Requests : ops'[r] # NoOp => ops'[r] = ops[r] /\ ops[r] # NoOp /\ r # q
  BY <1>1
<1>3. \A r \in Requests : ops[r] # NoOp => ops[r].of \in Notices
  BY <1>1, NoticeOpOfKind
<1>4. NoticesTyped'
  BY <1>1, <1>2, <1>3 DEF NoticeInv, NoticesTyped
<1>5. serial => \A r \in Requests : ops'[r] = NoOp
  BY <1>1, <1>2 DEF NoticeInv, NoticeTurns
<1>6. NoticeTurns'
  BY <1>5 DEF NoticeTurns
<1>7. NoticesKept'
  BY DEF NoticesKept
<1> QED
  BY <1>4, <1>6, <1>7 DEF NoticeInv

(* A step of one piece; no handler that takes its turn is under way.        *)
LEMMA NoticeCalm ==
    ASSUME NoticeInv, Calm, UNCHANGED <<ops, serial>>, NoticeTypeOK',
           \A n \in Notices : notice[n] \in NoticeRow => notice'[n] \in NoticeRow,
           serial => NoticesKept'
    PROVE  NoticeInv'
<1>1. \A r \in Requests : ops[r] # NoOp => ops[r].of \in Notices
  BY NoticeOpOfKind DEF NoticeInv, NoticesTyped
<1>2. NoticesTyped'
  BY <1>1 DEF NoticeInv, NoticesTyped
<1>3. NoticeTurns'
  BY DEF NoticeTurns, Calm
<1> QED
  BY <1>2, <1>3 DEF NoticeInv, NoticesKept

LEMMA ReachTyped ==
    ASSUME NEW row \in NoticeRow, NEW audience
    PROVE  Reach(row, audience) \in TargetLists \cup {NoOne}
BY DEF Reach, NoticeRow

(* Publishing tells those the notice is meant for, and keeps the hour it    *)
(* had.                                                                     *)
LEMMA Publishes ==
    ASSUME NoticeInv, NEW N \in SUBSET Notices, NEW audience, PublishAll(N, audience), hour' = hour,
           \A n \in N : notice[n] \in NoticeRow,
           serial => \A n \in N : audience[n] = notice[n].audience
    PROVE  /\ NoticeTypeOK'
           /\ \A n \in Notices : notice[n] \in NoticeRow => notice'[n] \in NoticeRow
           /\ serial' = serial /\ (serial => \A n \in N : notice[n].status \in {"draft", "scheduled"})
                => (serial => NoticesKept')
<1> DEFINE f(n) == [notice[n] EXCEPT !.status = "published",
                                     !.publish_at = IF @ = Never THEN hour ELSE @]
           told(n) == Reach(notice[n], audience[n])
           g(n) == IF n \in N /\ Len(announced[n]) < MaxKept THEN Append(announced[n], told(n))
                   ELSE announced[n]
<1>0. /\ NoticeTypeOK /\ MaxKept \in Nat \ {0} /\ LastHour \in Nat /\ hour \in 0 .. Never
      /\ \A n \in Notices : announced[n] \in Seq(TargetLists \cup {NoOne})
  BY NoticeAssumption DEF NoticeInv, NoticesTyped, NoticeTypeOK, Never
<1>1. \A n \in N : /\ f(n) \in NoticeRow /\ f(n).status = "published"
                   /\ f(n).audience = notice[n].audience /\ f(n).targets = notice[n].targets
  BY <1>0 DEF NoticeRow
<1>2. /\ notice' = [n \in Notices |-> IF n \notin N THEN notice[n] ELSE f(n)]
      /\ announced' = [n \in Notices |-> g(n)]
      /\ readdressed' = readdressed
  BY DEF PublishAll
<1>8. \A n \in N : /\ told(n) \in TargetLists \cup {NoOne}
                   /\ Reach(f(n), audience[n]) = told(n)
  <2>1. \A n \in N : told(n) \in TargetLists \cup {NoOne}
    BY ReachTyped
  <2>2. \A n \in N : Reach(f(n), audience[n]) = told(n)
    BY <1>1 DEF Reach
  <2> QED
    BY <2>1, <2>2
<1> HIDE DEF told
<1>3. \A n \in Notices : g(n) \in Seq(TargetLists \cup {NoOne})
  <2> TAKE n \in Notices
  <2>1. CASE n \in N
    <3> DEFINE Readers == TargetLists \cup {NoOne}  past == announced[n]  one == told(n)
    <3>1. past \in Seq(Readers) /\ one \in Readers
      BY <1>0, <1>8, <2>1
    <3> HIDE DEF Readers, past, one
    <3>2. Append(past, one) \in Seq(Readers)
      BY <3>1
    <3> USE DEF Readers, past, one
    <3> QED
      BY <1>0, <3>2
  <2>2. CASE n \notin N
    BY <1>0, <2>2
  <2> QED
    BY <2>1, <2>2
<1>4. \A n \in N : announced[n] = <<>> => g(n) = <<told(n)>>
  <2> TAKE n \in N
  <2>1. Append(<<>>, told(n)) = <<told(n)>> /\ Len(<<>>) = 0
    OBVIOUS
  <2> QED
    BY <1>0, <2>1
<1> HIDE DEF f, g
<1>5. NoticeTypeOK'
  BY <1>0, <1>1, <1>2, <1>3 DEF NoticeTypeOK, NoticeRow
<1>6. \A n \in Notices : /\ notice'[n] = IF n \in N THEN f(n) ELSE notice[n]
                         /\ announced'[n] = g(n)
  BY <1>2
<1>7. ASSUME serial' = serial, serial, \A n \in N : notice[n].status \in {"draft", "scheduled"}
      PROVE  NoticesKept'
  <2> SUFFICES ASSUME NEW n \in Notices
               PROVE  NoticeKept(n, notice'[n], announced'[n], readdressed')
    BY KeptEachNext
  <2>1. NoticeKept(n, notice[n], announced[n], readdressed)
    BY <1>7, KeptEach DEF NoticeInv
  <2>2. CASE n \in N
    <3>1. g(n) = <<told(n)>> /\ told(n) = Reach(f(n), audience[n])
      BY <1>4, <1>7, <1>8, <2>1, <2>2 DEF NoticeKept
    <3>2. audience[n] = f(n).audience /\ audience[n] \in Audiences /\ f(n).status = "published"
      BY <1>1, <1>7, <2>2 DEF NoticeRow
    <3>3. notice'[n] = f(n) /\ announced'[n] = g(n)
      BY <1>6, <2>2
    <3> QED
      BY <3>1, <3>2, <3>3 DEF NoticeKept
  <2>3. CASE n \notin N
    <3>1. notice'[n] = notice[n] /\ announced'[n] = announced[n] /\ readdressed' = readdressed
      BY <1>2, <1>6, <2>3 DEF g
    <3> QED
      BY <2>1, <3>1
  <2> QED
    BY <2>2, <2>3
<1> QED
  BY <1>1, <1>5, <1>6, <1>7

LEMMA NoticeRowChanged ==
    ASSUME NEW row \in NoticeRow, NEW op \in ChangeOp
    PROVE  Updated(row, op) \in NoticeRow
<1>1. Never \in 0 .. Never /\ \A at \in Same .. Never : at = Same \/ at \in 0 .. Never
  BY NoticeAssumption DEF Never, Same
<1> QED
  BY <1>1 DEF Updated, NoticeRow, ChangeOp

LEMMA NoticeUpdates ==
    ASSUME NoticeInv, NEW q \in Requests, UpdateCommit(q)
    PROVE  NoticeInv'
<1> DEFINE op == ops[q]  m == op.of  row == notice[m]  new == Updated(row, op)
<1>1. op \in ChangeOp /\ op # NoOp /\ m \in Notices /\ row \in NoticeRow /\ NoticeTypeOK
  BY NoticeOpOfKind DEF UpdateCommit, NoticeInv, NoticesTyped
<1>2. /\ End(q) /\ announced' = announced /\ hour' = hour /\ serial' = serial
      /\ notice' = [notice EXCEPT ![m] = new]
      /\ readdressed \subseteq readdressed' /\ readdressed' \subseteq readdressed \cup {m}
      /\ row.status = "published" /\ new.audience # row.audience => m \in readdressed'
  BY DEF UpdateCommit
<1>3. /\ new \in NoticeRow /\ new.targets = op.targets
      /\ new.status = (IF Unplanned(op) THEN "draft" ELSE row.status)
      /\ new.publish_at = (IF op.at = Same THEN row.publish_at ELSE op.at)
  <2>1. new \in NoticeRow
    BY <1>1, NoticeRowChanged
  <2> QED
    BY <2>1 DEF Updated
<1> HIDE DEF new
<1>4. /\ NoticeTypeOK'
      /\ \A n \in Notices : notice'[n] = IF n = m THEN new ELSE notice[n]
  <2>1. readdressed' \in SUBSET Notices
    BY <1>1, <1>2 DEF NoticeTypeOK
  <2> QED
    BY <1>1, <1>2, <1>3, <2>1 DEF NoticeTypeOK, NoticeRow
<1>5. ASSUME serial PROVE NoticesKept'
  <2>1. NoticeReadStands(op) /\ NoticeKept(m, row, announced[m], readdressed)
    BY <1>1, <1>5, KeptEach DEF NoticeInv, NoticeTurns
  <2>2. op.was = row.status /\ (op.targets = row.targets \/ op.was \in {"draft", "scheduled"})
    BY <1>1, <2>1 DEF NoticeReadStands, ChangeOp
  <2>3. new.status = "scheduled" => new.publish_at # Never
    BY <1>1, <1>3, <2>1, <2>2 DEF NoticeKept, Unplanned, ChangeOp
  <2>4. /\ new.status = "published" => row.status = "published" /\ new.targets = row.targets
        /\ new.status \in {"none", "draft", "scheduled"} => row.status \in {"none", "draft", "scheduled"}
    BY <1>1, <1>3, <2>2 DEF Unplanned, ChangeOp
  <2> HIDE DEF row
  <2>5. ASSUME new.status = "published"
        PROVE  \E audience \in Audiences : /\ announced[m] = <<Reach(new, audience)>>
                                           /\ audience = new.audience \/ m \in readdressed'
    <3>1. PICK audience \in Audiences : /\ announced[m] = <<Reach(row, audience)>>
                                        /\ audience = row.audience \/ m \in readdressed
      BY <2>1, <2>4, <2>5 DEF NoticeKept
    <3>2. Reach(new, audience) = Reach(row, audience)
      BY <2>4, <2>5 DEF Reach
    <3>3. audience = new.audience \/ m \in readdressed'
      BY <1>2, <2>4, <2>5, <3>1
    <3> QED
      BY <3>1, <3>2, <3>3
  <2>6. NoticeKept(m, new, announced[m], readdressed')
    BY <2>1, <2>3, <2>4, <2>5 DEF NoticeKept
  <2>7. ASSUME NEW n \in Notices PROVE NoticeKept(n, notice'[n], announced'[n], readdressed')
    <3>1. CASE n = m
      BY <1>2, <1>4, <2>6, <3>1
    <3>2. CASE n # m
      <4>1. NoticeKept(n, notice[n], announced[n], readdressed)
        BY <1>5, KeptEach DEF NoticeInv
      <4>2. notice'[n] = notice[n] /\ announced'[n] = announced[n] /\ (n \in readdressed => n \in readdressed')
        BY <1>2, <1>4, <3>2
      <4> QED
        BY <4>1, <4>2 DEF NoticeKept
    <3> QED
      BY <3>1, <3>2
  <2> QED
    BY <2>7, KeptEachNext
<1>6. \A n \in Notices : notice[n] \in NoticeRow => notice'[n] \in NoticeRow
  BY <1>3, <1>4
<1>7. ops[q] # NoOp
  BY <1>1
<1> HIDE DEF op, row
<1> QED
  BY <1>2, <1>4, <1>5, <1>6, <1>7, NoticeEnds

LEMMA NoticeMoves ==
    ASSUME NoticeInv, NEW q \in Requests, NoticeCommit(q)
    PROVE  NoticeInv'
<1> DEFINE op == ops[q]  m == op.of  row == notice[m]
<1>1. /\ op \in MoveNoticeOp /\ op # NoOp /\ op.kind # "update" /\ m \in Notices /\ row \in NoticeRow
      /\ op.kind \in DOMAIN NoticeRule
  BY NoticeOpOfKind DEF NoticeCommit, NoticeInv, NoticesTyped
<1>2. End(q) /\ hour' = hour /\ serial' = serial
  BY DEF NoticeCommit
<1>3. serial => row.status \in NoticeRule[op.kind].from
                /\ (op.kind = "schedule" => row.publish_at # Never)
                /\ op.audience = row.audience /\ NoticeKept(m, row, announced[m], readdressed)
  BY <1>1, KeptEach DEF NoticeInv, NoticeTurns, NoticeReadStands
<1>4. CASE op.kind = "publish"
  <2> DEFINE audience == [n \in {m} |-> op.audience]
  <2>1. PublishAll({m}, audience)
    BY <1>4 DEF NoticeCommit
  <2>2. serial => row.status \in {"draft", "scheduled"} /\ audience[m] = row.audience
    BY <1>3, <1>4 DEF NoticeRule
  <2> HIDE DEF op, m, audience
  <2>3. /\ {m} \in SUBSET Notices
        /\ \A n \in {m} : notice[n] \in NoticeRow
        /\ serial => \A n \in {m} : notice[n].status \in {"draft", "scheduled"}
        /\ serial => \A n \in {m} : audience[n] = notice[n].audience
    BY <1>1, <2>2
  <2>4. /\ NoticeTypeOK' /\ \A n \in Notices : notice[n] \in NoticeRow => notice'[n] \in NoticeRow
        /\ serial => NoticesKept'
    BY <1>2, <2>1, <2>3, Publishes
  <2> QED
    BY <1>1, <1>2, <2>4, NoticeEnds DEF op
<1>5. CASE op.kind # "publish"
  <2> DEFINE to == NoticeRule[op.kind].to
             new == [row EXCEPT !.status = to]
  <2>1. notice' = [notice EXCEPT ![m] = new] /\ announced' = announced /\ readdressed' = readdressed
    BY <1>5 DEF NoticeCommit
  <2>2. /\ op.kind \in {"schedule", "unschedule", "archive"}
        /\ to \in {"draft", "scheduled", "archived"}
        /\ to = "scheduled" => op.kind = "schedule"
        /\ NoticeRule[op.kind].from \subseteq {"draft", "scheduled", "published"}
        /\ to # "archived" => NoticeRule[op.kind].from \subseteq {"draft", "scheduled"}
    BY <1>1, <1>5 DEF NoticeRule
  <2> HIDE DEF to
  <2>3. /\ new \in NoticeRow /\ new.status = to /\ new.publish_at = row.publish_at
        /\ new.audience = row.audience
    BY <1>1, <2>2 DEF NoticeRow
  <2> HIDE DEF new
  <2>4. /\ NoticeTypeOK /\ NoticeTypeOK'
        /\ \A n \in Notices : notice'[n] = IF n = m THEN new ELSE notice[n]
    BY <1>1, <1>2, <2>1, <2>3 DEF NoticeInv, NoticesTyped, NoticeTypeOK, NoticeRow
  <2>5. ASSUME serial PROVE NoticesKept'
    <3>1. NoticeKept(m, new, announced[m], readdressed)
      BY <1>3, <2>2, <2>3, <2>5 DEF NoticeKept
    <3> QED
      BY <1>2, <2>1, <2>4, <2>5, <3>1, KeptEach, KeptEachNext DEF NoticeInv
  <2> QED
    BY <1>1, <1>2, <2>3, <2>4, <2>5, NoticeEnds
<1> QED
  BY <1>4, <1>5

LEMMA NoticeWritten ==
    ASSUME NoticeInv, NEW n \in Notices, NEW new \in NoticeRow, new.status \in {"draft", "published"},
           notice[n] = NoNotice, notice' = [notice EXCEPT ![n] = new],
           announced' = IF new.status = "draft" THEN announced
                        ELSE [announced EXCEPT ![n] = Append(@, Reach(new, new.audience))],
           Calm, UNCHANGED <<readdressed, hour, ops, serial>>
    PROVE  NoticeInv'
<1> DEFINE told == Reach(new, new.audience)
<1>1. told \in TargetLists \cup {NoOne} /\ new.audience \in Audiences
  BY ReachTyped DEF NoticeRow
<1>0. announced' = IF new.status = "draft" THEN announced ELSE [announced EXCEPT ![n] = Append(@, told)]
  OBVIOUS
<1>5. Reach(new, new.audience) = told
  OBVIOUS
<1> HIDE DEF told
<1>2. /\ NoticeTypeOK /\ announced[n] \in Seq(TargetLists \cup {NoOne})
      /\ Append(announced[n], told) \in Seq(TargetLists \cup {NoOne})
  <2>1. announced[n] \in Seq(TargetLists \cup {NoOne})
    BY DEF NoticeInv, NoticesTyped, NoticeTypeOK
  <2> QED
    BY <1>1, <2>1 DEF NoticeInv, NoticesTyped
<1>3. /\ NoticeTypeOK'
      /\ \A m \in Notices : /\ notice'[m] = IF m = n THEN new ELSE notice[m]
                            /\ announced'[m] = IF m = n /\ new.status = "published"
                                               THEN Append(announced[n], told) ELSE announced[m]
  <2>1. notice' \in [Notices -> {NoNotice} \cup NoticeRow]
    BY <1>2 DEF NoticeTypeOK, NoticeRow
  <2>2. announced' \in [Notices -> Seq(TargetLists \cup {NoOne})]
    BY <1>0, <1>2 DEF NoticeTypeOK
  <2>3. hour' \in 0 .. LastHour /\ readdressed' \in SUBSET Notices
    BY <1>2 DEF NoticeTypeOK
  <2> QED
    BY <1>0, <1>2, <2>1, <2>2, <2>3 DEF NoticeTypeOK, NoticeRow
<1>4. ASSUME serial PROVE NoticesKept'
  <2>1. announced[n] = <<>>
    BY <1>4, KeptEach, NoNoticeUnwritten DEF NoticeInv, NoticeKept
  <2>2. Append(<<>>, told) = <<told>>
    OBVIOUS
  <2>3. NoticeKept(n, new, announced'[n], readdressed)
    BY <1>1, <1>3, <1>5, <2>1, <2>2 DEF NoticeKept
  <2> QED
    BY <1>3, <1>4, <2>3, KeptEach, KeptEachNext DEF NoticeInv
<1> QED
  BY <1>3, <1>4, NoticeCalm

LEMMA NoticeReads ==
    ASSUME NoticeInv, NEW q \in Requests, NEW n \in Notices,
           UpdateRead(q, n) \/ \E action \in DOMAIN NoticeRule : NoticeRead(q, n, action)
    PROVE  NoticeInv'
<1>0. NoticesTyped /\ NoticeTypeOK
  BY DEF NoticeInv, NoticesTyped
<1>1. CASE UpdateRead(q, n)
  <2>1. /\ notice[n].status \in {"draft", "scheduled", "published"}
        /\ UNCHANGED <<notice, announced, readdressed, hour, serial>>
    BY <1>1 DEF UpdateRead
  <2>2. notice[n] \in NoticeRow
    BY <1>0, <2>1, NoNoticeUnwritten DEF NoticeTypeOK, NoticeRow
  <2>3. PICK at \in Same .. Never, targets \in TargetLists, audience \in Audiences \cup {"same"} :
          /\ targets = notice[n].targets \/ MayRetarget(notice[n].status)
          /\ Begin(q, [kind |-> "update", of |-> n, was |-> notice[n].status,
                       at |-> at, targets |-> targets, audience |-> audience])
    BY <1>1 DEF UpdateRead
  <2> DEFINE op == [kind |-> "update", of |-> n, was |-> notice[n].status,
                    at |-> at, targets |-> targets, audience |-> audience]
  <2>4. op \in ChangeOp /\ op \in NoticeOps /\ op # NoOp /\ op.of = n
    BY <2>1 DEF ChangeOp, NoticeOps, NoOp
  <2>5. NoticeReadStands(op)
    BY <2>3 DEF NoticeReadStands, MayRetarget
  <2>6. Begin(q, op)
    BY <2>3
  <2> HIDE DEF op
  <2> QED
    BY <2>1, <2>2, <2>4, <2>5, <2>6, NoticeBegins
<1>2. ASSUME NEW action \in DOMAIN NoticeRule, NoticeRead(q, n, action)
      PROVE  NoticeInv'
  <2> DEFINE op == [kind |-> action, of |-> n, audience |-> notice[n].audience]
  <2>1. /\ notice[n].status \in NoticeRule[action].from
        /\ action = "schedule" => notice[n].publish_at # Never
        /\ Begin(q, op) /\ UNCHANGED <<notice, announced, readdressed, hour, serial>>
    BY <1>2 DEF NoticeRead
  <2>2. notice[n].status # "none" /\ action # "none"
    BY <2>1 DEF NoticeRule
  <2>3. notice[n] \in NoticeRow
    BY <1>0, <2>2, NoNoticeUnwritten DEF NoticeTypeOK, NoticeRow
  <2>4. /\ op \in MoveNoticeOp /\ op \in NoticeOps /\ op # NoOp
        /\ op.of = n /\ op.kind = action /\ op.audience = notice[n].audience
    BY <2>2, <2>3 DEF MoveNoticeOp, NoticeOps, NoOp, NoticeRow
  <2>5. action # "update"
    BY DEF NoticeRule
  <2> HIDE DEF op
  <2>6. NoticeReadStands(op)
    BY <2>1, <2>4, <2>5 DEF NoticeReadStands
  <2> QED
    BY <2>1, <2>3, <2>4, <2>6, NoticeBegins
<1> QED
  BY <1>1, <1>2

LEMMA NoticeStep == NoticeInv /\ [NoticeNext]_noticeVars => NoticeInv'
<1> SUFFICES ASSUME NoticeInv, [NoticeNext]_noticeVars PROVE NoticeInv'
  OBVIOUS
<1>0. NoticesTyped /\ NoticeTurns /\ NoticesKept /\ NoticeTypeOK
  BY DEF NoticeInv, NoticesTyped
<1>1. CASE PublishScheduledSweep
  <2> DEFINE N == {n \in Notices : Due(n)}
             audience == [n \in Notices |-> notice[n].audience]
  <2>1. Calm /\ PublishAll(N, audience) /\ hour' = hour /\ UNCHANGED <<ops, serial>>
    BY <1>1 DEF PublishScheduledSweep
  <2>2. \A n \in N : n \in Notices /\ notice[n].status = "scheduled"
    BY DEF Due
  <2>3. \A n \in N : notice[n] \in NoticeRow /\ notice[n].status \in {"draft", "scheduled"}
    BY <1>0, <2>2, NoNoticeUnwritten DEF NoticeTypeOK, NoticeRow
  <2>4. N \in SUBSET Notices /\ \A n \in N : audience[n] = notice[n].audience
    OBVIOUS
  <2> HIDE DEF N, audience
  <2>5. /\ NoticeTypeOK' /\ \A n \in Notices : notice[n] \in NoticeRow => notice'[n] \in NoticeRow
        /\ serial => NoticesKept'
    BY <2>1, <2>3, <2>4, Publishes
  <2> QED
    BY <2>1, <2>5, NoticeCalm
<1>2. CASE HourPasses
  <2>1. hour < LastHour /\ hour' = hour + 1 /\ UNCHANGED <<notice, announced, readdressed, ops, serial>>
    BY <1>2 DEF HourPasses
  <2>2. NoticeTypeOK'
    BY <1>0, <2>1, NoticeAssumption DEF NoticeTypeOK
  <2> QED
    BY <1>0, <2>1, <2>2 DEF NoticeInv, NoticesTyped, NoticeTurns, NoticeReadStands, NoticesKept
<1>3. ASSUME NEW n \in Notices, NEW targets \in TargetLists, Broadcast(n, targets)
      PROVE  NoticeInv'
  <2> DEFINE new == [status |-> "published", publish_at |-> hour, targets |-> targets, audience |-> "tenants"]
  <2>1. hour \in 0 .. Never
    BY <1>0, NoticeAssumption DEF NoticeTypeOK, Never
  <2>2. new \in NoticeRow /\ new.status = "published"
    BY <2>1 DEF NoticeRow, Audiences
  <2>3. /\ Calm /\ notice[n] = NoNotice /\ UNCHANGED <<readdressed, hour, ops, serial>>
        /\ notice' = [notice EXCEPT ![n] = new]
        /\ announced' = [announced EXCEPT ![n] = Append(@, Reach(new, new.audience))]
    BY <1>3 DEF Broadcast
  <2> HIDE DEF new
  <2> QED
    BY <2>2, <2>3, NoticeWritten
<1>4. ASSUME NEW n \in Notices, NEW targets \in TargetLists, NEW audience \in Audiences,
             NEW at \in 0 .. Never, CreateAnnouncement(n, targets, audience, at)
      PROVE  NoticeInv'
  <2> DEFINE new == [status |-> "draft", publish_at |-> at, targets |-> targets, audience |-> audience]
  <2>1. new \in NoticeRow /\ new.status = "draft"
    BY DEF NoticeRow
  <2>2. /\ Calm /\ notice[n] = NoNotice /\ notice' = [notice EXCEPT ![n] = new]
        /\ UNCHANGED <<announced, readdressed, hour, ops, serial>>
    BY <1>4 DEF CreateAnnouncement
  <2> HIDE DEF new
  <2> QED
    BY <2>1, <2>2, NoticeWritten
<1>5. ASSUME NEW q \in Requests, UpdateCommit(q) \/ NoticeCommit(q)
      PROVE  NoticeInv'
  BY <1>5, NoticeUpdates, NoticeMoves
<1>6. ASSUME NEW q \in Requests, NoticeAbort(q) PROVE NoticeInv'
  <2>1. End(q) /\ UNCHANGED <<notice, announced, readdressed, hour, serial>> /\ ops[q] # NoOp
    BY <1>6 DEF NoticeAbort, NoOp, NoticeRule
  <2>2. NoticeTypeOK' /\ NoticesKept'
    BY <1>0, <2>1 DEF NoticeTypeOK, NoticesKept
  <2> QED
    BY <2>1, <2>2, NoticeEnds
<1>7. CASE UNCHANGED noticeVars
  BY <1>0, <1>7 DEF noticeVars, NoticeInv, NoticesTyped, NoticeTypeOK, NoticeTurns, NoticeReadStands,
                    NoticesKept
<1> QED
  BY <1>1, <1>2, <1>3, <1>4, <1>5, <1>6, <1>7, NoticeReads DEF NoticeNext

LEMMA NoticeBegun == NoticeInit => NoticeInv
BY NoticeInitially DEF NoticeInit, TxInit, NoticeInv, NoticesTyped, NoticeOps, NoticeTurns

(* While handlers take turns, a notice is published once and tells the      *)
(* tenants it targets exactly if its audience includes tenants, unless the  *)
(* audience was changed later; and a scheduled notice has an hour.          *)
THEOREM NoticesReach == NoticeSpec => []NoticesKept
<1>1. NoticeInv => NoticesKept
  BY DEF NoticeInv
<1> QED
  BY <1>1, NoticeBegun, NoticeStep, PTL DEF NoticeSpec

-----------------------------------------------------------------------------
(* CleaningPlan.                                                            *)

CleaningRow  == [active : BOOLEAN, weekdays : SUBSET (0 .. WeekLength - 1), until : CleaningDays]
ChoreStatus  == {"none", "new", "in_progress", "completed", "cancelled"}
GenerateOp   == [kind : {"cleaning"}, schedule : CleaningRow]

CleaningTyped ==
    /\ cleaning \in CleaningRow /\ chore \in [CleaningDays -> ChoreStatus]
    /\ promised \in SUBSET CleaningDays /\ cleaningDay \in CleaningDays
    /\ serial \in BOOLEAN /\ ops \in [Requests -> {NoOp} \cup GenerateOp]

(* A generation that takes its turn writes the schedule as it stands.       *)
ScheduleStands == serial => \A q \in Requests : ops[q] # NoOp => ops[q].schedule = cleaning

(* No task is older than the schedule.                                      *)
NothingBefore == serial /\ cleaning.weekdays = {} => \A d \in CleaningDays : chore[d] = "none"

CleaningInv == CleaningTyped /\ ScheduleStands /\ NothingBefore /\ CleaningFollowed

LEMMA CleaningInitially == CleaningIdle => /\ cleaning \in CleaningRow
                                           /\ chore \in [CleaningDays -> ChoreStatus]
                                           /\ promised \in SUBSET CleaningDays
                                           /\ cleaningDay \in CleaningDays
                                           /\ NothingBefore /\ CleaningFollowed
BY CleaningAssumption DEF CleaningIdle, CleaningRow, ChoreStatus, CleaningDays, CleaningFollowed, NothingBefore

(* The tasks a generation writes.                                           *)
LEMMA ChoresWritten ==
    ASSUME NEW rows \in [CleaningDays -> ChoreStatus], NEW schedule, NEW over
    PROVE  /\ ChoresOf(rows, schedule, over) \in [CleaningDays -> ChoreStatus]
           /\ \A d \in CleaningDays :
                LET new == rows[d] = "none" /\ d \in Ahead /\ Wanted(schedule, d) /\ ~(over /\ d = cleaningDay)
                IN  ChoresOf(rows, schedule, over)[d] = IF new THEN "new" ELSE rows[d]
BY DEF ChoresOf, ChoreStatus

(* After it, in a serial behaviour, the schedule is followed, if no task to *)
(* come was there that it does not ask for or that was taken back since it  *)
(* was promised.                                                            *)
LEMMA GenerationFollows ==
    ASSUME CleaningTyped, NEW rows \in [CleaningDays -> ChoreStatus], NEW over \in BOOLEAN,
           chore' = ChoresOf(rows, cleaning', over), cleaningDay' = cleaningDay,
           \A d \in CleaningDays : d > cleaningDay =>
              /\ rows[d] = "new" => Wanted(cleaning', d)
              /\ d \in promised' /\ Wanted(cleaning', d) =>
                    rows[d] # "cancelled" /\ (rows[d] = "none" => d \in Ahead)
    PROVE  CleaningFollowed'
<1> DEFINE s == cleaning'
<1>1. \A d \in CleaningDays :
         LET new == rows[d] = "none" /\ d \in Ahead /\ Wanted(s, d) /\ ~(over /\ d = cleaningDay)
         IN  chore'[d] = IF new THEN "new" ELSE rows[d]
  BY ChoresWritten
<1> SUFFICES ASSUME NEW d \in CleaningDays, d > cleaningDay
             PROVE  /\ chore'[d] = "new" => Wanted(s, d)
                    /\ d \in promised' /\ Wanted(s, d) => chore'[d] \notin {"none", "cancelled"}
  BY DEF CleaningFollowed, Wanted
<1>2. d # cleaningDay
  BY DEF CleaningTyped, CleaningDays
<1>3. chore'[d] = IF rows[d] = "none" /\ d \in Ahead /\ Wanted(s, d) THEN "new" ELSE rows[d]
  BY <1>1, <1>2
<1> HIDE DEF s
<1> QED
  BY <1>3 DEF s

LEMMA ChoreActs ==
    ASSUME CleaningInv, NEW d \in CleaningDays, NEW action \in DOMAIN ChoreRule, ActOnChore(d, action)
    PROVE  CleaningInv'
<1>0. CleaningTyped /\ ScheduleStands /\ NothingBefore /\ CleaningFollowed
  BY DEF CleaningInv
<1> DEFINE to == ChoreRule[action].to
<1>1. /\ chore[d] \in ChoreRule[action].from /\ chore' = [chore EXCEPT ![d] = to]
      /\ promised' = IF action \in {"cancel", "delete"} THEN promised \ {d} ELSE promised
      /\ cleaning' = cleaning /\ cleaningDay' = cleaningDay /\ ops' = ops /\ serial' = serial
  BY DEF ActOnChore
<1>2. /\ to \in ChoreStatus /\ to # "new"
      /\ action \notin {"cancel", "delete"} => to \notin {"none", "cancelled"}
  BY DEF ChoreRule, ChoreStatus
<1> HIDE DEF to
<1>3. CleaningTyped'
  BY <1>0, <1>1, <1>2 DEF CleaningTyped
<1>4. \A x \in CleaningDays : chore'[x] = IF x = d THEN to ELSE chore[x]
  BY <1>0, <1>1 DEF CleaningTyped
<1>5. CleaningFollowed'
  BY <1>0, <1>1, <1>2, <1>4 DEF CleaningFollowed, Wanted
<1>6. NothingBefore'
  <2>1. chore[d] # "none"
    BY <1>1 DEF ChoreRule
  <2> QED
    BY <1>0, <1>1, <2>1 DEF NothingBefore
<1> QED
  BY <1>0, <1>1, <1>3, <1>5, <1>6 DEF CleaningInv, ScheduleStands

LEMMA CleaningStep == CleaningInv /\ [CleaningNext]_cleaningVars => CleaningInv'
<1> SUFFICES ASSUME CleaningInv, [CleaningNext]_cleaningVars PROVE CleaningInv'
  OBVIOUS
<1>0. CleaningTyped /\ ScheduleStands /\ NothingBefore /\ CleaningFollowed
  BY DEF CleaningInv
<1>a. \A d \in Ahead : d \in CleaningDays
  BY DEF Ahead
<1>1. ASSUME NEW weekdays \in Weekdays, NEW until \in CleaningDays, CreateCleaning(weekdays, until)
      PROVE  CleaningInv'
  <2> DEFINE schedule == [active |-> TRUE, weekdays |-> weekdays, until |-> until]
  <2>1. PICK over \in BOOLEAN : chore' = ChoresOf(chore, schedule, over)
    BY <1>1 DEF CreateCleaning
  <2>2. /\ Calm /\ cleaning.weekdays = {} /\ cleaning' = schedule /\ promised' = Ahead
        /\ cleaningDay' = cleaningDay /\ ops' = ops /\ serial' = serial
    BY <1>1 DEF CreateCleaning
  <2>3. schedule \in CleaningRow
    BY DEF CleaningRow, Weekdays
  <2> HIDE DEF schedule
  <2>4. CleaningTyped'
    BY <1>0, <1>a, <2>1, <2>2, <2>3, ChoresWritten DEF CleaningTyped
  <2>5. ScheduleStands'
    BY <2>2 DEF ScheduleStands, Calm
  <2>6. CleaningFollowed'
    <3> SUFFICES ASSUME serial PROVE CleaningFollowed'
      BY <2>2 DEF CleaningFollowed
    <3>1. \A d \in CleaningDays : chore[d] = "none"
      BY <1>0, <2>2 DEF NothingBefore
    <3>2. chore \in [CleaningDays -> ChoreStatus]
      BY <1>0 DEF CleaningTyped
    <3> QED
      BY <1>0, <2>1, <2>2, <3>1, <3>2, GenerationFollows
  <2>7. NothingBefore'
    BY <2>2 DEF NothingBefore, Weekdays, schedule
  <2> QED
    BY <2>4, <2>5, <2>6, <2>7 DEF CleaningInv
<1>2. ASSUME NEW active \in BOOLEAN, NEW weekdays \in Weekdays, NEW until \in CleaningDays,
             UpdateCleaning([active |-> active, weekdays |-> weekdays, until |-> until])
      PROVE  CleaningInv'
  <2> DEFINE schedule == [active |-> active, weekdays |-> weekdays, until |-> until]
             kept == [d \in CleaningDays |-> IF d > cleaningDay THEN Cleared(chore[d]) ELSE chore[d]]
  <2>1. PICK over \in BOOLEAN :
          chore' = IF schedule.active THEN ChoresOf(kept, schedule, over) ELSE kept
    BY <1>2 DEF UpdateCleaning
  <2>2. /\ Calm /\ cleaning' = schedule /\ promised' = Ahead
        /\ cleaningDay' = cleaningDay /\ ops' = ops /\ serial' = serial
    BY <1>2 DEF UpdateCleaning
  <2>3. schedule \in CleaningRow /\ schedule.weekdays # {} /\ schedule.active = active
    BY DEF CleaningRow, Weekdays
  <2>4. /\ kept \in [CleaningDays -> ChoreStatus]
        /\ \A d \in CleaningDays : d > cleaningDay => kept[d] \notin {"new", "cancelled"}
    BY <1>0 DEF CleaningTyped, ChoreStatus, Cleared
  <2> HIDE DEF schedule, kept
  <2>5. CleaningTyped'
    BY <1>0, <1>a, <2>1, <2>2, <2>3, <2>4, ChoresWritten DEF CleaningTyped
  <2>6. ScheduleStands'
    BY <2>2 DEF ScheduleStands, Calm
  <2>7. CleaningFollowed'
    <3>1. CASE active
      BY <1>0, <2>1, <2>2, <2>3, <2>4, <3>1, GenerationFollows
    <3>2. CASE ~active
      <4>1. chore' = kept /\ ~schedule.active
        BY <2>1, <2>3, <3>2
      <4> QED
        BY <2>2, <2>4, <4>1 DEF CleaningFollowed, Wanted
    <3> QED
      BY <3>1, <3>2
  <2>8. NothingBefore'
    BY <2>2, <2>3 DEF NothingBefore
  <2> QED
    BY <2>5, <2>6, <2>7, <2>8 DEF CleaningInv
<1>3. ASSUME NEW q \in Requests, GenerateCleaningRead(q) PROVE CleaningInv'
  <2> DEFINE op == [kind |-> "cleaning", schedule |-> cleaning]
  <2>1. /\ ops' = [ops EXCEPT ![q] = op] /\ Turn(q)
        /\ cleaning' = cleaning /\ chore' = chore /\ promised' = promised
        /\ cleaningDay' = cleaningDay /\ serial' = serial
    BY <1>3 DEF GenerateCleaningRead, Begin, Start
  <2>2. op \in GenerateOp /\ op.schedule = cleaning
    BY <1>0 DEF GenerateOp, CleaningTyped
  <2> HIDE DEF op
  <2>3. CleaningTyped'
    BY <1>0, <2>1, <2>2 DEF CleaningTyped
  <2>4. ScheduleStands'
    BY <1>0, <2>1, <2>2 DEF ScheduleStands, CleaningTyped
  <2> QED
    BY <1>0, <2>1, <2>3, <2>4 DEF CleaningInv, CleaningFollowed, NothingBefore, Wanted
<1>4. ASSUME NEW q \in Requests, GenerateCleaningCommit(q) PROVE CleaningInv'
  <2>1. PICK over \in BOOLEAN : chore' = ChoresOf(chore, ops[q].schedule, over)
    BY <1>4 DEF GenerateCleaningCommit
  <2>2. /\ ops[q].kind = "cleaning" /\ ops' = [ops EXCEPT ![q] = NoOp]
        /\ promised' = promised \cup {d \in Ahead : chore[d] # "cancelled"}
        /\ cleaning' = cleaning /\ cleaningDay' = cleaningDay /\ serial' = serial
    BY <1>4 DEF GenerateCleaningCommit, End
  <2>3. CleaningTyped'
    BY <1>0, <1>a, <2>1, <2>2, ChoresWritten DEF CleaningTyped
  <2>4. ScheduleStands'
    BY <1>0, <2>2 DEF ScheduleStands, CleaningTyped
  <2>5. ASSUME serial PROVE ops[q].schedule = cleaning
    BY <1>0, <2>2, <2>5 DEF ScheduleStands, NoOp
  <2>6. CleaningFollowed'
    <3> SUFFICES ASSUME serial PROVE CleaningFollowed'
      BY <2>2 DEF CleaningFollowed
    <3>1. chore \in [CleaningDays -> ChoreStatus] /\ chore' = ChoresOf(chore, cleaning', over)
      BY <1>0, <2>1, <2>2, <2>5 DEF CleaningTyped
    <3>2. \A d \in CleaningDays : d > cleaningDay =>
             /\ chore[d] = "new" => Wanted(cleaning', d)
             /\ d \in promised' /\ Wanted(cleaning', d) =>
                   chore[d] # "cancelled" /\ (chore[d] = "none" => d \in Ahead)
      BY <1>0, <2>2 DEF CleaningFollowed
    <3> QED
      BY <1>0, <2>2, <3>1, <3>2, GenerationFollows
  <2>7. NothingBefore'
    <3> SUFFICES ASSUME serial, cleaning.weekdays = {}, NEW d \in CleaningDays
                 PROVE  chore'[d] = "none"
      BY <2>2 DEF NothingBefore
    <3>1. chore[d] = "none" /\ ~Wanted(ops[q].schedule, d)
      BY <1>0, <2>5 DEF NothingBefore, Wanted
    <3>2. chore \in [CleaningDays -> ChoreStatus]
      BY <1>0 DEF CleaningTyped
    <3> QED
      BY <2>1, <3>1, <3>2, ChoresWritten
  <2> QED
    BY <2>3, <2>4, <2>6, <2>7 DEF CleaningInv
<1>5. ASSUME NEW q \in Requests, CleaningAbort(q) PROVE CleaningInv'
  <2>1. /\ ops' = [ops EXCEPT ![q] = NoOp]
        /\ cleaning' = cleaning /\ chore' = chore /\ promised' = promised
        /\ cleaningDay' = cleaningDay /\ serial' = serial
    BY <1>5 DEF CleaningAbort, End
  <2>2. CleaningTyped' /\ ScheduleStands'
    BY <1>0, <2>1 DEF CleaningTyped, ScheduleStands
  <2> QED
    BY <1>0, <2>1, <2>2 DEF CleaningInv, CleaningFollowed, NothingBefore, Wanted
<1>6. ASSUME NEW d \in CleaningDays, NEW action \in DOMAIN ChoreRule, ActOnChore(d, action)
      PROVE  CleaningInv'
  BY <1>6, ChoreActs
<1>7. CASE CleaningDayPasses
  <2>1. /\ cleaningDay < LastCleaning /\ cleaningDay' = cleaningDay + 1
        /\ cleaning' = cleaning /\ chore' = chore /\ promised' = promised
        /\ ops' = ops /\ serial' = serial
    BY <1>7 DEF CleaningDayPasses
  <2>2. CleaningTyped'
    BY <1>0, <2>1, CleaningAssumption DEF CleaningTyped, CleaningDays
  <2>3. \A d \in CleaningDays : d > cleaningDay' => d > cleaningDay
    BY <1>0, <2>1 DEF CleaningTyped, CleaningDays
  <2> QED
    BY <1>0, <2>1, <2>2, <2>3 DEF CleaningInv, CleaningFollowed, NothingBefore, ScheduleStands, Wanted
<1>8. CASE UNCHANGED cleaningVars
  BY <1>0, <1>8 DEF cleaningVars, CleaningInv, CleaningTyped, CleaningFollowed, NothingBefore,
                    ScheduleStands, Wanted
<1> QED
  BY <1>1, <1>2, <1>3, <1>4, <1>5, <1>6, <1>7, <1>8 DEF CleaningNext

LEMMA CleaningBegun == CleaningInit => CleaningInv
BY CleaningInitially DEF CleaningInit, TxInit, CleaningInv, CleaningTyped, ScheduleStands

(* While handlers take turns, the tasks to come follow the schedule.        *)
THEOREM CleaningFollows == CleaningSpec => []CleaningFollowed
<1>1. CleaningInv => CleaningFollowed
  BY DEF CleaningInv
<1> QED
  BY <1>1, CleaningBegun, CleaningStep, PTL DEF CleaningSpec

-----------------------------------------------------------------------------
(* MaintenancePlan.                                                         *)

DueStatus == Awaited \cup {"none", "in_progress", "completed", "skipped", "cancelled"}
DueRow    == [status : DueStatus, work : 0 .. MaxPieces]
LiveWork  == {"new", "in_progress", "completed", "closed"}
PieceRow  == [status : LiveWork \cup {"none", "cancelled", "deleted"},
              kind : Outputs, day : DueDays, started : BOOLEAN]
PlanRow   == [status : {"none", "draft", "published", "archived"}, output : Outputs,
              dates : SUBSET DueDays]

ChangePlanOp == [kind : {"plan"}, output : Outputs, dates : SUBSET DueDays, published : BOOLEAN]
SchedulesOp  == [kind : {"generate"}, dates : SUBSET DueDays, from : DueDays]
CreateWorkOp == [kind : {"create"}, days : SUBSET DueDays, output : Outputs]
SkipOp       == [kind : {"skip"}, day : DueDays, work : 0 .. MaxPieces]
PlanOps      == {NoOp} \cup ChangePlanOp \cup SchedulesOp \cup CreateWorkOp \cup SkipOp

PlanTyped == PlanTypeOK /\ ops \in [Requests -> PlanOps]

(* The row of a due date shows its work.                                    *)
Shows(row, p, d) ==
    LET lost == p.kind = "inspection" /\ row.status = "cancelled" IN
    /\ p.day = d /\ p.status \notin {"none", "deleted"}
    /\ p.status = "new" => row.status \in {"due", "overdue"} \/ lost
    /\ p.status = "in_progress" => row.status \in {"in_progress", "completed"} \/ lost
    /\ p.status \in {"completed", "closed"} => row.status = "completed"
    /\ p.status = "cancelled" => row.status \in {"cancelled", "skipped", "completed"}

WorkShown == \A d \in DueDays, w \in Pieces : due[d].work = w => Shows(due[d], piece[w], d)

(* Work that lives is the work of its date, whatever became of the date.    *)
WorkLinked == \A w \in Pieces : piece[w].status \in LiveWork => due[piece[w].day].work = w

(* Works are numbered as they are created.                                  *)
MadePieces == {w \in Pieces : piece[w].status # "none"}

WorkNumbered == \A w \in MadePieces : w <= Cardinality(MadePieces)

PlanBooks == WorkShown /\ WorkLinked /\ WorkNumbered

(* What a handler that takes its turn read still is so.                     *)
PlanReadStands(op) ==
    /\ op.kind = "create" => \A d \in op.days : due[d].status \in Awaited /\ due[d].work = 0
    /\ op.kind = "skip" => /\ op.work = due[op.day].work
                           /\ due[op.day].status \notin {"none", "completed", "in_progress"}

PlanTurns ==
    /\ \A q, r \in Requests : ops[q] # NoOp /\ ops[r] # NoOp => q = r
    /\ \A q \in Requests : ops[q] # NoOp => PlanReadStands(ops[q])

PlanInv == PlanTyped /\ (serial => PlanBooks /\ PlanTurns)

LEMMA PlanRowSets ==
    /\ PlanRow = [status : {"none", "draft", "published", "archived"}, output : Outputs,
                  dates : SUBSET DueDays]
    /\ DueRow = [status : Awaited \cup {"none", "in_progress", "completed", "skipped", "cancelled"},
                 work : 0 .. MaxPieces]
    /\ PieceRow = [status : {"none", "new", "in_progress", "completed", "closed", "cancelled", "deleted"},
                   kind : Outputs, day : DueDays, started : BOOLEAN]
<1>1. LiveWork \cup {"none", "cancelled", "deleted"}
         = {"none", "new", "in_progress", "completed", "closed", "cancelled", "deleted"}
  BY DEF LiveWork
<1> QED
  BY <1>1 DEF PlanRow, DueRow, DueStatus, PieceRow

LEMMA PlanRows ==
    PlanTypeOK <=> /\ plan \in PlanRow /\ due \in [DueDays -> DueRow] /\ piece \in [Pieces -> PieceRow]
                   /\ today \in DueDays /\ serial \in BOOLEAN
BY PlanRowSets DEF PlanTypeOK

LEMMA PlanRowsNext ==
    PlanTypeOK' <=> /\ plan' \in PlanRow /\ due' \in [DueDays -> DueRow]
                    /\ piece' \in [Pieces -> PieceRow] /\ today' \in DueDays /\ serial' \in BOOLEAN
BY PlanRowSets DEF PlanTypeOK

LEMMA PlanOpOfKind ==
    ASSUME NEW op \in PlanOps
    PROVE  /\ op.kind = "plan" => op \in ChangePlanOp /\ op # NoOp
           /\ op.kind = "generate" => op \in SchedulesOp /\ op # NoOp
           /\ op.kind = "create" => op \in CreateWorkOp /\ op # NoOp
           /\ op.kind = "skip" => op \in SkipOp /\ op # NoOp
BY DEF PlanOps, NoOp, ChangePlanOp, SchedulesOp, CreateWorkOp, SkipOp

(* A row that shows work is neither awaiting its first work nor gone.       *)
LEMMA ShownStatus ==
    ASSUME NEW row \in DueRow, NEW p \in PieceRow, NEW d, Shows(row, p, d)
    PROVE  /\ row.status \notin {"none", "scheduled"}
           /\ row.status \in {"due", "overdue"} => p.status = "new"
           /\ p.status \in LiveWork \cup {"cancelled"}
BY DEF Shows, DueRow, PieceRow, LiveWork

(* What a hook makes of a row, by the kind of the work.                     *)
HookStatus(kind, status, action) ==
    IF kind = "work_order" THEN OrderHook(status, WorkRule[action].to) ELSE InspectionHook(status, action)

LEMMA HookTyped ==
    ASSUME NEW kind, NEW status \in DueStatus, NEW action \in DOMAIN WorkRule
    PROVE  HookStatus(kind, status, action) \in DueStatus
<1>1. OrderHook(status, WorkRule[action].to) \in DueStatus
  BY DEF OrderHook, WorkRule, DueStatus, Awaited
<1>2. InspectionHook(status, action) \in DueStatus
  BY DEF InspectionHook, DueStatus, Awaited
<1> QED
  BY <1>1, <1>2 DEF HookStatus

LEMMA HookShows ==
    ASSUME NEW row \in DueRow, NEW p \in PieceRow, NEW n \in PieceRow, NEW new \in DueRow, NEW d,
           NEW action \in DOMAIN WorkRule, p.status \in WorkRule[action].from, Shows(row, p, d),
           n.status = WorkRule[action].to, n.kind = p.kind, n.day = p.day,
           new.status = HookStatus(p.kind, row.status, action)
    PROVE  Shows(new, n, d)
<1>0. p.kind \in Outputs /\ row.status \in DueStatus
  BY DEF PieceRow, DueRow
<1>1. CASE action = "start"
  <2>1. p.status = "new" /\ n.status = "in_progress"
    BY <1>1 DEF WorkRule
  <2>2. CASE p.kind = "work_order"
    BY <1>1, <2>1, <2>2 DEF Shows, HookStatus, OrderHook, WorkRule
  <2>3. CASE p.kind = "inspection"
    BY <1>1, <2>1, <2>3 DEF Shows, HookStatus, InspectionHook, Awaited
  <2> QED
    BY <1>0, <2>2, <2>3 DEF Outputs
<1>2. CASE action = "complete"
  <2>1. p.status = "in_progress" /\ n.status = "completed"
    BY <1>2 DEF WorkRule
  <2>2. CASE p.kind = "work_order"
    BY <1>2, <2>1, <2>2 DEF Shows, HookStatus, OrderHook, WorkRule
  <2>3. CASE p.kind = "inspection"
    BY <1>2, <2>1, <2>3 DEF Shows, HookStatus, InspectionHook, Awaited
  <2> QED
    BY <1>0, <2>2, <2>3 DEF Outputs
<1>3. CASE action = "close"
  <2>1. p.status = "completed" /\ n.status = "closed"
    BY <1>3 DEF WorkRule
  <2>2. CASE p.kind = "work_order"
    BY <1>3, <2>1, <2>2 DEF Shows, HookStatus, OrderHook, WorkRule
  <2>3. CASE p.kind = "inspection"
    BY <1>3, <2>1, <2>3 DEF Shows, HookStatus, InspectionHook, Awaited
  <2> QED
    BY <1>0, <2>2, <2>3 DEF Outputs
<1>4. CASE action = "reopen"
  <2>1. p.status \in {"completed", "closed"} /\ n.status = "in_progress" /\ row.status = "completed"
    BY <1>4 DEF WorkRule, Shows
  <2>2. CASE p.kind = "work_order"
    BY <1>4, <2>1, <2>2 DEF Shows, HookStatus, OrderHook, WorkRule
  <2>3. CASE p.kind = "inspection"
    BY <1>4, <2>1, <2>3 DEF Shows, HookStatus, InspectionHook, Awaited
  <2> QED
    BY <1>0, <2>2, <2>3 DEF Outputs
<1>5. CASE action = "cancel"
  <2>1. p.status \in {"new", "in_progress"} /\ n.status = "cancelled"
    BY <1>5 DEF WorkRule
  <2>2. CASE p.kind = "work_order"
    BY <1>5, <2>1, <2>2 DEF Shows, HookStatus, OrderHook, WorkRule
  <2>3. CASE p.kind = "inspection"
    BY <1>5, <2>1, <2>3 DEF Shows, HookStatus, InspectionHook, Awaited
  <2> QED
    BY <1>0, <2>2, <2>3 DEF Outputs
<1> QED
  BY <1>1, <1>2, <1>3, <1>4, <1>5 DEF WorkRule

LEMMA ActedRows ==
    ASSUME piece \in [Pieces -> PieceRow], NEW w \in Pieces, NEW action \in DOMAIN WorkRule
    PROVE  /\ Acted(w, action) \in [Pieces -> PieceRow]
           /\ Acted(w, action)[w].status = WorkRule[action].to
           /\ Acted(w, action)[w].kind = piece[w].kind
           /\ Acted(w, action)[w].day = piece[w].day
           /\ \A v \in Pieces \ {w} : Acted(w, action)[v] = piece[v]
<1> DEFINE to == WorkRule[action].to
           s == piece[w].started \/ action = "start"
           row == [piece[w] EXCEPT !.status = to, !.started = s]
<1>1. piece[w] \in PieceRow /\ s \in BOOLEAN /\ to \in LiveWork \cup {"none", "cancelled", "deleted"}
  BY DEF PieceRow, WorkRule, LiveWork
<1>2. Acted(w, action) = [piece EXCEPT ![w] = row]
  BY DEF Acted
<1> HIDE DEF to, s
<1>3. row \in PieceRow /\ row.status = to /\ row.kind = piece[w].kind /\ row.day = piece[w].day
  BY <1>1 DEF PieceRow
<1> HIDE DEF row
<1> QED
  BY <1>2, <1>3 DEF to

(* The rows after a hook keep their types.                                  *)
LEMMA HookedTyped ==
    ASSUME due \in [DueDays -> DueRow], NEW w, NEW action \in DOMAIN WorkRule
    PROVE  /\ Hooked(due, w, action) \in [DueDays -> DueRow]
           /\ \A d \in DueDays :
                /\ Hooked(due, w, action)[d].work = due[d].work
                /\ ~ (piece[w].kind = "work_order" /\ piece[w].day = d)
                     /\ ~ (piece[w].kind = "inspection" /\ due[d].work = w)
                     => Hooked(due, w, action)[d] = due[d]
                /\ due[d].status # "none" /\ \/ piece[w].kind = "work_order" /\ piece[w].day = d
                                             \/ piece[w].kind = "inspection" /\ due[d].work = w
                     => Hooked(due, w, action)[d].status = HookStatus(piece[w].kind, due[d].status, action)
<1> DEFINE o(d) == [due[d] EXCEPT !.status = OrderHook(due[d].status, WorkRule[action].to)]
           i(d) == [due[d] EXCEPT !.status = InspectionHook(due[d].status, action)]
           f(d) == CASE due[d].status = "none" -> due[d]
                     [] piece[w].kind = "work_order" /\ piece[w].day = d -> o(d)
                     [] piece[w].kind = "inspection" /\ due[d].work = w -> i(d)
                     [] OTHER -> due[d]
<1>1. Hooked(due, w, action) = [d \in DueDays |-> f(d)]
  BY DEF Hooked
<1>2. ASSUME NEW d \in DueDays
      PROVE  /\ o(d) \in DueRow /\ o(d).work = due[d].work
             /\ o(d).status = HookStatus("work_order", due[d].status, action)
             /\ i(d) \in DueRow /\ i(d).work = due[d].work
             /\ i(d).status = HookStatus("inspection", due[d].status, action)
  <2>1. due[d] \in DueRow /\ due[d].status \in DueStatus
    BY DEF DueRow
  <2>2. /\ OrderHook(due[d].status, WorkRule[action].to) = HookStatus("work_order", due[d].status, action)
        /\ InspectionHook(due[d].status, action) = HookStatus("inspection", due[d].status, action)
    BY DEF HookStatus
  <2>3. /\ HookStatus("work_order", due[d].status, action) \in DueStatus
        /\ HookStatus("inspection", due[d].status, action) \in DueStatus
    BY <2>1, HookTyped
  <2> QED
    BY <2>1, <2>2, <2>3 DEF DueRow
<1> HIDE DEF o, i
<1>3. \A d \in DueDays :
        /\ f(d) \in DueRow /\ f(d).work = due[d].work
        /\ ~ (piece[w].kind = "work_order" /\ piece[w].day = d)
             /\ ~ (piece[w].kind = "inspection" /\ due[d].work = w) => f(d) = due[d]
        /\ due[d].status # "none" /\ \/ piece[w].kind = "work_order" /\ piece[w].day = d
                                     \/ piece[w].kind = "inspection" /\ due[d].work = w
             => f(d).status = HookStatus(piece[w].kind, due[d].status, action)
  <2> TAKE d \in DueDays
  <2>1. due[d] \in DueRow
    OBVIOUS
  <2> QED
    BY <1>2, <2>1
<1> HIDE DEF f
<1> QED
  BY <1>1, <1>3

LEMMA PlanRowsOf ==
    ASSUME PlanInv
    PROVE  /\ plan \in PlanRow /\ due \in [DueDays -> DueRow] /\ piece \in [Pieces -> PieceRow]
           /\ today \in DueDays /\ serial \in BOOLEAN /\ ops \in [Requests -> PlanOps]
BY PlanRows DEF PlanInv, PlanTyped

(* A handler reads.                                                         *)
LEMMA PlanBegins ==
    ASSUME PlanInv, NEW q \in Requests, NEW op \in PlanOps, op # NoOp, Begin(q, op),
           serial => PlanReadStands(op), UNCHANGED <<plan, due, piece, today, serial>>
    PROVE  PlanInv'
<1>1. ops' = [ops EXCEPT ![q] = op] /\ ops \in [Requests -> PlanOps] /\ Turn(q)
  BY PlanRowsOf DEF Begin, Start
<1>2. PlanTyped'
  BY <1>1, PlanRowsOf, PlanRowsNext DEF PlanTyped
<1>3. ASSUME serial PROVE PlanTurns'
  <2>1. \A r \in Requests \ {q} : ops'[r] = NoOp
    BY <1>1, <1>3 DEF Turn
  <2>2. ops'[q] = op /\ PlanReadStands(op)'
    BY <1>1, <1>3 DEF PlanReadStands
  <2> QED
    BY <2>1, <2>2 DEF PlanTurns, PlanReadStands
<1>4. ASSUME serial PROVE PlanBooks'
  BY <1>4 DEF PlanInv, PlanBooks, WorkShown, WorkLinked, WorkNumbered, MadePieces
<1> QED
  BY <1>2, <1>3, <1>4 DEF PlanInv

(* A handler ends, or a step of one piece in a calm moment.                 *)
LEMMA PlanEnds ==
    ASSUME PlanInv, serial' = serial,
           \/ \E q \in Requests : ops[q] # NoOp /\ End(q)
           \/ Calm /\ ops' = ops,
           plan' \in PlanRow, due' \in [DueDays -> DueRow], piece' \in [Pieces -> PieceRow],
           today' \in DueDays, serial => PlanBooks'
    PROVE  PlanInv'
<1>1. ops \in [Requests -> PlanOps] /\ NoOp \in PlanOps
  BY PlanRowsOf DEF PlanOps
<1>2. ops' \in [Requests -> PlanOps] /\ (serial => \A r \in Requests : ops'[r] = NoOp)
  BY <1>1 DEF End, PlanInv, PlanTurns, Calm
<1>3. PlanTyped'
  BY <1>2, PlanRowsOf, PlanRowsNext DEF PlanTyped
<1> QED
  BY <1>2, <1>3 DEF PlanInv, PlanTurns

(* The rows of some dates change, their works do not.                       *)
LEMMA DueChanges ==
    ASSUME PlanBooks, piece' = piece,
           \A d \in DueDays : /\ due'[d].work = due[d].work
                              /\ \A w \in Pieces : due[d].work = w /\ Shows(due[d], piece[w], d)
                                                     => Shows(due'[d], piece[w], d),
           piece \in [Pieces -> PieceRow]
    PROVE  PlanBooks'
<1>1. WorkShown'
  BY DEF PlanBooks, WorkShown
<1>2. WorkLinked'
  <2>1. \A w \in Pieces : piece[w].day \in DueDays
    BY DEF PieceRow
  <2> QED
    BY <2>1 DEF PlanBooks, WorkLinked
<1> QED
  BY <1>1, <1>2 DEF PlanBooks, WorkNumbered, MadePieces

(* A work that lives moves, and its date with it.                           *)
LEMMA PieceMoves ==
    ASSUME PlanBooks, piece \in [Pieces -> PieceRow], piece' \in [Pieces -> PieceRow],
           NEW w \in Pieces, piece[w].status \in LiveWork, NEW d \in DueDays, d = piece[w].day,
           \A v \in Pieces \ {w} : piece'[v] = piece[v],
           \A e \in DueDays \ {d} : due'[e] = due[e],
           due'[d].work = due[d].work, piece'[w].day = d, Shows(due'[d], piece'[w], d)
    PROVE  PlanBooks'
<1>1. due[d].work = w
  BY DEF PlanBooks, WorkLinked
<1>2. WorkShown'
  <2> SUFFICES ASSUME NEW e \in DueDays, NEW v \in Pieces, due'[e].work = v
               PROVE  Shows(due'[e], piece'[v], e)
    BY DEF WorkShown
  <2>1. CASE e = d
    BY <1>1, <2>1
  <2>2. CASE e # d
    <3>1. due'[e] = due[e] /\ Shows(due[e], piece[v], e)
      BY <2>2 DEF PlanBooks, WorkShown
    <3>2. v # w
      BY <2>2, <3>1 DEF Shows
    <3> QED
      BY <3>1, <3>2
  <2> QED
    BY <2>1, <2>2
<1>3. WorkLinked'
  <2> SUFFICES ASSUME NEW v \in Pieces, piece'[v].status \in LiveWork
               PROVE  due'[piece'[v].day].work = v
    BY DEF WorkLinked
  <2>1. CASE v = w
    BY <1>1, <2>1
  <2>2. CASE v # w
    <3>1. piece'[v] = piece[v] /\ due[piece[v].day].work = v /\ piece[v].day \in DueDays
      BY <2>2 DEF PlanBooks, WorkLinked, PieceRow
    <3>2. piece[v].day # d
      BY <1>1, <2>2, <3>1
    <3> QED
      BY <3>1, <3>2
  <2> QED
    BY <2>1, <2>2
<1>4. MadePieces' = MadePieces
  <2>1. piece'[w].status # "none" /\ piece[w].status # "none"
    BY DEF Shows, LiveWork
  <2> QED
    BY <2>1 DEF MadePieces
<1> QED
  BY <1>2, <1>3, <1>4 DEF PlanBooks, WorkNumbered

(* What staff does to a work shows on its date.                             *)
LEMMA ActKeeps ==
    ASSUME PlanInv, NEW w \in Pieces, NEW action \in DOMAIN WorkRule, ActOn(w, action)
    PROVE  PlanInv'
<1>0. /\ due \in [DueDays -> DueRow] /\ piece \in [Pieces -> PieceRow] /\ today \in DueDays
      /\ plan \in PlanRow
  BY PlanRowsOf
<1>1. /\ Calm /\ piece[w].status \in WorkRule[action].from /\ piece' = Acted(w, action)
      /\ due' = Hooked(due, w, action) /\ UNCHANGED <<plan, today, ops, serial>>
  BY DEF ActOn
<1>2. piece' \in [Pieces -> PieceRow] /\ due' \in [DueDays -> DueRow]
  BY <1>0, <1>1, ActedRows, HookedTyped
<1>3. ASSUME serial PROVE PlanBooks'
  <2>0. PlanBooks
    BY <1>3 DEF PlanInv
  <2>1. PICK d \in DueDays : d = piece[w].day
    BY <1>0 DEF PieceRow
  <2>2. piece[w].status \in LiveWork
    BY <1>1 DEF WorkRule, LiveWork
  <2>3. due[d].work = w /\ Shows(due[d], piece[w], d)
    BY <2>0, <2>1, <2>2 DEF PlanBooks, WorkLinked, WorkShown
  <2>4. due[d] \in DueRow /\ piece[w] \in PieceRow /\ due'[d] \in DueRow /\ piece'[w] \in PieceRow
    BY <1>0, <1>2
  <2>5. due[d].status # "none" /\ piece[w].kind \in {"work_order", "inspection"}
    BY <2>3, <2>4, ShownStatus DEF PieceRow, Outputs
  <2>6. /\ due'[d].work = due[d].work
        /\ due'[d].status = HookStatus(piece[w].kind, due[d].status, action)
    BY <1>0, <1>1, <2>1, <2>3, <2>5, HookedTyped
  <2>7. \A e \in DueDays \ {d} : due'[e] = due[e]
    <3> SUFFICES ASSUME NEW e \in DueDays \ {d} PROVE due'[e] = due[e]
      OBVIOUS
    <3>1. due[e].work # w
      BY <2>0, <2>1 DEF PlanBooks, WorkShown, Shows
    <3> QED
      BY <1>0, <1>1, <2>1, <3>1, HookedTyped
  <2>8. /\ piece'[w].status = WorkRule[action].to /\ piece'[w].kind = piece[w].kind
        /\ piece'[w].day = d /\ \A v \in Pieces \ {w} : piece'[v] = piece[v]
    BY <1>0, <1>1, <2>1, ActedRows
  <2>9. Shows(due'[d], piece'[w], d)
    BY <1>1, <2>1, <2>3, <2>4, <2>6, <2>8, HookShows
  <2> QED
    BY <1>0, <1>2, <2>0, <2>1, <2>2, <2>6, <2>7, <2>8, <2>9, PieceMoves
<1> QED
  BY <1>0, <1>1, <1>2, <1>3, PlanEnds

(* Work that never began goes, and leaves its date to be worked on again.   *)
LEMMA DeleteKeeps ==
    ASSUME PlanInv, NEW w \in Pieces, DeleteWork(w)
    PROVE  PlanInv'
<1> DEFINE kept(d) == IF due[d].status \in {"in_progress", "completed"} THEN "due" ELSE due[d].status
           f(d) == IF due[d].work = w THEN [work |-> 0, status |-> kept(d)] ELSE due[d]
           gone == [piece[w] EXCEPT !.status = "deleted"]
<1>0. /\ due \in [DueDays -> DueRow] /\ piece \in [Pieces -> PieceRow] /\ today \in DueDays
      /\ plan \in PlanRow
  BY PlanRowsOf
<1>1. /\ Calm /\ piece[w].status \in {"new", "cancelled"} /\ UNCHANGED <<plan, today, ops, serial>>
      /\ piece' = [piece EXCEPT ![w] = gone] /\ due' = [d \in DueDays |-> f(d)]
  BY DEF DeleteWork
<1>2. gone \in PieceRow /\ gone.status = "deleted" /\ gone.day = piece[w].day
  <2>1. piece[w] \in PieceRow
    BY <1>0
  <2> QED
    BY <2>1 DEF PieceRow
<1>3. \A d \in DueDays : /\ f(d) \in DueRow
                         /\ due[d].work = w => f(d).work = 0
                         /\ due[d].work # w => f(d) = due[d]
  <2> TAKE d \in DueDays
  <2>1. due[d] \in DueRow /\ kept(d) \in DueStatus /\ MaxPieces \in Nat
    BY <1>0, PlanAssumption DEF DueRow, DueStatus, Awaited
  <2> HIDE DEF kept
  <2> QED
    BY <2>1 DEF DueRow
<1> HIDE DEF f, gone
<1>4. /\ piece' \in [Pieces -> PieceRow] /\ due' \in [DueDays -> DueRow]
      /\ piece'[w] = gone /\ \A v \in Pieces \ {w} : piece'[v] = piece[v]
      /\ \A d \in DueDays : due'[d] = f(d)
  BY <1>0, <1>1, <1>2, <1>3
<1>5. ASSUME serial PROVE PlanBooks'
  <2>0. PlanBooks /\ w # 0
    BY <1>5 DEF PlanInv, Pieces
  <2>1. WorkShown'
    <3> SUFFICES ASSUME NEW d \in DueDays, NEW v \in Pieces, due'[d].work = v
                 PROVE  Shows(due'[d], piece'[v], d)
      BY DEF WorkShown
    <3>1. v # 0
      BY DEF Pieces
    <3>2. due[d].work # w /\ due'[d] = due[d] /\ v # w
      BY <1>3, <1>4, <3>1
    <3> QED
      BY <1>4, <2>0, <3>2 DEF PlanBooks, WorkShown
  <2>2. WorkLinked'
    <3> SUFFICES ASSUME NEW v \in Pieces, piece'[v].status \in LiveWork
                 PROVE  due'[piece'[v].day].work = v
      BY DEF WorkLinked
    <3>1. v # w
      BY <1>2, <1>4 DEF LiveWork
    <3>2. piece'[v] = piece[v] /\ piece[v].day \in DueDays /\ due[piece[v].day].work = v
      BY <1>0, <1>4, <2>0, <3>1 DEF PlanBooks, WorkLinked, PieceRow
    <3> QED
      BY <1>3, <1>4, <3>1, <3>2
  <2>3. MadePieces' = MadePieces
    BY <1>1, <1>2, <1>4 DEF MadePieces
  <2> QED
    BY <2>0, <2>1, <2>2, <2>3 DEF PlanBooks, WorkNumbered
<1> QED
  BY <1>0, <1>1, <1>4, <1>5, PlanEnds

(* A schedule is skipped, and the work that waits for it ends.              *)
LEMMA SkipKeeps ==
    ASSUME PlanInv, NEW q \in Requests, SkipCommit(q)
    PROVE  PlanInv'
<1>0. /\ due \in [DueDays -> DueRow] /\ piece \in [Pieces -> PieceRow] /\ today \in DueDays
      /\ plan \in PlanRow /\ ops[q] \in PlanOps
  BY PlanRowsOf
<1>1. ops[q] \in SkipOp /\ ops[q] # NoOp
  BY <1>0, PlanOpOfKind DEF SkipCommit
<1>2. PICK d \in DueDays, w \in 0 .. MaxPieces : d = ops[q].day /\ w = ops[q].work
  BY <1>1 DEF SkipOp
<1> DEFINE rows == IF WorkStops(w) THEN Hooked(due, w, "cancel") ELSE due
           skipped == [rows[d] EXCEPT !.status = "skipped"]
<1>3. /\ End(q) /\ piece' = IF WorkStops(w) THEN Acted(w, "cancel") ELSE piece
      /\ due' = IF due[d].status = "none" THEN due ELSE [rows EXCEPT ![d] = skipped]
      /\ UNCHANGED <<plan, today, serial>>
  BY <1>2 DEF SkipCommit
<1>4. "cancel" \in DOMAIN WorkRule /\ WorkRule["cancel"].from = {"new", "in_progress"}
      /\ WorkRule["cancel"].to = "cancelled"
  BY DEF WorkRule
<1>5. WorkStops(w) => w \in Pieces /\ piece[w].status \in {"new", "in_progress"}
  BY <1>4, PlanAssumption DEF WorkStops, Pieces
<1>6. rows \in [DueDays -> DueRow] /\ \A e \in DueDays : rows[e].work = due[e].work
  BY <1>0, <1>4, HookedTyped
<1>7. skipped \in DueRow /\ skipped.status = "skipped" /\ skipped.work = due[d].work
  <2>1. rows[d] \in DueRow /\ rows[d].work = due[d].work
    BY <1>6
  <2> HIDE DEF rows
  <2> QED
    BY <2>1 DEF DueRow, DueStatus
<1> HIDE DEF skipped
<1>8. piece' \in [Pieces -> PieceRow] /\ due' \in [DueDays -> DueRow]
  <2>1. piece' \in [Pieces -> PieceRow]
    BY <1>0, <1>3, <1>4, <1>5, ActedRows
  <2> HIDE DEF rows
  <2> QED
    BY <1>0, <1>3, <1>6, <1>7, <2>1
<1>9. ASSUME serial PROVE PlanBooks'
  <2>0. PlanBooks /\ w = due[d].work /\ due[d].status \notin {"none", "completed", "in_progress"}
    BY <1>1, <1>2, <1>9 DEF PlanInv, PlanTurns, PlanReadStands, SkipOp
  <2>1. due' = [rows EXCEPT ![d] = skipped]
    BY <1>3, <2>0
  <2>2. due'[d] = skipped /\ \A e \in DueDays \ {d} : due'[e] = rows[e]
    <3> HIDE DEF rows
    <3> QED
      BY <1>6, <1>7, <2>1
  <2>3. CASE WorkStops(w)
    <3>1. w \in Pieces /\ piece[w].status \in {"new", "in_progress"} /\ piece[w].status \in LiveWork
      BY <1>5, <2>3 DEF LiveWork
    <3>2. Shows(due[d], piece[w], d) /\ piece[w].day = d
      BY <2>0, <3>1 DEF PlanBooks, WorkShown, Shows
    <3>3. /\ piece'[w].status = "cancelled" /\ piece'[w].day = d
          /\ \A v \in Pieces \ {w} : piece'[v] = piece[v]
      <4>1. piece' = Acted(w, "cancel")
        BY <1>3, <2>3
      <4>2. /\ Acted(w, "cancel")[w].status = "cancelled" /\ Acted(w, "cancel")[w].day = piece[w].day
            /\ \A v \in Pieces \ {w} : Acted(w, "cancel")[v] = piece[v]
        BY <1>0, <1>4, <3>1, ActedRows
      <4> QED
        BY <3>2, <4>1, <4>2
    <3>4. \A e \in DueDays \ {d} : due'[e] = due[e]
      <4> SUFFICES ASSUME NEW e \in DueDays \ {d} PROVE Hooked(due, w, "cancel")[e] = due[e]
        BY <2>2, <2>3
      <4>1. due[e].work # w
        BY <2>0, <3>1, <3>2 DEF PlanBooks, WorkShown, Shows
      <4> QED
        BY <1>0, <1>4, <3>2, <4>1, HookedTyped
    <3>5. Shows(due'[d], piece'[w], d)
      BY <1>7, <2>2, <3>3 DEF Shows
    <3> QED
      BY <1>0, <1>7, <1>8, <2>0, <2>2, <3>1, <3>2, <3>3, <3>4, <3>5, PieceMoves
  <2>4. CASE ~WorkStops(w)
    <3>1. piece' = piece /\ \A e \in DueDays \ {d} : due'[e] = due[e]
      BY <1>3, <2>2, <2>4
    <3>2. ASSUME NEW v \in Pieces, due[d].work = v, Shows(due[d], piece[v], d)
          PROVE  Shows(due'[d], piece[v], d)
      <4>1. v = w /\ piece[v].status \notin {"new", "in_progress"}
        BY <1>4, <2>0, <2>4, <3>2 DEF WorkStops, Pieces
      <4>2. piece[v].status \notin {"completed", "closed"}
        BY <2>0, <3>2 DEF Shows
      <4> QED
        BY <1>7, <2>2, <3>2, <4>1, <4>2 DEF Shows
    <3> QED
      BY <1>0, <1>7, <2>0, <2>2, <3>1, <3>2, DueChanges
  <2> QED
    BY <2>3, <2>4
<1> QED
  BY <1>0, <1>1, <1>3, <1>8, <1>9, PlanEnds

(* Works are numbered in the order of their dates.                          *)
Nth(days, d) == Cardinality({e \in days : e <= d})

LEMMA NthOrders ==
    ASSUME NEW days \in SUBSET DueDays
    PROVE  /\ IsFiniteSet(days) /\ Cardinality(days) \in Nat
           /\ \A d \in days : Nth(days, d) \in 1 .. Cardinality(days)
           /\ \A d, e \in days : Nth(days, d) = Nth(days, e) => d = e
<1> DEFINE upto(d) == {e \in days : e <= d}
<1>1. IsFiniteSet(days) /\ Cardinality(days) \in Nat /\ days \subseteq Nat
  <2>1. IsFiniteSet(DueDays) /\ DueDays \subseteq Nat
    BY PlanAssumption, FS_Interval DEF DueDays
  <2> QED
    BY <2>1, FS_Subset, FS_CardinalityType
<1>2. \A d : upto(d) \in SUBSET days /\ IsFiniteSet(upto(d)) /\ Cardinality(upto(d)) \in Nat
             /\ Cardinality(upto(d)) <= Cardinality(days)
  BY <1>1, FS_Subset, FS_CardinalityType
<1>3. ASSUME NEW d \in days PROVE Cardinality(upto(d)) # 0
  <2>1. d \in upto(d)
    BY <1>1
  <2> HIDE DEF upto
  <2> QED
    BY <1>2, <2>1, FS_EmptySet
<1>4. ASSUME NEW d \in days, NEW e \in days, d < e PROVE Cardinality(upto(d)) < Cardinality(upto(e))
  <2>0. d \in Nat /\ e \in Nat /\ \A x \in days : x \in Nat
    BY <1>1
  <2>1. upto(d) \in SUBSET upto(e) /\ e \in upto(e) /\ e \notin upto(d)
    <3>1. \A x \in days : x <= d => x <= e
      BY <1>4, <2>0
    <3>2. e <= e /\ ~ (e <= d)
      BY <1>4, <2>0
    <3> QED
      BY <3>1, <3>2
  <2> HIDE DEF upto
  <2>2. Cardinality(upto(d)) <= Cardinality(upto(e))
    BY <1>2, <2>1, FS_Subset
  <2>3. Cardinality(upto(e)) # Cardinality(upto(d))
    BY <1>2, <2>1, FS_Subset
  <2> QED
    BY <1>2, <2>2, <2>3
<1>5. \A d : Nth(days, d) = Cardinality(upto(d))
  BY DEF Nth
<1> HIDE DEF upto
<1>6. \A d \in days : Nth(days, d) \in 1 .. Cardinality(days)
  BY <1>1, <1>2, <1>3, <1>5
<1>7. ASSUME NEW d \in days, NEW e \in days, Nth(days, d) = Nth(days, e) PROVE d = e
  <2>1. d \in Nat /\ e \in Nat /\ ~ (d < e) /\ ~ (e < d)
    BY <1>1, <1>2, <1>4, <1>5, <1>7
  <2> QED
    BY <2>1
<1> QED
  BY <1>1, <1>6, <1>7

(* The works of some dates are created after those that are there.          *)
LEMMA CreationNumbers ==
    ASSUME NEW M, NEW N, NEW days \in SUBSET DueDays, M \subseteq Pieces, \A w \in M : w <= Cardinality(M),
           N = M \cup {Cardinality(M) + Nth(days, d) : d \in days}, N \subseteq Pieces
    PROVE  /\ Cardinality(M) \in Nat
           /\ \A d \in days : Cardinality(M) + Nth(days, d) \notin M
           /\ \A w \in N : w <= Cardinality(N)
<1> DEFINE used == Cardinality(M)
           new == {used + Nth(days, d) : d \in days}
           f == [d \in days |-> used + Nth(days, d)]
<1>1. IsFiniteSet(M) /\ used \in Nat /\ Pieces \subseteq Nat
  <2>1. IsFiniteSet(Pieces) /\ Pieces \subseteq Nat
    BY PlanAssumption, FS_Interval DEF Pieces
  <2> QED
    BY <2>1, FS_Subset, FS_CardinalityType
<1>2. /\ IsFiniteSet(days) /\ Cardinality(days) \in Nat
      /\ \A d \in days : Nth(days, d) \in 1 .. Cardinality(days)
      /\ \A d, e \in days : Nth(days, d) = Nth(days, e) => d = e
  BY NthOrders
<1>3. \A d \in days : used + Nth(days, d) \notin M
  BY <1>1, <1>2
<1>4. f \in Bijection(days, new)
  <2> HIDE DEF used
  <2>1. f \in [days -> new]
    OBVIOUS
  <2>2. \A d, e \in days : f[d] = f[e] => d = e
    BY <1>1, <1>2
  <2>3. \A w \in new : \E d \in days : f[d] = w
    OBVIOUS
  <2> HIDE DEF f, new
  <2> QED
    BY <2>1, <2>2, <2>3 DEF Bijection, Injection, Surjection, IsInjective
<1>5. IsFiniteSet(new) /\ Cardinality(new) = Cardinality(days)
  <2>1. ExistsBijection(days, new)
    <3> HIDE DEF new, f
    <3> QED
      BY <1>4 DEF ExistsBijection
  <2> HIDE DEF new
  <2> QED
    BY <1>2, <2>1, FS_Bijection
<1>6. M \cap new = {} /\ N = M \cup new
  BY <1>3
<1>7. Cardinality(N) = used + Cardinality(days)
  <2> HIDE DEF new
  <2>1. Cardinality(M \cup new) = Cardinality(M) + Cardinality(new) - Cardinality(M \cap new)
    BY <1>1, <1>5, FS_Union
  <2>2. Cardinality(M \cap new) = 0
    BY <1>6, FS_EmptySet
  <2> HIDE DEF used
  <2>3. Cardinality(M) = used
    BY DEF used
  <2> QED
    BY <1>1, <1>2, <1>5, <1>6, <2>1, <2>2, <2>3
<1>8. ASSUME NEW w \in N PROVE w <= Cardinality(N)
  <2>1. CASE w \in M
    BY <1>1, <1>2, <1>7, <2>1
  <2>2. CASE w \in new
    BY <1>1, <1>2, <1>7, <2>2
  <2> QED
    BY <1>6, <2>1, <2>2
<1> QED
  BY <1>1, <1>3, <1>8

LEMMA CreateKeeps ==
    ASSUME PlanInv, NEW q \in Requests, DueCommit(q)
    PROVE  PlanInv'
<1>0. /\ due \in [DueDays -> DueRow] /\ piece \in [Pieces -> PieceRow] /\ today \in DueDays
      /\ plan \in PlanRow /\ ops[q] \in PlanOps
  BY PlanRowsOf
<1>1. ops[q] \in CreateWorkOp /\ ops[q] # NoOp
  BY <1>0, PlanOpOfKind DEF DueCommit
<1>2. PICK days \in SUBSET DueDays, output \in Outputs : days = ops[q].days /\ output = ops[q].output
  BY <1>1 DEF CreateWorkOp
<1>9. PICK M : M = MadePieces
  OBVIOUS
<1>10. PICK used : used = Cardinality(M)
  OBVIOUS
<1> DEFINE nth(d) == used + Nth(days, d)
           made(w) == [status |-> "new", kind |-> output, started |-> FALSE,
                       day |-> CHOOSE d \in days : nth(d) = w]
           f(w) == IF \E d \in days : nth(d) = w THEN made(w) ELSE piece[w]
           row(d) == [status |-> IF d < today THEN "overdue" ELSE "due", work |-> nth(d)]
           g(d) == IF d \in days /\ due[d].status # "none" THEN row(d) ELSE due[d]
<1>3. /\ End(q) /\ UNCHANGED <<plan, today, serial>>
      /\ \A d \in days : nth(d) \in Pieces
      /\ piece' = [w \in Pieces |-> f(w)] /\ due' = [d \in DueDays |-> g(d)]
  BY <1>2, <1>9, <1>10 DEF DueCommit, MadePieces, Nth
<1> HIDE DEF nth
<1>4. ASSUME NEW w \in Pieces
      PROVE  /\ f(w) \in PieceRow
             /\ (\E d \in days : nth(d) = w) =>
                   /\ f(w).status = "new" /\ f(w).day \in days /\ nth(f(w).day) = w
             /\ ~(\E d \in days : nth(d) = w) => f(w) = piece[w]
  <2>1. CASE \E d \in days : nth(d) = w
    <3>1. PICK d \in days : d = CHOOSE e \in days : nth(e) = w
      BY <2>1
    <3>2. nth(d) = w /\ d \in DueDays
      BY <2>1, <3>1
    <3>3. f(w) = [status |-> "new", kind |-> output, started |-> FALSE, day |-> d]
      BY <2>1, <3>1
    <3> HIDE DEF f
    <3> QED
      BY <2>1, <3>2, <3>3 DEF PieceRow, LiveWork
  <2>2. CASE ~ \E d \in days : nth(d) = w
    BY <1>0, <2>2
  <2> QED
    BY <2>1, <2>2
<1>5. ASSUME NEW d \in DueDays
      PROVE  /\ g(d) \in DueRow
             /\ d \in days /\ due[d].status # "none" => g(d).status \in {"due", "overdue"} /\ g(d).work = nth(d)
             /\ ~(d \in days /\ due[d].status # "none") => g(d) = due[d]
  <2>1. CASE d \in days /\ due[d].status # "none"
    <3>1. nth(d) \in 0 .. MaxPieces
      BY <1>3, <2>1, PlanAssumption DEF Pieces
    <3>2. row(d) \in DueRow /\ row(d).status \in {"due", "overdue"} /\ row(d).work = nth(d)
      BY <3>1 DEF DueRow, DueStatus, Awaited
    <3> HIDE DEF row
    <3> QED
      BY <2>1, <3>2
  <2>2. CASE ~(d \in days /\ due[d].status # "none")
    BY <1>0, <2>2
  <2> QED
    BY <2>1, <2>2
<1> HIDE DEF f, g
<1>6. /\ piece' \in [Pieces -> PieceRow] /\ due' \in [DueDays -> DueRow]
      /\ \A w \in Pieces : piece'[w] = f(w)
      /\ \A d \in DueDays : due'[d] = g(d)
  BY <1>3, <1>4, <1>5
<1>7. ASSUME serial PROVE PlanBooks'
  <2>0. PlanBooks /\ \A d \in days : due[d].status \in Awaited /\ due[d].work = 0 /\ d \in DueDays
    BY <1>1, <1>2, <1>7 DEF PlanInv, PlanTurns, PlanReadStands, CreateWorkOp
  <2>1. \A d \in days : due[d].status # "none" /\ due'[d].status \in {"due", "overdue"} /\ due'[d].work = nth(d)
    BY <1>5, <1>6, <2>0 DEF Awaited
  <2>2. \A d \in DueDays \ days : due'[d] = due[d]
    BY <1>5, <1>6
  <2>3. M \subseteq Pieces /\ \A w \in M : w <= Cardinality(M)
    BY <1>9, <2>0 DEF MadePieces, PlanBooks, WorkNumbered
  <2>4. PICK N : N = MadePieces'
    OBVIOUS
  <2>5. N = M \cup {Cardinality(M) + Nth(days, d) : d \in days} /\ N \subseteq Pieces
    <3>1. \A w \in Pieces : w \in N <=> piece'[w].status # "none"
      BY <2>4 DEF MadePieces
    <3>2. \A w \in Pieces : w \in M <=> piece[w].status # "none"
      BY <1>9 DEF MadePieces
    <3>3. N \subseteq Pieces /\ {Cardinality(M) + Nth(days, d) : d \in days} \subseteq Pieces
      BY <1>3, <1>10, <2>4 DEF MadePieces, nth
    <3>4. \A w \in Pieces : w \in N <=> w \in M \/ \E d \in days : nth(d) = w
      BY <1>4, <1>6, <3>1, <3>2
    <3>5. \A w : (\E d \in days : nth(d) = w) <=> w \in {Cardinality(M) + Nth(days, d) : d \in days}
      BY <1>10 DEF nth
    <3> QED
      BY <2>3, <3>3, <3>4, <3>5
  <2>6. /\ \A d \in days : nth(d) \notin M
        /\ \A w \in N : w <= Cardinality(N)
    BY <1>10, <2>3, <2>5, CreationNumbers DEF nth
  <2>7. \A d, e \in days : nth(d) = nth(e) => d = e
    <3>1. \A d \in days : Nth(days, d) \in Nat
      BY NthOrders
    <3>2. used \in Nat
      BY <1>10, <2>3, <2>5, CreationNumbers
    <3> TAKE d, e \in days
    <3>3. nth(d) = used + Nth(days, d) /\ nth(e) = used + Nth(days, e)
      BY DEF nth
    <3>4. nth(d) = nth(e) => Nth(days, d) = Nth(days, e)
      BY <3>1, <3>2, <3>3
    <3> QED
      BY <3>4, NthOrders
  <2>8. \A w \in Pieces : w \in M => piece'[w] = piece[w]
    BY <1>4, <1>6, <2>6
  <2>9. WorkShown'
    <3> SUFFICES ASSUME NEW d \in DueDays, NEW w \in Pieces, due'[d].work = w
                 PROVE  Shows(due'[d], piece'[w], d)
      BY DEF WorkShown
    <3>1. CASE d \in days
      <4>1. w = nth(d) /\ due'[d].status \in {"due", "overdue"}
        BY <2>1, <3>1
      <4>2. piece'[w].status = "new" /\ piece'[w].day \in days /\ nth(piece'[w].day) = w
        BY <1>4, <1>6, <3>1, <4>1
      <4>3. piece'[w].day = d
        BY <2>7, <3>1, <4>1, <4>2
      <4> QED
        BY <4>1, <4>2, <4>3 DEF Shows
    <3>2. CASE d \notin days
      <4>1. due'[d] = due[d] /\ Shows(due[d], piece[w], d)
        BY <2>0, <2>2, <3>2 DEF PlanBooks, WorkShown
      <4>2. w \in M
        BY <1>9, <4>1 DEF Shows, MadePieces
      <4> QED
        BY <2>8, <4>1, <4>2
    <3> QED
      BY <3>1, <3>2
  <2>10. WorkLinked'
    <3> SUFFICES ASSUME NEW w \in Pieces, piece'[w].status \in LiveWork
                 PROVE  due'[piece'[w].day].work = w
      BY DEF WorkLinked
    <3>1. CASE \E d \in days : nth(d) = w
      BY <1>4, <1>6, <2>1, <3>1
    <3>2. CASE ~ \E d \in days : nth(d) = w
      <4>1. piece'[w] = piece[w]
        BY <1>4, <1>6, <3>2
      <4>2. due[piece[w].day].work = w /\ piece[w].day \in DueDays
        BY <1>0, <2>0, <4>1 DEF PlanBooks, WorkLinked, PieceRow
      <4>3. w # 0
        BY DEF Pieces
      <4>4. piece[w].day \notin days
        BY <2>0, <4>2, <4>3
      <4> QED
        BY <2>2, <4>1, <4>2, <4>4
    <3> QED
      BY <3>1, <3>2
  <2>11. WorkNumbered'
    BY <2>4, <2>6 DEF WorkNumbered
  <2> QED
    BY <2>9, <2>10, <2>11 DEF PlanBooks
<1> QED
  BY <1>0, <1>1, <1>3, <1>6, <1>7, PlanEnds

(* The rows that change in one go: those a generation writes, those an      *)
(* archived or changed plan gives up, and those that are overdue.           *)
LEMMA GeneratedRows ==
    ASSUME due \in [DueDays -> DueRow], NEW dates, NEW from
    PROVE  /\ Generated(due, dates, from) \in [DueDays -> DueRow]
           /\ \A d \in DueDays : \/ Generated(due, dates, from)[d] = due[d]
                                 \/ (due[d].status = "none" /\ Generated(due, dates, from)[d].work = 0)
<1> DEFINE new == [NoDue EXCEPT !.status = "scheduled"]
           f(d) == IF d \in dates /\ d >= from /\ due[d].status = "none" THEN new ELSE due[d]
<1>1. Generated(due, dates, from) = [d \in DueDays |-> f(d)]
  BY DEF Generated
<1>2. new \in DueRow /\ new.work = 0
  BY PlanAssumption DEF NoDue, DueRow, DueStatus, Awaited
<1> HIDE DEF new
<1>3. \A d \in DueDays : f(d) \in DueRow /\ (f(d) = due[d] \/ (due[d].status = "none" /\ f(d).work = 0))
  BY <1>2
<1> HIDE DEF f
<1> QED
  BY <1>1, <1>3

(* A step that changes rows of dates only.                                  *)
LEMMA DueStep ==
    ASSUME PlanInv, piece' = piece, today' = today, serial' = serial, plan' \in PlanRow,
           \/ \E q \in Requests : ops[q] # NoOp /\ End(q)
           \/ Calm /\ ops' = ops,
           due' \in [DueDays -> DueRow],
           \A d \in DueDays :
              \/ due'[d] = due[d]
              \/ due[d].status \in {"none", "scheduled"} /\ due'[d].work \in {0, due[d].work}
              \/ /\ due'[d].work = due[d].work /\ due[d].status = "due"
                 /\ due'[d].status = "overdue" \/ (due'[d].status = "cancelled" /\ ~OrderOf(d))
    PROVE  PlanInv'
<1>0. /\ due \in [DueDays -> DueRow] /\ piece \in [Pieces -> PieceRow] /\ today \in DueDays
  BY PlanRowsOf
<1>1. ASSUME serial PROVE PlanBooks'
  <2>0. PlanBooks
    BY <1>1 DEF PlanInv
  <2>1. ASSUME NEW d \in DueDays, due[d].status \in {"none", "scheduled"} PROVE due[d].work = 0
    <3>1. ~ \E w \in Pieces : due[d].work = w
      BY <1>0, <2>0, <2>1, ShownStatus DEF PlanBooks, WorkShown
    <3>2. due[d].work \in 0 .. MaxPieces
      BY <1>0 DEF DueRow
    <3> QED
      BY <3>1, <3>2, PlanAssumption DEF Pieces
  <2>2. ASSUME NEW d \in DueDays PROVE due'[d].work = due[d].work
    BY <2>1, <2>2
  <2>3. ASSUME NEW d \in DueDays, NEW w \in Pieces, due[d].work = w, Shows(due[d], piece[w], d)
        PROVE  Shows(due'[d], piece[w], d)
    <3>1. w # 0 /\ due[d].status \notin {"none", "scheduled"}
      BY <1>0, <2>3, ShownStatus DEF Pieces
    <3>2. CASE due'[d] = due[d]
      BY <2>3, <3>2
    <3>3. CASE due[d].status = "due"
      <4>1. piece[w].status = "new"
        BY <1>0, <2>3, <3>3, ShownStatus
      <4>2. \/ due'[d] = due[d]
            \/ due'[d].status = "overdue" \/ (due'[d].status = "cancelled" /\ ~OrderOf(d))
        BY <3>1
      <4>3. ~OrderOf(d) => piece[w].kind = "inspection"
        BY <1>0, <2>3, <3>1 DEF OrderOf, PieceRow, Outputs
      <4> QED
        BY <2>3, <4>1, <4>2, <4>3 DEF Shows
    <3> QED
      BY <3>1, <3>2, <3>3
  <2> QED
    BY <1>0, <2>0, <2>2, <2>3, DueChanges
<1> QED
  BY <1>0, <1>1, PlanEnds

LEMMA PlanInitially ==
    PlanIdle => /\ plan \in PlanRow /\ due \in [DueDays -> DueRow] /\ piece \in [Pieces -> PieceRow]
                /\ today \in DueDays /\ PlanBooks /\ PlanFollowed
<1> SUFFICES ASSUME PlanIdle
             PROVE  /\ plan \in PlanRow /\ due \in [DueDays -> DueRow] /\ piece \in [Pieces -> PieceRow]
                    /\ today \in DueDays /\ PlanBooks /\ PlanFollowed
  OBVIOUS
<1>1. 0 \in DueDays /\ 0 \in 0 .. MaxPieces /\ 0 \notin Pieces
  BY PlanAssumption DEF DueDays, Pieces
<1>2. NoDue \in DueRow /\ NoPiece \in PieceRow /\ NoPlan \in PlanRow
  BY <1>1 DEF NoDue, DueRow, DueStatus, NoPiece, PieceRow, Outputs, NoPlan, PlanRow
<1>3. /\ \A d \in DueDays : due[d].work = 0
      /\ \A w \in Pieces : piece[w].status = "none"
  BY DEF PlanIdle, NoDue, NoPiece
<1>4. WorkShown /\ WorkLinked
  BY <1>1, <1>3 DEF WorkShown, WorkLinked, LiveWork
<1>5. WorkNumbered
  BY <1>3 DEF WorkNumbered, MadePieces
<1>6. PlanFollowed
  BY <1>1, <1>3 DEF PlanFollowed
<1> QED
  BY <1>1, <1>2, <1>4, <1>5, <1>6 DEF PlanIdle, PlanBooks

(* The reads.                                                               *)
LEMMA PlanReads ==
    ASSUME PlanInv, NEW q \in Requests,
           \/ \E output \in Outputs, dates \in SUBSET DueDays : UpdatePlanRead(q, output, dates)
           \/ SchedulesRead(q) \/ DueRead(q)
           \/ \E d \in DueDays : SkipRead(q, d)
    PROVE  PlanInv'
<1>0. /\ plan \in PlanRow /\ due \in [DueDays -> DueRow] /\ today \in DueDays
  BY PlanRowsOf
<1>1. ASSUME NEW output \in Outputs, NEW dates \in SUBSET DueDays, UpdatePlanRead(q, output, dates)
      PROVE  PlanInv'
  <2> DEFINE op == [kind |-> "plan", output |-> output, dates |-> dates,
                    published |-> plan.status = "published"]
  <2>1. op \in PlanOps /\ op # NoOp /\ PlanReadStands(op)
    BY DEF PlanOps, ChangePlanOp, NoOp, PlanReadStands
  <2>2. Begin(q, op) /\ UNCHANGED <<plan, due, piece, today, serial>>
    BY <1>1 DEF UpdatePlanRead
  <2> HIDE DEF op
  <2> QED
    BY <2>1, <2>2, PlanBegins
<1>2. CASE SchedulesRead(q)
  <2> DEFINE op == [kind |-> "generate", dates |-> plan.dates, from |-> today]
  <2>1. op \in PlanOps /\ op # NoOp /\ PlanReadStands(op)
    BY <1>0 DEF PlanOps, SchedulesOp, NoOp, PlanReadStands, PlanRow
  <2>2. Begin(q, op) /\ UNCHANGED <<plan, due, piece, today, serial>>
    BY <1>2 DEF SchedulesRead
  <2> HIDE DEF op
  <2> QED
    BY <2>1, <2>2, PlanBegins
<1>3. CASE DueRead(q)
  <2> DEFINE falling == {d \in DueDays : /\ due[d].status \in Awaited /\ Workless(d)
                                         /\ d <= today + LeadTime}
             op == [kind |-> "create", days |-> falling, output |-> plan.output]
  <2>0. falling \in SUBSET DueDays /\ \A d \in falling : due[d].status \in Awaited /\ due[d].work = 0
    BY DEF Workless
  <2>1. Begin(q, op) /\ UNCHANGED <<plan, due, piece, today, serial>>
    BY <1>3 DEF DueRead
  <2> HIDE DEF falling
  <2>2. op \in PlanOps /\ op # NoOp /\ PlanReadStands(op)
    BY <1>0, <2>0 DEF PlanOps, CreateWorkOp, NoOp, PlanReadStands, PlanRow
  <2> HIDE DEF op
  <2> QED
    BY <2>1, <2>2, PlanBegins
<1>4. ASSUME NEW d \in DueDays, SkipRead(q, d) PROVE PlanInv'
  <2> DEFINE op == [kind |-> "skip", day |-> d, work |-> due[d].work]
  <2>1. op \in PlanOps /\ op # NoOp /\ PlanReadStands(op)
    BY <1>0, <1>4 DEF PlanOps, SkipOp, NoOp, PlanReadStands, SkipRead, DueRow
  <2>2. Begin(q, op) /\ UNCHANGED <<plan, due, piece, today, serial>>
    BY <1>4 DEF SkipRead
  <2> HIDE DEF op
  <2> QED
    BY <2>1, <2>2, PlanBegins
<1> QED
  BY <1>1, <1>2, <1>3, <1>4

(* Schedules that are generated, given up or overdue.                       *)
LEMMA PlanChanges ==
    ASSUME PlanInv,
           \/ \E output \in Outputs, dates \in SUBSET DueDays : CreatePlan(output, dates)
           \/ PublishPlan \/ ArchivePlan \/ OverdueSweep
    PROVE  PlanInv'
<1>0. /\ plan \in PlanRow /\ due \in [DueDays -> DueRow] /\ today \in DueDays
  BY PlanRowsOf
<1>1. ASSUME NEW output \in Outputs, NEW dates \in SUBSET DueDays, CreatePlan(output, dates)
      PROVE  PlanInv'
  <2>1. plan' \in PlanRow /\ due' = due /\ piece' = piece /\ today' = today /\ serial' = serial
        /\ Calm /\ ops' = ops
    BY <1>1 DEF CreatePlan, PlanRow
  <2> QED
    BY <1>0, <2>1, DueStep
<1>2. CASE PublishPlan
  <2>1. plan' \in PlanRow /\ piece' = piece /\ today' = today /\ serial' = serial /\ Calm /\ ops' = ops
        /\ due' = Generated(due, plan.dates, today)
    BY <1>0, <1>2 DEF PublishPlan, PlanRow
  <2>2. /\ due' \in [DueDays -> DueRow]
        /\ \A d \in DueDays : \/ due'[d] = due[d]
                              \/ (due[d].status = "none" /\ due'[d].work = 0)
    BY <1>0, <2>1, GeneratedRows
  <2> QED
    BY <2>1, <2>2, DueStep
<1>3. CASE ArchivePlan
  <2> DEFINE f(d) == IF due[d].status \in {"scheduled", "due"} /\ ~OrderOf(d)
                     THEN [due[d] EXCEPT !.status = "cancelled"] ELSE due[d]
  <2>1. plan' \in PlanRow /\ piece' = piece /\ today' = today /\ serial' = serial /\ Calm /\ ops' = ops
        /\ due' = [d \in DueDays |-> f(d)]
    BY <1>0, <1>3 DEF ArchivePlan, PlanRow
  <2>2. \A d \in DueDays :
           /\ f(d) \in DueRow
           /\ \/ f(d) = due[d]
              \/ (due[d].status \in {"none", "scheduled"} /\ f(d).work \in {0, due[d].work})
              \/ (/\ f(d).work = due[d].work /\ due[d].status = "due"
                  /\ f(d).status = "overdue" \/ (f(d).status = "cancelled" /\ ~OrderOf(d)))
    BY <1>0 DEF DueRow, DueStatus, Awaited
  <2> HIDE DEF f
  <2>3. due' \in [DueDays -> DueRow] /\ \A d \in DueDays : due'[d] = f(d)
    BY <2>1, <2>2
  <2> QED
    BY <2>1, <2>2, <2>3, DueStep
<1>4. CASE OverdueSweep
  <2> DEFINE f(d) == IF due[d].status \in {"scheduled", "due"} /\ d < today
                     THEN [due[d] EXCEPT !.status = "overdue"] ELSE due[d]
  <2>1. plan' = plan /\ piece' = piece /\ today' = today /\ serial' = serial /\ Calm /\ ops' = ops
        /\ due' = [d \in DueDays |-> f(d)]
    BY <1>4 DEF OverdueSweep
  <2>2. \A d \in DueDays :
           /\ f(d) \in DueRow
           /\ \/ f(d) = due[d]
              \/ (due[d].status \in {"none", "scheduled"} /\ f(d).work \in {0, due[d].work})
              \/ (f(d).work = due[d].work /\ due[d].status = "due" /\ f(d).status = "overdue")
    BY <1>0 DEF DueRow, DueStatus, Awaited
  <2> HIDE DEF f
  <2>3. due' \in [DueDays -> DueRow] /\ \A d \in DueDays : due'[d] = f(d)
    BY <2>1, <2>2
  <2> QED
    BY <1>0, <2>1, <2>2, <2>3, DueStep
<1> QED
  BY <1>1, <1>2, <1>3, <1>4

LEMMA PlanCommits ==
    ASSUME PlanInv, NEW q \in Requests, UpdatePlanCommit(q) \/ SchedulesCommit(q) \/ PlanAbort(q)
    PROVE  PlanInv'
<1>0. plan \in PlanRow /\ due \in [DueDays -> DueRow] /\ today \in DueDays /\ ops[q] \in PlanOps
  BY PlanRowsOf
<1>1. CASE UpdatePlanCommit(q)
  <2> DEFINE f(d) == IF /\ ops[q].published /\ due[d].status = "scheduled"
                        /\ ~OrderOf(d) /\ d > today
                     THEN NoDue ELSE due[d]
  <2>0. ops[q] \in ChangePlanOp /\ ops[q] # NoOp
    BY <1>0, <1>1, PlanOpOfKind DEF UpdatePlanCommit
  <2>1. plan' \in PlanRow /\ piece' = piece /\ today' = today /\ serial' = serial /\ End(q)
        /\ due' = [d \in DueDays |-> f(d)]
    BY <1>0, <1>1, <2>0 DEF UpdatePlanCommit, PlanRow, ChangePlanOp
  <2>2. NoDue \in DueRow /\ NoDue.work = 0
    BY PlanAssumption DEF NoDue, DueRow, DueStatus
  <2>3. \A d \in DueDays :
           /\ f(d) \in DueRow
           /\ f(d) = due[d] \/ (due[d].status = "scheduled" /\ f(d).work = 0)
    BY <1>0, <2>2
  <2> HIDE DEF f
  <2>4. due' \in [DueDays -> DueRow] /\ \A d \in DueDays : due'[d] = f(d)
    BY <2>1, <2>3
  <2> QED
    BY <2>0, <2>1, <2>3, <2>4, DueStep
<1>2. CASE SchedulesCommit(q)
  <2>1. plan' = plan /\ piece' = piece /\ today' = today /\ serial' = serial /\ End(q) /\ ops[q] # NoOp
        /\ due' = Generated(due, ops[q].dates, ops[q].from)
    BY <1>0, <1>2, PlanOpOfKind DEF SchedulesCommit
  <2>2. /\ due' \in [DueDays -> DueRow]
        /\ \A d \in DueDays : \/ due'[d] = due[d]
                              \/ (due[d].status = "none" /\ due'[d].work = 0)
    BY <1>0, <2>1, GeneratedRows
  <2> QED
    BY <1>0, <2>1, <2>2, DueStep
<1>3. CASE PlanAbort(q)
  <2>1. ops[q] # NoOp /\ End(q) /\ UNCHANGED <<plan, due, piece, today, serial>>
    BY <1>3 DEF PlanAbort
  <2> QED
    BY <1>0, <2>1, DueStep
<1> QED
  BY <1>1, <1>2, <1>3

(* Time is read by no row.                                                  *)
LEMMA PlanWaits ==
    ASSUME PlanInv, DayPasses \/ UNCHANGED planVars PROVE PlanInv'
<1>1. UNCHANGED <<plan, due, piece, ops, serial>> /\ today' \in DueDays
  <2>1. CASE DayPasses
    BY <2>1, PlanRowsOf, PlanAssumption DEF DayPasses, DueDays
  <2>2. CASE UNCHANGED planVars
    BY <2>2, PlanRowsOf DEF planVars
  <2> QED
    BY <2>1, <2>2
<1>2. PlanTyped'
  BY <1>1, PlanRowsOf, PlanRowsNext DEF PlanTyped
<1>3. PlanBooks => PlanBooks'
  BY <1>1 DEF PlanBooks, WorkShown, WorkLinked, WorkNumbered, MadePieces
<1>4. PlanTurns => PlanTurns'
  BY <1>1 DEF PlanTurns, PlanReadStands
<1> QED
  BY <1>1, <1>2, <1>3, <1>4 DEF PlanInv

LEMMA PlanStep == PlanInv /\ [PlanNext]_planVars => PlanInv'
<1> SUFFICES ASSUME PlanInv, [PlanNext]_planVars PROVE PlanInv'
  OBVIOUS
<1>1. CASE \/ \E output \in Outputs, dates \in SUBSET DueDays : CreatePlan(output, dates)
           \/ PublishPlan \/ ArchivePlan \/ OverdueSweep
  BY <1>1, PlanChanges
<1>2. CASE DayPasses \/ UNCHANGED planVars
  BY <1>2, PlanWaits
<1>3. ASSUME NEW w \in Pieces, DeleteWork(w) \/ \E action \in DOMAIN WorkRule : ActOn(w, action)
      PROVE  PlanInv'
  BY <1>3, DeleteKeeps, ActKeeps
<1>4. ASSUME NEW q \in Requests,
             \/ \E output \in Outputs, dates \in SUBSET DueDays : UpdatePlanRead(q, output, dates)
             \/ SchedulesRead(q) \/ DueRead(q)
             \/ \E d \in DueDays : SkipRead(q, d)
      PROVE  PlanInv'
  BY <1>4, PlanReads
<1>5. ASSUME NEW q \in Requests, UpdatePlanCommit(q) \/ SchedulesCommit(q) \/ PlanAbort(q)
      PROVE  PlanInv'
  BY <1>5, PlanCommits
<1>6. ASSUME NEW q \in Requests, DueCommit(q) PROVE PlanInv'
  BY <1>6, CreateKeeps
<1>7. ASSUME NEW q \in Requests, SkipCommit(q) PROVE PlanInv'
  BY <1>7, SkipKeeps
<1> QED
  BY <1>1, <1>2, <1>3, <1>4, <1>5, <1>6, <1>7 DEF PlanNext

LEMMA PlanIsFollowed == PlanInv => PlanFollowed
<1> SUFFICES ASSUME PlanInv, serial PROVE PlanFollowed
  BY DEF PlanFollowed
<1>1. WorkShown /\ WorkLinked
  BY DEF PlanInv, PlanBooks
<1>2. \A v, w \in Pieces :
        {piece[v].status, piece[w].status} \subseteq {"new", "in_progress", "completed", "closed"}
        /\ piece[v].day = piece[w].day => v = w
  BY <1>1 DEF WorkLinked, LiveWork
<1> QED
  BY <1>1, <1>2 DEF PlanFollowed, WorkShown, Shows

LEMMA PlanBegun == PlanInit => PlanInv
<1> SUFFICES ASSUME PlanInit PROVE PlanInv
  OBVIOUS
<1>1. ops \in [Requests -> PlanOps] /\ PlanTurns /\ serial \in BOOLEAN
  BY DEF PlanInit, TxInit, PlanOps, PlanTurns
<1>2. PlanTyped /\ PlanBooks
  BY <1>1, PlanInitially, PlanRows DEF PlanInit, PlanTyped
<1> QED
  BY <1>1, <1>2 DEF PlanInv

(* Without overlapping handlers a due date is worked on once and its work   *)
(* shows on its schedule, for every horizon, lead time and number of works  *)
(* (GenerateSchedulesTx, CreateDueWorkOrders and the hooks of the tasks).   *)
THEOREM PlanFollows == PlanSpec => []PlanFollowed
BY PlanBegun, PlanStep, PlanIsFollowed, PTL DEF PlanSpec

-----------------------------------------------------------------------------
(* The scenes of the instances: the component of the scene moves, the       *)
(* others are idle.                                                         *)
sceneVars == <<taskVars, chainVars, stockVars, runVars, planVars, cleaningVars,
               roundVars, noticeVars, shiftVars, gateVars, scene>>

LEMMA SceneParts ==
    ASSUME [SceneNext]_sceneVars
    PROVE  /\ scene' = scene
           /\ scene = "plan" => [PlanNext]_planVars
           /\ scene # "plan" => PlanStill
           /\ scene = "cleaning" => [CleaningNext]_cleaningVars
           /\ scene # "cleaning" => CleaningStill
           /\ scene = "notices" => [NoticeNext]_noticeVars
           /\ scene # "notices" => NoticeStill
           /\ scene \in {"shifts", "clock"} => [ShiftNext]_shiftVars
           /\ scene \notin {"shifts", "clock"} => ShiftStill
           /\ scene \in {"parking", "visit"} => [ParkingNext \/ VisitNext]_gateVars
           /\ scene \notin {"parking", "visit"} => GateStill
<1> USE DEF PlanStill, CleaningStill, NoticeStill, ShiftStill, GateStill
<1>1. CASE UNCHANGED sceneVars
  BY <1>1 DEF sceneVars, planVars, cleaningVars, noticeVars, shiftVars
<1>2. CASE SceneNext /\ WorkScenes
  BY <1>2 DEF SceneNext, WorkScenes
<1>3. CASE SceneNext /\ UpkeepScenes
  BY <1>3 DEF SceneNext, UpkeepScenes
<1>4. CASE SceneNext /\ PeopleScenes
  BY <1>4 DEF SceneNext, PeopleScenes, ShiftScene
<1> QED
  BY <1>1, <1>2, <1>3, <1>4 DEF SceneNext

UpkeepInv ==
    /\ IF scene = "plan" THEN PlanInv ELSE PlanIdle
    /\ IF scene = "cleaning" THEN CleaningInv ELSE CleaningIdle

PremisesInv ==
    /\ IF scene = "notices" THEN NoticeInv ELSE NoticeIdle
    /\ IF scene \in {"shifts", "clock"} THEN ShiftInv ELSE ShiftIdle
    /\ IF scene \in {"parking", "visit"} THEN GateInv ELSE GateIdle

(* However work of other kinds goes on, the works and inspections of an     *)
(* asset and the cleaning of an area follow the plan as it is now           *)
(* (GenerateSchedulesTx, CreateDueWorkOrders, generateForSchedule and the   *)
(* hooks of the tasks).                                                     *)
THEOREM UpkeepFollows == SceneSpec => []UpkeepFollowed
<1>1. SceneInit => UpkeepInv
  <2> SUFFICES ASSUME SceneInit PROVE UpkeepInv
    OBVIOUS
  <2>1. PlanIdle /\ CleaningIdle /\ TxInit
    BY DEF SceneInit
  <2> QED
    BY <2>1, PlanBegun, CleaningBegun DEF PlanInit, CleaningInit, UpkeepInv
<1>2. UpkeepInv /\ [SceneNext]_sceneVars => UpkeepInv'
  <2> SUFFICES ASSUME UpkeepInv, [SceneNext]_sceneVars PROVE UpkeepInv'
    OBVIOUS
  <2>1. IF scene' = "plan" THEN PlanInv' ELSE PlanIdle'
    BY SceneParts, PlanStep DEF UpkeepInv, PlanIdle, PlanStill
  <2>2. IF scene' = "cleaning" THEN CleaningInv' ELSE CleaningIdle'
    BY SceneParts, CleaningStep DEF UpkeepInv, CleaningIdle, CleaningStill
  <2> QED
    BY <2>1, <2>2 DEF UpkeepInv
<1>3. UpkeepInv => UpkeepFollowed
  BY PlanInitially, PlanIsFollowed, CleaningInitially DEF UpkeepInv, UpkeepFollowed, CleaningInv
<1> QED
  BY <1>1, <1>2, <1>3, PTL DEF SceneSpec, sceneVars

(* A notice is published once and tells tenants exactly if they are meant,  *)
(* unless its audience was changed later; the hours of staff are counted    *)
(* once and on a shift that stands; the gate knows what was granted         *)
(* (publish and its sweep, ClockIn, approveParkingPermit, issueVisitorPass  *)
(* and their sweeps).                                                       *)
THEOREM PremisesHold == SceneSpec => []PremisesAgree
<1>1. SceneInit => PremisesInv
  <2> SUFFICES ASSUME SceneInit PROVE PremisesInv
    OBVIOUS
  <2>1. NoticeIdle /\ ShiftIdle /\ GateIdle /\ TxInit
    BY DEF SceneInit
  <2> QED
    BY <2>1, NoticeBegun, ShiftBegun, GateInitially DEF NoticeInit, ShiftInit, GateInv, PremisesInv
<1>2. PremisesInv /\ [SceneNext]_sceneVars => PremisesInv'
  <2> SUFFICES ASSUME PremisesInv, [SceneNext]_sceneVars PROVE PremisesInv'
    OBVIOUS
  <2>1. IF scene' = "notices" THEN NoticeInv' ELSE NoticeIdle'
    BY SceneParts, NoticeStep DEF PremisesInv, NoticeIdle, NoticeStill
  <2>2. IF scene' \in {"shifts", "clock"} THEN ShiftInv' ELSE ShiftIdle'
    BY SceneParts, ShiftStep DEF PremisesInv, ShiftIdle, ShiftStill
  <2>3. IF scene' \in {"parking", "visit"} THEN GateInv' ELSE GateIdle'
    <3>1. CASE scene \in {"parking", "visit"}
      BY <3>1, SceneParts, GateStep DEF PremisesInv
    <3>2. CASE scene \notin {"parking", "visit"}
      BY <3>2, SceneParts DEF PremisesInv, GateIdle, GateStill, gateVars
    <3> QED
      BY <3>1, <3>2
  <2> QED
    BY <2>1, <2>2, <2>3 DEF PremisesInv
<1>3. PremisesInv => PremisesAgree
  <2> SUFFICES ASSUME PremisesInv PROVE PremisesAgree
    OBVIOUS
  <2>1. NoticesKept
    BY NoticeInitially DEF PremisesInv, NoticeInv
  <2>2. ShiftsKept
    BY ShiftsIdle, ShiftsStand DEF PremisesInv
  <2>3. GateKept
    BY GateInitially, GateIsKept DEF PremisesInv, GateInv
  <2> QED
    BY <2>1, <2>2, <2>3 DEF PremisesAgree
<1> QED
  BY <1>1, <1>2, <1>3, PTL DEF SceneSpec, sceneVars

=============================================================================
