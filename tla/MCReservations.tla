----------------------------- MODULE MCReservations -----------------------------
(* Instances of RoomInventory, FacilityBooking and UnitDesk for TLC.  A     *)
(* behaviour is one scene: the handlers of one desk, on the rows they need, *)
(* while the other desks stand still.  Handlers take turns, but for         *)
(* reservations of a type, which meet under its lock.                       *)
EXTENDS RoomInventory, FacilityBooking, UnitDesk, TLC

CONSTANTS Scenes

VARIABLE scene

Created == {m \in Rooms : room'[m] # "none"}
Used(T) == Cardinality({i \in DOMAIN T : T[i].status # "none"})

(* A front desk with two rooms and two stays; one room and one stay with    *)
(* every status and every day.                                              *)
RoomScene ==
    /\ scene \in {"desk", "house"}
    /\ RoomNext
    /\ scene = "desk" => /\ today' = 0
                         /\ \A q \in Requests : ops'[q].kind = "set" =>
                              ops'[q].to \in {"available", "dirty", "out_of_order"}
    /\ scene = "house" => Cardinality(Created) <= 1 /\ Used(stay') <= 1

(* One facility.                                                            *)
FacilityScene == scene = "facility" /\ FacNext /\ Cardinality(closures') <= 1

(* A unit for sale to two leads; a unit rented twice and sold.              *)
UnitScene ==
    /\ scene \in {"sale", "rental"}
    /\ UnitNext
    /\ scene = "sale" => offer' = offer
    /\ scene = "rental" => Used(sale') <= 1 /\ Used(lead') <= 1 /\ Used(listing') <= 1

FacStill  == UNCHANGED <<facility, closures, fbooking, now>>
RoomStill == UNCHANGED <<stay, room, today, repaired>>
UnitStill == UNCHANGED <<unit, listing, lead, sale, offer, rental>>

SceneInit ==
    /\ RoomIdle /\ FacIdle /\ UnitIdle /\ TxInit
    /\ scene \in Scenes /\ serial
SceneNext ==
    /\ UNCHANGED scene
    /\ \/ RoomScene /\ FacStill /\ UnitStill
       \/ FacilityScene /\ RoomStill /\ UnitStill
       \/ UnitScene /\ RoomStill /\ FacStill
SceneSpec == SceneInit /\ [][SceneNext]_<<roomVars, facVars, unitVars, scene>>

Rows == Permutations(Rooms) \cup Permutations(Requests)
=============================================================================
