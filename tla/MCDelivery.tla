------------------------------- MODULE MCDelivery -------------------------------
(* Instances of EventDelivery, RequestRepeats and Emergencies for TLC.  A   *)
(* behaviour is one scene: an event on its way to two subscribed endpoints, *)
(* deliveries that are tested, retried, claimed twice and late, repeated    *)
(* requests, or an emergency.                                               *)
EXTENDS EventDelivery, RequestRepeats, Emergencies, TLC

CONSTANTS Scenes, w1, w2, s1

VARIABLE scene

(* An event on its way to two endpoints and one sweep that does not fail    *)
(* and ends before its claims lapse, nothing asked for by hand; or one      *)
(* endpoint, a delivery, a test and two sweeps that may meet.               *)
DeliveryScene ==
    /\ DeliveryNext
    /\ scene = "event" => /\ retries' = 0 /\ endpoint'[w1] = "active" /\ endpoint'[w2] # "none"
                          /\ \A s \in Sweepers \ {s1} : sweep'[s] = IdleSweep
                          /\ (faults' # faults => job' # job)
                          /\ \A d \in Claimed : delivery'[d].due => delivery[d].due
    /\ scene = "sweeps" => /\ job' = job /\ faults' <= 1 /\ endpoint'[w2] = "none"
                           /\ Cardinality({d \in Deliveries : delivery'[d].status # "none"}) <= 2

(* A finished event, whose delivery is due.                                 *)
SweepsInit ==
    /\ job = [e \in Events |-> [NewJob EXCEPT !.status = "completed"]]
    /\ told = [e \in Events |-> Range(Subscribers)]
    /\ \E e \in Events : delivery = [d \in Deliveries |-> IF d = 1 THEN Insert(e, w1) ELSE NoDelivery]
    /\ sweep = [s \in Sweepers |-> IdleSweep]
    /\ taken = [d \in Deliveries |-> 0] /\ faults = 0 /\ retries = 0

(* Only an emergency has time to pass: in the other scenes the fairness of  *)
(* its clock would ask for a step that never comes.                         *)
SceneInit ==
    /\ scene \in Scenes
    /\ endpoint = [w \in Endpoints |-> IF w = w1 \/ scene = "event" THEN "active" ELSE "none"]
    /\ IF scene = "sweeps" THEN SweepsInit ELSE DeliveryInit
    /\ RepeatInit /\ EmergencyIdle /\ TxInit
    /\ moment = IF scene = "emergency" THEN 0 ELSE LastMoment
    /\ scene # "emergency" => serial

SceneNext ==
    /\ UNCHANGED scene
    /\ \/ scene \in {"event", "sweeps"} /\ DeliveryScene /\ UNCHANGED <<repeatVars, emergencyVars>>
       \/ scene = "requests" /\ RepeatNext /\ UNCHANGED <<deliveryVars, emergencyVars>>
       \/ scene = "emergency" /\ EmergencyNext /\ UNCHANGED <<deliveryVars, repeatVars>>

SceneSpec ==
    /\ SceneInit /\ [][SceneNext]_<<deliveryVars, repeatVars, emergencyVars, scene>>
    /\ DeliveryFairness /\ EmergencyFairness

(* Nothing waits for ever: neither events and deliveries, nor an alert that *)
(* nobody answers.                                                          *)
NothingWaits == Settles /\ Escalates
=============================================================================
