---------------------------- MODULE Delivery_proofs ----------------------------
(***************************************************************************)
(* Proofs about EventDelivery, for every number of events, endpoints,       *)
(* sweepers, attempts and faults: the types, that a completed event was     *)
(* handled by every subscriber, and that a delivery is accepted no more     *)
(* often than once and once for each excuse; and about RequestRepeats, for  *)
(* every number of requests in flight and every set of bodies: the types,   *)
(* and that replies agree with effects; and about Emergencies, for every    *)
(* number of alerts, handlers and levels: the types, and that incident and  *)
(* timeline agree with the alert.  That everything settles is left to TLC.  *)
(***************************************************************************)
EXTENDS EventDelivery, RequestRepeats, Emergencies, FiniteSetTheorems, SequenceTheorems, TLAPS

-----------------------------------------------------------------------------
(* EventDelivery.                                                           *)

JobRow   == [status : JobStatus, attempt : Nat, at : 1 .. 4]
SweepRow == [todo : SUBSET [id : Deliveries, attempts : Nat], answer : {"none", "ok", "error"}]

(* The subscribers whose turn is over have handled the event.               *)
TurnsTaken ==
    \A e \in Events :
        /\ job[e].status \in {"running", "completed"} =>
             \A i \in 1 .. 3 : i < job[e].at => Subscribers[i] \in told[e]
        /\ job[e].status = "completed" => job[e].at = 4

(* The rows of deliveries are used in order; a sweep claims rows that are.  *)
RowsInOrder ==
    /\ \E k \in 0 .. MaxDeliveries : \A d \in Deliveries : delivery[d].status # "none" <=> d <= k
    /\ \A s \in Sweepers : \A j \in sweep[s].todo : delivery[j.id].status # "none"

DeliveryInv == DeliveryTypeOK /\ TurnsTaken /\ RowsInOrder

LEMMA SubscribersLength == Len(Subscribers) = 3
BY DEF Subscribers

LEMMA SubscribersTyped ==
    /\ \A i \in 1 .. 3 : Subscribers[i] \in {"notification", "search", "finance"}
    /\ \A n \in {"notification", "search", "finance"} : \E i \in 1 .. 3 : Subscribers[i] = n
<1>1. Subscribers[1] = "notification" /\ Subscribers[2] = "search" /\ Subscribers[3] = "finance"
  BY DEF Subscribers
<1>2. \A i \in 1 .. 3 : i = 1 \/ i = 2 \/ i = 3
  OBVIOUS
<1>3. 1 \in 1 .. 3 /\ 2 \in 1 .. 3 /\ 3 \in 1 .. 3
  OBVIOUS
<1> QED
  BY <1>1, <1>2, <1>3

LEMMA InsertTyped ==
    ASSUME NEW e \in Events \cup {"test"}, NEW w \in Endpoints
    PROVE  /\ NoDelivery \in DeliveryRow /\ NoDelivery.status = "none"
           /\ Insert(e, w) \in DeliveryRow /\ Insert(e, w).status = "pending"
<1>1. (CHOOSE v \in Endpoints : TRUE) \in Endpoints
  OBVIOUS
<1> QED
  BY <1>1 DEF NoDelivery, Insert, DeliveryRow

(* New rows follow the ones in use.                                         *)
LEMMA NextRowsFree ==
    ASSUME DeliveryInv, NEW n \in Nat
    PROVE  \E k \in 0 .. MaxDeliveries :
             /\ \A d \in Deliveries : delivery[d].status # "none" <=> d <= k
             /\ NextDeliveries(n) = k + 1 .. k + n
<1>1. PICK k \in 0 .. MaxDeliveries : \A d \in Deliveries : delivery[d].status # "none" <=> d <= k
  BY DEF DeliveryInv, RowsInOrder
<1>2. MaxDeliveries \in Nat /\ k \in Nat
  BY DeliveryAssumption
<1>3. {d \in Deliveries : delivery[d].status # "none"} = 1 .. k
  BY <1>1, <1>2 DEF Deliveries
<1>4. Cardinality(1 .. k) = k
  BY <1>2, FS_Interval
<1> QED
  BY <1>1, <1>3, <1>4 DEF NextDeliveries

LEMMA ActiveCounted == Cardinality(Active) \in Nat
BY DeliveryAssumption, FS_Subset, FS_CardinalityType DEF Active

(* A step that leaves deliveries and claims alone, or gives a claim up.     *)
LEMMA ClaimsKept ==
    ASSUME DeliveryInv, delivery' = delivery, \A s \in Sweepers : sweep'[s].todo \subseteq sweep[s].todo
    PROVE  RowsInOrder'
BY DEF DeliveryInv, RowsInOrder

(* A step that inserts rows after those in use, up to row k.                *)
LEMMA InsertKeeps ==
    ASSUME DeliveryInv, sweep' = sweep, NEW k \in 0 .. MaxDeliveries,
           \A d \in Deliveries : delivery[d].status # "none" => delivery'[d] = delivery[d],
           \A d \in Deliveries : delivery'[d].status # "none" <=> d <= k
    PROVE  RowsInOrder'
<1>1. \A s \in Sweepers : \A j \in sweep[s].todo :
        j.id \in Deliveries /\ delivery[j.id].status # "none" /\ delivery'[j.id] = delivery[j.id]
  BY DEF DeliveryInv, DeliveryTypeOK, RowsInOrder
<1> QED
  BY <1>1 DEF RowsInOrder

(* A step that changes the row d and no claim.                              *)
LEMMA RowKeeps ==
    ASSUME DeliveryInv, sweep' = sweep, NEW d \in Deliveries,
           \A x \in Deliveries : x # d => delivery'[x] = delivery[x],
           delivery[d].status # "none", delivery'[d].status # "none"
    PROVE  RowsInOrder'
<1>1. \A x \in Deliveries : delivery'[x].status # "none" <=> delivery[x].status # "none"
  OBVIOUS
<1>2. \A s \in Sweepers : \A j \in sweep[s].todo : j.id \in Deliveries /\ delivery[j.id].status # "none"
  BY DEF DeliveryInv, DeliveryTypeOK, RowsInOrder
<1>3. PICK k \in 0 .. MaxDeliveries : \A x \in Deliveries : delivery[x].status # "none" <=> x <= k
  BY DEF DeliveryInv, RowsInOrder
<1> QED
  BY <1>1, <1>2, <1>3 DEF RowsInOrder

LEMMA DeliveryInitially == DeliveryInit => DeliveryInv
<1> SUFFICES ASSUME DeliveryInit PROVE DeliveryInv
  OBVIOUS
<1>1. /\ NoDelivery \in DeliveryRow /\ NoDelivery.status = "none" /\ MaxDeliveries \in Nat
      /\ Len(Subscribers) + 1 = 4
  <2>1. \E w \in Endpoints : TRUE
    BY DeliveryAssumption
  <2> QED
    BY <2>1, InsertTyped, DeliveryAssumption, SubscribersLength
<1>2. /\ job = [e \in Events |-> NewJob] /\ told = [e \in Events |-> {}]
      /\ endpoint \in [Endpoints -> {"none", "active"}]
      /\ delivery = [d \in Deliveries |-> NoDelivery]
      /\ sweep = [s \in Sweepers |-> IdleSweep]
      /\ taken = [d \in Deliveries |-> 0] /\ faults = 0 /\ retries = 0
  BY DEF DeliveryInit
<1>3. NewJob \in [status : JobStatus, attempt : Nat, at : 1 .. Len(Subscribers) + 1]
  BY <1>1 DEF NewJob, JobStatus
<1>4. IdleSweep \in SweepRow /\ IdleSweep.todo = {}
  BY DEF IdleSweep, SweepRow
<1>5. DeliveryTypeOK
  BY <1>1, <1>2, <1>3, <1>4 DEF DeliveryTypeOK, SweepRow
<1>6. TurnsTaken
  BY <1>2 DEF TurnsTaken, NewJob
<1>7. RowsInOrder
  <2>1. \A d \in Deliveries : delivery[d].status # "none" <=> d <= 0
    BY <1>1, <1>2 DEF Deliveries
  <2> QED
    BY <1>1, <1>2, <1>4, <2>1 DEF RowsInOrder
<1> QED
  BY <1>5, <1>6, <1>7 DEF DeliveryInv

(* A job that moves on without touching a delivery.                         *)
LEMMA JobKeeps ==
    ASSUME DeliveryInv, NEW e \in Events, NEW row \in JobRow,
           job' = [job EXCEPT ![e] = row], faults' \in Nat,
           UNCHANGED <<told, endpoint, delivery, sweep, retries, taken>>,
           row.status \in {"running", "completed"} =>
             \A i \in 1 .. 3 : i < row.at => Subscribers[i] \in told[e],
           row.status = "completed" => row.at = 4
    PROVE  DeliveryInv'
<1>1. Len(Subscribers) + 1 = 4
  BY SubscribersLength
<1>2. DeliveryTypeOK'
  BY <1>1 DEF DeliveryInv, DeliveryTypeOK, JobRow
<1>3. TurnsTaken'
  BY <1>1 DEF DeliveryInv, DeliveryTypeOK, TurnsTaken
<1>4. RowsInOrder'
  BY ClaimsKept
<1> QED
  BY <1>2, <1>3, <1>4 DEF DeliveryInv

LEMMA JobTyped ==
    ASSUME DeliveryInv, NEW e \in Events
    PROVE  /\ job \in [Events -> JobRow] /\ job[e] \in JobRow
           /\ GivenBack(e) \in {"available", "discarded"}
BY SubscribersLength DEF DeliveryInv, DeliveryTypeOK, JobRow, GivenBack

LEMMA DispatchKeeps ==
    ASSUME DeliveryInv, NEW e \in Events,
           Publish(e) \/ Fetch(e) \/ Finish(e) \/ WorkerDies(e)
    PROVE  DeliveryInv'
<1>0. job[e] \in JobRow /\ faults \in Nat /\ TurnsTaken
  BY JobTyped DEF DeliveryInv, DeliveryTypeOK
<1>1. CASE Publish(e)
  <2> DEFINE row == [job[e] EXCEPT !.status = "available"]
  <2>1. row \in JobRow /\ row.status = "available" /\ job' = [job EXCEPT ![e] = row]
    BY <1>0, <1>1 DEF JobRow, JobStatus, Publish
  <2> HIDE DEF row
  <2> QED
    BY <1>0, <1>1, <2>1, JobKeeps DEF Publish
<1>2. CASE Fetch(e)
  <2> DEFINE row == [status |-> "running", attempt |-> job[e].attempt + 1, at |-> 1]
  <2>1. row \in JobRow /\ row.status = "running" /\ row.at = 1 /\ job' = [job EXCEPT ![e] = row]
    BY <1>0, <1>2 DEF JobRow, JobStatus, Fetch
  <2> HIDE DEF row
  <2>2. faults' \in Nat /\ UNCHANGED <<told, endpoint, delivery, sweep, retries, taken>>
    BY <1>0, <1>2 DEF Fetch
  <2>3. \A i \in 1 .. 3 : ~(i < row.at)
    BY <2>1
  <2>4. row.status # "completed"
    BY <2>1
  <2> QED
    BY <2>1, <2>2, <2>3, <2>4, JobKeeps
<1>3. CASE Finish(e)
  <2> DEFINE row == [job[e] EXCEPT !.status = "completed"]
  <2>1. /\ job[e].status = "running" /\ job[e].at > 3
        /\ UNCHANGED <<told, endpoint, delivery, sweep, faults, retries, taken>>
    BY <1>3, SubscribersLength DEF Finish
  <2>2. row \in JobRow /\ row.at = 4 /\ job' = [job EXCEPT ![e] = row] /\ row.at = job[e].at
    BY <1>0, <1>3, <2>1 DEF JobRow, JobStatus, Finish
  <2> HIDE DEF row
  <2>3. \A i \in 1 .. 3 : i < row.at => Subscribers[i] \in told[e]
    BY <1>0, <2>1, <2>2 DEF TurnsTaken
  <2> QED
    BY <1>0, <2>1, <2>2, <2>3, JobKeeps
<1>4. CASE WorkerDies(e)
  <2> DEFINE row == [job[e] EXCEPT !.status = GivenBack(e)]
  <2>1. /\ row \in JobRow /\ row.status \in {"available", "discarded"}
        /\ job' = [job EXCEPT ![e] = row]
    BY <1>0, <1>4, JobTyped DEF JobRow, JobStatus, WorkerDies
  <2>2. faults' \in Nat /\ UNCHANGED <<told, endpoint, delivery, sweep, retries, taken>>
    BY <1>0, <1>4 DEF WorkerDies
  <2> HIDE DEF row
  <2> QED
    BY <2>1, <2>2, JobKeeps
<1> QED
  BY <1>1, <1>2, <1>3, <1>4

(* One subscriber handles the event, or fails.                              *)
LEMMA HandleKeeps ==
    ASSUME DeliveryInv, NEW e \in Events, Handle(e)
    PROVE  DeliveryInv'
<1>0. /\ job[e] \in JobRow /\ job \in [Events -> JobRow] /\ faults \in Nat /\ TurnsTaken
      /\ told \in [Events -> SUBSET {"notification", "search", "finance"}]
      /\ delivery \in [Deliveries -> DeliveryRow]
      /\ job[e].status = "running" /\ job[e].at \in 1 .. 3
      /\ UNCHANGED <<endpoint, sweep, retries, taken>>
  <2>1. job[e].at <= 3 /\ job[e].status = "running"
    BY SubscribersLength DEF Handle
  <2> QED
    BY <2>1, JobTyped DEF DeliveryInv, DeliveryTypeOK, Handle, JobRow
<1>1. PICK ok \in BOOLEAN :
        /\ faults' = IF ok THEN faults ELSE faults + 1
        /\ job' = [job EXCEPT ![e] = IF Handed(e, ok) THEN [job[e] EXCEPT !.at = @ + 1]
                                     ELSE [job[e] EXCEPT !.status = GivenBack(e)]]
        /\ told' = IF ok THEN [told EXCEPT ![e] = @ \cup {Subscribers[job[e].at]}] ELSE told
        /\ IF ok /\ Subscribers[job[e].at] = "finance"
           THEN \E f \in Bijection(NextDeliveries(Cardinality(Active)), Active) :
                  /\ DOMAIN f \subseteq Deliveries
                  /\ delivery' = [d \in Deliveries |->
                       IF d \in DOMAIN f THEN Insert(e, f[d]) ELSE delivery[d]]
           ELSE UNCHANGED delivery
  BY DEF Handle
<1>2. CASE ~ok
  <2> DEFINE row == [job[e] EXCEPT !.status = GivenBack(e)]
  <2>1. /\ row \in JobRow /\ row.status \in {"available", "discarded"}
        /\ job' = [job EXCEPT ![e] = row]
    BY <1>0, <1>1, <1>2, JobTyped DEF JobRow, JobStatus, Handed
  <2>2. faults' \in Nat /\ UNCHANGED <<told, endpoint, delivery, sweep, retries, taken>>
    BY <1>0, <1>1, <1>2
  <2> HIDE DEF row
  <2> QED
    BY <2>1, <2>2, JobKeeps
<1>3. CASE ok
  <2> DEFINE row == [job[e] EXCEPT !.at = job[e].at + 1]
  <2>1. /\ row \in JobRow /\ row.status = "running" /\ row.at = job[e].at + 1
        /\ job' = [job EXCEPT ![e] = row]
    <3>1. row \in JobRow /\ row.status = "running" /\ row.at = job[e].at + 1
      BY <1>0 DEF JobRow
    <3>2. job' = [job EXCEPT ![e] = row]
      BY <1>1, <1>3 DEF Handed
    <3> QED
      BY <3>1, <3>2
  <2>2. /\ told' = [told EXCEPT ![e] = told[e] \cup {Subscribers[job[e].at]}]
        /\ told' \in [Events -> SUBSET {"notification", "search", "finance"}]
        /\ faults' = faults
    BY <1>0, <1>1, <1>3, SubscribersTyped
  <2> HIDE DEF row
  <2>3. TurnsTaken'
    <3>1. \A i \in 1 .. 3 : i < row.at => i < job[e].at \/ i = job[e].at
      BY <1>0, <2>1 DEF JobRow
    <3>2. \A i \in 1 .. 3 : i < row.at => Subscribers[i] \in told'[e]
      BY <1>0, <2>2, <3>1 DEF TurnsTaken
    <3>3. \A x \in Events : x # e => job'[x] = job[x] /\ told'[x] = told[x]
      BY <1>0, <2>1, <2>2
    <3>4. job'[e] = row
      BY <1>0, <2>1
    <3> QED
      BY <1>0, <2>1, <3>2, <3>3, <3>4 DEF TurnsTaken
  <2>4. delivery' \in [Deliveries -> DeliveryRow] /\ RowsInOrder'
    <3>1. CASE Subscribers[job[e].at] = "finance"
      <4>1. PICK f \in Bijection(NextDeliveries(Cardinality(Active)), Active) :
              /\ DOMAIN f \subseteq Deliveries
              /\ delivery' = [d \in Deliveries |->
                   IF d \in DOMAIN f THEN Insert(e, f[d]) ELSE delivery[d]]
        BY <1>1, <1>3, <3>1
      <4>2. PICK k \in 0 .. MaxDeliveries :
              /\ \A d \in Deliveries : delivery[d].status # "none" <=> d <= k
              /\ NextDeliveries(Cardinality(Active)) = k + 1 .. k + Cardinality(Active)
        BY ActiveCounted, NextRowsFree
      <4> DEFINE n == Cardinality(Active)
      <4>3. DOMAIN f = k + 1 .. k + n /\ \A d \in DOMAIN f : f[d] \in Endpoints
        BY <4>2 DEF Bijection, Injection, Active
      <4>4. n \in Nat /\ k \in Nat /\ MaxDeliveries \in Nat
        BY ActiveCounted, DeliveryAssumption
      <4> HIDE DEF n
      <4>5. k + n \in 0 .. MaxDeliveries
        <5>1. CASE n = 0
          BY <4>4, <5>1
        <5>2. CASE n # 0
          <6>1. k + n \in DOMAIN f
            BY <4>3, <4>4, <5>2
          <6> QED
            BY <4>1, <4>4, <6>1 DEF Deliveries
        <5> QED
          BY <5>1, <5>2
      <4>6. \A d \in DOMAIN f : Insert(e, f[d]) \in DeliveryRow /\ Insert(e, f[d]).status = "pending"
        BY <4>3, InsertTyped
      <4>7. delivery' \in [Deliveries -> DeliveryRow]
        BY <1>0, <4>1, <4>6
      <4>8. \A d \in Deliveries : delivery[d].status # "none" => delivery'[d] = delivery[d]
        BY <4>1, <4>2, <4>3, <4>4 DEF Deliveries
      <4>9. \A d \in Deliveries : delivery'[d].status # "none" <=> d <= k + n
        <5> TAKE d \in Deliveries
        <5>1. d \in DOMAIN f <=> k < d /\ d <= k + n
          BY <4>3, <4>4 DEF Deliveries
        <5> QED
          BY <4>1, <4>2, <4>4, <4>6, <5>1 DEF Deliveries
      <4> QED
        BY <1>0, <4>5, <4>7, <4>8, <4>9, InsertKeeps
    <3>2. CASE Subscribers[job[e].at] # "finance"
      <4>1. delivery' = delivery
        BY <1>1, <1>3, <3>2
      <4> QED
        BY <1>0, <4>1, ClaimsKept
    <3> QED
      BY <3>1, <3>2
  <2>5. DeliveryTypeOK'
    BY <1>0, <2>1, <2>2, <2>4, SubscribersLength DEF DeliveryInv, DeliveryTypeOK, JobRow
  <2> QED
    BY <2>3, <2>4, <2>5 DEF DeliveryInv
<1> QED
  BY <1>2, <1>3

(* The administrators change an endpoint or its deliveries.                 *)
LEMMA AdministrationKeeps ==
    ASSUME DeliveryInv, NEW w \in Endpoints,
           SaveEndpoint(w) \/ DeleteEndpoint(w) \/ TestEndpoint(w)
    PROVE  DeliveryInv'
<1>0. /\ DeliveryTypeOK /\ TurnsTaken /\ RowsInOrder
      /\ endpoint \in [Endpoints -> {"none", "active", "paused"}]
      /\ delivery \in [Deliveries -> DeliveryRow] /\ retries \in Nat
  BY DEF DeliveryInv, DeliveryTypeOK
<1>1. CASE SaveEndpoint(w)
  <2>1. /\ endpoint' \in [Endpoints -> {"none", "active", "paused"}]
        /\ UNCHANGED <<job, told, delivery, sweep, faults, retries, taken>>
    BY <1>0, <1>1 DEF SaveEndpoint
  <2>2. RowsInOrder'
    BY <2>1, ClaimsKept
  <2> QED
    BY <1>0, <2>1, <2>2 DEF DeliveryInv, DeliveryTypeOK, TurnsTaken
<1>2. CASE DeleteEndpoint(w)
  <2>1. /\ endpoint' \in [Endpoints -> {"none", "active", "paused"}]
        /\ UNCHANGED <<job, told, sweep, faults, retries, taken>>
    BY <1>0, <1>2 DEF DeleteEndpoint
  <2>2. /\ delivery' = [d \in Deliveries |->
              IF delivery[d].to = w /\ delivery[d].status # "none"
              THEN [delivery[d] EXCEPT !.status = "gone", !.due = FALSE] ELSE delivery[d]]
    BY <1>2 DEF DeleteEndpoint
  <2>3. \A d \in Deliveries :
          /\ delivery'[d] \in DeliveryRow
          /\ delivery'[d].status = "none" <=> delivery[d].status = "none"
          /\ delivery'[d] = delivery[d] \/ (delivery'[d].status = "gone" /\ ~delivery'[d].due)
    <3> TAKE d \in Deliveries
    <3>1. delivery[d] \in DeliveryRow
      BY <1>0
    <3>2. CASE delivery[d].to = w /\ delivery[d].status # "none"
      <4>1. delivery'[d] = [delivery[d] EXCEPT !.status = "gone", !.due = FALSE]
        BY <2>2, <3>2
      <4> QED
        BY <3>1, <3>2, <4>1 DEF DeliveryRow
    <3>3. CASE ~(delivery[d].to = w /\ delivery[d].status # "none")
      BY <2>2, <3>1, <3>3
    <3> QED
      BY <3>2, <3>3
  <2>4. delivery' \in [Deliveries -> DeliveryRow]
    BY <2>2, <2>3
  <2>5. \A s \in Sweepers : \A j \in sweep[s].todo : j.id \in Deliveries
    BY <1>0 DEF DeliveryTypeOK
  <2>6. RowsInOrder'
    BY <1>0, <2>1, <2>3, <2>5 DEF RowsInOrder
  <2> QED
    BY <1>0, <2>1, <2>4, <2>6 DEF DeliveryInv, DeliveryTypeOK, TurnsTaken
<1>3. CASE TestEndpoint(w)
  <2>1. /\ retries' \in Nat /\ UNCHANGED <<job, told, endpoint, sweep, faults, taken>>
    BY <1>0, <1>3 DEF TestEndpoint
  <2>2. PICK d \in NextDeliveries(1) \cap Deliveries : delivery' = [delivery EXCEPT ![d] = Insert("test", w)]
    BY <1>3 DEF TestEndpoint
  <2>3. PICK k \in 0 .. MaxDeliveries :
          /\ \A x \in Deliveries : delivery[x].status # "none" <=> x <= k
          /\ NextDeliveries(1) = k + 1 .. k + 1
    BY NextRowsFree
  <2>4. k + 1 \in 0 .. MaxDeliveries /\ d = k + 1
    BY <2>2, <2>3, DeliveryAssumption DEF Deliveries
  <2>5. Insert("test", w) \in DeliveryRow /\ Insert("test", w).status = "pending"
    BY InsertTyped
  <2>6. delivery' \in [Deliveries -> DeliveryRow]
    BY <1>0, <2>2, <2>5
  <2>7. \A x \in Deliveries : delivery[x].status # "none" => delivery'[x] = delivery[x]
    BY <1>0, <2>2, <2>3, <2>4 DEF Deliveries
  <2>8. \A x \in Deliveries : delivery'[x].status # "none" <=> x <= k + 1
    BY <1>0, <2>2, <2>3, <2>4, <2>5 DEF Deliveries
  <2>9. RowsInOrder'
    BY <2>1, <2>4, <2>7, <2>8, InsertKeeps
  <2> QED
    BY <1>0, <2>1, <2>6, <2>9 DEF DeliveryInv, DeliveryTypeOK, TurnsTaken
<1> QED
  BY <1>1, <1>2, <1>3

(* A delivery is asked for again, or falls due.                             *)
LEMMA DueKeeps ==
    ASSUME DeliveryInv, NEW d \in Deliveries, RetryDelivery(d) \/ FallsDue(d)
    PROVE  DeliveryInv'
<1>0. /\ DeliveryTypeOK /\ TurnsTaken /\ delivery \in [Deliveries -> DeliveryRow] /\ retries \in Nat
      /\ taken \in [Deliveries -> Int]
  BY DEF DeliveryInv, DeliveryTypeOK
<1>1. /\ UNCHANGED <<job, told, endpoint, sweep, faults>> /\ retries' \in Nat
      /\ delivery[d].status \in {"pending", "failed"} /\ taken' \in [Deliveries -> Int]
  BY <1>0 DEF RetryDelivery, FallsDue
<1>2. /\ delivery' \in [Deliveries -> DeliveryRow] /\ delivery'[d].status # "none"
      /\ \A x \in Deliveries : x # d => delivery'[x] = delivery[x]
  <2>1. CASE RetryDelivery(d)
    <3> DEFINE row == [delivery[d] EXCEPT !.status = "pending", !.attempts = 0, !.due = TRUE]
    <3>1. row \in DeliveryRow /\ row.status = "pending"
      BY <1>0 DEF DeliveryRow
    <3>2. delivery' = [delivery EXCEPT ![d] = row]
      BY <1>0, <2>1 DEF RetryDelivery
    <3> HIDE DEF row
    <3> QED
      BY <1>0, <3>1, <3>2
  <2>2. CASE FallsDue(d)
    BY <1>0, <1>1, <2>2 DEF FallsDue, DeliveryRow
  <2> QED
    BY <2>1, <2>2 DEF RetryDelivery, FallsDue
<1>3. RowsInOrder'
  BY <1>1, <1>2, RowKeeps
<1> QED
  BY <1>0, <1>1, <1>2, <1>3 DEF DeliveryInv, DeliveryTypeOK, TurnsTaken

(* A sweep claims what is due.                                              *)
LEMMA ClaimKeeps ==
    ASSUME DeliveryInv, NEW s \in Sweepers, Claim(s)
    PROVE  DeliveryInv'
<1> DEFINE D == {d \in Deliveries : Deliverable(d) /\ delivery[d].due}
           todo == {[id |-> d, attempts |-> delivery[d].attempts] : d \in D}
<1>0. /\ DeliveryTypeOK /\ TurnsTaken /\ RowsInOrder
      /\ delivery \in [Deliveries -> DeliveryRow] /\ sweep \in [Sweepers -> SweepRow]
  BY DEF DeliveryInv, DeliveryTypeOK, SweepRow
<1>1. /\ sweep' = [sweep EXCEPT ![s].todo = todo] /\ sweep[s].todo = {}
      /\ delivery' = [d \in Deliveries |-> IF d \in D THEN AfterClaim(d) ELSE delivery[d]]
      /\ UNCHANGED <<job, told, endpoint, faults, retries, taken>>
  BY DEF Claim, IdleSweep
<1>2. \A d \in Deliveries :
        /\ delivery'[d] \in DeliveryRow
        /\ delivery'[d].status = delivery[d].status
        /\ d \in D => delivery[d].status = "pending" /\ delivery[d].due /\ ~delivery'[d].due
        /\ d \notin D => delivery'[d] = delivery[d]
  BY <1>0, <1>1 DEF AfterClaim, DeliveryRow, Deliverable
<1>3. delivery' \in [Deliveries -> DeliveryRow]
  BY <1>1, <1>2
<1>4. /\ todo \subseteq [id : Deliveries, attempts : Nat]
      /\ \A j \in todo : j.id \in D
      /\ \A j, k \in todo : j.id = k.id => j = k
  BY <1>0 DEF DeliveryRow
<1> HIDE DEF todo, D
<1>5. /\ sweep' \in [Sweepers -> SweepRow] /\ sweep'[s].todo = todo
      /\ \A t \in Sweepers : t # s => sweep'[t].todo = sweep[t].todo
  BY <1>0, <1>1, <1>4 DEF SweepRow
<1>6. D \subseteq Deliveries /\ \A t \in Sweepers : \A j \in sweep[t].todo : j.id \in Deliveries
  BY <1>0 DEF SweepRow, D
<1>7. RowsInOrder'
  <2>1. \E k \in 0 .. MaxDeliveries : \A d \in Deliveries : delivery'[d].status # "none" <=> d <= k
    BY <1>0, <1>2 DEF RowsInOrder
  <2>2. \A t \in Sweepers : \A j \in sweep'[t].todo : delivery'[j.id].status # "none"
    BY <1>0, <1>2, <1>4, <1>5, <1>6 DEF RowsInOrder
  <2> QED
    BY <2>1, <2>2 DEF RowsInOrder
<1> QED
  BY <1>0, <1>1, <1>3, <1>5, <1>7 DEF DeliveryInv, DeliveryTypeOK, TurnsTaken, SweepRow

LEMMA StoredRow ==
    ASSUME DeliveryInv, NEW s \in Sweepers, NEW j \in sweep[s].todo, NEW answer
    PROVE  /\ Stored(j, answer) \in DeliveryRow /\ Stored(j, answer).status # "none"
           /\ j.id \in Deliveries
<1>1. /\ j.id \in Deliveries /\ j.attempts \in Nat /\ delivery[j.id] \in DeliveryRow
      /\ delivery[j.id].status # "none"
  BY DEF DeliveryInv, DeliveryTypeOK, RowsInOrder
<1>2. Attempts(j) \in Nat
  BY <1>1 DEF Attempts
<1> QED
  BY <1>1, <1>2 DEF Stored, DeliveryRow

(* The outcome of a post is stored, or lost.                                *)
LEMMA StoreOutcomeKeeps ==
    ASSUME DeliveryInv, NEW s \in Sweepers, Store(s)
    PROVE  DeliveryInv'
<1>0. /\ DeliveryTypeOK /\ TurnsTaken /\ RowsInOrder
      /\ delivery \in [Deliveries -> DeliveryRow] /\ sweep \in [Sweepers -> SweepRow] /\ faults \in Nat
  BY DEF DeliveryInv, DeliveryTypeOK, SweepRow
<1>1. PICK j \in sweep[s].todo :
        /\ sweep' = [sweep EXCEPT ![s] = [todo |-> @.todo \ {j}, answer |-> "none"]]
        /\ \/ delivery' = [delivery EXCEPT ![j.id] = Stored(j, sweep[s].answer)] /\ UNCHANGED <<faults, taken>>
           \/ faults < MaxFaults /\ faults' = faults + 1 /\ Forget(s, j) /\ UNCHANGED delivery
  BY DEF Store
<1>2. UNCHANGED <<job, told, endpoint, retries>> /\ taken \in [Deliveries -> Int]
  BY <1>0 DEF Store, DeliveryTypeOK
<1>3. /\ sweep' \in [Sweepers -> SweepRow] /\ sweep'[s].todo = sweep[s].todo \ {j}
      /\ \A t \in Sweepers : t # s => sweep'[t].todo = sweep[t].todo
      /\ \A t \in Sweepers : sweep'[t].todo \subseteq sweep[t].todo
  BY <1>0, <1>1 DEF SweepRow
<1>4. CASE UNCHANGED delivery /\ faults' = faults + 1 /\ Forget(s, j)
  <2>1. RowsInOrder'
    BY <1>2, <1>3, <1>4, ClaimsKept
  <2>2. taken' \in [Deliveries -> Int]
    <3>1. j.id \in Deliveries
      BY <1>0 DEF SweepRow
    <3> QED
      BY <1>2, <1>4, <3>1 DEF Forget
  <2> QED
    BY <1>0, <1>2, <1>3, <1>4, <2>1, <2>2 DEF DeliveryInv, DeliveryTypeOK, TurnsTaken, SweepRow
<1>5. CASE delivery' = [delivery EXCEPT ![j.id] = Stored(j, sweep[s].answer)] /\ UNCHANGED <<faults, taken>>
  <2>1. /\ j.id \in Deliveries /\ delivery' \in [Deliveries -> DeliveryRow]
        /\ delivery'[j.id].status # "none" /\ delivery[j.id].status # "none"
        /\ \A x \in Deliveries : x # j.id => delivery'[x] = delivery[x]
    BY <1>0, <1>5, StoredRow DEF RowsInOrder
  <2>2. \A t \in Sweepers : \A k \in sweep[t].todo : k.id \in Deliveries
    BY <1>0 DEF SweepRow
  <2>3. RowsInOrder'
    BY <1>0, <1>3, <2>1, <2>2 DEF RowsInOrder
  <2> QED
    BY <1>0, <1>2, <1>3, <1>5, <2>1, <2>3 DEF DeliveryInv, DeliveryTypeOK, TurnsTaken, SweepRow
<1> QED
  BY <1>1, <1>4, <1>5

(* A post, and a process that dies with its claims.                         *)
LEMMA PostKeeps ==
    ASSUME DeliveryInv, NEW s \in Sweepers, Post(s) \/ SweepDies(s)
    PROVE  DeliveryInv'
<1>0. /\ DeliveryTypeOK /\ TurnsTaken /\ sweep \in [Sweepers -> SweepRow] /\ faults \in Nat
      /\ taken \in [Deliveries -> Int]
  BY DEF DeliveryInv, DeliveryTypeOK, SweepRow
<1>1. /\ sweep' \in [Sweepers -> SweepRow] /\ faults' \in Nat
      /\ \A t \in Sweepers : sweep'[t].todo \subseteq sweep[t].todo
      /\ UNCHANGED <<job, told, endpoint, delivery, retries>> /\ taken' \in [Deliveries -> Int]
  <2>1. CASE Post(s)
    BY <1>0, <2>1 DEF Post, SweepRow
  <2>2. CASE SweepDies(s)
    BY <1>0, <2>2 DEF SweepDies, SweepRow, IdleSweep, Forget
  <2> QED
    BY <2>1, <2>2
<1>2. RowsInOrder'
  BY <1>1, ClaimsKept
<1> QED
  BY <1>0, <1>1, <1>2 DEF DeliveryInv, DeliveryTypeOK, TurnsTaken, SweepRow

LEMMA DeliveryStep == DeliveryInv /\ [DeliveryNext]_deliveryVars => DeliveryInv'
<1> SUFFICES ASSUME DeliveryInv, [DeliveryNext]_deliveryVars PROVE DeliveryInv'
  OBVIOUS
<1>1. CASE UNCHANGED deliveryVars
  BY <1>1 DEF deliveryVars, DeliveryInv, DeliveryTypeOK, TurnsTaken, RowsInOrder
<1>2. CASE DeliveryNext
  BY <1>2, DispatchKeeps, HandleKeeps, AdministrationKeeps, DueKeeps, ClaimKeeps,
     StoreOutcomeKeeps, PostKeeps DEF DeliveryNext, Dispatch, Sweeping
<1> QED
  BY <1>1, <1>2

LEMMA AlwaysDeliveryInv == DeliverySpec => []DeliveryInv
BY DeliveryInitially, DeliveryStep, PTL DEF DeliverySpec

(* Every row keeps its type, whatever dies.                                 *)
THEOREM DeliveriesTyped == DeliverySpec => []DeliveryTypeOK
<1>1. DeliveryInv => DeliveryTypeOK
  BY DEF DeliveryInv
<1> QED
  BY AlwaysDeliveryInv, <1>1, PTL

(* An event whose job is completed was handled by every subscriber.         *)
THEOREM EventsHandedOn == DeliverySpec => []HandedOn
<1>1. ASSUME DeliveryInv PROVE HandedOn
  <2> SUFFICES ASSUME NEW e \in Events, job[e].status = "completed"
               PROVE  told[e] = {"notification", "search", "finance"}
    BY DEF HandedOn
  <2>1. \A i \in 1 .. 3 : Subscribers[i] \in told[e]
    BY <1>1 DEF DeliveryInv, TurnsTaken
  <2>2. told[e] \subseteq {"notification", "search", "finance"}
    BY <1>1 DEF DeliveryInv, DeliveryTypeOK
  <2> QED
    BY <2>1, <2>2, SubscribersTyped
<1> QED
  BY AlwaysDeliveryInv, <1>1, PTL

-----------------------------------------------------------------------------
(* How often a delivery may still be accepted.                              *)

(* Sweep s has yet to send d, or has sent it and did not get an "ok".       *)
InHands(s, d) ==
    \E j \in sweep[s].todo :
        j.id = d /\ (sweep[s].answer = "ok" => \E k \in sweep[s].todo : k.id < d)
Holders(d) == {s \in Sweepers : InHands(s, d)}

(* Row d may be claimed, now or later, without an excuse.                   *)
Claimable(d) ==
    \/ delivery[d].status = "none"
    \/ delivery[d].status \in {"pending", "failed"} /\ (delivery[d].due \/ d \notin Claimed)

Chances(d) == Cardinality(Holders(d)) + IF Claimable(d) THEN 1 ELSE 0

ClaimsOnce == \A s \in Sweepers : \A j, k \in sweep[s].todo : j.id = k.id => j = k

SentInv == ClaimsOnce /\ \A d \in Deliveries : taken[d] + Chances(d) <= 1

LEMMA CardBounds ==
    ASSUME NEW A, IsFiniteSet(A), NEW B, NEW s
    PROVE  /\ Cardinality(A) \in Nat
           /\ B \subseteq A => Cardinality(B) \in Nat /\ Cardinality(B) <= Cardinality(A)
           /\ s \in A /\ B \subseteq A \ {s} => Cardinality(B) \in Nat /\ Cardinality(B) <= Cardinality(A) - 1
           /\ B \subseteq A \cup {s} => Cardinality(B) \in Nat /\ Cardinality(B) <= Cardinality(A) + 1
<1>1. Cardinality(A) \in Nat
  BY FS_CardinalityType
<1>2. /\ IsFiniteSet(A \ {s}) /\ (s \in A => Cardinality(A \ {s}) = Cardinality(A) - 1)
  BY FS_RemoveElement
<1>3. /\ IsFiniteSet(A \cup {s}) /\ Cardinality(A \cup {s}) <= Cardinality(A) + 1
  BY <1>1, FS_AddElement
<1>4. ASSUME NEW C, IsFiniteSet(C), B \subseteq C PROVE Cardinality(B) \in Nat /\ Cardinality(B) <= Cardinality(C)
  BY <1>4, FS_Subset, FS_CardinalityType
<1>5. B \subseteq A => Cardinality(B) \in Nat /\ Cardinality(B) <= Cardinality(A)
  BY <1>4
<1>6. s \in A /\ B \subseteq A \ {s} => Cardinality(B) \in Nat /\ Cardinality(B) <= Cardinality(A) - 1
  BY <1>2, <1>4
<1>7. B \subseteq A \cup {s} => Cardinality(B) \in Nat /\ Cardinality(B) <= Cardinality(A) + 1
  <2>1. Cardinality(A \cup {s}) \in Nat
    BY <1>3, FS_CardinalityType
  <2>2. B \subseteq A \cup {s} => Cardinality(B) \in Nat /\ Cardinality(B) <= Cardinality(A \cup {s})
    BY <1>3, <1>4
  <2> QED
    BY <1>1, <1>3, <2>1, <2>2
<1> QED
  BY <1>1, <1>5, <1>6, <1>7

LEMMA HoldersFinite == ASSUME NEW d PROVE IsFiniteSet(Holders(d))
BY DeliveryAssumption, FS_Subset DEF Holders

(* The ways in which a step moves the chances of d.                         *)
LEMMA ChanceMoves ==
    ASSUME DeliveryInv, NEW d \in Deliveries, taken[d] + Chances(d) <= 1, NEW s,
           \/ Holders(d)' \subseteq Holders(d) /\ taken'[d] = taken[d] /\ (Claimable(d)' => Claimable(d))
           \/ Holders(d)' \subseteq Holders(d) /\ taken'[d] = taken[d] - 1
           \/ s \in Holders(d) /\ Holders(d)' \subseteq Holders(d) \ {s} /\ taken'[d] = taken[d]
           \/ /\ s \in Holders(d) /\ Holders(d)' \subseteq Holders(d) \ {s}
              /\ taken'[d] = taken[d] + 1 /\ (Claimable(d)' => Claimable(d))
           \/ /\ Holders(d)' \subseteq Holders(d) \cup {s} /\ taken'[d] = taken[d]
              /\ Claimable(d) /\ ~Claimable(d)'
    PROVE  taken'[d] + Chances(d)' <= 1
<1> DEFINE n == Cardinality(Holders(d))
           m == Cardinality(Holders(d)')
           a == IF Claimable(d) THEN 1 ELSE 0
           b == IF Claimable(d)' THEN 1 ELSE 0
<1>1. /\ n \in Nat
      /\ Holders(d)' \subseteq Holders(d) => m \in Nat /\ m <= n
      /\ s \in Holders(d) /\ Holders(d)' \subseteq Holders(d) \ {s} => m \in Nat /\ m <= n - 1
      /\ Holders(d)' \subseteq Holders(d) \cup {s} => m \in Nat /\ m <= n + 1
  BY HoldersFinite, CardBounds
<1>2. taken[d] \in Int /\ taken[d] + (n + a) <= 1
  BY DEF DeliveryInv, DeliveryTypeOK, Chances
<1>3. /\ a \in {0, 1} /\ b \in {0, 1}
      /\ (Claimable(d)' => Claimable(d)) => b <= a
      /\ Claimable(d) /\ ~Claimable(d)' => a = 1 /\ b = 0
  OBVIOUS
<1>4. Chances(d)' = m + b
  BY DEF Chances
<1> HIDE DEF n, m, a, b
<1> QED
  BY <1>1, <1>2, <1>3, <1>4

(* A step without sweeps.                                                   *)
LEMMA SweepsRest ==
    ASSUME DeliveryInv, SentInv, sweep' = sweep,
           \A d \in Deliveries :
             \/ taken'[d] = taken[d] /\ (Claimable(d)' => Claimable(d))
             \/ taken'[d] = taken[d] - 1
    PROVE  SentInv'
<1>1. \A d : Holders(d)' = Holders(d)
  BY DEF Holders, InHands
<1>2. ASSUME NEW d \in Deliveries PROVE taken'[d] + Chances(d)' <= 1
  BY <1>1, ChanceMoves DEF SentInv
<1> QED
  BY <1>2 DEF SentInv, ClaimsOnce

LEMMA ClaimedSame == ASSUME sweep' = sweep PROVE Claimed' = Claimed
BY DEF Claimed, ClaimedBy

(* A step of the sweep s.                                                   *)
LEMMA OneSweep ==
    ASSUME NEW s \in Sweepers, \A t \in Sweepers : t # s => sweep'[t] = sweep[t], NEW d
    PROVE  /\ (InHands(s, d)' => InHands(s, d)) => Holders(d)' \subseteq Holders(d)
           /\ ~InHands(s, d)' => Holders(d)' \subseteq Holders(d) \ {s}
           /\ Holders(d)' \subseteq Holders(d) \cup {s}
           /\ InHands(s, d) => s \in Holders(d)
           /\ (d \in ClaimedBy(s) => d \in ClaimedBy(s)') => (d \notin Claimed' => d \notin Claimed)
<1>1. \A t \in Sweepers : t # s => (InHands(t, d)' <=> InHands(t, d))
  BY DEF InHands
<1>2. \A t \in Sweepers : t # s => ClaimedBy(t)' = ClaimedBy(t)
  BY DEF ClaimedBy
<1>3. (d \in ClaimedBy(s) => d \in ClaimedBy(s)') => (d \notin Claimed' => d \notin Claimed)
  BY <1>2 DEF Claimed
<1> QED
  BY <1>1, <1>3 DEF Holders

LEMMA SentInitially == DeliveryInit => SentInv
<1> SUFFICES ASSUME DeliveryInit PROVE SentInv
  OBVIOUS
<1>1. \A s \in Sweepers : sweep[s].todo = {}
  BY DEF DeliveryInit, IdleSweep
<1>2. \A d \in Deliveries : taken[d] = 0
  BY DEF DeliveryInit
<1>3. \A d : Cardinality(Holders(d)) = 0
  BY <1>1, FS_EmptySet DEF Holders, InHands
<1> QED
  BY <1>1, <1>2, <1>3 DEF SentInv, ClaimsOnce, Chances

(* Jobs and administrators; a row that is inserted may be claimed once.     *)
LEMMA EventsSent ==
    ASSUME DeliveryInv, SentInv, NEW e \in Events,
           Publish(e) \/ Fetch(e) \/ Handle(e) \/ Finish(e) \/ WorkerDies(e)
    PROVE  SentInv'
<1>1. sweep' = sweep /\ taken' = taken
  BY DEF Publish, Fetch, Handle, Finish, WorkerDies
<1>2. \A d \in Deliveries : delivery'[d] = delivery[d] \/ delivery[d].status = "none"
  <2>1. CASE Handle(e)
    <3>1. CASE delivery' = delivery
      BY <3>1
    <3>2. CASE delivery' # delivery
      <4>1. PICK f \in Bijection(NextDeliveries(Cardinality(Active)), Active) :
              delivery' = [d \in Deliveries |-> IF d \in DOMAIN f THEN Insert(e, f[d]) ELSE delivery[d]]
        BY <2>1, <3>2 DEF Handle
      <4>2. PICK k \in 0 .. MaxDeliveries :
              /\ \A d \in Deliveries : delivery[d].status # "none" <=> d <= k
              /\ NextDeliveries(Cardinality(Active)) = k + 1 .. k + Cardinality(Active)
        BY ActiveCounted, NextRowsFree
      <4>3. DOMAIN f = k + 1 .. k + Cardinality(Active)
        BY <4>2 DEF Bijection, Injection
      <4>4. \A d \in Deliveries : d \in DOMAIN f => delivery[d].status = "none"
        BY <4>2, <4>3, ActiveCounted DEF Deliveries
      <4> QED
        BY <4>1, <4>4
    <3> QED
      BY <3>1, <3>2
  <2>2. CASE ~Handle(e)
    BY <2>2 DEF Publish, Fetch, Finish, WorkerDies
  <2> QED
    BY <2>1, <2>2
<1>3. \A d \in Deliveries : Claimable(d)' => Claimable(d)
  BY <1>1, <1>2, ClaimedSame DEF Claimable
<1> QED
  BY <1>1, <1>3, SweepsRest

LEMMA AdministrationSent ==
    ASSUME DeliveryInv, SentInv, NEW w \in Endpoints,
           SaveEndpoint(w) \/ DeleteEndpoint(w) \/ TestEndpoint(w)
    PROVE  SentInv'
<1>0. delivery \in [Deliveries -> DeliveryRow]
  BY DEF DeliveryInv, DeliveryTypeOK
<1>1. sweep' = sweep /\ taken' = taken
  BY DEF SaveEndpoint, DeleteEndpoint, TestEndpoint
<1>2. \A d \in Deliveries : \/ delivery'[d] = delivery[d] \/ delivery[d].status = "none"
                            \/ delivery'[d].status = "gone"
  <2>1. CASE SaveEndpoint(w)
    BY <2>1 DEF SaveEndpoint
  <2>2. CASE DeleteEndpoint(w)
    BY <1>0, <2>2 DEF DeleteEndpoint, DeliveryRow
  <2>3. CASE TestEndpoint(w)
    <3>1. PICK d \in NextDeliveries(1) \cap Deliveries : delivery' = [delivery EXCEPT ![d] = Insert("test", w)]
      BY <2>3 DEF TestEndpoint
    <3>2. PICK k \in 0 .. MaxDeliveries :
            /\ \A x \in Deliveries : delivery[x].status # "none" <=> x <= k
            /\ NextDeliveries(1) = k + 1 .. k + 1
      BY NextRowsFree
    <3>3. delivery[d].status = "none"
      BY <3>2 DEF Deliveries
    <3> QED
      BY <1>0, <3>1, <3>3
  <2> QED
    BY <2>1, <2>2, <2>3
<1>3. \A d \in Deliveries : Claimable(d)' => Claimable(d)
  BY <1>1, <1>2, ClaimedSame DEF Claimable
<1> QED
  BY <1>1, <1>3, SweepsRest

(* What is due again has an excuse, or may be claimed anyway.               *)
LEMMA DueSent ==
    ASSUME DeliveryInv, SentInv, NEW d \in Deliveries, RetryDelivery(d) \/ FallsDue(d)
    PROVE  SentInv'
<1>0. delivery \in [Deliveries -> DeliveryRow] /\ taken \in [Deliveries -> Int]
  BY DEF DeliveryInv, DeliveryTypeOK
<1>1. /\ sweep' = sweep /\ delivery[d].status \in {"pending", "failed"}
      /\ taken' = IF d \in Claimed THEN [taken EXCEPT ![d] = @ - 1] ELSE taken
      /\ \A x \in Deliveries : x # d => delivery'[x] = delivery[x]
  BY <1>0 DEF RetryDelivery, FallsDue
<1>2. ASSUME NEW x \in Deliveries
      PROVE  \/ taken'[x] = taken[x] /\ (Claimable(x)' => Claimable(x))
             \/ taken'[x] = taken[x] - 1
  <2>1. CASE x # d
    BY <1>0, <1>1, <2>1, ClaimedSame DEF Claimable
  <2>2. CASE x = d /\ d \in Claimed
    BY <1>0, <1>1, <2>2
  <2>3. CASE x = d /\ d \notin Claimed
    BY <1>0, <1>1, <2>3 DEF Claimable
  <2> QED
    BY <2>1, <2>2, <2>3
<1> QED
  BY <1>1, <1>2, SweepsRest

LEMMA ClaimSent == ASSUME DeliveryInv, SentInv, NEW s \in Sweepers, Claim(s) PROVE SentInv'
<1> DEFINE D == {d \in Deliveries : Deliverable(d) /\ delivery[d].due}
           todo == {[id |-> d, attempts |-> delivery[d].attempts] : d \in D}
<1>0. delivery \in [Deliveries -> DeliveryRow] /\ sweep \in [Sweepers -> SweepRow]
  BY DEF DeliveryInv, DeliveryTypeOK, SweepRow
<1>1. /\ sweep' = [sweep EXCEPT ![s].todo = todo] /\ sweep[s].todo = {} /\ taken' = taken
      /\ delivery' = [d \in Deliveries |-> IF d \in D THEN AfterClaim(d) ELSE delivery[d]]
  BY DEF Claim, IdleSweep
<1>2. \A d \in Deliveries :
        /\ d \in D => delivery[d].status = "pending" /\ delivery[d].due
                      /\ delivery'[d].status = "pending" /\ ~delivery'[d].due
        /\ d \notin D => delivery'[d] = delivery[d]
  BY <1>0, <1>1 DEF AfterClaim, DeliveryRow, Deliverable
<1> HIDE DEF D
<1>a. \A j \in todo : \E d \in D : j = [id |-> d, attempts |-> delivery[d].attempts]
  OBVIOUS
<1>b. \A d \in D : [id |-> d, attempts |-> delivery[d].attempts] \in todo
  OBVIOUS
<1> HIDE DEF todo
<1>3. /\ \A j \in todo : j.id \in D
      /\ \A d \in D : \E j \in todo : j.id = d
      /\ \A j, k \in todo : j.id = k.id => j = k
  <2>1. \A j \in todo : j.id \in D /\ j = [id |-> j.id, attempts |-> delivery[j.id].attempts]
    BY <1>a
  <2>2. \A d \in D : \E j \in todo : j.id = d
    BY <1>b
  <2>3. \A j, k \in todo : j.id = k.id => j = k
    BY <2>1
  <2> QED
    BY <2>1, <2>2, <2>3
<1>4. sweep'[s].todo = todo /\ \A t \in Sweepers : t # s => sweep'[t] = sweep[t]
  BY <1>0, <1>1 DEF SweepRow
<1>5. ASSUME NEW d \in Deliveries PROVE taken'[d] + Chances(d)' <= 1
  <2>1. CASE d \in D
    <3>1. d \in Claimed'
      BY <1>3, <1>4, <2>1 DEF Claimed, ClaimedBy
    <3>2. Claimable(d) /\ ~Claimable(d)'
      BY <1>2, <2>1, <3>1 DEF Claimable
    <3>3. Holders(d)' \subseteq Holders(d) \cup {s}
      BY <1>4, OneSweep
    <3> QED
      BY <1>1, <3>2, <3>3, ChanceMoves DEF SentInv
  <2>2. CASE d \notin D
    <3>1. ~InHands(s, d)' /\ d \notin ClaimedBy(s)
      BY <1>1, <1>3, <1>4, <2>2 DEF InHands, ClaimedBy
    <3>2. Holders(d)' \subseteq Holders(d) /\ (d \notin Claimed' => d \notin Claimed)
      BY <1>4, <3>1, OneSweep
    <3>3. Claimable(d)' => Claimable(d)
      BY <1>2, <2>2, <3>2 DEF Claimable
    <3> QED
      BY <1>1, <3>2, <3>3, ChanceMoves DEF SentInv
  <2> QED
    BY <2>1, <2>2
<1>6. ClaimsOnce'
  BY <1>3, <1>4 DEF SentInv, ClaimsOnce
<1> QED
  BY <1>5, <1>6 DEF SentInv

(* What a sweep sends: the first of what it has.                            *)
LEMMA FirstOne ==
    ASSUME DeliveryInv, ClaimsOnce, NEW s \in Sweepers, NEW j, First(s, j)
    PROVE  /\ j \in sweep[s].todo /\ j.id \in Deliveries /\ taken \in [Deliveries -> Int]
           /\ \A k \in sweep[s].todo : k.id \in Deliveries /\ j.id <= k.id /\ (k.id = j.id => k = j)
           /\ sweep \in [Sweepers -> SweepRow] /\ delivery \in [Deliveries -> DeliveryRow]
           /\ \A d \in Deliveries : d \in ClaimedBy(s) <=> \E k \in sweep[s].todo : k.id = d
           /\ \A d \in Deliveries \ {j.id} : InHands(s, d) <=> d \in ClaimedBy(s)
           /\ InHands(s, j.id) <=> sweep[s].answer # "ok"
<1>1. sweep \in [Sweepers -> SweepRow] /\ delivery \in [Deliveries -> DeliveryRow] /\ taken \in [Deliveries -> Int]
  BY DEF DeliveryInv, DeliveryTypeOK, SweepRow
<1>2. /\ j \in sweep[s].todo /\ \A k \in sweep[s].todo : k.id \in Deliveries /\ j.id <= k.id /\ (k.id = j.id => k = j)
  BY <1>1 DEF First, ClaimsOnce, SweepRow
<1>3. \A d \in Deliveries : d \in ClaimedBy(s) <=> \E k \in sweep[s].todo : k.id = d
  BY DEF ClaimedBy
<1>4. ASSUME NEW d \in Deliveries \ {j.id} PROVE InHands(s, d) <=> d \in ClaimedBy(s)
  <2>1. d \in ClaimedBy(s) => j.id < d
    BY <1>2, <1>3 DEF Deliveries
  <2> QED
    BY <1>2, <1>3, <2>1 DEF InHands
<1>5. InHands(s, j.id) <=> sweep[s].answer # "ok"
  <2>1. \A k \in sweep[s].todo : ~(k.id < j.id)
    BY <1>2 DEF Deliveries
  <2> QED
    BY <1>2, <2>1 DEF InHands
<1> QED
  BY <1>1, <1>2, <1>3, <1>4, <1>5

LEMMA PostSent == ASSUME DeliveryInv, SentInv, NEW s \in Sweepers, Post(s) PROVE SentInv'
<1>1. PICK answer \in {"ok", "error"}, j \in sweep[s].todo :
        /\ First(s, j) /\ sweep' = [sweep EXCEPT ![s].answer = answer]
        /\ taken' = IF answer = "ok" THEN [taken EXCEPT ![j.id] = @ + 1] ELSE taken
  BY DEF Post
<1>2. sweep[s].answer = "none" /\ delivery' = delivery
  BY DEF Post
<1>3. ClaimsOnce
  BY DEF SentInv
<1>4. /\ sweep \in [Sweepers -> SweepRow] /\ taken \in [Deliveries -> Int] /\ j.id \in Deliveries
      /\ \A k \in sweep[s].todo : k.id \in Deliveries /\ j.id <= k.id
  BY <1>1, <1>3, FirstOne
<1>5. /\ \A t \in Sweepers : t # s => sweep'[t] = sweep[t]
      /\ \A t \in Sweepers : sweep'[t].todo = sweep[t].todo
      /\ sweep'[s].answer = answer
  BY <1>1, <1>4 DEF SweepRow
<1>6. Claimed' = Claimed
  BY <1>5 DEF Claimed, ClaimedBy
<1>7. ASSUME NEW d \in Deliveries PROVE taken'[d] + Chances(d)' <= 1
  <2>1. Claimable(d)' => Claimable(d)
    BY <1>2, <1>6 DEF Claimable
  <2>2. InHands(s, d)' => InHands(s, d)
    BY <1>2, <1>5 DEF InHands
  <2>3. Holders(d)' \subseteq Holders(d)
    BY <1>5, <2>2, OneSweep
  <2>4. CASE taken'[d] = taken[d]
    BY <2>1, <2>3, <2>4, ChanceMoves DEF SentInv
  <2>5. CASE taken'[d] # taken[d]
    <3>1. d = j.id /\ answer = "ok" /\ taken'[d] = taken[d] + 1
      BY <1>1, <1>4, <2>5
    <3>2. \A k \in sweep'[s].todo : ~(k.id < d)
      BY <1>4, <1>5, <3>1 DEF Deliveries
    <3>3. ~InHands(s, d)' /\ InHands(s, d)
      BY <1>1, <1>2, <1>5, <3>1, <3>2 DEF InHands
    <3>4. s \in Holders(d) /\ Holders(d)' \subseteq Holders(d) \ {s}
      BY <1>5, <3>3, OneSweep
    <3> QED
      BY <2>1, <3>1, <3>4, ChanceMoves DEF SentInv
  <2> QED
    BY <2>4, <2>5
<1>8. ClaimsOnce'
  BY <1>3, <1>5 DEF ClaimsOnce
<1> QED
  BY <1>7, <1>8 DEF SentInv

LEMMA StoreSent == ASSUME DeliveryInv, SentInv, NEW s \in Sweepers, Store(s) PROVE SentInv'
<1>1. PICK j \in sweep[s].todo :
        /\ First(s, j)
        /\ sweep' = [sweep EXCEPT ![s] = [todo |-> @.todo \ {j}, answer |-> "none"]]
        /\ \/ delivery' = [delivery EXCEPT ![j.id] = Stored(j, sweep[s].answer)] /\ UNCHANGED <<faults, taken>>
           \/ faults < MaxFaults /\ faults' = faults + 1 /\ Forget(s, j) /\ UNCHANGED delivery
  BY DEF Store
<1>2. ClaimsOnce
  BY DEF SentInv
<1>3. /\ sweep \in [Sweepers -> SweepRow] /\ taken \in [Deliveries -> Int] /\ j.id \in Deliveries
      /\ delivery \in [Deliveries -> DeliveryRow]
      /\ \A k \in sweep[s].todo : k.id \in Deliveries /\ j.id <= k.id /\ (k.id = j.id => k = j)
      /\ \A d \in Deliveries : d \in ClaimedBy(s) <=> \E k \in sweep[s].todo : k.id = d
      /\ \A d \in Deliveries \ {j.id} : InHands(s, d) <=> d \in ClaimedBy(s)
      /\ InHands(s, j.id) <=> sweep[s].answer # "ok"
  BY <1>1, <1>2, FirstOne
<1>4. /\ \A t \in Sweepers : t # s => sweep'[t] = sweep[t]
      /\ sweep'[s].todo = sweep[s].todo \ {j}
      /\ sweep'[s].answer = "none"
  BY <1>1, <1>3 DEF SweepRow
<1>5. ASSUME NEW d \in Deliveries, d # j.id PROVE taken'[d] + Chances(d)' <= 1
  <2>1. taken'[d] = taken[d] /\ delivery'[d] = delivery[d]
    BY <1>1, <1>3, <1>5 DEF Forget
  <2>2. (InHands(s, d)' => d \in ClaimedBy(s)) /\ (d \in ClaimedBy(s) => d \in ClaimedBy(s)')
    BY <1>3, <1>4, <1>5 DEF InHands, ClaimedBy
  <2>3. Holders(d)' \subseteq Holders(d) /\ (d \notin Claimed' => d \notin Claimed)
    BY <1>3, <1>4, <1>5, <2>2, OneSweep
  <2>4. Claimable(d)' => Claimable(d)
    BY <2>1, <2>3 DEF Claimable
  <2> QED
    BY <2>1, <2>3, <2>4, ChanceMoves DEF SentInv
<1>6. ASSUME NEW d \in Deliveries, d = j.id PROVE taken'[d] + Chances(d)' <= 1
  <2>1. ~InHands(s, d)'
    BY <1>3, <1>4, <1>6 DEF InHands
  <2>2. Holders(d)' \subseteq Holders(d) \ {s} /\ Holders(d)' \subseteq Holders(d)
    BY <1>4, <2>1, OneSweep
  <2>3. InHands(s, d) => s \in Holders(d)
    BY <1>4, OneSweep
  <2>4. taken[d] + Chances(d) <= 1
    BY DEF SentInv
  <2>5. CASE sweep[s].answer # "ok"
    <3>1. taken' = taken /\ s \in Holders(d)
      BY <1>1, <1>3, <1>6, <2>3, <2>5 DEF Forget
    <3> QED
      BY <2>2, <2>4, <3>1, ChanceMoves
  <2>6. CASE sweep[s].answer = "ok" /\ UNCHANGED taken /\ delivery' = [delivery EXCEPT ![d] = Stored(j, sweep[s].answer)]
    <3>1. delivery'[d].status \in {"gone", "delivered"}
      BY <1>3, <1>6, <2>6 DEF Stored, DeliveryRow
    <3>2. ~Claimable(d)'
      BY <3>1 DEF Claimable
    <3> QED
      BY <2>2, <2>4, <2>6, <3>2, ChanceMoves
  <2>7. CASE sweep[s].answer = "ok" /\ Forget(s, j)
    <3>1. taken'[d] = taken[d] - 1
      BY <1>3, <1>6, <2>7 DEF Forget
    <3> QED
      BY <2>2, <2>4, <3>1, ChanceMoves
  <2> QED
    BY <1>1, <1>6, <2>5, <2>6, <2>7
<1>7. ClaimsOnce'
  BY <1>2, <1>4 DEF ClaimsOnce
<1> QED
  BY <1>5, <1>6, <1>7 DEF SentInv

LEMMA DeathSent == ASSUME DeliveryInv, SentInv, NEW s \in Sweepers, SweepDies(s) PROVE SentInv'
<1>1. PICK j \in sweep[s].todo : First(s, j) /\ Forget(s, j)
  BY DEF SweepDies
<1>2. sweep' = [sweep EXCEPT ![s] = IdleSweep] /\ delivery' = delivery
  BY DEF SweepDies
<1>3. ClaimsOnce
  BY DEF SentInv
<1>4. /\ sweep \in [Sweepers -> SweepRow] /\ taken \in [Deliveries -> Int] /\ j.id \in Deliveries
      /\ \A d \in Deliveries \ {j.id} : InHands(s, d) <=> d \in ClaimedBy(s)
      /\ InHands(s, j.id) <=> sweep[s].answer # "ok"
  BY <1>1, <1>3, FirstOne
<1>5. /\ \A t \in Sweepers : t # s => sweep'[t] = sweep[t]
      /\ sweep'[s].todo = {}
  BY <1>2, <1>4 DEF IdleSweep
<1>6. ASSUME NEW d \in Deliveries PROVE taken'[d] + Chances(d)' <= 1
  <2>1. Holders(d)' \subseteq Holders(d) \ {s} /\ Holders(d)' \subseteq Holders(d)
    <3>1. ~InHands(s, d)'
      BY <1>5 DEF InHands
    <3> QED
      BY <1>5, <3>1, OneSweep
  <2>2. InHands(s, d) => s \in Holders(d)
    BY <1>5, OneSweep
  <2>3. CASE InHands(s, d)
    <3>1. taken'[d] = taken[d]
      BY <1>1, <1>4, <2>3 DEF Forget
    <3> QED
      BY <2>1, <2>2, <2>3, <3>1, ChanceMoves DEF SentInv
  <2>4. CASE d = j.id /\ ~InHands(s, d)
    <3>1. taken'[d] = taken[d] - 1
      BY <1>1, <1>4, <2>4 DEF Forget
    <3> QED
      BY <2>1, <3>1, ChanceMoves DEF SentInv
  <2>5. CASE d # j.id /\ ~InHands(s, d)
    <3>1. taken'[d] = taken[d] /\ d \notin ClaimedBy(s)
      BY <1>1, <1>4, <2>5 DEF Forget
    <3>2. d \notin Claimed' => d \notin Claimed
      BY <1>5, <3>1, OneSweep
    <3>3. Claimable(d)' => Claimable(d)
      BY <1>2, <3>2 DEF Claimable
    <3> QED
      BY <2>1, <3>1, <3>3, ChanceMoves DEF SentInv
  <2> QED
    BY <2>3, <2>4, <2>5
<1>7. ClaimsOnce'
  BY <1>3, <1>5 DEF ClaimsOnce
<1> QED
  BY <1>6, <1>7 DEF SentInv

LEMMA SentStep == DeliveryInv /\ SentInv /\ [DeliveryNext]_deliveryVars => SentInv'
<1> SUFFICES ASSUME DeliveryInv, SentInv, [DeliveryNext]_deliveryVars PROVE SentInv'
  OBVIOUS
<1>1. CASE UNCHANGED deliveryVars
  <2>1. sweep' = sweep /\ delivery' = delivery /\ taken' = taken
    BY <1>1 DEF deliveryVars
  <2>2. \A d \in Deliveries : Claimable(d)' => Claimable(d)
    BY <2>1, ClaimedSame DEF Claimable
  <2> QED
    BY <2>1, <2>2, SweepsRest
<1>2. CASE DeliveryNext
  BY <1>2, EventsSent, AdministrationSent, DueSent, ClaimSent, StoreSent, PostSent, DeathSent
     DEF DeliveryNext, Dispatch, Sweeping
<1> QED
  BY <1>1, <1>2

(* A delivery is accepted once at most, and once more for each outcome that *)
(* was lost, each claim that lapsed under its sweep and each retry asked    *)
(* for while it was being sent.                                             *)
THEOREM AcceptedOnce == DeliverySpec => []SentOnce
<1>1. ASSUME DeliveryInv, SentInv PROVE SentOnce
  <2> SUFFICES ASSUME NEW d \in Deliveries PROVE taken[d] <= 1
    BY DEF SentOnce
  <2>1. Cardinality(Holders(d)) \in Nat /\ taken[d] \in Int
    BY <1>1, HoldersFinite, FS_CardinalityType DEF DeliveryInv, DeliveryTypeOK
  <2>2. taken[d] + (Cardinality(Holders(d)) + IF Claimable(d) THEN 1 ELSE 0) <= 1
    BY <1>1 DEF SentInv, Chances
  <2> QED
    BY <2>1, <2>2
<1> QED
  BY AlwaysDeliveryInv, SentInitially, SentStep, <1>1, PTL DEF DeliverySpec

-----------------------------------------------------------------------------
(* RequestRepeats.                                                          *)

(* An answer tells of an effect that committed for the same body.           *)
Tells(row) == row.answer \in DOMAIN effects /\ effects[row.answer] = row.body

Honest ==
    /\ \A q \in Posts : post[q].at # "idle" => post[q].body \in Bodies
    /\ \A q \in Posts : post[q].at = "store" => Tells(post[q])
    /\ kept.valid => Tells(kept)
    /\ \A r \in replies : Tells(r)

(* While nothing overlapped, died or expired, one request is at work at     *)
(* most, and once there is an effect there is a key, or a request about to  *)
(* store it.                                                                *)
InOrder ==
    /\ \A p, q \in Posts : post[p].at # "idle" /\ post[q].at # "idle" => p = q
    /\ Len(effects) <= 1
    /\ \A q \in Posts : post[q].at = "run" => effects = <<>>
    /\ effects # <<>> => kept.valid \/ \E q \in Posts : post[q].at = "store"
    /\ \A q \in Posts : post[q].at = "store" => kept = NoKey

RepeatInv == RepeatTypeOK /\ Honest /\ (~broken => InOrder /\ (kept.valid \/ kept = NoKey))

(* Effects are only added: what was told stays true.                        *)
LEMMA TellsOn ==
    ASSUME effects \in Seq(Bodies), NEW b \in Bodies, effects' = Append(effects, b),
           NEW row, Tells(row)
    PROVE  row.answer \in DOMAIN effects' /\ effects'[row.answer] = row.body
BY DEF Tells

(* A request that has its answer.                                           *)
LEMMA AnswerRow ==
    ASSUME NEW B, NEW n \in Nat, NEW p \in [at : {"idle", "run", "store"}, body : B, answer : Nat],
           NEW row, row = [p EXCEPT !.at = "store", !.answer = n]
    PROVE  /\ row \in [at : {"idle", "run", "store"}, body : B, answer : Nat]
           /\ row.at = "store" /\ row.body = p.body /\ row.answer = n
OBVIOUS

LEMMA RepeatInitially == RepeatInit => RepeatInv
<1> SUFFICES ASSUME RepeatInit PROVE RepeatInv
  OBVIOUS
<1>1. effects = <<>> /\ effects \in Seq(Bodies) /\ Len(effects) = 0 /\ replies = {} /\ broken = FALSE
  BY DEF RepeatInit
<1>2. post = [q \in Posts |-> NoPost] /\ kept = NoKey
  BY DEF RepeatInit
<1>3. RepeatTypeOK
  BY <1>1, <1>2 DEF RepeatTypeOK, NoPost, NoKey
<1>4. Honest /\ InOrder
  BY <1>1, <1>2 DEF Honest, InOrder, NoPost, NoKey
<1> QED
  BY <1>2, <1>3, <1>4 DEF RepeatInv

LEMMA LookupKeeps ==
    ASSUME RepeatInv, NEW q \in Posts, NEW body \in Bodies, Lookup(q, body)
    PROVE  RepeatInv'
<1> DEFINE row == [at |-> "run", body |-> body, answer |-> 0]
           reply == [body |-> body, answer |-> kept.answer]
<1>1. /\ post \in [Posts -> [at : {"idle", "run", "store"}, body : Bodies \cup {NoBody}, answer : Nat]]
      /\ post[q].at = "idle" /\ UNCHANGED <<kept, effects>> /\ RepeatTypeOK /\ Honest
      /\ broken' \in BOOLEAN
      /\ ~broken' => ~broken /\ \A p \in Posts : post[p].at = "idle"
  BY DEF RepeatInv, RepeatTypeOK, Lookup
<1>2. CASE kept.valid /\ SameRequest(body)
  <2>1. replies' = replies \cup {reply} /\ UNCHANGED post
    BY <1>2 DEF Lookup
  <2>2. Tells(reply) /\ reply \in [body : Bodies, answer : Nat]
    BY <1>1, <1>2 DEF Honest, Tells, SameRequest, RepeatTypeOK
  <2> HIDE DEF reply
  <2> QED
    BY <1>1, <2>1, <2>2 DEF RepeatInv, RepeatTypeOK, Honest, InOrder, Tells
<1>3. CASE kept.valid /\ ~SameRequest(body)
  <2>1. UNCHANGED <<post, replies>>
    BY <1>3 DEF Lookup
  <2> QED
    BY <1>1, <2>1 DEF RepeatInv, RepeatTypeOK, Honest, InOrder, Tells
<1>4. CASE ~kept.valid
  <2>1. post' = [post EXCEPT ![q] = row] /\ UNCHANGED replies
    BY <1>4 DEF Lookup
  <2>2. RepeatTypeOK'
    BY <1>1, <2>1 DEF RepeatTypeOK
  <2>3. Honest'
    BY <1>1, <2>1 DEF Honest, Tells
  <2>4. ~broken' => InOrder' /\ (kept.valid \/ kept = NoKey)'
    BY <1>1, <1>4, <2>1 DEF RepeatInv, InOrder
  <2> QED
    BY <2>2, <2>3, <2>4 DEF RepeatInv
<1> QED
  BY <1>2, <1>3, <1>4

LEMMA RunKeeps ==
    ASSUME RepeatInv, NEW q \in Posts, Run(q)
    PROVE  RepeatInv'
<1>1. /\ post \in [Posts -> [at : {"idle", "run", "store"}, body : Bodies \cup {NoBody}, answer : Nat]]
      /\ post[q].at = "run" /\ post[q].body \in Bodies /\ UNCHANGED <<kept, broken>>
      /\ RepeatTypeOK /\ Honest /\ effects \in Seq(Bodies)
  BY DEF RepeatInv, RepeatTypeOK, Honest, Run
<1>2. CASE /\ effects' = Append(effects, post[q].body)
           /\ post' = [post EXCEPT ![q].at = "store", ![q].answer = Len(effects) + 1]
           /\ replies' = replies \cup {[body |-> post[q].body, answer |-> Len(effects) + 1]}
  <2> DEFINE reply == [body |-> post[q].body, answer |-> Len(effects) + 1]
             row == [post[q] EXCEPT !.at = "store", !.answer = Len(effects) + 1]
  <2>1. /\ effects' \in Seq(Bodies) /\ Len(effects') = Len(effects) + 1 /\ Len(effects) \in Nat
        /\ effects'[Len(effects) + 1] = post[q].body /\ Len(effects) + 1 \in DOMAIN effects'
    BY <1>1, <1>2
  <2>2. /\ reply \in [body : Bodies, answer : Nat] /\ reply.answer \in DOMAIN effects'
        /\ effects'[reply.answer] = reply.body
    BY <1>1, <2>1
  <2>3. /\ row \in [at : {"idle", "run", "store"}, body : Bodies \cup {NoBody}, answer : Nat]
        /\ row.at = "store" /\ row.body \in Bodies /\ row.answer \in DOMAIN effects'
        /\ effects'[row.answer] = row.body
    <3>1. Len(effects) + 1 \in Nat /\ post[q] \in [at : {"idle", "run", "store"}, body : Bodies \cup {NoBody}, answer : Nat]
      BY <1>1, <2>1
    <3>2. /\ row \in [at : {"idle", "run", "store"}, body : Bodies \cup {NoBody}, answer : Nat]
          /\ row.at = "store" /\ row.body = post[q].body /\ row.answer = Len(effects) + 1
      BY <3>1, AnswerRow
    <3> HIDE DEF row
    <3> QED
      BY <1>1, <2>1, <3>2
  <2>4. post' = [post EXCEPT ![q] = row] /\ replies' = replies \cup {reply}
    BY <1>1, <1>2
  <2> HIDE DEF row, reply
  <2>5. RepeatTypeOK'
    BY <1>1, <2>1, <2>2, <2>3, <2>4 DEF RepeatTypeOK
  <2>6. Honest'
    <3>1. \A r : Tells(r) => r.answer \in DOMAIN effects' /\ effects'[r.answer] = r.body
      BY <1>1, <1>2, TellsOn
    <3> QED
      BY <1>1, <2>2, <2>3, <2>4, <3>1 DEF Honest, Tells
  <2>7. ASSUME ~broken PROVE InOrder' /\ (kept.valid \/ kept = NoKey)'
    <3>1. InOrder /\ effects = <<>> /\ (kept.valid \/ kept = NoKey)
      BY <1>1, <2>7 DEF RepeatInv, InOrder
    <3>2. ~kept.valid
      BY <1>1, <3>1 DEF Honest, Tells
    <3>3. Len(effects') = 1
      BY <2>1, <3>1
    <3>4. \A p \in Posts : p # q => post'[p].at = "idle"
      BY <1>1, <2>4, <3>1 DEF InOrder
    <3>5. post'[q].at = "store"
      BY <1>1, <2>3, <2>4
    <3> QED
      BY <1>1, <3>1, <3>2, <3>3, <3>4, <3>5 DEF InOrder
  <2> QED
    BY <1>1, <2>5, <2>6, <2>7 DEF RepeatInv
<1>3. CASE post' = [post EXCEPT ![q] = NoPost] /\ UNCHANGED <<effects, replies>>
  <2>1. RepeatTypeOK'
    BY <1>1, <1>3 DEF RepeatTypeOK, NoPost
  <2>2. Honest'
    BY <1>1, <1>3 DEF Honest, Tells, NoPost
  <2>3. ~broken => InOrder' /\ (kept.valid \/ kept = NoKey)'
    BY <1>1, <1>3 DEF RepeatInv, InOrder, NoPost
  <2> QED
    BY <1>1, <2>1, <2>2, <2>3 DEF RepeatInv
<1> QED
  BY <1>2, <1>3 DEF Run, Storable

LEMMA StoreKeeps ==
    ASSUME RepeatInv, NEW q \in Posts, StoreAnswer(q)
    PROVE  RepeatInv'
<1> DEFINE row == [body |-> post[q].body, answer |-> post[q].answer, valid |-> TRUE]
<1>1. /\ post \in [Posts -> [at : {"idle", "run", "store"}, body : Bodies \cup {NoBody}, answer : Nat]]
      /\ post[q].at = "store" /\ Tells(post[q]) /\ RepeatTypeOK /\ Honest
      /\ UNCHANGED <<effects, replies, broken>>
      /\ post' = [post EXCEPT ![q] = NoPost]
      /\ kept' = IF kept = NoKey THEN row ELSE kept
  BY DEF RepeatInv, RepeatTypeOK, Honest, StoreAnswer
<1>2. row \in [body : Bodies \cup {NoBody}, answer : Nat, valid : BOOLEAN] /\ Tells(row) /\ row.valid
  BY <1>1 DEF Tells
<1> HIDE DEF row
<1>3. RepeatTypeOK'
  BY <1>1, <1>2 DEF RepeatTypeOK, NoPost
<1>4. Honest'
  BY <1>1, <1>2 DEF Honest, Tells, NoPost
<1>5. ~broken => InOrder' /\ (kept.valid \/ kept = NoKey)'
  BY <1>1, <1>2 DEF RepeatInv, InOrder, NoPost
<1> QED
  BY <1>1, <1>3, <1>4, <1>5 DEF RepeatInv

LEMMA RepeatStep == RepeatInv /\ [RepeatNext]_repeatVars => RepeatInv'
<1> SUFFICES ASSUME RepeatInv, [RepeatNext]_repeatVars PROVE RepeatInv'
  OBVIOUS
<1>1. CASE KeyExpires
  <2>1. kept' \in [body : Bodies \cup {NoBody}, answer : Nat, valid : BOOLEAN] /\ ~kept'.valid /\ broken'
    BY <1>1 DEF RepeatInv, RepeatTypeOK, KeyExpires
  <2> QED
    BY <1>1, <2>1 DEF RepeatInv, RepeatTypeOK, Honest, Tells, KeyExpires
<1>2. CASE Cleanup
  <2>1. kept' = NoKey /\ UNCHANGED <<post, effects, replies, broken>> /\ kept # NoKey /\ ~kept.valid
    BY <1>2 DEF Cleanup
  <2>2. broken
    BY <2>1 DEF RepeatInv, RepeatTypeOK
  <2> QED
    BY <2>1, <2>2 DEF RepeatInv, RepeatTypeOK, Honest, Tells, NoKey
<1>3. ASSUME NEW q \in Posts, ServerDies(q) PROVE RepeatInv'
  BY <1>3 DEF RepeatInv, RepeatTypeOK, Honest, Tells, ServerDies, NoPost
<1>4. CASE UNCHANGED repeatVars
  BY <1>4 DEF repeatVars, RepeatInv, RepeatTypeOK, Honest, InOrder, Tells
<1> QED
  BY <1>1, <1>2, <1>3, <1>4, LookupKeeps, RunKeeps, StoreKeeps DEF RepeatNext

(* Every row keeps its type, for every number of requests.                  *)
THEOREM RepeatsTyped == RepeatSpec => []RepeatTypeOK
<1>1. RepeatInv => RepeatTypeOK
  BY DEF RepeatInv
<1> QED
  BY RepeatInitially, RepeatStep, <1>1, PTL DEF RepeatSpec

(* A success told under a key is an effect of the very request that was     *)
(* sent, and there is one as long as nothing overlaps, dies or expires.     *)
THEOREM RepliesTrue == RepeatSpec => []RepliesAgree
<1>1. RepeatInv => RepliesAgree
  BY DEF RepeatInv, Honest, InOrder, Tells, RepliesAgree
<1> QED
  BY RepeatInitially, RepeatStep, <1>1, PTL DEF RepeatSpec

-----------------------------------------------------------------------------
(* Emergencies.                                                             *)

LogNames    == (AlertStatus \cup {"escalated"}) \ {"none"}
AlertRows   == [status : AlertStatus, level : 0 .. LastLevel, raised : 0 .. LastMoment, log : Seq(LogNames)]
CaseStatus  == {"none", "new", "assigned", "in_progress", "resolved", "closed", "cancelled"}
CaseRows    == [status : CaseStatus, cases : Nat]
RaiseOp     == [kind : {"raise"}, of : Alerts]
CaseOp      == [kind : {"case"}, of : Alerts, to : CaseStatus]

AlertsTyped ==
    /\ alert \in [Alerts -> AlertRows] /\ incident \in [Alerts -> CaseRows]
    /\ escalation \subseteq Alerts /\ moment \in 0 .. LastMoment
    /\ ops \in [Requests -> {NoOp} \cup RaiseOp \cup CaseOp]

(* How far a timeline has come: nothing in it is past the status.           *)
Top == [none |-> 0, raised |-> 1, acknowledged |-> 2, responding |-> 3, resolved |-> 4, cancelled |-> 4]

Ordered(log) ==
    \A i \in 1 .. Len(log) :
        /\ i = 1 <=> log[i] = "raised"
        /\ log[i] = "responding" => \E j \in 1 .. i : log[j] = "acknowledged"
        /\ \A j \in 1 .. i - 1 : Rank[log[j]] < Rank[log[i]] \/ (log[j] = "escalated" /\ log[i] = "escalated")

Within(log, top) == \A i \in 1 .. Len(log) : Rank[log[i]] <= top

Says(log, x) == \E i \in 1 .. Len(log) : log[i] = x

Timeline(row) ==
    /\ Ordered(row.log) /\ Within(row.log, Top[row.status])
    /\ row.status # "none" => Len(row.log) > 0
    /\ row.status = "acknowledged" => Says(row.log, "acknowledged")

(* One incident for each alert, and the rows the sweep holds wait for an    *)
(* answer.                                                                  *)
Raised(a) ==
    /\ incident[a].cases = IF alert[a].status = "none" THEN 0 ELSE 1
    /\ alert[a].status = "none" => alert[a] = NoAlert
    /\ a \in escalation => Unanswered(a)

(* What a handler of an incident writes is no step back behind its answer.  *)
CaseRemembers(op) ==
    op.kind = "case" =>
        /\ op.to # "new"
        /\ op.to = "assigned" => incident[op.of].status \in {"new", "assigned"}

AnswersFollowed ==
    /\ \A p, q \in Requests : ops[p] # NoOp /\ ops[q] # NoOp => p = q
    /\ \A q \in Requests : CaseRemembers(ops[q])
    /\ \A a \in Alerts : IncidentFollows(a)

AlertInv ==
    /\ AlertsTyped
    /\ \A a \in Alerts : Timeline(alert[a]) /\ Raised(a)
    /\ serial => AnswersFollowed

LEMMA RankIs ==
    /\ Rank["raised"] = 0 /\ Rank["escalated"] = 1 /\ Rank["acknowledged"] = 2
    /\ Rank["responding"] = 3 /\ Rank["resolved"] = 4 /\ Rank["cancelled"] = 4
    /\ \A x \in LogNames : Rank[x] \in 0 .. 4
BY DEF Rank, LogNames, AlertStatus

LEMMA TopIs ==
    /\ Top["none"] = 0 /\ Top["raised"] = 1 /\ Top["acknowledged"] = 2
    /\ Top["responding"] = 3 /\ Top["resolved"] = 4 /\ Top["cancelled"] = 4
BY DEF Top

(* What happens next goes to the end of the timeline.                       *)
LEMMA TimelineGrows ==
    ASSUME NEW l \in Seq(LogNames), NEW x \in LogNames, x # "raised", Ordered(l), Len(l) > 0,
           \A i \in 1 .. Len(l) : Rank[l[i]] < Rank[x] \/ (l[i] = "escalated" /\ x = "escalated"),
           x = "responding" => Says(l, "acknowledged")
    PROVE  /\ Append(l, x) \in Seq(LogNames) /\ Ordered(Append(l, x)) /\ Len(Append(l, x)) > 0
           /\ Says(Append(l, x), x)
           /\ \A top \in Nat : Within(l, top) /\ Rank[x] <= top => Within(Append(l, x), top)
<1> DEFINE m == Append(l, x)
           n == Len(l)
<1>1. /\ n \in Nat /\ Len(m) = n + 1 /\ m \in Seq(LogNames) /\ m[n + 1] = x
      /\ \A i \in 1 .. n : m[i] = l[i]
  OBVIOUS
<1>2. \A i \in 1 .. n + 1 : i \in 1 .. n \/ i = n + 1
  BY <1>1
<1>3. n > 0
  OBVIOUS
<1> HIDE DEF m, n
<1>4. Ordered(l) /\ (x = "responding" => \E i \in 1 .. n : l[i] = "acknowledged")
      /\ \A i \in 1 .. n : Rank[l[i]] < Rank[x] \/ (l[i] = "escalated" /\ x = "escalated")
  BY DEF n, Says
<1>5. ASSUME NEW i \in 1 .. n + 1
      PROVE  /\ i = 1 <=> m[i] = "raised"
             /\ m[i] = "responding" => \E j \in 1 .. i : m[j] = "acknowledged"
             /\ \A j \in 1 .. i - 1 : Rank[m[j]] < Rank[m[i]] \/ (m[j] = "escalated" /\ m[i] = "escalated")
  <2>1. CASE i \in 1 .. n
    <3>1. /\ i = 1 <=> l[i] = "raised"
          /\ l[i] = "responding" => \E j \in 1 .. i : l[j] = "acknowledged"
          /\ \A j \in 1 .. i - 1 : Rank[l[j]] < Rank[l[i]] \/ (l[j] = "escalated" /\ l[i] = "escalated")
      BY <1>4, <2>1 DEF Ordered, n
    <3>2. \A j \in 1 .. i : j \in 1 .. n /\ m[j] = l[j]
      BY <1>1, <2>1
    <3> QED
      BY <1>1, <2>1, <3>1, <3>2
  <2>2. CASE i = n + 1
    <3>1. \A j \in 1 .. i - 1 : j \in 1 .. n /\ m[j] = l[j]
      BY <1>1, <2>2
    <3>2. \A j \in 1 .. n : j \in 1 .. i /\ m[j] = l[j]
      BY <1>1, <2>2
    <3>3. m[i] = x /\ i # 1 /\ x # "raised"
      BY <1>1, <1>3, <2>2
    <3> QED
      BY <1>4, <3>1, <3>2, <3>3
  <2> QED
    BY <1>2, <2>1, <2>2
<1>6. Ordered(m)
  BY <1>1, <1>5 DEF Ordered
<1>7. Says(m, x) /\ Len(m) > 0
  BY <1>1 DEF Says
<1>8. ASSUME NEW top \in Nat, Within(l, top), Rank[x] <= top PROVE Within(m, top)
  BY <1>1, <1>2, <1>8 DEF Within, n
<1> QED
  BY <1>1, <1>6, <1>7, <1>8 DEF m
LEMMA AnswerIs ==
    ASSUME NEW action \in DOMAIN AnswerRule, NEW status \in AnswerRule[action].from
    PROVE  \/ action = "acknowledge" /\ status = "raised" /\ AnswerRule[action].to = "acknowledged"
           \/ action = "respond" /\ status \in {"raised", "acknowledged"} /\ AnswerRule[action].to = "responding"
           \/ action = "resolve" /\ status \in {"raised", "acknowledged", "responding"} /\ AnswerRule[action].to = "resolved"
           \/ action = "cancel" /\ status \in {"raised", "acknowledged"} /\ AnswerRule[action].to = "cancelled"
BY DEF AnswerRule

LEMMA TwoInOrder ==
    ASSUME NEW x \in LogNames, NEW y \in LogNames
    PROVE  <<x>> \o <<y>> = <<x, y>> /\ <<>> \o <<y>> = <<y>>
<1>1. <<x>> \in Seq(LogNames) /\ <<y>> \in Seq(LogNames) /\ <<x, y>> \in Seq(LogNames)
  OBVIOUS
<1>2. Len(<<x>>) = 1 /\ Len(<<y>>) = 1 /\ Len(<<x, y>>) = 2
  OBVIOUS
<1>3. PICK u, v, w : u = <<x>> /\ v = <<y>> /\ w = <<x, y>>
  OBVIOUS
<1>4. /\ u \in Seq(LogNames) /\ v \in Seq(LogNames) /\ w \in Seq(LogNames)
      /\ Len(u) = 1 /\ Len(v) = 1 /\ Len(w) = 2
      /\ u[1] = x /\ v[1] = y /\ w[1] = x /\ w[2] = y
  BY <1>1, <1>2, <1>3
<1>5. /\ u \o v \in Seq(LogNames) /\ Len(u \o v) = Len(u) + Len(v)
      /\ \A i \in 1 .. Len(u) + Len(v) : (u \o v)[i] = IF i <= Len(u) THEN u[i] ELSE v[i - Len(u)]
  BY <1>4, ConcatProperties, Zenon
<1>6. PICK z : z = u \o v
  OBVIOUS
<1>7. z \in Seq(LogNames) /\ Len(z) = 2 /\ z[1] = x /\ z[2] = y
  BY <1>4, <1>5, <1>6
<1>8. \A i \in 1 .. Len(z) : z[i] = w[i]
  BY <1>4, <1>7
<1>9. z = w
  BY <1>4, <1>7, <1>8, SeqEqual, Zenon
<1> QED
  BY <1>1, <1>3, <1>6, <1>9, ConcatEmptySeq

(* An answer goes to the end of the timeline, after the acknowledgement it  *)
(* implies.                                                                 *)
LEMMA AnswerExtends ==
    ASSUME NEW row \in AlertRows, Timeline(row), NEW action \in DOMAIN AnswerRule,
           row.status \in AnswerRule[action].from
    PROVE  LET log == row.log \o Logged(row, action)
               to  == AnswerRule[action].to
           IN /\ log \in Seq(LogNames) /\ Ordered(log) /\ Within(log, Top[to]) /\ Len(log) > 0
              /\ to = "acknowledged" => Says(log, "acknowledged")
<1> DEFINE to == AnswerRule[action].to
           log == row.log \o Logged(row, action)
<1>0. PICK l, status : l \in Seq(LogNames) /\ l = row.log /\ status = row.status
  BY DEF AlertRows
<1>1. /\ Ordered(l) /\ Within(l, Top[status]) /\ (status # "none" => Len(l) > 0)
      /\ status = "acknowledged" => Says(l, "acknowledged")
  BY <1>0 DEF Timeline
<1>2. \/ action = "acknowledge" /\ status = "raised" /\ to = "acknowledged"
      \/ action = "respond" /\ status \in {"raised", "acknowledged"} /\ to = "responding"
      \/ action = "resolve" /\ status \in {"raised", "acknowledged", "responding"} /\ to = "resolved"
      \/ action = "cancel" /\ status \in {"raised", "acknowledged"} /\ to = "cancelled"
  BY <1>0, AnswerIs
<1>3. Len(l) > 0 /\ to \in LogNames /\ to # "raised" /\ to # "escalated"
  BY <1>1, <1>2 DEF LogNames, AlertStatus
<1>4. l \in Seq(LogNames) /\ \A i \in 1 .. Len(l) : l[i] \in LogNames
  BY <1>0
<1>5. log = IF action = "respond" /\ status = "raised" THEN Append(Append(l, "acknowledged"), "responding")
            ELSE Append(l, to)
  <2>1. Logged(row, action) = IF action = "respond" /\ status = "raised" THEN <<"acknowledged", to>> ELSE <<to>>
    <3>1. "acknowledged" \in LogNames
      BY DEF LogNames, AlertStatus
    <3>2. <<"acknowledged">> \o <<to>> = <<"acknowledged", to>> /\ <<>> \o <<to>> = <<to>>
      <4> HIDE DEF to
      <4> QED
        BY <1>3, <3>1, TwoInOrder
    <3> QED
      BY <1>0, <3>2 DEF Logged
  <2> HIDE DEF to
  <2>2. l \o <<to>> = Append(l, to) /\ l \o <<"acknowledged", to>> = Append(Append(l, "acknowledged"), to)
    BY <1>3
  <2> QED
    BY <1>0, <1>2, <2>1, <2>2
<1>6. CASE action = "respond" /\ status = "raised"
  <2>1. \A i \in 1 .. Len(l) : Rank[l[i]] < Rank["acknowledged"]
    BY <1>1, <1>4, <1>6, RankIs, TopIs DEF Within
  <2>2. "acknowledged" \in LogNames /\ "responding" \in LogNames
    BY DEF LogNames, AlertStatus
  <2> DEFINE k == Append(l, "acknowledged")
  <2>3. /\ k \in Seq(LogNames) /\ Ordered(k) /\ Len(k) > 0 /\ Says(k, "acknowledged")
        /\ Within(k, 2)
    <3>1. Within(l, 2)
      BY <1>4, <2>1, RankIs DEF Within
    <3> QED
      BY <1>1, <1>3, <1>4, <2>1, <2>2, <3>1, RankIs, TimelineGrows
  <2> HIDE DEF k
  <2>4. \A i \in 1 .. Len(k) : Rank[k[i]] < Rank["responding"]
    <3>1. \A i \in 1 .. Len(k) : k[i] \in LogNames
      BY <2>3
    <3> QED
      BY <2>3, <3>1, RankIs DEF Within
  <2>5. /\ Append(k, "responding") \in Seq(LogNames) /\ Ordered(Append(k, "responding"))
        /\ Len(Append(k, "responding")) > 0 /\ Within(Append(k, "responding"), 3)
    <3>1. Within(k, 3)
      BY <2>3, <2>4, RankIs DEF Within
    <3> QED
      BY <2>2, <2>3, <2>4, <3>1, RankIs, TimelineGrows
  <2> QED
    BY <1>2, <1>5, <1>6, <2>5, TopIs DEF k
<1>7. CASE ~(action = "respond" /\ status = "raised")
  <2> HIDE DEF to
  <2>1. \A i \in 1 .. Len(l) : Rank[l[i]] < Rank[to]
    <3>1. \A i \in 1 .. Len(l) : Rank[l[i]] <= Top[status]
      BY <1>1 DEF Within
    <3>2. Top[status] < Rank[to] /\ Top[status] \in Nat /\ Rank[to] \in Nat
      BY <1>2, <1>7, RankIs, TopIs
    <3>3. \A i \in 1 .. Len(l) : Rank[l[i]] \in Nat
      BY <1>4, RankIs
    <3> QED
      BY <3>1, <3>2, <3>3
  <2>2. to = "responding" => Says(l, "acknowledged")
    BY <1>1, <1>2, <1>7
  <2>3. Top[to] = Rank[to] /\ Top[to] \in Nat
    BY <1>2, RankIs, TopIs
  <2>4. Within(l, Top[to])
    <3>1. \A i \in 1 .. Len(l) : Rank[l[i]] \in Nat
      BY <1>4, RankIs
    <3> QED
      BY <2>1, <2>3, <3>1 DEF Within
  <2>5. /\ Append(l, to) \in Seq(LogNames) /\ Ordered(Append(l, to)) /\ Len(Append(l, to)) > 0
        /\ Says(Append(l, to), to) /\ Within(Append(l, to), Top[to])
    BY <1>1, <1>3, <1>4, <2>1, <2>2, <2>3, <2>4, TimelineGrows
  <2>6. log = Append(l, to)
    BY <1>5, <1>7
  <2> HIDE DEF log
  <2> QED
    BY <2>5, <2>6 DEF to, log
<1> QED
  BY <1>6, <1>7
LEMMA AlertsStart == ASSUME EmergencyInit PROVE AlertInv
<1>0. LastLevel \in Nat /\ LastMoment \in Nat
  BY EmergencyAssumption
<1>1. /\ alert = [a \in Alerts |-> NoAlert] /\ incident = [a \in Alerts |-> NoIncident]
      /\ escalation = {} /\ moment = 0 /\ ops = [q \in Requests |-> NoOp]
  BY DEF EmergencyInit, EmergencyIdle, TxInit
<1>2. NoAlert \in AlertRows /\ NoIncident \in CaseRows
  <2>1. <<>> \in Seq(LogNames)
    OBVIOUS
  <2> QED
    BY <1>0, <2>1 DEF NoAlert, NoIncident, AlertRows, CaseRows, AlertStatus, CaseStatus
<1>3. AlertsTyped
  BY <1>0, <1>1, <1>2 DEF AlertsTyped
<1>4. Timeline(NoAlert)
  <2>1. NoAlert.log = <<>> /\ NoAlert.status = "none" /\ Len(<<>>) = 0
    BY DEF NoAlert
  <2> QED
    BY <2>1 DEF Timeline, Ordered, Within
<1>5. \A a \in Alerts : Timeline(alert[a]) /\ Raised(a)
  BY <1>1, <1>4 DEF Raised, NoAlert, NoIncident
<1>6. AnswersFollowed
  BY <1>1 DEF AnswersFollowed, CaseRemembers, NoOp, IncidentFollows, NoAlert
<1> QED
  BY <1>3, <1>5, <1>6 DEF AlertInv

(* What a step keeps of alerts and incidents it does not touch.             *)
LEMMA AlertsSame ==
    ASSUME AlertInv, UNCHANGED <<alert, incident>>, escalation' \subseteq escalation
    PROVE  /\ \A a \in Alerts : Timeline(alert[a])' /\ Raised(a)'
           /\ serial => \A a \in Alerts : IncidentFollows(a)'
<1>1. \A a \in Alerts : Timeline(alert'[a]) /\ Raised(a)'
  BY DEF AlertInv, Raised, Unanswered
<1>2. serial => \A a \in Alerts : IncidentFollows(a)'
  BY DEF AlertInv, AnswersFollowed, IncidentFollows
<1> QED
  BY <1>1, <1>2 DEF Timeline, Ordered, Within, Says

(* No handler is at work, or the one that was has ended.                    *)
LEMMA AlertsRest ==
    ASSUME AlertInv, serial, NEW q \in Requests, ops[q] # NoOp, End(q)
    PROVE  /\ \A r, p \in Requests : ops'[r] # NoOp /\ ops'[p] # NoOp => r = p
           /\ \A r \in Requests : CaseRemembers(ops[r])'
<1>1. \A r \in Requests : ops'[r] = NoOp
  BY DEF AlertInv, AlertsTyped, AnswersFollowed, End
<1> QED
  BY <1>1 DEF CaseRemembers, NoOp

LEMMA AlertsEnd ==
    ASSUME AlertInv, NEW q \in Requests, End(q)
    PROVE  ops' \in [Requests -> {NoOp} \cup RaiseOp \cup CaseOp]
BY DEF AlertInv, AlertsTyped, End

LEMMA AlertsCalm ==
    ASSUME serial, Calm, ops' = ops
    PROVE  /\ \A r, p \in Requests : ops'[r] # NoOp /\ ops'[p] # NoOp => r = p
           /\ \A r \in Requests : CaseRemembers(ops[r])'
<1>1. \A r \in Requests : ops'[r] = NoOp
  BY DEF Calm
<1> QED
  BY <1>1 DEF CaseRemembers, NoOp

LEMMA AlertsBegin ==
    ASSUME AlertInv, NEW q \in Requests, NEW op \in RaiseOp \cup CaseOp, Begin(q, op), CaseRemembers(op),
           UNCHANGED <<alert, incident, escalation, moment, serial>>
    PROVE  AlertInv'
<1>1. ops' = [ops EXCEPT ![q] = op] /\ ops \in [Requests -> {NoOp} \cup RaiseOp \cup CaseOp]
  BY DEF Begin, Start, AlertInv, AlertsTyped
<1>2. AlertsTyped'
  BY <1>1 DEF AlertInv, AlertsTyped
<1>3. ASSUME serial PROVE AnswersFollowed'
  <2>1. ops'[q] = op /\ \A p \in Requests \ {q} : ops'[p] = NoOp
    BY <1>1, <1>3 DEF Begin, Turn
  <2>2. CaseRemembers(ops[q])'
    BY <2>1 DEF CaseRemembers
  <2>3. \A p \in Requests \ {q} : CaseRemembers(ops[p])'
    BY <2>1 DEF CaseRemembers, NoOp
  <2>4. \A a \in Alerts : IncidentFollows(a)'
    BY <1>3, AlertsSame
  <2> QED
    BY <2>1, <2>2, <2>3, <2>4 DEF AnswersFollowed
<1> QED
  BY <1>2, <1>3, AlertsSame DEF AlertInv
(* The timeline of one alert changes, or of each as said.                   *)
LEMMA AlertsRaised ==
    ASSUME AlertInv, NEW q \in Requests, RaiseCommit(q)
    PROVE  AlertInv'
<1> DEFINE a == ops[q].of
           row == [status |-> "raised", level |-> 0, raised |-> moment, log |-> <<"raised">>]
<1>0. LastLevel \in Nat /\ LastMoment \in Nat
  BY EmergencyAssumption
<1>1. /\ ops[q].kind = "raise" /\ End(q) /\ ops[q] # NoOp /\ UNCHANGED <<escalation, moment, serial>>
      /\ a \in Alerts
  BY DEF RaiseCommit, NoOp, AlertInv, AlertsTyped, RaiseOp, CaseOp
<1>2. CASE ~IsNew(a)
  <2>1. UNCHANGED <<alert, incident>>
    BY <1>2 DEF RaiseCommit
  <2>2. AlertsTyped'
    BY <1>1, <2>1, AlertsEnd DEF AlertInv, AlertsTyped
  <2> QED
    BY <1>1, <2>1, <2>2, AlertsSame, AlertsRest DEF AlertInv, AnswersFollowed
<1>3. CASE IsNew(a)
  <2>1. /\ alert' = [alert EXCEPT ![a] = row]
        /\ incident' = [incident EXCEPT ![a] = [status |-> "new", cases |-> @.cases + 1]]
        /\ alert[a] = NoAlert
    BY <1>3 DEF RaiseCommit, IsNew
  <2>2. /\ alert \in [Alerts -> AlertRows] /\ incident \in [Alerts -> CaseRows] /\ moment \in 0 .. LastMoment
        /\ escalation \subseteq Alerts
    BY DEF AlertInv, AlertsTyped
  <2>3. alert[a].status = "none"
    BY <2>1 DEF NoAlert
  <2>4. incident[a].cases = 0 /\ a \notin escalation
    BY <1>1, <2>3 DEF AlertInv, Raised, Unanswered
  <2>5. row \in AlertRows /\ Timeline(row)
    <3>1. <<"raised">> \in Seq(LogNames) /\ Len(<<"raised">>) = 1 /\ <<"raised">>[1] = "raised"
      BY DEF LogNames, AlertStatus
    <3> DEFINE l == <<"raised">>
    <3>2. l \in Seq(LogNames) /\ Len(l) = 1 /\ l[1] = "raised"
      BY <3>1
    <3>3. row.status = "raised" /\ row.log = l
      OBVIOUS
    <3>4. row \in AlertRows
      BY <1>0, <2>2, <3>1 DEF AlertRows, AlertStatus
    <3> HIDE DEF l, row
    <3>5. \A i \in 1 .. Len(l) : i = 1 /\ l[i] = "raised"
      BY <3>2
    <3>6. Ordered(l)
      BY <3>2, <3>5 DEF Ordered
    <3>7. Within(l, 1)
      BY <3>5, RankIs DEF Within
    <3>8. Ordered(row.log) /\ Within(row.log, Top[row.status]) /\ Len(row.log) > 0
      <4>1. Top[row.status] = 1
        BY <3>3, TopIs
      <4>2. Len(row.log) = 1
        BY <3>2, <3>3
      <4>3. Ordered(row.log) /\ Within(row.log, 1)
        BY <3>3, <3>6, <3>7, Zenon
      <4> QED
        BY <4>1, <4>2, <4>3
    <3>9. row.status # "acknowledged"
      BY <3>3
    <3> QED
      BY <3>4, <3>8, <3>9 DEF Timeline
  <2>6. row.status = "raised"
    OBVIOUS
  <2> HIDE DEF row, a
  <2>7. /\ alert'[a] = row /\ incident'[a] = [status |-> "new", cases |-> 1]
        /\ \A b \in Alerts \ {a} : alert'[b] = alert[b] /\ incident'[b] = incident[b]
    BY <1>1, <2>1, <2>2, <2>4
  <2>8. alert' \in [Alerts -> AlertRows] /\ incident' \in [Alerts -> CaseRows]
    <3>1. [status |-> "new", cases |-> 1] \in CaseRows
      BY DEF CaseRows, CaseStatus
    <3> QED
      BY <1>1, <2>1, <2>2, <2>4, <2>5, <3>1
  <2>9. AlertsTyped'
    BY <1>1, <2>2, <2>8, AlertsEnd DEF AlertsTyped
  <2>10. ASSUME NEW b \in Alerts PROVE Timeline(alert'[b]) /\ Raised(b)'
    <3>1. CASE b = a
      BY <1>1, <2>4, <2>5, <2>6, <2>7, <3>1 DEF Raised
    <3>2. CASE b # a
      BY <1>1, <2>7, <3>2 DEF AlertInv, Raised, Unanswered
    <3> QED
      BY <3>1, <3>2
  <2>11. \A b \in Alerts : Timeline(alert[b])' /\ Raised(b)'
    BY <2>10 DEF Timeline, Ordered, Within, Says
  <2>12. ASSUME serial, NEW b \in Alerts PROVE IncidentFollows(b)'
    <3>1. CASE b = a
      BY <2>6, <2>7, <3>1 DEF IncidentFollows
    <3>2. CASE b # a
      BY <2>7, <2>12, <3>2 DEF AlertInv, AnswersFollowed, IncidentFollows
    <3> QED
      BY <3>1, <3>2
  <2> QED
    BY <1>1, <2>9, <2>11, <2>12, AlertsRest DEF AlertInv, AnswersFollowed
<1> QED
  BY <1>2, <1>3

LEMMA AlertsAnswered ==
    ASSUME AlertInv, NEW a \in Alerts, NEW action \in DOMAIN AnswerRule, Answer(a, action)
    PROVE  AlertInv'
<1> DEFINE to  == AnswerRule[action].to
           log == alert[a].log \o Logged(alert[a], action)
           case == IncidentAfter(incident[a].status, action)
<1>1. /\ Calm /\ a \notin escalation /\ alert[a].status \in AnswerRule[action].from
      /\ alert' = [alert EXCEPT ![a].status = to, ![a].log = log]
      /\ incident' = [incident EXCEPT ![a].status = case]
      /\ UNCHANGED <<escalation, moment, ops, serial>>
  BY DEF Answer, Free
<1>2. /\ alert \in [Alerts -> AlertRows] /\ incident \in [Alerts -> CaseRows]
      /\ alert[a] \in AlertRows /\ incident[a].status \in CaseStatus /\ Timeline(alert[a]) /\ Raised(a)
  BY DEF AlertInv, AlertsTyped, CaseRows
<1>3. /\ log \in Seq(LogNames) /\ Ordered(log) /\ Within(log, Top[to]) /\ Len(log) > 0
      /\ to = "acknowledged" => Says(log, "acknowledged")
  BY <1>1, <1>2, AnswerExtends
<1>4. \/ action = "acknowledge" /\ alert[a].status = "raised" /\ to = "acknowledged"
      \/ action = "respond" /\ alert[a].status \in {"raised", "acknowledged"} /\ to = "responding"
      \/ action = "resolve" /\ alert[a].status \in {"raised", "acknowledged", "responding"} /\ to = "resolved"
      \/ action = "cancel" /\ alert[a].status \in {"raised", "acknowledged"} /\ to = "cancelled"
  BY <1>1, AnswerIs
<1>5. case \in CaseStatus
  BY <1>2 DEF IncidentAfter, CaseStatus
<1>6. /\ to \in {"acknowledged", "responding"} => case # "new"
      /\ to \in {"responding", "cancelled"} => case \notin {"new", "assigned"}
  BY <1>4 DEF IncidentAfter
<1> HIDE DEF to, log, case
<1>7. /\ alert'[a].status = to /\ alert'[a].log = log /\ alert'[a] \in AlertRows
      /\ incident'[a].status = case /\ incident'[a].cases = incident[a].cases /\ incident'[a] \in CaseRows
      /\ \A b \in Alerts \ {a} : alert'[b] = alert[b] /\ incident'[b] = incident[b]
  <2>1. to \in AlertStatus /\ to # "none"
    BY <1>4 DEF AlertStatus
  <2>2. PICK r, c : r = alert[a] /\ c = incident[a]
    OBVIOUS
  <2>3. /\ alert'[a] = [r EXCEPT !.status = to, !.log = log] /\ incident'[a] = [c EXCEPT !.status = case]
        /\ \A b \in Alerts \ {a} : alert'[b] = alert[b] /\ incident'[b] = incident[b]
    BY <1>1, <1>2, <2>2
  <2>4. r \in AlertRows /\ c \in CaseRows
    BY <1>2, <2>2
  <2> QED
    BY <1>3, <1>5, <2>1, <2>2, <2>3, <2>4 DEF AlertRows, CaseRows
<1>8. AlertsTyped'
  <2>1. alert' \in [Alerts -> AlertRows] /\ incident' \in [Alerts -> CaseRows]
    BY <1>1, <1>2, <1>7
  <2> QED
    BY <1>1, <2>1 DEF AlertInv, AlertsTyped
<1>9. ASSUME NEW b \in Alerts PROVE Timeline(alert'[b]) /\ Raised(b)'
  <2>1. CASE b = a
    <3>1. to # "none" /\ alert[a].status # "none"
      BY <1>4
    <3> QED
      BY <1>1, <1>2, <1>3, <1>7, <2>1, <3>1 DEF Raised, Timeline
  <2>2. CASE b # a
    BY <1>1, <1>7, <2>2 DEF AlertInv, Raised, Unanswered
  <2> QED
    BY <2>1, <2>2
<1>10. \A b \in Alerts : Timeline(alert[b])' /\ Raised(b)'
  BY <1>9 DEF Timeline, Ordered, Within, Says
<1>11. ASSUME serial, NEW b \in Alerts PROVE IncidentFollows(b)'
  <2>1. CASE b = a
    BY <1>6, <1>7, <2>1 DEF IncidentFollows
  <2>2. CASE b # a
    BY <1>7, <1>11, <2>2 DEF AlertInv, AnswersFollowed, IncidentFollows
  <2> QED
    BY <2>1, <2>2
<1> QED
  BY <1>1, <1>8, <1>10, <1>11, AlertsCalm DEF AlertInv, AnswersFollowed
(* The sweep escalates what it holds and nobody answered.                   *)
LEMMA EscalateTimeline ==
    ASSUME NEW row \in AlertRows, Timeline(row), row.status = "raised"
    PROVE  LET log == Append(row.log, "escalated")
           IN log \in Seq(LogNames) /\ Ordered(log) /\ Within(log, Top["raised"]) /\ Len(log) > 0
<1>0. PICK l : l = row.log
  OBVIOUS
<1>1. l \in Seq(LogNames) /\ Ordered(l) /\ Len(l) > 0 /\ Within(l, 1)
  BY <1>0, TopIs DEF Timeline, AlertRows
<1>2. \A i \in 1 .. Len(l) : l[i] \in LogNames
  BY <1>1
<1>3. \A i \in 1 .. Len(l) : Rank[l[i]] < Rank["escalated"] \/ (l[i] = "escalated" /\ "escalated" = "escalated")
  <2>1. \A i \in 1 .. Len(l) : Rank[l[i]] \in 0 .. 1
    BY <1>1, <1>2, RankIs DEF Within
  <2>2. \A x \in LogNames : Rank[x] = 1 => x = "escalated"
    BY DEF LogNames, AlertStatus, Rank
  <2> QED
    BY <1>2, <2>1, <2>2, RankIs
<1>4. "escalated" \in LogNames
  BY DEF LogNames
<1>5. /\ Append(l, "escalated") \in Seq(LogNames) /\ Ordered(Append(l, "escalated")) /\ Len(Append(l, "escalated")) > 0
      /\ Within(Append(l, "escalated"), 1)
  BY <1>1, <1>3, <1>4, RankIs, TimelineGrows
<1> QED
  BY <1>0, <1>5, TopIs

LEMMA AlertsEscalated ==
    ASSUME AlertInv, EscalateCommit
    PROVE  AlertInv'
<1>0. LastLevel \in Nat /\ LastMoment \in Nat
  BY EmergencyAssumption
<1>1. /\ escalation' = {} /\ UNCHANGED <<incident, moment, ops, serial>>
      /\ alert' = [a \in Alerts |->
           IF a \in escalation /\ Level(a) > alert[a].level
           THEN [alert[a] EXCEPT !.level = Level(a), !.log = Append(@, "escalated")]
           ELSE alert[a]]
  BY DEF EscalateCommit
<1>2. alert \in [Alerts -> AlertRows] /\ moment \in 0 .. LastMoment
  BY DEF AlertInv, AlertsTyped
<1>3. ASSUME NEW a \in Alerts
      PROVE  /\ alert'[a] \in AlertRows /\ Timeline(alert'[a]) /\ alert'[a].status = alert[a].status
             /\ alert[a] = NoAlert => alert'[a] = NoAlert
  <2>1. PICK row : row = alert[a]
    OBVIOUS
  <2>2. row \in AlertRows /\ Timeline(row) /\ Raised(a)
    BY <1>2, <2>1 DEF AlertInv
  <2>3. CASE a \in escalation /\ Level(a) > alert[a].level
    <3>1. row.status = "raised"
      BY <2>1, <2>2, <2>3 DEF Raised, Unanswered
    <3>2. PICK log, level : log = Append(row.log, "escalated") /\ level = Level(a)
      OBVIOUS
    <3>3. alert'[a] = [row EXCEPT !.level = level, !.log = log]
      BY <1>1, <2>1, <2>3, <3>2
    <3>4. log \in Seq(LogNames) /\ Ordered(log) /\ Within(log, Top["raised"]) /\ Len(log) > 0
      BY <2>2, <3>1, <3>2, EscalateTimeline
    <3>5. level \in 0 .. LastLevel
      <4>1. row.level \in 0 .. LastLevel /\ row.raised \in 0 .. LastMoment
        BY <2>2 DEF AlertRows
      <4>2. level > row.level
        BY <2>1, <2>3, <3>2
      <4>3. level = IF moment - row.raised > LastLevel THEN LastLevel ELSE moment - row.raised
        BY <2>1, <3>2 DEF Level, Age
      <4> QED
        BY <1>0, <1>2, <4>1, <4>2, <4>3
    <3>6. /\ alert'[a] \in AlertRows /\ alert'[a].status = "raised" /\ alert'[a].log = log
      BY <2>2, <3>1, <3>3, <3>4, <3>5 DEF AlertRows
    <3>7. alert[a] # NoAlert
      BY <2>1, <3>1 DEF NoAlert
    <3> QED
      BY <2>1, <3>1, <3>4, <3>6, <3>7 DEF Timeline
  <2>4. CASE ~(a \in escalation /\ Level(a) > alert[a].level)
    BY <1>1, <2>1, <2>2, <2>4
  <2> QED
    BY <2>3, <2>4
<1>4. AlertsTyped'
  <2>1. alert' \in [Alerts -> AlertRows]
    <3>1. DOMAIN alert' = Alerts /\ alert' = [a \in Alerts |-> alert'[a]]
      BY <1>1
    <3> QED
      BY <1>3, <3>1
  <2> QED
    BY <1>1, <2>1 DEF AlertInv, AlertsTyped
<1>5. \A a \in Alerts : Timeline(alert'[a]) /\ Raised(a)'
  <2> TAKE a \in Alerts
  <2>1. Raised(a)
    BY DEF AlertInv
  <2> QED
    BY <1>1, <1>3, <2>1 DEF Raised, NoAlert
<1>6. \A a \in Alerts : Timeline(alert[a])' /\ Raised(a)'
  BY <1>5 DEF Timeline, Ordered, Within, Says
<1>7. serial => AnswersFollowed'
  BY <1>1, <1>3 DEF AlertInv, AnswersFollowed, IncidentFollows, CaseRemembers
<1> QED
  BY <1>1, <1>4, <1>6, <1>7 DEF AlertInv

LEMMA AlertsCaseRead ==
    ASSUME AlertInv, NEW q \in Requests, NEW a \in Alerts, NEW action \in DOMAIN CaseRule, CaseRead(q, a, action)
    PROVE  AlertInv'
<1> DEFINE status == incident[a].status
           to == IF action = "assign" /\ status # "new" THEN status ELSE CaseRule[action].to
           op == [kind |-> "case", of |-> a, to |-> to]
<1>1. status \in CaseRule[action].from /\ Begin(q, op) /\ UNCHANGED <<alert, incident, escalation, moment, serial>>
  BY DEF CaseRead
<1>2. to \in CaseStatus /\ to # "new" /\ (to = "assigned" => status \in {"new", "assigned"})
  BY <1>1 DEF CaseRule, CaseStatus
<1>3. op \in RaiseOp \cup CaseOp /\ CaseRemembers(op)
  BY <1>2 DEF CaseOp, CaseRemembers
<1> HIDE DEF op
<1> QED
  BY <1>1, <1>3, AlertsBegin

LEMMA AlertsCaseCommit ==
    ASSUME AlertInv, NEW q \in Requests, CaseCommit(q)
    PROVE  AlertInv'
<1> DEFINE a == ops[q].of
           to == ops[q].to
<1>1. /\ ops[q].kind = "case" /\ End(q) /\ ops[q] # NoOp /\ UNCHANGED <<alert, escalation, moment, serial>>
      /\ incident' = [incident EXCEPT ![a].status = to]
  BY DEF CaseCommit, NoOp
<1>2. a \in Alerts /\ to \in CaseStatus /\ incident \in [Alerts -> CaseRows]
  BY <1>1 DEF AlertInv, AlertsTyped, RaiseOp, CaseOp, NoOp
<1> HIDE DEF a, to
<1>3. /\ incident' \in [Alerts -> CaseRows] /\ incident'[a].status = to /\ incident'[a].cases = incident[a].cases
      /\ \A b \in Alerts \ {a} : incident'[b] = incident[b]
  BY <1>1, <1>2 DEF CaseRows
<1>4. AlertsTyped'
  BY <1>1, <1>3, AlertsEnd DEF AlertInv, AlertsTyped
<1>5. \A b \in Alerts : Timeline(alert'[b]) /\ Raised(b)'
  BY <1>1, <1>3 DEF AlertInv, Raised, Unanswered
<1>6. \A b \in Alerts : Timeline(alert[b])' /\ Raised(b)'
  BY <1>5 DEF Timeline, Ordered, Within, Says
<1>7. ASSUME serial, NEW b \in Alerts PROVE IncidentFollows(b)'
  <2>1. CASE b = a
    <3>1. CaseRemembers(ops[q]) /\ IncidentFollows(a)
      BY <1>2, <1>7 DEF AlertInv, AnswersFollowed
    <3>2. to # "new" /\ (to = "assigned" => incident[a].status \in {"new", "assigned"})
      BY <1>1, <3>1 DEF CaseRemembers, a, to
    <3> QED
      BY <1>1, <1>3, <2>1, <3>1, <3>2 DEF IncidentFollows
  <2>2. CASE b # a
    BY <1>1, <1>3, <1>7, <2>2 DEF AlertInv, AnswersFollowed, IncidentFollows
  <2> QED
    BY <2>1, <2>2
<1> QED
  BY <1>1, <1>4, <1>6, <1>7, AlertsRest DEF AlertInv, AnswersFollowed

LEMMA AlertsStep == ASSUME AlertInv, [EmergencyNext]_emergencyVars PROVE AlertInv'
<1>0. LastLevel \in Nat /\ LastMoment \in Nat
  BY EmergencyAssumption
<1>1. CASE EscalateRead
  <2>1. /\ \A a \in escalation' : Unanswered(a) /\ a \in Alerts
        /\ UNCHANGED <<alert, incident, moment, ops, serial>>
    BY <1>1 DEF EscalateRead
  <2>2. AlertsTyped'
    BY <2>1 DEF AlertInv, AlertsTyped
  <2>3. \A a \in Alerts : Timeline(alert'[a]) /\ Raised(a)'
    BY <2>1 DEF AlertInv, Raised, Unanswered
  <2>4. \A a \in Alerts : Timeline(alert[a])' /\ Raised(a)'
    BY <2>3 DEF Timeline, Ordered, Within, Says
  <2>5. serial => AnswersFollowed'
    BY <2>1 DEF AlertInv, AnswersFollowed, IncidentFollows, CaseRemembers
  <2> QED
    BY <2>1, <2>2, <2>4, <2>5 DEF AlertInv
<1>2. CASE MomentPasses \/ UNCHANGED emergencyVars
  <2>1. UNCHANGED <<alert, incident, escalation, ops, serial>> /\ moment' \in 0 .. LastMoment
    BY <1>0, <1>2 DEF MomentPasses, emergencyVars, AlertInv, AlertsTyped
  <2>2. AlertsTyped'
    BY <2>1 DEF AlertInv, AlertsTyped
  <2>3. serial => AnswersFollowed'
    BY <2>1 DEF AlertInv, AnswersFollowed, IncidentFollows, CaseRemembers
  <2> QED
    BY <2>1, <2>2, <2>3, AlertsSame DEF AlertInv
<1>3. ASSUME NEW q \in Requests, NEW a \in Alerts, RaiseRead(q, a) PROVE AlertInv'
  <2> DEFINE op == [kind |-> "raise", of |-> a]
  <2>1. op \in RaiseOp \cup CaseOp /\ CaseRemembers(op)
    BY DEF RaiseOp, CaseRemembers
  <2>2. Begin(q, op) /\ UNCHANGED <<alert, incident, escalation, moment, serial>>
    BY <1>3 DEF RaiseRead
  <2> HIDE DEF op
  <2> QED
    BY <2>1, <2>2, AlertsBegin
<1>4. ASSUME NEW q \in Requests, EmergencyAbort(q) PROVE AlertInv'
  <2>1. ops[q] # NoOp /\ End(q) /\ UNCHANGED <<alert, incident, escalation, moment, serial>>
    BY <1>4 DEF EmergencyAbort, NoOp
  <2>2. AlertsTyped'
    BY <2>1, AlertsEnd DEF AlertInv, AlertsTyped
  <2>3. serial => AnswersFollowed'
    BY <2>1, AlertsSame, AlertsRest DEF AnswersFollowed
  <2> QED
    BY <2>1, <2>2, <2>3, AlertsSame DEF AlertInv
<1> QED
  BY <1>1, <1>2, <1>3, <1>4, AlertsRaised, AlertsAnswered, AlertsEscalated, AlertsCaseRead, AlertsCaseCommit
     DEF EmergencyNext

LEMMA AlwaysAlertInv == EmergencySpec => []AlertInv
BY AlertsStart, AlertsStep, PTL DEF EmergencySpec

(* Every row of the alerts and their incidents keeps its type.              *)
THEOREM EmergenciesTyped == EmergencySpec => []EmergencyTypeOK
<1>1. AlertInv => EmergencyTypeOK
  BY DEF AlertInv, AlertsTyped, EmergencyTypeOK, AlertRows, CaseRows, CaseStatus, LogNames
<1> QED
  BY AlwaysAlertInv, <1>1, PTL

(* However raising, answers, sweep and incident handlers meet, an alert has *)
(* the one incident raised with it and its timeline is in order; while      *)
(* handlers take turns the incident keeps up with the answer.               *)
THEOREM EmergenciesStayKept == EmergencySpec => []EmergenciesKept
<1>1. ASSUME AlertInv, NEW a \in Alerts
      PROVE  /\ incident[a].cases = IF alert[a] = NoAlert THEN 0 ELSE 1
             /\ TimelineInOrder(a)
             /\ serial => IncidentFollows(a)
  <2>1. Raised(a) /\ Timeline(alert[a]) /\ (serial => IncidentFollows(a))
    BY <1>1 DEF AlertInv, AnswersFollowed
  <2>2. incident[a].cases = IF alert[a] = NoAlert THEN 0 ELSE 1
    BY <2>1 DEF Raised, NoAlert
  <2>3. TimelineInOrder(a)
    BY <2>1 DEF Timeline, Ordered, TimelineInOrder
  <2> QED
    BY <2>1, <2>2, <2>3
<1>2. AlertInv => EmergenciesKept
  BY <1>1 DEF EmergenciesKept
<1> QED
  BY AlwaysAlertInv, <1>2, PTL
=============================================================================
