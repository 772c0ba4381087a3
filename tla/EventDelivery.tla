----------------------------- MODULE EventDelivery -----------------------------
(***************************************************************************)
(* From a domain event to the accounting systems of customers.  A business  *)
(* transaction commits its event as a job (platform/jobs); the worker hands *)
(* it to its subscribers one after the other, and an error of one repeats   *)
(* the job from the first (worker).  The last subscriber, finance, inserts  *)
(* a delivery for every active endpoint; sweeps claim what is due, post it  *)
(* over HTTP and store the outcome (finance/webhooks.go).  Processes die at *)
(* any step.                                                                *)
(*                                                                          *)
(* Sweeps run in the worker and, for a test of an endpoint, in the API. Of  *)
(* the time only "due" is kept: next_attempt_at <= now().  A claim lasts    *)
(* five minutes and may lapse before its sweep is done.                     *)
(***************************************************************************)
EXTENDS Integers, Sequences, FiniteSets, Functions

CONSTANTS
    Events, Endpoints,
    Sweepers,        \* processes that may run a sweep
    JobAttempts,     \* MaxAttempts of the job: 10
    MaxAttempts,     \* maxAttempts of a delivery: 8
    MaxDeliveries,   \* bound: rows of webhook_deliveries
    MaxFaults,       \* bound: deaths of processes and failed transactions
    MaxRetries       \* bound: retries and tests asked for by hand

ASSUME DeliveryAssumption ==
    /\ {JobAttempts, MaxAttempts, MaxDeliveries, MaxFaults, MaxRetries} \subseteq Nat
    /\ JobAttempts > 0 /\ MaxAttempts > 0
    /\ IsFiniteSet(Endpoints) /\ Endpoints # {} /\ "test" \notin Events
    /\ IsFiniteSet(Sweepers)

Deliveries == 1 .. MaxDeliveries

VARIABLES
    job,        \* job[e]: status, attempt, at: the subscriber whose turn it is
    told,       \* history: told[e], the subscribers that have handled e
    endpoint,   \* endpoint[w]: none, active or paused
    delivery,   \* delivery[d]: status, event, to, attempts, due
    sweep,      \* sweep[s]: what it claimed and has not sent, the answer it got
    taken,      \* history: taken[d], how often d was accepted, less what excuses
                \* that it is sent again: see Post, Store, SweepDies, RetryDelivery, FallsDue
    faults, retries

deliveryVars == <<job, told, endpoint, delivery, sweep, taken, faults, retries>>

-----------------------------------------------------------------------------
Subscribers == <<"notification", "search", "finance">>

IdleSweep  == [todo |-> {}, answer |-> "none"]
NoDelivery == [status |-> "none", event |-> "test", to |-> CHOOSE w \in Endpoints : TRUE,
               attempts |-> 0, due |-> FALSE]

NextDeliveries(n) ==
    LET used == {d \in Deliveries : delivery[d].status # "none"}
    IN (Cardinality(used) + 1) .. (Cardinality(used) + n)

Active == {w \in Endpoints : endpoint[w] = "active"}

Insert(event, to) ==
    [NoDelivery EXCEPT !.status = "pending", !.event = event, !.to = to, !.due = TRUE]

-----------------------------------------------------------------------------
(* domain_event.dispatch.                                                   *)

(* EnqueueEventTx in the transaction of the event.                          *)
Publish(e) ==
    /\ job[e].status = "none"
    /\ job' = [job EXCEPT ![e].status = "available"]
    /\ UNCHANGED <<told, endpoint, delivery, sweep, faults, retries, taken>>

Fetch(e) ==
    /\ job[e].status = "available"
    /\ job' = [job EXCEPT ![e] = [status |-> "running", attempt |-> @.attempt + 1, at |-> 1]]
    /\ UNCHANGED <<told, endpoint, delivery, sweep, faults, retries, taken>>

(* A job that failed is tried again until its attempts are used up.         *)
GivenBack(e) == IF job[e].attempt < JobAttempts THEN "available" ELSE "discarded"

(* Mutant of Handed: the error of a subscriber is only logged.              *)
HandedAnyway(e, ok) == TRUE

(* The job goes on to the next subscriber.                                  *)
Handed(e, ok) == ok

(* One subscriber: the transaction of its Handle commits or fails.          *)
Handle(e) ==
    /\ job[e].status = "running" /\ job[e].at <= Len(Subscribers)
    /\ \E ok \in BOOLEAN :
         /\ ok \/ faults < MaxFaults
         /\ faults' = IF ok THEN faults ELSE faults + 1
         /\ job' = [job EXCEPT ![e] =
              IF Handed(e, ok) THEN [job[e] EXCEPT !.at = @ + 1]
              ELSE [job[e] EXCEPT !.status = GivenBack(e)]]
         /\ told' = IF ok THEN [told EXCEPT ![e] = @ \cup {Subscribers[job[e].at]}] ELSE told
         /\ IF ok /\ Subscribers[job[e].at] = "finance"
            THEN \E f \in Bijection(NextDeliveries(Cardinality(Active)), Active) :
                   /\ DOMAIN f \subseteq Deliveries
                   /\ delivery' = [d \in Deliveries |->
                        IF d \in DOMAIN f THEN Insert(e, f[d]) ELSE delivery[d]]
            ELSE UNCHANGED delivery
    /\ UNCHANGED <<endpoint, sweep, retries, taken>>

Finish(e) ==
    /\ job[e].status = "running" /\ job[e].at > Len(Subscribers)
    /\ job' = [job EXCEPT ![e].status = "completed"]
    /\ UNCHANGED <<told, endpoint, delivery, sweep, faults, retries, taken>>

(* The worker dies; the queue gives the job to another one.                 *)
WorkerDies(e) ==
    /\ faults < MaxFaults /\ job[e].status = "running"
    /\ faults' = faults + 1
    /\ job' = [job EXCEPT ![e].status = GivenBack(e)]
    /\ UNCHANGED <<told, endpoint, delivery, sweep, retries, taken>>

-----------------------------------------------------------------------------
(* Endpoints and deliveries as the administrators of an organisation change *)
(* them.                                                                    *)

SaveEndpoint(w) ==
    /\ \E status \in {"active", "paused"} : endpoint' = [endpoint EXCEPT ![w] = status]
    /\ UNCHANGED <<job, told, delivery, sweep, faults, retries, taken>>

(* The deliveries are deleted with their endpoint.                          *)
DeleteEndpoint(w) ==
    /\ endpoint[w] # "none"
    /\ endpoint' = [endpoint EXCEPT ![w] = "none"]
    /\ delivery' = [d \in Deliveries |->
         IF delivery[d].to = w /\ delivery[d].status # "none"
         THEN [delivery[d] EXCEPT !.status = "gone", !.due = FALSE] ELSE delivery[d]]
    /\ UNCHANGED <<job, told, sweep, faults, retries, taken>>

ClaimedBy(s) == {j.id : j \in sweep[s].todo}

Claimed == UNION {ClaimedBy(s) : s \in Sweepers}

RetryDelivery(d) ==
    /\ retries < MaxRetries /\ retries' = retries + 1
    /\ delivery[d].status \in {"pending", "failed"}
    /\ delivery' = [delivery EXCEPT ![d].status = "pending", ![d].attempts = 0, ![d].due = TRUE]
    /\ taken' = IF d \in Claimed THEN [taken EXCEPT ![d] = @ - 1] ELSE taken
    /\ UNCHANGED <<job, told, endpoint, sweep, faults>>

(* TestEndpoint: a delivery of its own, and a sweep at once.                *)
TestEndpoint(w) ==
    /\ retries < MaxRetries /\ retries' = retries + 1
    /\ endpoint[w] # "none"
    /\ \E d \in NextDeliveries(1) \cap Deliveries :
         delivery' = [delivery EXCEPT ![d] = Insert("test", w)]
    /\ UNCHANGED <<job, told, endpoint, sweep, faults, taken>>

-----------------------------------------------------------------------------
(* DeliverSweep.                                                            *)

Deliverable(d) ==
    /\ delivery[d].status = "pending"
    /\ endpoint[delivery[d].to] = "active" \/ delivery[d].event = "test"

(* Mutant of AfterClaim: the claim does not move next_attempt_at.           *)
StillDue(d) == delivery[d]

(* A claimed delivery is not due for five minutes.                          *)
AfterClaim(d) == [delivery[d] EXCEPT !.due = FALSE]

(* FOR UPDATE SKIP LOCKED: two sweeps claim different rows.                 *)
Claim(s) ==
    LET D == {d \in Deliveries : Deliverable(d) /\ delivery[d].due}
    IN /\ sweep[s] = IdleSweep /\ D # {}
       /\ sweep' = [sweep EXCEPT ![s].todo = {[id |-> d, attempts |-> delivery[d].attempts] : d \in D}]
       /\ delivery' = [d \in Deliveries |-> IF d \in D THEN AfterClaim(d) ELSE delivery[d]]
       /\ UNCHANGED <<job, told, endpoint, faults, retries, taken>>

(* The deliveries of a claim are sent in their order.                       *)
First(s, j) == j \in sweep[s].todo /\ \A k \in sweep[s].todo : j.id <= k.id

(* The request.  If a time-out hides that it was accepted, the acceptance   *)
(* and the answer that was lost cancel out in taken.                        *)
Post(s) ==
    /\ sweep[s].todo # {} /\ sweep[s].answer = "none"
    /\ \E answer \in {"ok", "error"}, j \in sweep[s].todo :
         /\ First(s, j)
         /\ sweep' = [sweep EXCEPT ![s].answer = answer]
         /\ taken' = IF answer = "ok" THEN [taken EXCEPT ![j.id] = @ + 1] ELSE taken
    /\ UNCHANGED <<job, told, endpoint, delivery, faults, retries>>

(* The outcome of the request for j is lost.                                *)
Forget(s, j) ==
    taken' = IF sweep[s].answer = "ok" THEN [taken EXCEPT ![j.id] = @ - 1] ELSE taken

(* Mutant of Attempts: the attempt that failed is not counted.              *)
AttemptsBefore(j) == j.attempts

Attempts(j) == j.attempts + 1

(* The row of delivery j after an answer.                                   *)
Stored(j, answer) ==
    CASE delivery[j.id].status = "gone" -> delivery[j.id]
      [] answer = "ok" ->
           [delivery[j.id] EXCEPT !.status = "delivered", !.attempts = Attempts(j)]
      [] OTHER ->
           [delivery[j.id] EXCEPT !.attempts = Attempts(j), !.due = FALSE,
              !.status = IF Attempts(j) >= MaxAttempts \/ delivery[j.id].event = "test"
                         THEN "failed" ELSE "pending"]

(* By id alone; an error of the transaction is dropped.                     *)
Store(s) ==
    /\ sweep[s].answer # "none"
    /\ \E j \in sweep[s].todo :
         /\ First(s, j)
         /\ sweep' = [sweep EXCEPT ![s] = [todo |-> @.todo \ {j}, answer |-> "none"]]
         /\ \/ delivery' = [delivery EXCEPT ![j.id] = Stored(j, sweep[s].answer)]
               /\ UNCHANGED <<faults, taken>>
            \/ faults < MaxFaults /\ faults' = faults + 1 /\ Forget(s, j) /\ UNCHANGED delivery
    /\ UNCHANGED <<job, told, endpoint, retries>>

SweepDies(s) ==
    /\ faults < MaxFaults /\ faults' = faults + 1
    /\ \E j \in sweep[s].todo : First(s, j) /\ Forget(s, j)
    /\ sweep' = [sweep EXCEPT ![s] = IdleSweep]
    /\ UNCHANGED <<job, told, endpoint, delivery, retries>>

(* next_attempt_at passes: the delay of a retry, or a claim that lapses     *)
(* while its sweep is at work.                                              *)
FallsDue(d) ==
    /\ delivery[d].status = "pending" /\ ~delivery[d].due
    /\ delivery' = [delivery EXCEPT ![d].due = TRUE]
    /\ taken' = IF d \in Claimed THEN [taken EXCEPT ![d] = @ - 1] ELSE taken
    /\ UNCHANGED <<job, told, endpoint, sweep, faults, retries>>

-----------------------------------------------------------------------------
NewJob == [status |-> "none", attempt |-> 0, at |-> 1]

DeliveryInit ==
    /\ job = [e \in Events |-> NewJob]
    /\ told = [e \in Events |-> {}]
    /\ endpoint \in [Endpoints -> {"none", "active"}]
    /\ delivery = [d \in Deliveries |-> NoDelivery]
    /\ sweep = [s \in Sweepers |-> IdleSweep]
    /\ taken = [d \in Deliveries |-> 0]
    /\ faults = 0 /\ retries = 0

Dispatch(e) == Fetch(e) \/ Handle(e) \/ Finish(e)

Sweeping(s) == Claim(s) \/ Post(s) \/ Store(s)

DeliveryNext ==
    \/ \E e \in Events : Publish(e) \/ Dispatch(e) \/ WorkerDies(e)
    \/ \E w \in Endpoints : SaveEndpoint(w) \/ DeleteEndpoint(w) \/ TestEndpoint(w)
    \/ \E s \in Sweepers : Sweeping(s) \/ SweepDies(s)
    \/ \E d \in Deliveries : RetryDelivery(d) \/ FallsDue(d)

(* The queue fetches available jobs, the sweep runs every minute, time      *)
(* passes.                                                                  *)
DeliveryFairness ==
    /\ \A e \in Events : WF_deliveryVars(Dispatch(e))
    /\ \A s \in Sweepers : WF_deliveryVars(Claim(s)) /\ WF_deliveryVars(Post(s) \/ Store(s))
    /\ \A d \in Deliveries : WF_deliveryVars(FallsDue(d))

DeliverySpec == DeliveryInit /\ [][DeliveryNext]_deliveryVars /\ DeliveryFairness

-----------------------------------------------------------------------------
(* Properties.                                                              *)

JobStatus == {"none", "available", "running", "completed", "discarded"}
DeliveryRow == [status : {"none", "pending", "delivered", "failed", "gone"},
                event : Events \cup {"test"}, to : Endpoints, attempts : Nat, due : BOOLEAN]

(* Every row keeps its type.                                                *)
DeliveryTypeOK ==
    /\ job \in [Events -> [status : JobStatus, attempt : Nat, at : 1 .. Len(Subscribers) + 1]]
    /\ told \in [Events -> SUBSET {"notification", "search", "finance"}]
    /\ endpoint \in [Endpoints -> {"none", "active", "paused"}]
    /\ delivery \in [Deliveries -> DeliveryRow]
    /\ sweep \in [Sweepers -> [todo : SUBSET [id : Deliveries, attempts : Nat],
                              answer : {"none", "ok", "error"}]]
    /\ taken \in [Deliveries -> Int]
    /\ {faults, retries} \subseteq Nat

(* An event whose job is completed was handled by every subscriber; the     *)
(* failure of one never makes the others, or itself, miss the event.        *)
HandedOn ==
    \A e \in Events : job[e].status = "completed" =>
        told[e] = {"notification", "search", "finance"}

(* A receiver accepts a delivery once, and again only for as many times as  *)
(* the outcome of a request was lost (it timed out, its sweep died, or it   *)
(* could not be stored), a claim lapsed while its sweep was at work, or a   *)
(* retry was asked for while the delivery was being sent: each of these     *)
(* sends it once more at most, however sweeps, deaths, retries and late     *)
(* outcomes follow each other.                                              *)
SentOnce == \A d \in Deliveries : taken[d] <= 1

(* Nothing waits for ever: a published event is handed on or given up after *)
(* its attempts, and so is every delivery of an endpoint that stays active, *)
(* even if sweeps overlap and write stale counts of attempts.               *)
Settles ==
    /\ \A e \in Events : job[e].status = "available" ~> job[e].status \in {"completed", "discarded"}
    /\ \A d \in Deliveries : []<>~Deliverable(d)
=============================================================================
