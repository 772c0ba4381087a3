------------------------------ MODULE FieldSync ------------------------------
(***************************************************************************)
(* Offline work of the field staff (sync.Service.Push): a device queues     *)
(* mutations, sends what is not settled, and settles what is answered.      *)
(*                                                                          *)
(* Every transaction of Push is a step: the lookup of an earlier result,    *)
(* the read of the last sequence number, the dispatch with the record of    *)
(* its result, the check of who is assigned, and the record of a refusal    *)
(* with the evidence it keeps.  Between two of them others act, the         *)
(* handler may die, and the device may give up and send again.              *)
(***************************************************************************)
EXTENDS TaskWorkflow, Sequences

CONSTANTS
    Devices,
    Owner,      \* Owner[d]: the worker who uses device d
    Kinds,      \* what a device queues: field work, "answer" and "finding"
    Meanwhile,  \* what others do: transitions, "assign", "update", "answer"
    Slots,      \* the pushes of one device that may be under way together
    MaxMade,    \* bound: mutations per device
    Faults,     \* which transactions may fail: "lookup", "apply", "store"
    MaxFaults   \* bound: how many do

ASSUME SyncAssumption ==
    /\ Owner \in [Devices -> Workers]
    /\ Kinds \subseteq FieldWork \cup {"answer", "finding"}
    /\ Meanwhile \subseteq Actions \cup {"assign", "update", "answer"}
    /\ Faults \subseteq {"lookup", "apply", "store"}
    /\ MaxMade \in Nat /\ MaxFaults \in Nat

VARIABLES
    made,       \* made[d]: the mutations in the order of their making: object and action
    told,       \* told[d][i]: what the device knows of mutation i; "none" is Pending Sync
    push,       \* push[d][s]: a Push under way
    stored,     \* stored[d][i]: the result in sync_mutations
    done,       \* done[d][i]: how often the mutation took effect
    kept,       \* kept[d]: mutations whose evidence went to the timeline
    faults      \* how many transactions failed

syncVars == <<made, told, push, stored, done, kept, faults>>
vars     == <<taskVars, syncVars>>

Indices  == 1..MaxMade
Mutation == [obj : Objects, action : Kinds]
Settled  == {"applied", "conflict", "rejected"}
Results  == Settled \cup {"seq_gap"}

Unknown == -1

(* A Push: the step it is at, the mutations it has still to process, the    *)
(* answers so far, the last sequence number and the block of each object,   *)
(* and the verdict on the current mutation.                                 *)
Idle == [at |-> "idle", todo |-> {}, answer |-> [i \in Indices |-> "none"],
         last |-> [o \in Objects |-> Unknown], blocked |-> {}, verdict |-> "none"]

Obj(d, i) == made[d][i].obj

(* The sequence number counts per device and object, from one.              *)
SeqNo(d, i) == Cardinality({j \in 1..i : Obj(d, j) = Obj(d, i)})

(* Mutation i is the next of the push, which is at the given step.          *)
At(d, s, i, step) ==
    /\ push[d][s].at = step
    /\ i \in push[d][s].todo /\ \A j \in push[d][s].todo : i <= j

-----------------------------------------------------------------------------
(* The device: its protocol is that of contracts/sync-api.md.               *)

Make(d, o, action) ==
    /\ Len(made[d]) < MaxMade
    /\ made' = [made EXCEPT ![d] = Append(@, [obj |-> o, action |-> action])]
    /\ UNCHANGED <<taskVars, told, push, stored, done, kept, faults>>

Pending(d) == {i \in 1..Len(made[d]) : told[d][i] = "none"}

Send(d, s) ==
    /\ push[d][s].at = "idle" /\ Pending(d) # {}
    /\ push' = [push EXCEPT ![d][s] = [Idle EXCEPT !.at = "lookup", !.todo = Pending(d)]]
    /\ UNCHANGED <<taskVars, made, told, stored, done, kept, faults>>

(* The answer arrives: SEQ_GAP leaves the mutation in the queue.            *)
Receive(d, s) ==
    /\ push[d][s].at = "lookup" /\ push[d][s].todo = {}
    /\ told' = [told EXCEPT ![d] = [i \in Indices |->
                    IF @[i] = "none" /\ push[d][s].answer[i] \in Settled
                    THEN push[d][s].answer[i] ELSE @[i]]]
    /\ push' = [push EXCEPT ![d][s] = Idle]
    /\ UNCHANGED <<taskVars, made, stored, done, kept, faults>>

(* The handler dies between two transactions, or its answer is lost.        *)
Lose(d, s) ==
    /\ push[d][s].at # "idle"
    /\ push' = [push EXCEPT ![d][s] = Idle]
    /\ UNCHANGED <<taskVars, made, told, stored, done, kept, faults>>

-----------------------------------------------------------------------------
(* The handler.                                                             *)

Fault(kind) == kind \in Faults /\ faults < MaxFaults /\ faults' = faults + 1

Continue(d, s, p) == push' = [push EXCEPT ![d][s] = p]

Goto(d, s, at, verdict) ==
    Continue(d, s, [push[d][s] EXCEPT !.at = at, !.verdict = verdict])

Reply(p, i, result) ==
    [p EXCEPT !.at = "lookup", !.todo = @ \ {i}, !.answer[i] = result, !.verdict = "none"]

(* Mutant of EffectRecord: the result of an effect is not recorded with it. *)
EffectNotRecorded(d, i) == stored

(* INSERT ... ON CONFLICT DO NOTHING.                                       *)
Record(d, i, result) ==
    [stored EXCEPT ![d][i] = IF @ = "none" THEN result ELSE @]

EffectRecord(d, i) == Record(d, i, "applied")

(* previousResult; a duplicate is an applied mutation for the device.       *)
Earlier(d, i) == stored[d][i]

Lookup(d, s, i) ==
    /\ At(d, s, i, "lookup")
    /\ IF Earlier(d, i) = "none" THEN Goto(d, s, "order", "none")
       ELSE Continue(d, s, Reply(push[d][s], i, Earlier(d, i)))
    /\ UNCHANGED <<taskVars, made, told, stored, done, kept, faults>>

(* An error of the lookup is taken for: no earlier result.                  *)
LookupFails(d, s, i) ==
    /\ At(d, s, i, "lookup") /\ Fault("lookup")
    /\ Goto(d, s, "order", "none")
    /\ UNCHANGED <<taskVars, made, told, stored, done, kept>>

(* Sequence numbers that moved the object on; a rejection does not.         *)
Counted(d, o) ==
    {SeqNo(d, j) : j \in {k \in 1..Len(made[d]) :
                            Obj(d, k) = o /\ stored[d][k] \in {"applied", "conflict"}}}

Last(d, s, o) ==
    IF push[d][s].last[o] # Unknown THEN push[d][s].last[o]
    ELSE CHOOSE n \in Counted(d, o) \cup {0} : \A m \in Counted(d, o) : m <= n

(* Mutant of OutOfOrder: a gap left by a rejected mutation blocks the next. *)
OutOfOrderContiguous(seq, last) == seq # last + 1

OutOfOrder(seq, last) == seq <= last

Order(d, s, i) ==
    /\ At(d, s, i, "order")
    /\ LET o == Obj(d, i) IN
        IF o \in push[d][s].blocked \/ OutOfOrder(SeqNo(d, i), Last(d, s, o))
        THEN /\ Continue(d, s, [Reply(push[d][s], i, "seq_gap")
                                    EXCEPT !.blocked = @ \cup {o}])
             /\ stored' = Record(d, i, "seq_gap")
        ELSE /\ Continue(d, s, [push[d][s] EXCEPT !.at = "apply", !.last[o] = SeqNo(d, i)])
             /\ UNCHANGED stored
    /\ UNCHANGED <<taskVars, made, told, done, kept, faults>>

(* dispatch: what the engine says of the mutation, and what it does.        *)
Verdict(d, i) ==
    LET m == made[d][i] IN
    CASE m.action = "finding"   -> "none"
      [] m.action = "answer"    -> AnswerRefusal(m.obj, Owner[d])
      [] m.action \in FieldWork -> Refusal(m.obj, Owner[d], m.action)

Effect(d, i) ==
    LET m == made[d][i] IN
    \/ m.action = "finding"   /\ UNCHANGED taskVars
    \/ m.action = "answer"    /\ Answered(m.obj)
    \/ m.action \in FieldWork /\ Move(m.obj, m.action)

Apply(d, s, i) ==
    /\ At(d, s, i, "apply") /\ Verdict(d, i) = "none"
    /\ Effect(d, i)
    /\ done' = [done EXCEPT ![d][i] = @ + 1]
    /\ stored' = EffectRecord(d, i)
    /\ Continue(d, s, Reply(push[d][s], i, "applied"))
    /\ UNCHANGED <<made, told, kept, faults>>

(* A status the transition does not fit is a conflict; a missing right is   *)
(* one only if the object now belongs to somebody else.                     *)
Refuse(d, s, i) ==
    /\ At(d, s, i, "apply")
    /\ \/ /\ Verdict(d, i) \in {"OBJECT_TERMINAL", "INVALID_TRANSITION", "GUARD_FAILED"}
          /\ Goto(d, s, "store", "conflict")
       \/ Verdict(d, i) = "FORBIDDEN" /\ Goto(d, s, "classify", "none")
    /\ UNCHANGED <<taskVars, made, told, stored, done, kept, faults>>

(* An unexpected error of the transaction is a rejection.                   *)
ApplyFails(d, s, i) ==
    /\ At(d, s, i, "apply") /\ Fault("apply")
    /\ Goto(d, s, "store", "rejected")
    /\ UNCHANGED <<taskVars, made, told, stored, done, kept>>

IsReassigned(o, u) == task[o].assigned # {} /\ u \notin task[o].assigned

Classify(d, s, i) ==
    /\ At(d, s, i, "classify")
    /\ Goto(d, s, "store",
            IF IsReassigned(Obj(d, i), Owner[d]) THEN "conflict" ELSE "rejected")
    /\ UNCHANGED <<taskVars, made, told, stored, done, kept, faults>>

(* Mutant of PreserveEvidence: a refused transition leaves no trace.        *)
PreserveAnswersOnly(d, i) ==
    kept' = [kept EXCEPT ![d] = IF made[d][i].action = "answer" THEN @ \cup {i} ELSE @]

(* The payload goes to the timeline.                                        *)
PreserveEvidence(d, i) == kept' = [kept EXCEPT ![d] = @ \cup {i}]

(* The record of a refusal; a conflict keeps its evidence with it, an       *)
(* answer even in the checklist, whatever the status of the object.         *)
Store(d, s, i) ==
    /\ At(d, s, i, "store")
    /\ IF push[d][s].verdict = "conflict"
       THEN /\ PreserveEvidence(d, i)
            /\ IF made[d][i].action = "answer" THEN Answered(Obj(d, i))
               ELSE UNCHANGED taskVars
       ELSE UNCHANGED <<taskVars, kept>>
    /\ stored' = Record(d, i, push[d][s].verdict)
    /\ Continue(d, s, Reply(push[d][s], i, push[d][s].verdict))
    /\ UNCHANGED <<made, told, done, faults>>

(* Its error is dropped, and the answer given all the same.                 *)
StoreFails(d, s, i) ==
    /\ At(d, s, i, "store") /\ Fault("store")
    /\ Continue(d, s, Reply(push[d][s], i, push[d][s].verdict))
    /\ UNCHANGED <<taskVars, made, told, stored, done, kept>>

-----------------------------------------------------------------------------
Init ==
    /\ TaskInit
    /\ made   = [d \in Devices |-> <<>>]
    /\ told   = [d \in Devices |-> [i \in Indices |-> "none"]]
    /\ push   = [d \in Devices |-> [s \in Slots |-> Idle]]
    /\ stored = [d \in Devices |-> [i \in Indices |-> "none"]]
    /\ done   = [d \in Devices |-> [i \in Indices |-> 0]]
    /\ kept   = [d \in Devices |-> {}]
    /\ faults = 0

Handle(d, s) ==
    \E i \in Indices :
        \/ Lookup(d, s, i) \/ LookupFails(d, s, i) \/ Order(d, s, i)
        \/ Apply(d, s, i) \/ Refuse(d, s, i) \/ ApplyFails(d, s, i)
        \/ Classify(d, s, i) \/ Store(d, s, i) \/ StoreFails(d, s, i)

(* Others work on the same objects; the types of it are a bound.            *)
Others ==
    \E o \in Objects, u \in Users :
        \/ \E action \in Actions \cap Meanwhile : Transition(o, u, action)
        \/ "assign" \in Meanwhile /\ \E team \in SUBSET Workers : Assign(o, u, team)
        \/ "update" \in Meanwhile /\ Update(o, u)
        \/ "answer" \in Meanwhile /\ Answer(o, u)

Device(d, s) == Send(d, s) \/ Receive(d, s) \/ Lose(d, s)

Next ==
    \/ Others /\ UNCHANGED syncVars
    \/ \E d \in Devices, o \in Objects, action \in Kinds : Make(d, o, action)
    \/ \E d \in Devices, s \in Slots : Device(d, s) \/ Handle(d, s)

Spec == Init /\ [][Next]_vars

(* A device with a connection sends and a running handler ends; that it is  *)
(* not interrupted for ever is the assumption.  An answer that tells the    *)
(* device nothing new may as well be lost: the step is the same.            *)
Loss == \E d \in Devices, s \in Slots : Lose(d, s) /\ ~Receive(d, s)

FairSpec ==
    /\ Spec
    /\ \A d \in Devices, s \in Slots :
          WF_vars(Send(d, s)) /\ WF_vars(Receive(d, s)) /\ WF_vars(Handle(d, s))
    /\ <>[][~Loss]_vars

-----------------------------------------------------------------------------
TypeOK ==
    /\ TaskTypeOK
    /\ made \in [Devices -> Seq(Mutation)]
    /\ \A d \in Devices : Len(made[d]) <= MaxMade /\ kept[d] \subseteq Indices
    /\ told \in [Devices -> [Indices -> {"none"} \cup Settled]]
    /\ stored \in [Devices -> [Indices -> {"none"} \cup Results]]
    /\ done \in [Devices -> [Indices -> Nat]]
    /\ kept \in [Devices -> SUBSET Indices]
    /\ push \in [Devices -> [Slots ->
          [at : {"idle", "lookup", "order", "apply", "classify", "store"},
           todo : SUBSET Indices, answer : [Indices -> {"none"} \cup Results],
           last : [Objects -> Nat \cup {Unknown}], blocked : SUBSET Objects,
           verdict : {"none", "conflict", "rejected"}]]]
    /\ faults \in 0..MaxFaults

(* C6: however often a mutation is sent, whatever is lost or dies on the    *)
(* way, it takes effect once.                                               *)
AppliedOnce == \A d \in Devices, i \in Indices : done[d][i] <= 1

(* What the device was told is what happened: it drops a mutation as        *)
(* applied, or shows it as refused, only if that is so.                     *)
ToldTruth ==
    \A d \in Devices, i \in Indices :
        told[d][i] # "none" => (told[d][i] = "applied" <=> done[d][i] > 0)

(* Evidence is always kept: a conflict the device has dropped from its      *)
(* queue is in the timeline.                                                *)
EvidenceKept ==
    \A d \in Devices, i \in Indices : told[d][i] = "conflict" => i \in kept[d]

(* A device that numbers its mutations in order is never refused for the    *)
(* order: that result is final, although the device would send again.       *)
NoGap == \A d \in Devices, i \in Indices : stored[d][i] # "seq_gap"

(* Even when two pushes carry the same mutation, a start happens once: the  *)
(* transition table never leads back to where it could be started again.    *)
StartedOnce ==
    \A d \in Devices : \A i \in 1..Len(made[d]) :
        made[d][i].action = "start" => done[d][i] <= 1

(* An effect and its record are one: whatever overlaps or fails, a mutation *)
(* that took effect is found by every later lookup.                         *)
EffectIsRecorded ==
    \A d \in Devices, i \in Indices : done[d][i] > 0 => stored[d][i] # "none"

(* The first result of a mutation is its result: neither an overlapping     *)
(* push nor a retry replaces it.                                            *)
ResultIsFinal ==
    [][\A d \in Devices, i \in Indices :
            stored[d][i] # "none" => stored'[d][i] = stored[d][i]]_stored

(* Every mutation is settled in the end: no queue is stuck.                 *)
QueueDrains ==
    \A d \in Devices, i \in Indices : (i \in Pending(d)) ~> (told[d][i] # "none")

-----------------------------------------------------------------------------
(* The promise, with the outcome of a mutation read off its effect and its  *)
(* record: synchronisation implements it as long as the pushes of a device  *)
(* do not overlap and neither lookups nor records fail.                     *)
Serial == (\A s, t \in Slots : s = t) /\ Faults \subseteq {"apply"}

OutcomeOf(m) ==
    IF done[m[1]][m[2]] > 0 THEN "applied"
    ELSE IF stored[m[1]][m[2]] \in {"conflict", "rejected"} THEN stored[m[1]][m[2]]
    ELSE "none"

Promise == INSTANCE MutationOutcome WITH
    Mutations <- Devices \X Indices,
    outcome   <- [m \in Devices \X Indices |-> OutcomeOf(m)],
    effects   <- [m \in Devices \X Indices |-> done[m[1]][m[2]]],
    heard     <- [m \in Devices \X Indices |-> told[m[1]][m[2]]]

(* Every mutation has one outcome, takes effect exactly if it is applied,   *)
(* and the device is told that outcome: Push implements MutationOutcome.    *)
PromiseKept == Promise!OutcomeSpec
=============================================================================
