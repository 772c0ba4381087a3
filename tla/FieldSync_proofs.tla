-------------------------- MODULE FieldSync_proofs --------------------------
(***************************************************************************)
(* Proofs about TaskWorkflow and FieldSync, for every set of devices,       *)
(* objects, workers and managers and every bound.  First the work of the    *)
(* office alone: its invariants are inductive together, and each lemma      *)
(* takes one step of one object.  Then, with devices that push, what holds  *)
(* however their pushes overlap and whatever fails; and, for serial pushes, *)
(* the refinement.                                                          *)
(***************************************************************************)
EXTENDS FieldSync, SumTheorems

-----------------------------------------------------------------------------
(* TaskWorkflow.                                                            *)

TaskRow == [status : TaskStatus, assigned : SUBSET Workers, evidence : BOOLEAN]
SlaRow  == [paused : BOOLEAN, resolved : BOOLEAN]

TaskInv == TaskTypeOK /\ WorkHasAssignee /\ SlaFollowsWork

(* What a transition makes of the clock, and that it is a clock.            *)
LEMMA ClockAfter ==
    ASSUME NEW o, NEW action, sla[o] \in SlaRow
    PROVE  /\ SlaAfter(o, action).paused =
                  IF action = "hold" THEN TRUE
                  ELSE IF action = "resume" THEN FALSE ELSE sla[o].paused
           /\ SlaAfter(o, action).resolved =
                  IF action = "complete" THEN TRUE
                  ELSE IF action = "reopen" THEN FALSE ELSE sla[o].resolved
BY DEF SlaAfter, SlaRow

LEMMA ClockKeepsTypes ==
    ASSUME NEW o, NEW action, sla[o] \in SlaRow
    PROVE  SlaAfter(o, action) \in SlaRow
BY ClockAfter DEF SlaAfter, SlaRow

(* A transition keeps the types: the table leads to statuses only.          *)
LEMMA MoveKeepsTypes ==
    ASSUME TaskTypeOK, NEW o \in Objects, NEW action \in Actions, Move(o, action)
    PROVE  TaskTypeOK'
<1> DEFINE row == [task[o] EXCEPT !.status = Rule[action].to,
                                  !.assigned = IF action = "unassign" THEN {} ELSE @]
<1>1. Rule[action].to \in TaskStatus
  BY DEF Actions, Rule, TaskStatus
<1>2. task[o] \in TaskRow /\ sla[o] \in SlaRow
  BY DEF TaskTypeOK, TaskRow, SlaRow
<1>3. SlaAfter(o, action) \in SlaRow
  BY <1>2, ClockKeepsTypes
<1>4. row \in TaskRow
  BY <1>1, <1>2 DEF TaskRow
<1>5. task' = [task EXCEPT ![o] = row] /\ sla' = [sla EXCEPT ![o] = SlaAfter(o, action)]
  BY DEF Move
<1> HIDE DEF row
<1> QED
  BY <1>3, <1>4, <1>5 DEF TaskTypeOK, TaskRow, SlaRow

(* A transition that is not refused keeps the clock and the assignees.      *)
LEMMA TransitionKeeps ==
    ASSUME TaskInv, NEW o \in Objects, NEW u, NEW action \in Actions,
           Transition(o, u, action)
    PROVE  TaskInv'
<1>1. TaskTypeOK' /\ Move(o, action)
  BY MoveKeepsTypes DEF TaskInv, Transition
<1>2. task[o].status \in Rule[action].from
  BY DEF Transition, Refusal, Rule, Terminal, Actions
<1>3. action = "start" => task[o].assigned # {}
  BY <1>2 DEF Transition, Refusal, Guards
<1>4. /\ \A x \in Objects : x # o => task'[x] = task[x] /\ sla'[x] = sla[x]
      /\ task'[o].status = Rule[action].to
      /\ task'[o].assigned = IF action = "unassign" THEN {} ELSE task[o].assigned
      /\ sla'[o] = SlaAfter(o, action)
  BY <1>1 DEF Move, TaskInv, TaskTypeOK
<1>5. WorkHasAssignee'
  <2>1. task'[o].status \in {"assigned", "in_progress", "on_hold", "completed", "closed"}
            => task'[o].assigned # {}
    BY <1>2, <1>3, <1>4 DEF TaskInv, WorkHasAssignee, Rule, Actions
  <2> QED
    BY <2>1, <1>4 DEF TaskInv, WorkHasAssignee
<1>6. SlaFollowsWork'
  <2>1. /\ sla'[o].paused = IF action = "hold" THEN TRUE
                            ELSE IF action = "resume" THEN FALSE ELSE sla[o].paused
        /\ sla'[o].resolved = IF action = "complete" THEN TRUE
                              ELSE IF action = "reopen" THEN FALSE ELSE sla[o].resolved
    <3>1. sla[o] \in SlaRow
      BY DEF TaskInv, TaskTypeOK, SlaRow
    <3>2. sla'[o] = SlaAfter(o, action)
      BY <1>4
    <3>3. /\ sla'[o].paused = SlaAfter(o, action).paused
          /\ sla'[o].resolved = SlaAfter(o, action).resolved
      BY <3>2, Zenon
    <3> QED
      BY <3>1, <3>3, ClockAfter, Zenon
  <2>2. /\ task'[o].status = "on_hold" => sla'[o].paused
        /\ sla'[o].paused => task'[o].status \in {"on_hold", "cancelled"}
        /\ sla'[o].resolved <=> task'[o].status \in {"completed", "closed"}
    BY <2>1, <1>2, <1>4 DEF TaskInv, SlaFollowsWork, TaskTypeOK, Rule, Actions
  <2> QED
    BY <2>2, <1>4 DEF TaskInv, SlaFollowsWork
<1> QED
  BY <1>1, <1>5, <1>6 DEF TaskInv

LEMMA AssignKeeps ==
    ASSUME TaskInv, NEW o \in Objects, NEW u, NEW team \in SUBSET Workers,
           Assign(o, u, team)
    PROVE  TaskInv'
<1>1. TaskTypeOK'
  <2> DEFINE row == [task[o] EXCEPT !.assigned = team,
                                    !.status = IF @ \in {"new", "scheduled"}
                                               THEN "assigned" ELSE @]
  <2>1. task[o] \in TaskRow
    BY DEF TaskInv, TaskTypeOK, TaskRow
  <2>2. row \in TaskRow
    BY <2>1 DEF TaskRow, TaskStatus
  <2>3. task' = [task EXCEPT ![o] = row] /\ sla' = sla
    BY DEF Assign
  <2> HIDE DEF row
  <2> QED
    BY <2>2, <2>3 DEF TaskInv, TaskTypeOK, TaskRow
<1>2. /\ \A x \in Objects : x # o => task'[x] = task[x]
      /\ task'[o].assigned = team /\ team # {}
      /\ task'[o].status = IF task[o].status \in {"new", "scheduled"} THEN "assigned"
                           ELSE task[o].status
      /\ sla' = sla
  BY DEF Assign, TaskInv, TaskTypeOK
<1>3. WorkHasAssignee'
  BY <1>2 DEF TaskInv, WorkHasAssignee
<1>4. SlaFollowsWork'
  BY <1>2 DEF TaskInv, SlaFollowsWork
<1> QED
  BY <1>1, <1>3, <1>4 DEF TaskInv

(* Steps that leave status, assignees, pause and resolution alone.          *)
LEMMA QuietKeeps ==
    ASSUME TaskInv, TaskTypeOK',
           \A x \in Objects : /\ task'[x].status = task[x].status
                              /\ task'[x].assigned = task[x].assigned
                              /\ sla'[x].paused = sla[x].paused
                              /\ sla'[x].resolved = sla[x].resolved
    PROVE  TaskInv'
BY DEF TaskInv, WorkHasAssignee, SlaFollowsWork

LEMMA UpdateKeeps ==
    ASSUME TaskInv, NEW o \in Objects, NEW u, Update(o, u)
    PROVE  TaskInv'
<1>1. PICK there \in BOOLEAN :
         task' = [task EXCEPT ![o].evidence = there] /\ UNCHANGED sla
  BY DEF Update
<1>2. TaskTypeOK'
  BY <1>1 DEF TaskInv, TaskTypeOK
<1> QED
  BY <1>1, <1>2, QuietKeeps DEF TaskInv, TaskTypeOK

LEMMA AnsweredKeeps ==
    ASSUME TaskInv, NEW o \in Objects, Answered(o)
    PROVE  TaskInv'
<1>1. TaskTypeOK'
  BY DEF TaskInv, TaskTypeOK, Answered
<1> QED
  BY <1>1, QuietKeeps DEF TaskInv, TaskTypeOK, Answered

LEMMA OnlineKeeps == TaskInv /\ [Online]_taskVars => TaskInv'
<1> SUFFICES ASSUME TaskInv, [Online]_taskVars PROVE TaskInv'
  OBVIOUS
<1>1. CASE UNCHANGED taskVars
  BY <1>1 DEF taskVars, TaskInv, TaskTypeOK, WorkHasAssignee, SlaFollowsWork
<1>2. CASE Online
  BY <1>2, TransitionKeeps, AssignKeeps, UpdateKeeps, AnsweredKeeps DEF Online, Answer
<1> QED
  BY <1>1, <1>2

LEMMA InitKeeps == TaskInit => TaskInv
<1> SUFFICES ASSUME TaskInit PROVE TaskInv
  OBVIOUS
<1>1. /\ task \in [Objects -> [status : {"draft", "new", "scheduled", "assigned"},
                              assigned : SUBSET Workers, evidence : BOOLEAN]]
      /\ \A o \in Objects : task[o].assigned # {} <=> task[o].status = "assigned"
      /\ sla = [o \in Objects |-> [paused |-> FALSE, resolved |-> FALSE]]
  BY DEF TaskInit
<1>2. TaskTypeOK
  <2>1. \A o \in Objects : task[o] \in TaskRow
    BY <1>1 DEF TaskRow, TaskStatus
  <2>2. \A o \in Objects : sla[o] \in SlaRow
    BY <1>1 DEF SlaRow
  <2> QED
    BY <1>1, <2>1, <2>2 DEF TaskTypeOK, TaskRow, SlaRow
<1>3. WorkHasAssignee /\ SlaFollowsWork
  BY <1>1 DEF WorkHasAssignee, SlaFollowsWork
<1> QED
  BY <1>2, <1>3 DEF TaskInv

-----------------------------------------------------------------------------
(* The three invariants hold together in every reachable state.             *)
THEOREM TaskInductive == TaskSpec => []TaskInv
BY InitKeeps, OnlineKeeps, PTL DEF TaskSpec

(* Work that is assigned, under way, held or finished has an assignee,      *)
(* however many people assign, start, reopen and cancel.                    *)
THEOREM WorkIsAssigned == TaskSpec => []WorkHasAssignee
<1>1. TaskInv => WorkHasAssignee
  BY DEF TaskInv
<1> QED
  BY <1>1, TaskInductive, PTL

(* The SLA clock of every object is stopped while it is held and resolved   *)
(* while it is finished.                                                    *)
THEOREM ClockFollowsWork == TaskSpec => []SlaFollowsWork
<1>1. TaskInv => SlaFollowsWork
  BY DEF TaskInv
<1> QED
  BY <1>1, TaskInductive, PTL

-----------------------------------------------------------------------------
(* FieldSync.                                                               *)

USE SyncAssumption

Steps == {"idle", "lookup", "order", "apply", "classify", "store"}

PushRow ==
    [at : Steps, todo : SUBSET Indices, answer : [Indices -> {"none"} \cup Results],
     last : [Objects -> Nat \cup {Unknown}], blocked : SUBSET Objects,
     verdict : {"none", "conflict", "rejected"}]

(* A push carries mutations that exist, and is about to store a verdict.    *)
PushOK ==
    \A d \in Devices, s \in Slots :
        /\ push[d][s].todo \subseteq 1..Len(made[d])
        /\ push[d][s].at = "store" => push[d][s].verdict \in {"conflict", "rejected"}

SyncInv == TypeOK /\ TaskInv /\ PushOK /\ EffectIsRecorded

-----------------------------------------------------------------------------
(* Rows of push.                                                            *)

LEMMA IdleRow == Idle \in PushRow /\ Idle.todo = {} /\ Idle.at = "idle"
BY DEF Idle, PushRow, Steps, Unknown

(* Replacing one row keeps the type of the others.                          *)
LEMMA PutRow ==
    ASSUME NEW d \in Devices, NEW s \in Slots, NEW row \in PushRow,
           push \in [Devices -> [Slots -> PushRow]],
           push' = [push EXCEPT ![d][s] = row]
    PROVE  /\ push' \in [Devices -> [Slots -> PushRow]]
           /\ push'[d][s] = row
           /\ \A e \in Devices, t \in Slots : <<e, t>> # <<d, s>> => push'[e][t] = push[e][t]
OBVIOUS

LEMMA SeqNoType ==
    ASSUME NEW d, NEW i \in Indices
    PROVE  SeqNo(d, i) \in Nat
<1>1. IsFiniteSet(1..i)
  BY FS_Interval DEF Indices
<1>2. {j \in 1..i : Obj(d, j) = Obj(d, i)} \in SUBSET (1..i)
  OBVIOUS
<1> QED
  BY <1>1, <1>2, FS_Subset, FS_CardinalityType DEF SeqNo

(* The record of a result: a result for what had none, no change otherwise. *)
LEMMA RecordType ==
    ASSUME NEW d \in Devices, NEW i \in Indices, NEW r \in Results,
           stored \in [Devices -> [Indices -> {"none"} \cup Results]],
           stored' = Record(d, i, r)
    PROVE  /\ stored' \in [Devices -> [Indices -> {"none"} \cup Results]]
           /\ stored'[d][i] = IF stored[d][i] = "none" THEN r ELSE stored[d][i]
           /\ \A e \in Devices, j \in Indices :
                 <<e, j>> # <<d, i>> => stored'[e][j] = stored[e][j]
BY DEF Record

-----------------------------------------------------------------------------
(* What a step of the handler does to push and stored.                      *)

Shape(d, s, i, row) ==
    /\ push' = [push EXCEPT ![d][s] = row]
    /\ row \in PushRow
    /\ row.todo \subseteq push[d][s].todo
    /\ row.at = "store" => row.verdict \in {"conflict", "rejected"}
    /\ stored' = stored \/ \E r \in Results : stored' = Record(d, i, r)

LEMMA GotoShape ==
    ASSUME SyncInv, NEW d \in Devices, NEW s \in Slots, NEW i,
           NEW at \in Steps, NEW verdict \in {"none", "conflict", "rejected"},
           at = "store" => verdict # "none",
           Goto(d, s, at, verdict), stored' = stored
    PROVE  \E row : Shape(d, s, i, row)
<1> DEFINE row == [push[d][s] EXCEPT !.at = at, !.verdict = verdict]
<1>1. push[d][s] \in PushRow
  BY DEF SyncInv, TypeOK, PushRow, Steps
<1>2. /\ row \in PushRow /\ row.todo = push[d][s].todo
      /\ row.at = at /\ row.verdict = verdict
  BY <1>1 DEF PushRow
<1>3. push' = [push EXCEPT ![d][s] = row]
  BY DEF Goto, Continue
<1> HIDE DEF row
<1> QED
  BY <1>2, <1>3 DEF Shape

LEMMA ReplyShape ==
    ASSUME SyncInv, NEW d \in Devices, NEW s \in Slots, NEW i \in Indices,
           NEW r \in Results, Continue(d, s, Reply(push[d][s], i, r)),
           stored' = stored \/ \E q \in Results : stored' = Record(d, i, q)
    PROVE  \E row : Shape(d, s, i, row)
<1>1. push[d][s] \in PushRow
  BY DEF SyncInv, TypeOK, PushRow, Steps
<1> DEFINE row == Reply(push[d][s], i, r)
<1>2. push' = [push EXCEPT ![d][s] = row]
  BY DEF Continue
<1>3. row \in PushRow /\ row.at = "lookup" /\ row.todo \subseteq push[d][s].todo
  BY <1>1 DEF Reply, PushRow, Steps
<1> HIDE DEF row
<1>4. Shape(d, s, i, row)
  BY <1>2, <1>3 DEF Shape
<1> QED
  BY <1>4

(* The mutation at hand exists, and is about one of the objects.            *)
LEMMA AtHand ==
    ASSUME SyncInv, NEW d \in Devices, NEW s \in Slots, NEW i \in Indices,
           NEW step, At(d, s, i, step)
    PROVE  i \in 1..Len(made[d]) /\ made[d][i] \in Mutation /\ Obj(d, i) \in Objects
<1>1. i \in push[d][s].todo /\ push[d][s].todo \subseteq 1..Len(made[d])
  BY DEF At, SyncInv, PushOK
<1>2. made[d] \in Seq(Mutation)
  BY DEF SyncInv, TypeOK
<1>3. made[d][i] \in Mutation
  BY <1>1, <1>2
<1> QED
  BY <1>1, <1>3 DEF Obj, Mutation

LEMMA OrderShape ==
    ASSUME SyncInv, NEW d \in Devices, NEW s \in Slots, NEW i \in Indices,
           Order(d, s, i)
    PROVE  \E row : Shape(d, s, i, row)
<1>1. push[d][s] \in PushRow
  BY DEF SyncInv, TypeOK, PushRow, Steps
<1>2. Obj(d, i) \in Objects
  BY AtHand DEF Order
<1>3. CASE stored' = Record(d, i, "seq_gap") /\
           Continue(d, s, [Reply(push[d][s], i, "seq_gap") EXCEPT
                              !.blocked = @ \cup {Obj(d, i)}])
  <2> DEFINE reply == Reply(push[d][s], i, "seq_gap")
             row == [reply EXCEPT !.blocked = @ \cup {Obj(d, i)}]
  <2>0. "seq_gap" \in Results
    BY DEF Results
  <2>1. reply \in PushRow /\ reply.at = "lookup" /\ reply.todo \subseteq push[d][s].todo
    BY <1>1, <2>0 DEF Reply, PushRow, Steps
  <2>2. push' = [push EXCEPT ![d][s] = row]
    BY <1>3 DEF Continue
  <2> HIDE DEF reply
  <2>3. row \in PushRow /\ row.at = "lookup" /\ row.todo = reply.todo
    BY <2>1, <1>2 DEF PushRow
  <2> HIDE DEF row
  <2> QED
    BY <2>1, <2>2, <2>3, <1>3 DEF Shape, Results
<1>4. CASE stored' = stored /\
           Continue(d, s, [push[d][s] EXCEPT !.at = "apply",
                                              !.last[Obj(d, i)] = SeqNo(d, i)])
  <2> DEFINE row == [push[d][s] EXCEPT !.at = "apply", !.last[Obj(d, i)] = SeqNo(d, i)]
  <2>1. row \in PushRow /\ row.at = "apply" /\ row.todo = push[d][s].todo
    BY <1>1, <1>2, SeqNoType DEF PushRow, Steps
  <2>2. push' = [push EXCEPT ![d][s] = row]
    BY <1>4 DEF Continue
  <2> HIDE DEF row
  <2> QED
    BY <2>1, <2>2, <1>4 DEF Shape
<1> QED
  BY <1>3, <1>4 DEF Order

Step(d, s, i) ==
    \/ Lookup(d, s, i) \/ LookupFails(d, s, i) \/ Order(d, s, i)
    \/ Apply(d, s, i) \/ Refuse(d, s, i) \/ ApplyFails(d, s, i)
    \/ Classify(d, s, i) \/ Store(d, s, i) \/ StoreFails(d, s, i)

LEMMA HandlerShape ==
    ASSUME SyncInv, NEW d \in Devices, NEW s \in Slots, NEW i \in Indices, Step(d, s, i)
    PROVE  \E row : Shape(d, s, i, row)
<1>0. stored[d][i] \in {"none"} \cup Results /\ push[d][s] \in PushRow
  BY DEF SyncInv, TypeOK, PushRow, Steps
<1>1. CASE Lookup(d, s, i)
  <2>1. CASE stored[d][i] = "none"
    BY <1>1, <2>1, GotoShape DEF Lookup, Earlier, Steps
  <2>2. CASE stored[d][i] # "none"
    BY <1>0, <1>1, <2>2, ReplyShape DEF Lookup, Earlier
  <2> QED
    BY <2>1, <2>2
<1>2. CASE LookupFails(d, s, i)
  BY <1>2, GotoShape DEF LookupFails, Steps
<1>3. CASE Order(d, s, i)
  BY <1>3, OrderShape
<1>4. CASE Apply(d, s, i)
  BY <1>4, ReplyShape DEF Apply, EffectRecord, Results, Settled
<1>5. CASE Refuse(d, s, i)
  BY <1>5, GotoShape DEF Refuse, Steps
<1>6. CASE ApplyFails(d, s, i)
  BY <1>6, GotoShape DEF ApplyFails, Steps
<1>7. CASE Classify(d, s, i)
  BY <1>7, GotoShape DEF Classify, Steps
<1>8. CASE Store(d, s, i) \/ StoreFails(d, s, i)
  <2>1. push[d][s].verdict \in Results
    BY <1>8 DEF Store, StoreFails, At, SyncInv, PushOK, Results, Settled
  <2> QED
    BY <1>8, <2>1, ReplyShape DEF Store, StoreFails
<1> QED
  BY <1>1, <1>2, <1>3, <1>4, <1>5, <1>6, <1>7, <1>8 DEF Step

-----------------------------------------------------------------------------
(* Every step keeps the invariant.                                          *)

(* What others do to the objects while a device works offline.              *)
LEMMA OthersKeep == TaskInv /\ Others => TaskInv'
BY TransitionKeeps, AssignKeeps, UpdateKeeps, AnsweredKeeps DEF Others, Answer

(* What a handler does to the objects: a transition, an answer or nothing.  *)
LEMMA HandlerKeepsTasks ==
    ASSUME SyncInv, NEW d \in Devices, NEW s \in Slots, NEW i \in Indices, Step(d, s, i)
    PROVE  TaskInv'
<1>1. ASSUME UNCHANGED taskVars PROVE TaskInv'
  BY <1>1 DEF SyncInv, TaskInv, taskVars, TaskTypeOK, WorkHasAssignee, SlaFollowsWork
<1>2. CASE Apply(d, s, i)
  <2>1. made[d][i].obj \in Objects /\ made[d][i].action \in Kinds
    BY <1>2, AtHand DEF Apply, Mutation
  <2>2. CASE made[d][i].action = "finding"
    BY <1>1, <1>2, <2>2 DEF Apply, Effect, FieldWork
  <2>3. CASE made[d][i].action = "answer"
    <3>1. Answered(made[d][i].obj)
      BY <1>2, <2>3 DEF Apply, Effect, FieldWork
    <3> QED
      BY <2>1, <3>1, AnsweredKeeps DEF SyncInv
  <2>4. CASE made[d][i].action \in FieldWork
    <3>1. made[d][i].action \notin {"finding", "answer"} /\ made[d][i].action \in Actions
      BY <2>4 DEF FieldWork, Actions, Rule
    <3>2. Transition(made[d][i].obj, Owner[d], made[d][i].action)
      BY <1>2, <2>4, <3>1 DEF Apply, Verdict, Effect, Transition
    <3> QED
      BY <2>1, <3>1, <3>2, TransitionKeeps DEF SyncInv
  <2> QED
    BY <2>1, <2>2, <2>3, <2>4
<1>3. CASE Store(d, s, i)
  <2>1. Obj(d, i) \in Objects
    BY <1>3, AtHand DEF Store
  <2>2. UNCHANGED taskVars \/ Answered(Obj(d, i))
    BY <1>3 DEF Store, taskVars
  <2> QED
    BY <1>1, <2>1, <2>2, AnsweredKeeps DEF SyncInv
<1> QED
  BY <1>1, <1>2, <1>3 DEF Step, Lookup, LookupFails, Order, Refuse, ApplyFails, Classify,
                          StoreFails

(* A handler leaves a result as it is, if there is one.                     *)
LEMMA HandlerKeepsResults ==
    ASSUME SyncInv, NEW d \in Devices, NEW s \in Slots, NEW i \in Indices, Step(d, s, i)
    PROVE  /\ stored' \in [Devices -> [Indices -> {"none"} \cup Results]]
           /\ \A e \in Devices, j \in Indices :
                 stored[e][j] # "none" => stored'[e][j] = stored[e][j]
<1>1. stored \in [Devices -> [Indices -> {"none"} \cup Results]]
  BY DEF SyncInv, TypeOK
<1>2. stored' = stored \/ \E r \in Results : stored' = Record(d, i, r)
  BY HandlerShape DEF Shape
<1>3. CASE stored' = stored
  BY <1>1, <1>3
<1>4. ASSUME NEW r \in Results, stored' = Record(d, i, r)
      PROVE  /\ stored' \in [Devices -> [Indices -> {"none"} \cup Results]]
             /\ \A e \in Devices, j \in Indices :
                   stored[e][j] # "none" => stored'[e][j] = stored[e][j]
  BY <1>1, <1>4, RecordType
<1> QED
  BY <1>2, <1>3, <1>4

LEMMA HandlerKeepsPushes ==
    ASSUME SyncInv, NEW d \in Devices, NEW s \in Slots, NEW i \in Indices, Step(d, s, i)
    PROVE  push' \in [Devices -> [Slots -> PushRow]] /\ PushOK'
<1>1. PICK row : Shape(d, s, i, row)
  BY HandlerShape
<1>2. push \in [Devices -> [Slots -> PushRow]]
  BY DEF SyncInv, TypeOK, PushRow, Steps
<1>3. /\ push' \in [Devices -> [Slots -> PushRow]]
      /\ push'[d][s] = row
      /\ \A e \in Devices, t \in Slots : <<e, t>> # <<d, s>> => push'[e][t] = push[e][t]
  BY <1>1, <1>2, PutRow DEF Shape
<1>4. made' = made
  BY DEF Step, Lookup, LookupFails, Order, Apply, Refuse, ApplyFails, Classify, Store,
         StoreFails
<1>5. ASSUME NEW e \in Devices, NEW t \in Slots
      PROVE  /\ push'[e][t].todo \subseteq 1..Len(made'[e])
             /\ push'[e][t].at = "store" => push'[e][t].verdict \in {"conflict", "rejected"}
  BY <1>1, <1>3, <1>4 DEF SyncInv, PushOK, Shape
<1> QED
  BY <1>3, <1>5 DEF PushOK

LEMMA HandlerKeeps ==
    ASSUME SyncInv, NEW d \in Devices, NEW s \in Slots, NEW i \in Indices, Step(d, s, i)
    PROVE  SyncInv'
<1>1. /\ UNCHANGED <<made, told>>
      /\ kept' = kept \/ PreserveEvidence(d, i)
      /\ faults' = faults \/ (faults < MaxFaults /\ faults' = faults + 1)
      /\ done' = done \/ /\ done' = [done EXCEPT ![d][i] = @ + 1]
                          /\ stored' = Record(d, i, "applied")
  BY DEF Step, Lookup, LookupFails, Order, Apply, Refuse, ApplyFails, Classify, Store,
         StoreFails, Fault, EffectRecord
<1>2. kept' \in [Devices -> SUBSET Indices]
  <2>1. kept \in [Devices -> SUBSET Indices]
    BY DEF SyncInv, TypeOK
  <2>2. kept' = kept \/ kept' = [kept EXCEPT ![d] = @ \cup {i}]
    BY <1>1 DEF PreserveEvidence
  <2> QED
    BY <2>1, <2>2
<1>3. faults' \in 0..MaxFaults
  BY <1>1 DEF SyncInv, TypeOK
<1>4. done' \in [Devices -> [Indices -> Nat]]
  <2>1. done \in [Devices -> [Indices -> Nat]]
    BY DEF SyncInv, TypeOK
  <2>2. done' = done \/ done' = [done EXCEPT ![d][i] = @ + 1]
    BY <1>1
  <2> QED
    BY <2>1, <2>2
<1>5. TypeOK'
  <2>1. TaskTypeOK'
    BY HandlerKeepsTasks DEF TaskInv
  <2> QED
    BY <1>1, <1>2, <1>3, <1>4, <2>1, HandlerKeepsResults, HandlerKeepsPushes
    DEF SyncInv, TypeOK, PushRow, Steps
<1>6. EffectIsRecorded'
  <2>1. stored \in [Devices -> [Indices -> {"none"} \cup Results]] /\ "applied" \in Results
    BY DEF SyncInv, TypeOK, Results, Settled
  <2>2. CASE done' = done
    BY <2>2, HandlerKeepsResults DEF SyncInv, EffectIsRecorded
  <2>3. CASE done' = [done EXCEPT ![d][i] = @ + 1] /\ stored' = Record(d, i, "applied")
    <3>1. done \in [Devices -> [Indices -> Nat]]
      BY DEF SyncInv, TypeOK
    <3>2. \A e \in Devices, j \in Indices :
             <<e, j>> # <<d, i>> => done'[e][j] = done[e][j]
      BY <2>3, <3>1
    <3>3. /\ stored'[d][i] = IF stored[d][i] = "none" THEN "applied" ELSE stored[d][i]
          /\ \A e \in Devices, j \in Indices :
                <<e, j>> # <<d, i>> => stored'[e][j] = stored[e][j]
      BY <2>1, <2>3, RecordType
    <3> QED
      BY <3>2, <3>3 DEF SyncInv, EffectIsRecorded
  <2> QED
    BY <1>1, <2>2, <2>3
<1> QED
  BY <1>5, <1>6, HandlerKeepsTasks, HandlerKeepsPushes DEF SyncInv

(* The device queues a mutation.                                            *)
LEMMA MakeKeeps ==
    ASSUME SyncInv, NEW d \in Devices, NEW o \in Objects, NEW action \in Kinds,
           Make(d, o, action)
    PROVE  SyncInv'
<1> DEFINE m == [obj |-> o, action |-> action]
<1>1. m \in Mutation
  BY DEF Mutation
<1>2. made \in [Devices -> Seq(Mutation)] /\ Len(made[d]) < MaxMade
  BY DEF SyncInv, TypeOK, Make
<1>3. made' = [made EXCEPT ![d] = Append(made[d], m)]
  BY DEF Make
<1>4. Append(made[d], m) \in Seq(Mutation) /\ Len(Append(made[d], m)) = Len(made[d]) + 1
  BY <1>1, <1>2
<1>5. /\ made' \in [Devices -> Seq(Mutation)]
      /\ \A e \in Devices : Len(made'[e]) = IF e = d THEN Len(made[d]) + 1 ELSE Len(made[e])
  BY <1>2, <1>3, <1>4
<1>6. UNCHANGED <<task, sla, told, push, stored, done, kept, faults>>
  BY DEF Make, taskVars
<1>7. Len(made[d]) \in Nat
  BY <1>2
<1>8. TaskInv'
  BY <1>6 DEF SyncInv, TaskInv, TaskTypeOK, WorkHasAssignee, SlaFollowsWork
<1>9. \A e \in Devices : Len(made'[e]) <= MaxMade /\ 1..Len(made[e]) \subseteq 1..Len(made'[e])
  <2> TAKE e \in Devices
  <2>1. Len(made[e]) \in Nat /\ Len(made[e]) <= MaxMade
    BY <1>2 DEF SyncInv, TypeOK
  <2> QED
    BY <1>2, <1>5, <1>7, <2>1
<1>10. TypeOK'
  BY <1>5, <1>6, <1>8, <1>9 DEF SyncInv, TypeOK, TaskInv
<1>11. PushOK'
  BY <1>6, <1>9 DEF SyncInv, PushOK
<1> QED
  BY <1>6, <1>8, <1>10, <1>11 DEF SyncInv, EffectIsRecorded

(* A push begins or ends; on its end the device may learn an answer.        *)
LEMMA DeviceKeeps ==
    ASSUME SyncInv, NEW d \in Devices, NEW s \in Slots, Device(d, s)
    PROVE  SyncInv'
<1>1. UNCHANGED <<task, sla, made, stored, done, kept, faults>>
  BY DEF Device, Send, Receive, Lose, taskVars
<1>2. push \in [Devices -> [Slots -> PushRow]]
  BY DEF SyncInv, TypeOK, PushRow, Steps
<1>3. Pending(d) \subseteq 1..Len(made[d]) /\ Pending(d) \subseteq Indices
  <2>1. Len(made[d]) \in Nat /\ Len(made[d]) <= MaxMade
    BY DEF SyncInv, TypeOK
  <2> QED
    BY <2>1 DEF Pending, Indices
<1>4. \E row \in PushRow :
         /\ push' = [push EXCEPT ![d][s] = row]
         /\ row.todo \subseteq 1..Len(made[d])
         /\ row.at # "store"
  <2>1. CASE Send(d, s)
    <3> DEFINE row == [Idle EXCEPT !.at = "lookup", !.todo = Pending(d)]
    <3>1. row \in PushRow /\ row.todo = Pending(d) /\ row.at = "lookup"
      BY <1>3, IdleRow DEF PushRow, Steps
    <3>2. push' = [push EXCEPT ![d][s] = row]
      BY <2>1 DEF Send
    <3> HIDE DEF row
    <3> QED
      BY <1>3, <3>1, <3>2
  <2>2. CASE Receive(d, s) \/ Lose(d, s)
    BY <2>2, IdleRow DEF Receive, Lose
  <2> QED
    BY <2>1, <2>2 DEF Device
<1>5. push' \in [Devices -> [Slots -> PushRow]] /\ PushOK'
  <2>1. PICK row \in PushRow :
           /\ push' = [push EXCEPT ![d][s] = row]
           /\ row.todo \subseteq 1..Len(made[d])
           /\ row.at # "store"
    BY <1>4
  <2>2. /\ push' \in [Devices -> [Slots -> PushRow]]
        /\ push'[d][s] = row
        /\ \A e \in Devices, t \in Slots : <<e, t>> # <<d, s>> => push'[e][t] = push[e][t]
    BY <1>2, <2>1, PutRow
  <2>3. ASSUME NEW e \in Devices, NEW t \in Slots
        PROVE  /\ push'[e][t].todo \subseteq 1..Len(made'[e])
               /\ push'[e][t].at = "store" => push'[e][t].verdict \in {"conflict", "rejected"}
    BY <1>1, <2>1, <2>2 DEF SyncInv, PushOK
  <2> QED
    BY <2>2, <2>3 DEF PushOK
<1>6. told' \in [Devices -> [Indices -> {"none"} \cup Settled]]
  <2>1. told \in [Devices -> [Indices -> {"none"} \cup Settled]]
    BY DEF SyncInv, TypeOK
  <2> QED
    BY <2>1 DEF Device, Send, Receive, Lose
<1>7. TaskInv'
  BY <1>1 DEF SyncInv, TaskInv, TaskTypeOK, WorkHasAssignee, SlaFollowsWork
<1>8. TypeOK'
  BY <1>1, <1>5, <1>6, <1>7 DEF SyncInv, TypeOK, TaskInv, PushRow, Steps
<1> QED
  BY <1>1, <1>5, <1>7, <1>8 DEF SyncInv, EffectIsRecorded

LEMMA NextKeeps == SyncInv /\ [Next]_vars => SyncInv'
<1> SUFFICES ASSUME SyncInv, [Next]_vars PROVE SyncInv'
  OBVIOUS
<1>1. ASSUME UNCHANGED syncVars, TaskInv' PROVE SyncInv'
  BY <1>1 DEF SyncInv, syncVars, TypeOK, PushOK, EffectIsRecorded, TaskInv
<1>2. CASE UNCHANGED vars
  <2>1. TaskInv'
    BY <1>2 DEF vars, taskVars, SyncInv, TaskInv, TaskTypeOK, WorkHasAssignee, SlaFollowsWork
  <2> QED
    BY <1>1, <1>2, <2>1 DEF vars
<1>3. CASE Others /\ UNCHANGED syncVars
  BY <1>1, <1>3, OthersKeep DEF SyncInv
<1>4. ASSUME NEW d \in Devices, NEW o \in Objects, NEW action \in Kinds, Make(d, o, action)
      PROVE  SyncInv'
  BY <1>4, MakeKeeps
<1>5. ASSUME NEW d \in Devices, NEW s \in Slots, Device(d, s)
      PROVE  SyncInv'
  BY <1>5, DeviceKeeps
<1>6. ASSUME NEW d \in Devices, NEW s \in Slots, Handle(d, s)
      PROVE  SyncInv'
  <2>1. PICK i \in Indices : Step(d, s, i)
    BY <1>6 DEF Handle, Step
  <2> QED
    BY <2>1, HandlerKeeps
<1> QED
  BY <1>2, <1>3, <1>4, <1>5, <1>6 DEF Next

LEMMA SyncInitKeeps == Init => SyncInv
<1> SUFFICES ASSUME Init PROVE SyncInv
  OBVIOUS
<1>1. TaskInv
  BY InitKeeps DEF Init
<1>2. \A d \in Devices : made[d] = <<>>
  BY DEF Init
<1>3. push = [d \in Devices |-> [s \in Slots |-> Idle]]
  BY DEF Init
<1>4. push \in [Devices -> [Slots -> PushRow]]
  BY <1>3, IdleRow
<1>5. PushOK
  BY <1>3, IdleRow DEF PushOK
<1>6. made \in [Devices -> Seq(Mutation)] /\ \A d \in Devices : Len(made[d]) <= MaxMade
  BY <1>2 DEF Init
<1>7. TypeOK
  BY <1>1, <1>4, <1>6 DEF Init, TypeOK, TaskInv, PushRow, Steps
<1>8. EffectIsRecorded
  BY DEF Init, EffectIsRecorded
<1> QED
  BY <1>1, <1>5, <1>7, <1>8 DEF SyncInv

-----------------------------------------------------------------------------
(* The invariant of every synchronisation, serial or not.                   *)
THEOREM SyncInductive == Spec => []SyncInv
BY SyncInitKeeps, NextKeeps, PTL DEF Spec

(* However many pushes overlap and whichever transactions fail, the         *)
(* columns of the tables and the state of every handler keep their types.   *)
THEOREM TypeCorrect == Spec => []TypeOK
<1>1. SyncInv => TypeOK
  BY DEF SyncInv
<1> QED
  BY <1>1, SyncInductive, PTL

(* A mutation that took effect is found by every later lookup: dispatch and *)
(* record share a transaction.                                              *)
THEOREM EffectRecorded == Spec => []EffectIsRecorded
<1>1. SyncInv => EffectIsRecorded
  BY DEF SyncInv
<1> QED
  BY <1>1, SyncInductive, PTL

(* Mutations sent by devices keep work assigned and its clock in step, as   *)
(* the requests of supervisors do.                                          *)
THEOREM SyncKeepsWorkAssigned == Spec => [](WorkHasAssignee /\ SlaFollowsWork)
<1>1. SyncInv => WorkHasAssignee /\ SlaFollowsWork
  BY DEF SyncInv, TaskInv
<1> QED
  BY <1>1, SyncInductive, PTL

(* The first result of a mutation is its result.                            *)
THEOREM ResultStays == Spec => ResultIsFinal
<1>1. ASSUME SyncInv, [Next]_vars
      PROVE  [\A d \in Devices, i \in Indices :
                 stored[d][i] # "none" => stored'[d][i] = stored[d][i]]_stored
  <2>1. CASE stored' = stored
    BY <2>1
  <2>2. CASE \E d \in Devices, s \in Slots : Handle(d, s)
    <3>1. PICK d \in Devices, s \in Slots, i \in Indices : Step(d, s, i)
      BY <2>2 DEF Handle, Step
    <3> QED
      BY <1>1, <3>1, HandlerKeepsResults
  <2> QED
    BY <1>1, <2>1, <2>2 DEF Next, vars, syncVars, Make, Device, Send, Receive, Lose
<1> QED
  BY <1>1, SyncInductive, PTL DEF Spec, ResultIsFinal

-----------------------------------------------------------------------------
(* Serial pushes: a handler that is past the lookup works on a mutation     *)
(* without a result, and every answer is the recorded one.                  *)

SerialInv ==
    /\ \A d \in Devices, i \in Indices :
          /\ done[d][i] = IF stored[d][i] = "applied" THEN 1 ELSE 0
          /\ told[d][i] # "none" => told[d][i] = stored[d][i]
    /\ \A d \in Devices, s \in Slots, i \in Indices :
          /\ push[d][s].answer[i] # "none" => push[d][s].answer[i] = stored[d][i]
          /\ push[d][s].at \notin {"idle", "lookup"} /\ At(d, s, i, push[d][s].at)
                => stored[d][i] = "none"

(* The handler goes on with a mutation that has no result.                  *)
Quiet(d, s, i) ==
    /\ UNCHANGED <<stored, done, told>>
    /\ stored[d][i] = "none" /\ At(d, s, i, push[d][s].at)
    /\ push'[d][s].todo = push[d][s].todo
    /\ push'[d][s].answer = push[d][s].answer

(* The handler is through with a mutation: its answer is the recorded one.  *)
Settle(d, s, i, r) ==
    /\ stored[d][i] \in {"none", r}
    /\ stored'[d][i] = r
    /\ done'[d][i] = IF r = "applied" THEN 1 ELSE 0
    /\ \A e \in Devices, j \in Indices :
          <<e, j>> # <<d, i>> => stored'[e][j] = stored[e][j] /\ done'[e][j] = done[e][j]
    /\ told' = told
    /\ push'[d][s].at = "lookup"
    /\ push'[d][s].answer = [push[d][s].answer EXCEPT ![i] = r]

LEMMA GotoQuiet ==
    ASSUME SyncInv, NEW d \in Devices, NEW s \in Slots, NEW i \in Indices,
           NEW at \in Steps, NEW verdict \in {"none", "conflict", "rejected"},
           Goto(d, s, at, verdict), UNCHANGED <<stored, done, told>>,
           stored[d][i] = "none", At(d, s, i, push[d][s].at)
    PROVE  Quiet(d, s, i)
<1> DEFINE row == [push[d][s] EXCEPT !.at = at, !.verdict = verdict]
<1>1. push \in [Devices -> [Slots -> PushRow]] /\ push[d][s] \in PushRow
  BY DEF SyncInv, TypeOK, PushRow, Steps
<1>2. row.todo = push[d][s].todo /\ row.answer = push[d][s].answer
  BY <1>1 DEF PushRow
<1>3. push' = [push EXCEPT ![d][s] = row]
  BY DEF Goto, Continue
<1> HIDE DEF row
<1>4. push'[d][s] = row
  BY <1>1, <1>3
<1> QED
  BY <1>2, <1>4 DEF Quiet

LEMMA ReplySettles ==
    ASSUME SyncInv, SerialInv, NEW d \in Devices, NEW s \in Slots, NEW i \in Indices,
           NEW r \in Results, Continue(d, s, Reply(push[d][s], i, r)), told' = told,
           \/ stored[d][i] = r /\ UNCHANGED <<stored, done>>
           \/ /\ stored[d][i] = "none" /\ stored' = Record(d, i, r)
              /\ r # "applied" /\ done' = done
           \/ /\ stored[d][i] = "none" /\ stored' = Record(d, i, r)
              /\ r = "applied" /\ done' = [done EXCEPT ![d][i] = @ + 1]
    PROVE  Settle(d, s, i, r)
<1> DEFINE row == Reply(push[d][s], i, r)
<1>1. push \in [Devices -> [Slots -> PushRow]] /\ push[d][s] \in PushRow
  BY DEF SyncInv, TypeOK, PushRow, Steps
<1>2. row.at = "lookup" /\ row.answer = [push[d][s].answer EXCEPT ![i] = r]
  BY <1>1 DEF Reply, PushRow, Steps
<1>3. push' = [push EXCEPT ![d][s] = row]
  BY DEF Continue
<1> HIDE DEF row
<1>4. push'[d][s] = row
  BY <1>1, <1>3
<1>5. /\ stored \in [Devices -> [Indices -> {"none"} \cup Results]]
      /\ done \in [Devices -> [Indices -> Nat]]
      /\ done[d][i] = IF stored[d][i] = "applied" THEN 1 ELSE 0
      /\ "none" \notin Results
  BY DEF SyncInv, TypeOK, SerialInv, Results, Settled
<1>6. /\ stored[d][i] \in {"none", r} /\ stored'[d][i] = r
      /\ \A e \in Devices, j \in Indices :
            <<e, j>> # <<d, i>> => stored'[e][j] = stored[e][j]
  <2>1. CASE stored' = Record(d, i, r) /\ stored[d][i] = "none"
    BY <2>1, <1>5, RecordType
  <2> QED
    BY <2>1
<1>7. /\ done'[d][i] = IF r = "applied" THEN 1 ELSE 0
      /\ \A e \in Devices, j \in Indices :
            <<e, j>> # <<d, i>> => done'[e][j] = done[e][j]
  <2>1. CASE done' = [done EXCEPT ![d][i] = @ + 1] /\ r = "applied" /\ stored[d][i] = "none"
    BY <2>1, <1>5
  <2>2. CASE done' = done /\ (stored[d][i] = r \/ (stored[d][i] = "none" /\ r # "applied"))
    BY <2>2, <1>5
  <2> QED
    BY <2>1, <2>2
<1> QED
  BY <1>2, <1>4, <1>6, <1>7 DEF Settle

LEMMA OrderSerial ==
    ASSUME SyncInv, SerialInv, NEW d \in Devices, NEW s \in Slots, NEW i \in Indices,
           Order(d, s, i)
    PROVE  Quiet(d, s, i) \/ Settle(d, s, i, "seq_gap")
<1>1. push \in [Devices -> [Slots -> PushRow]] /\ push[d][s] \in PushRow
  BY DEF SyncInv, TypeOK, PushRow, Steps
<1>2. /\ Obj(d, i) \in Objects /\ "seq_gap" \in Results /\ UNCHANGED <<told, done>>
      /\ At(d, s, i, push[d][s].at) /\ push[d][s].at = "order"
  BY AtHand DEF Order, Results, At
<1>3. stored[d][i] = "none"
  BY <1>2 DEF SerialInv
<1>4. CASE stored' = Record(d, i, "seq_gap") /\
           Continue(d, s, [Reply(push[d][s], i, "seq_gap") EXCEPT
                              !.blocked = @ \cup {Obj(d, i)}])
  <2> DEFINE reply == Reply(push[d][s], i, "seq_gap")
             row == [reply EXCEPT !.blocked = @ \cup {Obj(d, i)}]
  <2>1. /\ reply \in PushRow /\ reply.at = "lookup"
        /\ reply.answer = [push[d][s].answer EXCEPT ![i] = "seq_gap"]
    BY <1>1, <1>2 DEF Reply, PushRow, Steps
  <2>2. push' = [push EXCEPT ![d][s] = row]
    BY <1>4 DEF Continue
  <2> HIDE DEF reply
  <2>3. row.at = "lookup" /\ row.answer = reply.answer
    BY <2>1 DEF PushRow
  <2> HIDE DEF row
  <2>4. push'[d][s] = row
    BY <1>1, <2>2
  <2>5. /\ stored'[d][i] = "seq_gap"
        /\ \A e \in Devices, j \in Indices :
              <<e, j>> # <<d, i>> => stored'[e][j] = stored[e][j]
    <3>1. stored \in [Devices -> [Indices -> {"none"} \cup Results]]
      BY DEF SyncInv, TypeOK
    <3> QED
      BY <1>2, <1>3, <1>4, <3>1, RecordType
  <2>6. done'[d][i] = 0
    BY <1>2, <1>3 DEF SerialInv
  <2> QED
    BY <1>2, <1>3, <2>1, <2>3, <2>4, <2>5, <2>6 DEF Settle
<1>5. CASE stored' = stored /\
           Continue(d, s, [push[d][s] EXCEPT !.at = "apply",
                                              !.last[Obj(d, i)] = SeqNo(d, i)])
  <2> DEFINE row == [push[d][s] EXCEPT !.at = "apply", !.last[Obj(d, i)] = SeqNo(d, i)]
  <2>1. row.todo = push[d][s].todo /\ row.answer = push[d][s].answer
    BY <1>1 DEF PushRow, Steps
  <2>2. push' = [push EXCEPT ![d][s] = row]
    BY <1>5 DEF Continue
  <2> HIDE DEF row
  <2>3. push'[d][s] = row
    BY <1>1, <2>2
  <2> QED
    BY <1>2, <1>3, <1>5, <2>1, <2>3 DEF Quiet
<1> QED
  BY <1>4, <1>5 DEF Order

(* Neither a lookup nor a record fails, so every step of a handler goes on  *)
(* or settles the mutation.                                                 *)
LEMMA SerialStep ==
    ASSUME Serial, SyncInv, SerialInv,
           NEW d \in Devices, NEW s \in Slots, NEW i \in Indices, Step(d, s, i)
    PROVE  Quiet(d, s, i) \/ \E r \in Results : Settle(d, s, i, r)
<1>0. At(d, s, i, push[d][s].at)
  BY DEF Step, Lookup, LookupFails, Order, Apply, Refuse, ApplyFails, Classify, Store,
         StoreFails, At
<1>1. push[d][s].at \notin {"idle", "lookup"} => stored[d][i] = "none"
  BY <1>0 DEF SerialInv
<1>2. CASE Lookup(d, s, i)
  <2>1. stored[d][i] \in {"none"} \cup Results
    BY DEF SyncInv, TypeOK
  <2>2. UNCHANGED <<stored, done, told>>
    BY <1>2 DEF Lookup
  <2>3. CASE stored[d][i] = "none"
    <3>1. Goto(d, s, "order", "none")
      BY <1>2, <2>3 DEF Lookup, Earlier
    <3> QED
      BY <1>0, <2>2, <2>3, <3>1, GotoQuiet DEF Steps
  <2>4. CASE stored[d][i] # "none"
    <3>1. Continue(d, s, Reply(push[d][s], i, stored[d][i]))
      BY <1>2, <2>4 DEF Lookup, Earlier
    <3>2. Settle(d, s, i, stored[d][i])
      BY <2>1, <2>2, <2>4, <3>1, ReplySettles
    <3> QED
      BY <2>1, <2>4, <3>2
  <2> QED
    BY <2>3, <2>4
<1>3. CASE Order(d, s, i)
  BY <1>3, OrderSerial DEF Results
<1>4. CASE Apply(d, s, i)
  <2>1. "applied" \in Results /\ stored[d][i] = "none"
    BY <1>1, <1>4 DEF Apply, At, Results, Settled
  <2>2. Settle(d, s, i, "applied")
    BY <1>4, <2>1, ReplySettles DEF Apply, EffectRecord
  <2> QED
    BY <2>1, <2>2
<1>5. CASE Refuse(d, s, i) \/ ApplyFails(d, s, i) \/ Classify(d, s, i)
  <2>1. stored[d][i] = "none" /\ UNCHANGED <<stored, done, told>>
    BY <1>1, <1>5 DEF Refuse, ApplyFails, Classify, At
  <2>2. \E at \in Steps, verdict \in {"none", "conflict", "rejected"} :
           Goto(d, s, at, verdict)
    BY <1>5 DEF Refuse, ApplyFails, Classify, Steps
  <2> QED
    BY <1>0, <2>1, <2>2, GotoQuiet
<1>6. CASE Store(d, s, i)
  <2>1. push[d][s].verdict \in Results /\ push[d][s].verdict # "applied"
    BY <1>6 DEF Store, At, SyncInv, PushOK, Results, Settled
  <2>2. stored[d][i] = "none"
    BY <1>1, <1>6 DEF Store, At
  <2>3. Settle(d, s, i, push[d][s].verdict)
    BY <1>6, <2>1, <2>2, ReplySettles DEF Store
  <2> QED
    BY <2>1, <2>3
<1>7. ~LookupFails(d, s, i) /\ ~StoreFails(d, s, i)
  BY DEF Serial, LookupFails, StoreFails, Fault
<1> QED
  BY <1>2, <1>3, <1>4, <1>5, <1>6, <1>7 DEF Step

LEMMA HandlerKeepsSerial ==
    ASSUME Serial, SyncInv, SerialInv,
           NEW d \in Devices, NEW s \in Slots, NEW i \in Indices, Step(d, s, i)
    PROVE  SerialInv'
<1>1. \A e \in Devices, t \in Slots : e # d => push'[e][t] = push[e][t]
  <2>1. PICK row : Shape(d, s, i, row)
    BY HandlerShape
  <2>2. push \in [Devices -> [Slots -> PushRow]]
    BY DEF SyncInv, TypeOK, PushRow, Steps
  <2> QED
    BY <2>1, <2>2, PutRow DEF Shape
<1>2. \A t \in Slots : t = s
  BY DEF Serial
<1>3. push[d][s].answer \in [Indices -> {"none"} \cup Results]
  BY DEF SyncInv, TypeOK
<1>4. CASE Quiet(d, s, i)
  <2>1. ASSUME NEW t \in Slots, NEW j \in Indices
        PROVE  /\ push'[d][t].answer[j] # "none" => push'[d][t].answer[j] = stored'[d][j]
               /\ At(d, t, j, push[d][t].at)' => stored'[d][j] = "none"
    <3>1. t = s
      BY <1>2
    <3>2. push'[d][s].answer[j] # "none" => push'[d][s].answer[j] = stored'[d][j]
      BY <1>4 DEF Quiet, SerialInv
    <3>3. ASSUME At(d, s, j, push[d][s].at)' PROVE stored'[d][j] = "none"
      <4>1. i \in push[d][s].todo /\ \A k \in push[d][s].todo : i <= k
        BY <1>4 DEF Quiet, At
      <4>2. j \in push[d][s].todo /\ \A k \in push[d][s].todo : j <= k
        BY <1>4, <3>3 DEF Quiet, At
      <4>3. i \in Nat /\ j \in Nat
        BY DEF Indices
      <4>4. i = j
        BY <4>1, <4>2, <4>3
      <4> QED
        BY <1>4, <4>4 DEF Quiet
    <3> QED
      BY <3>1, <3>2, <3>3
  <2>2. ASSUME NEW e \in Devices, NEW t \in Slots, NEW j \in Indices, e # d
        PROVE  /\ push'[e][t].answer[j] # "none" => push'[e][t].answer[j] = stored'[e][j]
               /\ push'[e][t].at \notin {"idle", "lookup"} /\ At(e, t, j, push[e][t].at)'
                     => stored'[e][j] = "none"
    BY <1>1, <1>4, <2>2 DEF Quiet, SerialInv, At
  <2> QED
    BY <1>4, <2>1, <2>2 DEF Quiet, SerialInv
<1>5. ASSUME NEW r \in Results, Settle(d, s, i, r) PROVE SerialInv'
  <2>1. ASSUME NEW t \in Slots, NEW j \in Indices
        PROVE  /\ push'[d][t].answer[j] # "none" => push'[d][t].answer[j] = stored'[d][j]
               /\ push'[d][t].at = "lookup"
    <3>1. t = s
      BY <1>2
    <3>2. push'[d][s].at = "lookup"
      BY <1>5 DEF Settle
    <3>3. push'[d][s].answer[j] = IF j = i THEN r ELSE push[d][s].answer[j]
      BY <1>3, <1>5 DEF Settle
    <3>4. stored'[d][j] = IF j = i THEN r ELSE stored[d][j]
      BY <1>5 DEF Settle
    <3>5. push[d][s].answer[j] # "none" => push[d][s].answer[j] = stored[d][j]
      BY DEF SerialInv
    <3> QED
      BY <3>1, <3>2, <3>3, <3>4, <3>5
  <2>2. ASSUME NEW e \in Devices, NEW t \in Slots, NEW j \in Indices, e # d
        PROVE  /\ push'[e][t].answer[j] # "none" => push'[e][t].answer[j] = stored'[e][j]
               /\ push'[e][t].at \notin {"idle", "lookup"} /\ At(e, t, j, push[e][t].at)'
                     => stored'[e][j] = "none"
    BY <1>1, <1>5, <2>2 DEF Settle, SerialInv, At
  <2>3. ASSUME NEW e \in Devices, NEW j \in Indices
        PROVE  /\ done'[e][j] = IF stored'[e][j] = "applied" THEN 1 ELSE 0
               /\ told'[e][j] # "none" => told'[e][j] = stored'[e][j]
    <3>1. CASE e = d /\ j = i
      BY <1>5, <3>1 DEF Settle, SerialInv
    <3>2. CASE <<e, j>> # <<d, i>>
      BY <1>5, <3>2 DEF Settle, SerialInv
    <3> QED
      BY <3>1, <3>2
  <2> QED
    BY <2>1, <2>2, <2>3 DEF SerialInv
<1> QED
  BY <1>4, <1>5, SerialStep

LEMMA DeviceKeepsSerial ==
    ASSUME SyncInv, SerialInv, NEW d \in Devices, NEW s \in Slots, Device(d, s)
    PROVE  SerialInv'
<1>1. UNCHANGED <<stored, done>>
  BY DEF Device, Send, Receive, Lose
<1>2. push \in [Devices -> [Slots -> PushRow]]
  BY DEF SyncInv, TypeOK, PushRow, Steps
<1>3. /\ \A e \in Devices, t \in Slots : <<e, t>> # <<d, s>> => push'[e][t] = push[e][t]
      /\ push'[d][s].at \in {"idle", "lookup"}
      /\ \A j \in Indices : push'[d][s].answer[j] = "none"
  <2>1. CASE Send(d, s)
    <3> DEFINE row == [Idle EXCEPT !.at = "lookup", !.todo = Pending(d)]
    <3>1. row.at = "lookup" /\ row.answer = [j \in Indices |-> "none"]
      BY DEF Idle
    <3>2. push' = [push EXCEPT ![d][s] = row]
      BY <2>1 DEF Send
    <3> HIDE DEF row
    <3> QED
      BY <1>2, <3>1, <3>2
  <2>2. CASE Receive(d, s) \/ Lose(d, s)
    <3>1. Idle.at = "idle" /\ Idle.answer = [j \in Indices |-> "none"]
      BY DEF Idle
    <3>2. push' = [push EXCEPT ![d][s] = Idle]
      BY <2>2 DEF Receive, Lose
    <3> QED
      BY <1>2, <3>1, <3>2
  <2> QED
    BY <2>1, <2>2 DEF Device
<1>4. ASSUME NEW e \in Devices, NEW j \in Indices
      PROVE  told'[e][j] # "none" => told'[e][j] = stored[e][j]
  <2>1. told[e][j] # "none" => told[e][j] = stored[e][j]
    BY DEF SerialInv
  <2>2. CASE told' = told
    BY <2>1, <2>2
  <2>3. CASE Receive(d, s)
    <3>1. told'[e][j] = told[e][j] \/ (e = d /\ push[d][s].answer[j] \in Settled
                                           /\ told'[e][j] = push[d][s].answer[j])
      BY <2>3 DEF Receive, SyncInv, TypeOK
    <3>2. push[d][s].answer[j] \in Settled => push[d][s].answer[j] = stored[d][j]
      BY DEF SerialInv, Settled
    <3> QED
      BY <2>1, <3>1, <3>2
  <2> QED
    BY <2>2, <2>3 DEF Device, Send, Lose
<1> QED
  BY <1>1, <1>3, <1>4 DEF SerialInv, At

LEMMA NextKeepsSerial == Serial /\ SyncInv /\ SerialInv /\ [Next]_vars => SerialInv'
<1> SUFFICES ASSUME Serial, SyncInv, SerialInv, [Next]_vars PROVE SerialInv'
  OBVIOUS
<1>1. CASE UNCHANGED <<told, push, stored, done>>
  BY <1>1 DEF SerialInv, At
<1>2. ASSUME NEW d \in Devices, NEW s \in Slots, Device(d, s) PROVE SerialInv'
  BY <1>2, DeviceKeepsSerial
<1>3. ASSUME NEW d \in Devices, NEW s \in Slots, Handle(d, s) PROVE SerialInv'
  <2>1. PICK i \in Indices : Step(d, s, i)
    BY <1>3 DEF Handle, Step
  <2> QED
    BY <2>1, HandlerKeepsSerial
<1> QED
  BY <1>1, <1>2, <1>3 DEF Next, Make, vars, syncVars

LEMMA SerialInit == Init => SerialInv
<1> SUFFICES ASSUME Init PROVE SerialInv
  OBVIOUS
<1>1. Idle.at = "idle" /\ Idle.answer = [j \in Indices |-> "none"]
  BY DEF Idle
<1>2. \A d \in Devices, s \in Slots : push[d][s] = Idle
  BY DEF Init
<1> QED
  BY <1>1, <1>2 DEF Init, SerialInv

-----------------------------------------------------------------------------
(* If the pushes of a device do not overlap and neither lookups nor records *)
(* fail, the result, the effect and the answer of every mutation agree.     *)
THEOREM SerialInductive ==
    ASSUME Serial
    PROVE  Spec => []SerialInv
<1>1. SyncInv /\ SerialInv /\ [Next]_vars => SerialInv'
  BY NextKeepsSerial
<1> QED
  BY <1>1, SerialInit, SyncInductive, PTL DEF Spec

(* C6: a mutation of a serial device takes effect once, however often it is *)
(* sent again after a crash or a lost answer.                               *)
THEOREM SerialAppliedOnce ==
    ASSUME Serial
    PROVE  Spec => []AppliedOnce
<1>1. SerialInv => AppliedOnce
  BY DEF SerialInv, AppliedOnce
<1> QED
  BY <1>1, SerialInductive, PTL

(* A serial device is told what happened to its mutations.                  *)
THEOREM SerialToldTruth ==
    ASSUME Serial
    PROVE  Spec => []ToldTruth
<1>1. SerialInv => ToldTruth
  BY DEF SerialInv, ToldTruth
<1> QED
  BY <1>1, SerialInductive, PTL

-----------------------------------------------------------------------------
(* The refinement: a step that settles a mutation decides its outcome, the  *)
(* arrival of an answer tells the device, every other step is a stutter.    *)

All == Devices \X Indices

LEMMA OutcomeIsStored ==
    ASSUME SerialInv, NEW m \in All
    PROVE  OutcomeOf(m) = IF stored[m[1]][m[2]] \in Settled THEN stored[m[1]][m[2]]
                          ELSE "none"
<1>1. m[1] \in Devices /\ m[2] \in Indices
  BY DEF All
<1>2. done[m[1]][m[2]] = IF stored[m[1]][m[2]] = "applied" THEN 1 ELSE 0
  BY <1>1 DEF SerialInv
<1> QED
  BY <1>2 DEF OutcomeOf, Settled

LEMMA PromiseInit == Init => Promise!OutcomeInit
<1> SUFFICES ASSUME Init PROVE Promise!OutcomeInit
  OBVIOUS
<1>1. ASSUME NEW m \in All
      PROVE  /\ OutcomeOf(m) = "none" /\ done[m[1]][m[2]] = 0 /\ told[m[1]][m[2]] = "none"
  BY DEF All, Init, OutcomeOf
<1> QED
  BY <1>1 DEF All, Promise!OutcomeInit

(* What does not touch effects, results and answers stutters.               *)
LEMMA PromiseStutter ==
    ASSUME UNCHANGED <<done, stored, told>>
    PROVE  UNCHANGED Promise!outcomeVars
<1>1. \A m \in All : OutcomeOf(m)' = OutcomeOf(m)
  BY DEF OutcomeOf
<1> QED
  BY <1>1 DEF All, Promise!outcomeVars

LEMMA PromiseSettle ==
    ASSUME SyncInv, SerialInv, SerialInv', NEW d \in Devices, NEW s \in Slots,
           NEW i \in Indices, NEW r \in Results, Settle(d, s, i, r)
    PROVE  [Promise!OutcomeNext]_(Promise!outcomeVars)
<1>1. \A m \in All : m = <<m[1], m[2]>> /\ m[1] \in Devices /\ m[2] \in Indices
  BY DEF All
<1>2. \A m \in All : m # <<d, i>> => /\ stored'[m[1]][m[2]] = stored[m[1]][m[2]]
                                     /\ done'[m[1]][m[2]] = done[m[1]][m[2]]
  BY <1>1 DEF Settle
<1>3. \A m \in All : m # <<d, i>> => OutcomeOf(m)' = OutcomeOf(m)
  BY <1>2 DEF OutcomeOf
<1>4. <<d, i>> \in All
  BY DEF All
<1>5. OutcomeOf(<<d, i>>) = IF stored[d][i] \in Settled THEN stored[d][i] ELSE "none"
  BY <1>4, OutcomeIsStored
<1>6. OutcomeOf(<<d, i>>)' = IF stored'[d][i] \in Settled THEN stored'[d][i] ELSE "none"
  BY DEF OutcomeOf, SerialInv, Settled
<1>7. told' = told
  BY DEF Settle
<1>8. done[d][i] = IF stored[d][i] = "applied" THEN 1 ELSE 0
  BY DEF SerialInv
<1>9. CASE stored[d][i] = r \/ r = "seq_gap"
  <2>1. OutcomeOf(<<d, i>>)' = OutcomeOf(<<d, i>>)
    BY <1>5, <1>6, <1>9 DEF Settle, Settled
  <2>2. done'[d][i] = done[d][i]
    BY <1>8, <1>9 DEF Settle
  <2>3. \A m \in All : /\ OutcomeOf(m)' = OutcomeOf(m)
                       /\ done'[m[1]][m[2]] = done[m[1]][m[2]]
    <3>1. \A m \in All : m # <<d, i>> \/ m = <<d, i>>
      OBVIOUS
    <3> QED
      BY <1>1, <1>2, <1>3, <2>1, <2>2, <3>1
  <2> QED
    BY <1>7, <2>3 DEF All, Promise!outcomeVars
<1>10. CASE stored[d][i] # r /\ r # "seq_gap"
  <2>1. /\ OutcomeOf(<<d, i>>) = "none" /\ OutcomeOf(<<d, i>>)' = r
        /\ done[d][i] = 0 /\ r \in Settled /\ r \in Promise!Outcomes
    BY <1>5, <1>6, <1>8, <1>10 DEF Settle, Settled, Results, Promise!Outcomes
  <2>2. done'[d][i] = IF r = "applied" THEN 1 ELSE 0
    BY DEF Settle
  <2>3. Promise!Decide(<<d, i>>, r)
    <3>1. [m \in All |-> OutcomeOf(m)]' =
             [[m \in All |-> OutcomeOf(m)] EXCEPT ![<<d, i>>] = r]
      BY <1>3, <1>4, <2>1
    <3>2. [m \in All |-> done[m[1]][m[2]]]' =
             [[m \in All |-> done[m[1]][m[2]]] EXCEPT
                 ![<<d, i>>] = IF r = "applied" THEN @ + 1 ELSE @]
      <4> DEFINE effects == [m \in All |-> done[m[1]][m[2]]]
                 now == IF r = "applied" THEN 1 ELSE 0
      <4>1. effects[<<d, i>>] = 0
        BY <1>4, <2>1
      <4>2. now = IF r = "applied" THEN effects[<<d, i>>] + 1 ELSE effects[<<d, i>>]
        BY <4>1
      <4>3. \A m \in All : done'[m[1]][m[2]] = IF m = <<d, i>> THEN now
                                               ELSE done[m[1]][m[2]]
        BY <1>2, <2>2
      <4> HIDE DEF now
      <4>4. [m \in All |-> done'[m[1]][m[2]]] = [effects EXCEPT ![<<d, i>>] = now]
        BY <1>4, <4>3
      <4> QED
        BY <4>2, <4>4
    <3> QED
      BY <1>4, <1>7, <2>1, <3>1, <3>2 DEF All, Promise!Decide
  <2> QED
    BY <1>4, <2>1, <2>3 DEF All, Promise!OutcomeNext
<1> QED
  BY <1>9, <1>10

LEMMA PromiseTell ==
    ASSUME SyncInv, SerialInv, SerialInv', NEW d \in Devices, NEW s \in Slots,
           Receive(d, s)
    PROVE  Promise!OutcomeNext
<1> DEFINE M == {m \in All : m[1] = d /\ told[d][m[2]] = "none"
                              /\ push[d][s].answer[m[2]] \in Settled}
<1>1. \A m \in All : m = <<m[1], m[2]>> /\ m[1] \in Devices /\ m[2] \in Indices
  BY DEF All
<1>2. \A m \in M : OutcomeOf(m) = push[d][s].answer[m[2]] /\ OutcomeOf(m) # "none"
  <2> TAKE m \in M
  <2>1. push[d][s].answer[m[2]] = stored[d][m[2]]
    BY <1>1 DEF SerialInv, Settled
  <2> QED
    BY <1>1, <2>1, OutcomeIsStored DEF Settled
<1>3. \A m \in All : told'[m[1]][m[2]] = IF m \in M THEN OutcomeOf(m)
                                         ELSE told[m[1]][m[2]]
  <2> TAKE m \in All
  <2>1. told \in [Devices -> [Indices -> {"none"} \cup Settled]]
    BY DEF SyncInv, TypeOK
  <2>2. told'[m[1]][m[2]] =
           IF m[1] = d /\ told[d][m[2]] = "none" /\ push[d][s].answer[m[2]] \in Settled
           THEN push[d][s].answer[m[2]] ELSE told[m[1]][m[2]]
    BY <1>1, <2>1 DEF Receive
  <2> QED
    BY <1>2, <2>2
<1>4. UNCHANGED <<stored, done>>
  BY DEF Receive
<1>5. \A m \in All : OutcomeOf(m)' = OutcomeOf(m)
  BY <1>4 DEF OutcomeOf
<1> HIDE DEF M
<1>6. PICK N : N = M
  OBVIOUS
<1>7. N \in SUBSET (Devices \X Indices)
  BY <1>6 DEF M, All
<1>8. Promise!Tell(N)
  BY <1>2, <1>3, <1>4, <1>5, <1>6, <1>7 DEF All, Promise!Tell
<1> QED
  BY <1>7, <1>8 DEF Promise!OutcomeNext

LEMMA PromiseNext ==
    ASSUME Serial
    PROVE  SyncInv /\ SerialInv /\ SerialInv' /\ [Next]_vars
              => [Promise!OutcomeNext]_(Promise!outcomeVars)
<1> SUFFICES ASSUME SyncInv, SerialInv, SerialInv', [Next]_vars
             PROVE  [Promise!OutcomeNext]_(Promise!outcomeVars)
  OBVIOUS
<1>1. CASE UNCHANGED <<done, stored, told>>
  BY <1>1, PromiseStutter
<1>2. ASSUME NEW d \in Devices, NEW s \in Slots, Receive(d, s)
      PROVE  [Promise!OutcomeNext]_(Promise!outcomeVars)
  BY <1>2, PromiseTell
<1>3. ASSUME NEW d \in Devices, NEW s \in Slots, Handle(d, s)
      PROVE  [Promise!OutcomeNext]_(Promise!outcomeVars)
  <2>1. PICK i \in Indices : Step(d, s, i)
    BY <1>3 DEF Handle, Step
  <2>2. CASE Quiet(d, s, i)
    BY <1>1, <2>2 DEF Quiet
  <2>3. CASE \E r \in Results : Settle(d, s, i, r)
    BY <2>3, PromiseSettle
  <2> QED
    BY <2>1, <2>2, <2>3, SerialStep
<1> QED
  BY <1>1, <1>2, <1>3 DEF Next, Make, Device, Send, Lose, vars, syncVars

(* Push implements MutationOutcome for every device whose pushes do not     *)
(* overlap, whatever the others do and however often a handler dies: every  *)
(* mutation has one outcome, and that is what the device is told.           *)
THEOREM SerialPromise ==
    ASSUME Serial
    PROVE  Spec => PromiseKept
<1>1. SyncInv /\ SerialInv /\ SerialInv' /\ [Next]_vars
         => [Promise!OutcomeNext]_(Promise!outcomeVars)
  BY PromiseNext
<1> QED
  BY <1>1, PromiseInit, SyncInductive, SerialInductive, PTL
  DEF Spec, PromiseKept, Promise!OutcomeSpec

-----------------------------------------------------------------------------
(* A start happens once, whatever overlaps: no transition, no assignment    *)
(* and no answer leads back to where an object can be started.              *)

Before == {"draft", "new", "scheduled", "assigned"}

Onward ==
    \A o \in Objects : task[o].status \notin Before => task'[o].status \notin Before

LEMMA MoveOnward ==
    ASSUME TaskInv, NEW o \in Objects, NEW u, NEW action \in Actions,
           Refusal(o, u, action) = "none", Move(o, action)
    PROVE  Onward /\ task'[o].status = Rule[action].to
<1>1. task[o].status \in Rule[action].from
  BY DEF Refusal, Rule, Terminal, Actions
<1>2. /\ task'[o].status = Rule[action].to
      /\ \A x \in Objects \ {o} : task'[x] = task[x]
  BY DEF Move, TaskInv, TaskTypeOK
<1>3. task[o].status \notin Before => task'[o].status \notin Before
  BY <1>1, <1>2 DEF Rule, Actions, Before
<1> QED
  BY <1>2, <1>3 DEF Onward

LEMMA OthersOnward == TaskInv /\ Others => Onward
<1> SUFFICES ASSUME TaskInv, NEW o \in Objects, NEW u \in Users,
                    \/ \E action \in Actions \cap Meanwhile : Transition(o, u, action)
                    \/ \E team \in SUBSET Workers : Assign(o, u, team)
                    \/ Update(o, u)
                    \/ Answer(o, u)
             PROVE  Onward
  BY DEF Others
<1>1. ASSUME NEW action \in Actions, Transition(o, u, action) PROVE Onward
  BY <1>1, MoveOnward DEF Transition
<1>2. ASSUME NEW team \in SUBSET Workers, Assign(o, u, team) PROVE Onward
  <2> DEFINE status == IF task[o].status \in {"new", "scheduled"} THEN "assigned" ELSE task[o].status
  <2>1. task' = [task EXCEPT ![o] = [task[o] EXCEPT !.assigned = team, !.status = status]]
    BY <1>2 DEF Assign, TaskInv, TaskTypeOK
  <2>2. [task[o] EXCEPT !.assigned = team, !.status = status].status = status
    BY DEF TaskInv, TaskTypeOK
  <2>3. task'[o].status = status /\ \A x \in Objects \ {o} : task'[x] = task[x]
    BY <2>1, <2>2 DEF TaskInv, TaskTypeOK
  <2> QED
    BY <2>3 DEF Onward, Before
<1>3. CASE Update(o, u) \/ Answer(o, u)
  BY <1>3 DEF Update, Answer, Answered, Onward, TaskInv, TaskTypeOK
<1> QED
  BY <1>1, <1>2, <1>3

(* What took effect was made; a start that did has left its object started. *)
StartInv ==
    \A d \in Devices, i \in Indices :
        done[d][i] > 0 =>
            /\ i \in 1..Len(made[d])
            /\ made[d][i].action = "start" =>
                 done[d][i] = 1 /\ task[Obj(d, i)].status \notin Before

(* A step that only moves the objects on.                                   *)
LEMMA OnwardKeepsStarts ==
    ASSUME SyncInv, StartInv, Onward, UNCHANGED <<made, done>>
    PROVE  StartInv'
<1> SUFFICES ASSUME NEW d \in Devices, NEW i \in Indices, done[d][i] > 0
             PROVE  /\ i \in 1..Len(made[d])
                    /\ made[d][i].action = "start" =>
                         done[d][i] = 1 /\ task'[Obj(d, i)].status \notin Before
  BY DEF StartInv, Obj
<1>1. /\ i \in 1..Len(made[d])
      /\ made[d][i].action = "start" =>
           done[d][i] = 1 /\ task[Obj(d, i)].status \notin Before
  BY DEF StartInv
<1>2. Obj(d, i) \in Objects
  <2>1. made[d] \in Seq(Mutation)
    BY DEF SyncInv, TypeOK
  <2>2. made[d][i] \in Mutation
    BY <1>1, <2>1
  <2> QED BY <2>2 DEF Obj, Mutation
<1> QED
  BY <1>1, <1>2 DEF Onward

LEMMA ApplyStarts ==
    ASSUME SyncInv, StartInv, NEW d \in Devices, NEW s \in Slots, NEW i \in Indices,
           Apply(d, s, i)
    PROVE  StartInv'
<1>1. /\ i \in 1..Len(made[d]) /\ made[d][i] \in Mutation /\ Obj(d, i) \in Objects
      /\ made[d][i].obj = Obj(d, i)
  BY AtHand DEF Apply, Obj
<1>2. done \in [Devices -> [Indices -> Nat]] /\ made' = made
  BY DEF SyncInv, TypeOK, Apply
<1>3. /\ done'[d][i] = done[d][i] + 1
      /\ \A e \in Devices, j \in Indices : <<e, j>> # <<d, i>> => done'[e][j] = done[e][j]
  BY <1>2 DEF Apply
<1>4. Onward /\ (made[d][i].action = "start" =>
                   /\ task[Obj(d, i)].status \in Before
                   /\ task'[Obj(d, i)].status \notin Before)
  <2>1. CASE made[d][i].action \in {"finding", "answer"}
    <3>1. UNCHANGED taskVars \/ Answered(Obj(d, i))
      BY <1>1, <2>1 DEF Apply, Effect, FieldWork
    <3> QED BY <2>1, <3>1 DEF taskVars, Answered, Onward, SyncInv, TaskInv, TaskTypeOK
  <2>2. CASE made[d][i].action \in FieldWork
    <3>1. made[d][i].action \notin {"finding", "answer"} /\ made[d][i].action \in Actions
      BY <2>2 DEF FieldWork, Actions, Rule
    <3>2. /\ Refusal(Obj(d, i), Owner[d], made[d][i].action) = "none"
          /\ Move(Obj(d, i), made[d][i].action)
      BY <1>1, <2>2, <3>1 DEF Apply, Verdict, Effect
    <3>3. Onward /\ task'[Obj(d, i)].status = Rule[made[d][i].action].to
      BY <1>1, <3>1, <3>2, MoveOnward DEF SyncInv
    <3>4. made[d][i].action = "start" =>
             /\ task[Obj(d, i)].status \in Before
             /\ task'[Obj(d, i)].status \notin Before
      BY <3>2, <3>3 DEF Refusal, Rule, Before
    <3> QED BY <3>3, <3>4
  <2> QED
    BY <1>1, <2>1, <2>2 DEF Mutation
<1> SUFFICES ASSUME NEW e \in Devices, NEW j \in Indices, done'[e][j] > 0
             PROVE  /\ j \in 1..Len(made[e])
                    /\ made[e][j].action = "start" =>
                         done'[e][j] = 1 /\ task'[Obj(e, j)].status \notin Before
  BY <1>2 DEF StartInv, Obj
<1>5. CASE e = d /\ j = i
  BY <1>1, <1>2, <1>3, <1>4, <1>5 DEF StartInv
<1>6. CASE <<e, j>> # <<d, i>>
  <2>1. /\ j \in 1..Len(made[e])
        /\ made[e][j].action = "start" =>
             done'[e][j] = 1 /\ task[Obj(e, j)].status \notin Before
    BY <1>3, <1>6 DEF StartInv
  <2>2. Obj(e, j) \in Objects
    <3>1. made[e] \in Seq(Mutation)
      BY DEF SyncInv, TypeOK
    <3>2. made[e][j] \in Mutation
      BY <2>1, <3>1
    <3> QED BY <3>2 DEF Obj, Mutation
  <2> QED
    BY <1>4, <2>1, <2>2 DEF Onward
<1> QED
  BY <1>5, <1>6

LEMMA MakeStarts ==
    ASSUME SyncInv, StartInv, NEW d \in Devices, NEW o \in Objects, NEW action \in Kinds,
           Make(d, o, action)
    PROVE  StartInv'
<1> DEFINE m == [obj |-> o, action |-> action]
<1>1. UNCHANGED <<task, done>> /\ made \in [Devices -> Seq(Mutation)]
  BY DEF Make, taskVars, SyncInv, TypeOK
<1>2. made' = [made EXCEPT ![d] = Append(made[d], m)] /\ m \in Mutation
  BY DEF Make, Mutation
<1>3. ASSUME NEW e \in Devices, NEW i \in 1..Len(made[e])
      PROVE  i \in 1..Len(made'[e]) /\ made'[e][i] = made[e][i]
  <2>1. CASE e = d
    <3> HIDE DEF m
    <3>1. made'[d] = Append(made[d], m) /\ made[d] \in Seq(Mutation)
      BY <1>1, <1>2
    <3> QED BY <1>2, <2>1, <3>1
  <2>2. CASE e # d
    BY <1>1, <1>2, <2>2
  <2> QED BY <2>1, <2>2
<1> QED
  BY <1>1, <1>3 DEF StartInv, Obj

LEMMA NextKeepsStarts == SyncInv /\ StartInv /\ [Next]_vars => StartInv'
<1> SUFFICES ASSUME SyncInv, StartInv, [Next]_vars PROVE StartInv'
  OBVIOUS
<1>1. CASE UNCHANGED <<task, made, done>>
  BY <1>1, OnwardKeepsStarts DEF Onward
<1>2. CASE Others /\ UNCHANGED syncVars
  BY <1>2, OthersOnward, OnwardKeepsStarts DEF SyncInv, syncVars
<1>3. ASSUME NEW d \in Devices, NEW o \in Objects, NEW action \in Kinds, Make(d, o, action)
      PROVE  StartInv'
  BY <1>3, MakeStarts
<1>4. ASSUME NEW d \in Devices, NEW s \in Slots, Device(d, s) PROVE StartInv'
  BY <1>1, <1>4 DEF Device, Send, Receive, Lose, taskVars
<1>5. ASSUME NEW d \in Devices, NEW s \in Slots, NEW i \in Indices, Step(d, s, i)
      PROVE  StartInv'
  <2>1. CASE Apply(d, s, i)
    BY <2>1, ApplyStarts
  <2>2. CASE Store(d, s, i)
    <3>1. Obj(d, i) \in Objects
      BY <2>2, AtHand DEF Store
    <3>2. UNCHANGED taskVars \/ Answered(Obj(d, i))
      BY <2>2 DEF Store, taskVars
    <3>3. Onward
      BY <3>1, <3>2 DEF taskVars, Answered, Onward, SyncInv, TaskInv, TaskTypeOK
    <3> QED BY <2>2, <3>3, OnwardKeepsStarts DEF Store
  <2> QED
    BY <1>1, <1>5, <2>1, <2>2
       DEF Step, Lookup, LookupFails, Order, Refuse, ApplyFails, Classify, StoreFails, taskVars
<1> QED
  BY <1>1, <1>2, <1>3, <1>4, <1>5 DEF Next, Handle, Step, vars, taskVars, syncVars

(* However many pushes carry it and whatever fails, a start a device made   *)
(* takes effect once, although another mutation may take effect twice.      *)
THEOREM StartsOnce == Spec => []StartedOnce
<1>1. Init => StartInv
  BY DEF Init, StartInv
<1>2. SyncInv /\ StartInv /\ [Next]_vars => StartInv'
  BY NextKeepsStarts
<1>3. SyncInv /\ StartInv => StartedOnce
  <2> SUFFICES ASSUME SyncInv, StartInv, NEW d \in Devices, NEW i \in 1..Len(made[d]),
                      made[d][i].action = "start"
               PROVE  done[d][i] <= 1
    BY DEF StartedOnce
  <2>1. Len(made[d]) \in Nat /\ Len(made[d]) <= MaxMade
    BY DEF SyncInv, TypeOK
  <2>2. i \in Indices
    BY <2>1 DEF Indices
  <2>3. done[d][i] \in Nat
    BY <2>2 DEF SyncInv, TypeOK
  <2> QED BY <2>2, <2>3 DEF StartInv
<1> QED
  BY SyncInductive, <1>1, <1>2, <1>3, PTL DEF Spec

-----------------------------------------------------------------------------
(* The evidence of a conflict is kept with the record of the conflict, so a *)
(* device that is told of the conflict by the record may drop it.           *)

ConflictKept ==
    \A d \in Devices, i \in Indices : stored[d][i] = "conflict" => i \in kept[d]

LEMMA NextKeepsConflicts == SyncInv /\ ConflictKept /\ [Next]_vars => ConflictKept'
<1> SUFFICES ASSUME SyncInv, ConflictKept, [Next]_vars PROVE ConflictKept'
  OBVIOUS
<1>1. CASE UNCHANGED <<stored, kept>>
  BY <1>1 DEF ConflictKept
<1>2. ASSUME NEW d \in Devices, NEW s \in Slots, NEW i \in Indices, NEW r \in Results,
             stored' = Record(d, i, r), kept' = kept, r # "conflict"
      PROVE  ConflictKept'
  <2>1. stored \in [Devices -> [Indices -> {"none"} \cup Results]]
    BY DEF SyncInv, TypeOK
  <2>2. /\ stored'[d][i] = IF stored[d][i] = "none" THEN r ELSE stored[d][i]
        /\ \A e \in Devices, j \in Indices :
              <<e, j>> # <<d, i>> => stored'[e][j] = stored[e][j]
    BY <1>2, <2>1, RecordType
  <2> QED BY <1>2, <2>2 DEF ConflictKept
<1>3. ASSUME NEW d \in Devices, NEW s \in Slots, NEW i \in Indices, Step(d, s, i)
      PROVE  ConflictKept'
  <2>1. "applied" \in Results /\ "seq_gap" \in Results
    BY DEF Results, Settled
  <2>2. CASE Apply(d, s, i)
    BY <1>2, <2>1, <2>2 DEF Apply, EffectRecord
  <2>3. CASE Order(d, s, i)
    BY <1>1, <1>2, <2>1, <2>3 DEF Order
  <2>4. CASE Store(d, s, i)
    <3>1. push[d][s].verdict \in {"conflict", "rejected"} /\ "rejected" \in Results
      BY <2>4 DEF Store, At, SyncInv, PushOK, Results, Settled
    <3>2. CASE push[d][s].verdict = "conflict"
      <4>1. "conflict" \in Results /\ stored \in [Devices -> [Indices -> {"none"} \cup Results]]
        BY DEF Results, Settled, SyncInv, TypeOK
      <4>2. stored' = Record(d, i, "conflict") /\ kept' = [kept EXCEPT ![d] = @ \cup {i}]
        BY <2>4, <3>2 DEF Store, PreserveEvidence
      <4>3. \A e \in Devices, j \in Indices :
               <<e, j>> # <<d, i>> => stored'[e][j] = stored[e][j]
        BY <4>1, <4>2, RecordType
      <4>4. i \in kept'[d] /\ \A e \in Devices : kept[e] \subseteq kept'[e]
        BY <4>2 DEF SyncInv, TypeOK
      <4> QED BY <4>3, <4>4 DEF ConflictKept
    <3>3. CASE push[d][s].verdict = "rejected"
      BY <1>2, <2>4, <3>1, <3>3 DEF Store
    <3> QED BY <3>1, <3>2, <3>3
  <2> QED
    BY <1>1, <1>3, <2>2, <2>3, <2>4
       DEF Step, Lookup, LookupFails, Refuse, ApplyFails, Classify, StoreFails, Goto, Continue
<1>4. CASE \E d \in Devices, s \in Slots : Handle(d, s)
  BY <1>3, <1>4 DEF Handle, Step
<1>5. CASE UNCHANGED vars \/ (Others /\ UNCHANGED syncVars)
  BY <1>1, <1>5 DEF vars, syncVars
<1>6. CASE \/ \E d \in Devices, o \in Objects, action \in Kinds : Make(d, o, action)
           \/ \E d \in Devices, s \in Slots : Device(d, s)
  BY <1>1, <1>6 DEF Make, Device, Send, Receive, Lose
<1> QED
  BY <1>4, <1>5, <1>6 DEF Next

(* A serial device that drops a mutation as a conflict leaves its evidence  *)
(* in the timeline.                                                         *)
THEOREM SerialEvidenceKept ==
    ASSUME Serial
    PROVE  Spec => []EvidenceKept
<1>1. Init => ConflictKept
  BY DEF Init, ConflictKept
<1>2. SyncInv /\ ConflictKept /\ [Next]_vars => ConflictKept'
  BY NextKeepsConflicts
<1>3. SerialInv /\ ConflictKept => EvidenceKept
  BY DEF SerialInv, ConflictKept, EvidenceKept
<1> QED
  BY SyncInductive, SerialInductive, <1>1, <1>2, <1>3, PTL DEF Spec

-----------------------------------------------------------------------------
(* A serial device is never refused for the order.  The results of a device *)
(* are settled in the order of its mutations, across pushes that die; so    *)
(* the last sequence number of an object, read or remembered, is below that *)
(* of the mutation at hand.                                                 *)

(* The sequence numbers of an object count up, from one.                    *)
LEMMA SeqNoCounts ==
    ASSUME NEW d, NEW i \in Indices
    PROVE  /\ SeqNo(d, i) \in 1..i
           /\ \A j \in Indices : j < i /\ Obj(d, j) = Obj(d, i) => SeqNo(d, j) < SeqNo(d, i)
<1> DEFINE Upto(k) == {x \in 1..k : Obj(d, x) = Obj(d, k)}
<1>1. ASSUME NEW k \in Indices
      PROVE  IsFiniteSet(1..k) /\ Cardinality(1..k) = k /\ IsFiniteSet(Upto(k))
             /\ Cardinality(Upto(k)) \in 0..k /\ SeqNo(d, k) = Cardinality(Upto(k))
  <2>1. IsFiniteSet(1..k) /\ Cardinality(1..k) = k
    BY FS_Interval DEF Indices
  <2>2. Upto(k) \in SUBSET (1..k)
    OBVIOUS
  <2>3. IsFiniteSet(Upto(k)) /\ Cardinality(Upto(k)) <= k
    <3> HIDE DEF Upto
    <3>1. IsFiniteSet(Upto(k)) /\ Cardinality(Upto(k)) <= Cardinality(1..k)
      BY <2>1, <2>2, FS_Subset
    <3> QED BY <2>1, <3>1
  <2>4. Cardinality(Upto(k)) \in Nat
    BY <2>3, FS_CardinalityType
  <2> QED BY <2>1, <2>3, <2>4 DEF SeqNo, Indices
<1>2. SeqNo(d, i) \in 1..i
  <2>1. i \in Upto(i)
    BY DEF Indices
  <2>2. Cardinality(Upto(i)) # 0
    <3> HIDE DEF Upto
    <3> QED BY <1>1, <2>1, FS_EmptySet
  <2> QED BY <1>1, <2>2 DEF Indices
<1>3. ASSUME NEW j \in Indices, j < i, Obj(d, j) = Obj(d, i)
      PROVE  SeqNo(d, j) < SeqNo(d, i)
  <2>1. Upto(j) \in SUBSET Upto(i) /\ i \in Upto(i) /\ i \notin Upto(j)
    BY <1>3 DEF Indices
  <2>2. Cardinality(Upto(j)) <= Cardinality(Upto(i))
        /\ Cardinality(Upto(j)) # Cardinality(Upto(i))
    <3> HIDE DEF Upto
    <3> QED BY <1>1, <2>1, FS_Subset
  <2>3. Cardinality(Upto(j)) \in Int /\ Cardinality(Upto(i)) \in Int
    BY <1>1 DEF Indices
  <2> HIDE DEF Upto
  <2> QED BY <1>1, <2>2, <2>3
<1> QED
  BY <1>2, <1>3

(* What the push remembers of object o is the number of a mutation that is  *)
(* behind all it has still to process, or of the one at hand.               *)
Remembered(d, p, o) ==
    \E j \in 1..Len(made[d]) :
        /\ Obj(d, j) = o /\ p.last[o] = SeqNo(d, j)
        /\ \A i \in p.todo : j < i \/ (j = i /\ p.at \notin {"lookup", "order"})

OrderlyPush(d, p) ==
    /\ p.blocked = {}
    /\ \A i \in p.todo, j \in Indices : j < i => j \in p.todo \/ stored[d][j] # "none"
    /\ \A o \in Objects : p.last[o] # Unknown => Remembered(d, p, o)

OrderInv ==
    /\ \A d \in Devices, i, j \in Indices :
          j < i /\ stored[d][i] # "none" => stored[d][j] # "none"
    /\ NoGap
    /\ \A d \in Devices, s \in Slots : OrderlyPush(d, push[d][s])

(* The mutation at hand is ahead of all that was counted.                   *)
LEMMA NotOutOfOrder ==
    ASSUME SyncInv, OrderInv, NEW d \in Devices, NEW s \in Slots, NEW i \in Indices,
           At(d, s, i, "order"), stored[d][i] = "none"
    PROVE  ~OutOfOrder(SeqNo(d, i), Last(d, s, Obj(d, i)))
<1> DEFINE o == Obj(d, i)
<1>0. /\ i \in 1..Len(made[d]) /\ o \in Objects /\ SeqNo(d, i) \in 1..i
      /\ OrderlyPush(d, push[d][s]) /\ Len(made[d]) \in Nat /\ Len(made[d]) <= MaxMade
  BY AtHand, SeqNoCounts DEF OrderInv, SyncInv, TypeOK
<1>i. 1..Len(made[d]) \subseteq Indices
  BY <1>0 DEF Indices
<1> HIDE DEF o
<1>1. CASE push[d][s].last[o] # Unknown
  <2>1. PICK j \in 1..Len(made[d]) :
           /\ Obj(d, j) = o /\ push[d][s].last[o] = SeqNo(d, j)
           /\ \A k \in push[d][s].todo :
                 j < k \/ (j = k /\ push[d][s].at \notin {"lookup", "order"})
    BY <1>0, <1>1 DEF OrderlyPush, Remembered
  <2>2. j < i
    BY <2>1 DEF At
  <2>3. SeqNo(d, j) < SeqNo(d, i) /\ SeqNo(d, j) \in 1..j
    BY <1>i, <2>1, <2>2, SeqNoCounts DEF o
  <2>4. Last(d, s, o) = SeqNo(d, j)
    BY <1>1, <2>1 DEF Last
  <2>5. SeqNo(d, j) \in Int /\ SeqNo(d, i) \in Int
    BY <1>0, <2>1, <2>3
  <2> QED BY <2>3, <2>4, <2>5 DEF OutOfOrder, o
<1>2. CASE push[d][s].last[o] = Unknown
  <2>1. ASSUME NEW n \in Counted(d, o) PROVE n < SeqNo(d, i) /\ n \in 1..MaxMade
    <3>1. PICK j \in 1..Len(made[d]) :
             Obj(d, j) = o /\ stored[d][j] \in {"applied", "conflict"} /\ n = SeqNo(d, j)
      BY DEF Counted
    <3>2. j \in Indices /\ j # i /\ stored[d][j] # "none"
      BY <1>i, <3>1
    <3>3. ~(i < j)
      BY <3>2 DEF OrderInv
    <3>4. j < i
      BY <3>2, <3>3 DEF Indices
    <3>5. SeqNo(d, j) < SeqNo(d, i) /\ SeqNo(d, j) \in 1..j
      BY <3>1, <3>2, <3>4, SeqNoCounts DEF o
    <3>6. 1..j \subseteq 1..MaxMade
      BY <3>2 DEF Indices
    <3> QED BY <3>1, <3>5, <3>6
  <2>2. Counted(d, o) \in SUBSET (1..MaxMade) /\ IsFiniteSet(1..MaxMade)
    BY <2>1, FS_Interval
  <2>3. IsFiniteSet(Counted(d, o)) /\ Counted(d, o) \in SUBSET Nat
    <3>1. 1..MaxMade \subseteq Nat
      OBVIOUS
    <3> QED BY <2>2, <3>1, FS_Subset
  <2>4. \E n \in Counted(d, o) \cup {0} : \A m \in Counted(d, o) : m <= n
    <3>1. CASE Counted(d, o) = {}
      BY <3>1
    <3>2. CASE Counted(d, o) # {}
      BY <2>3, <3>2, FiniteMax
    <3> QED BY <3>1, <3>2
  <2>5. Last(d, s, o) \in Counted(d, o) \cup {0}
    BY <1>2, <2>4 DEF Last
  <2>6. Last(d, s, o) < SeqNo(d, i) /\ Last(d, s, o) \in Nat
    BY <1>0, <2>1, <2>3, <2>5
  <2>7. SeqNo(d, i) \in Int
    BY <1>0
  <2> QED BY <2>6, <2>7 DEF OutOfOrder, o
<1> QED
  BY <1>1, <1>2

(* What a push remembers stays true while no mutation is made.              *)
LEMMA NumbersKept ==
    ASSUME made' = made, NEW d, NEW p, NEW o
    PROVE  Remembered(d, p, o)' <=> Remembered(d, p, o)
<1>1. \A j : Obj(d, j)' = Obj(d, j)
  BY DEF Obj
<1>2. \A j : SeqNo(d, j)' = SeqNo(d, j)
  <2> TAKE j
  <2>1. {x \in 1..j : Obj(d, x)' = Obj(d, j)'} = {x \in 1..j : Obj(d, x) = Obj(d, j)}
    BY <1>1
  <2> QED BY <2>1 DEF SeqNo
<1> QED
  BY <1>1, <1>2 DEF Remembered

LEMMA OrderlyKept ==
    ASSUME made' = made, NEW d, NEW p, OrderlyPush(d, p),
           \A j \in Indices : stored[d][j] # "none" => stored'[d][j] # "none"
    PROVE  OrderlyPush(d, p)'
BY NumbersKept DEF OrderlyPush

(* A step of one push that settles nothing out of order.                    *)
LEMMA RowKeepsOrder ==
    ASSUME SyncInv, OrderInv, NEW d \in Devices, NEW s \in Slots, NEW row \in PushRow,
           made' = made, push' = [push EXCEPT ![d][s] = row], NoGap',
           \A e \in Devices, i \in Indices : stored[e][i] # "none" => stored'[e][i] # "none",
           \A e \in Devices, i, j \in Indices :
              j < i /\ stored'[e][i] # "none" => stored'[e][j] # "none",
           OrderlyPush(d, row)'
    PROVE  OrderInv'
<1>1. push \in [Devices -> [Slots -> PushRow]]
  BY DEF SyncInv, TypeOK, PushRow, Steps
<1>2. /\ push'[d][s] = row
      /\ \A e \in Devices, t \in Slots : <<e, t>> # <<d, s>> => push'[e][t] = push[e][t]
  BY <1>1, PutRow
<1>3. ASSUME NEW e \in Devices, NEW t \in Slots PROVE OrderlyPush(e, push[e][t])'
  <2>1. CASE <<e, t>> = <<d, s>>
    BY <1>2, <2>1
  <2>2. CASE <<e, t>> # <<d, s>>
    <3> PICK p : p = push[e][t]
      OBVIOUS
    <3>1. OrderlyPush(e, p) /\ p = push'[e][t]
      BY <1>2, <2>2 DEF OrderInv
    <3>2. OrderlyPush(e, p)'
      BY <3>1, OrderlyKept
    <3> QED BY <3>1, <3>2
  <2> QED BY <2>1, <2>2
<1> QED
  BY <1>3 DEF OrderInv

LEMMA QuietRow ==
    ASSUME SyncInv, OrderInv, NEW d \in Devices, NEW s \in Slots, NEW row \in PushRow,
           UNCHANGED <<made, stored>>, push' = [push EXCEPT ![d][s] = row],
           OrderlyPush(d, row)'
    PROVE  OrderInv'
<1>1. NoGap'
  BY DEF OrderInv, NoGap
<1>2. /\ \A e \in Devices, i \in Indices : stored[e][i] # "none" => stored'[e][i] # "none"
      /\ \A e \in Devices, i, j \in Indices :
            j < i /\ stored'[e][i] # "none" => stored'[e][j] # "none"
  BY DEF OrderInv
<1> QED
  BY <1>1, <1>2, RowKeepsOrder

(* The push goes on with the mutation at hand.                              *)
LEMMA GotoOrderly ==
    ASSUME SyncInv, OrderInv, NEW d \in Devices, NEW s \in Slots,
           NEW at \in Steps, NEW verdict \in {"none", "conflict", "rejected"},
           at \in {"lookup", "order"} => push[d][s].at \in {"lookup", "order"},
           Goto(d, s, at, verdict), UNCHANGED <<made, stored>>
    PROVE  OrderInv'
<1> PICK p : p = push[d][s]
  OBVIOUS
<1>1. p \in PushRow /\ OrderlyPush(d, p)
  BY DEF SyncInv, TypeOK, PushRow, Steps, OrderInv
<1> PICK row : row = [p EXCEPT !.at = at, !.verdict = verdict]
  OBVIOUS
<1>2. /\ row \in PushRow /\ row.todo = p.todo /\ row.last = p.last /\ row.blocked = p.blocked
      /\ row.at = at
  BY <1>1 DEF PushRow
<1>3. push' = [push EXCEPT ![d][s] = row]
  BY DEF Goto, Continue
<1>4. OrderlyPush(d, row)
  BY <1>1, <1>2 DEF OrderlyPush, Remembered
<1>5. OrderlyPush(d, row)'
  BY <1>4, OrderlyKept
<1> QED
  BY <1>2, <1>3, <1>5, QuietRow

(* The push is through with the mutation at hand, which has a result now.   *)
LEMMA ReplyOrderly ==
    ASSUME SyncInv, OrderInv, NEW d \in Devices, NEW s \in Slots, NEW i \in Indices,
           NEW step, At(d, s, i, step), NEW r \in Results, r # "seq_gap",
           Continue(d, s, Reply(push[d][s], i, r)), made' = made,
           \/ stored[d][i] # "none" /\ stored' = stored
           \/ stored' = Record(d, i, r)
    PROVE  OrderInv'
<1> PICK p : p = push[d][s]
  OBVIOUS
<1>1. p \in PushRow /\ OrderlyPush(d, p)
  BY DEF SyncInv, TypeOK, PushRow, Steps, OrderInv
<1> PICK row : row = Reply(p, i, r)
  OBVIOUS
<1>2. /\ row \in PushRow /\ row.todo = p.todo \ {i} /\ row.last = p.last
      /\ row.blocked = p.blocked /\ row.at = "lookup"
  BY <1>1 DEF Reply, PushRow, Steps
<1>3. push' = [push EXCEPT ![d][s] = row]
  BY DEF Continue
<1>4. i \in p.todo /\ \A k \in p.todo : i <= k
  BY DEF At
<1>5. /\ stored'[d][i] # "none"
      /\ stored[d][i] = "none" => stored'[d][i] = r
      /\ \A e \in Devices, j \in Indices :
            <<e, j>> # <<d, i>> \/ stored[e][j] # "none" => stored'[e][j] = stored[e][j]
  <2>1. stored \in [Devices -> [Indices -> {"none"} \cup Results]] /\ "none" \notin Results
    BY DEF SyncInv, TypeOK, Results, Settled
  <2>2. CASE stored' = Record(d, i, r)
    <3>1. /\ stored'[d][i] = IF stored[d][i] = "none" THEN r ELSE stored[d][i]
          /\ \A e \in Devices, j \in Indices :
                <<e, j>> # <<d, i>> => stored'[e][j] = stored[e][j]
      BY <2>1, <2>2, RecordType
    <3> QED BY <2>1, <3>1
  <2> QED BY <2>2
<1>6. \A e \in Devices, k, j \in Indices :
         j < k /\ stored'[e][k] # "none" => stored'[e][j] # "none"
  <2> SUFFICES ASSUME NEW e \in Devices, NEW j \in Indices, NEW k \in Indices,
                      j < k, stored'[e][k] # "none"
               PROVE  stored'[e][j] # "none"
    OBVIOUS
  <2>1. CASE e = d /\ k = i
    <3>1. j \notin p.todo
      BY <1>4, <2>1 DEF Indices
    <3> QED BY <1>1, <1>4, <1>5, <2>1, <3>1 DEF OrderlyPush
  <2>2. CASE <<e, k>> # <<d, i>>
    BY <1>5, <2>2 DEF OrderInv
  <2> QED BY <2>1, <2>2
<1>7. NoGap'
  BY <1>5 DEF OrderInv, NoGap
<1>8. OrderlyPush(d, row)'
  <2>1. \A k \in row.todo, j \in Indices : j < k => j \in row.todo \/ stored'[d][j] # "none"
    BY <1>1, <1>2, <1>5 DEF OrderlyPush
  <2>2. ASSUME NEW o \in Objects, row.last[o] # Unknown PROVE Remembered(d, row, o)'
    <3>1. PICK j \in 1..Len(made[d]) :
             /\ Obj(d, j) = o /\ p.last[o] = SeqNo(d, j)
             /\ \A k \in p.todo : j < k \/ (j = k /\ p.at \notin {"lookup", "order"})
      BY <1>1, <1>2, <2>2 DEF OrderlyPush, Remembered
    <3>2. ASSUME NEW k \in row.todo PROVE j < k
      <4>1. k \in p.todo /\ k # i /\ i <= k
        BY <1>2, <1>4, <3>2
      <4>2. j < i \/ j = i
        BY <1>4, <3>1
      <4>3. k \in Int /\ i \in Int /\ j \in Int
        BY <1>1, <4>1, <3>1 DEF PushRow, Indices
      <4> QED BY <4>1, <4>2, <4>3
    <3>3. Remembered(d, row, o)
      BY <1>2, <3>1, <3>2 DEF Remembered
    <3> QED BY <3>3, NumbersKept
  <2> QED BY <1>1, <1>2, <2>1, <2>2 DEF OrderlyPush
<1>9. \A e \in Devices, k \in Indices : stored[e][k] # "none" => stored'[e][k] # "none"
  BY <1>5
<1> QED
  <2>1. row \in PushRow /\ made' = made
    BY <1>2
  <2> QED BY <1>3, <1>6, <1>7, <1>8, <1>9, <2>1, RowKeepsOrder

(* The order is right, and the push remembers the number.                   *)
LEMMA OrderOrderly ==
    ASSUME SyncInv, SerialInv, OrderInv, NEW d \in Devices, NEW s \in Slots,
           NEW i \in Indices, Order(d, s, i)
    PROVE  OrderInv'
<1> PICK p : p = push[d][s]
  OBVIOUS
<1> PICK o : o = Obj(d, i)
  OBVIOUS
<1>1. p \in PushRow /\ OrderlyPush(d, p)
  BY DEF SyncInv, TypeOK, PushRow, Steps, OrderInv
<1>2. At(d, s, i, "order") /\ p.at = "order" /\ stored[d][i] = "none"
  BY DEF Order, At, SerialInv
<1>3. i \in 1..Len(made[d]) /\ o \in Objects /\ SeqNo(d, i) \in Nat
  BY <1>2, AtHand, SeqNoType
<1>4. o \notin p.blocked /\ ~OutOfOrder(SeqNo(d, i), Last(d, s, o))
  BY <1>1, <1>2, NotOutOfOrder DEF OrderlyPush
<1> PICK row : row = [p EXCEPT !.at = "apply", !.last[o] = SeqNo(d, i)]
  OBVIOUS
<1>5. /\ UNCHANGED <<made, stored>> /\ push' = [push EXCEPT ![d][s] = row]
  BY <1>4 DEF Order, Continue
<1>6. /\ row \in PushRow /\ row.todo = p.todo /\ row.blocked = p.blocked /\ row.at = "apply"
      /\ row.last = [p.last EXCEPT ![o] = SeqNo(d, i)]
  BY <1>1, <1>3 DEF PushRow, Steps
<1>7. ASSUME NEW x \in Objects, row.last[x] # Unknown PROVE Remembered(d, row, x)
  <2>1. CASE x = o
    <3>1. row.last[x] = SeqNo(d, i)
      BY <1>1, <1>3, <1>6, <2>1 DEF PushRow
    <3>2. \A k \in row.todo : i < k \/ i = k
      <4>1. \A k \in p.todo : i <= k /\ k \in Int
        BY <1>1, <1>2 DEF At, PushRow, Indices
      <4> QED BY <1>3, <1>6, <4>1
    <3> QED BY <1>3, <1>6, <2>1, <3>1, <3>2 DEF Remembered
  <2>2. CASE x # o
    <3>1. row.last[x] = p.last[x]
      BY <1>1, <1>6, <2>2 DEF PushRow
    <3>2. Remembered(d, p, x)
      BY <1>1, <1>7, <3>1 DEF OrderlyPush
    <3> QED BY <1>2, <1>6, <3>1, <3>2 DEF Remembered
  <2> QED BY <2>1, <2>2
<1>8. OrderlyPush(d, row)
  BY <1>1, <1>6, <1>7 DEF OrderlyPush
<1>9. OrderlyPush(d, row)'
  BY <1>5, <1>8, OrderlyKept
<1> QED
  BY <1>5, <1>6, <1>9, QuietRow

LEMMA HandlerKeepsOrder ==
    ASSUME Serial, SyncInv, SerialInv, OrderInv,
           NEW d \in Devices, NEW s \in Slots, NEW i \in Indices, Step(d, s, i)
    PROVE  OrderInv'
<1>0. stored[d][i] \in {"none"} \cup Results /\ "applied" \in Results
  BY DEF SyncInv, TypeOK, Results, Settled
<1>1. CASE Lookup(d, s, i)
  <2>1. CASE stored[d][i] = "none"
    BY <1>1, <2>1, GotoOrderly DEF Lookup, Earlier, Steps, At
  <2>2. CASE stored[d][i] # "none"
    <3>1. stored[d][i] \in Results /\ stored[d][i] # "seq_gap"
      BY <1>0, <2>2 DEF OrderInv, NoGap
    <3>2. /\ Continue(d, s, Reply(push[d][s], i, stored[d][i])) /\ At(d, s, i, "lookup")
          /\ made' = made /\ stored' = stored
      BY <1>1, <2>2 DEF Lookup, Earlier
    <3> QED BY <2>2, <3>1, <3>2, ReplyOrderly
  <2> QED BY <2>1, <2>2
<1>2. CASE Order(d, s, i)
  BY <1>2, OrderOrderly
<1>3. CASE Apply(d, s, i)
  BY <1>0, <1>3, ReplyOrderly DEF Apply, EffectRecord
<1>4. CASE Refuse(d, s, i) \/ ApplyFails(d, s, i) \/ Classify(d, s, i)
  <2>1. PICK at \in {"store", "classify"}, verdict \in {"none", "conflict", "rejected"} :
           Goto(d, s, at, verdict)
    BY <1>4 DEF Refuse, ApplyFails, Classify
  <2> QED
    BY <1>4, <2>1, GotoOrderly DEF Refuse, ApplyFails, Classify, Steps
<1>5. CASE Store(d, s, i)
  <2>1. push[d][s].verdict \in Results /\ push[d][s].verdict # "seq_gap"
    BY <1>5 DEF Store, At, SyncInv, PushOK, Results, Settled
  <2> QED
    BY <1>5, <2>1, ReplyOrderly DEF Store
<1>6. ~LookupFails(d, s, i) /\ ~StoreFails(d, s, i)
  BY DEF Serial, LookupFails, StoreFails, Fault
<1> QED
  BY <1>1, <1>2, <1>3, <1>4, <1>5, <1>6 DEF Step

LEMMA DeviceKeepsOrder ==
    ASSUME SyncInv, SerialInv, OrderInv, NEW d \in Devices, NEW s \in Slots, Device(d, s)
    PROVE  OrderInv'
<1>1. UNCHANGED <<made, stored>>
  BY DEF Device, Send, Receive, Lose
<1>2. Len(made[d]) \in Nat /\ Len(made[d]) <= MaxMade
  BY DEF SyncInv, TypeOK
<1>3. PICK row \in PushRow :
         /\ push' = [push EXCEPT ![d][s] = row]
         /\ row.todo \in {{}, Pending(d)} /\ row.blocked = {}
         /\ \A o \in Objects : row.last[o] = Unknown
  <2>1. CASE Send(d, s)
    <3> DEFINE row == [Idle EXCEPT !.at = "lookup", !.todo = Pending(d)]
    <3>1. Pending(d) \subseteq Indices
      BY <1>2 DEF Pending, Indices
    <3>2. /\ row \in PushRow /\ row.todo = Pending(d) /\ row.blocked = {}
          /\ \A o \in Objects : row.last[o] = Unknown
      BY <3>1, IdleRow DEF PushRow, Steps, Idle
    <3>3. push' = [push EXCEPT ![d][s] = row]
      BY <2>1 DEF Send
    <3> HIDE DEF row
    <3> QED BY <3>2, <3>3
  <2>2. CASE Receive(d, s) \/ Lose(d, s)
    <3>1. Idle.todo = {} /\ Idle.blocked = {} /\ \A o \in Objects : Idle.last[o] = Unknown
      BY DEF Idle
    <3> QED BY <2>2, <3>1, IdleRow DEF Receive, Lose
  <2> QED BY <2>1, <2>2 DEF Device
<1>4. ASSUME NEW i \in row.todo, NEW j \in Indices, j < i
      PROVE  j \in row.todo \/ stored[d][j] # "none"
  <2>1. row.todo = Pending(d) /\ i \in 1..Len(made[d])
    BY <1>3 DEF Pending
  <2>2. j \in 1..Len(made[d])
    BY <1>2, <1>4, <2>1 DEF Indices
  <2>3. CASE told[d][j] = "none"
    BY <2>1, <2>2, <2>3 DEF Pending
  <2>4. CASE told[d][j] # "none"
    BY <2>4 DEF SerialInv
  <2> QED BY <2>3, <2>4
<1>5. OrderlyPush(d, row)'
  BY <1>1, <1>3, <1>4 DEF OrderlyPush
<1> QED
  BY <1>1, <1>3, <1>5, QuietRow

LEMMA MakeKeepsOrder ==
    ASSUME SyncInv, OrderInv, NEW d \in Devices, NEW o \in Objects, NEW action \in Kinds,
           Make(d, o, action)
    PROVE  OrderInv'
<1> DEFINE m == [obj |-> o, action |-> action]
<1>1. UNCHANGED <<push, stored>> /\ made \in [Devices -> Seq(Mutation)]
  BY DEF Make, SyncInv, TypeOK
<1>2. made' = [made EXCEPT ![d] = Append(made[d], m)] /\ m \in Mutation
  BY DEF Make, Mutation
<1>3. ASSUME NEW e \in Devices, NEW i \in 1..Len(made[e])
      PROVE  i \in 1..Len(made'[e]) /\ made'[e][i] = made[e][i]
  <2>1. CASE e = d
    <3> HIDE DEF m
    <3>1. made'[d] = Append(made[d], m) /\ made[d] \in Seq(Mutation)
      BY <1>1, <1>2
    <3> QED BY <1>2, <2>1, <3>1
  <2>2. CASE e # d
    BY <1>1, <1>2, <2>2
  <2> QED BY <2>1, <2>2
<1>4. ASSUME NEW e \in Devices, NEW i \in 1..Len(made[e])
      PROVE  Obj(e, i)' = Obj(e, i) /\ SeqNo(e, i)' = SeqNo(e, i)
  <2>1. Len(made[e]) \in Nat
    BY <1>1
  <2>2. \A j \in 1..i : j \in 1..Len(made[e])
    BY <2>1
  <2>3. \A j \in 1..i : Obj(e, j)' = Obj(e, j)
    BY <1>3, <2>2 DEF Obj
  <2>4. Obj(e, i)' = Obj(e, i)
    BY <1>3 DEF Obj
  <2>5. {j \in 1..i : Obj(e, j)' = Obj(e, i)'} = {j \in 1..i : Obj(e, j) = Obj(e, i)}
    BY <2>3, <2>4
  <2> QED BY <2>4, <2>5 DEF SeqNo
<1>5. ASSUME NEW e \in Devices, NEW t \in Slots PROVE OrderlyPush(e, push[e][t])'
  <2> PICK p : p = push[e][t]
    OBVIOUS
  <2>1. OrderlyPush(e, p) /\ p = push'[e][t]
    BY <1>1 DEF OrderInv
  <2>2. ASSUME NEW x \in Objects, p.last[x] # Unknown PROVE Remembered(e, p, x)'
    <3>1. PICK j \in 1..Len(made[e]) :
             /\ Obj(e, j) = x /\ p.last[x] = SeqNo(e, j)
             /\ \A i \in p.todo : j < i \/ (j = i /\ p.at \notin {"lookup", "order"})
      BY <2>1, <2>2 DEF OrderlyPush, Remembered
    <3>2. j \in 1..Len(made'[e]) /\ Obj(e, j)' = x /\ p.last[x] = SeqNo(e, j)'
      BY <1>3, <1>4, <3>1
    <3> QED BY <3>1, <3>2 DEF Remembered
  <2>3. OrderlyPush(e, p)'
    BY <1>1, <2>1, <2>2 DEF OrderlyPush
  <2> QED BY <2>1, <2>3
<1> QED
  BY <1>1, <1>5 DEF OrderInv, NoGap

LEMMA NextKeepsOrder ==
    Serial /\ SyncInv /\ SerialInv /\ OrderInv /\ [Next]_vars => OrderInv'
<1> SUFFICES ASSUME Serial, SyncInv, SerialInv, OrderInv, [Next]_vars PROVE OrderInv'
  OBVIOUS
<1>1. CASE UNCHANGED vars \/ (Others /\ UNCHANGED syncVars)
  <2>1. UNCHANGED <<made, push, stored>>
    BY <1>1 DEF vars, syncVars
  <2>2. ASSUME NEW d \in Devices, NEW s \in Slots PROVE OrderlyPush(d, push[d][s])'
    <3> PICK p : p = push[d][s]
      OBVIOUS
    <3>1. OrderlyPush(d, p) /\ p = push'[d][s]
      BY <2>1 DEF OrderInv
    <3>2. OrderlyPush(d, p)'
      BY <2>1, <3>1, OrderlyKept
    <3> QED BY <3>1, <3>2
  <2> QED BY <2>1, <2>2 DEF OrderInv, NoGap
<1>2. ASSUME NEW d \in Devices, NEW o \in Objects, NEW action \in Kinds, Make(d, o, action)
      PROVE  OrderInv'
  BY <1>2, MakeKeepsOrder
<1>3. ASSUME NEW d \in Devices, NEW s \in Slots, Device(d, s) PROVE OrderInv'
  BY <1>3, DeviceKeepsOrder
<1>4. ASSUME NEW d \in Devices, NEW s \in Slots, Handle(d, s) PROVE OrderInv'
  <2>1. PICK i \in Indices : Step(d, s, i)
    BY <1>4 DEF Handle, Step
  <2> QED BY <2>1, HandlerKeepsOrder
<1> QED
  BY <1>1, <1>2, <1>3, <1>4 DEF Next

LEMMA OrderInit == Init => OrderInv
<1> SUFFICES ASSUME Init PROVE OrderInv
  OBVIOUS
<1>1. Idle.todo = {} /\ Idle.blocked = {} /\ \A o \in Objects : Idle.last[o] = Unknown
  BY DEF Idle
<1>2. \A d \in Devices, s \in Slots : push[d][s] = Idle
  BY DEF Init
<1> QED
  BY <1>1, <1>2 DEF Init, OrderInv, NoGap, OrderlyPush

(* A serial device, which numbers its mutations in order, is never refused  *)
(* for the order, whatever is lost, dies or is rejected in between.         *)
THEOREM SerialNoGap ==
    ASSUME Serial
    PROVE  Spec => []NoGap
<1>1. SyncInv /\ SerialInv /\ OrderInv /\ [Next]_vars => OrderInv'
  BY NextKeepsOrder
<1>2. OrderInv => NoGap
  BY DEF OrderInv
<1> QED
  BY SyncInductive, SerialInductive, OrderInit, <1>1, <1>2, PTL DEF Spec
=============================================================================
