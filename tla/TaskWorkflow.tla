---------------------------- MODULE TaskWorkflow ----------------------------
(***************************************************************************)
(* Tasks and work orders of the operations engine (operations/workflow and *)
(* operations/workitem): status, assignees, checklist and SLA clock.        *)
(*                                                                          *)
(* Assign, Transition and Update read the row FOR NO KEY UPDATE first, so   *)
(* each of them is one atomic step.  AnswerItem does not lock the object,   *)
(* but only adds an answer, which no concurrent step can refute: it counts  *)
(* as happening when it reads the status.  What happens to other objects in *)
(* the same transaction (follow-ups, chains, search index, events) and the  *)
(* vendor of a work order are left out.                                     *)
(***************************************************************************)
EXTENDS Integers, FiniteSets

CONSTANTS
    Objects,    \* the tasks and work orders
    Workers,    \* field staff: permissions start and complete
    Managers    \* supervisors: every permission, manage included

ASSUME RolesAssumption == Workers \cap Managers = {}

VARIABLES
    task,       \* task[o]: status, assignees, whether the evidence it requires is there
    sla         \* sla[o]: whether the SLA clock is paused, and whether it is resolved

taskVars == <<task, sla>>

Users == Workers \cup Managers

TaskStatus == {"draft", "new", "scheduled", "assigned", "in_progress", "on_hold",
               "completed", "closed", "cancelled"}

Terminal == {"closed", "cancelled"}

-----------------------------------------------------------------------------
(* The transition table of a task, with the two rows a work order adds for  *)
(* drafts.  Assignment has a handler of its own.                            *)

Rule ==
    [submit   |-> [from |-> {"draft"}, to |-> "new"],
     schedule |-> [from |-> {"new"}, to |-> "scheduled"],
     unassign |-> [from |-> {"assigned"}, to |-> "new"],
     start    |-> [from |-> {"assigned", "scheduled"}, to |-> "in_progress"],
     hold     |-> [from |-> {"in_progress"}, to |-> "on_hold"],
     resume   |-> [from |-> {"on_hold"}, to |-> "in_progress"],
     complete |-> [from |-> {"in_progress"}, to |-> "completed"],
     close    |-> [from |-> {"completed"}, to |-> "closed"],
     reopen   |-> [from |-> {"completed", "closed"}, to |-> "in_progress"],
     cancel   |-> [from |-> {"draft", "new", "scheduled", "assigned", "in_progress",
                             "on_hold"}, to |-> "cancelled"]]

Actions   == DOMAIN Rule
FieldWork == {"start", "hold", "resume", "complete"}

Permitted(u, action) == u \in Managers \/ action \in FieldWork

IsAssignee(o, u) == u \in Managers \/ u \in task[o].assigned

(* Mutant of Guards: starting does not ask for an assignee.                 *)
GuardsNoAssignee(o, action) == action = "complete" => task[o].evidence

(* RequiresAssignee and EvidenceSatisfied.                                  *)
Guards(o, action) ==
    /\ action = "start" => task[o].assigned # {}
    /\ action = "complete" => task[o].evidence

(* Why TransitionTx refuses, in the order of its checks; "none" if it does  *)
(* not.  A reason is given where one is required.                           *)
Refusal(o, u, action) ==
    IF task[o].status \in Terminal /\ action # "reopen" THEN "OBJECT_TERMINAL"
    ELSE IF task[o].status \notin Rule[action].from THEN "INVALID_TRANSITION"
    ELSE IF ~Permitted(u, action) THEN "FORBIDDEN"
    ELSE IF action \in FieldWork /\ ~IsAssignee(o, u) THEN "FORBIDDEN"
    ELSE IF ~Guards(o, action) THEN "GUARD_FAILED" ELSE "none"

(* Mutant of SlaAfter: resume leaves the clock stopped.                     *)
SlaAfterNoResume(o, action) ==
    [sla[o] EXCEPT !.paused   = IF action = "hold" THEN TRUE ELSE @,
                   !.resolved = CASE action = "complete" -> TRUE
                                  [] action = "reopen"   -> FALSE
                                  [] OTHER               -> @]

(* What a transition does to sla_tracking.                                  *)
SlaAfter(o, action) ==
    [sla[o] EXCEPT !.paused   = CASE action = "hold"   -> TRUE
                                  [] action = "resume" -> FALSE
                                  [] OTHER             -> @,
                   !.resolved = CASE action = "complete" -> TRUE
                                  [] action = "reopen"   -> FALSE
                                  [] OTHER               -> @]

(* Mutant of Move: reopened work waits to be started again.                 *)
MoveReopenAssigned(o, action) ==
    /\ task' = [task EXCEPT ![o].status   = IF action = "reopen" THEN "assigned"
                                            ELSE Rule[action].to,
                            ![o].assigned = IF action = "unassign" THEN {} ELSE @]
    /\ sla' = [sla EXCEPT ![o] = SlaAfter(o, action)]

(* The effect of a transition that is not refused.                          *)
Move(o, action) ==
    /\ task' = [task EXCEPT ![o].status   = Rule[action].to,
                            ![o].assigned = IF action = "unassign" THEN {} ELSE @]
    /\ sla' = [sla EXCEPT ![o] = SlaAfter(o, action)]

Transition(o, u, action) == Refusal(o, u, action) = "none" /\ Move(o, action)

-----------------------------------------------------------------------------
(* AssignTx: to a user or to a team, which is the set of its members.       *)
Assign(o, u, team) ==
    /\ u \in Managers /\ team # {} /\ team # task[o].assigned
    /\ task[o].status \notin Terminal \cup {"completed", "draft"}
    /\ task' = [task EXCEPT ![o].assigned = team,
                            ![o].status   = IF @ \in {"new", "scheduled"}
                                            THEN "assigned" ELSE @]
    /\ UNCHANGED sla

(* Update: other evidence may be required.                                  *)
Update(o, u) ==
    /\ u \in Managers
    /\ \E there \in BOOLEAN : task' = [task EXCEPT ![o].evidence = there]
    /\ UNCHANGED sla

(* AnswerItemTx refuses; "none" if it does not.                             *)
AnswerRefusal(o, u) ==
    IF u \in Managers THEN "none"
    ELSE IF task[o].status \in Terminal THEN "OBJECT_TERMINAL"
    ELSE IF u \notin task[o].assigned THEN "FORBIDDEN"
    ELSE IF task[o].status # "in_progress" THEN "GUARD_FAILED" ELSE "none"

(* The last answer, or the last photo, that the checklist requires.         *)
Answered(o) == task' = [task EXCEPT ![o].evidence = TRUE] /\ UNCHANGED sla

Answer(o, u) == AnswerRefusal(o, u) = "none" /\ Answered(o)

-----------------------------------------------------------------------------
(* Created as a draft, open, scheduled, or assigned at once.                *)
TaskInit ==
    /\ task \in [Objects -> {t \in [status : {"draft", "new", "scheduled", "assigned"},
                                    assigned : SUBSET Workers, evidence : BOOLEAN] :
                                t.assigned # {} <=> t.status = "assigned"}]
    /\ sla = [o \in Objects |-> [paused |-> FALSE, resolved |-> FALSE]]

Online ==
    \E o \in Objects, u \in Users :
        \/ \E action \in Actions : Transition(o, u, action)
        \/ \E team \in SUBSET Workers : Assign(o, u, team)
        \/ Update(o, u)
        \/ Answer(o, u)

TaskSpec == TaskInit /\ [][Online]_taskVars

-----------------------------------------------------------------------------
(* Types of the modelled columns.                                           *)
TaskTypeOK ==
    /\ task \in [Objects -> [status : TaskStatus, assigned : SUBSET Workers,
                             evidence : BOOLEAN]]
    /\ sla \in [Objects -> [paused : BOOLEAN, resolved : BOOLEAN]]

(* Work that is assigned, under way, held or finished has somebody who was  *)
(* to do it, through reassignments, reopenings and starts on behalf of      *)
(* another: only unassign empties the assignees, and start asks for them.   *)
WorkHasAssignee ==
    \A o \in Objects :
        task[o].status \in {"assigned", "in_progress", "on_hold", "completed", "closed"}
            => task[o].assigned # {}

(* The SLA clock follows the work: it stands still exactly while the work   *)
(* is held (a cancellation leaves it as it was), and it is resolved exactly *)
(* while the work is finished, whatever is reopened or cancelled.           *)
SlaFollowsWork ==
    \A o \in Objects :
        /\ task[o].status = "on_hold" => sla[o].paused
        /\ sla[o].paused => task[o].status \in {"on_hold", "cancelled"}
        /\ sla[o].resolved <=> task[o].status \in {"completed", "closed"}
=============================================================================
