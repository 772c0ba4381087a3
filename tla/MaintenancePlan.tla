----------------------------- MODULE MaintenancePlan -----------------------------
(***************************************************************************)
(* Preventive maintenance of one asset (api/internal/engineering): a plan,  *)
(* the schedules that are generated from it, one row for each due date, and *)
(* the work that is created when a schedule falls due, a work order or an   *)
(* inspection task.  Jobs and buttons generate, create, skip and mark       *)
(* overdue; hooks of the task engine carry the status of the work back to   *)
(* its schedule.                                                            *)
(*                                                                          *)
(* Of a work the statuses before its start are one ("new"), as are in       *)
(* progress and on hold.  A schedule falls due at the end of its day.  Rows *)
(* generated again for a date are not told apart from those deleted.        *)
(***************************************************************************)
EXTENDS Transactions, Naturals, FiniteSets

CONSTANTS
    LastDay,    \* bound: the horizon of generation
    LeadTime,   \* lead_time_days
    MaxPieces   \* bound: works created for the plan

ASSUME PlanAssumption == {LastDay, LeadTime, MaxPieces} \subseteq Nat

DueDays == 0 .. LastDay
Pieces  == 1 .. MaxPieces
Outputs == {"work_order", "inspection"}

VARIABLES
    plan,    \* status, output_type, and the dates its frequency gives
    due,     \* due[d]: status of the maintenance_schedules row, and its work, 0 before
    piece,   \* piece[w]: status, kind, day and whether it was ever started
    today

planVars == <<plan, due, piece, today, ops, serial>>

-----------------------------------------------------------------------------
NoPlan  == [status |-> "none", output |-> "work_order", dates |-> {}]
NoDue   == [status |-> "none", work |-> 0]
NoPiece == [status |-> "none", kind |-> "work_order", day |-> 0, started |-> FALSE]

Awaited == {"scheduled", "due", "overdue"}

(* GenerateSchedulesTx: INSERT ... ON CONFLICT (plan_id, due_date).         *)
Generated(rows, dates, from) ==
    [d \in DueDays |-> IF d \in dates /\ d >= from /\ rows[d].status = "none"
                       THEN [NoDue EXCEPT !.status = "scheduled"] ELSE rows[d]]

CreatePlan(output, dates) ==
    /\ Calm /\ plan.status = "none"
    /\ plan' = [status |-> "draft", output |-> output, dates |-> dates]
    /\ UNCHANGED <<due, piece, today, ops, serial>>

(* Publishing generates in the same transaction.  The status before does    *)
(* not matter.                                                              *)
PublishPlan ==
    /\ Calm /\ plan.status # "none"
    /\ plan' = [plan EXCEPT !.status = "published"]
    /\ due' = Generated(due, plan.dates, today)
    /\ UNCHANGED <<piece, today, ops, serial>>

(* Archiving asks for schedules without a work order: an inspection that is *)
(* due is cancelled although its task lives on.                             *)
OrderOf(d) == due[d].work # 0 /\ piece[due[d].work].kind = "work_order"

ArchivePlan ==
    /\ Calm /\ plan.status # "none"
    /\ plan' = [plan EXCEPT !.status = "archived"]
    /\ due' = [d \in DueDays |-> IF due[d].status \in {"scheduled", "due"} /\ ~OrderOf(d)
                                 THEN [due[d] EXCEPT !.status = "cancelled"] ELSE due[d]]
    /\ UNCHANGED <<piece, today, ops, serial>>

(* UpdatePlan: future schedules nobody works on go; a job generates anew.   *)
UpdatePlanRead(q, output, dates) ==
    /\ plan.status \notin {"none", "archived"}
    /\ Begin(q, [kind |-> "plan", output |-> output, dates |-> dates,
                 published |-> plan.status = "published"])
    /\ UNCHANGED <<plan, due, piece, today, serial>>

UpdatePlanCommit(q) ==
    /\ ops[q].kind = "plan" /\ End(q)
    /\ plan' = [plan EXCEPT !.output = ops[q].output, !.dates = ops[q].dates]
    /\ due' = [d \in DueDays |-> IF /\ ops[q].published /\ due[d].status = "scheduled"
                                    /\ ~OrderOf(d) /\ d > today
                                 THEN NoDue ELSE due[d]]
    /\ UNCHANGED <<piece, today, serial>>

SchedulesRead(q) ==
    /\ plan.status = "published"
    /\ Begin(q, [kind |-> "generate", dates |-> plan.dates, from |-> today])
    /\ UNCHANGED <<plan, due, piece, today, serial>>

SchedulesCommit(q) ==
    /\ ops[q].kind = "generate" /\ End(q)
    /\ due' = Generated(due, ops[q].dates, ops[q].from)
    /\ UNCHANGED <<plan, piece, today, serial>>

-----------------------------------------------------------------------------
(* Mutant of Workless: only the status of a schedule is looked at.          *)
WorklessAnyway(d) == TRUE

Workless(d) == due[d].work = 0

(* CreateDueWorkOrders, of the job or of the button.                        *)
DueRead(q) ==
    LET falling == {d \in DueDays : /\ due[d].status \in Awaited /\ Workless(d)
                                    /\ d <= today + LeadTime}
    IN /\ plan.status = "published" /\ falling # {}
       /\ Begin(q, [kind |-> "create", days |-> falling, output |-> plan.output])
       /\ UNCHANGED <<plan, due, piece, today, serial>>

(* A work order refers to its schedule by a foreign key, an inspection does *)
(* not.  Pieces are numbered in the order of their dates.                   *)
DueCommit(q) ==
    LET days   == ops[q].days
        used   == Cardinality({w \in Pieces : piece[w].status # "none"})
        nth(d) == used + Cardinality({e \in days : e <= d})
    IN /\ ops[q].kind = "create" /\ End(q)
       /\ \A d \in days : nth(d) \in Pieces
       /\ ops[q].output = "work_order" => \A d \in days : due[d].status # "none"
       /\ piece' = [w \in Pieces |->
                      IF \E d \in days : nth(d) = w
                      THEN [status |-> "new", kind |-> ops[q].output, started |-> FALSE,
                            day |-> CHOOSE d \in days : nth(d) = w]
                      ELSE piece[w]]
       /\ due' = [d \in DueDays |->
                    IF d \in days /\ due[d].status # "none"
                    THEN [status |-> IF d < today THEN "overdue" ELSE "due", work |-> nth(d)]
                    ELSE due[d]]
       /\ UNCHANGED <<plan, today, serial>>

(* SLASweep: one UPDATE.                                                    *)
OverdueSweep ==
    /\ Calm
    /\ due' = [d \in DueDays |-> IF due[d].status \in {"scheduled", "due"} /\ d < today
                                 THEN [due[d] EXCEPT !.status = "overdue"] ELSE due[d]]
    /\ UNCHANGED <<plan, piece, today, ops, serial>>

-----------------------------------------------------------------------------
(* The work, and its hooks.                                                 *)
WorkRule ==
    [start    |-> [from |-> {"new"}, to |-> "in_progress"],
     complete |-> [from |-> {"in_progress"}, to |-> "completed"],
     close    |-> [from |-> {"completed"}, to |-> "closed"],
     reopen   |-> [from |-> {"completed", "closed"}, to |-> "in_progress"],
     cancel   |-> [from |-> {"new", "in_progress"}, to |-> "cancelled"]]

(* maintenanceHook: what the schedule becomes, by the status of the order.  *)
OrderHook(status, to) ==
    IF to \in {"completed", "closed"} THEN "completed"
    ELSE IF status = "completed" THEN status ELSE to

(* inspectionHook: by the action on the task.                               *)
InspectionHook(status, action) ==
    CASE action = "start" /\ status \in Awaited -> "in_progress"
      [] action = "complete" -> "completed"
      [] action = "cancel" /\ status \notin {"completed", "skipped"} -> "cancelled"
      [] OTHER -> status

(* An order knows its schedule, an inspection is known by its schedule.     *)
Hooked(rows, w, action) ==
    [d \in DueDays |->
       CASE rows[d].status = "none" -> rows[d]
         [] piece[w].kind = "work_order" /\ piece[w].day = d ->
              [rows[d] EXCEPT !.status = OrderHook(@, WorkRule[action].to)]
         [] piece[w].kind = "inspection" /\ rows[d].work = w ->
              [rows[d] EXCEPT !.status = InspectionHook(@, action)]
         [] OTHER -> rows[d]]

Acted(w, action) ==
    [piece EXCEPT ![w].status = WorkRule[action].to, ![w].started = @ \/ action = "start"]

ActOn(w, action) ==
    /\ Calm /\ piece[w].status \in WorkRule[action].from
    /\ piece' = Acted(w, action) /\ due' = Hooked(due, w, action)
    /\ UNCHANGED <<plan, today, ops, serial>>

(* Delete of the task engine: work that never began.  The task of a         *)
(* schedule is protected by a foreign key.                                  *)
DeleteWork(w) ==
    /\ Calm /\ piece[w].status \in {"new", "cancelled"} /\ ~piece[w].started
    /\ piece[w].kind = "inspection" => \A d \in DueDays : due[d].work # w
    /\ piece' = [piece EXCEPT ![w].status = "deleted"]
    /\ due' = [d \in DueDays |->
                 IF due[d].work = w
                 THEN [work |-> 0, status |-> IF due[d].status \in {"in_progress", "completed"}
                                              THEN "due" ELSE due[d].status]
                 ELSE due[d]]
    /\ UNCHANGED <<plan, today, ops, serial>>

(* The work is cancelled unless it is over already.                         *)
WorkStops(w) == w # 0 /\ piece[w].status \in WorkRule["cancel"].from

(* SkipSchedule.                                                            *)
SkipRead(q, d) ==
    /\ due[d].status \notin {"none", "completed", "in_progress"}
    /\ Begin(q, [kind |-> "skip", day |-> d, work |-> due[d].work])
    /\ UNCHANGED <<plan, due, piece, today, serial>>

SkipCommit(q) ==
    LET d == ops[q].day  w == ops[q].work IN
    /\ ops[q].kind = "skip" /\ End(q)
    /\ piece' = IF WorkStops(w) THEN Acted(w, "cancel") ELSE piece
    /\ due' = IF due[d].status = "none" THEN due
              ELSE [(IF WorkStops(w) THEN Hooked(due, w, "cancel") ELSE due)
                      EXCEPT ![d].status = "skipped"]
    /\ UNCHANGED <<plan, today, serial>>

PlanAbort(q) == ops[q] # NoOp /\ End(q) /\ UNCHANGED <<plan, due, piece, today, serial>>

DayPasses ==
    /\ today < LastDay /\ today' = today + 1
    /\ UNCHANGED <<plan, due, piece, ops, serial>>

-----------------------------------------------------------------------------
PlanIdle ==
    /\ plan = NoPlan /\ today = 0
    /\ due = [d \in DueDays |-> NoDue] /\ piece = [w \in Pieces |-> NoPiece]

PlanInit == PlanIdle /\ TxInit

PlanNext ==
    \/ \E output \in Outputs, dates \in SUBSET DueDays :
         \/ CreatePlan(output, dates)
         \/ \E q \in Requests : UpdatePlanRead(q, output, dates)
    \/ PublishPlan \/ ArchivePlan \/ OverdueSweep \/ DayPasses
    \/ \E w \in Pieces : DeleteWork(w) \/ \E action \in DOMAIN WorkRule : ActOn(w, action)
    \/ \E q \in Requests :
         \/ UpdatePlanCommit(q)
         \/ SchedulesRead(q) \/ SchedulesCommit(q)
         \/ DueRead(q) \/ DueCommit(q)
         \/ SkipCommit(q) \/ PlanAbort(q)
         \/ \E d \in DueDays : SkipRead(q, d)

PlanSpec == PlanInit /\ [][PlanNext]_planVars

-----------------------------------------------------------------------------
PlanTypeOK ==
    /\ plan \in [status : {"none", "draft", "published", "archived"}, output : Outputs,
                 dates : SUBSET DueDays]
    /\ due \in [DueDays -> [status : Awaited \cup {"none", "in_progress", "completed", "skipped",
                                                   "cancelled"},
                            work : 0 .. MaxPieces]]
    /\ piece \in [Pieces -> [status : {"none", "new", "in_progress", "completed", "closed",
                                       "cancelled", "deleted"},
                             kind : Outputs, day : DueDays, started : BOOLEAN]]
    /\ today \in DueDays /\ serial \in BOOLEAN

(* When no two handlers overlap, a due date is worked on once, however the  *)
(* plan is changed, archived and published again and work is deleted; what  *)
(* is new is awaited (an inspection may have lost its schedule to the       *)
(* archive), work under way or finished shows on its schedule, and work     *)
(* whose schedule is skipped has ended.                                     *)
PlanFollowed ==
    serial =>
      /\ \A v, w \in Pieces :
           {piece[v].status, piece[w].status} \subseteq {"new", "in_progress", "completed", "closed"}
           /\ piece[v].day = piece[w].day => v = w
      /\ \A d \in DueDays, w \in Pieces : due[d].work = w =>
           LET lost == piece[w].kind = "inspection" /\ due[d].status = "cancelled" IN
           /\ piece[w].day = d
           /\ piece[w].status = "new" => due[d].status \in {"due", "overdue"} \/ lost
           /\ piece[w].status = "in_progress" => due[d].status \in {"in_progress", "completed"} \/ lost
           /\ piece[w].status \in {"completed", "closed"} => due[d].status = "completed"
           /\ piece[w].status = "cancelled" => due[d].status \in {"cancelled", "skipped", "completed"}
=============================================================================
