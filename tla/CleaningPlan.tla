------------------------------ MODULE CleaningPlan ------------------------------
(***************************************************************************)
(* The cleaning schedule of one area (api/internal/housekeeping/            *)
(* service.go): it asks for a task on some days of the week, for            *)
(* HorizonDays ahead.  A sweep writes the tasks; a change of the schedule   *)
(* withdraws those to come that nobody has begun and writes them anew.      *)
(*                                                                          *)
(* A task is known by its date (UNIQUE cleaning_schedule_id, schedule_date  *)
(* of cleaning_tasks).  Its statuses before its start are one ("new"), so   *)
(* are in progress and on hold, and completed and closed.  The property     *)
(* lies in the time zone of the database, so that CURRENT_DATE is its day.  *)
(***************************************************************************)
EXTENDS Transactions, Naturals

CONSTANTS
    WeekLength,    \* days of a week
    HorizonDays,   \* days a generation looks ahead
    LastCleaning   \* bound: the last day that is generated

ASSUME CleaningAssumption == {WeekLength, HorizonDays} \subseteq Nat \ {0} /\ LastCleaning \in Nat

CleaningDays == 0 .. LastCleaning

VARIABLES
    cleaning,     \* cleaning_schedules: is_active, weekdays, valid_until
    chore,        \* chore[d]: status of the task of day d, "none" if it has none
    promised,     \* history: the days a generation looked at, less those staff took back
    cleaningDay

cleaningVars == <<cleaning, chore, promised, cleaningDay, ops, serial>>

-----------------------------------------------------------------------------
Wanted(schedule, d) ==
    schedule.active /\ d % WeekLength \in schedule.weekdays /\ d <= schedule.until

Ahead == {d \in CleaningDays : d \in cleaningDay .. cleaningDay + HorizonDays - 1}

(* generateForScheduleTx; today is left out when its hour is over.          *)
ChoresOf(rows, schedule, over) ==
    [d \in CleaningDays |->
       IF /\ rows[d] = "none" /\ d \in Ahead /\ Wanted(schedule, d)
          /\ ~(over /\ d = cleaningDay)
       THEN "new" ELSE rows[d]]

CreateCleaning(weekdays, until) ==
    LET schedule == [active |-> TRUE, weekdays |-> weekdays, until |-> until] IN
    /\ Calm /\ cleaning.weekdays = {}
    /\ cleaning' = schedule
    /\ \E over \in BOOLEAN : chore' = ChoresOf(chore, schedule, over)
    /\ promised' = Ahead
    /\ UNCHANGED <<cleaningDay, ops, serial>>

(* GenerateCleaningTasks reads the schedule, then writes; a task that       *)
(* exists by then, cancelled ones too, stands for its day.                  *)
GenerateCleaningRead(q) ==
    /\ cleaning.active
    /\ Begin(q, [kind |-> "cleaning", schedule |-> cleaning])
    /\ UNCHANGED <<cleaning, chore, promised, cleaningDay, serial>>

GenerateCleaningCommit(q) ==
    /\ ops[q].kind = "cleaning" /\ End(q)
    /\ \E over \in BOOLEAN : chore' = ChoresOf(chore, ops[q].schedule, over)
    /\ promised' = promised \cup {d \in Ahead : chore[d] # "cancelled"}
    /\ UNCHANGED <<cleaning, cleaningDay, serial>>

(* Mutant of Cleared: what was withdrawn stays in the way of a new task.    *)
ClearedNever(status) == IF status = "new" THEN "cancelled" ELSE status

(* The tasks that have not begun are cancelled, and the rows of cancelled   *)
(* tasks are removed.                                                       *)
Cleared(status) == IF status \in {"new", "cancelled"} THEN "none" ELSE status

(* UpdateSchedule withdraws what is to come and generates.                  *)
UpdateCleaning(schedule) ==
    LET kept == [d \in CleaningDays |-> IF d > cleaningDay THEN Cleared(chore[d]) ELSE chore[d]] IN
    /\ Calm /\ cleaning.weekdays # {} /\ schedule # cleaning
    /\ cleaning' = schedule
    /\ \E over \in BOOLEAN : chore' = IF schedule.active THEN ChoresOf(kept, schedule, over) ELSE kept
    /\ promised' = Ahead
    /\ UNCHANGED <<cleaningDay, ops, serial>>

-----------------------------------------------------------------------------
ChoreRule ==
    [start    |-> [from |-> {"new"}, to |-> "in_progress"],
     complete |-> [from |-> {"in_progress"}, to |-> "completed"],
     reopen   |-> [from |-> {"completed"}, to |-> "in_progress"],
     cancel   |-> [from |-> {"new", "in_progress"}, to |-> "cancelled"],
     delete   |-> [from |-> {"new", "cancelled"}, to |-> "none"]]

(* What staff does to a task, under its row lock; a deleted task takes its  *)
(* row with it.                                                             *)
ActOnChore(d, action) ==
    /\ Calm /\ chore[d] \in ChoreRule[action].from
    /\ chore' = [chore EXCEPT ![d] = ChoreRule[action].to]
    /\ promised' = IF action \in {"cancel", "delete"} THEN promised \ {d} ELSE promised
    /\ UNCHANGED <<cleaning, cleaningDay, ops, serial>>

CleaningDayPasses ==
    /\ cleaningDay < LastCleaning /\ cleaningDay' = cleaningDay + 1
    /\ UNCHANGED <<cleaning, chore, promised, ops, serial>>

CleaningAbort(q) ==
    /\ ops[q].kind = "cleaning" /\ End(q)
    /\ UNCHANGED <<cleaning, chore, promised, cleaningDay, serial>>

-----------------------------------------------------------------------------
CleaningIdle ==
    /\ cleaning = [active |-> FALSE, weekdays |-> {}, until |-> LastCleaning]
    /\ chore = [d \in CleaningDays |-> "none"]
    /\ promised = {} /\ cleaningDay = 0

CleaningInit == CleaningIdle /\ TxInit

Weekdays == (SUBSET (0 .. WeekLength - 1)) \ {{}}

CleaningNext ==
    \/ \E weekdays \in Weekdays, until \in CleaningDays :
         \/ CreateCleaning(weekdays, until)
         \/ \E active \in BOOLEAN :
              UpdateCleaning([active |-> active, weekdays |-> weekdays, until |-> until])
    \/ \E q \in Requests : GenerateCleaningRead(q) \/ GenerateCleaningCommit(q) \/ CleaningAbort(q)
    \/ \E d \in CleaningDays, action \in DOMAIN ChoreRule : ActOnChore(d, action)
    \/ CleaningDayPasses

CleaningSpec == CleaningInit /\ [][CleaningNext]_cleaningVars

-----------------------------------------------------------------------------
(* When no two handlers overlap, the tasks to come follow the schedule as   *)
(* it is now, however often it was changed: none waits on a day it does not *)
(* ask for, and each day it asks for has a task as far ahead as a           *)
(* generation looked, unless staff took that task back since.               *)
CleaningFollowed ==
    serial => \A d \in CleaningDays : d > cleaningDay =>
        /\ chore[d] = "new" => Wanted(cleaning, d)
        /\ d \in promised /\ Wanted(cleaning, d) => chore[d] \notin {"none", "cancelled"}
=============================================================================
