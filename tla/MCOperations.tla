------------------------------ MODULE MCOperations ------------------------------
(* Instances of TaskWorkflow, TicketChain, Stock, BillingRuns,              *)
(* MaintenancePlan, CleaningPlan, Rounds, Notices, Shifts and Gate for TLC. *)
(* A behaviour is one scene: a task, a ticket with the clock of its SLA, a  *)
(* chain of work below a ticket, the stock of an item that work orders or   *)
(* cleaning tasks use, billing runs, a maintenance plan, the cleaning       *)
(* schedule of an area, a cleaning route, patrols, a notice to tenants, the *)
(* shifts of a member of staff, parking permits, or a visitor.              *)
EXTENDS TaskWorkflow, TicketChain, Stock, BillingRuns, MaintenancePlan, CleaningPlan,
        Rounds, Notices, Shifts, Gate, TLC

CONSTANTS Scenes

VARIABLE scene

(* In the scene "ticket" time passes and two objects follow, the second of  *)
(* them work; in "chain" it does not, three follow, the last of them work,  *)
(* only the first may be one that was reported on its own, and the ticket   *)
(* is not triaged.                                                          *)
ChainScene ==
    /\ ChainNext
    /\ scene = "ticket" => \A n \in Steps : n > 1 =>
                             chain'[n] = NoStep \/ (n = 2 /\ chain'[n].kind = "work")
    /\ scene = "chain"  => /\ ~clock'.late /\ \A n \in Steps : n > 1 => chain'[n].source # n
                           /\ chain'[MaxSteps].kind \in {"none", "work"}
                           /\ ticket'.status \notin {"acknowledged", "assigned", "waiting"}

(* Only work of one kind moves, uses stock and is charged; handlers that    *)
(* overlap use a piece at a time, their counts differ by one, and none      *)
(* charges a work by hand.                                                  *)
StockScene ==
    LET using == IF scene = "parts" THEN Orders ELSE Tasks IN
    /\ StockNext
    /\ \A w \in Work \ using : work'[w] = "open" /\ byHand'[w] = 0
    /\ \A q \in Requests : ops'[q].kind = "use" => ops'[q].work \in using
    /\ \A q \in Requests : ops'[q].kind = "adjust" => ops'[q].ref \in using \cup {NoWork}
    /\ serial \/ /\ byHand' = byHand
                 /\ \A q \in Requests : /\ ops'[q].kind = "use" => ops'[q].quantity = 1
                                        /\ ops'[q].kind = "adjust" => ops'[q].delta \in {-1, 1} /\ ops'[q].ref = NoWork

(* The stops of a day are worked on from that day.                          *)
RouteScene ==
    /\ RouteNext \/ RoundDayPasses \/ \E q \in Requests : RoundAbort(q)
    /\ \A d \in RoundDays, s \in Spots : d > day' => stop'[d][s] \in {"none", "new", "cancelled"}

(* One after the other, only the first run is computed again.               *)
RunScene ==
    /\ RunNext
    /\ scene = "runs" => \A r \in Runs : r > 1 => run'[r].refreshes = 0

(* One after the other, the shift is an hour long; clock-ins that overlap   *)
(* ("clock") meet an empty roster.                                          *)
ShiftScene ==
    /\ ShiftNext /\ hours'.length = 1
    /\ scene = "clock" => hours' = hours /\ roster' = roster

(* Handlers overlap in "parts", where nothing excludes it, in "scans", which *)
(* has the patrol of one day, in "double" and in "clock".                   *)
SceneInit ==
    /\ scene \in Scenes
    /\ TaskInit /\ ChainIdle /\ StockIdle /\ RunIdle /\ PlanIdle /\ RoundIdle /\ NoticeIdle
    /\ CleaningIdle /\ ShiftIdle /\ GateIdle /\ TxInit
    /\ scene # "parts" => serial = (scene \notin {"scans", "double", "clock"})
    /\ day = IF scene = "scans" THEN LastRound ELSE 0
    /\ scene # "task" => \A o \in Objects : task[o] = [status |-> "new", assigned |-> {}, evidence |-> FALSE]

Calmly    == UNCHANGED <<ops, serial>>
TaskStill == UNCHANGED taskVars
ChainStill == UNCHANGED <<ticket, clock, chain>>
StockStill == UNCHANGED <<place, level, journal, unbacked, usage, work, cost, charged, byHand>>
RunStill   == UNCHANGED <<run, bill>>
PlanStill  == UNCHANGED <<plan, due, piece, today>>
RoundStill == UNCHANGED <<route, walk, stop, beat, patrol, scan, day>>
NoticeStill == UNCHANGED <<notice, announced, readdressed, hour>>
CleaningStill == UNCHANGED <<cleaning, chore, promised, cleaningDay>>
ShiftStill == UNCHANGED <<hours, roster, attend, tick>>
GateStill  == UNCHANGED gateVars

(* The scenes of work, of plans and rounds, and of the people on the        *)
(* premises.                                                                *)
WorkScenes ==
    /\ scene \in {"task", "ticket", "chain", "parts", "consumables", "runs", "double"}
    /\ PlanStill /\ CleaningStill /\ RoundStill /\ NoticeStill /\ ShiftStill /\ GateStill
    /\ \/ scene = "task" /\ Online /\ Calmly /\ ChainStill /\ StockStill /\ RunStill
       \/ scene \in {"ticket", "chain"} /\ ChainScene /\ TaskStill /\ StockStill /\ RunStill
       \/ scene \in {"parts", "consumables"} /\ StockScene /\ TaskStill /\ ChainStill /\ RunStill
       \/ scene \in {"runs", "double"} /\ RunScene /\ TaskStill /\ ChainStill /\ StockStill

UpkeepScenes ==
    /\ scene \in {"plan", "cleaning", "route", "patrol", "scans"}
    /\ TaskStill /\ ChainStill /\ StockStill /\ RunStill /\ NoticeStill /\ ShiftStill /\ GateStill
    /\ \/ scene = "plan" /\ PlanNext /\ CleaningStill /\ RoundStill
       \/ scene = "cleaning" /\ CleaningNext /\ PlanStill /\ RoundStill
       \/ scene = "route" /\ RouteScene /\ PlanStill /\ CleaningStill
       \/ /\ scene \in {"patrol", "scans"} /\ (PatrolNext \/ RoundDayPasses \/ \E q \in Requests : RoundAbort(q))
          /\ PlanStill /\ CleaningStill

PeopleScenes ==
    /\ scene \in {"notices", "shifts", "clock", "parking", "visit"}
    /\ TaskStill /\ ChainStill /\ StockStill /\ RunStill /\ PlanStill /\ CleaningStill /\ RoundStill
    /\ \/ scene = "notices" /\ NoticeNext /\ ShiftStill /\ GateStill
       \/ scene \in {"shifts", "clock"} /\ ShiftScene /\ NoticeStill /\ GateStill
       \/ scene = "parking" /\ ~apart /\ ParkingNext /\ Calmly /\ NoticeStill /\ ShiftStill
       \/ scene = "visit" /\ VisitNext /\ Calmly /\ NoticeStill /\ ShiftStill

(* Handlers that do not overlap are all the same request.                   *)
OneRequest == serial => \A q \in Requests \ {CHOOSE r \in Requests : TRUE} : ops'[q] = NoOp

SceneNext == UNCHANGED scene /\ (WorkScenes \/ UpkeepScenes \/ PeopleScenes) /\ OneRequest

SceneSpec ==
    SceneInit /\ [][SceneNext]_<<taskVars, chainVars, stockVars, runVars, planVars, cleaningVars,
                                 roundVars, noticeVars, shiftVars, gateVars, scene>>

-----------------------------------------------------------------------------
(* What keeps a building up to its plans: the work and the inspections of   *)
(* an asset, and the cleaning of an area, follow their plan as it is now.   *)
UpkeepFollowed == PlanFollowed /\ CleaningFollowed

(* What the people on the premises rely on: notices are published once and  *)
(* tell tenants what is meant for tenants, the hours of staff are counted   *)
(* once and on a shift that stands, and the gate knows the permits and      *)
(* passes that are granted.                                                 *)
PremisesAgree == NoticesKept /\ ShiftsKept /\ GateKept

(* Charges do not differ.                                                   *)
Symmetry == Permutations(Charges)
=============================================================================
