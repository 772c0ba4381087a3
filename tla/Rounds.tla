--------------------------------- MODULE Rounds ---------------------------------
(***************************************************************************)
(* Rounds that are walked every day: a cleaning route with a task for each  *)
(* stop (api/internal/housekeeping/routes.go) and a patrol with a scan for  *)
(* each checkpoint (api/internal/security/service.go).  Both are generated  *)
(* ahead from a definition that may change, which takes back what has not   *)
(* begun; both keep counts of their parts, which hooks of the task engine   *)
(* and scans refresh.                                                       *)
(*                                                                          *)
(* Of a task the statuses before its start are one ("new"), so are in       *)
(* progress and on hold, and so are completed and closed.  The row of a     *)
(* task is locked by its transition; a scan locks nothing.                  *)
(***************************************************************************)
EXTENDS Transactions, Naturals, FiniteSets

CONSTANTS
    Spots,     \* stops of the route, checkpoints of the patrol
    LastRound  \* bound: the last day that is generated

ASSUME RoundAssumption == IsFiniteSet(Spots) /\ Spots # {} /\ LastRound \in Nat

RoundDays == 0 .. LastRound

VARIABLES
    route,    \* cleaning_routes: active, and its stops
    walk,     \* walk[d]: the run of day d, its status, total_stops and completed_stops
    stop,     \* stop[d][s]: status of the task of a stop, "none" if the run has none
    beat,     \* patrol_schedules: whether it is active
    patrol,   \* patrol[d]: status of the task, scanned_checkpoints
    scan,     \* scan[d][c]: status of the checkpoint_scans row
    day

roundVars == <<route, walk, stop, beat, patrol, scan, day, ops, serial>>

-----------------------------------------------------------------------------
NoWalk   == [status |-> "none", total |-> 0, done |-> 0]
NoStops  == [s \in Spots |-> "none"]
NoPatrol == [status |-> "none", scanned |-> 0]

Parts(row, S) == {s \in Spots : row[s] \in S}

StopRule ==
    [start    |-> [from |-> {"new"}, to |-> "in_progress"],
     complete |-> [from |-> {"in_progress"}, to |-> "completed"],
     reopen   |-> [from |-> {"completed"}, to |-> "in_progress"],
     cancel   |-> [from |-> {"new", "in_progress"}, to |-> "cancelled"]]

(* generateRunsForRouteTx: a run for each day that has none (UNIQUE         *)
(* route_id, run_date), with a task for each stop.                          *)
Missing(rows, from) == {d \in RoundDays : d >= from /\ rows[d].status = "none"}

Ran(rows, days, stops) ==
    [d \in RoundDays |-> IF d \in days
                         THEN [status |-> "scheduled", total |-> Cardinality(stops), done |-> 0]
                         ELSE rows[d]]

Stopped(rows, days, stops) ==
    [d \in RoundDays |-> IF d \in days THEN [s \in Spots |-> IF s \in stops THEN "new" ELSE "none"]
                         ELSE rows[d]]

CreateRoute(stops) ==
    /\ Calm /\ ~route.active /\ route.stops = {}
    /\ route' = [active |-> TRUE, stops |-> stops]
    /\ walk' = Ran(walk, RoundDays \ 0 .. day - 1, stops)
    /\ stop' = Stopped(stop, RoundDays \ 0 .. day - 1, stops)
    /\ UNCHANGED <<beat, patrol, scan, day, ops, serial>>

GenerateRunsRead(q) ==
    /\ route.active
    /\ Begin(q, [kind |-> "runs", stops |-> route.stops, from |-> day])
    /\ UNCHANGED <<route, walk, stop, beat, patrol, scan, day, serial>>

GenerateRunsCommit(q) ==
    /\ ops[q].kind = "runs" /\ End(q)
    /\ LET days == Missing(walk, ops[q].from) IN
         /\ walk' = Ran(walk, days, ops[q].stops)
         /\ stop' = Stopped(stop, days, ops[q].stops)
    /\ UNCHANGED <<route, beat, patrol, scan, day, serial>>

-----------------------------------------------------------------------------
(* cancelFutureRunsTx: the runs that are scheduled are read first.  Their   *)
(* tasks that have not begun are cancelled, those cancelled leave the run,  *)
(* and the run goes if none is left.                                        *)
LockedStop(d, s) == \E q \in Requests : ops[q].kind = "stop" /\ ops[q].day = d /\ ops[q].spot = s

Emptied(rows, days) ==
    [d \in RoundDays |-> IF d \in days
                         THEN [s \in Spots |-> IF rows[d][s] \in {"new", "cancelled"} THEN "none"
                                               ELSE rows[d][s]]
                         ELSE rows[d]]

Withdrawn(rows, stops, days) ==
    [d \in RoundDays |-> IF d \in days /\ stops[d] = NoStops THEN NoWalk ELSE rows[d]]

(* The row of the route is updated before the runs are read.                *)
RouteLocked == \E q \in Requests : ops[q].kind = "route"

ChangeRouteRead(q, active, stops) ==
    LET first == IF active THEN day + 1 ELSE day IN
    /\ route.stops # {} /\ ~RouteLocked
    /\ Begin(q, [kind |-> "route", active |-> active, stops |-> stops,
                 runs |-> {d \in RoundDays : d >= first /\ walk[d].status = "scheduled"}])
    /\ UNCHANGED <<route, walk, stop, beat, patrol, scan, day, serial>>

(* UpdateRoute, which then generates, and DeactivateRoute, which does not.  *)
ChangeRouteCommit(q) ==
    LET runs  == ops[q].runs
        stops == Emptied(stop, runs)
        kept  == Withdrawn(walk, stops, runs)
        days  == IF ops[q].active THEN Missing(kept, day) ELSE {}
    IN /\ ops[q].kind = "route" /\ End(q)
       /\ \A d \in runs, s \in Spots : ~LockedStop(d, s)
       /\ route' = [active |-> ops[q].active, stops |-> ops[q].stops]
       /\ walk' = Ran(kept, days, ops[q].stops)
       /\ stop' = Stopped(stops, days, ops[q].stops)
       /\ UNCHANGED <<beat, patrol, scan, day, serial>>

-----------------------------------------------------------------------------
(* Mutant of Count: a reopened stop still counts as done.                   *)
CountReached(row) ==
    [done |-> Cardinality(Parts(row, {"completed", "in_progress"})),
     cancelled |-> Cardinality(Parts(row, {"cancelled"})),
     started |-> Cardinality(Parts(row, {"in_progress"}))]

Count(row) ==
    [done |-> Cardinality(Parts(row, {"completed"})),
     cancelled |-> Cardinality(Parts(row, {"cancelled"})),
     started |-> Cardinality(Parts(row, {"in_progress"}))]

(* refreshRunProgressTx.                                                    *)
Refreshed(row, n) ==
    [row EXCEPT !.done = n.done,
                !.status = IF n.cancelled >= row.total THEN "cancelled"
                           ELSE IF n.done + n.cancelled >= row.total THEN "completed"
                           ELSE IF n.started > 0 \/ n.done > 0 THEN "in_progress"
                           ELSE "scheduled"]

(* A transition of the task of a stop with cleaningHook: the counts are of  *)
(* the stops as committed when its UPDATE begins, and its own.              *)
StopActRead(q, d, s, action) ==
    /\ stop[d][s] \in StopRule[action].from /\ ~LockedStop(d, s)
    /\ Begin(q, [kind |-> "stop", day |-> d, spot |-> s, to |-> StopRule[action].to,
                 count |-> Count([stop[d] EXCEPT ![s] = StopRule[action].to])])
    /\ UNCHANGED <<route, walk, stop, beat, patrol, scan, day, serial>>

StopActCommit(q) ==
    /\ ops[q].kind = "stop" /\ End(q)
    /\ stop' = [stop EXCEPT ![ops[q].day][ops[q].spot] = ops[q].to]
    /\ walk' = [walk EXCEPT ![ops[q].day] = IF @.status = "none" THEN @ ELSE Refreshed(@, ops[q].count)]
    /\ UNCHANGED <<route, beat, patrol, scan, day, serial>>

(* Delete of the task engine: the stop leaves its run, which is not         *)
(* refreshed.                                                               *)
DeleteStop(d, s) ==
    /\ Calm /\ stop[d][s] \in {"new", "cancelled"} /\ ~LockedStop(d, s)
    /\ stop' = [stop EXCEPT ![d][s] = "none"]
    /\ UNCHANGED <<route, walk, beat, patrol, scan, day, ops, serial>>

-----------------------------------------------------------------------------
(* Patrols.  A day that has one is skipped, and a unique index of schedule  *)
(* and date stands behind that.                                             *)
Unpatrolled(rows) == {d \in RoundDays : d >= day /\ rows[d].status = "none"}

Patrolled(rows, days) == [d \in RoundDays |-> IF d \in days THEN [NoPatrol EXCEPT !.status = "new"] ELSE rows[d]]

Posted(rows, days) == [d \in RoundDays |-> IF d \in days THEN [c \in Spots |-> "pending"] ELSE rows[d]]

(* UpdateSchedule: the patrols to come that have not begun are cancelled,   *)
(* those cancelled are removed with their scans, and generated again.       *)
ChangeBeat(active) ==
    LET gone == {d \in RoundDays : d > day /\ patrol[d].status \in {"new", "cancelled"}}
        left == [d \in RoundDays |-> IF d \in gone THEN NoPatrol ELSE patrol[d]]
        days == IF active THEN Unpatrolled(left) ELSE {}
    IN /\ Calm /\ beat' = active
       /\ patrol' = Patrolled(left, days)
       /\ scan' = Posted([d \in RoundDays |-> IF d \in gone THEN NoStops ELSE scan[d]], days)
       /\ UNCHANGED <<route, walk, stop, day, ops, serial>>

GeneratePatrols ==
    /\ Calm /\ beat
    /\ patrol' = Patrolled(patrol, Unpatrolled(patrol))
    /\ scan' = Posted(scan, Unpatrolled(patrol))
    /\ UNCHANGED <<route, walk, stop, beat, day, ops, serial>>

(* ScanCheckpointTx reads the task as committed; its count is of the scans  *)
(* as committed, and its own.                                               *)
ScanRead(q, d, c) ==
    /\ patrol[d].status = "in_progress" /\ scan[d][c] # "none"
    /\ Begin(q, [kind |-> "scan", day |-> d, spot |-> c,
                 scanned |-> Cardinality(Parts([scan[d] EXCEPT ![c] = "scanned"], {"scanned"}))])
    /\ UNCHANGED <<route, walk, stop, beat, patrol, scan, day, serial>>

ScanCommit(q) ==
    LET d == ops[q].day IN
    /\ ops[q].kind = "scan" /\ End(q)
    /\ scan[d][ops[q].spot] # "none"
    /\ scan' = [scan EXCEPT ![d][ops[q].spot] = "scanned"]
    /\ patrol' = [patrol EXCEPT ![d].scanned = ops[q].scanned]
    /\ UNCHANGED <<route, walk, stop, beat, day, serial>>

(* MarkMissed: one UPDATE with its condition; a manager may when the patrol *)
(* is closed or cancelled.                                                  *)
MarkMissed(d, c) ==
    /\ Calm /\ scan[d][c] = "pending"
    /\ scan' = [scan EXCEPT ![d][c] = "missed"]
    /\ UNCHANGED <<route, walk, stop, beat, patrol, day, ops, serial>>

(* Mutant of AllRecorded: completing looks at nothing.                      *)
RecordedAnyway(row) == row

(* patrolHook.BeforeComplete: what is pending is missed (or, by the other   *)
(* policy, refuses the completion).                                         *)
AllRecorded(row) == [c \in Spots |-> IF row[c] = "pending" THEN "missed" ELSE row[c]]

PatrolAct(d, action) ==
    /\ Calm /\ patrol[d].status \in StopRule[action].from
    /\ patrol' = [patrol EXCEPT ![d].status = StopRule[action].to]
    /\ scan' = IF action = "complete" THEN [scan EXCEPT ![d] = AllRecorded(@)] ELSE scan
    /\ UNCHANGED <<route, walk, stop, beat, day, ops, serial>>

DeletePatrol(d) ==
    /\ Calm /\ patrol[d].status \in {"new", "cancelled"}
    /\ patrol' = [patrol EXCEPT ![d] = NoPatrol] /\ scan' = [scan EXCEPT ![d] = NoStops]
    /\ UNCHANGED <<route, walk, stop, beat, day, ops, serial>>

RoundAbort(q) ==
    ops[q] # NoOp /\ End(q) /\ UNCHANGED <<route, walk, stop, beat, patrol, scan, day, serial>>

RoundDayPasses ==
    /\ day < LastRound /\ day' = day + 1
    /\ UNCHANGED <<route, walk, stop, beat, patrol, scan, ops, serial>>

-----------------------------------------------------------------------------
RoundIdle ==
    /\ route = [active |-> FALSE, stops |-> {}] /\ beat = FALSE /\ day \in RoundDays
    /\ walk = [d \in RoundDays |-> NoWalk] /\ stop = [d \in RoundDays |-> NoStops]
    /\ patrol = [d \in RoundDays |-> NoPatrol] /\ scan = [d \in RoundDays |-> NoStops]

RouteNext ==
    \/ \E stops \in (SUBSET Spots) \ {{}} :
         \/ CreateRoute(stops)
         \/ \E q \in Requests, active \in BOOLEAN : ChangeRouteRead(q, active, stops)
    \/ \E d \in RoundDays, s \in Spots :
         \/ DeleteStop(d, s)
         \/ \E q \in Requests, action \in DOMAIN StopRule : StopActRead(q, d, s, action)
    \/ \E q \in Requests : GenerateRunsRead(q) \/ GenerateRunsCommit(q)
                           \/ ChangeRouteCommit(q) \/ StopActCommit(q)

PatrolNext ==
    \/ \E active \in BOOLEAN : ChangeBeat(active)
    \/ GeneratePatrols
    \/ \E d \in RoundDays :
         \/ DeletePatrol(d) \/ \E action \in DOMAIN StopRule : PatrolAct(d, action)
         \/ \E c \in Spots : MarkMissed(d, c) \/ \E q \in Requests : ScanRead(q, d, c)
    \/ \E q \in Requests : ScanCommit(q)

RoundNext ==
    \/ RouteNext \/ PatrolNext \/ RoundDayPasses
    \/ \E q \in Requests : RoundAbort(q)

RoundSpec == RoundIdle /\ TxInit /\ [][RoundNext]_roundVars

-----------------------------------------------------------------------------
RoundTypeOK ==
    /\ route \in [active : BOOLEAN, stops : SUBSET Spots] /\ beat \in BOOLEAN
    /\ walk \in [RoundDays -> [status : {"none", "scheduled", "in_progress", "completed", "cancelled"},
                               total : 0 .. Cardinality(Spots), done : 0 .. Cardinality(Spots)]]
    /\ stop \in [RoundDays -> [Spots -> {"none", "new", "in_progress", "completed", "cancelled"}]]
    /\ patrol \in [RoundDays -> [status : {"none", "new", "in_progress", "completed", "cancelled"},
                                 scanned : 0 .. Cardinality(Spots)]]
    /\ scan \in [RoundDays -> [Spots -> {"none", "pending", "scanned", "missed"}]]
    /\ day \in RoundDays /\ serial \in BOOLEAN

RunsAgree ==
    serial => \A d \in RoundDays :
      LET whole == Cardinality(Parts(stop[d], {"new", "in_progress", "completed", "cancelled"})) = walk[d].total
          begun == Parts(stop[d], {"in_progress", "completed"})
      IN walk[d].status # "none" =>
           /\ walk[d].done = Cardinality(Parts(stop[d], {"completed"}))
           /\ whole => /\ walk[d].status \in {"completed", "cancelled"}
                            <=> Parts(stop[d], {"new", "in_progress"}) = {}
                       /\ walk[d].status = "cancelled" => begun = {}
                       /\ walk[d].status = "scheduled" => begun = {}

PatrolsAgree ==
    \A d \in RoundDays :
      /\ patrol[d].status = "completed" => Parts(scan[d], {"pending"}) = {}
      /\ serial => patrol[d].scanned = Cardinality(Parts(scan[d], {"scanned"}))

(* When no two handlers overlap, a run shows what became of its stops,      *)
(* however the route is changed, stops are cancelled, reopened and done:    *)
(* while it has all of them it is completed or cancelled exactly when they  *)
(* are over, and scheduled exactly while nobody has begun.  A patrol that   *)
(* was completed has every checkpoint scanned or recorded as missed,        *)
(* whatever handlers overlap; and when none do, its count is that of the    *)
(* checkpoints scanned.                                                     *)
RoundsAgree == RunsAgree /\ PatrolsAgree
=============================================================================
