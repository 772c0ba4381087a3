------------------------------ MODULE TicketChain ------------------------------
(***************************************************************************)
(* A service request of a tenant (a ticket) and the work that follows from  *)
(* it: tasks, work orders, follow-up tasks, findings and incidents, each    *)
(* with the object it was generated from (operations/chain, findings,       *)
(* incidents, tenantservice).  Work that is finished settles what is above  *)
(* it: findings and incidents without open work below, and the ticket when  *)
(* nothing of its chain is open.  Only the row of the work itself is        *)
(* locked: everything else a handler decides on it reads as committed.      *)
(*                                                                          *)
(* The statuses of work before it is completed are one ("new"), so are      *)
(* open, new and assigned of findings and incidents.  An object that was    *)
(* reported on its own is its own source.                                   *)
(***************************************************************************)
EXTENDS Transactions, Naturals

CONSTANT MaxSteps   \* bound: the objects besides the ticket

ASSUME ChainAssumption == MaxSteps \in Nat

Ticket == 0
Steps  == 1 .. MaxSteps

VARIABLES
    ticket,   \* status of the service request, and whether it is flagged as breached
    clock,    \* its sla_tracking: paused, resolved, late (the due time has passed), breached
    chain     \* chain[n]: kind, source, origin (the ticket is), status, follow_up, and for
              \* an incident whether its sla_tracking is resolved

chainVars == <<ticket, clock, chain, ops, serial>>

-----------------------------------------------------------------------------
Pending(row) == row.status \in {"new", "in_progress"}
Kinds        == {"work", "finding", "incident"}
Over         == {"resolved", "closed", "cancelled"}

(* openDescendants: what was generated from n, directly or not.             *)
Below(rows, n) ==
    LET under[m \in Steps] == /\ rows[m].source \notin {m, Ticket}
                              /\ rows[m].source = n \/ under[rows[m].source]
    IN {m \in Steps : under[m]}

OpenBelow(rows, n) == {m \in Below(rows, n) : Pending(rows[m])}

(* ChainOpenCount.                                                          *)
ChainOpen(rows) == {n \in Steps : rows[n].origin /\ Pending(rows[n])}

(* The rows above n that may be settled when n is finished: by the hook of  *)
(* findings when the work of a finding is closed, and all of them after a   *)
(* follow-up.                                                               *)
Candidates(rows, n) ==
    {a \in Steps : /\ rows[a].kind # "work" /\ Pending(rows[a])
                   /\ \/ rows[n].follow_up /\ n \in Below(rows, a)
                      \/ rows[n].status = "closed" /\ rows[n].source = a /\ rows[a].kind = "finding"}

(* AfterTransition of the hook, resolveAncestorsAfterFollowUp: from the     *)
(* nearest up, those without open work below.                               *)
Settles(rows, n) ==
    LET settled[a \in Steps] == /\ a \in Candidates(rows, n)
                                /\ \A m \in OpenBelow(rows, a) : settled[m]
    IN {a \in Candidates(rows, n) : settled[a]}

ResolveAll(rows, S) ==
    [n \in Steps |-> IF n \in S THEN [rows[n] EXCEPT !.status = "resolved", !.clock_resolved = TRUE]
                     ELSE rows[n]]

(* resolveChainIfDone for a chain in which a handler finished step n.       *)
SettlesTicket(rows, n) == rows[n].origin /\ ChainOpen(rows) = {} /\ ticket.status \notin Over

(* Mutant of TicketResolved: the clock goes on.                             *)
TicketResolvedClockRuns == ticket' = [ticket EXCEPT !.status = "resolved"] /\ UNCHANGED clock

TicketResolved == /\ ticket' = [ticket EXCEPT !.status = "resolved"]
                  /\ clock' = [clock EXCEPT !.resolved = TRUE]

-----------------------------------------------------------------------------
(* Work.  A handler that finishes work holds its row.                       *)
Held(n) == \E q \in Requests : ops[q].kind = "finish" /\ ops[q].step = n

(* Mutant of Verdict: the ticket is looked at before the rows above.        *)
VerdictTicketFirst(rows, n) ==
    [settles |-> Settles(rows, n), ticket |-> SettlesTicket(rows, n)]

(* What the handler that finishes n finds to settle.                        *)
Verdict(rows, n) ==
    LET up == Settles(rows, n)
    IN [settles |-> up, ticket |-> SettlesTicket(ResolveAll(rows, up), n)]

(* TransitionTx, complete and close.                                        *)
FinishRead(q, n) ==
    /\ chain[n].kind = "work" /\ ~Held(n)
    /\ chain[n].status \in {"new", "completed"}
    /\ LET to == IF chain[n].status = "new" THEN "completed" ELSE "closed"
       IN Begin(q, [kind |-> "finish", step |-> n, to |-> to,
                    verdict |-> Verdict([chain EXCEPT ![n].status = to], n)])
    /\ UNCHANGED <<ticket, clock, chain, serial>>

FinishCommit(q) ==
    LET op == ops[q] IN
    /\ op.kind = "finish" /\ End(q)
    /\ chain' = ResolveAll([chain EXCEPT ![op.step].status = op.to], op.verdict.settles)
    /\ IF op.verdict.ticket THEN TicketResolved ELSE UNCHANGED <<ticket, clock>>
    /\ UNCHANGED serial

(* reopen and cancel tell nobody.                                           *)
WorkBack(n) ==
    /\ Calm /\ chain[n].kind = "work" /\ ~Held(n)
    /\ \/ /\ chain[n].status \in {"completed", "closed"}
          /\ chain' = [chain EXCEPT ![n].status = "new"]
       \/ /\ chain[n].status = "new"
          /\ chain' = [chain EXCEPT ![n].status = "cancelled"]
    /\ UNCHANGED <<ticket, clock, ops, serial>>

-----------------------------------------------------------------------------
(* Findings and incidents: the transition tables.                           *)
StepRule ==
    [start   |-> [from |-> {"new"}, to |-> "in_progress"],
     resolve |-> [from |-> {"new", "in_progress"}, to |-> "resolved"],
     close   |-> [from |-> {"resolved"}, to |-> "closed"],
     reopen  |-> [from |-> {"resolved", "closed"}, to |-> "in_progress"],
     cancel  |-> [from |-> {"new", "in_progress"}, to |-> "cancelled"]]

Stepped(row, action) ==
    [row EXCEPT !.status = StepRule[action].to,
                !.clock_resolved = CASE action = "resolve" -> TRUE
                                     [] action = "reopen"  -> FALSE
                                     [] OTHER              -> @]

(* TransitionFinding and TransitionIncident; guardChainClose.               *)
StepRead(q, n, action) ==
    /\ chain[n].kind \in {"finding", "incident"}
    /\ action = "cancel" => chain[n].kind = "incident"
    /\ chain[n].status \in StepRule[action].from
    /\ action = "close" => OpenBelow(chain, n) = {}
    /\ Begin(q, [kind |-> "step", step |-> n, action |-> action,
                 ticket |-> /\ action \in {"resolve", "close"}
                            /\ SettlesTicket([chain EXCEPT ![n] = Stepped(@, action)], n)])
    /\ UNCHANGED <<ticket, clock, chain, serial>>

StepCommit(q) ==
    LET op == ops[q] IN
    /\ op.kind = "step" /\ End(q)
    /\ chain' = [chain EXCEPT ![op.step] = Stepped(@, op.action)]
    /\ IF op.ticket THEN TicketResolved ELSE UNCHANGED <<ticket, clock>>
    /\ UNCHANGED serial

(* AssignIncident writes the status it read.                                *)
AssignIncidentRead(q, n) ==
    /\ chain[n].kind = "incident" /\ Pending(chain[n])
    /\ Begin(q, [kind |-> "assign", step |-> n, status |-> chain[n].status])
    /\ UNCHANGED <<ticket, clock, chain, serial>>

AssignIncidentCommit(q) ==
    /\ ops[q].kind = "assign" /\ End(q)
    /\ chain' = [chain EXCEPT ![ops[q].step].status = ops[q].status]
    /\ UNCHANGED <<ticket, clock, serial>>

-----------------------------------------------------------------------------
NoStep == [kind |-> "none", source |-> Ticket, origin |-> FALSE, status |-> "none",
           follow_up |-> FALSE, clock_resolved |-> FALSE]

NextStep(n) == \A m \in Steps : chain[m] = NoStep <=> m >= n

NewStep(n, kind, source, follow_up) ==
    [NoStep EXCEPT !.kind = kind, !.source = source, !.status = "new", !.follow_up = follow_up,
                   !.origin = IF source = Ticket THEN TRUE ELSE source # n /\ chain[source].origin]

KindOf(source) == IF source = Ticket THEN "ticket" ELSE chain[source].kind

(* CreateFinding and CreateIncident, on their own or about a ticket or work.*)
Report(n, kind, source) ==
    /\ Calm /\ NextStep(n)
    /\ kind # "work" /\ (source # n => KindOf(source) \in {"ticket", "work"})
    /\ chain' = [chain EXCEPT ![n] = NewStep(n, kind, source, FALSE)]
    /\ UNCHANGED <<ticket, clock, ops, serial>>

(* What may be generated from an object, and in which of its statuses (from *)
(* a closed finding still a task):                                          *)
(* CreateWorkOrderFromSR, CreateTaskFromSR, CreateWorkOrderFromFinding,     *)
(* CreateTaskFromFinding, CreateWorkOrderFromIncident,                      *)
(* CreateIncidentFromFinding, CreateFollowUpTask.                           *)
Generates(source, kind) ==
    CASE KindOf(source) = "ticket"   -> kind = "work" /\ ticket.status \notin {"closed", "cancelled"}
      [] KindOf(source) = "finding"  -> kind \in {"work", "incident"}
      [] KindOf(source) = "incident" -> kind = "work" /\ chain[source].status \notin {"closed", "cancelled"}
      [] KindOf(source) = "work"     -> kind = "work" /\ chain[source].status \in {"completed", "closed"}
      [] OTHER                       -> FALSE

GenerateStepRead(q, source, kind) ==
    /\ Generates(source, kind)
    /\ Begin(q, [kind |-> "generate", source |-> source, step |-> kind,
                 starts |-> CASE KindOf(source) = "ticket" -> ticket.status \in {"new", "acknowledged", "assigned", "waiting"}
                              [] KindOf(source) = "work"   -> FALSE
                              [] OTHER                     -> chain[source].status = "new"])
    /\ UNCHANGED <<ticket, clock, chain, serial>>

(* markInProgress for the ticket: its clock goes on.                        *)
GenerateStepCommit(q) ==
    LET op == ops[q] IN
    /\ op.kind = "generate" /\ End(q)
    /\ \E n \in Steps :
         /\ NextStep(n)
         /\ LET rows == [chain EXCEPT ![n] = NewStep(n, op.step, op.source, KindOf(op.source) = "work")]
            IN chain' = IF op.starts /\ op.source # Ticket
                        THEN [rows EXCEPT ![op.source].status = "in_progress"] ELSE rows
    /\ IF op.starts /\ op.source = Ticket
       THEN /\ ticket' = [ticket EXCEPT !.status = "in_progress"]
            /\ clock' = [clock EXCEPT !.paused = FALSE]
       ELSE UNCHANGED <<ticket, clock>>
    /\ UNCHANGED serial

-----------------------------------------------------------------------------
(* The ticket.  A manager may resolve it while work is open.                *)
TicketRule ==
    [acknowledge |-> [from |-> {"new"}, to |-> "acknowledged"],
     start       |-> [from |-> {"acknowledged", "assigned", "waiting"}, to |-> "in_progress"],
     wait        |-> [from |-> {"in_progress", "assigned"}, to |-> "waiting"],
     resolve     |-> [from |-> {"acknowledged", "assigned", "in_progress", "waiting"}, to |-> "resolved"],
     close       |-> [from |-> {"resolved"}, to |-> "closed"],
     reopen      |-> [from |-> {"resolved", "closed"}, to |-> "in_progress"],
     cancel      |-> [from |-> {"new", "acknowledged", "assigned", "in_progress", "waiting"}, to |-> "cancelled"]]

ClockAfter(action) ==
    [clock EXCEPT !.resolved = CASE action = "resolve" -> TRUE [] action = "reopen" -> FALSE [] OTHER -> @,
                  !.paused   = CASE action = "wait" -> TRUE [] action = "start" -> FALSE [] OTHER -> @]

TicketRead(q, action) ==
    /\ ticket.status \in TicketRule[action].from
    /\ Begin(q, [kind |-> "ticket", action |-> action])
    /\ UNCHANGED <<ticket, clock, chain, serial>>

TicketCommit(q) ==
    /\ ops[q].kind = "ticket" /\ End(q)
    /\ ticket' = [ticket EXCEPT !.status = TicketRule[ops[q].action].to]
    /\ clock' = ClockAfter(ops[q].action)
    /\ UNCHANGED <<chain, serial>>

(* Assign writes the status it read, or assigned.                           *)
AssignTicketRead(q) ==
    /\ ticket.status \notin Over
    /\ Begin(q, [kind |-> "assignTicket",
                 to |-> IF ticket.status \in {"new", "acknowledged"} THEN "assigned" ELSE ticket.status])
    /\ UNCHANGED <<ticket, clock, chain, serial>>

AssignTicketCommit(q) ==
    /\ ops[q].kind = "assignTicket" /\ End(q)
    /\ ticket' = [ticket EXCEPT !.status = ops[q].to]
    /\ UNCHANGED <<clock, chain, serial>>

(* Update with another priority: applySLATx.                                *)
PriorityRead(q) ==
    /\ ticket.status \notin {"closed", "cancelled"}
    /\ Begin(q, [kind |-> "priority"])
    /\ UNCHANGED <<ticket, clock, chain, serial>>

Recomputed(late) ==
    /\ clock' = [clock EXCEPT !.late = late, !.breached = FALSE]
    /\ ticket' = [ticket EXCEPT !.flag = FALSE]

PriorityCommit(q) ==
    /\ ops[q].kind = "priority" /\ End(q)
    /\ \E late \in BOOLEAN : Recomputed(late)
    /\ UNCHANGED <<chain, serial>>

(* The due time passes, which a stopped clock puts off.                     *)
DuePasses ==
    /\ ~clock.late /\ ~clock.paused
    /\ clock' = [clock EXCEPT !.late = TRUE]
    /\ UNCHANGED <<ticket, chain, ops, serial>>

(* SLASweep.                                                                *)
SLASweep ==
    /\ Calm
    /\ clock.late /\ ~clock.resolved /\ ~clock.paused /\ ~clock.breached
    /\ clock' = [clock EXCEPT !.breached = TRUE]
    /\ ticket' = [ticket EXCEPT !.flag = @ \/ ticket.status \notin Over]
    /\ UNCHANGED <<chain, ops, serial>>

(* A handler ends without effect.                                           *)
ChainAbort(q) == ops[q] # NoOp /\ End(q) /\ UNCHANGED <<ticket, clock, chain, serial>>

-----------------------------------------------------------------------------
ChainIdle ==
    /\ ticket = [status |-> "new", flag |-> FALSE]
    /\ clock = [paused |-> FALSE, resolved |-> FALSE, late |-> FALSE, breached |-> FALSE]
    /\ chain = [n \in Steps |-> NoStep]
ChainInit == ChainIdle /\ TxInit

ChainNext ==
    \/ DuePasses \/ SLASweep
    \/ \E n \in Steps : WorkBack(n) \/ \E kind \in Kinds, source \in Steps \cup {Ticket} : Report(n, kind, source)
    \/ \E q \in Requests :
         \/ \E n \in Steps : \/ FinishRead(q, n) \/ AssignIncidentRead(q, n)
                             \/ \E action \in DOMAIN StepRule : StepRead(q, n, action)
         \/ \E source \in Steps \cup {Ticket}, kind \in Kinds : GenerateStepRead(q, source, kind)
         \/ \E action \in DOMAIN TicketRule : TicketRead(q, action)
         \/ AssignTicketRead(q) \/ PriorityRead(q)
         \/ FinishCommit(q) \/ StepCommit(q) \/ AssignIncidentCommit(q) \/ GenerateStepCommit(q)
         \/ TicketCommit(q) \/ AssignTicketCommit(q) \/ PriorityCommit(q) \/ ChainAbort(q)

ChainSpec == ChainInit /\ [][ChainNext]_chainVars

-----------------------------------------------------------------------------
StepRows ==
    {NoStep} \cup [kind : Kinds, source : Steps \cup {Ticket}, origin : BOOLEAN,
                   status : {"new", "in_progress", "completed"} \cup Over,
                   follow_up : BOOLEAN, clock_resolved : BOOLEAN]

ChainTypeOK ==
    /\ ticket \in [status : {"new", "acknowledged", "assigned", "in_progress", "waiting"} \cup Over,
                   flag : BOOLEAN]
    /\ clock \in [paused : BOOLEAN, resolved : BOOLEAN, late : BOOLEAN, breached : BOOLEAN]
    /\ chain \in [Steps -> StepRows]
    /\ serial \in BOOLEAN

(* When no two handlers overlap, what finishes the last open step of the    *)
(* chain (work, a finding or an incident; a cancellation does not count)    *)
(* leaves the ticket resolved, and what finishes a follow-up leaves no      *)
(* finding or incident above it pending that has nothing open below.        *)
LastWorkSettles ==
    [][serial =>
         /\ /\ ChainOpen(chain) # {} /\ ChainOpen(chain') = {}
            /\ \E n \in ChainOpen(chain) : chain'[n].status # "cancelled"
            => ticket'.status \in Over
         /\ \A n \in Steps : chain[n].follow_up /\ Pending(chain[n]) /\ chain'[n].status = "completed"
              => \A a \in Steps : n \in Below(chain, a) /\ chain[a].kind # "work" /\ OpenBelow(chain', a) = {}
                                    => ~Pending(chain'[a])]_chainVars

(* When no two handlers overlap, the clocks agree with what they measure: a *)
(* ticket or an incident is resolved or closed exactly while its clock is   *)
(* resolved, by whatever handler; the clock stands still while the tenant   *)
(* is waited for; and an open ticket is flagged exactly when its clock was  *)
(* found breached.                                                          *)
TicketClocks ==
    serial =>
      /\ clock.resolved <=> ticket.status \in {"resolved", "closed"}
      /\ ticket.status = "waiting" => clock.paused
      /\ ticket.status \notin Over => (ticket.flag <=> clock.breached)
      /\ \A n \in Steps : chain[n].kind = "incident" =>
           (chain[n].clock_resolved <=> chain[n].status \in {"resolved", "closed"})

=============================================================================
