------------------------------ MODULE Emergencies ------------------------------
(***************************************************************************)
(* Emergency alerts (security/emergency.go).  A panic button raises an      *)
(* alert and, in the same transaction, an incident; the call carries the    *)
(* identifier the device chose and may arrive twice.  Guards answer the     *)
(* alert, its incident follows their answer and has handlers of its own     *)
(* (operations/incidents.go), and a sweep of every minute escalates what    *)
(* nobody answered.  Answers and sweep lock the row of the alert; the       *)
(* handlers of an incident decide on what they read without a lock.  Notes, *)
(* texts and what the incident generates (TicketChain) are left out.        *)
(*                                                                          *)
(* Time is counted in units of EmergencyAckTimeout.  One sweep works at a   *)
(* time: another would skip the rows it holds.                              *)
(***************************************************************************)
EXTENDS Transactions, Integers, Sequences

CONSTANTS
    Alerts,
    LastLevel,     \* the highest level of escalation: 3
    LastMoment     \* bound: the last moment of a behaviour

ASSUME EmergencyAssumption == LastLevel \in Nat /\ LastMoment \in Nat

VARIABLES
    alert,       \* alert[a]: status, escalation_level, raised: when, log: its timeline
    incident,    \* incident[a]: status; cases: how many were created for a
    escalation,  \* the alerts whose rows the sweep holds
    moment

emergencyVars == <<alert, incident, escalation, moment, ops, serial>>

-----------------------------------------------------------------------------
NoAlert    == [status |-> "none", level |-> 0, raised |-> 0, log |-> <<>>]
NoIncident == [status |-> "none", cases |-> 0]

Unanswered(a) == alert[a].status = "raised"

(* RaiseEmergencyTx: a known identifier is answered with what there is.  Of *)
(* two calls that both found none the second violates the primary key and   *)
(* is undone as a whole.                                                    *)
RaiseRead(q, a) ==
    /\ alert[a] = NoAlert
    /\ Begin(q, [kind |-> "raise", of |-> a])
    /\ UNCHANGED <<alert, incident, escalation, moment, serial>>

IsNew(a) == alert[a] = NoAlert

RaiseCommit(q) ==
    LET a == ops[q].of IN
    /\ ops[q].kind = "raise" /\ End(q)
    /\ moment + LastLevel <= LastMoment
    /\ IF IsNew(a)
       THEN /\ alert' = [alert EXCEPT ![a] =
                 [status |-> "raised", level |-> 0, raised |-> moment, log |-> <<"raised">>]]
            /\ incident' = [incident EXCEPT ![a] = [status |-> "new", cases |-> @.cases + 1]]
       ELSE UNCHANGED <<alert, incident>>
    /\ UNCHANGED <<escalation, moment, serial>>

-----------------------------------------------------------------------------
(* ActEmergency.                                                            *)

(* emergencyActions, with the status an action leads to.                    *)
AnswerRule ==
    [acknowledge |-> [from |-> {"raised"}, to |-> "acknowledged"],
     respond     |-> [from |-> {"raised", "acknowledged"}, to |-> "responding"],
     resolve     |-> [from |-> {"raised", "acknowledged", "responding"}, to |-> "resolved"],
     cancel      |-> [from |-> {"raised", "acknowledged"}, to |-> "cancelled"]]

(* Who responds to what nobody acknowledged has acknowledged it.            *)
Logged(row, action) ==
    (IF action = "respond" /\ row.status = "raised" THEN <<"acknowledged">> ELSE <<>>)
        \o <<AnswerRule[action].to>>

(* Mutant of IncidentAfter: responding does not start what is assigned.     *)
IncidentAfterNewOnly(status, action) ==
    CASE action = "acknowledge" /\ status = "new" -> "assigned"
      [] action = "respond" /\ status = "new" -> "in_progress"
      [] action = "cancel" /\ status \in {"new", "assigned", "in_progress"} -> "cancelled"
      [] OTHER -> status

(* The updates of the incident, each on the row as it is then.              *)
IncidentAfter(status, action) ==
    CASE action = "acknowledge" /\ status = "new" -> "assigned"
      [] action = "respond" /\ status \in {"new", "assigned"} -> "in_progress"
      [] action = "cancel" /\ status \in {"new", "assigned", "in_progress"} -> "cancelled"
      [] OTHER -> status

(* Mutant of Free: the row is read without FOR UPDATE.                      *)
FreeUnlocked(a) == TRUE

Free(a) == a \notin escalation

Answer(a, action) ==
    /\ Calm /\ Free(a)
    /\ alert[a].status \in AnswerRule[action].from
    /\ alert' = [alert EXCEPT ![a].status = AnswerRule[action].to,
                              ![a].log = @ \o Logged(alert[a], action)]
    /\ incident' = [incident EXCEPT ![a].status = IncidentAfter(@, action)]
    /\ UNCHANGED <<escalation, moment, ops, serial>>

-----------------------------------------------------------------------------
(* EmergencySweep.                                                          *)
Age(a) == moment - alert[a].raised
Level(a) == IF Age(a) > LastLevel THEN LastLevel ELSE Age(a)

EscalateRead ==
    LET D == {a \in Alerts : Unanswered(a) /\ alert[a].level < LastLevel /\ Age(a) >= 1}
    IN /\ escalation = {} /\ D # {}
       /\ escalation' = D
       /\ UNCHANGED <<alert, incident, moment, ops, serial>>

EscalateCommit ==
    /\ escalation # {} /\ escalation' = {}
    /\ alert' = [a \in Alerts |->
         IF a \in escalation /\ Level(a) > alert[a].level
         THEN [alert[a] EXCEPT !.level = Level(a), !.log = Append(@, "escalated")]
         ELSE alert[a]]
    /\ UNCHANGED <<incident, moment, ops, serial>>

MomentPasses ==
    /\ moment < LastMoment /\ moment' = moment + 1
    /\ UNCHANGED <<alert, incident, escalation, ops, serial>>

-----------------------------------------------------------------------------
(* The incident as its own handlers move it: AssignIncident and             *)
(* TransitionIncident.                                                      *)
CaseRule ==
    [assign  |-> [from |-> {"new", "assigned", "in_progress"}, to |-> "assigned"],
     start   |-> [from |-> {"new", "assigned"}, to |-> "in_progress"],
     resolve |-> [from |-> {"new", "assigned", "in_progress"}, to |-> "resolved"],
     close   |-> [from |-> {"resolved"}, to |-> "closed"],
     reopen  |-> [from |-> {"resolved", "closed"}, to |-> "in_progress"],
     cancel  |-> [from |-> {"new", "assigned", "in_progress"}, to |-> "cancelled"]]

(* An assignment writes the status it read, unless it was new.              *)
CaseRead(q, a, action) ==
    LET status == incident[a].status IN
    /\ status \in CaseRule[action].from
    /\ Begin(q, [kind |-> "case", of |-> a,
                 to |-> IF action = "assign" /\ status # "new" THEN status ELSE CaseRule[action].to])
    /\ UNCHANGED <<alert, incident, escalation, moment, serial>>

CaseCommit(q) ==
    /\ ops[q].kind = "case" /\ End(q)
    /\ incident' = [incident EXCEPT ![ops[q].of].status = ops[q].to]
    /\ UNCHANGED <<alert, escalation, moment, serial>>

EmergencyAbort(q) ==
    /\ ops[q].kind \in {"raise", "case"} /\ End(q)
    /\ UNCHANGED <<alert, incident, escalation, moment, serial>>

-----------------------------------------------------------------------------
EmergencyIdle ==
    /\ alert = [a \in Alerts |-> NoAlert]
    /\ incident = [a \in Alerts |-> NoIncident]
    /\ escalation = {}

EmergencyInit == EmergencyIdle /\ moment = 0 /\ TxInit

EmergencyNext ==
    \/ EscalateRead \/ EscalateCommit \/ MomentPasses
    \/ \E a \in Alerts, action \in DOMAIN AnswerRule : Answer(a, action)
    \/ \E q \in Requests :
         \/ \E a \in Alerts : RaiseRead(q, a) \/ \E action \in DOMAIN CaseRule : CaseRead(q, a, action)
         \/ RaiseCommit(q) \/ CaseCommit(q) \/ EmergencyAbort(q)

(* The sweep runs every minute and time passes; nobody has to answer.       *)
EmergencyFairness ==
    WF_emergencyVars(EscalateRead) /\ WF_emergencyVars(EscalateCommit) /\ WF_emergencyVars(MomentPasses)

EmergencySpec == EmergencyInit /\ [][EmergencyNext]_emergencyVars /\ EmergencyFairness

-----------------------------------------------------------------------------
AlertStatus == {"none", "raised", "acknowledged", "responding", "resolved", "cancelled"}

(* Every row keeps its type.                                                *)
EmergencyTypeOK ==
    /\ \A a \in Alerts :
         /\ alert[a].status \in AlertStatus
         /\ alert[a].level \in 0 .. LastLevel
         /\ alert[a].raised \in 0 .. LastMoment
         /\ alert[a].log \in Seq((AlertStatus \cup {"escalated"}) \ {"none"})
         /\ incident[a].status \in {"none", "new", "assigned", "in_progress", "resolved", "closed", "cancelled"}
         /\ incident[a].cases \in Nat
    /\ escalation \subseteq Alerts
    /\ moment \in 0 .. LastMoment

(* The order in which the timeline of an alert may name what happened.      *)
Rank == [raised |-> 0, escalated |-> 1, acknowledged |-> 2, responding |-> 3,
         resolved |-> 4, cancelled |-> 4]

TimelineInOrder(a) ==
    LET log == alert[a].log IN
    \A i \in 1 .. Len(log) :
        /\ i = 1 <=> log[i] = "raised"
        /\ log[i] = "responding" => \E j \in 1 .. i : log[j] = "acknowledged"
        /\ \A j \in 1 .. i - 1 : Rank[log[j]] < Rank[log[i]] \/ (log[j] = "escalated" /\ log[i] = "escalated")

IncidentFollows(a) ==
    /\ alert[a].status \in {"acknowledged", "responding"} => incident[a].status # "new"
    /\ alert[a].status \in {"responding", "cancelled"} => incident[a].status \notin {"new", "assigned"}

(* Whatever meets, an alert has the one incident raised with it, and its    *)
(* timeline tells the steps in order, no escalation after an answer; when   *)
(* no two handlers overlap, the incident keeps up with the answer.          *)
EmergenciesKept ==
    \A a \in Alerts :
        /\ incident[a].cases = IF alert[a] = NoAlert THEN 0 ELSE 1
        /\ TimelineInOrder(a)
        /\ serial => IncidentFollows(a)

(* An alert nobody answers reaches the highest level of escalation.         *)
Escalates == \A a \in Alerts : Unanswered(a) ~> (~Unanswered(a) \/ alert[a].level = LastLevel)
=============================================================================
