-------------------------------- MODULE Notices --------------------------------
(***************************************************************************)
(* Announcements to the tenants of a building (tenantrelation/              *)
(* announcements.go): written, scheduled, published by hand or by the sweep *)
(* of every minute, archived, or broadcast at once.  Publishing a notice    *)
(* whose audience includes tenants tells those its target lists name.       *)
(* Handlers decide on what they read without a lock; the sweep locks what   *)
(* it publishes.                                                            *)
(*                                                                          *)
(* Texts, severity, expiry and the statistics of readers are left out; the  *)
(* target lists are one of TargetLists, and of the audiences (tenant, staff *)
(* or all) the model tells apart whether tenants are among them.            *)
(***************************************************************************)
EXTENDS Transactions, Integers, Sequences

CONSTANTS
    Notices, TargetLists,
    LastHour,      \* bound: the last hour of a behaviour
    MaxKept        \* bound: the publications of one notice that are told apart

ASSUME NoticeAssumption == LastHour \in Nat /\ MaxKept \in Nat \ {0}

VARIABLES
    notice,      \* notice[n]: status, publish_at (Never: none), targets, audience
    announced,   \* history: announced[n], whom the first publications of n told
    readdressed, \* history: the notices whose audience was changed once published
    hour

noticeVars == <<notice, announced, readdressed, hour, ops, serial>>

-----------------------------------------------------------------------------
Never    == LastHour + 1
Same     == -1   \* an hour that an update does not give
Audiences == {"tenants", "staff"}
NoOne    == "no one"
NoNotice == [status |-> "none", publish_at |-> Never, targets |-> NoOne, audience |-> "staff"]

Due(n) == notice[n].status = "scheduled" /\ notice[n].publish_at <= hour

(* Mutant of Reach: the event goes out for notices to the staff, too.       *)
ReachAll(row, audience) == row.targets

(* publishTx, the event: tenants hear of a notice that is meant for them.   *)
Reach(row, audience) == IF audience = "tenants" THEN row.targets ELSE NoOne

(* publishTx: an hour that was planned stands; whether tenants are told is  *)
(* for the audience that was read.                                          *)
PublishAll(N, audience) ==
    /\ notice' = [n \in Notices |->
         IF n \notin N THEN notice[n]
         ELSE [notice[n] EXCEPT !.status = "published",
                                !.publish_at = IF @ = Never THEN hour ELSE @]]
    /\ announced' = [n \in Notices |->
         IF n \in N /\ Len(announced[n]) < MaxKept THEN Append(announced[n], Reach(notice[n], audience[n]))
         ELSE announced[n]]
    /\ UNCHANGED readdressed

(* CreateAnnouncement writes a draft, with or without an hour.              *)
CreateAnnouncement(n, targets, audience, at) ==
    /\ Calm /\ notice[n] = NoNotice
    /\ notice' = [notice EXCEPT ![n] = [status |-> "draft", publish_at |-> at,
                                       targets |-> targets, audience |-> audience]]
    /\ UNCHANGED <<announced, readdressed, hour, ops, serial>>

(* Broadcast writes a notice to tenants and publishes it at once.           *)
Broadcast(n, targets) ==
    LET row == [status |-> "published", publish_at |-> hour, targets |-> targets, audience |-> "tenants"] IN
    /\ Calm /\ notice[n] = NoNotice
    /\ notice' = [notice EXCEPT ![n] = row]
    /\ announced' = [announced EXCEPT ![n] = Append(@, Reach(row, row.audience))]
    /\ UNCHANGED <<readdressed, hour, ops, serial>>

-----------------------------------------------------------------------------
(* UpdateAnnouncement: another hour or none, other target lists unless the  *)
(* notice is published, another audience whatever its status.  It writes    *)
(* the target lists it read where none are given.                           *)

(* Mutant of MayRetarget: a published notice may get other targets.         *)
MayRetargetAny(status) == status # "archived"

MayRetarget(status) == status \in {"draft", "scheduled"}

UpdateRead(q, n) ==
    /\ notice[n].status \in {"draft", "scheduled", "published"}
    /\ \E at \in Same .. Never, targets \in TargetLists, audience \in Audiences \cup {"same"} :
         /\ targets = notice[n].targets \/ MayRetarget(notice[n].status)
         /\ Begin(q, [kind |-> "update", of |-> n, was |-> notice[n].status,
                      at |-> at, targets |-> targets, audience |-> audience])
    /\ UNCHANGED <<notice, announced, readdressed, hour, serial>>

(* Mutant of Unplanned: clearing the hour leaves the notice scheduled.      *)
UnplannedNever(op) == FALSE

(* A scheduled notice whose hour is cleared is a draft again.               *)
Unplanned(op) == op.was = "scheduled" /\ op.at = Never

Updated(row, op) ==
    [status     |-> IF Unplanned(op) THEN "draft" ELSE row.status,
     publish_at |-> IF op.at = Same THEN row.publish_at ELSE op.at,
     targets    |-> op.targets,
     audience   |-> IF op.audience = "same" THEN row.audience ELSE op.audience]

UpdateCommit(q) ==
    LET op == ops[q]  row == notice[op.of] IN
    /\ op.kind = "update" /\ End(q)
    /\ notice' = [notice EXCEPT ![op.of] = Updated(row, op)]
    /\ readdressed' = IF row.status = "published" /\ Updated(row, op).audience # row.audience
                      THEN readdressed \cup {op.of} ELSE readdressed
    /\ UNCHANGED <<announced, hour, serial>>

-----------------------------------------------------------------------------
(* TransitionAnnouncement.                                                  *)
NoticeRule ==
    [publish    |-> [from |-> {"draft", "scheduled"}, to |-> "published"],
     schedule   |-> [from |-> {"draft"}, to |-> "scheduled"],
     unschedule |-> [from |-> {"scheduled"}, to |-> "draft"],
     archive    |-> [from |-> {"draft", "scheduled", "published"}, to |-> "archived"]]

NoticeRead(q, n, action) ==
    /\ notice[n].status \in NoticeRule[action].from
    /\ action = "schedule" => hour < notice[n].publish_at /\ notice[n].publish_at # Never
    /\ Begin(q, [kind |-> action, of |-> n, audience |-> notice[n].audience])
    /\ UNCHANGED <<notice, announced, readdressed, hour, serial>>

NoticeCommit(q) ==
    LET op == ops[q] IN
    /\ op.kind \in DOMAIN NoticeRule /\ End(q)
    /\ IF op.kind = "publish" THEN PublishAll({op.of}, [n \in {op.of} |-> op.audience])
       ELSE /\ notice' = [notice EXCEPT ![op.of].status = NoticeRule[op.kind].to]
            /\ UNCHANGED <<announced, readdressed>>
    /\ UNCHANGED <<hour, serial>>

(* PublishScheduledSweep: FOR UPDATE SKIP LOCKED, and published at once.    *)
PublishScheduledSweep ==
    /\ Calm /\ \E n \in Notices : Due(n)
    /\ PublishAll({n \in Notices : Due(n)}, [n \in Notices |-> notice[n].audience])
    /\ UNCHANGED <<hour, ops, serial>>

NoticeAbort(q) ==
    /\ ops[q].kind \in {"update"} \cup DOMAIN NoticeRule /\ End(q)
    /\ UNCHANGED <<notice, announced, readdressed, hour, serial>>

HourPasses ==
    /\ hour < LastHour /\ hour' = hour + 1
    /\ UNCHANGED <<notice, announced, readdressed, ops, serial>>

-----------------------------------------------------------------------------
NoticeIdle ==
    /\ notice = [n \in Notices |-> NoNotice]
    /\ announced = [n \in Notices |-> <<>>]
    /\ readdressed = {}
    /\ hour = 0

NoticeInit == NoticeIdle /\ TxInit

NoticeNext ==
    \/ PublishScheduledSweep \/ HourPasses
    \/ \E n \in Notices, targets \in TargetLists :
         \/ Broadcast(n, targets)
         \/ \E at \in 0 .. Never, audience \in Audiences : CreateAnnouncement(n, targets, audience, at)
    \/ \E q \in Requests :
         \/ \E n \in Notices : UpdateRead(q, n) \/ \E action \in DOMAIN NoticeRule : NoticeRead(q, n, action)
         \/ UpdateCommit(q) \/ NoticeCommit(q) \/ NoticeAbort(q)

NoticeSpec == NoticeInit /\ [][NoticeNext]_noticeVars

-----------------------------------------------------------------------------
(* Every row keeps its type.                                                *)
NoticeTypeOK ==
    /\ notice \in [Notices -> {NoNotice} \cup
                     [status : {"draft", "scheduled", "published", "archived"},
                      publish_at : 0 .. Never, targets : TargetLists, audience : Audiences]]
    /\ announced \in [Notices -> Seq(TargetLists \cup {NoOne})]
    /\ readdressed \in SUBSET Notices
    /\ hour \in 0 .. LastHour

(* When no two handlers overlap, a notice is published once, however often  *)
(* it was planned, changed and withdrawn before.  Published, it told the    *)
(* tenants its target lists still name exactly if its audience includes     *)
(* tenants, unless somebody changed the audience since.  And a notice that  *)
(* is scheduled has an hour at which the sweep finds it.                    *)
NoticesKept ==
    serial => \A n \in Notices :
        /\ notice[n].status = "published" =>
             /\ announced[n] \in {<<notice[n].targets>>, <<NoOne>>}
             /\ \/ announced[n] = <<IF notice[n].audience = "tenants" THEN notice[n].targets ELSE NoOne>>
                \/ n \in readdressed
        /\ notice[n].status \in {"none", "draft", "scheduled"} => announced[n] = <<>>
        /\ notice[n].status = "scheduled" => notice[n].publish_at # Never
=============================================================================
