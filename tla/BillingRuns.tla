------------------------------ MODULE BillingRuns ------------------------------
(***************************************************************************)
(* The billing runs of one property and period (api/internal/billing/runs): *)
(* a run computes a preview, one line for every charge (a rule and a unit,  *)
(* or a parking permit), generates draft invoices from it, issues or        *)
(* cancels them.  Runs meet in a unique index: a charge is bound to an      *)
(* invoice by one line at most.  No handler locks the run it decides on.    *)
(* "live" below: not cancelled.                                             *)
(*                                                                          *)
(* Amounts, taxes, proration and tariffs are left out: of a line remains    *)
(* whether it has an exception.  What happens to an invoice by itself is    *)
(* UnitBilling; here it may be issued or cancelled.                         *)
(***************************************************************************)
EXTENDS Transactions, Naturals, FiniteSets

CONSTANTS
    Charges,       \* keys of the unique index
    MaxRuns,       \* bound: rows of billing_runs
    MaxBills,      \* bound: invoices of runs
    MaxRefreshes   \* bound: how often the lines of a run are replaced

ASSUME RunAssumption ==
    /\ MaxRuns \in Nat \ {0} /\ {MaxBills, MaxRefreshes} \subseteq Nat
    /\ IsFiniteSet(Charges)

Runs  == 1 .. MaxRuns
Bills == 1 .. MaxBills

VARIABLES
    run,    \* run[r]: status, source, combine, refreshes, and line[c]
    bill    \* bill[i]: status, run, and the charges of its items

runVars == <<run, bill, ops, serial>>

-----------------------------------------------------------------------------
(* A line: "absent" (its rule is not in the run), "exception", "excluded",  *)
(* or "included"; and the invoice that bills it, 0 before.                  *)
NoLine == [is |-> "absent", bill |-> 0]
NoRun  == [status |-> "none", source |-> "manual", combine |-> TRUE, refreshes |-> 0,
           line |-> [c \in Charges |-> NoLine]]
NoBill == [status |-> "none", run |-> 1, charges |-> {}]

Live(i)  == bill[i].status \in {"draft", "issued"}
Bound(c) == \E r \in Runs : run[r].line[c].bill # 0

Included(r) == {c \in Charges : run[r].line[c].is = "included"}
Drafts(r)   == {i \in Bills : bill[i].status = "draft" /\ bill[i].run = r}

(* computeLinesTx: a charge that is bound, or whose data are incomplete     *)
(* (flawed), becomes an exception.                                          *)
Computed(charges, flawed) ==
    [c \in Charges |->
       [bill |-> 0,
        is |-> IF c \notin charges THEN "absent"
               ELSE IF Bound(c) \/ c \in flawed THEN "exception" ELSE "included"]]

(* createRunTx.                                                             *)
CreateRun(r) ==
    /\ Calm
    /\ \A s \in Runs : run[s].status = "none" <=> s >= r
    /\ \E charges \in (SUBSET Charges) \ {{}}, combine \in BOOLEAN : \E flawed \in SUBSET charges :
         run' = [run EXCEPT ![r] = [NoRun EXCEPT !.status = "preview", !.combine = combine,
                                                 !.line = Computed(charges, flawed)]]
    /\ UNCHANGED <<bill, ops, serial>>

(* RefreshRun computes the lines, then replaces the old ones whatever       *)
(* became of them.                                                          *)
RefreshRead(q, r) ==
    /\ run[r].status = "preview" /\ run[r].refreshes < MaxRefreshes
    /\ LET charges == {c \in Charges : run[r].line[c].is # "absent"}
       IN \E flawed \in SUBSET charges :
            Begin(q, [kind |-> "refresh", run |-> r, line |-> Computed(charges, flawed)])
    /\ UNCHANGED <<run, bill, serial>>

RefreshCommit(q) ==
    LET op == ops[q] IN
    /\ op.kind = "refresh" /\ End(q)
    /\ run[op.run].refreshes < MaxRefreshes
    /\ run' = [run EXCEPT ![op.run].line = op.line, ![op.run].refreshes = @ + 1]
    /\ UNCHANGED <<bill, serial>>

(* ToggleLine; a line with an exception cannot be included.                 *)
ToggleLine(r, c) ==
    /\ Calm /\ run[r].status = "preview"
    /\ run[r].line[c].is \in {"included", "excluded"}
    /\ run' = [run EXCEPT ![r].line[c].is = IF @ = "included" THEN "excluded" ELSE "included"]
    /\ UNCHANGED <<bill, ops, serial>>

-----------------------------------------------------------------------------
Fresh(n) == LET used == Cardinality({i \in Bills : bill[i].status # "none"})
            IN (used + 1) .. (used + n)

(* The groups of charges that are billed together: those of a unit, here    *)
(* all, or each by itself.                                                  *)
Groups(charges, combine) == IF combine THEN {charges} ELSE {{c} : c \in charges}

(* Mutant of Billable: without the unique index.                            *)
BillableAnyway(r, charges) == TRUE

(* uq_billing_run_lines_billed: no other line binds one of these charges.   *)
Billable(r, charges) ==
    \A c \in charges, s \in Runs \ {r} : run[s].line[c].bill = 0

(* generateRunTx on the lines as they were read: an invoice for every group,*)
(* and the lines that are still there are bound to it.                      *)
Generate(r, row, charges, there) ==
    /\ charges # {}
    /\ Billable(r, IF there THEN charges ELSE {})
    /\ LET groups == Groups(charges, row.combine) IN
       \E f \in [Fresh(Cardinality(groups)) -> groups] :
         /\ DOMAIN f \subseteq Bills
         /\ {f[i] : i \in DOMAIN f} = groups
         /\ bill' = [i \in Bills |->
              IF i \in DOMAIN f THEN [status |-> "draft", run |-> r, charges |-> f[i]] ELSE bill[i]]
         /\ run' = [run EXCEPT ![r] = [row EXCEPT
              !.status = "generated",
              !.line = [c \in Charges |->
                 IF there /\ c \in charges
                 THEN [row.line[c] EXCEPT !.bill = CHOOSE i \in DOMAIN f : c \in f[i]]
                 ELSE row.line[c]]]]

GenerateRead(q, r) ==
    /\ run[r].status = "preview"
    /\ Begin(q, [kind |-> "generate", run |-> r, charges |-> Included(r), refreshes |-> run[r].refreshes])
    /\ UNCHANGED <<run, bill, serial>>

GenerateCommit(q) ==
    LET op == ops[q] IN
    /\ op.kind = "generate" /\ End(q)
    /\ Generate(op.run, run[op.run], op.charges, op.refreshes = run[op.run].refreshes)
    /\ UNCHANGED serial

(* AutoGenerateSweep: the scheduled run of the period, its lines and its    *)
(* invoices in one transaction.                                             *)
AutoGenerateSweep(r) ==
    /\ Calm
    /\ \A s \in Runs : run[s].status = "none" <=> s >= r
    /\ \A s \in Runs : ~(run[s].source = "scheduled" /\ run[s].status # "cancelled")
    /\ \E charges \in (SUBSET Charges) \ {{}} : \E flawed \in SUBSET charges :
         LET row   == [NoRun EXCEPT !.status = "preview", !.source = "scheduled",
                                    !.line = Computed(charges, flawed)]
             ready == {c \in Charges : row.line[c].is = "included"}
         IN IF ready = {} THEN run' = [run EXCEPT ![r] = row] /\ UNCHANGED bill
            ELSE Generate(r, row, ready, TRUE)
    /\ UNCHANGED <<ops, serial>>

-----------------------------------------------------------------------------
(* IssueRun: issueTx locks every draft that was listed; one that is no      *)
(* draft any more fails the run.                                            *)
IssueRead(q, r) ==
    /\ run[r].status = "generated"
    /\ Begin(q, [kind |-> "issue", run |-> r, bills |-> Drafts(r)])
    /\ UNCHANGED <<run, bill, serial>>

IssueCommit(q) ==
    LET op == ops[q] IN
    /\ op.kind = "issue" /\ End(q)
    /\ \A i \in op.bills : bill[i].status = "draft"
    /\ bill' = [i \in Bills |-> IF i \in op.bills THEN [bill[i] EXCEPT !.status = "issued"] ELSE bill[i]]
    /\ run' = [run EXCEPT ![op.run].status = "issued"]
    /\ UNCHANGED serial

(* cancelTx: the lines of the cancelled invoices are free again.            *)
Released(row, S) ==
    [row EXCEPT !.line = [c \in Charges |->
       IF row.line[c].bill \in S THEN [row.line[c] EXCEPT !.bill = 0] ELSE row.line[c]]]

Cancelled(S) == [i \in Bills |-> IF i \in S THEN [bill[i] EXCEPT !.status = "cancelled"] ELSE bill[i]]

(* CancelRun cancels the drafts that were listed, whatever they are by then.*)
CancelRunRead(q, r) ==
    /\ run[r].status \in {"preview", "generated"}
    /\ Begin(q, [kind |-> "cancel", run |-> r, bills |-> Drafts(r)])
    /\ UNCHANGED <<run, bill, serial>>

CancelRunCommit(q) ==
    LET op == ops[q] IN
    /\ op.kind = "cancel" /\ End(q)
    /\ bill' = Cancelled(op.bills)
    /\ run' = [s \in Runs |->
         LET row == Released(run[s], op.bills)
         IN IF s = op.run THEN [row EXCEPT !.status = "cancelled"] ELSE row]
    /\ UNCHANGED serial

(* Staff issue or cancel one invoice of a run.                              *)
IssueOne(i) ==
    /\ Calm /\ bill[i].status = "draft"
    /\ bill' = [bill EXCEPT ![i].status = "issued"]
    /\ UNCHANGED <<run, ops, serial>>

CancelOne(i) ==
    /\ Calm /\ Live(i)
    /\ bill' = Cancelled({i})
    /\ run' = [s \in Runs |-> Released(run[s], {i})]
    /\ UNCHANGED <<ops, serial>>

(* A handler ends without effect.                                           *)
RunAbort(q) == ops[q] # NoOp /\ End(q) /\ UNCHANGED <<run, bill, serial>>

-----------------------------------------------------------------------------
RunIdle ==
    /\ run = [r \in Runs |-> NoRun]
    /\ bill = [i \in Bills |-> NoBill]
RunInit == RunIdle /\ TxInit

RunNext ==
    \/ \E r \in Runs : CreateRun(r) \/ AutoGenerateSweep(r) \/ \E c \in Charges : ToggleLine(r, c)
    \/ \E i \in Bills : IssueOne(i) \/ CancelOne(i)
    \/ \E q \in Requests :
         \/ \E r \in Runs : RefreshRead(q, r) \/ GenerateRead(q, r) \/ IssueRead(q, r) \/ CancelRunRead(q, r)
         \/ RefreshCommit(q) \/ GenerateCommit(q) \/ IssueCommit(q) \/ CancelRunCommit(q) \/ RunAbort(q)

RunSpec == RunInit /\ [][RunNext]_runVars

-----------------------------------------------------------------------------
LineRows == [is : {"absent", "exception", "excluded", "included"}, bill : 0 .. MaxBills]

RunTypeOK ==
    /\ run \in [Runs -> [status : {"none", "preview", "generated", "issued", "cancelled"},
                         source : {"manual", "scheduled"}, combine : BOOLEAN,
                         refreshes : 0 .. MaxRefreshes, line : [Charges -> LineRows]]]
    /\ bill \in [Bills -> [status : {"none", "draft", "issued", "cancelled"}, run : Runs,
                           charges : SUBSET Charges]]
    /\ serial \in BOOLEAN

(* A charge of the period is billed by one live invoice at most.            *)
BilledOnce == \A i, j \in Bills :
                 Live(i) /\ Live(j) /\ bill[i].charges \cap bill[j].charges # {} => i = j

(* When no two handlers overlap, a charge is billed once, however runs are  *)
(* previewed side by side, scheduled, cancelled and generated again; the    *)
(* lines of a run point to exactly the live invoices that bill them, and a  *)
(* run that was issued or cancelled leaves no draft behind.                 *)
RunsBillOnce ==
    serial =>
      /\ BilledOnce
      /\ \A r \in Runs, c \in Charges, i \in Bills :
           run[r].line[c].bill = i <=> Live(i) /\ bill[i].run = r /\ c \in bill[i].charges
      /\ \A r \in Runs : run[r].status \in {"issued", "cancelled"} => Drafts(r) = {}

=============================================================================
