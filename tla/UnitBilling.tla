------------------------------ MODULE UnitBilling ------------------------------
(***************************************************************************)
(* The receivables of one party (a tenant or a unit): its invoices, their   *)
(* payments, its credit balance, credit notes, late penalties and the lines *)
(* of a bank statement that are matched with them (api/internal/billing).   *)
(*                                                                          *)
(* settleTx, refundTx, DecideCreditNote, issueTx and matchLineTx lock the   *)
(* rows they decide on: they are one step.  Every other handler decides on  *)
(* what a plain SELECT returned and writes later: a read step, which keeps  *)
(* in ops[q] what is used again, and a commit.  "serial" is chosen at the   *)
(* start: in a serial behaviour no handler is between its two steps while   *)
(* another one works.                                                       *)
(***************************************************************************)
EXTENDS Integers, FiniteSets, Functions

CONSTANTS
    MaxInvoices,   \* bound: rows of invoices
    MaxPayments,   \* bound: rows of payments
    MaxNotes,      \* bound: rows of credit_notes
    MaxCredit,     \* bound: no receipt beyond this balance
    Lines,         \* credit lines of one imported bank statement
    Requests,      \* staff and tenant requests in flight together
    Totals,        \* invoice totals
    Amounts        \* amounts that are received, and penalties that accrue

ASSUME BillingAssumption ==
    /\ {MaxInvoices, MaxPayments, MaxNotes, MaxCredit} \subseteq Nat
    /\ Totals \subseteq Nat \ {0} /\ Amounts \subseteq Nat \ {0}

(* Rows are numbered in the order of their creation.                        *)
Invoices == 1 .. MaxInvoices
Payments == 1 .. MaxPayments
Notes    == 1 .. MaxNotes

VARIABLES
    invoice,   \* invoice[i]: status, total, paid, credited; whether its type is penalty
               \* (fine) and whether due_at has passed (late)
    payment,   \* payment[p]: status, invoice, amount, method, excess, and whether expires_at has passed
    credit,    \* sum of the party's tenant_credit_entries
    overflow,  \* overflow[i]: those of type credit_note for invoice i
    posted,    \* posted[i]: sum of the sinking fund entries of invoice i
    note,      \* note[n]: status, invoice, amount
    penalty,   \* penalty[i]: the invoice_penalties row of invoice i (one rule)
    item,      \* item[i][j]: what invoice i bills of the penalty of j
    edited,    \* penalties with items that somebody wrote by hand (history)
    line,      \* line[b]: status of a bank line; times its money was booked (history)
    heard,     \* rows of payment_webhook_events: <<payment, outcome>>
    ops,       \* ops[q]: the request between its read and its commit
    serial     \* whether transactions overlap in this behaviour

vars == <<invoice, payment, credit, overflow, posted, note, penalty, item, edited, line, heard, ops, serial>>

-----------------------------------------------------------------------------
Open == {"issued", "partially_paid", "overdue"}

(* initiated and pending are told apart by no statement.                    *)
PaymentStatus == {"none", "pending", "paid", "failed", "expired", "cancelled", "refunded"}
Methods       == {"gateway", "manual", "credit"}
Outcomes      == {"paid", "refunded", "failed", "expired", "cancelled"}

NoInvoice == [status |-> "none", fine |-> FALSE, total |-> 0, paid |-> 0, credited |-> 0, late |-> FALSE]
NoPenalty == [status |-> "none", accrued |-> 0]
NoItems   == [j \in Invoices |-> 0]
NoOp      == [kind |-> "none"]

Lesser(a, b)  == IF a < b THEN a ELSE b
Greater(a, b) == IF a > b THEN a ELSE b

Outstanding(i) == invoice[i].total - invoice[i].paid - invoice[i].credited
Payable(i)     == Outstanding(i) > 0 /\ invoice[i].status \in Open
Pending(i)     == {p \in Payments : payment[p].status = "pending" /\ payment[p].inv = i}

(* Rows not yet inserted, and the next n of them.                           *)
Fresh       == {p \in Payments : payment[p].status = "none"}
NextRow(S)  == {p \in S : \A r \in S : p <= r}

(* invoiceStatusFor.                                                        *)
StatusFor(r) ==
    IF r.total > 0 /\ r.paid + r.credited >= r.total THEN "paid"
    ELSE IF r.late THEN "overdue"
    ELSE IF r.paid + r.credited > 0 THEN "partially_paid" ELSE "issued"

(* postFundsTx: half of an invoice is a sinking fund charge; its share of   *)
(* what is paid is rounded down and completed when the invoice is.          *)
Share(r) == LET component == r.total \div 2
            IN IF r.total = 0 THEN 0
               ELSE IF r.paid >= r.total THEN component
               ELSE (component * r.paid) \div r.total

(* penaltyBilledSQL: what invoices that are not cancelled bill of penalty j.*)
Billed(j) == SumFunction([i \in Invoices |-> IF invoice[i].status = "cancelled" THEN 0 ELSE item[i][j]])

-----------------------------------------------------------------------------
(* Transactions: a request begins with a read and ends with its commit or   *)
(* without effect; one-step handlers wait for nobody unless serial.         *)

Turn(q) == serial => \A r \in Requests \ {q} : ops[r] = NoOp
Calm    == serial => \A r \in Requests : ops[r] = NoOp

Begin(q, op) == ops[q] = NoOp /\ Turn(q) /\ ops' = [ops EXCEPT ![q] = op]
End(q)       == ops' = [ops EXCEPT ![q] = NoOp]

rows == <<invoice, payment, credit, overflow, posted, note, penalty, item, edited, line, heard>>

Abort(q) == ops[q] # NoOp /\ End(q) /\ UNCHANGED <<rows, serial>>

(* Mutant of Book: the funds are posted for payments only.                  *)
BookOneWay(i, a, d) ==
    LET r == [invoice[i] EXCEPT !.paid = @ + a]
    IN /\ invoice' = [invoice EXCEPT ![i] = [r EXCEPT !.status = StatusFor(r)]]
       /\ credit' = credit + d
       /\ posted' = IF a < 0 THEN posted ELSE [posted EXCEPT ![i] = Share(r)]

(* Adds a to paid_amount of invoice i and d to the credit balance, and      *)
(* recomputes what follows from them.                                       *)
Book(i, a, d) ==
    LET r == [invoice[i] EXCEPT !.paid = @ + a]
    IN /\ invoice' = [invoice EXCEPT ![i] = [r EXCEPT !.status = StatusFor(r)]]
       /\ credit' = credit + d
       /\ posted' = [posted EXCEPT ![i] = Share(r)]

(* A settled invoice stops its penalty.                                     *)
StopPenalty(S) ==
    penalty' = [i \in Invoices |->
                  IF i \in S /\ invoice'[i].status = "paid" /\ penalty[i].status = "accruing"
                  THEN [penalty[i] EXCEPT !.status = "final"] ELSE penalty[i]]

Applied(i, amount) == Lesser(amount, Greater(0, Outstanding(i)))

(* settleTx on the row pay of payment p, with what was received; spent is   *)
(* what the same transaction takes from the credit balance.                 *)
Settle(p, pay, amount, spent) ==
    LET i == pay.inv
        a == Applied(i, amount)
    IN /\ invoice[i].status \notin {"draft", "cancelled"}
       /\ Book(i, a, amount - a - spent)
       /\ payment' = [payment EXCEPT ![p] =
                        [pay EXCEPT !.status = "paid", !.amount = amount, !.excess = amount - a]]
       /\ StopPenalty({i})

NewPayment(i, amount, method) ==
    [status |-> "pending", inv |-> i, amount |-> amount, method |-> method,
     excess |-> 0, lapsed |-> FALSE]

(* Mutants of Refund: the payment may be refunded before, or the balance    *)
(* may be spent.                                                            *)
RefundTwice(p, toCredit, balance) ==
    LET i == payment[p].inv
        e == payment[p].excess
        a == Lesser(payment[p].amount - e, invoice[i].paid)
    IN /\ payment[p].status \in {"paid", "refunded"}
       /\ toCredit \/ balance >= e
       /\ Book(i, -a, IF toCredit THEN a ELSE -e)
       /\ payment' = [payment EXCEPT ![p].status = "refunded"]
RefundSpent(p, toCredit, balance) ==
    LET i == payment[p].inv
        e == payment[p].excess
        a == Lesser(payment[p].amount - e, invoice[i].paid)
    IN /\ payment[p].status = "paid"
       /\ Book(i, -a, IF toCredit THEN a ELSE -e)
       /\ payment' = [payment EXCEPT ![p].status = "refunded"]

(* refundTx: cash, or to the credit balance.  What exceeded the invoice is  *)
(* in the balance already; cash takes it back if the balance, as read       *)
(* before, still has it.                                                    *)
Refund(p, toCredit, balance) ==
    LET i == payment[p].inv
        e == payment[p].excess
        a == Lesser(payment[p].amount - e, invoice[i].paid)
    IN /\ payment[p].status = "paid"
       /\ toCredit \/ balance >= e
       /\ Book(i, -a, IF toCredit THEN a ELSE -e)
       /\ payment' = [payment EXCEPT ![p].status = "refunded"]

-----------------------------------------------------------------------------
(* Invoices.                                                                *)

NewInvoice(i, fine, total, status) ==
    i \in NextRow({j \in Invoices : invoice[j].status = "none"}) /\ invoice' = [invoice EXCEPT ![i] =
        [NoInvoice EXCEPT !.status = status, !.fine = fine, !.total = total]]

(* The items of a request for invoice i: other charges, and any amounts     *)
(* under the source of a penalty, which the client names itself or which    *)
(* mergeItems keeps of the item it edits; items may be left as they are.    *)
(* Bounds: no item that bills a penalty, and no total, is 0.                *)
HandItems(i) ==
    {[j \in Invoices |-> IF j \in DOMAIN f THEN f[j] ELSE item[i][j]] :
        f \in UNION {[H -> Amounts \cup {0}] : H \in SUBSET {j \in Invoices : penalty[j].status # "none"}}}
HandTotals(items) == {t + SumFunction(items) : t \in Totals \cup {0}} \cap (Nat \ {0})

(* The client chooses the items and the type of the invoice.                *)
Create(i) ==
    /\ Calm
    /\ \E items \in HandItems(i) : \E total \in HandTotals(items), fine \in BOOLEAN, status \in {"draft", "issued"} :
         /\ NewInvoice(i, fine, total, status)
         /\ item' = [item EXCEPT ![i] = items]
         /\ edited' = edited \cup {j \in Invoices : items[j] # 0}
    /\ UNCHANGED <<payment, credit, overflow, posted, note, penalty, line, heard, ops, serial>>

(* Act issue: issueTx reads the invoice again, FOR UPDATE.                  *)
Issue(i) ==
    /\ Calm /\ invoice[i].status = "draft"
    /\ invoice' = [invoice EXCEPT ![i].status = "issued"]
    /\ UNCHANGED <<payment, credit, overflow, posted, note, penalty, item, edited, line, heard, ops, serial>>

UpdateRead(q, i) ==
    /\ invoice[i].status = "draft"
    /\ Begin(q, [kind |-> "update", inv |-> i])
    /\ UNCHANGED <<rows, serial>>

(* Update writes by id alone: it deletes the items and inserts those of the *)
(* request; the penalties they billed keep their status.                    *)
UpdateCommit(q) ==
    LET i == ops[q].inv
    IN /\ ops[q].kind = "update" /\ End(q)
       /\ \E items \in HandItems(i) : \E total \in HandTotals(items), fine \in BOOLEAN :
            /\ invoice' = [invoice EXCEPT ![i].total = total, ![i].fine = fine]
            /\ item' = [item EXCEPT ![i] = items]
            /\ edited' = edited \cup {j \in Invoices : items[j] # item[i][j]}
       /\ UNCHANGED <<payment, credit, overflow, posted, note, penalty, line, heard, serial>>

(* staffActions: a draft is cancelled, an issued invoice is voided while    *)
(* nothing is paid or corrected.                                            *)
Voidable(i) ==
    \/ invoice[i].status = "draft"
    \/ invoice[i].status \in Open /\ invoice[i].paid = 0 /\ invoice[i].credited = 0

CancelRead(q, i) ==
    /\ Voidable(i)
    /\ Begin(q, [kind |-> "cancel", inv |-> i])
    /\ UNCHANGED <<rows, serial>>

(* Mutant of AfterCancel: what it billed stays billed.                      *)
AfterCancelBilled(i, j) ==
    IF j = i /\ penalty[j].status \in {"accruing", "final"}
    THEN [penalty[j] EXCEPT !.status = "waived"] ELSE penalty[j]

(* cancelTx: the invoice by id alone, its pending payments; penalties it    *)
(* bills are unbilled again, its own stop.                                  *)
AfterCancel(i, j) ==
    LET r == IF item[i][j] > 0 /\ penalty[j].status = "billed"
             THEN [penalty[j] EXCEPT !.status = "final"] ELSE penalty[j]
    IN IF j = i /\ r.status \in {"accruing", "final"}
       THEN [r EXCEPT !.status = "waived"] ELSE r

CancelCommit(q) ==
    LET i == ops[q].inv
    IN /\ ops[q].kind = "cancel" /\ End(q)
       /\ invoice' = [invoice EXCEPT ![i].status = "cancelled"]
       /\ payment' = [p \in Payments |-> IF p \in Pending(i)
                        THEN [payment[p] EXCEPT !.status = "cancelled"] ELSE payment[p]]
       /\ penalty' = [j \in Invoices |-> AfterCancel(i, j)]
       /\ UNCHANGED <<credit, overflow, posted, note, item, edited, line, heard, serial>>

-----------------------------------------------------------------------------
(* Payments of the tenant.                                                  *)

(* TenantPay, initiateTx: one payment that has not lapsed at a time.        *)
PayRead(q, i) ==
    /\ Payable(i)
    /\ \A p \in Pending(i) : payment[p].lapsed
    /\ \E amount \in Amounts \cup {Outstanding(i)}, method \in {"gateway", "manual"} :
         /\ amount <= Outstanding(i)
         /\ Begin(q, [kind |-> "pay", new |-> NewPayment(i, amount, method)])
    /\ UNCHANGED <<rows, serial>>

PayCommit(q) ==
    /\ ops[q].kind = "pay" /\ End(q)
    /\ \E p \in NextRow(Fresh) : payment' = [payment EXCEPT ![p] = ops[q].new]
    /\ UNCHANGED <<invoice, credit, overflow, posted, note, penalty, item, edited, line, heard, serial>>

(* HandleWebhook: an event is inserted once; its effect is in the same      *)
(* transaction and undone with it.  The provider repeats events and may     *)
(* send them in any order.                                                  *)
WebhookPaid(p) ==
    /\ Calm /\ payment[p].method = "gateway" /\ payment[p].status # "none"
    /\ <<p, "paid">> \notin heard /\ heard' = heard \cup {<<p, "paid">>}
    /\ \/ /\ payment[p].status = "paid"
          /\ UNCHANGED <<invoice, payment, credit, posted, penalty>>
       \/ /\ payment[p].status = "pending"
          /\ Settle(p, payment[p], payment[p].amount, 0)
    /\ UNCHANGED <<overflow, note, item, edited, line, ops, serial>>

WebhookRefunded(p) ==
    /\ Calm /\ payment[p].method = "gateway"
    /\ <<p, "refunded">> \notin heard /\ heard' = heard \cup {<<p, "refunded">>}
    /\ Refund(p, FALSE, credit)
    /\ UNCHANGED <<overflow, note, penalty, item, edited, line, ops, serial>>

WebhookClosed(p, status) ==
    /\ Calm /\ payment[p].method = "gateway" /\ payment[p].status # "none"
    /\ <<p, status>> \notin heard /\ heard' = heard \cup {<<p, status>>}
    /\ payment' = [payment EXCEPT ![p].status = IF @ = "pending" THEN status ELSE @]
    /\ UNCHANGED <<invoice, credit, overflow, posted, note, penalty, item, edited, line, ops, serial>>

-----------------------------------------------------------------------------
(* Payments recorded, verified, failed and refunded by staff.               *)

(* Mutants of Verifiable: a paid payment is settled again, a failed one too.*)
VerifiablePaid   == {"pending", "expired", "paid"}
VerifiableFailed == {"pending", "expired", "failed"}

Verifiable == {"pending", "expired"}

(* VerifyPending: settleTx with the amount that was received; a payment     *)
(* that lapsed is still verified, one that is paid is left as it is.        *)
Verify(p) ==
    /\ Calm /\ payment[p].method = "manual" /\ payment[p].status \in Verifiable
    /\ \E amount \in Amounts \cup {payment[p].amount} : Settle(p, payment[p], amount, 0)
    /\ UNCHANGED <<overflow, note, item, edited, line, heard, ops, serial>>

FailRead(q, p) ==
    /\ payment[p].status = "pending"
    /\ Begin(q, [kind |-> "fail", pay |-> p])
    /\ UNCHANGED <<rows, serial>>

(* FailPayment writes by id alone.                                          *)
FailCommit(q) ==
    /\ ops[q].kind = "fail" /\ End(q)
    /\ payment' = [payment EXCEPT ![ops[q].pay].status = "failed"]
    /\ UNCHANGED <<invoice, credit, overflow, posted, note, penalty, item, edited, line, heard, serial>>

(* RecordManual, recordManualTx: refused while a payment of the tenant      *)
(* waits.                                                                   *)
RecordRead(q, i) ==
    /\ Payable(i) /\ Pending(i) = {}
    /\ \E amount \in Amounts : Begin(q, [kind |-> "record", inv |-> i, amount |-> amount])
    /\ UNCHANGED <<rows, serial>>

RecordCommit(q) ==
    /\ ops[q].kind = "record" /\ End(q)
    /\ \E p \in NextRow(Fresh) :
         Settle(p, NewPayment(ops[q].inv, ops[q].amount, "manual"), ops[q].amount, 0)
    /\ UNCHANGED <<overflow, note, item, edited, line, heard, serial>>

(* ApplyBalance: at most the balance and what is outstanding.               *)
ApplyRead(q, i) ==
    /\ Payable(i)
    /\ \E amount \in 1 .. Lesser(credit, Outstanding(i)) :
         Begin(q, [kind |-> "apply", inv |-> i, amount |-> amount])
    /\ UNCHANGED <<rows, serial>>

ApplyCommit(q) ==
    /\ ops[q].kind = "apply" /\ End(q)
    /\ \E p \in NextRow(Fresh) :
         Settle(p, NewPayment(ops[q].inv, ops[q].amount, "credit"), ops[q].amount, ops[q].amount)
    /\ UNCHANGED <<overflow, note, item, edited, line, heard, serial>>

(* receiveTx on the party's open invoices, which it locks: each allocation  *)
(* is a payment, the rest of the money goes to the credit balance.          *)
Allocations(amount) ==
    {f \in UNION {[S -> Nat \cap (1 .. amount)] : S \in SUBSET {i \in Invoices : Payable(i)}} :
        /\ DOMAIN f = {} => \A i \in Invoices : ~Payable(i)
        /\ \A i \in DOMAIN f : f[i] <= Outstanding(i) /\ Pending(i) = {}
        /\ SumFunction(f) <= amount}

(* One new payment for each allocated invoice.                              *)
Ascending(g) ==
    /\ \A i, j \in DOMAIN g : i < j => g[i] < g[j]
    /\ \A i \in DOMAIN g, p \in Fresh : p < g[i] => \E j \in DOMAIN g : g[j] = p

ReceiveTx(amount, f) ==
    /\ credit + amount <= MaxCredit + SumFunction(f)
    /\ \E pay \in {g \in [DOMAIN f -> Fresh] : Ascending(g)} :
      LET Paid(i) == [invoice[i] EXCEPT !.paid = @ + f[i]]
      IN /\ invoice' = [i \in Invoices |-> IF i \in DOMAIN f
                          THEN [Paid(i) EXCEPT !.status = StatusFor(Paid(i))] ELSE invoice[i]]
         /\ posted' = [i \in Invoices |-> IF i \in DOMAIN f THEN Share(Paid(i)) ELSE posted[i]]
         /\ payment' = [p \in Payments |->
              IF \E i \in DOMAIN f : pay[i] = p
              THEN LET i == CHOOSE i \in DOMAIN f : pay[i] = p
                   IN [NewPayment(i, f[i], "manual") EXCEPT !.status = "paid"]
              ELSE payment[p]]
         /\ credit' = credit + amount - SumFunction(f)
         /\ StopPenalty(DOMAIN f)

Receive ==
    /\ Calm
    /\ \E amount \in Amounts : \E f \in Allocations(amount) : ReceiveTx(amount, f)
    /\ UNCHANGED <<overflow, note, item, edited, line, heard, ops, serial>>

(* Refund of a payment that brought money in.                               *)
RefundRead(q, p) ==
    /\ payment[p].status = "paid" /\ payment[p].method # "credit"
    /\ \E toCredit \in BOOLEAN :
         Begin(q, [kind |-> "refund", pay |-> p, toCredit |-> toCredit, balance |-> credit])
    /\ UNCHANGED <<rows, serial>>

RefundCommit(q) ==
    /\ ops[q].kind = "refund" /\ End(q)
    /\ Refund(ops[q].pay, ops[q].toCredit, ops[q].balance)
    /\ UNCHANGED <<overflow, note, penalty, item, edited, line, heard, serial>>

-----------------------------------------------------------------------------
(* Credit notes.                                                            *)

Requested(i) == SumFunction([n \in Notes |->
                    IF note[n].status = "pending" /\ note[n].inv = i THEN note[n].amount ELSE 0])

NoteRead(q, i) ==
    /\ invoice[i].status \in Open \cup {"paid"}
    /\ \E amount \in 1 .. (invoice[i].total - invoice[i].credited - Requested(i)) :
         Begin(q, [kind |-> "note", inv |-> i, amount |-> amount])
    /\ UNCHANGED <<rows, serial>>

NoteCommit(q) ==
    /\ ops[q].kind = "note" /\ End(q)
    /\ \E n \in NextRow({m \in Notes : note[m].status = "none"}) : note' = [note EXCEPT ![n] =
         [status |-> "pending", inv |-> ops[q].inv, amount |-> ops[q].amount]]
    /\ UNCHANGED <<invoice, payment, credit, overflow, posted, penalty, item, edited, line, heard, serial>>

(* DecideCreditNote locks the note and the invoice; payments that exceed    *)
(* what is left of the invoice go to the credit balance.                    *)
NoteApprove(n) ==
    LET i == note[n].inv
        credited == invoice[i].credited + note[n].amount
        o == Greater(0, invoice[i].paid + credited - invoice[i].total)
        r == [invoice[i] EXCEPT !.credited = credited, !.paid = @ - o]
    IN /\ Calm /\ note[n].status = "pending" /\ credited <= invoice[i].total
       /\ invoice' = [invoice EXCEPT ![i] = [r EXCEPT !.status = StatusFor(r)]]
       /\ credit' = credit + o
       /\ overflow' = [overflow EXCEPT ![i] = @ + o]
       /\ posted' = [posted EXCEPT ![i] = Share(r)]
       /\ note' = [note EXCEPT ![n].status = "approved"]
       /\ StopPenalty({i})
       /\ UNCHANGED <<payment, item, edited, line, heard, ops, serial>>

NoteRefuse(n) ==
    /\ Calm /\ note[n].status = "pending"
    /\ note' = [note EXCEPT ![n].status = "refused"]
    /\ UNCHANGED <<invoice, payment, credit, overflow, posted, penalty, item, edited, line, heard, ops, serial>>

-----------------------------------------------------------------------------
(* The clock, the worker's sweep and penalties.                             *)

DuePasses(i) ==
    /\ invoice[i].status # "none" /\ ~invoice[i].late
    /\ invoice' = [invoice EXCEPT ![i].late = TRUE]
    /\ UNCHANGED <<payment, credit, overflow, posted, note, penalty, item, edited, line, heard, ops, serial>>

PaymentLapses(p) ==
    /\ payment[p].status = "pending" /\ ~payment[p].lapsed
    /\ payment' = [payment EXCEPT ![p].lapsed = TRUE]
    /\ UNCHANGED <<invoice, credit, overflow, posted, note, penalty, item, edited, line, heard, ops, serial>>

(* Sweep: overdue invoices, expired payments, then AccruePenaltiesTx, which *)
(* never lowers a penalty and leaves those alone that have stopped.         *)
Accrued(i, amount) ==
    IF amount > 0 /\ invoice'[i].status = "overdue" /\ ~invoice[i].fine
       /\ penalty[i].status \in {"none", "accruing"}
    THEN [status |-> "accruing", accrued |-> Greater(penalty[i].accrued, amount)]
    ELSE penalty[i]

Sweep ==
    /\ Calm
    /\ invoice' = [i \in Invoices |->
         IF invoice[i].status \in {"issued", "partially_paid"} /\ invoice[i].late
         THEN [invoice[i] EXCEPT !.status = "overdue"] ELSE invoice[i]]
    /\ payment' = [p \in Payments |->
         IF payment[p].status = "pending" /\ payment[p].lapsed
         THEN [payment[p] EXCEPT !.status = "expired"] ELSE payment[p]]
    /\ \E amount \in [Invoices -> Amounts \cup {0}] :
         penalty' = [i \in Invoices |-> Accrued(i, amount[i])]
    /\ UNCHANGED <<credit, overflow, posted, note, item, edited, line, heard, ops, serial>>

(* WaivePenalty locks the row.                                              *)
Waive(i) ==
    /\ Calm /\ penalty[i].status \in {"accruing", "final"}
    /\ penalty' = [penalty EXCEPT ![i].status = "waived"]
    /\ UNCHANGED <<invoice, payment, credit, overflow, posted, note, item, edited, line, heard, ops, serial>>

(* BillPenalties selects FOR UPDATE OF the penalties: a row that had to be  *)
(* waited for is read again, but what invoices bill of it is still as of    *)
(* the start of the query.                                                  *)
Billable(i, billed) ==
    penalty[i].status \in {"accruing", "final"} /\ penalty[i].accrued > billed[i]

BillRead(q) ==
    /\ \E i \in Invoices : Billable(i, [j \in Invoices |-> Billed(j)])
    /\ Begin(q, [kind |-> "bill", billed |-> [j \in Invoices |-> Billed(j)]])
    /\ UNCHANGED <<rows, serial>>

BillCommit(q) ==
    LET billed == ops[q].billed
    IN /\ ops[q].kind = "bill" /\ End(q)
       /\ \E S \in (SUBSET {i \in Invoices : Billable(i, billed)}) \ {{}},
             n \in Invoices, status \in {"draft", "issued"} :
            LET billing == [j \in Invoices |-> IF j \in S THEN penalty[j].accrued - billed[j] ELSE 0]
            IN /\ NewInvoice(n, TRUE, SumFunction(billing), status)
               /\ item' = [item EXCEPT ![n] = billing]
               /\ penalty' = [j \in Invoices |->
                    IF j \in S /\ penalty[j].status = "final"
                    THEN [penalty[j] EXCEPT !.status = "billed"] ELSE penalty[j]]
       /\ UNCHANGED <<payment, credit, overflow, posted, note, edited, line, heard, serial>>

-----------------------------------------------------------------------------
(* Bank reconciliation.                                                     *)

(* Mutant of Unsettled: a matched line may be matched again.                *)
UnsettledMatched == {"unmatched", "suggested", "matched"}

Unsettled == {"unmatched", "suggested"}

(* matchLineTx: a payment that waits for the invoice is verified with the   *)
(* amount of the line; otherwise the line is money received.                *)
Match(b) ==
    /\ Calm /\ line[b].status \in Unsettled
    /\ \E amount \in Amounts :
         \/ /\ \E p \in Payments :
                 /\ payment[p].status \in Verifiable
                 /\ Settle(p, payment[p], amount, 0)
            /\ line' = [line EXCEPT ![b] = [status |-> "matched", booked |-> @.booked + 1]]
         \/ /\ \E f \in Allocations(amount) : ReceiveTx(amount, f)
            /\ line' = [line EXCEPT ![b] = [status |-> "matched", booked |-> @.booked + 1]]
    /\ UNCHANGED <<overflow, note, item, edited, heard, ops, serial>>

(* Matched with a payment that is paid already: settleTx leaves it as it is.*)
MatchSettled(b) ==
    /\ Calm /\ line[b].status \in Unsettled
    /\ \E p \in Payments : payment[p].status = "paid"
    /\ line' = [line EXCEPT ![b].status = "matched"]
    /\ UNCHANGED <<invoice, payment, credit, overflow, posted, note, penalty, item, edited, heard, ops, serial>>

Ignore(b) ==
    /\ Calm /\ line[b].status \in Unsettled
    /\ line' = [line EXCEPT ![b].status = "ignored"]
    /\ UNCHANGED <<invoice, payment, credit, overflow, posted, note, penalty, item, edited, heard, ops, serial>>

(* SetLineIgnored restores a line and runs autoMatchTx on the whole import: *)
(* it selects the lines that are not settled and then updates each by id.   *)
RestoreRead(q, b) ==
    /\ line[b].status = "ignored"
    /\ Begin(q, [kind |-> "restore", back |-> b,
                 open |-> {b} \cup {c \in Lines : line[c].status \in Unsettled}])
    /\ UNCHANGED <<rows, serial>>

RestoreCommit(q) ==
    /\ ops[q].kind = "restore" /\ End(q)
    /\ \E suggested \in SUBSET ops[q].open :
         line' = [c \in Lines |->
                    IF c \in suggested THEN [line[c] EXCEPT !.status = "suggested"]
                    ELSE IF c = ops[q].back THEN [line[c] EXCEPT !.status = "unmatched"]
                    ELSE line[c]]
    /\ UNCHANGED <<invoice, payment, credit, overflow, posted, note, penalty, item, edited, heard, serial>>

-----------------------------------------------------------------------------
NoPayment == [NewPayment(0, 0, "manual") EXCEPT !.status = "none"]

Init ==
    /\ invoice = [i \in Invoices |-> NoInvoice]
    /\ payment = [p \in Payments |-> NoPayment]
    /\ credit = 0
    /\ overflow = [i \in Invoices |-> 0]
    /\ posted = [i \in Invoices |-> 0]
    /\ note = [n \in Notes |-> [status |-> "none", inv |-> 0, amount |-> 0]]
    /\ penalty = [i \in Invoices |-> NoPenalty]
    /\ item = [i \in Invoices |-> NoItems] /\ edited = {}
    /\ line = [b \in Lines |-> [status |-> "unmatched", booked |-> 0]]
    /\ heard = {}
    /\ ops = [q \in Requests |-> NoOp]
    /\ serial \in BOOLEAN

InvoiceSteps(q) ==
    \/ \E i \in Invoices : UpdateRead(q, i) \/ CancelRead(q, i)
    \/ UpdateCommit(q) \/ CancelCommit(q) \/ Abort(q)

TenantSteps(q) == (\E i \in Invoices : PayRead(q, i)) \/ PayCommit(q)

ReceiptSteps(q) ==
    \/ \E i \in Invoices : RecordRead(q, i)
    \/ \E p \in Payments : FailRead(q, p) \/ RefundRead(q, p)
    \/ RecordCommit(q) \/ FailCommit(q) \/ RefundCommit(q)

BalanceSteps(q) == (\E i \in Invoices : ApplyRead(q, i)) \/ ApplyCommit(q)

NoteSteps(q) == (\E i \in Invoices : NoteRead(q, i)) \/ NoteCommit(q)

PenaltySteps(q) == BillRead(q) \/ BillCommit(q)

BankSteps(q) == (\E b \in Lines : RestoreRead(q, b)) \/ RestoreCommit(q)

InvoiceTx == \E i \in Invoices : Create(i) \/ Issue(i) \/ DuePasses(i)

ProviderTx == \E p \in Payments :
    \/ WebhookPaid(p) \/ WebhookRefunded(p) \/ PaymentLapses(p)
    \/ \E s \in {"failed", "expired", "cancelled"} : WebhookClosed(p, s)

StaffTx == Receive \/ \E p \in Payments : Verify(p)

NoteTx == \E n \in Notes : NoteApprove(n) \/ NoteRefuse(n)

BankTx == \E b \in Lines : Match(b) \/ MatchSettled(b) \/ Ignore(b)

Next ==
    \/ InvoiceTx \/ ProviderTx \/ StaffTx \/ NoteTx \/ BankTx \/ Sweep
    \/ \E i \in Invoices : Waive(i)
    \/ \E q \in Requests :
         \/ InvoiceSteps(q) \/ TenantSteps(q) \/ ReceiptSteps(q)
         \/ BalanceSteps(q) \/ NoteSteps(q) \/ PenaltySteps(q) \/ BankSteps(q)

Spec == Init /\ [][Next]_vars

-----------------------------------------------------------------------------
(* Properties.                                                              *)

InvoiceStatus == Open \cup {"none", "draft", "paid", "cancelled"}

Op ==
    {NoOp}
    \cup [kind : {"update", "cancel"}, inv : Invoices]
    \cup [kind : {"pay"}, new : [status : {"pending"}, inv : Invoices, amount : Nat,
           method : Methods, excess : {0}, lapsed : {FALSE}]]
    \cup [kind : {"fail"}, pay : Payments]
    \cup [kind : {"record", "apply", "note"}, inv : Invoices, amount : Nat]
    \cup [kind : {"refund"}, pay : Payments, toCredit : BOOLEAN, balance : Int]
    \cup [kind : {"bill"}, billed : [Invoices -> Int]]
    \cup [kind : {"restore"}, back : Lines, open : SUBSET Lines]

(* Every row keeps its type.                                                *)
TypeOK ==
    /\ invoice \in [Invoices -> [status : InvoiceStatus, fine : BOOLEAN, total : Nat, paid : Int,
                                 credited : Nat, late : BOOLEAN]]
    /\ payment \in [Payments -> [status : PaymentStatus, inv : Invoices \cup {0},
                                 amount : Nat, method : Methods, excess : Nat, lapsed : BOOLEAN]]
    /\ credit \in Int
    /\ overflow \in [Invoices -> Nat]
    /\ posted \in [Invoices -> Int]
    /\ note \in [Notes -> [status : {"none", "pending", "approved", "refused"},
                           inv : Invoices \cup {0}, amount : Nat]]
    /\ penalty \in [Invoices -> [status : {"none", "accruing", "final", "billed", "waived"},
                                 accrued : Nat]]
    /\ item \in [Invoices -> [Invoices -> Int]] /\ edited \subseteq Invoices
    /\ line \in [Lines -> [status : {"unmatched", "suggested", "matched", "ignored"}, booked : Nat]]
    /\ heard \subseteq Payments \X Outcomes
    /\ ops \in [Requests -> Op]
    /\ serial \in BOOLEAN

(* What the row r of a payment, and all of them, have brought to invoice i. *)
Gave(r, i)   == IF r.status = "paid" /\ r.inv = i THEN r.amount - r.excess ELSE 0
SettledOn(i) == SumFunction([p \in Payments |-> Gave(payment[p], i)])

(* The money of every paid payment is in the books of its invoice or, by a  *)
(* credit note, in the balance: no webhook, verification, receipt or refund *)
(* loses it, however they overlap.                                          *)
ReceivedIsBooked == \A i \in Invoices : SettledOn(i) <= invoice[i].paid + overflow[i]

(* And it is booked once: nothing is paid that no payment brought.          *)
MoneyOnce == serial => \A i \in Invoices : invoice[i].paid <= SettledOn(i)

(* The balance is never spent twice, by an application or a refund.         *)
CreditBacked == serial => credit >= 0

(* Payments and corrections never exceed the invoice and its status says    *)
(* whether they reach it; a cancelled invoice holds no money and no payment *)
(* that could bring some; the sinking fund has its share of what is paid,   *)
(* after refunds and credit notes too.                                      *)
InvoiceAgrees ==
    serial => \A i \in Invoices :
        /\ 0 <= invoice[i].paid /\ invoice[i].paid + invoice[i].credited <= invoice[i].total
        /\ invoice[i].status \in Open \cup {"paid"} =>
             (invoice[i].status = "paid" <=> Outstanding(i) = 0)
        /\ invoice[i].status = "cancelled" => invoice[i].paid = 0 /\ Pending(i) = {}
        /\ posted[i] = Share(invoice[i])

(* What accrues is billed in full and only once, however bills, corrections *)
(* of drafts, voids, waivers and further accruals follow each other: of a   *)
(* penalty whose items nobody wrote by hand, invoices that are not cancelled*)
(* bill no more than accrued, and all of it once it counts as billed.  By   *)
(* hand, staff may bill any amount, and none of a penalty that stays billed.*)
(* So it is as long as no cancelled invoice comes back: see CorrectsIssued. *)
PenaltyBilledOnce ==
    serial => \A j \in Invoices \ edited :
        /\ Billed(j) <= penalty[j].accrued
        /\ penalty[j].status = "billed" => Billed(j) = penalty[j].accrued

(* The money of a bank line is booked once.                                 *)
LineBookedOnce == serial => \A b \in Lines : line[b].booked <= 1

(* A payment that was refunded, failed or cancelled never becomes paid, not *)
(* even by a late webhook or a stale verification.                          *)
ClosedStaysClosed ==
    [][\A p \in Payments : payment[p].status \in {"refunded", "failed", "cancelled"}
                            => payment'[p].status # "paid"]_vars

(* A credit note corrects an invoice that is owed, not one that was voided  *)
(* after the note was requested (RequestCreditNote refuses those).          *)
CorrectsIssued ==
    [][\A n \in Notes : note[n].status = "pending" /\ note'[n].status = "approved"
                         => invoice[note[n].inv].status # "cancelled"]_vars
=============================================================================
