-------------------------- MODULE UnitBilling_proofs --------------------------
(***************************************************************************)
(* Proofs about UnitBilling, for every number of invoices, payments, notes, *)
(* bank lines and requests: the types, that the money of a paid payment is  *)
(* in the books and that a closed payment never becomes paid, and, while    *)
(* requests take turns, that it is there once, that the balance is backed,  *)
(* that every invoice agrees with its payments, that a bank line is booked  *)
(* once, and so is a penalty that nobody edits unless a cancelled invoice   *)
(* comes back to life.                                                      *)
(***************************************************************************)
EXTENDS UnitBilling, SumTheorems

InvoiceRows == [status : InvoiceStatus, fine : BOOLEAN, total : Nat, paid : Int, credited : Nat, late : BOOLEAN]
PaymentRows == [status : PaymentStatus, inv : Invoices \cup {0}, amount : Nat, method : Methods,
                excess : Nat, lapsed : BOOLEAN]
NoteRows    == [status : {"none", "pending", "approved", "refused"}, inv : Invoices \cup {0}, amount : Nat]
PenaltyRows == [status : {"none", "accruing", "final", "billed", "waived"}, accrued : Nat]
LineRows    == [status : {"unmatched", "suggested", "matched", "ignored"}, booked : Nat]

Exists(i) == i \in Invoices /\ invoice[i].status # "none"

Recorded(p) == payment[p].status # "none"

(* What every request knows of the rows it will write: they are there.      *)
Knows(op) ==
    /\ op.kind \in {"update", "cancel", "record", "apply", "note"} => Exists(op.inv)
    /\ op.kind = "pay" => Exists(op.new.inv)
    /\ op.kind = "fail" => Recorded(op.pay)

(* Rows belong to invoices, and a payment has brought what exceeded.        *)
Hangs(r)   == r.status # "none" => Exists(r.inv) /\ r.excess <= r.amount
RowsHang   == /\ \A p \in Payments : Hangs(payment[p])
              /\ \A n \in Notes : note[n].status # "none" => Exists(note[n].inv)
AllKnow    == \A q \in Requests : Knows(ops[q])

RowsTyped ==
    /\ invoice \in [Invoices -> InvoiceRows] /\ payment \in [Payments -> PaymentRows]
    /\ credit \in Int /\ overflow \in [Invoices -> Nat] /\ posted \in [Invoices -> Int]
    /\ note \in [Notes -> NoteRows] /\ penalty \in [Invoices -> PenaltyRows]
    /\ item \in [Invoices -> [Invoices -> Int]] /\ edited \subseteq Invoices /\ line \in [Lines -> LineRows]
    /\ heard \subseteq Payments \X Outcomes /\ serial \in BOOLEAN

MoneyInv == RowsTyped /\ ops \in [Requests -> Op] /\ RowsHang /\ AllKnow /\ ReceivedIsBooked

-----------------------------------------------------------------------------
(* While requests take turns.                                               *)

(* A row of an invoice by itself.                                           *)
Sound(r) ==
    /\ 0 <= r.paid /\ r.paid + r.credited <= r.total
    /\ r.status # "none" => r.total > 0
    /\ r.status \in {"none", "draft"} => r.paid = 0 /\ r.credited = 0
    /\ r.status \in Open \cup {"paid"} => (r.status = "paid" <=> r.total - r.paid - r.credited = 0)
    /\ r.status = "cancelled" => r.paid = 0

InvoicesSound == \A i \in Invoices : Sound(invoice[i]) /\ posted[i] = Share(invoice[i])

NothingPends == \A i \in Invoices : invoice[i].status = "cancelled" => Pending(i) = {}

NothingAdded == \A i \in Invoices : invoice[i].paid <= SettledOn(i)

LinesBooked == \A b \in Lines : line[b].booked <= IF line[b].status = "matched" THEN 1 ELSE 0

SerialBooks == InvoicesSound /\ NothingPends /\ NothingAdded /\ credit >= 0 /\ LinesBooked

(* What a request has read still holds when it writes.                      *)
StillTrue(op) ==
    /\ op.kind = "update" => invoice[op.inv].status = "draft"
    /\ op.kind = "cancel" => Voidable(op.inv)
    /\ op.kind = "pay"    => Payable(op.new.inv)
    /\ op.kind = "fail"   => payment[op.pay].status = "pending"
    /\ op.kind = "apply"  => op.amount <= credit
    /\ op.kind = "refund" => op.balance = credit
    /\ op.kind = "restore" => \A b \in op.open \cup {op.back} : line[b].status # "matched"

Turns ==
    /\ \A p, q \in Requests : ops[p] # NoOp /\ ops[q] # NoOp => p = q
    /\ \A q \in Requests : ops[q] # NoOp => StillTrue(ops[q])

BookInv == MoneyInv /\ (serial => SerialBooks /\ Turns)

-----------------------------------------------------------------------------
(* The rows after a step.                                                   *)
RowsKept ==
    /\ RowsTyped' /\ serial' = serial
    /\ \A i \in Invoices : Exists(i) => Exists(i)'
    /\ \A p \in Payments : Recorded(p) => Recorded(p)'
    /\ RowsHang' /\ ReceivedIsBooked' /\ (serial => SerialBooks')

LEMMA Finite == /\ IsFiniteSet(Invoices) /\ IsFiniteSet(Payments) /\ IsFiniteSet(Notes)
                /\ Invoices \subseteq Nat \ {0} /\ Payments \subseteq Nat \ {0} /\ Notes \subseteq Nat \ {0}
<1>1. MaxInvoices \in Nat /\ MaxPayments \in Nat /\ MaxNotes \in Nat
  BY BillingAssumption
<1> QED
  BY <1>1, FS_Interval DEF Invoices, Payments, Notes

LEMMA GaveInt == ASSUME NEW r \in PaymentRows, NEW i PROVE Gave(r, i) \in Int
BY DEF PaymentRows, Gave

LEMMA SettledIs ==
    ASSUME NEW i
    PROVE  SettledOn(i) = SumFunctionOnSet([p \in Payments |-> Gave(payment[p], i)], Payments)
BY DEF SettledOn, SumFunction

LEMMA SettledIsNext ==
    ASSUME NEW i
    PROVE  SettledOn(i)' = SumFunctionOnSet([p \in Payments |-> Gave(payment'[p], i)], Payments)
BY DEF SettledOn, SumFunction, Gave

(* One payment brings more or less to an invoice.                           *)
LEMMA SettledMoves ==
    ASSUME payment \in [Payments -> PaymentRows], payment' \in [Payments -> PaymentRows],
           NEW p \in Payments, NEW i \in Invoices,
           \A r \in Payments \ {p} : Gave(payment'[r], i) = Gave(payment[r], i)
    PROVE  SettledOn(i)' = SettledOn(i) + Gave(payment'[p], i) - Gave(payment[p], i)
<1> DEFINE f == [r \in Payments |-> Gave(payment[r], i)]
           g == [r \in Payments |-> Gave(payment'[r], i)]
<1>1. \A r \in Payments : f[r] \in Int /\ g[r] \in Int
  BY GaveInt
<1>2. \A r \in Payments \ {p} : g[r] = f[r]
  OBVIOUS
<1>3. g[p] = Gave(payment'[p], i) /\ f[p] = Gave(payment[p], i)
  OBVIOUS
<1>4. SettledOn(i) = SumFunctionOnSet(f, Payments) /\ SettledOn(i)' = SumFunctionOnSet(g, Payments)
  BY SettledIs, SettledIsNext
<1> HIDE DEF f, g
<1>5. SumFunctionOnSet(g, Payments) = SumFunctionOnSet(f, Payments) + g[p] - f[p]
  <2>1. IsFiniteSet(Payments)
    BY Finite
  <2> QED
    BY <1>1, <1>2, <2>1, SumChange
<1> QED
  BY <1>3, <1>4, <1>5

(* Payments bring less, or the same.                                        *)
LEMMA SettledDrops ==
    ASSUME payment \in [Payments -> PaymentRows], payment' \in [Payments -> PaymentRows], NEW i \in Invoices
    PROVE  /\ SettledOn(i) \in Int /\ SettledOn(i)' \in Int
           /\ (\A p \in Payments : Gave(payment'[p], i) <= Gave(payment[p], i)) => SettledOn(i)' <= SettledOn(i)
           /\ (\A p \in Payments : Gave(payment'[p], i) = Gave(payment[p], i)) => SettledOn(i)' = SettledOn(i)
<1> DEFINE f == [r \in Payments |-> Gave(payment[r], i)]
           g == [r \in Payments |-> Gave(payment'[r], i)]
<1>1. \A r \in Payments : f[r] \in Int /\ g[r] \in Int
  BY GaveInt
<1>2. /\ (\A p \in Payments : Gave(payment'[p], i) <= Gave(payment[p], i)) => \A p \in Payments : g[p] <= f[p]
      /\ (\A p \in Payments : Gave(payment'[p], i) = Gave(payment[p], i)) => \A p \in Payments : g[p] = f[p]
  OBVIOUS
<1>3. SettledOn(i) = SumFunctionOnSet(f, Payments) /\ SettledOn(i)' = SumFunctionOnSet(g, Payments)
  BY SettledIs, SettledIsNext
<1> HIDE DEF f, g
<1>4. SumFunctionOnSet(f, Payments) \in Int /\ SumFunctionOnSet(g, Payments) \in Int
  BY <1>1, Finite, SumInt
<1>5. ASSUME \A p \in Payments : g[p] <= f[p] PROVE SumFunctionOnSet(g, Payments) <= SumFunctionOnSet(f, Payments)
  BY <1>1, <1>5, Finite, SumLeq
<1>6. ASSUME \A p \in Payments : g[p] = f[p] PROVE SumFunctionOnSet(g, Payments) = SumFunctionOnSet(f, Payments)
  BY <1>1, <1>6, Finite, SumSame
<1> QED
  BY <1>2, <1>3, <1>4, <1>5, <1>6

LEMMA SettledNat ==
    ASSUME payment \in [Payments -> PaymentRows], \A p \in Payments : Hangs(payment[p]), NEW i \in Invoices
    PROVE  /\ SettledOn(i) \in Nat
           /\ \A p \in Payments : Gave(payment[p], i) \in Nat /\ Gave(payment[p], i) <= SettledOn(i)
           /\ ~Exists(i) => SettledOn(i) = 0
<1> DEFINE f == [r \in Payments |-> Gave(payment[r], i)]
<1>1. \A p \in Payments : f[p] = Gave(payment[p], i) /\ f[p] \in Nat
  BY DEF Gave, Hangs, PaymentRows
<1>2. SettledOn(i) = SumFunctionOnSet(f, Payments)
  BY SettledIs
<1>3. ~Exists(i) => \A p \in Payments : f[p] = 0
  BY DEF Gave, Hangs
<1> HIDE DEF f
<1>4. SumFunctionOnSet(f, Payments) \in Nat /\ \A p \in Payments : f[p] <= SumFunctionOnSet(f, Payments)
  BY <1>1, Finite, SumNat
<1>5. ASSUME \A p \in Payments : f[p] = 0 PROVE SumFunctionOnSet(f, Payments) = 0
  BY <1>5, Finite, SumZero
<1> QED
  BY <1>1, <1>2, <1>3, <1>4, <1>5

-----------------------------------------------------------------------------
(* Amounts.                                                                 *)
LEMMA SoundStatus ==
    ASSUME NEW r \in InvoiceRows, r.total > 0, 0 <= r.paid, r.paid + r.credited <= r.total
    PROVE  /\ [r EXCEPT !.status = StatusFor(r)] \in InvoiceRows /\ Sound([r EXCEPT !.status = StatusFor(r)])
           /\ StatusFor(r) \in Open \cup {"paid"}
BY DEF InvoiceRows, Sound, StatusFor, InvoiceStatus, Open

LEMMA StatusTyped ==
    ASSUME NEW r \in InvoiceRows
    PROVE  /\ [r EXCEPT !.status = StatusFor(r)] \in InvoiceRows
           /\ StatusFor(r) \in Open \cup {"paid"}
           /\ LET n == [r EXCEPT !.status = StatusFor(r)]
              IN n.status = StatusFor(r) /\ n.paid = r.paid /\ n.total = r.total /\ n.credited = r.credited
BY DEF InvoiceRows, StatusFor, InvoiceStatus, Open

LEMMA ShareInt == ASSUME NEW r \in InvoiceRows PROVE Share(r) \in Int
<1>1. r.total \in Nat /\ r.paid \in Int
  BY DEF InvoiceRows
<1> DEFINE t == r.total  d == r.paid
<1>2. t \div 2 \in Int
  BY <1>1
<1>3. (t \div 2) * d \in Int
  BY <1>1, <1>2
<1>4. t # 0 => ((t \div 2) * d) \div t \in Int
  <2> DEFINE c == (t \div 2) * d
  <2>1. c \in Int /\ t \in Nat
    BY <1>1, <1>3
  <2> HIDE DEF c
  <2>2. t # 0 => c \div t \in Int
    BY <2>1
  <2> QED
    BY <2>2 DEF c
<1> QED
  BY <1>2, <1>4 DEF Share

LEMMA ShareSame ==
    ASSUME NEW r, NEW s, r.total = s.total, r.paid = s.paid
    PROVE  Share(r) = Share(s)
BY DEF Share

LEMMA ShareOfNothing == ASSUME NEW r \in InvoiceRows, r.paid = 0 PROVE Share(r) = 0
<1>1. r.total \in Nat
  BY DEF InvoiceRows
<1> DEFINE t == r.total
<1>2. t \div 2 \in Int
  BY <1>1
<1>3. (t \div 2) * 0 = 0
  BY <1>2
<1>4. t # 0 => 0 \div t = 0
  BY <1>1
<1> QED
  BY <1>1, <1>3, <1>4 DEF Share

-----------------------------------------------------------------------------
(* No money moves: rows change by their statuses, or are inserted.          *)
LEMMA PlainStep ==
    ASSUME BookInv, RowsTyped', UNCHANGED <<credit, overflow, posted, note, serial>>,
           \A i \in Invoices : /\ Exists(i) => Exists(i)'
                               /\ invoice'[i].paid = invoice[i].paid \/ (~Exists(i) /\ invoice'[i].paid = 0),
           \A p \in Payments : Hangs(payment[p])' /\ (Recorded(p) => Recorded(p)'),
           \A p \in Payments, i \in Invoices : Gave(payment'[p], i) <= Gave(payment[p], i),
           serial => /\ \A p \in Payments, i \in Invoices : Gave(payment'[p], i) = Gave(payment[p], i)
                     /\ \A i \in Invoices : Sound(invoice'[i]) /\ Share(invoice'[i]) = posted[i]
                     /\ NothingPends' /\ LinesBooked'
    PROVE  RowsKept
<1>0. /\ RowsTyped /\ RowsHang /\ ReceivedIsBooked /\ (serial => SerialBooks)
      /\ payment \in [Payments -> PaymentRows] /\ payment' \in [Payments -> PaymentRows]
      /\ invoice \in [Invoices -> InvoiceRows] /\ invoice' \in [Invoices -> InvoiceRows]
      /\ overflow \in [Invoices -> Nat]
  BY DEF BookInv, MoneyInv, RowsTyped
<1>1. \A i \in Invoices : /\ SettledOn(i) \in Nat /\ SettledOn(i)' \in Int /\ SettledOn(i)' <= SettledOn(i)
                          /\ ~Exists(i) => SettledOn(i) = 0
                          /\ serial => SettledOn(i)' = SettledOn(i)
  BY <1>0, SettledNat, SettledDrops DEF RowsHang
<1>2. \A i \in Invoices : invoice[i].paid \in Int /\ invoice'[i].paid \in Int /\ overflow[i] \in Nat
  BY <1>0 DEF InvoiceRows
<1>3. RowsHang'
  BY <1>0 DEF RowsHang, Exists
<1>4. ReceivedIsBooked'
  BY <1>0, <1>1, <1>2 DEF ReceivedIsBooked
<1>5. serial => SerialBooks'
  <2> SUFFICES ASSUME serial PROVE SerialBooks'
    OBVIOUS
  <2>1. NothingAdded'
    BY <1>0, <1>1, <1>2 DEF SerialBooks, NothingAdded
  <2> QED
    BY <1>0, <2>1 DEF SerialBooks, InvoicesSound
<1> QED
  BY <1>3, <1>4, <1>5 DEF RowsKept

(* What a step that moves money does to one invoice: its paid amount        *)
(* becomes r.paid, and the status and the funds follow it.                  *)
Restated(i, r) ==
    /\ invoice' = [invoice EXCEPT ![i] = [r EXCEPT !.status = StatusFor(r)]]
    /\ posted' = [posted EXCEPT ![i] = Share(r)]

LEMMA RestatedRow ==
    ASSUME RowsTyped, NEW i \in Invoices, NEW r \in InvoiceRows, Restated(i, r)
    PROVE  /\ invoice' \in [Invoices -> InvoiceRows] /\ posted' \in [Invoices -> Int]
           /\ invoice'[i].paid = r.paid /\ invoice'[i].status \in Open \cup {"paid"}
           /\ \A j \in Invoices \ {i} : invoice'[j] = invoice[j] /\ posted'[j] = posted[j]
           /\ r.total > 0 /\ 0 <= r.paid /\ r.paid + r.credited <= r.total =>
                Sound(invoice'[i]) /\ posted'[i] = Share(invoice'[i])
<1> DEFINE n == [r EXCEPT !.status = StatusFor(r)]
<1>1. n \in InvoiceRows /\ n.status \in Open \cup {"paid"} /\ n.paid = r.paid /\ n.total = r.total
  BY StatusTyped
<1>2. r.total > 0 /\ 0 <= r.paid /\ r.paid + r.credited <= r.total => Sound(n)
  BY SoundStatus
<1>3. Share(r) \in Int /\ Share(n) = Share(r)
  BY <1>1, ShareInt, ShareSame
<1>4. invoice' = [invoice EXCEPT ![i] = n] /\ posted' = [posted EXCEPT ![i] = Share(r)]
  BY DEF Restated
<1>5. invoice \in [Invoices -> InvoiceRows] /\ posted \in [Invoices -> Int]
  BY DEF RowsTyped
<1> HIDE DEF n
<1> QED
  BY <1>1, <1>2, <1>3, <1>4, <1>5

LEMMA StopTyped ==
    ASSUME RowsTyped, NEW S, StopPenalty(S)
    PROVE  penalty' \in [Invoices -> PenaltyRows]
BY DEF RowsTyped, StopPenalty, PenaltyRows

(* Money moves on one invoice and one payment.                              *)
Moves(i, r, p) ==
    /\ Restated(i, r) /\ Exists(i) /\ UNCHANGED <<note, overflow, serial>>
    /\ \A s \in Payments \ {p} : payment'[s] = payment[s]
    /\ Hangs(payment[p])' /\ payment'[p].status \notin {"pending", "none"}
    /\ \A j \in Invoices \ {i} : Gave(payment'[p], j) = Gave(payment[p], j)
    /\ r.paid >= invoice[i].paid + (Gave(payment'[p], i) - Gave(payment[p], i))
    /\ serial => /\ r.paid = invoice[i].paid + (Gave(payment'[p], i) - Gave(payment[p], i)) \/ r.paid = 0
                 /\ r.total > 0 /\ 0 <= r.paid /\ r.paid + r.credited <= r.total
                 /\ credit' >= 0 /\ LinesBooked'

LEMMA MoneyStep ==
    ASSUME BookInv, RowsTyped', NEW i \in Invoices, NEW r \in InvoiceRows, NEW p \in Payments, Moves(i, r, p)
    PROVE  RowsKept
<1>0. /\ RowsTyped /\ RowsHang /\ ReceivedIsBooked /\ (serial => SerialBooks)
      /\ payment \in [Payments -> PaymentRows] /\ payment' \in [Payments -> PaymentRows]
      /\ invoice \in [Invoices -> InvoiceRows] /\ invoice' \in [Invoices -> InvoiceRows]
      /\ overflow \in [Invoices -> Nat]
  BY DEF BookInv, MoneyInv, RowsTyped
<1>m. /\ Restated(i, r) /\ Exists(i) /\ UNCHANGED <<note, overflow, serial>>
      /\ \A s \in Payments \ {p} : payment'[s] = payment[s]
      /\ Hangs(payment[p])' /\ payment'[p].status \notin {"pending", "none"}
      /\ \A j \in Invoices \ {i} : Gave(payment'[p], j) = Gave(payment[p], j)
      /\ serial => /\ r.total > 0 /\ 0 <= r.paid /\ r.paid + r.credited <= r.total
                   /\ credit' >= 0 /\ LinesBooked'
  BY DEF Moves
<1>1. /\ invoice'[i].paid = r.paid /\ invoice'[i].status \in Open \cup {"paid"}
      /\ \A j \in Invoices \ {i} : invoice'[j] = invoice[j] /\ posted'[j] = posted[j]
      /\ serial => Sound(invoice'[i]) /\ posted'[i] = Share(invoice'[i])
  BY <1>0, <1>m, RestatedRow
<1>2. \A j \in Invoices : Exists(j) => Exists(j)'
  BY <1>1 DEF Exists, Open
<1>3. RowsHang'
  <2>1. ASSUME NEW s \in Payments \ {p} PROVE Hangs(payment[s])'
    <3>1. Hangs(payment[s]) /\ payment'[s] = payment[s] /\ payment[s].inv \in Invoices \cup {0}
      BY <1>0, <1>m DEF RowsHang, PaymentRows
    <3> QED
      BY <1>2, <3>1 DEF Hangs, Exists
  <2>2. \A s \in Payments : Hangs(payment[s])'
    BY <1>m, <2>1
  <2>3. (\A n \in Notes : note[n].status # "none" => Exists(note[n].inv))'
    BY <1>0, <1>m, <1>2 DEF RowsHang, Exists
  <2> QED
    BY <2>2, <2>3 DEF RowsHang
<1> DEFINE change == Gave(payment'[p], i) - Gave(payment[p], i)
<1>4. /\ SettledOn(i)' = SettledOn(i) + change /\ change \in Int
      /\ \A j \in Invoices \ {i} : SettledOn(j)' = SettledOn(j)
      /\ \A j \in Invoices : SettledOn(j) \in Nat /\ SettledOn(j)' \in Nat
  <2>0. \A j \in Invoices : /\ SettledOn(j) \in Nat /\ Gave(payment[p], j) <= SettledOn(j)
                            /\ Gave(payment'[p], j) >= 0
    <3>1. payment'[p] \in PaymentRows /\ (payment'[p].status # "none" => payment'[p].excess <= payment'[p].amount)
      BY <1>0, <1>m DEF Hangs
    <3> QED
      BY <1>0, <1>m, <3>1, SettledNat DEF RowsHang, Gave, PaymentRows
  <2>1. \A j \in Invoices : SettledOn(j)' = SettledOn(j) + Gave(payment'[p], j) - Gave(payment[p], j)
    BY <1>0, <1>m, SettledMoves
  <2>2. \A j \in Invoices : Gave(payment'[p], j) \in Int /\ Gave(payment[p], j) \in Int
    BY <1>0, <1>m, GaveInt
  <2>3. \A j \in Invoices : SettledOn(j) \in Nat
    BY <2>0
  <2>4. \A j \in Invoices : SettledOn(j)' \in Nat
    BY <2>0, <2>1, <2>2
  <2> QED
    BY <1>m, <2>1, <2>2, <2>3, <2>4
<1> HIDE DEF change
<1>5. \A j \in Invoices : invoice[j].paid \in Int /\ overflow[j] \in Nat
  BY <1>0 DEF InvoiceRows
<1>6. /\ r.paid \in Int
      /\ r.paid >= invoice[i].paid + change
      /\ serial => r.paid = invoice[i].paid + change \/ r.paid = 0
  BY DEF InvoiceRows, Moves, change
<1>7. ReceivedIsBooked'
  <2> SUFFICES ASSUME NEW j \in Invoices PROVE SettledOn(j)' <= invoice'[j].paid + overflow'[j]
    BY DEF ReceivedIsBooked
  <2>1. SettledOn(j) <= invoice[j].paid + overflow[j]
    BY <1>0 DEF ReceivedIsBooked
  <2>2. CASE j # i
    BY <1>m, <1>1, <1>4, <2>1, <2>2
  <2>3. CASE j = i
    BY <1>m, <1>1, <1>4, <1>5, <1>6, <2>1, <2>3
  <2> QED
    BY <2>2, <2>3
<1>8. ASSUME serial PROVE SerialBooks'
  <2>1. InvoicesSound'
    BY <1>0, <1>m, <1>1, <1>8 DEF SerialBooks, InvoicesSound
  <2>2. NothingAdded'
    <3> SUFFICES ASSUME NEW j \in Invoices PROVE invoice'[j].paid <= SettledOn(j)'
      BY DEF NothingAdded
    <3>1. invoice[j].paid <= SettledOn(j)
      BY <1>0, <1>m, <1>8 DEF SerialBooks, NothingAdded
    <3>2. CASE j # i
      BY <1>1, <1>4, <3>1, <3>2
    <3>3. CASE j = i
      BY <1>1, <1>4, <1>5, <1>6, <1>8, <3>1, <3>3
    <3> QED
      BY <3>2, <3>3
  <2>3. NothingPends'
    <3> SUFFICES ASSUME NEW j \in Invoices, invoice'[j].status = "cancelled", NEW s \in Payments,
                        payment'[s].status = "pending", payment'[s].inv = j
                 PROVE  FALSE
      BY DEF NothingPends, Pending
    <3>1. j # i /\ s # p
      BY <1>m, <1>1 DEF Open
    <3>2. invoice[j].status = "cancelled" /\ s \in Pending(j)
      BY <1>m, <1>1, <3>1 DEF Pending
    <3> QED
      BY <1>0, <1>m, <1>8, <3>2 DEF SerialBooks, NothingPends
  <2> QED
    BY <1>0, <1>m, <1>8, <2>1, <2>2, <2>3 DEF SerialBooks
<1>9. \A s \in Payments : Recorded(s) => Recorded(s)'
  BY <1>m DEF Recorded
<1> QED
  BY <1>0, <1>m, <1>2, <1>3, <1>7, <1>8, <1>9 DEF RowsKept

LEMMA SettleKept ==
    ASSUME BookInv, NEW p \in Payments, NEW pay \in PaymentRows, NEW amount \in Nat, NEW spent \in Nat,
           payment[p].status # "paid", Exists(pay.inv), Settle(p, pay, amount, spent),
           UNCHANGED <<overflow, note, item, edited, serial>>, heard' \subseteq Payments \X Outcomes,
           line' \in [Lines -> LineRows], serial => spent <= credit /\ LinesBooked'
    PROVE  RowsKept
<1> DEFINE i == pay.inv
           a == Applied(i, amount)
           row == [pay EXCEPT !.status = "paid", !.amount = amount, !.excess = amount - a]
           r == [invoice[i] EXCEPT !.paid = @ + a]
<1>0. /\ RowsTyped /\ (serial => SerialBooks) /\ i \in Invoices /\ invoice[i].status # "none"
      /\ payment \in [Payments -> PaymentRows] /\ invoice \in [Invoices -> InvoiceRows] /\ credit \in Int
  BY DEF BookInv, MoneyInv, RowsTyped, Exists
<1>1. /\ invoice[i] \in InvoiceRows /\ invoice[i].paid \in Int /\ invoice[i].total \in Nat /\ invoice[i].credited \in Nat
  BY <1>0 DEF InvoiceRows
<1>2. a \in Nat /\ a <= amount /\ (a <= invoice[i].total - invoice[i].paid - invoice[i].credited \/ a = 0)
  BY <1>1 DEF Applied, Lesser, Greater, Outstanding
<1>3. /\ payment' = [payment EXCEPT ![p] = row] /\ credit' = credit + (amount - a - spent)
      /\ Restated(i, r) /\ StopPenalty({i})
  BY DEF Settle, Book, Restated
<1> HIDE DEF a
<1>4. /\ row \in PaymentRows /\ row.status = "paid" /\ row.inv = i /\ row.amount = amount
      /\ row.excess = amount - a
  <2>1. amount - a \in Nat
    BY <1>2
  <2> QED
    BY <2>1 DEF PaymentRows, PaymentStatus
<1>5. r \in InvoiceRows /\ r.paid = invoice[i].paid + a /\ r.total = invoice[i].total /\ r.credited = invoice[i].credited
  BY <1>1, <1>2 DEF InvoiceRows
<1> HIDE DEF row, r
<1>6. /\ payment' \in [Payments -> PaymentRows] /\ payment'[p] = row
      /\ \A s \in Payments \ {p} : payment'[s] = payment[s]
  BY <1>0, <1>3, <1>4
<1>7. /\ \A j : Gave(payment[p], j) = 0
      /\ \A j : Gave(payment'[p], j) = IF j = i THEN a ELSE 0
  BY <1>2, <1>4, <1>6 DEF Gave
<1>8. invoice' \in [Invoices -> InvoiceRows] /\ posted' \in [Invoices -> Int] /\ invoice'[i].status \in Open \cup {"paid"}
  BY <1>0, <1>3, <1>5, RestatedRow
<1>9. penalty' \in [Invoices -> PenaltyRows]
  BY <1>0, <1>3, StopTyped
<1>10. RowsTyped'
  BY <1>0, <1>2, <1>3, <1>6, <1>8, <1>9 DEF RowsTyped
<1>11. Hangs(payment[p])' /\ payment'[p].status \notin {"pending", "none"}
  BY <1>0, <1>2, <1>4, <1>6, <1>8 DEF Hangs, Exists, Open
<1>12. ASSUME serial
       PROVE  r.total > 0 /\ 0 <= r.paid /\ r.paid + r.credited <= r.total /\ credit' >= 0
  <2>1. Sound(invoice[i]) /\ credit >= 0
    BY <1>0, <1>12 DEF SerialBooks, InvoicesSound
  <2>2. invoice[i].total > 0 /\ 0 <= invoice[i].paid /\ invoice[i].paid + invoice[i].credited <= invoice[i].total
    BY <1>0, <2>1 DEF Sound
  <2>3. credit' >= 0
    BY <1>0, <1>2, <1>3, <1>12, <2>1
  <2> QED
    BY <1>1, <1>2, <1>5, <2>2, <2>3
<1>13. r.paid = invoice[i].paid + (Gave(payment'[p], i) - Gave(payment[p], i))
  BY <1>1, <1>2, <1>5, <1>7
<1>14. Exists(i) /\ (\A j \in Invoices : overflow'[j] = overflow[j]) /\ r.paid \in Int
  BY <1>1, <1>2, <1>5
<1> HIDE DEF i
<1>15. Moves(i, r, p)
  BY <1>3, <1>6, <1>7, <1>11, <1>12, <1>13, <1>14 DEF Moves
<1> QED
  BY <1>0, <1>5, <1>10, <1>15, MoneyStep

LEMMA RefundKept ==
    ASSUME BookInv, NEW p \in Payments, NEW toCredit \in BOOLEAN, NEW balance \in Int, Refund(p, toCredit, balance),
           UNCHANGED <<overflow, note, penalty, item, edited, line, serial>>, heard' \subseteq Payments \X Outcomes,
           serial => balance <= credit
    PROVE  RowsKept
<1> DEFINE i == payment[p].inv
           e == payment[p].excess
           a == Lesser(payment[p].amount - e, invoice[i].paid)
           d == IF toCredit THEN a ELSE -e
           row == [payment[p] EXCEPT !.status = "refunded"]
           r == [invoice[i] EXCEPT !.paid = @ + (-a)]
<1>0. /\ RowsTyped /\ (serial => SerialBooks) /\ payment[p].status = "paid"
      /\ payment \in [Payments -> PaymentRows] /\ invoice \in [Invoices -> InvoiceRows] /\ credit \in Int
  BY DEF BookInv, MoneyInv, RowsTyped, Refund
<1>1. Exists(i) /\ i \in Invoices /\ e \in Nat /\ payment[p].amount \in Nat /\ e <= payment[p].amount
  BY <1>0 DEF BookInv, MoneyInv, RowsHang, Hangs, Exists, PaymentRows
<1>2. /\ invoice[i] \in InvoiceRows /\ invoice[i].paid \in Int /\ invoice[i].total \in Nat /\ invoice[i].credited \in Nat
  BY <1>0, <1>1 DEF InvoiceRows
<1>3. /\ a \in Int /\ a <= payment[p].amount - e /\ a <= invoice[i].paid
      /\ a = payment[p].amount - e \/ a = invoice[i].paid
  BY <1>1, <1>2 DEF Lesser
<1>4. /\ payment' = [payment EXCEPT ![p] = row] /\ credit' = credit + d
      /\ Restated(i, r) /\ (toCredit \/ balance >= e)
  BY <1>0 DEF Refund, Book, Restated
<1> HIDE DEF a
<1>5. row \in PaymentRows /\ row.status = "refunded" /\ row.inv = i /\ row.amount = payment[p].amount /\ row.excess = e
  BY <1>0 DEF PaymentRows, PaymentStatus
<1>6. r \in InvoiceRows /\ r.paid = invoice[i].paid - a /\ r.total = invoice[i].total /\ r.credited = invoice[i].credited
  BY <1>2, <1>3 DEF InvoiceRows
<1> HIDE DEF row, r
<1>7. /\ payment' \in [Payments -> PaymentRows] /\ payment'[p] = row
      /\ \A s \in Payments \ {p} : payment'[s] = payment[s]
  BY <1>0, <1>4, <1>5
<1>8. /\ \A j : Gave(payment[p], j) = IF j = i THEN payment[p].amount - e ELSE 0
      /\ \A j : Gave(payment'[p], j) = 0
  BY <1>0, <1>5, <1>7 DEF Gave
<1>9. invoice' \in [Invoices -> InvoiceRows] /\ posted' \in [Invoices -> Int] /\ invoice'[i].status \in Open \cup {"paid"}
  BY <1>0, <1>1, <1>4, <1>6, RestatedRow
<1>10. d \in Int
  BY <1>1, <1>3
<1>11. RowsTyped'
  BY <1>0, <1>4, <1>7, <1>9, <1>10 DEF RowsTyped
<1>12. Hangs(payment[p])' /\ payment'[p].status \notin {"pending", "none"}
  BY <1>1, <1>5, <1>7, <1>9 DEF Hangs, Exists, Open
<1>13. ASSUME serial
       PROVE  /\ r.total > 0 /\ 0 <= r.paid /\ r.paid + r.credited <= r.total
              /\ credit' >= 0 /\ LinesBooked'
  <2>1. Sound(invoice[i]) /\ credit >= 0 /\ LinesBooked
    BY <1>0, <1>1, <1>13 DEF SerialBooks, InvoicesSound
  <2>2. invoice[i].total > 0 /\ 0 <= invoice[i].paid /\ invoice[i].paid + invoice[i].credited <= invoice[i].total
    BY <1>1, <2>1 DEF Sound, Exists
  <2>3. a >= 0
    BY <1>1, <1>2, <1>3, <2>2
  <2>4. d >= -credit
    BY <1>0, <1>1, <1>3, <1>4, <1>13, <2>1, <2>3
  <2>5. credit' >= 0
    BY <1>0, <1>4, <1>10, <2>4
  <2> QED
    BY <1>2, <1>3, <1>6, <2>1, <2>2, <2>3, <2>5 DEF LinesBooked
<1>14. LET change == Gave(payment'[p], i) - Gave(payment[p], i)
       IN r.paid >= invoice[i].paid + change /\ (r.paid = invoice[i].paid + change \/ r.paid = 0)
  BY <1>1, <1>2, <1>3, <1>6, <1>8
<1>15. \A j \in Invoices : overflow'[j] = overflow[j]
  OBVIOUS
<1> HIDE DEF i, d
<1>16. Moves(i, r, p)
  BY <1>1, <1>4, <1>7, <1>8, <1>12, <1>13, <1>14, <1>15 DEF Moves
<1> QED
  BY <1>1, <1>6, <1>11, <1>16, MoneyStep

Correction(v, c, d) == [v EXCEPT !.credited = c, !.paid = @ - d]

LEMMA Corrected ==
    ASSUME NEW v \in InvoiceRows, NEW c \in Nat, NEW d \in Nat
    PROVE  /\ Correction(v, c, d) \in InvoiceRows /\ Correction(v, c, d).paid = v.paid - d
           /\ Correction(v, c, d).total = v.total /\ Correction(v, c, d).credited = c
<1> DEFINE r == Correction(v, c, d)
           u == [v EXCEPT !.credited = c]
<1>1. u \in InvoiceRows /\ u.paid = v.paid /\ u.total = v.total /\ u.credited = c /\ v.paid \in Int
  BY DEF InvoiceRows
<1>2. r = [u EXCEPT !.paid = v.paid - d]
  BY DEF InvoiceRows, Correction
<1> HIDE DEF u, r
<1>3. r \in InvoiceRows /\ r.paid = v.paid - d /\ r.total = v.total /\ r.credited = c
  BY <1>1, <1>2 DEF InvoiceRows
<1> QED
  BY <1>3 DEF r

(* A correction moves o of what was paid on invoice i into the balance.     *)
Corrects(n, i, r, o) ==
    /\ Restated(i, r) /\ Exists(i) /\ o \in Nat /\ note[n].status = "pending"
    /\ r.paid = invoice[i].paid - o /\ r.total = invoice[i].total /\ r.paid + r.credited <= r.total
    /\ o = 0 \/ r.paid + r.credited = r.total
    /\ r.credited \in Nat /\ r.credited <= r.total
    /\ credit' = credit + o /\ overflow' = [overflow EXCEPT ![i] = @ + o]
    /\ StopPenalty({i}) /\ note' = [note EXCEPT ![n].status = "approved"]
    /\ UNCHANGED <<payment, item, edited, line, heard, serial>>

LEMMA CorrectionStep ==
    ASSUME BookInv, NEW n \in Notes, NEW i \in Invoices, NEW r \in InvoiceRows, NEW o \in Nat, Corrects(n, i, r, o)
    PROVE  RowsKept
<1>0. /\ RowsTyped /\ RowsHang /\ ReceivedIsBooked /\ (serial => SerialBooks)
      /\ payment \in [Payments -> PaymentRows] /\ invoice \in [Invoices -> InvoiceRows] /\ credit \in Int
      /\ overflow \in [Invoices -> Nat] /\ note \in [Notes -> NoteRows]
  BY DEF BookInv, MoneyInv, RowsTyped
<1>2. invoice[i].paid \in Int /\ invoice[i].total \in Nat /\ r.paid \in Int
  BY <1>0 DEF InvoiceRows
<1>4. /\ Restated(i, r) /\ Exists(i) /\ note[n].status = "pending"
      /\ r.paid = invoice[i].paid - o /\ r.total = invoice[i].total /\ r.paid + r.credited <= r.total
      /\ o = 0 \/ r.paid + r.credited = r.total
      /\ r.credited \in Nat /\ r.credited <= r.total
      /\ credit' = credit + o /\ overflow' = [overflow EXCEPT ![i] = @ + o]
      /\ StopPenalty({i}) /\ note' = [note EXCEPT ![n].status = "approved"]
      /\ UNCHANGED <<payment, item, edited, line, heard, serial>>
  BY DEF Corrects
<1>6. /\ invoice' \in [Invoices -> InvoiceRows] /\ posted' \in [Invoices -> Int]
      /\ invoice'[i].paid = invoice[i].paid - o /\ invoice'[i].status \in Open \cup {"paid"}
      /\ \A j \in Invoices \ {i} : invoice'[j] = invoice[j] /\ posted'[j] = posted[j]
      /\ r.total > 0 /\ 0 <= r.paid /\ r.paid + r.credited <= r.total =>
           Sound(invoice'[i]) /\ posted'[i] = Share(invoice'[i])
  BY <1>0, <1>4, RestatedRow
<1>7. note' \in [Notes -> NoteRows] /\ overflow' \in [Invoices -> Nat] /\ penalty' \in [Invoices -> PenaltyRows]
  BY <1>0, <1>4, StopTyped DEF NoteRows
<1>8. RowsTyped'
  BY <1>0, <1>4, <1>6, <1>7 DEF RowsTyped
<1>9. \A j \in Invoices : Exists(j) => Exists(j)'
  BY <1>6 DEF Exists, Open
<1>10. RowsHang'
  <2>1. \A m \in Notes : note'[m].inv = note[m].inv /\ (note'[m].status # "none" => note[m].status # "none")
    BY <1>0, <1>4 DEF NoteRows
  <2>2. (\A m \in Notes : note[m].status # "none" => Exists(note[m].inv))'
    BY <1>0, <1>9, <2>1 DEF RowsHang, Exists
  <2>3. \A p \in Payments : Hangs(payment[p])'
    BY <1>0, <1>4, <1>9 DEF RowsHang, Hangs, Exists
  <2> QED
    BY <2>2, <2>3 DEF RowsHang
<1>11. \A j \in Invoices : SettledOn(j)' = SettledOn(j) /\ SettledOn(j) \in Nat
  <2>1. payment' \in [Payments -> PaymentRows] /\ payment' = payment
    BY <1>0, <1>4
  <2> QED
    BY <1>0, <2>1, SettledDrops, SettledNat DEF RowsHang
<1>12. \A j \in Invoices : /\ invoice[j].paid \in Int /\ overflow[j] \in Nat
                           /\ j = i => invoice'[j].paid = invoice[j].paid - o /\ overflow'[j] = overflow[j] + o
                           /\ j # i => invoice'[j].paid = invoice[j].paid /\ overflow'[j] = overflow[j]
  BY <1>0, <1>4, <1>6 DEF InvoiceRows
<1>13. ReceivedIsBooked'
  <2> SUFFICES ASSUME NEW j \in Invoices PROVE SettledOn(j)' <= invoice'[j].paid + overflow'[j]
    BY DEF ReceivedIsBooked
  <2>1. SettledOn(j) <= invoice[j].paid + overflow[j]
    BY <1>0 DEF ReceivedIsBooked
  <2>2. invoice'[j].paid + overflow'[j] = invoice[j].paid + overflow[j]
    <3>1. CASE j = i
      <4>1. o \in Int /\ invoice[j].paid \in Int /\ overflow[j] \in Int
        BY <1>12
      <4>2. invoice'[j].paid = invoice[j].paid - o /\ overflow'[j] = overflow[j] + o
        BY <1>12, <3>1
      <4> QED
        BY <4>1, <4>2
    <3> QED
      BY <1>12, <3>1
  <2> QED
    BY <1>11, <2>1, <2>2
<1>14. ASSUME serial PROVE SerialBooks'
  <2>1. InvoicesSound /\ NothingPends /\ NothingAdded /\ credit >= 0 /\ LinesBooked
    BY <1>0, <1>14 DEF SerialBooks
  <2>2. invoice[i].total > 0 /\ 0 <= invoice[i].paid
    BY <1>4, <2>1 DEF InvoicesSound, Sound, Exists
  <2>3. r.total > 0 /\ 0 <= r.paid /\ r.paid + r.credited <= r.total
    BY <1>2, <1>4, <2>2
  <2>4. InvoicesSound'
    BY <1>6, <2>1, <2>3 DEF InvoicesSound
  <2>5. NothingAdded'
    <3> SUFFICES ASSUME NEW j \in Invoices PROVE invoice'[j].paid <= SettledOn(j)'
      BY DEF NothingAdded
    <3>1. invoice[j].paid <= SettledOn(j)
      BY <2>1 DEF NothingAdded
    <3>2. invoice'[j].paid <= invoice[j].paid /\ invoice'[j].paid \in Int /\ invoice[j].paid \in Int
      BY <1>12
    <3> QED
      BY <1>11, <3>1, <3>2
  <2>6. NothingPends'
    BY <1>4, <1>6, <2>1 DEF NothingPends, Pending, Open
  <2> QED
    BY <1>0, <1>4, <2>1, <2>4, <2>5, <2>6 DEF SerialBooks, LinesBooked
<1> QED
  BY <1>4, <1>8, <1>9, <1>10, <1>13, <1>14 DEF RowsKept, Recorded

LEMMA NoteKept ==
    ASSUME BookInv, NEW n \in Notes, NoteApprove(n)
    PROVE  RowsKept
<1> DEFINE i == note[n].inv
           credited == invoice[i].credited + note[n].amount
           o == Greater(0, invoice[i].paid + credited - invoice[i].total)
           r == [invoice[i] EXCEPT !.credited = credited, !.paid = @ - o]
<1>0. /\ RowsTyped /\ RowsHang /\ note[n].status = "pending"
      /\ invoice \in [Invoices -> InvoiceRows] /\ note \in [Notes -> NoteRows]
  BY DEF BookInv, MoneyInv, RowsTyped, NoteApprove
<1>1. Exists(i) /\ i \in Invoices /\ note[n].amount \in Nat
  BY <1>0 DEF RowsHang, Exists, NoteRows
<1>2. /\ invoice[i] \in InvoiceRows /\ invoice[i].paid \in Int /\ invoice[i].total \in Nat /\ invoice[i].credited \in Nat
      /\ credited \in Nat
  BY <1>0, <1>1 DEF InvoiceRows
<1>3. /\ o \in Nat /\ (o = 0 \/ o = invoice[i].paid + credited - invoice[i].total)
      /\ invoice[i].paid - o + credited <= invoice[i].total
  BY <1>2 DEF Greater
<1>4. /\ credit' = credit + o /\ overflow' = [overflow EXCEPT ![i] = @ + o]
      /\ Restated(i, r) /\ StopPenalty({i}) /\ note' = [note EXCEPT ![n].status = "approved"]
      /\ credited <= invoice[i].total
      /\ UNCHANGED <<payment, item, edited, line, heard, serial>>
  BY DEF NoteApprove, Restated
<1>5. r \in InvoiceRows /\ r.paid = invoice[i].paid - o /\ r.total = invoice[i].total /\ r.credited = credited
  <2>1. invoice[i] \in InvoiceRows /\ credited \in Nat /\ o \in Nat
    BY <1>2, <1>3
  <2>2. r = Correction(invoice[i], credited, o)
    BY DEF Correction
  <2> HIDE DEF o, credited, i, r
  <2>3. PICK v, c, d : v = invoice[i] /\ c = credited /\ d = o
    OBVIOUS
  <2>4. v \in InvoiceRows /\ c \in Nat /\ d \in Nat
    BY <2>1, <2>3
  <2>5. /\ Correction(v, c, d) \in InvoiceRows /\ Correction(v, c, d).paid = v.paid - d
        /\ Correction(v, c, d).total = v.total /\ Correction(v, c, d).credited = c
    BY ONLY <2>4, Corrected
  <2>6. r = Correction(v, c, d)
    BY <2>2, <2>3
  <2> QED
    BY <2>3, <2>5, <2>6
<1> HIDE DEF r
<1>6. Corrects(n, i, r, o)
  <2>1. /\ r.paid + r.credited <= r.total /\ (o = 0 \/ r.paid + r.credited = r.total)
        /\ r.credited \in Nat /\ r.credited <= r.total
    <3> HIDE DEF o, credited, i
    <3> QED
      BY <1>2, <1>3, <1>4, <1>5
  <2> HIDE DEF o, credited, i
  <2> QED
    BY <1>0, <1>1, <1>3, <1>4, <1>5, <2>1 DEF Corrects
<1> QED
  BY <1>1, <1>3, <1>5, <1>6, CorrectionStep

-----------------------------------------------------------------------------
(* Money received: every allocated invoice gets a payment of its own.       *)

Brings(i, a) == [NewPayment(i, a, "manual") EXCEPT !.status = "paid"]

LEMMA BroughtIs ==
    ASSUME NEW i \in Invoices, NEW a \in Nat
    PROVE  /\ Brings(i, a) \in PaymentRows /\ Brings(i, a).status = "paid"
           /\ Brings(i, a).inv = i /\ Brings(i, a).excess <= Brings(i, a).amount
           /\ \A j : Gave(Brings(i, a), j) = IF j = i THEN a ELSE 0
<1> DEFINE m == NewPayment(i, a, "manual")
           r == [m EXCEPT !.status = "paid"]
<1>1. /\ m \in PaymentRows /\ m.inv = i /\ m.amount = a /\ m.excess = 0
  BY DEF NewPayment, PaymentRows, PaymentStatus, Methods
<1> HIDE DEF m
<1>2. r \in PaymentRows /\ r.status = "paid" /\ r.inv = i /\ r.amount = a /\ r.excess = 0
  BY <1>1 DEF PaymentRows, PaymentStatus
<1>3. Brings(i, a) = r
  BY DEF Brings, m
<1> HIDE DEF r
<1>4. \A j : Gave(r, j) = IF j = i THEN a ELSE 0
  BY <1>2 DEF Gave
<1> QED
  BY <1>2, <1>3, <1>4

(* An allocation f of which the payments g are recorded.                    *)
Allots(f, g) ==
    /\ DOMAIN f \subseteq Invoices /\ g \in [DOMAIN f -> Fresh]
    /\ \A i, j \in DOMAIN f : g[i] = g[j] => i = j
    /\ \A i \in DOMAIN f : Payable(i) /\ f[i] \in Nat /\ f[i] <= Outstanding(i)
    /\ \A p \in Payments :
         /\ \A i \in DOMAIN f : g[i] = p => payment'[p] = Brings(i, f[i])
         /\ (\A i \in DOMAIN f : g[i] # p) => payment'[p] = payment[p]
    /\ \A i \in Invoices :
         /\ i \in DOMAIN f => LET r == [invoice[i] EXCEPT !.paid = @ + f[i]]
                             IN invoice'[i] = [r EXCEPT !.status = StatusFor(r)] /\ posted'[i] = Share(r)
         /\ i \notin DOMAIN f => invoice'[i] = invoice[i] /\ posted'[i] = posted[i]
    /\ payment' \in [Payments -> PaymentRows] /\ invoice' \in [Invoices -> InvoiceRows]

LEMMA AllotSettles ==
    ASSUME RowsTyped, RowsHang, NEW f, NEW g, Allots(f, g), NEW j \in Invoices
    PROVE  /\ SettledOn(j) \in Nat
           /\ SettledOn(j)' = SettledOn(j) + IF j \in DOMAIN f THEN f[j] ELSE 0
<1>0. /\ payment \in [Payments -> PaymentRows] /\ payment' \in [Payments -> PaymentRows]
      /\ g \in [DOMAIN f -> Fresh] /\ DOMAIN f \subseteq Invoices /\ Fresh \subseteq Payments
      /\ \A i \in DOMAIN f : f[i] \in Nat
  BY DEF RowsTyped, Allots, Fresh
<1>1. \A i \in DOMAIN f : \A k : /\ Gave(payment[g[i]], k) = 0
                                 /\ Gave(payment'[g[i]], k) = IF k = i THEN f[i] ELSE 0
  <2> SUFFICES ASSUME NEW i \in DOMAIN f, NEW k
               PROVE  Gave(payment[g[i]], k) = 0 /\ Gave(payment'[g[i]], k) = IF k = i THEN f[i] ELSE 0
    OBVIOUS
  <2>1. g[i] \in Payments /\ payment[g[i]].status = "none" /\ payment'[g[i]] = Brings(i, f[i])
    <3>1. g[i] \in Fresh
      BY <1>0
    <3>2. \A p \in Payments : g[i] = p => payment'[p] = Brings(i, f[i])
      BY DEF Allots
    <3> QED
      BY <3>1, <3>2 DEF Fresh
  <2>2. i \in Invoices /\ f[i] \in Nat
    BY <1>0
  <2>3. \A e : Gave(Brings(i, f[i]), e) = IF e = i THEN f[i] ELSE 0
    BY <2>2, BroughtIs
  <2>4. Gave(payment'[g[i]], k) = IF k = i THEN f[i] ELSE 0
    BY <2>1, <2>3
  <2>5. Gave(payment[g[i]], k) = 0
    BY <2>1 DEF Gave
  <2> QED
    BY <2>4, <2>5
<1>2. ASSUME NEW p \in Payments, j \in DOMAIN f => p # g[j]
      PROVE  Gave(payment'[p], j) = Gave(payment[p], j)
  <2>1. CASE \E i \in DOMAIN f : g[i] = p
    BY <1>1, <1>2, <2>1
  <2>2. CASE ~ \E i \in DOMAIN f : g[i] = p
    BY <2>2 DEF Allots
  <2> QED
    BY <2>1, <2>2
<1>3. SettledOn(j) \in Nat
  BY <1>0, SettledNat DEF RowsHang
<1>4. CASE j \in DOMAIN f
  <2>1. g[j] \in Payments /\ \A p \in Payments \ {g[j]} : Gave(payment'[p], j) = Gave(payment[p], j)
    BY <1>0, <1>2, <1>4
  <2>2. SettledOn(j)' = SettledOn(j) + Gave(payment'[g[j]], j) - Gave(payment[g[j]], j)
    BY <1>0, <2>1, SettledMoves
  <2> QED
    BY <1>0, <1>1, <1>3, <1>4, <2>2
<1>5. CASE j \notin DOMAIN f
  <2>1. \A p \in Payments : Gave(payment'[p], j) = Gave(payment[p], j)
    BY <1>2, <1>5
  <2>2. SettledOn(j)' = SettledOn(j)
    BY <1>0, <2>1, SettledDrops
  <2> QED
    BY <1>3, <1>5, <2>2
<1> QED
  BY <1>3, <1>4, <1>5

LEMMA AllotStep ==
    ASSUME BookInv, NEW f, NEW g, Allots(f, g), RowsTyped', UNCHANGED <<overflow, note, serial>>,
           serial => credit' >= 0 /\ LinesBooked'
    PROVE  RowsKept
<1>0. /\ RowsTyped /\ RowsHang /\ ReceivedIsBooked /\ (serial => SerialBooks)
      /\ payment \in [Payments -> PaymentRows] /\ invoice \in [Invoices -> InvoiceRows]
      /\ overflow \in [Invoices -> Nat] /\ DOMAIN f \subseteq Invoices
  BY DEF BookInv, MoneyInv, RowsTyped, Allots
<1>1. ASSUME NEW i \in DOMAIN f
      PROVE  /\ i \in Invoices /\ f[i] \in Nat /\ Payable(i) /\ f[i] <= Outstanding(i)
             /\ invoice'[i].paid = invoice[i].paid + f[i] /\ invoice'[i].status \in Open \cup {"paid"}
             /\ serial => Sound(invoice'[i]) /\ posted'[i] = Share(invoice'[i])
  <2> DEFINE r == [invoice[i] EXCEPT !.paid = @ + f[i]]
             n == [r EXCEPT !.status = StatusFor(r)]
  <2>1. /\ i \in Invoices /\ f[i] \in Nat /\ Payable(i) /\ f[i] <= Outstanding(i)
        /\ invoice'[i] = n /\ posted'[i] = Share(r)
    BY <1>0 DEF Allots
  <2>2. invoice[i].paid \in Int /\ invoice[i].total \in Nat /\ invoice[i].credited \in Nat
    BY <1>0, <2>1 DEF InvoiceRows
  <2>3. r \in InvoiceRows /\ r.paid = invoice[i].paid + f[i] /\ r.total = invoice[i].total /\ r.credited = invoice[i].credited
    BY <1>0, <2>1, <2>2 DEF InvoiceRows
  <2> HIDE DEF r
  <2>4. n.status \in Open \cup {"paid"} /\ n.paid = r.paid /\ n.total = r.total
    BY <2>3, StatusTyped
  <2>5. Share(n) = Share(r)
    BY <2>4, ShareSame
  <2>6. ASSUME serial PROVE Sound(n)
    <3>1. Sound(invoice[i]) /\ invoice[i].status # "none"
      BY <1>0, <2>1, <2>6 DEF SerialBooks, InvoicesSound, Payable, Open
    <3>2. r.total > 0 /\ 0 <= r.paid /\ r.paid + r.credited <= r.total
      BY <2>1, <2>2, <2>3, <3>1 DEF Sound, Outstanding
    <3> QED
      BY <2>3, <3>2, SoundStatus
  <2> HIDE DEF n
  <2> QED
    BY <2>1, <2>3, <2>4, <2>5, <2>6
<1>2. \A i \in Invoices \ DOMAIN f : invoice'[i] = invoice[i] /\ posted'[i] = posted[i]
  BY DEF Allots
<1>3. \A i \in Invoices : Exists(i) => Exists(i)'
  BY <1>1, <1>2 DEF Exists, Open
<1>4. ASSUME NEW p \in Payments
      PROVE  Hangs(payment[p])' /\ (payment'[p] = payment[p] \/ payment'[p].status = "paid")
  <2>1. CASE \E i \in DOMAIN f : g[i] = p
    <3> PICK i \in DOMAIN f : g[i] = p
      BY <2>1
    <3>1. payment'[p] = Brings(i, f[i]) /\ i \in Invoices /\ f[i] \in Nat
      BY <1>1 DEF Allots
    <3>2. payment'[p].status = "paid" /\ payment'[p].inv = i /\ payment'[p].excess <= payment'[p].amount
      BY <3>1, BroughtIs
    <3>3. Exists(i)'
      BY <1>1, <3>1 DEF Exists, Open
    <3> QED
      BY <3>2, <3>3 DEF Hangs
  <2>2. CASE ~ \E i \in DOMAIN f : g[i] = p
    <3>1. payment'[p] = payment[p]
      BY <2>2 DEF Allots
    <3>2. Hangs(payment[p]) /\ payment[p].inv \in Invoices \cup {0}
      BY <1>0 DEF RowsHang, PaymentRows
    <3> QED
      BY <1>3, <3>1, <3>2 DEF Hangs, Exists
  <2> QED
    BY <2>1, <2>2
<1>5. RowsHang'
  <2>1. (\A n \in Notes : note[n].status # "none" => Exists(note[n].inv))'
    BY <1>0, <1>3 DEF RowsHang, Exists
  <2> QED
    BY <1>4, <2>1 DEF RowsHang
<1>6. ASSUME NEW j \in Invoices
      PROVE  /\ SettledOn(j)' - SettledOn(j) = invoice'[j].paid - invoice[j].paid
             /\ SettledOn(j) \in Nat /\ SettledOn(j)' \in Int /\ invoice[j].paid \in Int /\ invoice'[j].paid \in Int
             /\ overflow[j] \in Int
  <2>1. SettledOn(j) \in Nat /\ SettledOn(j)' = SettledOn(j) + IF j \in DOMAIN f THEN f[j] ELSE 0
    BY <1>0, AllotSettles
  <2>2. invoice[j].paid \in Int /\ overflow[j] \in Int
    BY <1>0 DEF InvoiceRows
  <2>3. CASE j \in DOMAIN f
    BY <1>1, <2>1, <2>2, <2>3
  <2>4. CASE j \notin DOMAIN f
    BY <1>2, <2>1, <2>2, <2>4
  <2> QED
    BY <2>3, <2>4
<1>7. ReceivedIsBooked'
  <2> SUFFICES ASSUME NEW j \in Invoices PROVE SettledOn(j)' <= invoice'[j].paid + overflow'[j]
    BY DEF ReceivedIsBooked
  <2>1. SettledOn(j) <= invoice[j].paid + overflow[j] /\ overflow'[j] = overflow[j]
    BY <1>0 DEF ReceivedIsBooked
  <2> QED
    BY <1>6, <2>1
<1>8. ASSUME serial PROVE SerialBooks'
  <2>1. InvoicesSound /\ NothingPends /\ NothingAdded
    BY <1>0, <1>8 DEF SerialBooks
  <2>2. InvoicesSound'
    BY <1>1, <1>2, <1>8, <2>1 DEF InvoicesSound
  <2>3. NothingAdded'
    <3> SUFFICES ASSUME NEW j \in Invoices PROVE invoice'[j].paid <= SettledOn(j)'
      BY DEF NothingAdded
    <3>1. invoice[j].paid <= SettledOn(j)
      BY <2>1 DEF NothingAdded
    <3> QED
      BY <1>6, <3>1
  <2>4. NothingPends'
    <3> SUFFICES ASSUME NEW j \in Invoices, invoice'[j].status = "cancelled", NEW s \in Payments,
                        payment'[s].status = "pending", payment'[s].inv = j
                 PROVE  FALSE
      BY DEF NothingPends, Pending
    <3>1. payment'[s] = payment[s] /\ invoice'[j] = invoice[j]
      BY <1>1, <1>2, <1>4 DEF Open
    <3> QED
      BY <2>1, <3>1 DEF NothingPends, Pending
  <2> QED
    BY <1>8, <2>2, <2>3, <2>4 DEF SerialBooks
<1> QED
  BY <1>3, <1>4, <1>5, <1>7, <1>8 DEF RowsKept, Recorded

LEMMA AscendingInjects ==
    ASSUME NEW D \in SUBSET Invoices, NEW g \in [D -> Fresh], Ascending(g)
    PROVE  \A i, j \in D : g[i] = g[j] => i = j
<1>1. D \subseteq Nat /\ \A i \in D : g[i] \in Nat
  BY Finite DEF Fresh
<1>2. \A i, j \in D : i < j => g[i] < g[j]
  BY DEF Ascending
<1> QED
  BY <1>1, <1>2

(* What ReceiveTx does, for the payments g.                                 *)
Receives(f, g) ==
    LET Paid(i) == [invoice[i] EXCEPT !.paid = @ + f[i]]
    IN /\ invoice' = [i \in Invoices |-> IF i \in DOMAIN f
                        THEN [Paid(i) EXCEPT !.status = StatusFor(Paid(i))] ELSE invoice[i]]
       /\ posted' = [i \in Invoices |-> IF i \in DOMAIN f THEN Share(Paid(i)) ELSE posted[i]]
       /\ payment' = [p \in Payments |->
            IF \E i \in DOMAIN f : g[i] = p
            THEN LET i == CHOOSE i \in DOMAIN f : g[i] = p
                 IN [NewPayment(i, f[i], "manual") EXCEPT !.status = "paid"]
            ELSE payment[p]]

LEMMA ReceivesAllots ==
    ASSUME RowsTyped, NEW f, NEW g \in [DOMAIN f -> Fresh], Receives(f, g), Ascending(g), DOMAIN f \subseteq Invoices,
           \A i \in DOMAIN f : Payable(i) /\ f[i] \in Nat /\ f[i] <= Outstanding(i)
    PROVE  Allots(f, g) /\ posted' \in [Invoices -> Int]
<1> DEFINE Paid(i) == [invoice[i] EXCEPT !.paid = @ + f[i]]
<1>0. /\ payment \in [Payments -> PaymentRows] /\ invoice \in [Invoices -> InvoiceRows] /\ posted \in [Invoices -> Int]
  BY DEF RowsTyped
<1>1. \A i, j \in DOMAIN f : g[i] = g[j] => i = j
  BY AscendingInjects
<1>2. \A p \in Payments :
         /\ \A i \in DOMAIN f : g[i] = p => payment'[p] = Brings(i, f[i])
         /\ (\A i \in DOMAIN f : g[i] # p) => payment'[p] = payment[p]
  <2> TAKE p \in Payments
  <2> DEFINE c == CHOOSE i \in DOMAIN f : g[i] = p
  <2>1. payment'[p] = IF \E i \in DOMAIN f : g[i] = p THEN Brings(c, f[c]) ELSE payment[p]
    BY DEF Receives, Brings
  <2>2. ASSUME NEW i \in DOMAIN f, g[i] = p PROVE c = i
    BY <1>1, <2>2
  <2> HIDE DEF c
  <2> QED
    BY <2>1, <2>2
<1>3. DOMAIN payment' = Payments /\ payment' = [p \in Payments |-> payment'[p]]
  BY DEF Receives
<1>4. \A p \in Payments : payment'[p] \in PaymentRows
  BY <1>0, <1>2, BroughtIs
<1>5. payment' \in [Payments -> PaymentRows]
  BY <1>3, <1>4
<1>6. /\ invoice' = [i \in Invoices |-> IF i \in DOMAIN f
                        THEN [Paid(i) EXCEPT !.status = StatusFor(Paid(i))] ELSE invoice[i]]
      /\ posted' = [i \in Invoices |-> IF i \in DOMAIN f THEN Share(Paid(i)) ELSE posted[i]]
  BY DEF Receives
<1>7. ASSUME NEW i \in DOMAIN f
      PROVE  [Paid(i) EXCEPT !.status = StatusFor(Paid(i))] \in InvoiceRows /\ Share(Paid(i)) \in Int
  <2>1. invoice[i] \in InvoiceRows /\ f[i] \in Nat
    BY <1>0
  <2>2. Paid(i) \in InvoiceRows
    BY <2>1 DEF InvoiceRows
  <2> HIDE DEF Paid
  <2> QED
    BY <2>2, StatusTyped, ShareInt
<1>8. invoice' \in [Invoices -> InvoiceRows] /\ posted' \in [Invoices -> Int]
  <2> HIDE DEF Paid
  <2> QED
    BY <1>0, <1>6, <1>7
<1>9. \A i \in Invoices :
         /\ i \in DOMAIN f => invoice'[i] = [Paid(i) EXCEPT !.status = StatusFor(Paid(i))] /\ posted'[i] = Share(Paid(i))
         /\ i \notin DOMAIN f => invoice'[i] = invoice[i] /\ posted'[i] = posted[i]
  <2> HIDE DEF Paid
  <2> QED
    BY <1>6
<1> QED
  BY <1>1, <1>2, <1>5, <1>8, <1>9 DEF Allots

LEMMA ReceiveKept ==
    ASSUME BookInv, NEW amount \in Nat, NEW f \in Allocations(amount), ReceiveTx(amount, f),
           UNCHANGED <<overflow, note, item, edited, heard, serial>>, line' \in [Lines -> LineRows], serial => LinesBooked'
    PROVE  RowsKept
<1>0. /\ RowsTyped /\ (serial => SerialBooks) /\ credit \in Int /\ StopPenalty(DOMAIN f)
      /\ credit' = credit + amount - SumFunction(f)
  BY DEF BookInv, MoneyInv, RowsTyped, ReceiveTx
<1>1. /\ DOMAIN f \subseteq Invoices
      /\ \A i \in DOMAIN f : Payable(i) /\ f[i] \in Nat /\ f[i] <= Outstanding(i)
      /\ SumFunction(f) <= amount
  BY DEF Allocations
<1>2. PICK g \in [DOMAIN f -> Fresh] : Ascending(g) /\ Receives(f, g)
  BY DEF ReceiveTx, Receives
<1>3. Allots(f, g) /\ posted' \in [Invoices -> Int]
  BY <1>0, <1>1, <1>2, ReceivesAllots
<1>4. SumFunction(f) \in Nat
  <2>1. IsFiniteSet(DOMAIN f)
    BY <1>1, Finite, FS_Subset
  <2> QED
    BY <1>1, <2>1, SumNat DEF SumFunction
<1>5. credit' \in Int /\ (serial => credit' >= 0)
  BY <1>0, <1>1, <1>4 DEF SerialBooks
<1>6. penalty' \in [Invoices -> PenaltyRows]
  BY <1>0, StopTyped
<1>7. payment' \in [Payments -> PaymentRows] /\ invoice' \in [Invoices -> InvoiceRows]
  BY <1>3 DEF Allots
<1>8. RowsTyped'
  BY <1>0, <1>3, <1>5, <1>6, <1>7 DEF RowsTyped
<1> QED
  BY <1>3, <1>5, <1>8, AllotStep

-----------------------------------------------------------------------------
(* Steps that leave invoices, payments and the balance alone.               *)

LEMMA MoneyStill ==
    ASSUME BookInv, UNCHANGED <<invoice, payment, credit, overflow, posted, serial>>,
           note' \in [Notes -> NoteRows], \A n \in Notes : note'[n].status # "none" => Exists(note'[n].inv),
           penalty' \in [Invoices -> PenaltyRows], UNCHANGED <<item, edited>>,
           line' \in [Lines -> LineRows], heard' \subseteq Payments \X Outcomes, serial => LinesBooked'
    PROVE  RowsKept
<1>0. RowsTyped /\ RowsHang /\ ReceivedIsBooked /\ (serial => SerialBooks)
  BY DEF BookInv, MoneyInv
<1>1. RowsTyped'
  BY <1>0 DEF RowsTyped
<1>2. \A i : Exists(i)' = Exists(i)
  BY DEF Exists
<1>3. RowsHang'
  <2>1. (\A n \in Notes : note[n].status # "none" => Exists(note[n].inv))'
    BY DEF Exists
  <2>2. \A p \in Payments : Hangs(payment[p])'
    BY <1>0 DEF RowsHang, Hangs, Exists
  <2> QED
    BY <2>1, <2>2 DEF RowsHang
<1>4. \A i \in Invoices : SettledOn(i)' = SettledOn(i)
  BY SettledIs, SettledIsNext
<1>5. ReceivedIsBooked' /\ (serial => NothingAdded')
  BY <1>0, <1>4 DEF ReceivedIsBooked, NothingAdded, SerialBooks
<1>6. serial => SerialBooks'
  BY <1>0, <1>5 DEF SerialBooks, InvoicesSound, NothingPends, Pending
<1> QED
  BY <1>1, <1>2, <1>3, <1>5, <1>6 DEF RowsKept, Recorded

LEMMA RowsStill == ASSUME BookInv, UNCHANGED <<rows, serial>> PROVE RowsKept
<1>1. RowsTyped /\ RowsHang /\ (serial => SerialBooks)
  BY DEF BookInv, MoneyInv
<1>2. /\ UNCHANGED <<invoice, payment, credit, overflow, posted, note, penalty, item, edited, line, heard, serial>>
      /\ (serial => LinesBooked')
  BY <1>1 DEF rows, SerialBooks, LinesBooked
<1> QED
  BY <1>1, <1>2, MoneyStill DEF RowsTyped, RowsHang

-----------------------------------------------------------------------------
(* Requests.  After a commit, and after a step that waits for its turn,     *)
(* nobody is between a read and its commit.                                 *)
Quiet ==
    /\ ops' \in [Requests -> Op]
    /\ \A q \in Requests : ops'[q] = NoOp \/ ops'[q] = ops[q]
    /\ serial => \A q \in Requests : ops'[q] = NoOp

LEMMA NoOpIs == NoOp \in Op /\ Knows(NoOp) /\ Knows(NoOp)'
BY DEF NoOp, Op, Knows

(* What a request keeps, by its kind.                                       *)
LEMMA OpIs ==
    ASSUME NEW op \in Op
    PROVE  /\ op.kind \in {"update", "cancel"} => op.inv \in Invoices
           /\ op.kind = "pay" => /\ op.new \in PaymentRows /\ op.new.status = "pending"
                                /\ op.new.inv \in Invoices /\ op.new.excess = 0
           /\ op.kind = "fail" => op.pay \in Payments
           /\ op.kind \in {"record", "apply", "note"} => op.inv \in Invoices /\ op.amount \in Nat
           /\ op.kind = "refund" => op.pay \in Payments /\ op.toCredit \in BOOLEAN /\ op.balance \in Int
           /\ op.kind = "bill" => op.billed \in [Invoices -> Int]
           /\ op.kind = "restore" => op.back \in Lines /\ op.open \in SUBSET Lines
<1> DEFINE News == [status : {"pending"}, inv : Invoices, amount : Nat, method : Methods,
                    excess : {0}, lapsed : {FALSE}]
<1>0. News \subseteq PaymentRows /\ \A n \in News : n.status = "pending" /\ n.inv \in Invoices /\ n.excess = 0
  <2> SUFFICES ASSUME NEW n \in News
               PROVE  n \in PaymentRows /\ n.status = "pending" /\ n.inv \in Invoices /\ n.excess = 0
    OBVIOUS
  <2>1. n = [status |-> "pending", inv |-> n.inv, amount |-> n.amount, method |-> n.method,
             excess |-> 0, lapsed |-> FALSE]
    OBVIOUS
  <2>2. n.inv \in Invoices /\ n.amount \in Nat /\ n.method \in Methods
    OBVIOUS
  <2>3. n \in PaymentRows
    <3>1. ASSUME NEW i \in Invoices, NEW a \in Nat, NEW m \in Methods
          PROVE  [status |-> "pending", inv |-> i, amount |-> a, method |-> m, excess |-> 0, lapsed |-> FALSE] \in PaymentRows
      BY DEF PaymentRows, PaymentStatus
    <3> HIDE DEF News
    <3> DEFINE i == n.inv  a == n.amount  m == n.method
    <3>2. n = [status |-> "pending", inv |-> i, amount |-> a, method |-> m, excess |-> 0, lapsed |-> FALSE]
      BY <2>1
    <3>3. i \in Invoices /\ a \in Nat /\ m \in Methods
      BY <2>2
    <3> HIDE DEF i, a, m
    <3> QED
      BY <3>1, <3>2, <3>3
  <2>4. n.status = "pending" /\ n.inv \in Invoices /\ n.excess = 0
    OBVIOUS
  <2> QED
    BY <2>3, <2>4
<1>1. CASE op = NoOp
  BY <1>1 DEF NoOp
<1>3. CASE op \in [kind : {"pay"}, new : News]
  <2> HIDE DEF News
  <2> QED
    BY <1>0, <1>3
<1>2. CASE op \in [kind : {"update", "cancel"}, inv : Invoices]
  BY <1>2
<1>4. CASE op \in [kind : {"fail"}, pay : Payments]
  BY <1>4
<1>5. CASE op \in [kind : {"record", "apply", "note"}, inv : Invoices, amount : Nat]
  BY <1>5
<1>6. CASE op \in [kind : {"refund"}, pay : Payments, toCredit : BOOLEAN, balance : Int]
  BY <1>6
<1>7. CASE op \in [kind : {"bill"}, billed : [Invoices -> Int]]
  BY <1>7
<1>8. CASE op \in [kind : {"restore"}, back : Lines, open : SUBSET Lines]
  BY <1>8
<1> QED
  <2>1. op \in {NoOp} \cup [kind : {"update", "cancel"}, inv : Invoices] \cup [kind : {"pay"}, new : News]
              \cup [kind : {"fail"}, pay : Payments]
              \cup [kind : {"record", "apply", "note"}, inv : Invoices, amount : Nat]
              \cup [kind : {"refund"}, pay : Payments, toCredit : BOOLEAN, balance : Int]
              \cup [kind : {"bill"}, billed : [Invoices -> Int]]
              \cup [kind : {"restore"}, back : Lines, open : SUBSET Lines]
    BY Zenon DEF Op
  <2> HIDE DEF News
  <2> QED
    BY <1>1, <1>2, <1>3, <1>4, <1>5, <1>6, <1>7, <1>8, <2>1

LEMMA KnowsStays ==
    ASSUME RowsKept, NEW op \in Op, Knows(op)
    PROVE  Knows(op)'
<1>1. \A i : Exists(i) => Exists(i)'
  BY DEF RowsKept, Exists
<1>2. op.kind = "fail" => op.pay \in Payments
  BY OpIs
<1> QED
  BY <1>1, <1>2 DEF RowsKept, Knows

LEMMA QuietStep == ASSUME BookInv, RowsKept, Quiet PROVE BookInv'
<1>1. AllKnow'
  <2> SUFFICES ASSUME NEW q \in Requests PROVE Knows(ops[q])'
    BY DEF AllKnow
  <2>1. CASE ops'[q] = NoOp
    BY <2>1, NoOpIs DEF Knows, NoOp
  <2>2. CASE ops'[q] = ops[q]
    <3>1. ops[q] \in Op /\ Knows(ops[q])
      BY DEF BookInv, MoneyInv, AllKnow
    <3>2. Knows(ops[q]) => (\A op : op = ops[q] => Knows(op)')
      BY <3>1, KnowsStays
    <3> QED
      BY <2>2, <3>1, <3>2 DEF Knows
  <2> QED
    BY <2>1, <2>2 DEF Quiet
<1>2. MoneyInv'
  BY <1>1 DEF MoneyInv, RowsKept, Quiet
<1>3. serial' => SerialBooks' /\ Turns'
  BY DEF RowsKept, Quiet, Turns
<1> QED
  BY <1>2, <1>3 DEF BookInv

LEMMA CalmQuiet == ASSUME BookInv, Calm, ops' = ops PROVE Quiet
BY DEF BookInv, MoneyInv, Calm, Quiet

LEMMA EndQuiet ==
    ASSUME BookInv, NEW q \in Requests, ops[q] # NoOp, End(q)
    PROVE  Quiet
<1>1. ops \in [Requests -> Op] /\ ops' = [ops EXCEPT ![q] = NoOp] /\ NoOp \in Op
  BY NoOpIs DEF BookInv, MoneyInv, End
<1>2. serial => \A p \in Requests : p # q => ops[p] = NoOp
  BY DEF BookInv, Turns
<1> QED
  BY <1>1, <1>2 DEF Quiet

LEMMA BeginStep ==
    ASSUME BookInv, NEW q \in Requests, NEW op \in Op, Begin(q, op), UNCHANGED <<rows, serial>>,
           Knows(op), serial => StillTrue(op)
    PROVE  BookInv'
<1>1. RowsKept
  BY RowsStill
<1>2. ops \in [Requests -> Op] /\ ops' = [ops EXCEPT ![q] = op]
  BY DEF BookInv, MoneyInv, Begin
<1>3. AllKnow'
  <2> SUFFICES ASSUME NEW p \in Requests PROVE Knows(ops[p])'
    BY DEF AllKnow
  <2>1. Knows(ops[p]) /\ ops[p] \in Op
    BY <1>2 DEF BookInv, MoneyInv, AllKnow
  <2> QED
    BY <1>2, <2>1 DEF Knows, Exists, Recorded, rows
<1>4. MoneyInv'
  BY <1>1, <1>2, <1>3 DEF MoneyInv, RowsKept
<1>5. ASSUME serial PROVE Turns'
  <2>1. \A p \in Requests \ {q} : ops'[p] = NoOp
    BY <1>2, <1>5 DEF Begin, Turn
  <2>2. StillTrue(op) /\ ops'[q] = op
    BY <1>2, <1>5
  <2>3. StillTrue(ops[q])'
    BY <2>2 DEF StillTrue, Voidable, Payable, Outstanding, rows
  <2> QED
    BY <2>1, <2>3 DEF Turns
<1> QED
  BY <1>1, <1>4, <1>5 DEF BookInv, RowsKept

-----------------------------------------------------------------------------
(* Invoices are inserted and edited.                                        *)

LEMMA NewInvoiceIs ==
    ASSUME RowsTyped, NEW n, NEW fine \in BOOLEAN, NEW total \in Nat, total > 0, NEW status \in {"draft", "issued"},
           NewInvoice(n, fine, total, status)
    PROVE  /\ n \in Invoices /\ invoice[n].status = "none"
           /\ invoice' \in [Invoices -> InvoiceRows] /\ \A i \in Invoices \ {n} : invoice'[i] = invoice[i]
           /\ invoice'[n].paid = 0 /\ invoice'[n].status = status
           /\ Sound(invoice'[n]) /\ Share(invoice'[n]) = 0
<1> DEFINE r == [NoInvoice EXCEPT !.status = status, !.fine = fine, !.total = total]
           v == [NoInvoice EXCEPT !.status = status, !.fine = fine]
<1>1. v \in InvoiceRows /\ v.status = status /\ v.paid = 0 /\ v.credited = 0
  <2>1. NoInvoice \in InvoiceRows /\ NoInvoice.paid = 0 /\ NoInvoice.credited = 0
    BY DEF NoInvoice, InvoiceRows, InvoiceStatus
  <2> QED
    BY <2>1 DEF InvoiceRows, InvoiceStatus, Open
<1>2. r = [v EXCEPT !.total = total]
  BY DEF NoInvoice
<1> HIDE DEF v
<1>3. r \in InvoiceRows /\ r.status = status /\ r.paid = 0 /\ r.credited = 0 /\ r.total = total
  BY <1>1, <1>2 DEF InvoiceRows
<1>4. n \in Invoices /\ invoice[n].status = "none" /\ invoice' = [invoice EXCEPT ![n] = r]
  BY DEF NewInvoice, NextRow
<1>5. invoice \in [Invoices -> InvoiceRows]
  BY DEF RowsTyped
<1> HIDE DEF r
<1>6. Sound(r)
  BY <1>3 DEF Sound, Open
<1>7. Share(r) = 0
  BY <1>3, ShareOfNothing
<1> QED
  BY <1>3, <1>4, <1>5, <1>6, <1>7

LEMMA InsertKept ==
    ASSUME BookInv, NEW n, NEW fine \in BOOLEAN, NEW total \in Nat, total > 0, NEW status \in {"draft", "issued"},
           NewInvoice(n, fine, total, status),
           UNCHANGED <<payment, credit, overflow, posted, note, line, heard, serial>>,
           penalty' \in [Invoices -> PenaltyRows], item' \in [Invoices -> [Invoices -> Int]], edited' \subseteq Invoices
    PROVE  RowsKept
<1>0. RowsTyped /\ RowsHang /\ (serial => SerialBooks)
  BY DEF BookInv, MoneyInv
<1>1. /\ n \in Invoices /\ invoice[n].status = "none"
      /\ invoice' \in [Invoices -> InvoiceRows] /\ \A i \in Invoices \ {n} : invoice'[i] = invoice[i]
      /\ invoice'[n].paid = 0 /\ invoice'[n].status = status
      /\ Sound(invoice'[n]) /\ Share(invoice'[n]) = 0
  BY <1>0, NewInvoiceIs
<1>2. RowsTyped'
  BY <1>0, <1>1 DEF RowsTyped
<1>3. \A i \in Invoices : /\ Exists(i) => Exists(i)'
                          /\ invoice'[i].paid = invoice[i].paid \/ (~Exists(i) /\ invoice'[i].paid = 0)
  BY <1>1 DEF Exists
<1>4. \A p \in Payments : Hangs(payment[p])' /\ (Recorded(p) => Recorded(p)')
  BY <1>0, <1>3 DEF RowsHang, Hangs, Exists, Recorded
<1>5. /\ \A p \in Payments : \A i \in Invoices : Gave(payment'[p], i) = Gave(payment[p], i)
      /\ \A p \in Payments : \A i \in Invoices : Gave(payment'[p], i) <= Gave(payment[p], i)
  <2>1. \A p \in Payments : \A i \in Invoices : Gave(payment[p], i) \in Int
    BY <1>0, GaveInt DEF RowsTyped
  <2> QED
    BY <2>1
<1>6. ASSUME serial
      PROVE  (\A i \in Invoices : Sound(invoice'[i]) /\ Share(invoice'[i]) = posted[i]) /\ NothingPends' /\ LinesBooked'
  <2>1. posted[n] = 0
    <3>1. invoice[n] \in InvoiceRows /\ invoice[n].paid = 0 /\ posted[n] = Share(invoice[n])
      BY <1>0, <1>1, <1>6 DEF SerialBooks, InvoicesSound, Sound, RowsTyped
    <3> QED
      BY <3>1, ShareOfNothing
  <2>2. NothingPends'
    BY <1>0, <1>1, <1>6 DEF SerialBooks, NothingPends, Pending
  <2> QED
    BY <1>0, <1>1, <1>6, <2>1, <2>2 DEF SerialBooks, InvoicesSound, LinesBooked
<1> QED
  BY <1>2, <1>3, <1>4, <1>5, <1>6, PlainStep

(* An invoice keeps what was paid.                                          *)
LEMMA EditKept ==
    ASSUME BookInv, NEW i \in Invoices, NEW r \in InvoiceRows, invoice' = [invoice EXCEPT ![i] = r],
           UNCHANGED <<payment, credit, overflow, posted, note, penalty, line, heard, serial>>,
           item' \in [Invoices -> [Invoices -> Int]], edited' \subseteq Invoices,
           r.status # "none", r.paid = invoice[i].paid, r.status = "cancelled" => invoice[i].status = "cancelled",
           serial => Sound(r) /\ Share(r) = Share(invoice[i])
    PROVE  RowsKept
<1>0. RowsTyped /\ RowsHang /\ (serial => SerialBooks) /\ invoice \in [Invoices -> InvoiceRows]
  BY DEF BookInv, MoneyInv, RowsTyped
<1>1. invoice' \in [Invoices -> InvoiceRows] /\ invoice'[i] = r /\ \A j \in Invoices \ {i} : invoice'[j] = invoice[j]
  BY <1>0
<1>2. RowsTyped'
  BY <1>0, <1>1 DEF RowsTyped
<1>3. \A j \in Invoices : /\ Exists(j) => Exists(j)'
                          /\ invoice'[j].paid = invoice[j].paid \/ (~Exists(j) /\ invoice'[j].paid = 0)
  BY <1>1 DEF Exists
<1>4. \A p \in Payments : Hangs(payment[p])' /\ (Recorded(p) => Recorded(p)')
  BY <1>0, <1>3 DEF RowsHang, Hangs, Exists, Recorded
<1>5. /\ \A p \in Payments : \A j \in Invoices : Gave(payment'[p], j) = Gave(payment[p], j)
      /\ \A p \in Payments : \A j \in Invoices : Gave(payment'[p], j) <= Gave(payment[p], j)
  <2>1. \A p \in Payments : \A j \in Invoices : Gave(payment[p], j) \in Int
    BY <1>0, GaveInt DEF RowsTyped
  <2> QED
    BY <2>1
<1>6. ASSUME serial
      PROVE  (\A j \in Invoices : Sound(invoice'[j]) /\ Share(invoice'[j]) = posted[j]) /\ NothingPends' /\ LinesBooked'
  <2>1. NothingPends'
    BY <1>0, <1>1, <1>6 DEF SerialBooks, NothingPends, Pending
  <2> QED
    BY <1>0, <1>1, <1>6, <2>1 DEF SerialBooks, InvoicesSound, LinesBooked
<1> QED
  BY <1>2, <1>3, <1>4, <1>5, <1>6, PlainStep

(* Payments change by their status; no payment becomes paid.                *)
LEMMA CloseKept ==
    ASSUME BookInv, RowsTyped', UNCHANGED <<credit, overflow, posted, note, line, serial>>,
           \A i \in Invoices : /\ invoice'[i].paid = invoice[i].paid
                               /\ invoice[i].status # "none" => invoice'[i].status # "none",
           \A p \in Payments :
             LET r == payment[p]  s == payment'[p]
             IN /\ s.inv = r.inv /\ s.amount = r.amount /\ s.excess = r.excess
                /\ (s.status = "none" <=> r.status = "none") /\ (s.status = "paid" => r.status = "paid")
                /\ serial => (r.status = "paid" => s.status = "paid"),
           serial => /\ \A i \in Invoices : Sound(invoice'[i]) /\ Share(invoice'[i]) = Share(invoice[i])
                     /\ NothingPends'
    PROVE  RowsKept
<1>0. RowsTyped /\ RowsHang /\ (serial => SerialBooks) /\ payment \in [Payments -> PaymentRows]
  BY DEF BookInv, MoneyInv, RowsTyped
<1>1. \A i \in Invoices : /\ Exists(i) => Exists(i)'
                          /\ invoice'[i].paid = invoice[i].paid \/ (~Exists(i) /\ invoice'[i].paid = 0)
  BY DEF Exists
<1>2. \A p \in Payments : Hangs(payment[p])' /\ (Recorded(p) => Recorded(p)')
  BY <1>0, <1>1 DEF RowsHang, Hangs, Exists, Recorded, PaymentRows
<1>3. ASSUME NEW p \in Payments, NEW i \in Invoices
      PROVE  /\ Gave(payment'[p], i) <= Gave(payment[p], i)
             /\ serial => Gave(payment'[p], i) = Gave(payment[p], i)
  <2>1. Hangs(payment[p]) /\ payment[p].amount \in Nat /\ payment[p].excess \in Nat
    BY <1>0 DEF RowsHang, PaymentRows
  <2>2. Gave(payment[p], i) \in Nat
    BY <2>1 DEF Gave, Hangs
  <2>3. Gave(payment'[p], i) = Gave(payment[p], i) \/ (~serial /\ Gave(payment'[p], i) = 0)
    BY DEF Gave
  <2> QED
    BY <2>2, <2>3
<1>4. serial => \A i \in Invoices : Sound(invoice'[i]) /\ Share(invoice'[i]) = posted[i]
  BY <1>0 DEF SerialBooks, InvoicesSound
<1>5. serial => LinesBooked'
  BY <1>0 DEF SerialBooks, LinesBooked
<1> QED
  BY <1>1, <1>2, <1>3, <1>4, <1>5, PlainStep

-----------------------------------------------------------------------------
(* Every step.                                                              *)

LEMMA StepTyped == ASSUME BookInv PROVE
    /\ RowsTyped /\ RowsHang /\ (serial => SerialBooks /\ Turns) /\ ops \in [Requests -> Op] /\ AllKnow
    /\ invoice \in [Invoices -> InvoiceRows] /\ payment \in [Payments -> PaymentRows]
    /\ note \in [Notes -> NoteRows] /\ penalty \in [Invoices -> PenaltyRows] /\ line \in [Lines -> LineRows]
    /\ item \in [Invoices -> [Invoices -> Int]] /\ edited \subseteq Invoices
    /\ heard \subseteq Payments \X Outcomes /\ credit \in Int
    /\ (serial => LinesBooked)
BY DEF BookInv, MoneyInv, RowsTyped, SerialBooks

(* A step of the clock happens while a request waits.                       *)
LEMMA ClockStep ==
    ASSUME BookInv, RowsKept, ops' = ops,
           serial => \A q \in Requests : StillTrue(ops[q]) => StillTrue(ops[q])'
    PROVE  BookInv'
<1>1. AllKnow'
  <2> SUFFICES ASSUME NEW q \in Requests PROVE Knows(ops[q])'
    BY DEF AllKnow
  <2>1. ops[q] \in Op /\ Knows(ops[q])
    BY DEF BookInv, MoneyInv, AllKnow
  <2>2. \A op : op = ops[q] => Knows(op)'
    BY <2>1, KnowsStays
  <2> QED
    BY <2>2 DEF Knows
<1>2. MoneyInv'
  BY <1>1 DEF MoneyInv, BookInv, RowsKept
<1> QED
  BY <1>2 DEF BookInv, RowsKept, Turns

(* What is written by hand of a penalty is an amount.                       *)
LEMMA HandAmounts ==
    ASSUME NEW i, NEW items \in HandItems(i)
    PROVE  \E f : /\ items = [j \in Invoices |-> IF j \in DOMAIN f THEN f[j] ELSE item[i][j]]
                 /\ \A j \in DOMAIN f : f[j] \in Nat
<1>1. PICK f \in UNION {[H -> Amounts \cup {0}] : H \in SUBSET {j \in Invoices : penalty[j].status # "none"}} :
         items = [j \in Invoices |-> IF j \in DOMAIN f THEN f[j] ELSE item[i][j]]
  BY DEF HandItems
<1>2. PICK H : f \in [H -> Amounts \cup {0}]
  OBVIOUS
<1>3. \A j \in DOMAIN f : f[j] \in Amounts \cup {0}
  BY <1>2
<1>4. Amounts \cup {0} \subseteq Nat
  BY BillingAssumption
<1>5. \A j \in DOMAIN f : f[j] \in Nat
  BY <1>3, <1>4
<1> QED
  BY <1>1, <1>5

(* The items of a request have amounts, and its total is more than nothing. *)
LEMMA HandTyped ==
    ASSUME item \in [Invoices -> [Invoices -> Int]], NEW i \in Invoices, NEW items \in HandItems(i)
    PROVE  items \in [Invoices -> Int] /\ \A total \in HandTotals(items) : total \in Nat /\ total > 0
<1>1. PICK f : items = [j \in Invoices |-> IF j \in DOMAIN f THEN f[j] ELSE item[i][j]] /\ \A j \in DOMAIN f : f[j] \in Nat
  BY HandAmounts
<1>2. \A j \in DOMAIN f : f[j] \in Int
  BY <1>1
<1>3. items \in [Invoices -> Int]
  BY <1>1, <1>2
<1> QED
  BY <1>3 DEF HandTotals

LEMMA CreateStep == ASSUME BookInv, NEW i \in Invoices, Create(i) PROVE BookInv'
<1>1. PICK items \in HandItems(i) : \E total \in HandTotals(items), fine \in BOOLEAN, status \in {"draft", "issued"} :
         /\ NewInvoice(i, fine, total, status)
         /\ item' = [item EXCEPT ![i] = items]
         /\ edited' = edited \cup {j \in Invoices : items[j] # 0}
  BY DEF Create
<1>2. PICK total \in HandTotals(items), fine \in BOOLEAN, status \in {"draft", "issued"} :
         /\ NewInvoice(i, fine, total, status)
         /\ item' = [item EXCEPT ![i] = items]
         /\ edited' = edited \cup {j \in Invoices : items[j] # 0}
  BY <1>1
<1>3. UNCHANGED <<payment, credit, overflow, posted, note, penalty, line, heard, ops, serial>> /\ Calm
  BY DEF Create
<1>4. total \in Nat /\ total > 0 /\ item' \in [Invoices -> [Invoices -> Int]] /\ edited' \subseteq Invoices
  BY <1>1, <1>2, StepTyped, HandTyped
<1>5. RowsKept
  <2>1. penalty' \in [Invoices -> PenaltyRows]
    BY <1>3, StepTyped
  <2> QED
    BY <1>2, <1>3, <1>4, <2>1, InsertKept
<1> QED
  BY <1>3, <1>5, CalmQuiet, QuietStep

LEMMA IssueStep == ASSUME BookInv, NEW i \in Invoices, Issue(i) PROVE BookInv'
<1> DEFINE r == [invoice[i] EXCEPT !.status = "issued"]
<1>0. invoice[i] \in InvoiceRows /\ invoice[i].status = "draft"
  BY StepTyped DEF Issue
<1>1. /\ r \in InvoiceRows /\ r.status = "issued" /\ r.paid = invoice[i].paid /\ r.total = invoice[i].total
      /\ r.credited = invoice[i].credited
  BY <1>0 DEF InvoiceRows, InvoiceStatus, Open
<1>2. invoice' = [invoice EXCEPT ![i] = r]
  BY DEF Issue
<1>3. UNCHANGED <<payment, credit, overflow, posted, note, penalty, item, edited, line, heard, ops, serial>> /\ Calm
  BY DEF Issue
<1> HIDE DEF r
<1>4. ASSUME serial PROVE Sound(r) /\ Share(r) = Share(invoice[i])
  <2>1. Sound(invoice[i])
    BY <1>4, StepTyped DEF SerialBooks, InvoicesSound
  <2>2. Sound(r)
    BY <1>0, <1>1, <2>1 DEF Sound, InvoiceRows, Open
  <2> QED
    BY <1>1, <2>2, ShareSame
<1>t. item' \in [Invoices -> [Invoices -> Int]] /\ edited' \subseteq Invoices
  BY <1>3, StepTyped
<1>5. RowsKept
  BY <1>1, <1>2, <1>3, <1>4, <1>t, EditKept
<1> QED
  BY <1>3, <1>5, CalmQuiet, QuietStep

LEMMA DuePassesStep == ASSUME BookInv, NEW i \in Invoices, DuePasses(i) PROVE BookInv'
<1> DEFINE r == [invoice[i] EXCEPT !.late = TRUE]
<1>0. invoice[i] \in InvoiceRows /\ invoice[i].status # "none" /\ invoice \in [Invoices -> InvoiceRows]
  BY StepTyped DEF DuePasses
<1>1. /\ r \in InvoiceRows /\ r.status = invoice[i].status /\ r.paid = invoice[i].paid /\ r.total = invoice[i].total
      /\ r.credited = invoice[i].credited
  BY <1>0 DEF InvoiceRows
<1>2. invoice' = [invoice EXCEPT ![i] = r]
  BY DEF DuePasses
<1>3. UNCHANGED <<payment, credit, overflow, posted, note, penalty, item, edited, line, heard, ops, serial>>
  BY DEF DuePasses
<1> HIDE DEF r
<1>4. ASSUME serial PROVE Sound(r) /\ Share(r) = Share(invoice[i])
  <2>1. Sound(invoice[i])
    BY <1>4, StepTyped DEF SerialBooks, InvoicesSound
  <2>2. Sound(r)
    BY <1>1, <2>1 DEF Sound
  <2> QED
    BY <1>1, <2>2, ShareSame
<1>t. item' \in [Invoices -> [Invoices -> Int]] /\ edited' \subseteq Invoices
  BY <1>3, StepTyped
<1>5. RowsKept
  BY <1>0, <1>1, <1>2, <1>3, <1>4, <1>t, EditKept
<1>6. \A j \in Invoices : /\ invoice'[j].status = invoice[j].status /\ invoice'[j].paid = invoice[j].paid
                          /\ invoice'[j].total = invoice[j].total /\ invoice'[j].credited = invoice[j].credited
  BY <1>0, <1>1, <1>2
<1>7. ASSUME NEW q \in Requests, StillTrue(ops[q]) PROVE StillTrue(ops[q])'
  <2>1. ops[q] \in Op
    BY StepTyped
  <2>2. /\ ops[q].kind = "update" => invoice'[ops[q].inv].status = "draft"
        /\ ops[q].kind = "cancel" => Voidable(ops[q].inv)'
        /\ ops[q].kind = "pay" => Payable(ops[q].new.inv)'
    BY <1>3, <1>6, <1>7, <2>1, OpIs DEF StillTrue, Voidable, Payable, Outstanding
  <2> QED
    BY <1>3, <1>7, <2>2 DEF StillTrue
<1> QED
  BY <1>3, <1>5, <1>7, ClockStep

LEMMA UpdateCommitStep == ASSUME BookInv, NEW q \in Requests, UpdateCommit(q) PROVE BookInv'
<1> DEFINE i == ops[q].inv
<1>a. PICK items \in HandItems(i) : \E total \in HandTotals(items), fine \in BOOLEAN :
         /\ invoice' = [invoice EXCEPT ![i].total = total, ![i].fine = fine]
         /\ item' = [item EXCEPT ![i] = items]
         /\ edited' = edited \cup {j \in Invoices : items[j] # item[i][j]}
  BY DEF UpdateCommit
<1>1. PICK total \in HandTotals(items), fine \in BOOLEAN :
         /\ invoice' = [invoice EXCEPT ![i].total = total, ![i].fine = fine]
         /\ item' = [item EXCEPT ![i] = items]
         /\ edited' = edited \cup {j \in Invoices : items[j] # item[i][j]}
  BY <1>a
<1> DEFINE v == [invoice[i] EXCEPT !.total = total]
           r == [v EXCEPT !.fine = fine]
<1>2. /\ ops[q].kind = "update" /\ End(q)
      /\ UNCHANGED <<payment, credit, overflow, posted, note, penalty, line, heard, serial>>
  BY DEF UpdateCommit
<1>b. i \in Invoices /\ invoice[i].status # "none" /\ invoice[i] \in InvoiceRows /\ ops[q] # NoOp
  BY <1>2, StepTyped DEF AllKnow, Knows, Exists, NoOp
<1>c. total \in Nat /\ total > 0 /\ item' \in [Invoices -> [Invoices -> Int]] /\ edited' \subseteq Invoices
  BY <1>1, <1>b, StepTyped, HandTyped
<1>3. i \in Invoices /\ invoice[i].status # "none" /\ invoice[i] \in InvoiceRows /\ total \in Nat /\ total > 0 /\ ops[q] # NoOp
  BY <1>b, <1>c
<1>d. v \in InvoiceRows /\ v.status = invoice[i].status /\ v.paid = invoice[i].paid /\ v.total = total
      /\ v.credited = invoice[i].credited
  BY <1>3 DEF InvoiceRows
<1>4. /\ r \in InvoiceRows /\ r.status = invoice[i].status /\ r.paid = invoice[i].paid /\ r.total = total
      /\ r.credited = invoice[i].credited
  <2> HIDE DEF v
  <2> QED
    BY <1>d DEF InvoiceRows
<1>5. invoice' = [invoice EXCEPT ![i] = r]
  BY <1>1
<1> HIDE DEF r, v
<1>e. serial => invoice[i].status = "draft"
  <2>1. serial => StillTrue(ops[q])
    BY StepTyped, <1>b DEF Turns
  <2> QED
    BY <1>2, <2>1 DEF StillTrue
<1> HIDE DEF i
<1>6. ASSUME serial PROVE Sound(r) /\ Share(r) = Share(invoice[i])
  <2>1. Sound(invoice[i]) /\ invoice[i].status = "draft"
    BY <1>3, <1>6, <1>e, StepTyped DEF SerialBooks, InvoicesSound
  <2>2. r.paid = 0 /\ r.credited = 0 /\ invoice[i].paid = 0
    BY <1>4, <2>1 DEF Sound
  <2>3. Sound(r)
    BY <1>3, <1>4, <2>1, <2>2 DEF Sound, Open
  <2> QED
    BY <1>3, <1>4, <2>2, <2>3, ShareOfNothing
<1>7. RowsKept
  BY <1>2, <1>3, <1>4, <1>5, <1>6, <1>c, EditKept
<1> QED
  BY <1>2, <1>3, <1>7, EndQuiet, QuietStep

LEMMA CancelCommitStep == ASSUME BookInv, NEW q \in Requests, CancelCommit(q) PROVE BookInv'
<1> DEFINE i == ops[q].inv
           r == [invoice[i] EXCEPT !.status = "cancelled"]
<1>1. /\ ops[q].kind = "cancel" /\ End(q) /\ invoice' = [invoice EXCEPT ![i] = r]
      /\ payment' = [p \in Payments |-> IF p \in Pending(i)
                       THEN [payment[p] EXCEPT !.status = "cancelled"] ELSE payment[p]]
      /\ penalty' = [j \in Invoices |-> AfterCancel(i, j)]
      /\ UNCHANGED <<credit, overflow, posted, note, item, edited, line, heard, serial>>
  BY DEF CancelCommit
<1>2. /\ i \in Invoices /\ invoice[i].status # "none" /\ invoice[i] \in InvoiceRows /\ ops[q] # NoOp
      /\ payment \in [Payments -> PaymentRows] /\ invoice \in [Invoices -> InvoiceRows]
  BY <1>1, StepTyped DEF AllKnow, Knows, Exists, NoOp
<1>3. /\ r \in InvoiceRows /\ r.status = "cancelled" /\ r.paid = invoice[i].paid /\ r.total = invoice[i].total
      /\ r.credited = invoice[i].credited
  BY <1>2 DEF InvoiceRows, InvoiceStatus
<1> HIDE DEF r
<1>4. invoice' \in [Invoices -> InvoiceRows] /\ invoice'[i] = r /\ \A j \in Invoices \ {i} : invoice'[j] = invoice[j]
  BY <1>1, <1>2, <1>3
<1>5. \A p \in Payments :
        /\ payment'[p] \in PaymentRows /\ payment'[p].inv = payment[p].inv
        /\ payment'[p].amount = payment[p].amount /\ payment'[p].excess = payment[p].excess
        /\ payment'[p].status = IF p \in Pending(i) THEN "cancelled" ELSE payment[p].status
  BY <1>1, <1>2 DEF PaymentRows, PaymentStatus
<1>6. payment' \in [Payments -> PaymentRows]
  BY <1>1, <1>5
<1>7. penalty' \in [Invoices -> PenaltyRows]
  <2>1. \A j \in Invoices : AfterCancel(i, j) \in PenaltyRows
    <3> TAKE j \in Invoices
    <3>1. penalty[j] \in PenaltyRows
      BY StepTyped
    <3> QED
      BY <3>1 DEF AfterCancel, PenaltyRows
  <2> QED
    BY <1>1, <2>1
<1>8. RowsTyped'
  BY <1>1, <1>4, <1>6, <1>7, StepTyped DEF RowsTyped
<1>9. ASSUME serial
      PROVE  (\A j \in Invoices : Sound(invoice'[j]) /\ Share(invoice'[j]) = Share(invoice[j])) /\ NothingPends'
  <2>1. Voidable(i) /\ InvoicesSound /\ NothingPends
    BY <1>1, <1>2, <1>9, StepTyped DEF Turns, StillTrue, SerialBooks
  <2>2. Sound(invoice[i])
    BY <1>2, <2>1 DEF InvoicesSound
  <2>3. invoice[i].paid = 0 /\ invoice[i].credited = 0
    BY <2>1, <2>2 DEF Voidable, Sound
  <2>4. Sound(r)
    BY <1>2, <1>3, <2>2, <2>3 DEF Sound, Open
  <2>5. Share(r) = Share(invoice[i])
    BY <1>3, ShareSame
  <2>6. NothingPends'
    <3> SUFFICES ASSUME NEW j \in Invoices, invoice'[j].status = "cancelled", NEW s \in Payments,
                        payment'[s].status = "pending", payment'[s].inv = j
                 PROVE  FALSE
      BY DEF NothingPends, Pending
    <3>1. s \notin Pending(i) /\ payment[s].status = "pending" /\ payment[s].inv = j
      BY <1>5
    <3>2. j # i /\ invoice[j].status = "cancelled"
      BY <1>4, <3>1 DEF Pending
    <3> QED
      BY <2>1, <3>1, <3>2 DEF NothingPends, Pending
  <2> QED
    BY <1>4, <2>1, <2>4, <2>5, <2>6 DEF InvoicesSound
<1>10. RowsKept
  <2>1. \A j \in Invoices : /\ invoice'[j].paid = invoice[j].paid
                            /\ invoice[j].status # "none" => invoice'[j].status # "none"
    BY <1>3, <1>4
  <2>2. \A p \in Payments : p \in Pending(i) => payment[p].status = "pending"
    BY DEF Pending
  <2> QED
    BY <1>1, <1>5, <1>8, <1>9, <2>1, <2>2, CloseKept
<1> QED
  BY <1>1, <1>2, <1>10, EndQuiet, QuietStep

(* One payment gets another status, or lapses.                              *)
LEMMA MarkKept ==
    ASSUME BookInv, NEW p \in Payments, NEW r \in PaymentRows, payment' = [payment EXCEPT ![p] = r],
           UNCHANGED <<invoice, credit, overflow, posted, note, penalty, item, edited, line, serial>>,
           heard' \subseteq Payments \X Outcomes,
           r.inv = payment[p].inv, r.amount = payment[p].amount, r.excess = payment[p].excess,
           r.status = "none" <=> payment[p].status = "none",
           r.status \in {"paid", "pending"} => r.status = payment[p].status,
           serial => (payment[p].status = "paid" => r.status = "paid")
    PROVE  RowsKept
<1>1. payment' \in [Payments -> PaymentRows] /\ payment'[p] = r /\ \A s \in Payments \ {p} : payment'[s] = payment[s]
  BY StepTyped
<1>2. RowsTyped'
  BY <1>1, StepTyped DEF RowsTyped
<1>3. ASSUME serial
      PROVE  (\A j \in Invoices : Sound(invoice'[j]) /\ Share(invoice'[j]) = Share(invoice[j])) /\ NothingPends'
  <2>1. InvoicesSound /\ NothingPends
    BY <1>3, StepTyped DEF SerialBooks
  <2>2. NothingPends'
    BY <1>1, <2>1 DEF NothingPends, Pending
  <2> QED
    BY <2>1, <2>2 DEF InvoicesSound
<1> QED
  BY <1>1, <1>2, <1>3, CloseKept

LEMMA FailCommitStep == ASSUME BookInv, NEW q \in Requests, FailCommit(q) PROVE BookInv'
<1> DEFINE p == ops[q].pay
           r == [payment[p] EXCEPT !.status = "failed"]
<1>1. /\ ops[q].kind = "fail" /\ End(q) /\ payment' = [payment EXCEPT ![p] = r]
      /\ UNCHANGED <<invoice, credit, overflow, posted, note, penalty, item, edited, line, heard, serial>>
  BY DEF FailCommit
<1>2. ops[q] \in Op /\ ops[q] # NoOp
  BY <1>1, StepTyped DEF NoOp
<1>3. p \in Payments /\ payment[p] \in PaymentRows /\ payment[p].status # "none"
  BY <1>1, <1>2, OpIs, StepTyped DEF AllKnow, Knows, Recorded
<1>4. r \in PaymentRows /\ r.status = "failed" /\ r.inv = payment[p].inv /\ r.amount = payment[p].amount /\ r.excess = payment[p].excess
  BY <1>3 DEF PaymentRows, PaymentStatus
<1>5. serial => payment[p].status = "pending"
  BY <1>1, <1>2, StepTyped DEF Turns, StillTrue
<1> HIDE DEF r, p
<1>6. RowsKept
  BY <1>1, <1>3, <1>4, <1>5, MarkKept, StepTyped
<1> QED
  BY <1>1, <1>2, <1>6, EndQuiet, QuietStep

LEMMA WebhookClosedStep ==
    ASSUME BookInv, NEW p \in Payments, NEW status \in {"failed", "expired", "cancelled"}, WebhookClosed(p, status)
    PROVE  BookInv'
<1> DEFINE r == [payment[p] EXCEPT !.status = IF @ = "pending" THEN status ELSE @]
<1>1. /\ Calm /\ payment[p].status # "none" /\ heard' = heard \cup {<<p, status>>} /\ payment' = [payment EXCEPT ![p] = r]
      /\ UNCHANGED <<invoice, credit, overflow, posted, note, penalty, item, edited, line, ops, serial>>
  BY DEF WebhookClosed
<1>2. payment[p] \in PaymentRows
  BY StepTyped
<1>3. /\ r \in PaymentRows /\ r.inv = payment[p].inv /\ r.amount = payment[p].amount /\ r.excess = payment[p].excess
      /\ r.status = IF payment[p].status = "pending" THEN status ELSE payment[p].status
  <2> DEFINE s == IF payment[p].status = "pending" THEN status ELSE payment[p].status
  <2>1. r = [payment[p] EXCEPT !.status = s] /\ s \in PaymentStatus
    BY <1>2 DEF PaymentRows, PaymentStatus
  <2> HIDE DEF s, r
  <2>2. r \in PaymentRows /\ r.inv = payment[p].inv /\ r.amount = payment[p].amount /\ r.excess = payment[p].excess
        /\ r.status = s
    BY <1>2, <2>1 DEF PaymentRows
  <2> QED
    BY <2>2 DEF s
<1>4. heard' \subseteq Payments \X Outcomes
  BY <1>1, StepTyped DEF Outcomes
<1> HIDE DEF r
<1>5. RowsKept
  BY <1>1, <1>3, <1>4, MarkKept
<1> QED
  BY <1>1, <1>5, CalmQuiet, QuietStep

LEMMA PaymentLapsesStep == ASSUME BookInv, NEW p \in Payments, PaymentLapses(p) PROVE BookInv'
<1> DEFINE r == [payment[p] EXCEPT !.lapsed = TRUE]
<1>1. /\ payment' = [payment EXCEPT ![p] = r] /\ payment[p].status = "pending"
      /\ UNCHANGED <<invoice, credit, overflow, posted, note, penalty, item, edited, line, heard, ops, serial>>
  BY DEF PaymentLapses
<1>2. payment[p] \in PaymentRows /\ payment \in [Payments -> PaymentRows]
  BY StepTyped
<1>3. /\ r \in PaymentRows /\ r.inv = payment[p].inv /\ r.amount = payment[p].amount /\ r.excess = payment[p].excess
      /\ r.status = "pending"
  BY <1>1, <1>2 DEF PaymentRows
<1> HIDE DEF r
<1>4. RowsKept
  BY <1>1, <1>3, MarkKept, StepTyped
<1>5. ASSUME NEW q \in Requests, StillTrue(ops[q]) PROVE StillTrue(ops[q])'
  <2>1. ops[q].kind = "fail" => payment'[ops[q].pay].status = "pending"
    BY <1>1, <1>2, <1>3, <1>5, OpIs, StepTyped DEF StillTrue
  <2> QED
    BY <1>1, <1>5, <2>1 DEF StillTrue, Voidable, Payable, Outstanding
<1> QED
  BY <1>1, <1>4, <1>5, ClockStep

LEMMA PayCommitStep == ASSUME BookInv, NEW q \in Requests, PayCommit(q) PROVE BookInv'
<1> DEFINE r == ops[q].new
<1>1. PICK p \in NextRow(Fresh) : payment' = [payment EXCEPT ![p] = r]
  BY DEF PayCommit
<1>2. /\ ops[q].kind = "pay" /\ End(q)
      /\ UNCHANGED <<invoice, credit, overflow, posted, note, penalty, item, edited, line, heard, serial>>
  BY DEF PayCommit
<1>3. ops[q] \in Op /\ ops[q] # NoOp
  BY <1>2, StepTyped DEF NoOp
<1>4. r \in PaymentRows /\ r.status = "pending" /\ r.excess = 0 /\ r.inv \in Invoices /\ Exists(r.inv)
  BY <1>2, <1>3, OpIs, StepTyped DEF AllKnow, Knows
<1>5. p \in Payments /\ payment[p].status = "none"
  BY DEF NextRow, Fresh
<1>6. serial => Payable(r.inv)
  BY <1>2, <1>3, StepTyped DEF Turns, StillTrue
<1> HIDE DEF r
<1>7. payment' \in [Payments -> PaymentRows] /\ payment'[p] = r /\ \A s \in Payments \ {p} : payment'[s] = payment[s]
  BY <1>1, <1>4, <1>5, StepTyped
<1>8. RowsTyped'
  BY <1>2, <1>7, StepTyped DEF RowsTyped
<1>9. \A s \in Payments : Hangs(payment[s])' /\ (Recorded(s) => Recorded(s)')
  <2>1. Hangs(payment[p])' /\ Recorded(p)'
    <3>1. 0 <= r.amount
      BY <1>4 DEF PaymentRows
    <3> QED
      BY <1>2, <1>4, <1>7, <3>1 DEF Hangs, Exists, Recorded
  <2>2. \A s \in Payments \ {p} : Hangs(payment[s])' /\ (Recorded(s) => Recorded(s)')
    BY <1>2, <1>7, StepTyped DEF RowsHang, Hangs, Exists, Recorded
  <2> QED
    BY <2>1, <2>2
<1>10. ASSUME NEW s \in Payments, NEW i \in Invoices
       PROVE  Gave(payment'[s], i) = Gave(payment[s], i) /\ Gave(payment'[s], i) <= Gave(payment[s], i)
  <2>1. Gave(payment[s], i) \in Int
    BY StepTyped, GaveInt
  <2>2. Gave(payment'[s], i) = Gave(payment[s], i)
    BY <1>4, <1>5, <1>7 DEF Gave
  <2> QED
    BY <2>1, <2>2
<1>11. ASSUME serial
       PROVE  (\A i \in Invoices : Sound(invoice'[i]) /\ Share(invoice'[i]) = posted[i]) /\ NothingPends' /\ LinesBooked'
  <2>1. InvoicesSound /\ NothingPends /\ LinesBooked
    BY <1>11, StepTyped DEF SerialBooks
  <2>2. NothingPends'
    <3> SUFFICES ASSUME NEW j \in Invoices, invoice[j].status = "cancelled", NEW s \in Payments,
                        payment'[s].status = "pending", payment'[s].inv = j
                 PROVE  FALSE
      BY <1>2 DEF NothingPends, Pending
    <3>1. s # p
      BY <1>6, <1>7, <1>11 DEF Payable, Open
    <3> QED
      BY <1>7, <2>1, <3>1 DEF NothingPends, Pending
  <2> QED
    BY <1>2, <2>1, <2>2 DEF InvoicesSound, LinesBooked
<1>12. \A i \in Invoices : Exists(i) => Exists(i)'
  BY <1>2 DEF Exists
<1>13. RowsKept
  BY <1>2, <1>8, <1>9, <1>10, <1>11, <1>12, PlainStep
<1> QED
  BY <1>2, <1>3, <1>13, EndQuiet, QuietStep

LEMMA SweepStep == ASSUME BookInv, Sweep PROVE BookInv'
<1>0. /\ Calm /\ UNCHANGED <<credit, overflow, posted, note, item, edited, line, heard, ops, serial>>
      /\ invoice \in [Invoices -> InvoiceRows] /\ payment \in [Payments -> PaymentRows]
      /\ penalty \in [Invoices -> PenaltyRows]
  BY StepTyped DEF Sweep
<1>1. \A i \in Invoices :
        /\ invoice'[i] \in InvoiceRows /\ invoice'[i].total = invoice[i].total /\ invoice'[i].paid = invoice[i].paid
        /\ invoice'[i].credited = invoice[i].credited
        /\ invoice'[i].status = invoice[i].status
           \/ (invoice'[i].status = "overdue" /\ invoice[i].status \in {"issued", "partially_paid"})
  <2> TAKE i \in Invoices
  <2>1. invoice[i] \in InvoiceRows
    BY <1>0
  <2>2. invoice'[i] = IF invoice[i].status \in {"issued", "partially_paid"} /\ invoice[i].late
                      THEN [invoice[i] EXCEPT !.status = "overdue"] ELSE invoice[i]
    BY DEF Sweep
  <2> QED
    BY <2>1, <2>2 DEF InvoiceRows, InvoiceStatus, Open
<1>2. \A p \in Payments :
        /\ payment'[p] \in PaymentRows /\ payment'[p].inv = payment[p].inv
        /\ payment'[p].amount = payment[p].amount /\ payment'[p].excess = payment[p].excess
        /\ payment'[p].status = payment[p].status \/ (payment'[p].status = "expired" /\ payment[p].status = "pending")
  <2> TAKE p \in Payments
  <2>1. payment[p] \in PaymentRows
    BY <1>0
  <2>2. payment'[p] = IF payment[p].status = "pending" /\ payment[p].lapsed
                      THEN [payment[p] EXCEPT !.status = "expired"] ELSE payment[p]
    BY DEF Sweep
  <2> QED
    BY <2>1, <2>2 DEF PaymentRows, PaymentStatus
<1>3. invoice' \in [Invoices -> InvoiceRows] /\ payment' \in [Payments -> PaymentRows]
  BY <1>1, <1>2 DEF Sweep
<1>4. penalty' \in [Invoices -> PenaltyRows]
  <2>1. PICK amount \in [Invoices -> Amounts \cup {0}] : penalty' = [i \in Invoices |-> Accrued(i, amount[i])]
    BY DEF Sweep
  <2>2. ASSUME NEW i \in Invoices PROVE Accrued(i, amount[i]) \in PenaltyRows
    <3>1. penalty[i] \in PenaltyRows /\ amount[i] \in Nat
      <4>1. Amounts \cup {0} \subseteq Nat
        BY BillingAssumption
      <4>2. amount[i] \in Nat
        BY <4>1
      <4> QED
        BY <1>0, <4>2
    <3>2. penalty[i].accrued \in Nat
      BY <3>1 DEF PenaltyRows
    <3>3. Greater(penalty[i].accrued, amount[i]) \in Nat
      BY <3>1, <3>2 DEF Greater
    <3> QED
      BY <3>1, <3>3 DEF Accrued, PenaltyRows
  <2> QED
    BY <2>1, <2>2
<1>5. RowsTyped'
  BY <1>0, <1>3, <1>4, StepTyped DEF RowsTyped
<1>6. ASSUME serial
      PROVE  (\A j \in Invoices : Sound(invoice'[j]) /\ Share(invoice'[j]) = Share(invoice[j])) /\ NothingPends'
  <2>1. InvoicesSound /\ NothingPends
    BY <1>6, StepTyped DEF SerialBooks
  <2>2. ASSUME NEW j \in Invoices PROVE Sound(invoice'[j]) /\ Share(invoice'[j]) = Share(invoice[j])
    <3>1. Sound(invoice[j])
      BY <2>1 DEF InvoicesSound
    <3>2. Share(invoice'[j]) = Share(invoice[j])
      BY <1>1, ShareSame
    <3>3. Sound(invoice'[j])
      BY <1>1, <3>1 DEF Sound, Open
    <3> QED
      BY <3>2, <3>3
  <2>3. NothingPends'
    <3> SUFFICES ASSUME NEW j \in Invoices, invoice'[j].status = "cancelled", NEW s \in Payments,
                        payment'[s].status = "pending", payment'[s].inv = j
                 PROVE  FALSE
      BY DEF NothingPends, Pending
    <3>1. invoice[j].status = "cancelled" /\ payment[s].status = "pending" /\ payment[s].inv = j
      BY <1>1, <1>2
    <3> QED
      BY <2>1, <3>1 DEF NothingPends, Pending
  <2> QED
    BY <2>2, <2>3
<1>7. RowsKept
  <2>1. \A j \in Invoices : /\ invoice'[j].paid = invoice[j].paid
                            /\ invoice[j].status # "none" => invoice'[j].status # "none"
    BY <1>1
  <2> QED
    BY <1>0, <1>2, <1>5, <1>6, <2>1, CloseKept
<1> QED
  BY <1>0, <1>7, CalmQuiet, QuietStep

LEMMA BillCommitStep == ASSUME BookInv, NEW q \in Requests, BillCommit(q) PROVE BookInv'
<1> DEFINE billed == ops[q].billed
<1>1. PICK S \in (SUBSET {i \in Invoices : Billable(i, billed)}) \ {{}}, n \in Invoices, status \in {"draft", "issued"} :
        LET billing == [j \in Invoices |-> IF j \in S THEN penalty[j].accrued - billed[j] ELSE 0]
        IN /\ NewInvoice(n, TRUE, SumFunction(billing), status)
           /\ item' = [item EXCEPT ![n] = billing]
           /\ penalty' = [j \in Invoices |->
                IF j \in S /\ penalty[j].status = "final"
                THEN [penalty[j] EXCEPT !.status = "billed"] ELSE penalty[j]]
  BY DEF BillCommit
<1> DEFINE billing == [j \in Invoices |-> IF j \in S THEN penalty[j].accrued - billed[j] ELSE 0]
           total == SumFunction(billing)
<1>2. /\ ops[q].kind = "bill" /\ End(q)
      /\ UNCHANGED <<payment, credit, overflow, posted, note, edited, line, heard, serial>>
  BY DEF BillCommit
<1>3. ops[q] \in Op /\ ops[q] # NoOp /\ billed \in [Invoices -> Int]
  BY <1>2, StepTyped, OpIs DEF NoOp
<1> HIDE DEF billed
<1>4. PICK b \in S : b \in Invoices
  <2>1. S \subseteq Invoices /\ S # {}
    OBVIOUS
  <2>2. \E b \in S : TRUE
    BY <2>1
  <2> QED
    BY <2>1, <2>2
<1>5. \A j \in S : j \in Invoices /\ penalty[j].accrued > billed[j] /\ penalty[j].accrued \in Nat /\ billed[j] \in Int
  BY <1>3, StepTyped DEF Billable, PenaltyRows
<1>6. (\A j \in Invoices : billing[j] \in Nat) /\ billing[b] > 0 /\ DOMAIN billing = Invoices
      /\ billing \in [Invoices -> Int]
  BY <1>4, <1>5
<1>7. NewInvoice(n, TRUE, total, status) /\ item' = [item EXCEPT ![n] = billing]
  BY <1>1
<1>8. penalty' \in [Invoices -> PenaltyRows]
  <2>1. penalty' = [j \in Invoices |-> IF j \in S /\ penalty[j].status = "final"
                                      THEN [penalty[j] EXCEPT !.status = "billed"] ELSE penalty[j]]
    BY <1>1
  <2>2. penalty \in [Invoices -> PenaltyRows]
    BY StepTyped
  <2>3. \A j \in Invoices : [penalty[j] EXCEPT !.status = "billed"] \in PenaltyRows
    BY <2>2 DEF PenaltyRows
  <2> QED
    BY <2>1, <2>2, <2>3
<1> HIDE DEF billing
<1>9. total \in Nat /\ total > 0
  <2>1. IsFiniteSet(Invoices)
    BY Finite
  <2>2. SumFunctionOnSet(billing, Invoices) \in Nat /\ billing[b] <= SumFunctionOnSet(billing, Invoices)
    BY <1>4, <1>6, <2>1, SumNat
  <2>3. total = SumFunctionOnSet(billing, Invoices)
    BY <1>6 DEF SumFunction
  <2> QED
    BY <1>4, <1>6, <2>2, <2>3
<1> HIDE DEF total
<1>10. item' \in [Invoices -> [Invoices -> Int]] /\ edited' \subseteq Invoices
  BY <1>2, <1>6, <1>7, StepTyped
<1> DEFINE fine == TRUE
<1>f. fine \in BOOLEAN /\ NewInvoice(n, fine, total, status)
  BY <1>7
<1> HIDE DEF fine
<1>11. RowsKept
  BY <1>2, <1>8, <1>9, <1>10, <1>f, InsertKept
<1> QED
  BY <1>2, <1>3, <1>11, EndQuiet, QuietStep

LEMMA WaiveStep == ASSUME BookInv, NEW i \in Invoices, Waive(i) PROVE BookInv'
<1>1. /\ Calm /\ UNCHANGED <<invoice, payment, credit, overflow, posted, note, item, edited, line, heard, ops, serial>>
      /\ penalty' = [penalty EXCEPT ![i].status = "waived"]
  BY DEF Waive
<1>2. penalty' \in [Invoices -> PenaltyRows]
  BY <1>1, StepTyped DEF PenaltyRows
<1>3. serial => LinesBooked'
  BY <1>1, StepTyped DEF LinesBooked
<1>4. RowsKept
  BY <1>1, <1>2, <1>3, MoneyStill, StepTyped DEF RowsHang
<1> QED
  BY <1>1, <1>4, CalmQuiet, QuietStep

(* A bank line is marked, and nothing else changes.                         *)
LEMMA LineKept ==
    ASSUME BookInv, line' \in [Lines -> LineRows], serial => LinesBooked',
           UNCHANGED <<invoice, payment, credit, overflow, posted, note, penalty, item, edited, heard, serial>>
    PROVE  RowsKept
BY MoneyStill, StepTyped DEF RowsHang

LEMMA MatchSettledStep == ASSUME BookInv, NEW b \in Lines, MatchSettled(b) \/ Ignore(b) PROVE BookInv'
<1>1. /\ Calm /\ line[b].status \in Unsettled
      /\ UNCHANGED <<invoice, payment, credit, overflow, posted, note, penalty, item, edited, heard, ops, serial>>
      /\ line' = [line EXCEPT ![b].status = "matched"] \/ line' = [line EXCEPT ![b].status = "ignored"]
  BY DEF MatchSettled, Ignore
<1>2. line' \in [Lines -> LineRows] /\ \A c \in Lines : line'[c].booked = line[c].booked /\ (c # b => line'[c] = line[c])
  <2>1. line \in [Lines -> LineRows]
    BY StepTyped
  <2>2. \A status \in {"matched", "ignored"} :
           /\ [line[b] EXCEPT !.status = status] \in LineRows
           /\ [line[b] EXCEPT !.status = status].booked = line[b].booked
    BY <2>1 DEF LineRows
  <2>3. PICK status \in {"matched", "ignored"} : line' = [line EXCEPT ![b] = [line[b] EXCEPT !.status = status]]
    BY <1>1, <2>1
  <2> QED
    BY <2>1, <2>2, <2>3
<1>3. ASSUME serial PROVE LinesBooked'
  <2>1. LinesBooked /\ \A c \in Lines : line[c].booked \in Nat
    BY <1>3, StepTyped DEF LineRows
  <2>2. line[b].booked = 0
    BY <1>1, <2>1 DEF LinesBooked, Unsettled
  <2> QED
    BY <1>2, <2>1, <2>2 DEF LinesBooked
<1>4. RowsKept
  BY <1>1, <1>2, <1>3, LineKept
<1> QED
  BY <1>1, <1>4, CalmQuiet, QuietStep

LEMMA RestoreCommitStep == ASSUME BookInv, NEW q \in Requests, RestoreCommit(q) PROVE BookInv'
<1>1. /\ ops[q].kind = "restore" /\ End(q)
      /\ UNCHANGED <<invoice, payment, credit, overflow, posted, note, penalty, item, edited, heard, serial>>
  BY DEF RestoreCommit
<1>2. ops[q] \in Op /\ ops[q] # NoOp
  BY <1>1, StepTyped DEF NoOp
<1> DEFINE open == ops[q].open  back == ops[q].back
<1>3. PICK suggested \in SUBSET open :
         line' = [c \in Lines |->
                    IF c \in suggested THEN [line[c] EXCEPT !.status = "suggested"]
                    ELSE IF c = back THEN [line[c] EXCEPT !.status = "unmatched"] ELSE line[c]]
  BY DEF RestoreCommit
<1>4. serial => \A b \in open \cup {back} : line[b].status # "matched"
  BY <1>1, <1>2, StepTyped DEF Turns, StillTrue
<1> HIDE DEF open, back
<1>5. /\ line' \in [Lines -> LineRows]
      /\ \A c \in Lines : line'[c].booked = line[c].booked /\ (c \notin open \cup {back} => line'[c] = line[c])
  BY <1>3, StepTyped DEF LineRows
<1>6. ASSUME serial PROVE LinesBooked'
  <2> SUFFICES ASSUME NEW c \in Lines PROVE line'[c].booked <= IF line'[c].status = "matched" THEN 1 ELSE 0
    BY DEF LinesBooked
  <2>1. line[c].booked \in Nat /\ line[c].booked <= IF line[c].status = "matched" THEN 1 ELSE 0
    BY <1>6, StepTyped DEF LinesBooked, LineRows
  <2>2. CASE c \in open \cup {back}
    BY <1>4, <1>5, <1>6, <2>1, <2>2
  <2>3. CASE c \notin open \cup {back}
    BY <1>5, <2>1, <2>3
  <2> QED
    BY <2>2, <2>3
<1>7. RowsKept
  BY <1>1, <1>5, <1>6, LineKept
<1> QED
  BY <1>1, <1>2, <1>7, EndQuiet, QuietStep

(* Settle, of a payment that is not paid.                                   *)
LEMMA SettleStep ==
    ASSUME BookInv, NEW p \in Payments, payment[p].status \in Verifiable, NEW amount \in Nat, Settle(p, payment[p], amount, 0),
           UNCHANGED <<overflow, note, item, edited, ops, serial>>, heard' \subseteq Payments \X Outcomes, Calm,
           line' \in [Lines -> LineRows], serial => LinesBooked'
    PROVE  BookInv'
<1>1. payment[p] \in PaymentRows /\ Exists(payment[p].inv) /\ payment[p].status # "paid" /\ credit \in Int
  BY StepTyped DEF RowsHang, Hangs, Verifiable
<1>2. serial => 0 <= credit
  BY StepTyped DEF SerialBooks
<1>3. RowsKept
  BY <1>1, <1>2, SettleKept
<1> QED
  BY <1>3, CalmQuiet, QuietStep

LEMMA VerifyStep == ASSUME BookInv, NEW p \in Payments, Verify(p) PROVE BookInv'
<1>1. PICK amount \in Amounts \cup {payment[p].amount} : Settle(p, payment[p], amount, 0)
  BY DEF Verify
<1>2. amount \in Nat
  <2>1. payment[p].amount \in Nat /\ Amounts \subseteq Nat
    BY StepTyped, BillingAssumption DEF PaymentRows
  <2> QED
    BY <2>1
<1>3. Calm /\ payment[p].status \in Verifiable /\ UNCHANGED <<overflow, note, item, edited, line, heard, ops, serial>>
  BY DEF Verify
<1>4. serial => LinesBooked'
  BY <1>3, StepTyped DEF LinesBooked
<1> QED
  BY <1>1, <1>2, <1>3, <1>4, SettleStep, StepTyped

LEMMA WebhookPaidStep == ASSUME BookInv, NEW p \in Payments, WebhookPaid(p) PROVE BookInv'
<1>1. Calm /\ heard' = heard \cup {<<p, "paid">>} /\ UNCHANGED <<overflow, note, item, edited, line, ops, serial>>
  BY DEF WebhookPaid
<1>2. heard' \subseteq Payments \X Outcomes /\ (serial => LinesBooked')
  BY <1>1, StepTyped DEF Outcomes, LinesBooked
<1>3. CASE payment[p].status = "pending" /\ Settle(p, payment[p], payment[p].amount, 0)
  <2>1. payment[p].amount \in Nat /\ payment[p].status \in Verifiable
    BY <1>3, StepTyped DEF PaymentRows, Verifiable
  <2> QED
    BY <1>1, <1>2, <1>3, <2>1, SettleStep, StepTyped
<1>4. CASE UNCHANGED <<invoice, payment, credit, posted, penalty>>
  <2>1. RowsKept
    BY <1>1, <1>2, <1>4, MoneyStill, StepTyped DEF RowsHang
  <2> QED
    BY <1>1, <2>1, CalmQuiet, QuietStep
<1> QED
  BY <1>3, <1>4 DEF WebhookPaid

LEMMA MatchStep == ASSUME BookInv, NEW b \in Lines, Match(b) PROVE BookInv'
<1> DEFINE next == [line EXCEPT ![b] = [status |-> "matched", booked |-> @.booked + 1]]
<1>1. Calm /\ line[b].status \in Unsettled /\ UNCHANGED <<overflow, note, item, edited, heard, ops, serial>>
  BY DEF Match
<1>2. ASSUME line' = next
      PROVE  line' \in [Lines -> LineRows] /\ (serial => LinesBooked')
  <2>1. \A c \in Lines : line[c].booked \in Nat
    BY StepTyped DEF LineRows
  <2>2. line' \in [Lines -> LineRows]
    BY <1>2, <2>1, StepTyped DEF LineRows
  <2>3. ASSUME serial PROVE LinesBooked'
    <3>1. line[b].booked = 0 /\ LinesBooked
      BY <1>1, <2>1, <2>3, StepTyped DEF LinesBooked, Unsettled
    <3>2. line'[b].booked = 1 /\ line'[b].status = "matched" /\ \A c \in Lines \ {b} : line'[c] = line[c]
      BY <1>2, <3>1, StepTyped
    <3> QED
      BY <3>1, <3>2 DEF LinesBooked
  <2> QED
    BY <2>2, <2>3
<1>3. PICK amount \in Amounts :
         \/ (\E p \in Payments : payment[p].status \in Verifiable /\ Settle(p, payment[p], amount, 0)) /\ line' = next
         \/ (\E f \in Allocations(amount) : ReceiveTx(amount, f)) /\ line' = next
  BY DEF Match
<1>4. amount \in Nat /\ line' = next
  BY <1>3, BillingAssumption
<1>5. CASE \E p \in Payments : payment[p].status \in Verifiable /\ Settle(p, payment[p], amount, 0)
  <2>1. PICK p \in Payments : payment[p].status \in Verifiable /\ Settle(p, payment[p], amount, 0)
    BY <1>5
  <2> QED
    BY <1>1, <1>2, <1>4, <2>1, SettleStep, StepTyped
<1>6. CASE \E f \in Allocations(amount) : ReceiveTx(amount, f)
  <2>1. PICK f \in Allocations(amount) : ReceiveTx(amount, f)
    BY <1>6
  <2>2. RowsKept
    BY <1>1, <1>2, <1>4, <2>1, ReceiveKept
  <2> QED
    BY <1>1, <2>2, CalmQuiet, QuietStep
<1> QED
  BY <1>3, <1>5, <1>6

LEMMA ReceiveStep == ASSUME BookInv, Receive PROVE BookInv'
<1>1. Calm /\ UNCHANGED <<overflow, note, item, edited, line, heard, ops, serial>>
  BY DEF Receive
<1>2. PICK amount \in Amounts : \E f \in Allocations(amount) : ReceiveTx(amount, f)
  BY DEF Receive
<1>3. PICK f \in Allocations(amount) : ReceiveTx(amount, f)
  BY <1>2
<1>4. amount \in Nat /\ (serial => LinesBooked')
  BY <1>1, BillingAssumption, StepTyped DEF LinesBooked
<1>5. RowsKept
  BY <1>1, <1>3, <1>4, ReceiveKept, StepTyped
<1> QED
  BY <1>1, <1>5, CalmQuiet, QuietStep

LEMMA WebhookRefundedStep == ASSUME BookInv, NEW p \in Payments, WebhookRefunded(p) PROVE BookInv'
<1>1. /\ Calm /\ heard' = heard \cup {<<p, "refunded">>} /\ Refund(p, FALSE, credit)
      /\ UNCHANGED <<overflow, note, penalty, item, edited, line, ops, serial>>
  BY DEF WebhookRefunded
<1>2. heard' \subseteq Payments \X Outcomes /\ credit \in Int /\ credit <= credit
  BY <1>1, StepTyped DEF Outcomes
<1>3. RowsKept
  BY <1>1, <1>2, RefundKept
<1> QED
  BY <1>1, <1>3, CalmQuiet, QuietStep

LEMMA RefundCommitStep == ASSUME BookInv, NEW q \in Requests, RefundCommit(q) PROVE BookInv'
<1> DEFINE op == ops[q]
<1>1. /\ op.kind = "refund" /\ End(q) /\ Refund(op.pay, op.toCredit, op.balance)
      /\ UNCHANGED <<overflow, note, penalty, item, edited, line, heard, serial>>
  BY DEF RefundCommit
<1>2. op \in Op /\ op # NoOp
  BY <1>1, StepTyped DEF NoOp
<1>3. op.pay \in Payments /\ op.toCredit \in BOOLEAN /\ op.balance \in Int
  BY <1>1, <1>2, OpIs
<1>4. (serial => op.balance <= credit) /\ heard' \subseteq Payments \X Outcomes
  BY <1>1, <1>2, StepTyped DEF Turns, StillTrue
<1>5. RowsKept
  <2> HIDE DEF op
  <2> QED
    BY <1>1, <1>3, <1>4, RefundKept
<1> QED
  BY <1>1, <1>2, <1>5, EndQuiet, QuietStep

LEMMA NewPaymentIs ==
    ASSUME NEW i \in Invoices, NEW a \in Nat, NEW m \in Methods
    PROVE  NewPayment(i, a, m) \in PaymentRows /\ NewPayment(i, a, m).inv = i
BY DEF NewPayment, PaymentRows, PaymentStatus

(* A new payment that is settled at once.                                   *)
LEMMA RecordStep ==
    ASSUME BookInv, NEW q \in Requests, End(q), ops[q] # NoOp, NEW i \in Invoices, Exists(i), NEW amount \in Nat,
           NEW method \in Methods, NEW spent \in Nat, serial => spent <= credit,
           \E p \in NextRow(Fresh) : Settle(p, NewPayment(i, amount, method), amount, spent),
           UNCHANGED <<overflow, note, item, edited, line, heard, serial>>
    PROVE  BookInv'
<1> DEFINE pay == NewPayment(i, amount, method)
<1>1. PICK p \in NextRow(Fresh) : Settle(p, pay, amount, spent)
  OBVIOUS
<1>2. p \in Payments /\ payment[p].status # "paid"
  BY DEF NextRow, Fresh
<1>3. pay \in PaymentRows /\ pay.inv = i
  BY NewPaymentIs
<1>4. heard' \subseteq Payments \X Outcomes /\ line' \in [Lines -> LineRows] /\ (serial => LinesBooked')
  BY StepTyped DEF LinesBooked
<1> HIDE DEF pay
<1>5. RowsKept
  BY <1>1, <1>2, <1>3, <1>4, SettleKept
<1> QED
  BY <1>5, EndQuiet, QuietStep

LEMMA RecordCommitStep == ASSUME BookInv, NEW q \in Requests, RecordCommit(q) PROVE BookInv'
<1>1. /\ ops[q].kind = "record" /\ End(q) /\ UNCHANGED <<overflow, note, item, edited, line, heard, serial>>
      /\ \E p \in NextRow(Fresh) :
            Settle(p, NewPayment(ops[q].inv, ops[q].amount, "manual"), ops[q].amount, 0)
  BY DEF RecordCommit
<1>2. ops[q] \in Op /\ ops[q] # NoOp
  BY <1>1, StepTyped DEF NoOp
<1>3. ops[q].inv \in Invoices /\ Exists(ops[q].inv) /\ ops[q].amount \in Nat /\ "manual" \in Methods
  BY <1>1, <1>2, OpIs, StepTyped DEF AllKnow, Knows, Methods
<1>4. serial => 0 <= credit
  BY StepTyped DEF SerialBooks
<1> QED
  BY <1>1, <1>2, <1>3, <1>4, RecordStep

LEMMA ApplyCommitStep == ASSUME BookInv, NEW q \in Requests, ApplyCommit(q) PROVE BookInv'
<1>1. /\ ops[q].kind = "apply" /\ End(q) /\ UNCHANGED <<overflow, note, item, edited, line, heard, serial>>
      /\ \E p \in NextRow(Fresh) :
            Settle(p, NewPayment(ops[q].inv, ops[q].amount, "credit"), ops[q].amount, ops[q].amount)
  BY DEF ApplyCommit
<1>2. ops[q] \in Op /\ ops[q] # NoOp
  BY <1>1, StepTyped DEF NoOp
<1>3. ops[q].inv \in Invoices /\ Exists(ops[q].inv) /\ ops[q].amount \in Nat /\ "credit" \in Methods
  BY <1>1, <1>2, OpIs, StepTyped DEF AllKnow, Knows, Methods
<1>4. serial => ops[q].amount <= credit
  BY <1>1, <1>2, StepTyped DEF Turns, StillTrue
<1> QED
  BY <1>1, <1>2, <1>3, <1>4, RecordStep

(* The notes change alone.                                                  *)
LEMMA NotesKept ==
    ASSUME BookInv, NEW n \in Notes, NEW r \in NoteRows, note' = [note EXCEPT ![n] = r],
           r.status # "none" => Exists(r.inv),
           UNCHANGED <<invoice, payment, credit, overflow, posted, penalty, item, edited, line, heard, serial>>
    PROVE  RowsKept
<1>1. note' \in [Notes -> NoteRows] /\ \A m \in Notes : note'[m].status # "none" => Exists(note'[m].inv)
  BY StepTyped DEF RowsHang
<1>2. serial => LinesBooked'
  BY StepTyped DEF LinesBooked
<1> QED
  BY <1>1, <1>2, MoneyStill, StepTyped

LEMMA NoteCommitStep == ASSUME BookInv, NEW q \in Requests, NoteCommit(q) PROVE BookInv'
<1> DEFINE i == ops[q].inv  a == ops[q].amount
<1>1. PICK n \in NextRow({m \in Notes : note[m].status = "none"}) :
         note' = [note EXCEPT ![n] = [status |-> "pending", inv |-> i, amount |-> a]]
  BY DEF NoteCommit
<1>2. /\ ops[q].kind = "note" /\ End(q)
      /\ UNCHANGED <<invoice, payment, credit, overflow, posted, penalty, item, edited, line, heard, serial>>
  BY DEF NoteCommit
<1>3. ops[q] \in Op /\ ops[q] # NoOp
  BY <1>2, StepTyped DEF NoOp
<1>4. i \in Invoices /\ Exists(i) /\ a \in Nat
  BY <1>2, <1>3, OpIs, StepTyped DEF AllKnow, Knows
<1>5. n \in Notes
  BY DEF NextRow
<1> DEFINE r == [status |-> "pending", inv |-> i, amount |-> a]
<1> HIDE DEF i, a
<1>6. r \in NoteRows /\ r.inv = i
  BY <1>4 DEF NoteRows
<1> HIDE DEF r
<1>7. note' = [note EXCEPT ![n] = r] /\ Exists(r.inv)
  BY <1>1, <1>4, <1>6 DEF r
<1>8. RowsKept
  BY <1>2, <1>5, <1>6, <1>7, NotesKept
<1> QED
  BY <1>2, <1>3, <1>8, EndQuiet, QuietStep

LEMMA NoteRefuseStep == ASSUME BookInv, NEW n \in Notes, NoteRefuse(n) PROVE BookInv'
<1> DEFINE r == [note[n] EXCEPT !.status = "refused"]
<1>1. /\ Calm /\ note[n].status = "pending" /\ note' = [note EXCEPT ![n] = r]
      /\ UNCHANGED <<invoice, payment, credit, overflow, posted, penalty, item, edited, line, heard, ops, serial>>
  BY DEF NoteRefuse
<1>2. r \in NoteRows /\ r.inv = note[n].inv
  BY StepTyped DEF NoteRows
<1>3. Exists(note[n].inv)
  BY <1>1, StepTyped DEF RowsHang
<1> HIDE DEF r
<1>4. RowsKept
  BY <1>1, <1>2, <1>3, NotesKept
<1> QED
  BY <1>1, <1>4, CalmQuiet, QuietStep

LEMMA NoteApproveStep == ASSUME BookInv, NEW n \in Notes, NoteApprove(n) PROVE BookInv'
<1>1. Calm /\ ops' = ops
  BY DEF NoteApprove
<1> QED
  BY <1>1, NoteKept, CalmQuiet, QuietStep

LEMMA AbortStep == ASSUME BookInv, NEW q \in Requests, Abort(q) PROVE BookInv'
<1>1. ops[q] # NoOp /\ End(q) /\ UNCHANGED <<rows, serial>>
  BY DEF Abort
<1> QED
  BY <1>1, RowsStill, EndQuiet, QuietStep

-----------------------------------------------------------------------------
(* What is read holds when it is read.                                      *)

LEMMA InvoiceReadStep ==
    ASSUME BookInv, NEW q \in Requests, NEW i \in Invoices, UpdateRead(q, i) \/ CancelRead(q, i)
    PROVE  BookInv'
<1>1. PICK k \in {"update", "cancel"} :
         /\ Begin(q, [kind |-> k, inv |-> i]) /\ UNCHANGED <<rows, serial>>
         /\ k = "update" => invoice[i].status = "draft"
         /\ k = "cancel" => Voidable(i)
  BY DEF UpdateRead, CancelRead
<1> DEFINE op == [kind |-> k, inv |-> i]
<1>2. op \in Op
  BY DEF Op
<1>3. Knows(op)
  BY <1>1 DEF Knows, Exists, Voidable, Open
<1>4. StillTrue(op)
  BY <1>1 DEF StillTrue
<1> HIDE DEF op
<1> QED
  BY <1>1, <1>2, <1>3, <1>4, BeginStep DEF op

LEMMA PayReadStep == ASSUME BookInv, NEW q \in Requests, NEW i \in Invoices, PayRead(q, i) PROVE BookInv'
<1>1. Payable(i) /\ UNCHANGED <<rows, serial>>
  BY DEF PayRead
<1>2. PICK amount \in Amounts \cup {Outstanding(i)}, method \in {"gateway", "manual"} :
         Begin(q, [kind |-> "pay", new |-> NewPayment(i, amount, method)])
  BY DEF PayRead
<1> DEFINE new == NewPayment(i, amount, method)
           op == [kind |-> "pay", new |-> new]
<1>3. amount \in Nat
  <2>1. Outstanding(i) \in Int /\ Outstanding(i) > 0
    BY <1>1, StepTyped DEF Payable, Outstanding, InvoiceRows
  <2>2. Amounts \subseteq Nat
    BY BillingAssumption
  <2>3. CASE amount \in Amounts
    BY <2>2, <2>3
  <2>4. CASE amount = Outstanding(i)
    BY <2>1, <2>4
  <2> QED
    BY <2>3, <2>4
<1>4. new \in [status : {"pending"}, inv : Invoices, amount : Nat, method : Methods, excess : {0}, lapsed : {FALSE}]
      /\ new.inv = i
  BY <1>3 DEF NewPayment, Methods
<1> HIDE DEF new
<1>5. op \in Op
  BY <1>4 DEF Op
<1>6. Knows(op) /\ StillTrue(op)
  BY <1>1, <1>4 DEF Knows, StillTrue, Exists, Payable, Open
<1> HIDE DEF op
<1> QED
  BY <1>1, <1>2, <1>5, <1>6, BeginStep DEF op, new

LEMMA FailReadStep == ASSUME BookInv, NEW q \in Requests, NEW p \in Payments, FailRead(q, p) PROVE BookInv'
<1> DEFINE op == [kind |-> "fail", pay |-> p]
<1>1. Begin(q, op) /\ UNCHANGED <<rows, serial>> /\ payment[p].status = "pending"
  BY DEF FailRead
<1>2. op \in Op
  BY DEF Op
<1>3. Knows(op) /\ StillTrue(op)
  BY <1>1 DEF Knows, StillTrue, Recorded
<1> HIDE DEF op
<1> QED
  BY <1>1, <1>2, <1>3, BeginStep

LEMMA RefundReadStep == ASSUME BookInv, NEW q \in Requests, NEW p \in Payments, RefundRead(q, p) PROVE BookInv'
<1>1. PICK toCredit \in BOOLEAN :
         Begin(q, [kind |-> "refund", pay |-> p, toCredit |-> toCredit, balance |-> credit])
  BY DEF RefundRead
<1> DEFINE op == [kind |-> "refund", pay |-> p, toCredit |-> toCredit, balance |-> credit]
<1>2. UNCHANGED <<rows, serial>> /\ credit \in Int
  BY StepTyped DEF RefundRead
<1>3. op \in Op
  BY <1>2 DEF Op
<1>4. Knows(op) /\ StillTrue(op)
  BY DEF Knows, StillTrue
<1> HIDE DEF op
<1> QED
  BY <1>1, <1>2, <1>3, <1>4, BeginStep DEF op

(* An amount for an invoice.                                                *)
LEMMA AmountReadStep ==
    ASSUME BookInv, NEW q \in Requests, NEW k \in {"record", "apply", "note"}, NEW i \in Invoices, NEW amount \in Nat,
           Begin(q, [kind |-> k, inv |-> i, amount |-> amount]), UNCHANGED <<rows, serial>>,
           invoice[i].status # "none", k = "apply" => amount <= credit
    PROVE  BookInv'
<1> DEFINE op == [kind |-> k, inv |-> i, amount |-> amount]
<1>1. op \in Op
  BY DEF Op
<1>2. Knows(op) /\ StillTrue(op)
  BY DEF Knows, StillTrue, Exists
<1> HIDE DEF op
<1> QED
  BY <1>1, <1>2, BeginStep DEF op

LEMMA RecordReadStep == ASSUME BookInv, NEW q \in Requests, NEW i \in Invoices, RecordRead(q, i) PROVE BookInv'
<1>1. PICK amount \in Amounts : Begin(q, [kind |-> "record", inv |-> i, amount |-> amount])
  BY DEF RecordRead
<1>2. UNCHANGED <<rows, serial>> /\ invoice[i].status # "none" /\ amount \in Nat
  BY BillingAssumption DEF RecordRead, Payable, Open
<1> QED
  BY <1>1, <1>2, AmountReadStep

LEMMA ApplyReadStep == ASSUME BookInv, NEW q \in Requests, NEW i \in Invoices, ApplyRead(q, i) PROVE BookInv'
<1>1. PICK amount \in 1 .. Lesser(credit, Outstanding(i)) : Begin(q, [kind |-> "apply", inv |-> i, amount |-> amount])
  BY DEF ApplyRead
<1>2. UNCHANGED <<rows, serial>> /\ invoice[i].status # "none"
  BY DEF ApplyRead, Payable, Open
<1>3. amount \in Nat /\ amount <= credit
  <2>1. credit \in Int /\ Outstanding(i) \in Int
    BY StepTyped DEF Outstanding, InvoiceRows
  <2> QED
    BY <2>1 DEF Lesser
<1> QED
  BY <1>1, <1>2, <1>3, AmountReadStep

LEMMA NoteReadStep == ASSUME BookInv, NEW q \in Requests, NEW i \in Invoices, NoteRead(q, i) PROVE BookInv'
<1>1. PICK amount \in 1 .. (invoice[i].total - invoice[i].credited - Requested(i)) :
         Begin(q, [kind |-> "note", inv |-> i, amount |-> amount])
  BY DEF NoteRead
<1>2. UNCHANGED <<rows, serial>> /\ invoice[i].status # "none" /\ amount \in Nat
  BY DEF NoteRead, Open
<1> QED
  BY <1>1, <1>2, AmountReadStep

LEMMA BilledInt == ASSUME item \in [Invoices -> [Invoices -> Int]], NEW j \in Invoices PROVE Billed(j) \in Int
<1> DEFINE f == [i \in Invoices |-> IF invoice[i].status = "cancelled" THEN 0 ELSE item[i][j]]
<1>1. \A i \in Invoices : f[i] \in Int
  OBVIOUS
<1>2. Billed(j) = SumFunctionOnSet(f, Invoices)
  BY DEF Billed, SumFunction
<1> HIDE DEF f
<1> QED
  BY <1>1, <1>2, Finite, SumInt

LEMMA BillReadStep == ASSUME BookInv, NEW q \in Requests, BillRead(q) PROVE BookInv'
<1> DEFINE billed == [j \in Invoices |-> Billed(j)]
           op == [kind |-> "bill", billed |-> billed]
<1>1. Begin(q, op) /\ UNCHANGED <<rows, serial>>
  BY DEF BillRead
<1>2. billed \in [Invoices -> Int]
  BY StepTyped, BilledInt
<1> HIDE DEF billed
<1>3. op \in Op
  BY <1>2 DEF Op
<1>4. Knows(op) /\ StillTrue(op)
  BY DEF Knows, StillTrue
<1> HIDE DEF op
<1> QED
  BY <1>1, <1>3, <1>4, BeginStep

LEMMA RestoreReadStep == ASSUME BookInv, NEW q \in Requests, NEW b \in Lines, RestoreRead(q, b) PROVE BookInv'
<1> DEFINE open == {b} \cup {c \in Lines : line[c].status \in Unsettled}
           op == [kind |-> "restore", back |-> b, open |-> open]
<1>1. Begin(q, op) /\ UNCHANGED <<rows, serial>> /\ line[b].status = "ignored"
  BY DEF RestoreRead
<1>2. open \in SUBSET Lines /\ \A c \in open \cup {b} : line[c].status # "matched"
  BY <1>1 DEF Unsettled
<1> HIDE DEF open
<1>3. op \in Op
  BY <1>2 DEF Op
<1>4. Knows(op) /\ StillTrue(op)
  BY <1>2 DEF Knows, StillTrue
<1> HIDE DEF op
<1> QED
  BY <1>1, <1>3, <1>4, BeginStep

-----------------------------------------------------------------------------
LEMMA BooksInit == ASSUME Init PROVE BookInv
<1>0. /\ invoice = [i \in Invoices |-> NoInvoice] /\ payment = [p \in Payments |-> NoPayment] /\ credit = 0
      /\ overflow = [i \in Invoices |-> 0] /\ posted = [i \in Invoices |-> 0]
      /\ note = [n \in Notes |-> [status |-> "none", inv |-> 0, amount |-> 0]]
      /\ penalty = [i \in Invoices |-> NoPenalty] /\ item = [i \in Invoices |-> NoItems] /\ edited = {}
      /\ line = [b \in Lines |-> [status |-> "unmatched", booked |-> 0]] /\ heard = {}
      /\ ops = [q \in Requests |-> NoOp] /\ serial \in BOOLEAN
  BY DEF Init
<1>1. NoInvoice \in InvoiceRows /\ NoInvoice.status = "none" /\ NoInvoice.paid = 0 /\ Sound(NoInvoice)
  BY DEF NoInvoice, InvoiceRows, InvoiceStatus, Sound, Open
<1>2. NoPayment \in PaymentRows /\ NoPayment.status = "none"
  BY DEF NoPayment, NewPayment, PaymentRows, PaymentStatus, Methods
<1>3. NoPenalty \in PenaltyRows /\ NoItems \in [Invoices -> Int]
  BY DEF NoPenalty, PenaltyRows, NoItems
<1>4. RowsTyped
  BY <1>0, <1>1, <1>2, <1>3 DEF RowsTyped, NoteRows, LineRows
<1>5. RowsHang /\ AllKnow /\ ops \in [Requests -> Op]
  BY <1>0, <1>2, NoOpIs DEF RowsHang, Hangs, AllKnow
<1>6. \A i \in Invoices : SettledOn(i) = 0
  <2> TAKE i \in Invoices
  <2> DEFINE f == [p \in Payments |-> Gave(payment[p], i)]
  <2>1. \A p \in Payments : f[p] = 0
    BY <1>0, <1>2 DEF Gave
  <2>2. SettledOn(i) = SumFunctionOnSet(f, Payments)
    BY SettledIs
  <2> HIDE DEF f
  <2> QED
    BY <2>1, <2>2, Finite, SumZero
<1>7. ReceivedIsBooked /\ NothingAdded
  BY <1>0, <1>1, <1>6 DEF ReceivedIsBooked, NothingAdded
<1>8. InvoicesSound
  <2>1. Share(NoInvoice) = 0
    BY <1>1, ShareOfNothing
  <2> QED
    BY <1>0, <1>1, <2>1 DEF InvoicesSound
<1>9. NothingPends /\ LinesBooked /\ Turns /\ credit >= 0
  BY <1>0, <1>1 DEF NothingPends, LinesBooked, Turns
<1> QED
  BY <1>4, <1>5, <1>7, <1>8, <1>9 DEF BookInv, MoneyInv, SerialBooks

LEMMA BooksStay == ASSUME BookInv, UNCHANGED vars PROVE BookInv'
<1>1. RowsKept
  BY RowsStill DEF vars, rows
<1>2. \A q \in Requests : StillTrue(ops[q]) => StillTrue(ops[q])'
  BY DEF vars, StillTrue, Voidable, Payable, Outstanding
<1> QED
  BY <1>1, <1>2, ClockStep DEF vars

LEMMA RequestStep ==
    ASSUME BookInv, NEW q \in Requests,
           \/ InvoiceSteps(q) \/ TenantSteps(q) \/ ReceiptSteps(q)
           \/ BalanceSteps(q) \/ NoteSteps(q) \/ PenaltySteps(q) \/ BankSteps(q)
    PROVE  BookInv'
<1>1. CASE InvoiceSteps(q)
  BY <1>1, InvoiceReadStep, UpdateCommitStep, CancelCommitStep, AbortStep DEF InvoiceSteps
<1>2. CASE TenantSteps(q)
  BY <1>2, PayReadStep, PayCommitStep DEF TenantSteps
<1>3. CASE ReceiptSteps(q)
  BY <1>3, RecordReadStep, FailReadStep, RefundReadStep, RecordCommitStep, FailCommitStep, RefundCommitStep DEF ReceiptSteps
<1>4. CASE BalanceSteps(q)
  BY <1>4, ApplyReadStep, ApplyCommitStep DEF BalanceSteps
<1>5. CASE NoteSteps(q)
  BY <1>5, NoteReadStep, NoteCommitStep DEF NoteSteps
<1>6. CASE PenaltySteps(q)
  BY <1>6, BillReadStep, BillCommitStep DEF PenaltySteps
<1>7. CASE BankSteps(q)
  BY <1>7, RestoreReadStep, RestoreCommitStep DEF BankSteps
<1> QED
  BY <1>1, <1>2, <1>3, <1>4, <1>5, <1>6, <1>7

LEMMA BooksStep == ASSUME BookInv, Next PROVE BookInv'
<1>1. CASE InvoiceTx
  BY <1>1, CreateStep, IssueStep, DuePassesStep DEF InvoiceTx
<1>2. CASE ProviderTx
  BY <1>2, WebhookPaidStep, WebhookRefundedStep, PaymentLapsesStep, WebhookClosedStep DEF ProviderTx
<1>3. CASE StaffTx
  BY <1>3, ReceiveStep, VerifyStep DEF StaffTx
<1>4. CASE NoteTx
  BY <1>4, NoteApproveStep, NoteRefuseStep DEF NoteTx
<1>5. CASE BankTx
  BY <1>5, MatchStep, MatchSettledStep DEF BankTx
<1>6. CASE Sweep
  BY <1>6, SweepStep
<1>7. CASE \E i \in Invoices : Waive(i)
  BY <1>7, WaiveStep
<1>8. CASE \E q \in Requests :
         \/ InvoiceSteps(q) \/ TenantSteps(q) \/ ReceiptSteps(q)
         \/ BalanceSteps(q) \/ NoteSteps(q) \/ PenaltySteps(q) \/ BankSteps(q)
  BY <1>8, RequestStep
<1> QED
  BY <1>1, <1>2, <1>3, <1>4, <1>5, <1>6, <1>7, <1>8 DEF Next

(* The books, the rows they rest on and, while requests take turns, what    *)
(* every request has read.                                                  *)
THEOREM BooksKept == Spec => []BookInv
<1>1. Init => BookInv
  BY BooksInit
<1>2. BookInv /\ [Next]_vars => BookInv'
  BY BooksStay, BooksStep
<1> QED
  BY <1>1, <1>2, PTL DEF Spec

(* Every row, and what every request keeps, has its type.                   *)
THEOREM BillingTyped == Spec => []TypeOK
<1>1. BookInv => TypeOK
  BY DEF BookInv, MoneyInv, RowsTyped, TypeOK, InvoiceRows, PaymentRows, NoteRows, PenaltyRows, LineRows
<1> QED
  BY <1>1, BooksKept, PTL

(* The money of every payment that counts as paid is in the books of its    *)
(* invoice or was moved to the balance by a credit note, however requests,  *)
(* webhooks and the worker overlap.                                         *)
THEOREM ReceivedStaysBooked == Spec => []ReceivedIsBooked
<1>1. BookInv => ReceivedIsBooked
  BY DEF BookInv, MoneyInv
<1> QED
  BY <1>1, BooksKept, PTL

(* While requests take turns, nothing is paid that no payment brought.      *)
THEOREM MoneyComesOnce == Spec => []MoneyOnce
<1>1. BookInv => MoneyOnce
  BY DEF BookInv, SerialBooks, NothingAdded, MoneyOnce
<1> QED
  BY <1>1, BooksKept, PTL

(* While requests take turns, the credit balance is never overdrawn.        *)
THEOREM CreditStaysBacked == Spec => []CreditBacked
<1>1. BookInv => CreditBacked
  BY DEF BookInv, SerialBooks, CreditBacked
<1> QED
  BY <1>1, BooksKept, PTL

(* While requests take turns, every invoice agrees with its money: its      *)
(* status, its bounds, its payments and its share of the sinking fund.      *)
THEOREM InvoicesAgree == Spec => []InvoiceAgrees
<1>1. ASSUME BookInv, serial, NEW i \in Invoices
      PROVE  /\ 0 <= invoice[i].paid /\ invoice[i].paid + invoice[i].credited <= invoice[i].total
             /\ invoice[i].status \in Open \cup {"paid"} => (invoice[i].status = "paid" <=> Outstanding(i) = 0)
             /\ invoice[i].status = "cancelled" => invoice[i].paid = 0 /\ Pending(i) = {}
             /\ posted[i] = Share(invoice[i])
  <2>1. Sound(invoice[i]) /\ posted[i] = Share(invoice[i])
    BY <1>1 DEF BookInv, SerialBooks, InvoicesSound
  <2>2. invoice[i].status = "cancelled" => Pending(i) = {}
    BY <1>1 DEF BookInv, SerialBooks, NothingPends
  <2> QED
    BY <2>1, <2>2 DEF Sound, Outstanding
<1>2. BookInv => InvoiceAgrees
  BY <1>1 DEF InvoiceAgrees
<1> QED
  BY <1>2, BooksKept, PTL

(* While requests take turns, no bank line is booked twice.                 *)
THEOREM LinesBookedOnce == Spec => []LineBookedOnce
<1>1. BookInv => LineBookedOnce
  <2> SUFFICES ASSUME BookInv, serial, NEW b \in Lines PROVE line[b].booked <= 1
    BY DEF LineBookedOnce
  <2>1. line[b].booked \in Nat /\ line[b].booked <= IF line[b].status = "matched" THEN 1 ELSE 0
    BY StepTyped DEF LinesBooked, LineRows
  <2> QED
    BY <2>1
<1> QED
  BY <1>1, BooksKept, PTL

-----------------------------------------------------------------------------
(* Payments that are closed.                                                *)
Closed == {"refunded", "failed", "cancelled"}

NoneReopened == \A p \in Payments : payment[p].status \in Closed => payment'[p].status # "paid"

LEMMA StillClosed == ASSUME payment' = payment PROVE NoneReopened
BY DEF NoneReopened, Closed

LEMMA OneWritten ==
    ASSUME payment \in [Payments -> PaymentRows], NEW p \in Payments, NEW r, payment' = [payment EXCEPT ![p] = r],
           payment[p].status \notin Closed \/ r.status # "paid"
    PROVE  NoneReopened
BY DEF NoneReopened, Closed

LEMMA SettlesOpen ==
    ASSUME payment \in [Payments -> PaymentRows], NEW p \in Payments, NEW pay, NEW amount, NEW spent,
           payment[p].status \notin Closed, Settle(p, pay, amount, spent)
    PROVE  NoneReopened
<1>1. PICK r : payment' = [payment EXCEPT ![p] = r]
  BY DEF Settle
<1> QED
  BY <1>1, OneWritten

LEMMA RefundsClose ==
    ASSUME payment \in [Payments -> PaymentRows], NEW p \in Payments, NEW toCredit, NEW balance, Refund(p, toCredit, balance)
    PROVE  NoneReopened
<1> DEFINE r == [payment[p] EXCEPT !.status = "refunded"]
<1>1. payment' = [payment EXCEPT ![p] = r] /\ r.status = "refunded"
  BY DEF Refund, PaymentRows
<1> HIDE DEF r
<1> QED
  BY <1>1, OneWritten

LEMMA ReceivesFresh ==
    ASSUME payment \in [Payments -> PaymentRows], NEW amount, NEW f, ReceiveTx(amount, f)
    PROVE  NoneReopened
<1>1. PICK g \in [DOMAIN f -> Fresh] : Receives(f, g)
  BY DEF ReceiveTx, Receives
<1>2. ASSUME NEW p \in Payments, payment[p].status \in Closed PROVE payment'[p] = payment[p]
  <2>1. ~ \E i \in DOMAIN f : g[i] = p
    BY <1>2 DEF Fresh, Closed
  <2> QED
    BY <1>1, <2>1 DEF Receives
<1> QED
  BY <1>2 DEF NoneReopened, Closed

LEMMA RequestsClose ==
    ASSUME BookInv, NEW q \in Requests,
           \/ InvoiceSteps(q) \/ TenantSteps(q) \/ ReceiptSteps(q)
           \/ BalanceSteps(q) \/ NoteSteps(q) \/ PenaltySteps(q) \/ BankSteps(q)
    PROVE  NoneReopened
<1>0. payment \in [Payments -> PaymentRows]
  BY StepTyped
<1>1. CASE InvoiceSteps(q)
  <2>1. CASE CancelCommit(q)
    <3>1. \A p \in Payments : payment'[p].status = payment[p].status \/ payment'[p].status = "cancelled"
      BY <1>0, <2>1 DEF CancelCommit, PaymentRows
    <3> QED
      BY <3>1 DEF NoneReopened, Closed
  <2>2. CASE payment' = payment
    BY <2>2, StillClosed
  <2> QED
    BY <1>1, <2>1, <2>2 DEF InvoiceSteps, UpdateRead, CancelRead, UpdateCommit, Abort, rows
<1>2. CASE TenantSteps(q)
  <2>1. CASE PayCommit(q)
    <3>1. PICK p \in NextRow(Fresh) : payment' = [payment EXCEPT ![p] = ops[q].new]
      BY <2>1 DEF PayCommit
    <3>2. p \in Payments /\ payment[p].status \notin Closed
      BY DEF NextRow, Fresh, Closed
    <3> QED
      BY <1>0, <3>1, <3>2, OneWritten
  <2>2. CASE payment' = payment
    BY <2>2, StillClosed
  <2> QED
    BY <1>2, <2>1, <2>2 DEF TenantSteps, PayRead, rows
<1>3. CASE ReceiptSteps(q)
  <2>1. CASE RecordCommit(q)
    <3>1. PICK p \in NextRow(Fresh) : Settle(p, NewPayment(ops[q].inv, ops[q].amount, "manual"), ops[q].amount, 0)
      BY <2>1 DEF RecordCommit
    <3>2. p \in Payments /\ payment[p].status \notin Closed
      BY DEF NextRow, Fresh, Closed
    <3> QED
      BY <1>0, <3>1, <3>2, SettlesOpen
  <2>2. CASE FailCommit(q)
    <3>1. \A p \in Payments : payment'[p].status = payment[p].status \/ payment'[p].status = "failed"
      BY <1>0, <2>2 DEF FailCommit, PaymentRows
    <3> QED
      BY <3>1 DEF NoneReopened, Closed
  <2>3. CASE RefundCommit(q)
    <3>1. ops[q] \in Op /\ ops[q].kind = "refund" /\ Refund(ops[q].pay, ops[q].toCredit, ops[q].balance)
      BY <2>3, StepTyped DEF RefundCommit
    <3>2. ops[q].pay \in Payments
      BY <3>1, OpIs
    <3> QED
      BY <1>0, <3>1, <3>2, RefundsClose
  <2>4. CASE payment' = payment
    BY <2>4, StillClosed
  <2> QED
    BY <1>3, <2>1, <2>2, <2>3, <2>4 DEF ReceiptSteps, RecordRead, FailRead, RefundRead, rows
<1>4. CASE BalanceSteps(q)
  <2>1. CASE ApplyCommit(q)
    <3>1. PICK p \in NextRow(Fresh) :
             Settle(p, NewPayment(ops[q].inv, ops[q].amount, "credit"), ops[q].amount, ops[q].amount)
      BY <2>1 DEF ApplyCommit
    <3>2. p \in Payments /\ payment[p].status \notin Closed
      BY DEF NextRow, Fresh, Closed
    <3> QED
      BY <1>0, <3>1, <3>2, SettlesOpen
  <2>2. CASE payment' = payment
    BY <2>2, StillClosed
  <2> QED
    BY <1>4, <2>1, <2>2 DEF BalanceSteps, ApplyRead, rows
<1>5. CASE NoteSteps(q) \/ PenaltySteps(q) \/ BankSteps(q)
  BY <1>5, StillClosed DEF NoteSteps, NoteRead, NoteCommit, PenaltySteps, BillRead, BillCommit,
     BankSteps, RestoreRead, RestoreCommit, rows
<1> QED
  BY <1>1, <1>2, <1>3, <1>4, <1>5

LEMMA StepCloses == ASSUME BookInv, Next PROVE NoneReopened
<1>0. payment \in [Payments -> PaymentRows]
  BY StepTyped
<1>1. CASE InvoiceTx \/ NoteTx \/ \E i \in Invoices : Waive(i)
  BY <1>1, StillClosed DEF InvoiceTx, Create, Issue, DuePasses, NoteTx, NoteApprove, NoteRefuse, Waive
<1>2. CASE ProviderTx
  <2>1. PICK p \in Payments :
           \/ WebhookPaid(p) \/ WebhookRefunded(p) \/ PaymentLapses(p)
           \/ \E s \in {"failed", "expired", "cancelled"} : WebhookClosed(p, s)
    BY <1>2 DEF ProviderTx
  <2>2. CASE WebhookPaid(p)
    <3>1. CASE payment[p].status = "pending" /\ Settle(p, payment[p], payment[p].amount, 0)
      BY <1>0, <3>1, SettlesOpen DEF Closed
    <3>2. CASE payment' = payment
      BY <3>2, StillClosed
    <3> QED
      BY <2>2, <3>1, <3>2 DEF WebhookPaid
  <2>3. CASE WebhookRefunded(p)
    BY <1>0, <2>3, RefundsClose DEF WebhookRefunded
  <2>4. CASE PaymentLapses(p)
    <3>1. \A s \in Payments : payment'[s].status = payment[s].status
      BY <1>0, <2>4 DEF PaymentLapses, PaymentRows
    <3> QED
      BY <3>1 DEF NoneReopened, Closed
  <2>5. ASSUME NEW status \in {"failed", "expired", "cancelled"}, WebhookClosed(p, status) PROVE NoneReopened
    <3>1. payment' = [payment EXCEPT ![p].status = IF @ = "pending" THEN status ELSE @]
      BY <2>5 DEF WebhookClosed
    <3>2. \A s \in Payments : payment'[s].status = payment[s].status \/ payment'[s].status = status
      BY <1>0, <3>1 DEF PaymentRows
    <3> QED
      BY <3>2 DEF NoneReopened, Closed
  <2> QED
    BY <2>1, <2>2, <2>3, <2>4, <2>5
<1>3. CASE StaffTx
  <2>1. CASE Receive
    <3>1. PICK amount, f : ReceiveTx(amount, f)
      BY <2>1 DEF Receive
    <3> QED
      BY <1>0, <3>1, ReceivesFresh
  <2>2. ASSUME NEW p \in Payments, Verify(p) PROVE NoneReopened
    <3>1. payment[p].status \notin Closed
      BY <2>2 DEF Verify, Verifiable, Closed
    <3>2. PICK amount : Settle(p, payment[p], amount, 0)
      BY <2>2 DEF Verify
    <3> QED
      BY <1>0, <3>1, <3>2, SettlesOpen
  <2> QED
    BY <1>3, <2>1, <2>2 DEF StaffTx
<1>4. CASE BankTx
  <2>1. PICK b \in Lines : Match(b) \/ MatchSettled(b) \/ Ignore(b)
    BY <1>4 DEF BankTx
  <2>2. CASE MatchSettled(b) \/ Ignore(b)
    BY <2>2, StillClosed DEF MatchSettled, Ignore
  <2>3. CASE Match(b)
    <3>1. \/ \E amount : \E p \in Payments : payment[p].status \in Verifiable /\ Settle(p, payment[p], amount, 0)
          \/ \E amount, f : ReceiveTx(amount, f)
      BY <2>3 DEF Match
    <3>2. ASSUME NEW amount, NEW p \in Payments, payment[p].status \in Verifiable, Settle(p, payment[p], amount, 0)
          PROVE  NoneReopened
      <4>1. payment[p].status \notin Closed
        BY <3>2 DEF Verifiable, Closed
      <4> QED
        BY <1>0, <3>2, <4>1, SettlesOpen
    <3> QED
      BY <1>0, <3>1, <3>2, ReceivesFresh
  <2> QED
    BY <2>1, <2>2, <2>3
<1>5. CASE Sweep
  <2>1. \A p \in Payments : payment'[p].status = payment[p].status \/ payment'[p].status = "expired"
    BY <1>0, <1>5 DEF Sweep, PaymentRows
  <2> QED
    BY <2>1 DEF NoneReopened, Closed
<1>6. CASE \E q \in Requests :
         \/ InvoiceSteps(q) \/ TenantSteps(q) \/ ReceiptSteps(q)
         \/ BalanceSteps(q) \/ NoteSteps(q) \/ PenaltySteps(q) \/ BankSteps(q)
  BY <1>6, RequestsClose
<1> QED
  BY <1>1, <1>2, <1>3, <1>4, <1>5, <1>6 DEF Next

(* A payment that was refunded, failed or cancelled never becomes paid,     *)
(* whatever was read before: settleTx settles a waiting or a new payment    *)
(* only, and no stale request writes a status of paid.                      *)
THEOREM ClosedPaymentsStay == Spec => ClosedStaysClosed
<1>1. BookInv /\ [Next]_vars =>
        [\A p \in Payments : payment[p].status \in {"refunded", "failed", "cancelled"} => payment'[p].status # "paid"]_vars
  BY StepCloses DEF NoneReopened, Closed
<1> QED
  BY <1>1, BooksKept, PTL DEF Spec, ClosedStaysClosed

-----------------------------------------------------------------------------
(* Penalties, while no invoice that was cancelled comes back.  It does come *)
(* back when a credit note that was requested before is approved, and when  *)
(* a payment that brought nothing to it is refunded.                        *)
StaysCancelled == \A i \in Invoices : invoice[i].status = "cancelled" => invoice'[i].status = "cancelled"

NoItemsYet == \A i \in Invoices : invoice[i].status = "none" => item[i] = NoItems

ItemsOwed == \A i, j \in Invoices : item[i][j] >= 0

BillsAsRead == serial => \A q \in Requests : ops[q].kind = "bill" => \A j \in Invoices : ops[q].billed[j] = Billed(j)

PenaltyInv == NoItemsYet /\ ItemsOwed /\ PenaltyBilledOnce /\ BillsAsRead

Bill(i, j) == IF invoice[i].status = "cancelled" THEN 0 ELSE item[i][j]

LEMMA BilledIs ==
    ASSUME NEW j \in Invoices
    PROVE  /\ Billed(j) = SumFunctionOnSet([i \in Invoices |-> Bill(i, j)], Invoices)
           /\ Billed(j)' = SumFunctionOnSet([i \in Invoices |-> Bill(i, j)'], Invoices)
BY DEF Billed, SumFunction, Bill

LEMMA BillInt == ASSUME item \in [Invoices -> [Invoices -> Int]], NEW i \in Invoices, NEW j \in Invoices PROVE Bill(i, j) \in Int
BY DEF Bill

(* A sum over the invoices, of which one changes.                           *)
LEMMA InvoiceSumMoves ==
    ASSUME NEW n \in Invoices, NEW f, NEW g,
           \A y \in Invoices : f[y] \in Int /\ g[y] \in Int, \A y \in Invoices \ {n} : g[y] = f[y]
    PROVE  SumFunctionOnSet(g, Invoices) = SumFunctionOnSet(f, Invoices) + g[n] - f[n]
<1>1. IsFiniteSet(Invoices)
  BY Finite
<1> QED
  BY <1>1, SumChange

(* One invoice changes what it bills.                                       *)
OthersBill(n, j) == \A i \in Invoices \ {n} : Bill(i, j)' = Bill(i, j)

LEMMA BilledMoves ==
    ASSUME item \in [Invoices -> [Invoices -> Int]], item' \in [Invoices -> [Invoices -> Int]],
           NEW n \in Invoices, NEW j \in Invoices, OthersBill(n, j)
    PROVE  Billed(j)' = Billed(j) + Bill(n, j)' - Bill(n, j) /\ Billed(j) \in Int
<1> DEFINE f == [i \in Invoices |-> Bill(i, j)]
           g == [i \in Invoices |-> Bill(i, j)']
<1>1. \A i \in Invoices : f[i] \in Int /\ g[i] \in Int
  BY DEF Bill
<1>2. \A i \in Invoices \ {n} : g[i] = f[i]
  BY DEF OthersBill
<1>3. f[n] = Bill(n, j) /\ g[n] = Bill(n, j)'
  OBVIOUS
<1>4. Billed(j) = SumFunctionOnSet(f, Invoices) /\ Billed(j)' = SumFunctionOnSet(g, Invoices)
  BY BilledIs
<1> HIDE DEF f, g
<1>5. IsFiniteSet(Invoices)
  BY Finite
<1>6. SumFunctionOnSet(g, Invoices) = SumFunctionOnSet(f, Invoices) + g[n] - f[n]
  BY <1>1, <1>2, InvoiceSumMoves
<1>7. SumFunctionOnSet(f, Invoices) \in Int
  BY <1>1, <1>5, SumInt
<1> QED
  BY <1>3, <1>4, <1>6, <1>7

LEMMA BilledSame ==
    ASSUME item \in [Invoices -> [Invoices -> Int]], NEW j \in Invoices, \A i \in Invoices : Bill(i, j)' = Bill(i, j)
    PROVE  Billed(j)' = Billed(j)
<1>1. [i \in Invoices |-> Bill(i, j)'] = [i \in Invoices |-> Bill(i, j)]
  OBVIOUS
<1> QED
  BY <1>1, BilledIs

(* A step that bills nothing and takes no bill back.                        *)
Frame ==
    /\ item' = item /\ edited' = edited /\ serial' = serial
    /\ \A i \in Invoices : /\ invoice'[i].status = "cancelled" <=> invoice[i].status = "cancelled"
                           /\ invoice'[i].status = "none" => invoice[i].status = "none"
    /\ \A j \in Invoices : /\ penalty'[j].accrued >= penalty[j].accrued
                           /\ penalty'[j].status = "billed" => penalty'[j] = penalty[j]

Asks == \A q \in Requests : ops'[q].kind = "bill" =>
           ops'[q] = ops[q] \/ \A j \in Invoices : ops'[q].billed[j] = Billed(j)

LEMMA FrameKept ==
    ASSUME BookInv, PenaltyInv, Frame, Asks, penalty' \in [Invoices -> PenaltyRows]
    PROVE  PenaltyInv'
<1>0. item \in [Invoices -> [Invoices -> Int]] /\ penalty \in [Invoices -> PenaltyRows]
  BY StepTyped
<1>1. \A j \in Invoices : Billed(j)' = Billed(j)
  <2> TAKE j \in Invoices
  <2>1. \A i \in Invoices : Bill(i, j)' = Bill(i, j)
    BY DEF Frame, Bill
  <2> QED
    BY <1>0, <2>1, BilledSame
<1>2. NoItemsYet' /\ ItemsOwed'
  BY DEF PenaltyInv, NoItemsYet, ItemsOwed, Frame
<1>3. PenaltyBilledOnce'
  <2> SUFFICES ASSUME serial, NEW j \in Invoices \ edited
               PROVE  Billed(j)' <= penalty'[j].accrued /\ (penalty'[j].status = "billed" => Billed(j)' = penalty'[j].accrued)
    BY DEF PenaltyBilledOnce, Frame
  <2>1. Billed(j) <= penalty[j].accrued /\ (penalty[j].status = "billed" => Billed(j) = penalty[j].accrued)
    BY DEF PenaltyInv, PenaltyBilledOnce
  <2>2. penalty'[j].accrued >= penalty[j].accrued /\ (penalty'[j].status = "billed" => penalty'[j] = penalty[j])
    BY DEF Frame
  <2>3. Billed(j) \in Int /\ penalty[j].accrued \in Int /\ penalty'[j].accrued \in Int
    BY <1>0, BilledInt DEF PenaltyRows
  <2> QED
    BY <1>1, <2>1, <2>2, <2>3
<1>4. BillsAsRead'
  <2> SUFFICES ASSUME serial, NEW q \in Requests, ops'[q].kind = "bill", NEW j \in Invoices
               PROVE  ops'[q].billed[j] = Billed(j)'
    BY DEF BillsAsRead, Frame
  <2> QED
    BY <1>1 DEF Asks, PenaltyInv, BillsAsRead
<1> QED
  BY <1>2, <1>3, <1>4 DEF PenaltyInv

(* Who asks for a bill.                                                     *)
LEMMA AsksSame == ASSUME ops' = ops PROVE Asks
BY DEF Asks

LEMMA AsksEnd == ASSUME BookInv, NEW q \in Requests, End(q) PROVE Asks
<1>1. ops \in [Requests -> Op] /\ NoOp.kind = "none"
  BY StepTyped DEF NoOp
<1> QED
  BY <1>1 DEF End, Asks

LEMMA AsksBegin == ASSUME BookInv, NEW q \in Requests, NEW op, Begin(q, op), op.kind # "bill" PROVE Asks
<1>1. ops \in [Requests -> Op]
  BY StepTyped
<1> QED
  BY <1>1 DEF Begin, Asks

(* What happens to penalties.                                               *)
Stands ==
    \A j \in Invoices : /\ penalty'[j].accrued >= penalty[j].accrued
                        /\ penalty'[j].status = "billed" => penalty'[j] = penalty[j]

LEMMA StandsSame == ASSUME BookInv, penalty' = penalty PROVE Stands
<1>1. \A j \in Invoices : penalty[j].accrued \in Nat
  BY StepTyped DEF PenaltyRows
<1> QED
  BY <1>1 DEF Stands

LEMMA StandsStopped == ASSUME BookInv, NEW S, StopPenalty(S) PROVE Stands
<1>1. ASSUME NEW j \in Invoices
      PROVE  penalty'[j].accrued >= penalty[j].accrued /\ (penalty'[j].status = "billed" => penalty'[j] = penalty[j])
  <2>1. penalty[j] \in PenaltyRows
    BY StepTyped
  <2>2. penalty'[j] = penalty[j] \/ penalty'[j] = [penalty[j] EXCEPT !.status = "final"]
    BY DEF StopPenalty
  <2> QED
    BY <2>1, <2>2 DEF PenaltyRows
<1> QED
  BY <1>1 DEF Stands

LEMMA FrameSame == ASSUME BookInv, UNCHANGED <<invoice, penalty, item, edited, serial>> PROVE Frame
BY StandsSame DEF Frame, Stands

LEMMA FrameRestated ==
    ASSUME BookInv, StaysCancelled, Stands, NEW i \in Invoices, NEW r \in InvoiceRows, Restated(i, r),
           UNCHANGED <<item, edited, serial>>
    PROVE  Frame
<1>1. /\ invoice'[i].status \in Open \cup {"paid"} /\ \A j \in Invoices \ {i} : invoice'[j] = invoice[j]
  BY StepTyped, RestatedRow
<1> QED
  BY <1>1 DEF Frame, Stands, StaysCancelled, Open

LEMMA SettleFrame ==
    ASSUME BookInv, StaysCancelled, NEW p, NEW pay, NEW amount \in Nat, NEW spent, Exists(pay.inv),
           Settle(p, pay, amount, spent), UNCHANGED <<item, edited, serial>>
    PROVE  Frame
<1> DEFINE i == pay.inv
           a == Applied(i, amount)
           r == [invoice[i] EXCEPT !.paid = @ + a]
<1>1. i \in Invoices /\ invoice[i] \in InvoiceRows
  BY StepTyped DEF Exists
<1>2. invoice[i].paid \in Int /\ invoice[i].total \in Nat /\ invoice[i].credited \in Nat
  BY <1>1 DEF InvoiceRows
<1>3. a \in Nat
  BY <1>2 DEF Applied, Lesser, Greater, Outstanding
<1>4. Restated(i, r) /\ StopPenalty({i})
  BY DEF Settle, Book, Restated
<1> HIDE DEF a
<1>5. r \in InvoiceRows
  BY <1>1, <1>2, <1>3 DEF InvoiceRows
<1> HIDE DEF r, i
<1>6. Stands
  BY <1>4, StandsStopped
<1> QED
  BY <1>1, <1>4, <1>5, <1>6, FrameRestated

LEMMA RefundFrame ==
    ASSUME BookInv, StaysCancelled, NEW p \in Payments, NEW toCredit, NEW balance, Refund(p, toCredit, balance),
           UNCHANGED <<penalty, item, edited, serial>>
    PROVE  Frame
<1> DEFINE i == payment[p].inv
           a == Lesser(payment[p].amount - payment[p].excess, invoice[i].paid)
           r == [invoice[i] EXCEPT !.paid = @ + (-a)]
<1>1. i \in Invoices /\ invoice[i] \in InvoiceRows /\ payment[p].amount \in Nat /\ payment[p].excess \in Nat
  BY StepTyped DEF Exists, Refund, RowsHang, Hangs, PaymentRows
<1>2. invoice[i].paid \in Int
  BY <1>1 DEF InvoiceRows
<1>3. a \in Int
  BY <1>1, <1>2 DEF Lesser
<1>4. Restated(i, r)
  BY DEF Refund, Book, Restated
<1> HIDE DEF a
<1>5. r \in InvoiceRows
  BY <1>1, <1>2, <1>3 DEF InvoiceRows
<1> HIDE DEF r, i
<1>6. Stands
  BY StandsSame
<1> QED
  BY <1>1, <1>4, <1>5, <1>6, FrameRestated

LEMMA NoteFrame == ASSUME BookInv, StaysCancelled, NEW n \in Notes, NoteApprove(n) PROVE Frame
<1> DEFINE i == note[n].inv
           credited == invoice[i].credited + note[n].amount
           o == Greater(0, invoice[i].paid + credited - invoice[i].total)
           r == [invoice[i] EXCEPT !.credited = credited, !.paid = @ - o]
<1>1. Exists(i) /\ i \in Invoices /\ note[n].amount \in Nat /\ invoice[i] \in InvoiceRows
  BY StepTyped DEF RowsHang, Exists, NoteRows, NoteApprove
<1>2. /\ invoice[i].paid \in Int /\ invoice[i].total \in Nat /\ invoice[i].credited \in Nat
      /\ credited \in Nat
  BY <1>1 DEF InvoiceRows
<1>3. o \in Nat
  BY <1>2 DEF Greater
<1>4. Restated(i, r) /\ StopPenalty({i}) /\ UNCHANGED <<item, edited, serial>>
  BY DEF NoteApprove, Restated
<1>5. r \in InvoiceRows
  <2>1. r = Correction(invoice[i], credited, o)
    BY DEF Correction
  <2> HIDE DEF o, credited, i, r
  <2> QED
    BY <1>1, <1>2, <1>3, <2>1, Corrected
<1> HIDE DEF r, i, o, credited
<1>6. Stands
  BY <1>4, StandsStopped
<1> QED
  BY <1>1, <1>4, <1>5, <1>6, FrameRestated

LEMMA ReceiveFrame ==
    ASSUME BookInv, StaysCancelled, NEW amount, NEW f \in Allocations(amount), ReceiveTx(amount, f), UNCHANGED <<item, edited, serial>>
    PROVE  Frame
<1>1. /\ DOMAIN f \subseteq Invoices
      /\ \A i \in DOMAIN f : Payable(i) /\ f[i] \in Nat /\ f[i] <= Outstanding(i)
  BY DEF Allocations
<1>2. PICK g \in [DOMAIN f -> Fresh] : Ascending(g) /\ Receives(f, g)
  BY DEF ReceiveTx, Receives
<1>3. Allots(f, g)
  BY <1>1, <1>2, ReceivesAllots, StepTyped
<1>4. Stands
  BY StandsStopped DEF ReceiveTx
<1>5. ASSUME NEW i \in DOMAIN f PROVE invoice'[i].status \in Open \cup {"paid"} /\ invoice[i].status \in Open
  <2> DEFINE r == [invoice[i] EXCEPT !.paid = @ + f[i]]
             n == [r EXCEPT !.status = StatusFor(r)]
  <2>1. i \in Invoices /\ f[i] \in Nat /\ Payable(i) /\ invoice'[i] = n
    BY <1>1, <1>3 DEF Allots
  <2>2. r \in InvoiceRows
    BY <2>1, StepTyped, SMTT(30) DEF InvoiceRows
  <2> HIDE DEF r
  <2>3. n.status \in Open \cup {"paid"}
    BY <2>2, StatusTyped
  <2> HIDE DEF n
  <2> QED
    BY <2>1, <2>3 DEF Payable
<1>6. \A i \in Invoices \ DOMAIN f : invoice'[i] = invoice[i]
  BY <1>3 DEF Allots
<1> QED
  BY <1>4, <1>5, <1>6 DEF Frame, Stands, Open

(* After a commit in turn nobody holds a bill.                              *)
LEMMA QuietBills == ASSUME Quiet, serial' = serial PROVE BillsAsRead'
<1>1. NoOp.kind = "none"
  BY DEF NoOp
<1> QED
  BY <1>1 DEF Quiet, BillsAsRead

LEMMA CancelPenalties ==
    ASSUME BookInv, PenaltyInv, NEW q \in Requests, CancelCommit(q)
    PROVE  PenaltyInv'
<1>p. PICK i : i = ops[q].inv
  OBVIOUS
<1>0. /\ item \in [Invoices -> [Invoices -> Int]] /\ penalty \in [Invoices -> PenaltyRows]
      /\ invoice \in [Invoices -> InvoiceRows]
  BY StepTyped
<1>1. /\ ops[q].kind = "cancel" /\ End(q) /\ invoice' = [invoice EXCEPT ![i].status = "cancelled"]
      /\ penalty' = [j \in Invoices |-> AfterCancel(i, j)] /\ UNCHANGED <<item, edited, serial>>
  BY <1>p DEF CancelCommit
<1>2. i \in Invoices /\ ops[q] # NoOp
  BY <1>p, <1>1, StepTyped DEF AllKnow, Knows, Exists, NoOp
<1>3. /\ invoice'[i].status = "cancelled" /\ \A k \in Invoices \ {i} : invoice'[k] = invoice[k]
  BY <1>0, <1>1, <1>2 DEF InvoiceRows
<1>4. Quiet
  BY <1>1, <1>2, EndQuiet
<1>5. NoItemsYet' /\ ItemsOwed'
  BY <1>1, <1>3 DEF PenaltyInv, NoItemsYet, ItemsOwed
<1>6. serial => invoice[i].status # "cancelled"
  BY <1>p, <1>1, <1>2, StepTyped DEF Turns, StillTrue, Voidable, Open
<1>7. PenaltyBilledOnce'
  <2> SUFFICES ASSUME serial, NEW j \in Invoices \ edited
               PROVE  Billed(j)' <= penalty'[j].accrued /\ (penalty'[j].status = "billed" => Billed(j)' = penalty'[j].accrued)
    BY <1>1 DEF PenaltyBilledOnce
  <2>1. OthersBill(i, j)
    BY <1>1, <1>3 DEF OthersBill, Bill
  <2>2. Bill(i, j)' = 0 /\ Bill(i, j) = item[i][j]
    BY <1>3, <1>6 DEF Bill
  <2>3. item[i][j] \in Int /\ item[i][j] >= 0
    BY <1>0, <1>2 DEF PenaltyInv, ItemsOwed
  <2>4. Billed(j)' = Billed(j) - item[i][j] /\ Billed(j) \in Int
    <3>1. Billed(j)' = Billed(j) + Bill(i, j)' - Bill(i, j) /\ Billed(j) \in Int
      BY <1>0, <1>1, <1>2, <2>1, BilledMoves
    <3> QED
      BY <2>2, <2>3, <3>1
  <2>5. Billed(j) <= penalty[j].accrued /\ (penalty[j].status = "billed" => Billed(j) = penalty[j].accrued)
    BY DEF PenaltyInv, PenaltyBilledOnce
  <2>6. /\ penalty'[j].accrued = penalty[j].accrued /\ penalty[j].accrued \in Int
        /\ penalty'[j].status = "billed" => penalty[j].status = "billed" /\ ~(item[i][j] > 0)
    <3>1. penalty[j] \in PenaltyRows /\ penalty'[j] = AfterCancel(i, j)
      BY <1>0, <1>1
    <3> QED
      BY <3>1 DEF AfterCancel, PenaltyRows
  <2> QED
    BY <2>3, <2>4, <2>5, <2>6
<1> QED
  BY <1>1, <1>4, <1>5, <1>7, QuietBills DEF PenaltyInv

LEMMA BillPenalties ==
    ASSUME BookInv, PenaltyInv, NEW q \in Requests, BillCommit(q)
    PROVE  PenaltyInv'
<1> DEFINE billed == ops[q].billed
<1>1. PICK S \in (SUBSET {i \in Invoices : Billable(i, billed)}) \ {{}}, n \in Invoices, status \in {"draft", "issued"} :
        LET billing == [j \in Invoices |-> IF j \in S THEN penalty[j].accrued - billed[j] ELSE 0]
        IN /\ NewInvoice(n, TRUE, SumFunction(billing), status)
           /\ item' = [item EXCEPT ![n] = billing]
           /\ penalty' = [j \in Invoices |->
                IF j \in S /\ penalty[j].status = "final"
                THEN [penalty[j] EXCEPT !.status = "billed"] ELSE penalty[j]]
  BY DEF BillCommit
<1> DEFINE billing == [j \in Invoices |-> IF j \in S THEN penalty[j].accrued - billed[j] ELSE 0]
           total == SumFunction(billing)
<1>2. ops[q].kind = "bill" /\ End(q) /\ UNCHANGED <<edited, serial>>
  BY DEF BillCommit
<1>3. ops[q] \in Op /\ ops[q] # NoOp /\ billed \in [Invoices -> Int]
  BY <1>2, StepTyped, OpIs DEF NoOp
<1>0. /\ item \in [Invoices -> [Invoices -> Int]] /\ penalty \in [Invoices -> PenaltyRows]
      /\ invoice \in [Invoices -> InvoiceRows]
  BY StepTyped
<1>4. \A j \in Invoices : j \in S => penalty[j].accrued > billed[j] /\ penalty[j].accrued \in Nat /\ billed[j] \in Int
  BY <1>0, <1>3 DEF Billable, PenaltyRows
<1>5. /\ billing \in [Invoices -> Int] /\ \A j \in Invoices : billing[j] >= 0
      /\ \A j \in Invoices : billing[j] = IF j \in S THEN penalty[j].accrued - billed[j] ELSE 0
  BY <1>4
<1>6. /\ invoice[n].status = "none" /\ invoice'[n].status = status
      /\ \A i \in Invoices \ {n} : invoice'[i] = invoice[i]
  <2>1. n \in NextRow({j \in Invoices : invoice[j].status = "none"})
        /\ invoice' = [invoice EXCEPT ![n] = [NoInvoice EXCEPT !.status = status, !.fine = TRUE, !.total = total]]
    BY <1>1 DEF NewInvoice
  <2>2. [NoInvoice EXCEPT !.status = status, !.fine = TRUE, !.total = total].status = status
    BY DEF NoInvoice
  <2> HIDE DEF total
  <2> QED
    BY <1>0, <2>1, <2>2 DEF NextRow
<1>7. /\ item' = [item EXCEPT ![n] = billing]
      /\ \A j \in Invoices : penalty'[j] = IF j \in S /\ penalty[j].status = "final"
                                         THEN [penalty[j] EXCEPT !.status = "billed"] ELSE penalty[j]
  BY <1>1
<1>8. serial => \A j \in Invoices : billed[j] = Billed(j)
  BY <1>2 DEF PenaltyInv, BillsAsRead
<1> HIDE DEF billing, total, billed
<1>9. item' \in [Invoices -> [Invoices -> Int]] /\ item'[n] = billing /\ \A i \in Invoices \ {n} : item'[i] = item[i]
  BY <1>0, <1>5, <1>7
<1>10. NoItemsYet' /\ ItemsOwed'
  <2>1. NoItemsYet /\ ItemsOwed
    BY DEF PenaltyInv
  <2>2. \A i, j \in Invoices : item'[i][j] >= 0
    BY <1>5, <1>9, <2>1 DEF ItemsOwed
  <2> QED
    BY <1>6, <1>9, <2>1, <2>2 DEF NoItemsYet, ItemsOwed
<1>11. PenaltyBilledOnce'
  <2> SUFFICES ASSUME serial, NEW j \in Invoices \ edited
               PROVE  Billed(j)' <= penalty'[j].accrued /\ (penalty'[j].status = "billed" => Billed(j)' = penalty'[j].accrued)
    BY <1>2 DEF PenaltyBilledOnce
  <2>1. OthersBill(n, j)
    BY <1>6, <1>9 DEF OthersBill, Bill
  <2>2. Bill(n, j)' = billing[j] /\ Bill(n, j) = 0
    BY <1>6, <1>9 DEF Bill, PenaltyInv, NoItemsYet, NoItems
  <2>3. Billed(j)' = Billed(j) + billing[j] /\ Billed(j) \in Int /\ billing[j] \in Int
    <3>1. Billed(j)' = Billed(j) + Bill(n, j)' - Bill(n, j) /\ Billed(j) \in Int
      BY <1>0, <1>9, <2>1, BilledMoves
    <3> QED
      BY <1>5, <2>2, <3>1
  <2>4. Billed(j) <= penalty[j].accrued /\ (penalty[j].status = "billed" => Billed(j) = penalty[j].accrued)
    BY DEF PenaltyInv, PenaltyBilledOnce
  <2>5. penalty'[j].accrued = penalty[j].accrued /\ penalty[j].accrued \in Int
        /\ (j \notin S => penalty'[j] = penalty[j])
    <3>1. penalty[j] \in PenaltyRows
      BY <1>0
    <3>2. penalty'[j] = penalty[j] \/ (j \in S /\ penalty'[j] = [penalty[j] EXCEPT !.status = "billed"])
      BY <1>7
    <3> QED
      BY <3>1, <3>2 DEF PenaltyRows
  <2>6. CASE j \in S
    BY <1>4, <1>5, <1>8, <2>3, <2>5, <2>6
  <2>7. CASE j \notin S
    BY <1>5, <2>3, <2>4, <2>5, <2>7
  <2> QED
    BY <2>6, <2>7
<1>12. BillsAsRead'
  BY <1>2, <1>3, EndQuiet, QuietBills
<1> QED
  BY <1>10, <1>11, <1>12 DEF PenaltyInv

(* The steps that write invoices or penalties outside of a transaction that *)
(* settles.                                                                 *)
LEMMA InvoiceFrames ==
    ASSUME BookInv, NEW i \in Invoices, Issue(i) \/ DuePasses(i)
    PROVE  Frame
<1>0. invoice \in [Invoices -> InvoiceRows]
  BY StepTyped
<1>1. UNCHANGED <<penalty, item, edited, serial>>
  BY DEF Issue, DuePasses
<1>2. Stands
  BY <1>1, StandsSame
<1>4. CASE Issue(i)
  <2>1. /\ invoice[i].status = "draft" /\ invoice'[i].status = "issued"
        /\ \A k \in Invoices \ {i} : invoice'[k] = invoice[k]
    BY <1>0, <1>4 DEF Issue, InvoiceRows
  <2> QED
    BY <1>1, <1>2, <2>1 DEF Frame, Stands
<1>5. CASE DuePasses(i)
  <2>1. \A k \in Invoices : invoice'[k].status = invoice[k].status
    BY <1>0, <1>5 DEF DuePasses, InvoiceRows
  <2> QED
    BY <1>1, <1>2, <2>1 DEF Frame, Stands
<1> QED
  BY <1>4, <1>5

(* Items are written by hand: those of the other penalties stay.            *)
LEMMA HandKept ==
    ASSUME BookInv, PenaltyInv, NEW i \in Invoices, NEW items \in HandItems(i), item' = [item EXCEPT ![i] = items],
           edited' = edited \cup {j \in Invoices : items[j] # item[i][j]}, UNCHANGED <<penalty, serial>>,
           invoice'[i].status # "none", invoice'[i].status = "cancelled" <=> invoice[i].status = "cancelled",
           \A k \in Invoices \ {i} : invoice'[k].status = invoice[k].status,
           BillsAsRead'
    PROVE  PenaltyInv'
<1>0. item \in [Invoices -> [Invoices -> Int]] /\ items \in [Invoices -> Int]
  BY StepTyped, HandTyped
<1>1. item'[i] = items /\ \A k \in Invoices \ {i} : item'[k] = item[k]
  BY <1>0
<1>2. NoItemsYet'
  BY <1>1 DEF PenaltyInv, NoItemsYet
<1>3. ItemsOwed'
  <2>1. PICK f : items = [j \in Invoices |-> IF j \in DOMAIN f THEN f[j] ELSE item[i][j]] /\ \A j \in DOMAIN f : f[j] \in Nat
    BY HandAmounts
  <2>2. \A j \in DOMAIN f : f[j] >= 0
    BY <2>1
  <2>3. \A k, j \in Invoices : item[k][j] >= 0
    BY DEF PenaltyInv, ItemsOwed
  <2>4. \A j \in Invoices : items[j] >= 0
    BY <2>1, <2>2, <2>3
  <2> QED
    BY <1>1, <2>3, <2>4 DEF ItemsOwed
<1>4. PenaltyBilledOnce'
  <2> SUFFICES ASSUME serial, NEW j \in Invoices \ edited, items[j] = item[i][j]
               PROVE  Billed(j)' <= penalty'[j].accrued /\ (penalty'[j].status = "billed" => Billed(j)' = penalty'[j].accrued)
    BY DEF PenaltyBilledOnce
  <2>1. \A k \in Invoices : Bill(k, j)' = Bill(k, j)
    BY <1>1 DEF Bill
  <2>2. Billed(j)' = Billed(j)
    BY <1>0, <2>1, BilledSame
  <2> QED
    BY <2>2 DEF PenaltyInv, PenaltyBilledOnce
<1> QED
  BY <1>2, <1>3, <1>4 DEF PenaltyInv

LEMMA CreatePenalties == ASSUME BookInv, PenaltyInv, NEW i \in Invoices, Create(i) PROVE PenaltyInv'
<1>1. PICK items \in HandItems(i) : \E total \in HandTotals(items), fine \in BOOLEAN, status \in {"draft", "issued"} :
         /\ NewInvoice(i, fine, total, status)
         /\ item' = [item EXCEPT ![i] = items]
         /\ edited' = edited \cup {j \in Invoices : items[j] # 0}
  BY DEF Create
<1>2. PICK total \in HandTotals(items), fine \in BOOLEAN, status \in {"draft", "issued"} :
         /\ NewInvoice(i, fine, total, status)
         /\ item' = [item EXCEPT ![i] = items]
         /\ edited' = edited \cup {j \in Invoices : items[j] # 0}
  BY <1>1
<1>3. UNCHANGED <<penalty, ops, serial>> /\ Calm
  BY DEF Create
<1>4. total \in Nat /\ total > 0
  BY StepTyped, HandTyped
<1>5. /\ invoice[i].status = "none" /\ invoice'[i].status = status
      /\ \A k \in Invoices \ {i} : invoice'[k] = invoice[k]
  BY <1>2, <1>4, StepTyped, NewInvoiceIs
<1>6. BillsAsRead'
  BY <1>3, CalmQuiet, QuietBills
<1>7. \A j \in Invoices : item[i][j] = 0
  BY <1>5 DEF PenaltyInv, NoItemsYet, NoItems
<1>8. edited' = edited \cup {j \in Invoices : items[j] # item[i][j]}
  BY <1>2, <1>7
<1> QED
  BY <1>2, <1>3, <1>5, <1>6, <1>8, HandKept

LEMMA UpdatePenalties == ASSUME BookInv, PenaltyInv, NEW q \in Requests, UpdateCommit(q) PROVE PenaltyInv'
<1> DEFINE i == ops[q].inv
<1>0. ops[q].kind = "update" /\ End(q) /\ UNCHANGED <<penalty, serial>>
  BY DEF UpdateCommit
<1>1. i \in Invoices /\ invoice[i].status # "none" /\ ops[q] # NoOp /\ invoice \in [Invoices -> InvoiceRows]
  BY <1>0, StepTyped DEF AllKnow, Knows, Exists, NoOp
<1>2. PICK items \in HandItems(i) : \E total \in HandTotals(items), fine \in BOOLEAN :
         /\ invoice' = [invoice EXCEPT ![i].total = total, ![i].fine = fine]
         /\ item' = [item EXCEPT ![i] = items]
         /\ edited' = edited \cup {j \in Invoices : items[j] # item[i][j]}
  BY DEF UpdateCommit
<1> HIDE DEF i
<1>3. PICK total, fine : invoice' = [invoice EXCEPT ![i].total = total, ![i].fine = fine]
  BY <1>2
<1>4. \A k \in Invoices : invoice'[k].status = invoice[k].status
  BY <1>1, <1>3 DEF InvoiceRows
<1>5. BillsAsRead'
  BY <1>0, <1>1, EndQuiet, QuietBills
<1> QED
  BY <1>0, <1>1, <1>2, <1>4, <1>5, HandKept

LEMMA SweepFrame == ASSUME BookInv, Sweep PROVE Frame
<1>0. invoice \in [Invoices -> InvoiceRows] /\ penalty \in [Invoices -> PenaltyRows]
  BY StepTyped
<1>1. \A k \in Invoices : invoice'[k].status = invoice[k].status
                          \/ (invoice[k].status \in {"issued", "partially_paid"} /\ invoice'[k].status = "overdue")
  BY <1>0 DEF Sweep, InvoiceRows
<1>2. PICK amount \in [Invoices -> Amounts \cup {0}] : penalty' = [k \in Invoices |-> Accrued(k, amount[k])]
  BY DEF Sweep
<1>3. Amounts \cup {0} \subseteq Nat
  BY BillingAssumption
<1>4. ASSUME NEW j \in Invoices
      PROVE  penalty'[j].accrued >= penalty[j].accrued /\ (penalty'[j].status = "billed" => penalty'[j] = penalty[j])
  <2>1. penalty[j].accrued \in Nat /\ amount[j] \in Nat
    BY <1>0, <1>3 DEF PenaltyRows
  <2>2. penalty'[j] = penalty[j] \/ penalty'[j] = [status |-> "accruing", accrued |-> Greater(penalty[j].accrued, amount[j])]
    BY <1>2 DEF Accrued
  <2> QED
    BY <2>1, <2>2 DEF Greater
<1> QED
  BY <1>1, <1>4 DEF Frame, Sweep

LEMMA WaiveFrame == ASSUME BookInv, NEW i \in Invoices, Waive(i) PROVE Frame
<1>0. penalty \in [Invoices -> PenaltyRows]
  BY StepTyped
<1>1. \A j \in Invoices : penalty'[j] = penalty[j] \/ penalty'[j] = [penalty[j] EXCEPT !.status = "waived"]
  BY <1>0 DEF Waive
<1>2. ASSUME NEW j \in Invoices
      PROVE  penalty'[j].accrued >= penalty[j].accrued /\ (penalty'[j].status = "billed" => penalty'[j] = penalty[j])
  <2>1. penalty[j] \in PenaltyRows
    BY <1>0
  <2>2. penalty'[j] = penalty[j] \/ penalty'[j] = [penalty[j] EXCEPT !.status = "waived"]
    BY <1>1
  <2> QED
    BY <2>1, <2>2 DEF PenaltyRows
<1> QED
  BY <1>2 DEF Frame, Waive

(* One payment is settled, and what is received beyond that.                *)
LEMMA BillTyped == ASSUME BookInv, BookInv' PROVE penalty' \in [Invoices -> PenaltyRows]
BY DEF BookInv, MoneyInv, RowsTyped

LEMMA VerifiedFrame ==
    ASSUME BookInv, StaysCancelled, NEW p \in Payments, NEW amount \in Nat, payment[p].status \in Verifiable,
           Settle(p, payment[p], amount, 0), UNCHANGED <<item, edited, serial>>
    PROVE  Frame
<1>1. Exists(payment[p].inv)
  BY StepTyped DEF RowsHang, Hangs, Verifiable
<1> QED
  BY <1>1, SettleFrame

LEMMA RecordedFrame ==
    ASSUME BookInv, StaysCancelled, NEW i, Exists(i), NEW amount \in Nat, NEW method \in Methods, NEW spent,
           \E p \in NextRow(Fresh) : Settle(p, NewPayment(i, amount, method), amount, spent),
           UNCHANGED <<item, edited, serial>>
    PROVE  Frame
<1> DEFINE pay == NewPayment(i, amount, method)
<1>1. PICK p \in NextRow(Fresh) : Settle(p, pay, amount, spent)
  OBVIOUS
<1>2. pay.inv = i
  BY NewPaymentIs DEF Exists
<1> HIDE DEF pay
<1> QED
  BY <1>1, <1>2, SettleFrame

(* The requests, by what they do to the bills.                              *)
LEMMA EndFrames ==
    ASSUME BookInv, StaysCancelled, NEW q \in Requests,
           \/ PayCommit(q) \/ RecordCommit(q) \/ FailCommit(q) \/ RefundCommit(q)
           \/ ApplyCommit(q) \/ NoteCommit(q) \/ RestoreCommit(q) \/ Abort(q)
    PROVE  Frame /\ End(q)
<1>2. CASE PayCommit(q) \/ FailCommit(q) \/ NoteCommit(q) \/ RestoreCommit(q) \/ Abort(q)
  <2>1. End(q) /\ UNCHANGED <<invoice, penalty, item, edited, serial>>
    BY <1>2 DEF PayCommit, FailCommit, NoteCommit, RestoreCommit, Abort, rows
  <2> QED
    BY <2>1, FrameSame
<1>3. CASE RecordCommit(q)
  <2>1. /\ ops[q].kind = "record" /\ End(q) /\ UNCHANGED <<item, edited, serial>>
        /\ \E p \in NextRow(Fresh) :
              Settle(p, NewPayment(ops[q].inv, ops[q].amount, "manual"), ops[q].amount, 0)
    BY <1>3 DEF RecordCommit
  <2>2. Exists(ops[q].inv) /\ ops[q].amount \in Nat /\ "manual" \in Methods
    BY <2>1, OpIs, StepTyped DEF AllKnow, Knows, Methods
  <2> QED
    BY <2>1, <2>2, RecordedFrame
<1>4. CASE ApplyCommit(q)
  <2>1. /\ ops[q].kind = "apply" /\ End(q) /\ UNCHANGED <<item, edited, serial>>
        /\ \E p \in NextRow(Fresh) :
              Settle(p, NewPayment(ops[q].inv, ops[q].amount, "credit"), ops[q].amount, ops[q].amount)
    BY <1>4 DEF ApplyCommit
  <2>2. Exists(ops[q].inv) /\ ops[q].amount \in Nat /\ "credit" \in Methods
    BY <2>1, OpIs, StepTyped DEF AllKnow, Knows, Methods
  <2> QED
    BY <2>1, <2>2, RecordedFrame
<1>5. CASE RefundCommit(q)
  <2>1. /\ ops[q].kind = "refund" /\ End(q) /\ Refund(ops[q].pay, ops[q].toCredit, ops[q].balance)
        /\ UNCHANGED <<penalty, item, edited, serial>>
    BY <1>5 DEF RefundCommit
  <2>2. ops[q].pay \in Payments
    BY <2>1, OpIs, StepTyped
  <2> QED
    BY <2>1, <2>2, RefundFrame
<1> QED
  BY <1>2, <1>3, <1>4, <1>5

LEMMA BeginFrames ==
    ASSUME BookInv, NEW q \in Requests,
           \/ \E i \in Invoices : \/ UpdateRead(q, i) \/ CancelRead(q, i) \/ PayRead(q, i)
                                  \/ RecordRead(q, i) \/ ApplyRead(q, i) \/ NoteRead(q, i)
           \/ \E p \in Payments : FailRead(q, p) \/ RefundRead(q, p)
           \/ \E b \in Lines : RestoreRead(q, b)
    PROVE  Frame /\ Asks
<1>1. PICK op : Begin(q, op) /\ op.kind # "bill" /\ UNCHANGED <<invoice, penalty, item, edited, serial>>
  <2>1. ASSUME NEW i \in Invoices, \/ UpdateRead(q, i) \/ CancelRead(q, i) \/ PayRead(q, i)
                                   \/ RecordRead(q, i) \/ ApplyRead(q, i) \/ NoteRead(q, i)
        PROVE  \E op : Begin(q, op) /\ op.kind # "bill" /\ UNCHANGED <<invoice, penalty, item, edited, serial>>
    <3>1. UNCHANGED <<invoice, penalty, item, edited, serial>>
      BY <2>1 DEF UpdateRead, CancelRead, PayRead, RecordRead, ApplyRead, NoteRead, rows
    <3>2. CASE UpdateRead(q, i) \/ CancelRead(q, i)
      BY <3>1, <3>2 DEF UpdateRead, CancelRead
    <3>3. CASE PayRead(q, i)
      BY <3>1, <3>3 DEF PayRead
    <3>4. CASE RecordRead(q, i) \/ ApplyRead(q, i) \/ NoteRead(q, i)
      BY <3>1, <3>4 DEF RecordRead, ApplyRead, NoteRead
    <3> QED
      BY <2>1, <3>2, <3>3, <3>4
  <2>2. ASSUME NEW p \in Payments, FailRead(q, p) \/ RefundRead(q, p)
        PROVE  \E op : Begin(q, op) /\ op.kind # "bill" /\ UNCHANGED <<invoice, penalty, item, edited, serial>>
    BY <2>2 DEF FailRead, RefundRead, rows
  <2>3. ASSUME NEW b \in Lines, RestoreRead(q, b)
        PROVE  \E op : Begin(q, op) /\ op.kind # "bill" /\ UNCHANGED <<invoice, penalty, item, edited, serial>>
    BY <2>3 DEF RestoreRead, rows
  <2> QED
    BY <2>1, <2>2, <2>3
<1> QED
  BY <1>1, FrameSame, AsksBegin

LEMMA BillReadFrame == ASSUME BookInv, NEW q \in Requests, BillRead(q) PROVE Frame /\ Asks
<1>1. PICK billed : /\ billed = [j \in Invoices |-> Billed(j)] /\ Begin(q, [kind |-> "bill", billed |-> billed])
                    /\ UNCHANGED <<invoice, penalty, item, edited, serial>>
  BY DEF BillRead, rows
<1>2. ops \in [Requests -> Op]
  BY StepTyped
<1>3. \A r \in Requests : ops'[r] = IF r = q THEN [kind |-> "bill", billed |-> billed] ELSE ops[r]
  BY <1>1, <1>2 DEF Begin
<1>4. Asks
  BY <1>1, <1>3 DEF Asks
<1> QED
  BY <1>1, <1>4, FrameSame

LEMMA RequestBills ==
    ASSUME BookInv, BookInv', PenaltyInv, StaysCancelled, NEW q \in Requests,
           \/ InvoiceSteps(q) \/ TenantSteps(q) \/ ReceiptSteps(q)
           \/ BalanceSteps(q) \/ NoteSteps(q) \/ PenaltySteps(q) \/ BankSteps(q)
    PROVE  PenaltyInv'
<1>1. CASE CancelCommit(q)
  BY <1>1, CancelPenalties
<1>2. CASE BillCommit(q)
  BY <1>2, BillPenalties
<1>3. CASE BillRead(q)
  BY <1>3, BillReadFrame, BillTyped, FrameKept
<1>6. CASE UpdateCommit(q)
  BY <1>6, UpdatePenalties
<1>4. CASE \/ PayCommit(q) \/ RecordCommit(q) \/ FailCommit(q) \/ RefundCommit(q)
           \/ ApplyCommit(q) \/ NoteCommit(q) \/ RestoreCommit(q) \/ Abort(q)
  <2>1. Frame /\ End(q)
    BY <1>4, EndFrames
  <2> QED
    BY <2>1, AsksEnd, BillTyped, FrameKept
<1>5. CASE \/ \E i \in Invoices : \/ UpdateRead(q, i) \/ CancelRead(q, i) \/ PayRead(q, i)
                                  \/ RecordRead(q, i) \/ ApplyRead(q, i) \/ NoteRead(q, i)
           \/ \E p \in Payments : FailRead(q, p) \/ RefundRead(q, p)
           \/ \E b \in Lines : RestoreRead(q, b)
  BY <1>5, BeginFrames, BillTyped, FrameKept
<1> QED
  BY <1>1, <1>2, <1>3, <1>4, <1>5, <1>6
     DEF InvoiceSteps, TenantSteps, ReceiptSteps, BalanceSteps, NoteSteps, PenaltySteps, BankSteps

(* The steps of nobody's request.                                           *)
LEMMA AloneFrames ==
    ASSUME BookInv, StaysCancelled,
           \/ \E i \in Invoices : Issue(i) \/ DuePasses(i) \/ Waive(i)
           \/ ProviderTx \/ StaffTx \/ NoteTx \/ BankTx \/ Sweep
    PROVE  Frame /\ ops' = ops
<1>1. CASE \E i \in Invoices : Issue(i) \/ DuePasses(i)
  BY <1>1, InvoiceFrames DEF Issue, DuePasses
<1>2. CASE ProviderTx
  <2>1. PICK p \in Payments :
           \/ WebhookPaid(p) \/ WebhookRefunded(p) \/ PaymentLapses(p)
           \/ \E s \in {"failed", "expired", "cancelled"} : WebhookClosed(p, s)
    BY <1>2 DEF ProviderTx
  <2>2. CASE WebhookPaid(p)
    <3>1. UNCHANGED <<item, edited, ops, serial>>
      BY <2>2 DEF WebhookPaid
    <3>2. CASE payment[p].status = "pending" /\ Settle(p, payment[p], payment[p].amount, 0)
      <4>1. payment[p].amount \in Nat /\ payment[p].status \in Verifiable
        BY <3>2, StepTyped DEF PaymentRows, Verifiable
      <4> QED
        BY <3>1, <3>2, <4>1, VerifiedFrame
    <3>3. CASE UNCHANGED <<invoice, penalty>>
      BY <3>1, <3>3, FrameSame
    <3> QED
      BY <2>2, <3>2, <3>3 DEF WebhookPaid
  <2>3. CASE WebhookRefunded(p)
    BY <2>3, RefundFrame DEF WebhookRefunded
  <2>4. CASE PaymentLapses(p) \/ \E s \in {"failed", "expired", "cancelled"} : WebhookClosed(p, s)
    BY <2>4, FrameSame DEF PaymentLapses, WebhookClosed
  <2> QED
    BY <2>1, <2>2, <2>3, <2>4
<1>3. CASE StaffTx
  <2>1. CASE Receive
    <3>1. PICK amount \in Amounts : \E f \in Allocations(amount) : ReceiveTx(amount, f)
      BY <2>1 DEF Receive
    <3>2. UNCHANGED <<item, edited, ops, serial>>
      BY <2>1 DEF Receive
    <3> QED
      BY <3>1, <3>2, ReceiveFrame
  <2>2. ASSUME NEW p \in Payments, Verify(p) PROVE Frame /\ ops' = ops
    <3>1. PICK amount \in Amounts \cup {payment[p].amount} : Settle(p, payment[p], amount, 0)
      BY <2>2 DEF Verify
    <3>2. amount \in Nat
      <4>1. payment[p].amount \in Nat /\ Amounts \subseteq Nat
        BY StepTyped, BillingAssumption DEF PaymentRows
      <4> QED
        BY <4>1
    <3>3. payment[p].status \in Verifiable /\ UNCHANGED <<item, edited, ops, serial>>
      BY <2>2 DEF Verify
    <3> QED
      BY <3>1, <3>2, <3>3, VerifiedFrame
  <2> QED
    BY <1>3, <2>1, <2>2 DEF StaffTx
<1>4. CASE NoteTx
  BY <1>4, NoteFrame, FrameSame DEF NoteTx, NoteApprove, NoteRefuse
<1>5. CASE BankTx
  <2>1. PICK b \in Lines : Match(b) \/ MatchSettled(b) \/ Ignore(b)
    BY <1>5 DEF BankTx
  <2>2. CASE MatchSettled(b) \/ Ignore(b)
    BY <2>2, FrameSame DEF MatchSettled, Ignore
  <2>3. CASE Match(b)
    <3>1. UNCHANGED <<item, edited, ops, serial>>
      BY <2>3 DEF Match
    <3>2. PICK amount \in Amounts :
             \/ \E p \in Payments : payment[p].status \in Verifiable /\ Settle(p, payment[p], amount, 0)
             \/ \E f \in Allocations(amount) : ReceiveTx(amount, f)
      BY <2>3 DEF Match
    <3>3. amount \in Nat
      BY BillingAssumption
    <3> QED
      BY <3>1, <3>2, <3>3, VerifiedFrame, ReceiveFrame
  <2> QED
    BY <2>1, <2>2, <2>3
<1>6. CASE Sweep
  BY <1>6, SweepFrame DEF Sweep
<1>7. CASE \E i \in Invoices : Waive(i)
  BY <1>7, WaiveFrame DEF Waive
<1> QED
  BY <1>1, <1>2, <1>3, <1>4, <1>5, <1>6, <1>7

LEMMA PenaltyStep == ASSUME BookInv, BookInv', PenaltyInv, StaysCancelled, Next PROVE PenaltyInv'
<1>1. CASE \E q \in Requests :
         \/ InvoiceSteps(q) \/ TenantSteps(q) \/ ReceiptSteps(q)
         \/ BalanceSteps(q) \/ NoteSteps(q) \/ PenaltySteps(q) \/ BankSteps(q)
  BY <1>1, RequestBills
<1>2. CASE \E i \in Invoices : Create(i)
  BY <1>2, CreatePenalties
<1>3. CASE \/ \E i \in Invoices : Issue(i) \/ DuePasses(i) \/ Waive(i)
           \/ ProviderTx \/ StaffTx \/ NoteTx \/ BankTx \/ Sweep
  BY <1>3, AloneFrames, AsksSame, BillTyped, FrameKept
<1> QED
  BY <1>1, <1>2, <1>3 DEF Next, InvoiceTx

LEMMA PenaltyInit == ASSUME Init PROVE PenaltyInv
<1>1. /\ item = [i \in Invoices |-> NoItems] /\ penalty = [i \in Invoices |-> NoPenalty]
      /\ ops = [q \in Requests |-> NoOp]
  BY DEF Init
<1>2. \A i \in Invoices : item[i] = NoItems /\ \A j \in Invoices : item[i][j] = 0
  BY <1>1 DEF NoItems
<1>3. NoItemsYet /\ ItemsOwed
  BY <1>2 DEF NoItemsYet, ItemsOwed
<1>4. \A j \in Invoices : Billed(j) = 0
  <2> TAKE j \in Invoices
  <2> DEFINE f == [i \in Invoices |-> Bill(i, j)]
  <2>1. \A i \in Invoices : f[i] = 0
    BY <1>2 DEF Bill
  <2>2. Billed(j) = SumFunctionOnSet(f, Invoices)
    BY BilledIs
  <2> HIDE DEF f
  <2> QED
    BY <2>1, <2>2, Finite, SumZero
<1>5. PenaltyBilledOnce
  BY <1>1, <1>4 DEF PenaltyBilledOnce, NoPenalty
<1>6. BillsAsRead
  BY <1>1 DEF BillsAsRead, NoOp
<1> QED
  BY <1>3, <1>5, <1>6 DEF PenaltyInv

(* What accrued is billed in full and once: no penalty whose items nobody   *)
(* wrote by hand is billed twice, and one that counts as billed is billed by*)
(* invoices that stand, however bills, edited drafts, cancellations, waivers*)
(* and payments follow each other, unless a cancelled invoice comes back.   *)
THEOREM PenaltiesBilledOnce == Spec /\ [][StaysCancelled]_vars => []PenaltyBilledOnce
<1>1. Init => PenaltyInv
  BY PenaltyInit
<1>2. BookInv /\ BookInv' /\ PenaltyInv /\ [Next]_vars /\ [StaysCancelled]_vars => PenaltyInv'
  <2>1. CASE UNCHANGED vars
    <3>1. ASSUME BookInv, PenaltyInv PROVE PenaltyInv'
      <4>1. Frame
        BY <2>1, <3>1, FrameSame DEF vars
      <4>2. Asks /\ penalty' \in [Invoices -> PenaltyRows]
        BY <2>1, <3>1, AsksSame, StepTyped DEF vars
      <4> QED
        BY <3>1, <4>1, <4>2, FrameKept
    <3> QED
      BY <3>1
  <2>2. CASE Next /\ StaysCancelled
    BY <2>2, PenaltyStep
  <2> QED
    BY <2>1, <2>2
<1>3. PenaltyInv => PenaltyBilledOnce
  BY DEF PenaltyInv
<1> QED
  BY <1>1, <1>2, <1>3, BooksKept, PTL DEF Spec

=============================================================================
