---------------------------- MODULE MCUnitBilling ----------------------------
(* Instances of UnitBilling for TLC.  The handlers of one party are checked *)
(* in scenes, each with the handlers that meet and the rows they need;      *)
(* every behaviour stays in the scene it starts in.                         *)
EXTENDS UnitBilling, TLC

CONSTANTS Scenes

VARIABLE scene

(* How many invoices and payments a scene may create.  Where penalties are, *)
(* the first invoice may fall due, no invoice is above 3, and a penalty is  *)
(* billed by hand on the first two.  The provider closes a payment once.    *)
Cast == [provider |-> <<1, 2>>, payments |-> <<1, 2>>, balance |-> <<2, 2>>, notes |-> <<1, 2>>,
         void |-> <<2, 2>>, corrected |-> <<1, 0>>, penalties |-> <<3, 1>>, bank |-> <<1, 2>>]

Closing == {"failed", "expired", "cancelled"}

InCast ==
    /\ Cardinality({i \in Invoices : invoice'[i].status # "none"}) <= Cast[scene][1]
    /\ Cardinality({p \in Payments : payment'[p].status # "none"}) <= Cast[scene][2]
    /\ \A i \in Invoices : IF scene = "penalties"
                           THEN invoice'[i].total <= 3 /\ (i > 1 => ~invoice'[i].late)
                           ELSE ~invoice'[i].fine
    /\ scene = "penalties" /\ edited' # {} => invoice'[3].status = "none"
    /\ scene = "provider" => \A p \in Payments : Cardinality(heard' \cap ({p} \X Closing)) <= 1

SceneStep ==
    \/ scene # "payments" /\ InvoiceTx
    \/ scene = "provider" /\ \/ ProviderTx \/ \E p \in Payments : Verify(p)
                             \/ Sweep
                             \/ \E q \in Requests : TenantSteps(q)
    \/ scene = "payments" /\ \/ \E i \in Invoices : Create(i) \/ Issue(i)
                             \/ \E p \in Payments :
                                  \/ WebhookPaid(p) \/ WebhookRefunded(p) \/ WebhookClosed(p, "failed")
                                  \/ Verify(p)
                             \/ \E q \in Requests : TenantSteps(q) \/ ReceiptSteps(q)
    \/ scene = "balance" /\ \/ StaffTx
                            \/ \E q \in Requests : ReceiptSteps(q) \/ BalanceSteps(q)
    \/ scene = "notes" /\ \/ StaffTx \/ NoteTx
                          \/ \E q \in Requests : NoteSteps(q) \/ RefundCommit(q) \/ \E p \in Payments : RefundRead(q, p)
    \/ scene = "corrected" /\ (NoteTx \/ \E q \in Requests : InvoiceSteps(q) \/ NoteSteps(q))
    \/ scene = "void" /\ \/ StaffTx
                         \/ \E q \in Requests : InvoiceSteps(q) \/ TenantSteps(q) \/ BalanceSteps(q)
    \/ scene = "penalties" /\ \/ StaffTx \/ Sweep \/ \E i \in Invoices : Waive(i)
                              \/ \E q \in Requests : InvoiceSteps(q) \/ PenaltySteps(q)
    \/ scene = "bank" /\ \/ StaffTx \/ BankTx
                         \/ \E q \in Requests : TenantSteps(q) \/ BankSteps(q)

(* Transactions overlap in one scene and take turns in the others.          *)
SceneInit == Init /\ scene \in Scenes /\ (serial <=> scene # "payments")
SceneNext == SceneStep /\ InCast /\ UNCHANGED scene
SceneSpec == SceneInit /\ [][SceneNext]_<<vars, scene>>

Rows == Permutations(Lines) \cup Permutations(Requests)
==============================================================================
