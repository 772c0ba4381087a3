----------------------------- MODULE Transactions -----------------------------
(***************************************************************************)
(* How the handlers of the desks meet (api/internal/platform/db): a handler *)
(* is one transaction at READ COMMITTED.  What it reads without a lock is   *)
(* as committed at that moment and may be stale when it writes, so a        *)
(* handler that decides on such a read is two steps: it begins with the     *)
(* read, and keeps in ops[q] what it uses again, and ends with its commit   *)
(* or without effect.  A handler that locks what it decides on is one step. *)
(*                                                                          *)
(* "serial" is chosen at the start: in a serial behaviour no handler works  *)
(* between the two steps of another one.                                    *)
(***************************************************************************)

CONSTANT Requests   \* handlers in flight together

VARIABLES ops, serial

NoOp == [kind |-> "none"]

Turn(q) == serial => \A r \in Requests \ {q} : ops[r] = NoOp
Calm    == serial => \A r \in Requests : ops[r] = NoOp

Start(q, op) == ops[q] = NoOp /\ ops' = [ops EXCEPT ![q] = op]
Begin(q, op) == Turn(q) /\ Start(q, op)
End(q)       == ops' = [ops EXCEPT ![q] = NoOp]

TxInit == ops = [q \in Requests |-> NoOp] /\ serial \in BOOLEAN

=============================================================================
