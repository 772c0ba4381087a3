--------------------------------- MODULE Stock ---------------------------------
(***************************************************************************)
(* The stock of one item (api/internal/inventory): a level for each stock   *)
(* location, the journal of stock transactions that explains it, and what   *)
(* work orders (parts) and cleaning tasks (consumables) have used.  A       *)
(* handler reads the work, the location and the row it corrects without a   *)
(* lock; the level itself is moved by one upsert, whose CHECK keeps it from *)
(* falling below zero.  Unit costs are 1; the alert of low stock, the       *)
(* catalogue of items and the choice of a default location are left out.    *)
(***************************************************************************)
EXTENDS Transactions, Integers, Functions

CONSTANTS
    Places,        \* stock locations
    Orders, Tasks, \* work orders and cleaning tasks
    Refs,          \* client_part_id, client_ref: names a client gives its usage
    NoRef,         \* a usage without such a name
    MaxUsages,     \* bound: rows of work_order_parts and task_consumables
    MaxLevel,      \* bound: the highest level
    MaxByHand      \* bound: what is charged to a work by hand

ASSUME StockAssumption ==
    /\ {MaxUsages, MaxLevel, MaxByHand} \subseteq Nat
    /\ NoRef \notin Refs /\ Orders \cap Tasks = {}

Work       == Orders \cup Tasks
Usages     == 1 .. MaxUsages
Quantities == 1 .. MaxLevel

VARIABLES
    place,    \* place[p]: is_active
    level,    \* level[p]: quantity of stock_levels, NoLevel before the row is inserted
    journal,  \* journal[p]: sum of the stock_transactions of the location
    unbacked, \* history: what was taken from p before its level had a row
    usage,    \* usage[u]: status, work, place, quantity, ref
    work,     \* work[w]: open, completed or closed (or cancelled)
    cost,     \* cost[w]: parts_cost_amount of a work order
    charged,  \* charged[w]: sum of the stock_transactions that refer to w
    byHand    \* history: byHand[w], the part of charged[w] that people entered

stockVars == <<place, level, journal, unbacked, usage, work, cost, charged, byHand, ops, serial>>

-----------------------------------------------------------------------------
NoLevel  == -1
NoUsage  == [status |-> "none"]
Level(p) == IF level[p] = NoLevel THEN 0 ELSE level[p]

(* Mutant of Moved: a level that would fall below zero is set to zero.      *)
MovedToZero(p, delta) == IF Level(p) + delta > 0 THEN Level(p) + delta ELSE 0

(* The upsert: INSERT ... GREATEST(delta, 0) or SET quantity + delta.       *)
Moved(p, delta) ==
    IF level[p] # NoLevel THEN level[p] + delta
    ELSE IF delta > 0 THEN delta ELSE 0

(* applyTx: the CHECK of the level, then the row of the journal.            *)
Apply(p, delta) ==
    /\ Moved(p, delta) \in 0 .. MaxLevel
    /\ level' = [level EXCEPT ![p] = Moved(p, delta)]
    /\ journal' = [journal EXCEPT ![p] = @ + delta]
    /\ unbacked' = IF level[p] = NoLevel /\ delta < 0
                   THEN [unbacked EXCEPT ![p] = @ - delta] ELSE unbacked

-----------------------------------------------------------------------------
NoWork == "manual"

(* CreateTransaction takes reference_type and reference_id from the client: *)
(* a movement by hand may refer to a work that has no usage of it.          *)
Refer(ref, delta) ==
    LET moved(sum) == [w \in Work |-> IF w = ref THEN sum[w] + delta ELSE sum[w]] IN
    /\ charged' = moved(charged) /\ byHand' = moved(byHand)
    /\ ref \in Work => byHand[ref] + delta \in -MaxByHand .. MaxByHand

(* CreateTransaction: in, out and transfers by hand.                        *)
Transact(p, delta, ref) ==
    /\ Calm /\ place[p] /\ delta # 0
    /\ Apply(p, delta) /\ Refer(ref, delta)
    /\ UNCHANGED <<place, usage, work, cost, ops, serial>>

(* An adjustment: the difference from the level as it was read.             *)
AdjustRead(q, p, counted, ref) ==
    /\ place[p]
    /\ Begin(q, [kind |-> "adjust", place |-> p, delta |-> counted - Level(p), ref |-> ref])
    /\ UNCHANGED <<place, level, journal, unbacked, usage, work, cost, charged, byHand, serial>>

AdjustCommit(q) ==
    /\ ops[q].kind = "adjust" /\ End(q)
    /\ Apply(ops[q].place, ops[q].delta) /\ Refer(ops[q].ref, ops[q].delta)
    /\ UNCHANGED <<place, usage, work, cost, serial>>

(* UpdateStockLocation.                                                     *)
SetPlace(p) ==
    /\ Calm
    /\ place' = [place EXCEPT ![p] = ~@]
    /\ UNCHANGED <<level, journal, unbacked, usage, work, cost, charged, byHand, ops, serial>>

-----------------------------------------------------------------------------
Kept == {u \in Usages : usage[u].status = "kept"}

Known(ref) == ref # NoRef /\ \E u \in Kept : usage[u].ref = ref

(* AddPart and AddConsumableTx until the stock moves: the work is open, the *)
(* usage is new and the location (given or default) is active.              *)
UseRead(q, w, p, n, ref) ==
    /\ work[w] # "closed" /\ ~Known(ref) /\ place[p]
    /\ Begin(q, [kind |-> "use", work |-> w, place |-> p, quantity |-> n, ref |-> ref])
    /\ UNCHANGED <<place, level, journal, unbacked, usage, work, cost, charged, byHand, serial>>

AddPart(q)       == \E w \in Orders, p \in Places, n \in Quantities, r \in Refs \cup {NoRef} : UseRead(q, w, p, n, r)
AddConsumable(q) == \E w \in Tasks, p \in Places, n \in Quantities, r \in Refs \cup {NoRef} : UseRead(q, w, p, n, r)

Charge(w, delta) ==
    /\ charged' = [charged EXCEPT ![w] = @ + delta]
    /\ cost' = IF w \in Orders THEN [cost EXCEPT ![w] = IF @ > delta THEN @ - delta ELSE 0] ELSE cost

(* The stock moves and the usage is inserted; its unique index rolls back a *)
(* name that has been used meanwhile.                                       *)
UseCommit(q) ==
    LET op == ops[q] IN
    /\ op.kind = "use" /\ End(q)
    /\ ~Known(op.ref)
    /\ \E u \in Usages :
         /\ \A v \in Usages : usage[v] = NoUsage <=> v >= u
         /\ usage' = [usage EXCEPT ![u] = [status |-> "kept", work |-> op.work, place |-> op.place,
                                           quantity |-> op.quantity, ref |-> op.ref]]
    /\ Apply(op.place, -op.quantity)
    /\ Charge(op.work, -op.quantity)
    /\ UNCHANGED <<place, work, byHand, serial>>

(* RemovePart and RemoveConsumable: the work is not completed.              *)
RemoveRead(q, u) ==
    /\ u \in Kept /\ work[usage[u].work] = "open"
    /\ Begin(q, [kind |-> "remove", usage |-> u])
    /\ UNCHANGED <<place, level, journal, unbacked, usage, work, cost, charged, byHand, serial>>

(* Mutant of Removed: the row stays.                                        *)
RemovedNot(u) == usage

Removed(u) == [usage EXCEPT ![u].status = "removed"]

(* The stock is given back whether or not the row is still there.           *)
RemoveCommit(q) ==
    LET row == usage[ops[q].usage] IN
    /\ ops[q].kind = "remove" /\ End(q)
    /\ usage' = Removed(ops[q].usage)
    /\ Apply(row.place, row.quantity)
    /\ Charge(row.work, row.quantity)
    /\ UNCHANGED <<place, work, byHand, serial>>

(* The task engine moves the work on.                                       *)
WorkMoves(w) ==
    /\ Calm
    /\ work' = [work EXCEPT ![w] = IF @ = "open" THEN "completed" ELSE "closed"]
    /\ UNCHANGED <<place, level, journal, unbacked, usage, cost, charged, byHand, ops, serial>>

(* A handler ends without effect: the CHECK, the index or an error.         *)
StockAbort(q) ==
    /\ ops[q] # NoOp /\ End(q)
    /\ UNCHANGED <<place, level, journal, unbacked, usage, work, cost, charged, byHand, serial>>

-----------------------------------------------------------------------------
StockIdle ==
    /\ place = [p \in Places |-> TRUE]
    /\ level = [p \in Places |-> NoLevel]
    /\ journal = [p \in Places |-> 0]
    /\ unbacked = [p \in Places |-> 0]
    /\ usage = [u \in Usages |-> NoUsage]
    /\ work = [w \in Work |-> "open"]
    /\ cost = [w \in Work |-> 0]
    /\ charged = [w \in Work |-> 0] /\ byHand = [w \in Work |-> 0]
StockInit == StockIdle /\ TxInit

StockNext ==
    \/ \E p \in Places : \/ SetPlace(p)
                        \/ \E d \in -MaxLevel .. MaxLevel, ref \in Work \cup {NoWork} : Transact(p, d, ref)
    \/ \E w \in Work : WorkMoves(w)
    \/ \E q \in Requests :
         \/ \E p \in Places, n \in 0 .. MaxLevel, ref \in Work \cup {NoWork} : AdjustRead(q, p, n, ref)
         \/ AddPart(q) \/ AddConsumable(q)
         \/ \E u \in Usages : RemoveRead(q, u)
         \/ AdjustCommit(q) \/ UseCommit(q) \/ RemoveCommit(q) \/ StockAbort(q)

StockSpec == StockInit /\ [][StockNext]_stockVars

-----------------------------------------------------------------------------
UsageRows ==
    {NoUsage} \cup [status : {"kept", "removed"}, work : Work, place : Places,
                    quantity : Quantities, ref : Refs \cup {NoRef}]

StockOps ==
    {NoOp} \cup [kind : {"adjust"}, place : Places, delta : Int, ref : Work \cup {NoWork}]
           \cup [kind : {"use"}, work : Work, place : Places, quantity : Quantities, ref : Refs \cup {NoRef}]
           \cup [kind : {"remove"}, usage : Usages]

StockTypeOK ==
    /\ place \in [Places -> BOOLEAN]
    /\ level \in [Places -> NoLevel .. MaxLevel]
    /\ journal \in [Places -> Int]
    /\ unbacked \in [Places -> Nat]
    /\ usage \in [Usages -> UsageRows]
    /\ work \in [Work -> {"open", "completed", "closed"}]
    /\ cost \in [Work -> Nat]
    /\ {charged, byHand} \subseteq [Work -> Int]
    /\ ops \in [Requests -> StockOps]
    /\ serial \in BOOLEAN

(* What row u of usage, and all of them, say of work w.                     *)
Uses(u, w) == IF u \in Kept /\ usage[u].work = w THEN usage[u].quantity ELSE 0
Used(w)    == SumFunction([u \in Usages |-> Uses(u, w)])

(* The journal explains every level, whatever handlers overlap and however  *)
(* stale a count was, but for what was taken from a location that had no    *)
(* level yet: the upsert then inserts zero and the journal a movement of    *)
(* stock that was never there.                                              *)
StockExplained == \A p \in Places : Level(p) = journal[p] + unbacked[p]

(* When no two handlers overlap, the stock charged to a work order or task  *)
(* is what its rows of usage say, but for what people entered on it by hand;*)
(* and the cost of a work order is that of its usage: a correction gives    *)
(* back what was taken, once, and no movement by hand reaches the cost.     *)
UsageExplained ==
    serial => \A w \in Work : /\ charged[w] = byHand[w] - Used(w)
                              /\ w \in Orders => cost[w] = Used(w)

=============================================================================
