---------------------------- MODULE Operations_proofs ----------------------------
(***************************************************************************)
(* Proofs about Stock, BillingRuns, TicketChain and Rounds, for every set   *)
(* of locations, work, names, charges and stops, every number of objects    *)
(* that follow from a ticket, of days and of handlers that overlap: the     *)
(* types, that the journal explains the level of every location, and, while *)
(* handlers take turns, that work is charged for what it uses, that a       *)
(* charge of a billing run is billed once, that clocks agree with what they *)
(* measure, that the last work settles what is above it, and that runs and  *)
(* patrols show what became of their parts.                                 *)
(***************************************************************************)
EXTENDS Stock, BillingRuns, TicketChain, Rounds, SumTheorems

-----------------------------------------------------------------------------
(* Stock.                                                                   *)

Row == [status : {"kept", "removed"}, work : Work, place : Places,
        quantity : Quantities, ref : Refs \cup {NoRef}]

AdjustOp == [kind : {"adjust"}, place : Places, delta : Int, ref : Work \cup {NoWork}]
UseOp    == [kind : {"use"}, work : Work, place : Places, quantity : Quantities, ref : Refs \cup {NoRef}]
RemoveOp == [kind : {"remove"}, usage : Usages]

(* A handler that removes a usage works on a row that was inserted.         *)
RemovesRows == \A q \in Requests : ops[q].kind = "remove" => usage[ops[q].usage] \in Row

StockInv == StockTypeOK /\ RemovesRows /\ StockExplained

(* The movement that applyTx makes keeps the level between its bounds and   *)
(* explained.                                                               *)
LEMMA ApplyExplained ==
    ASSUME StockInv, NEW p \in Places, NEW delta \in Int, Apply(p, delta)
    PROVE  /\ level' \in [Places -> NoLevel .. MaxLevel]
           /\ journal' \in [Places -> Int]
           /\ unbacked' \in [Places -> Nat]
           /\ StockExplained'
<1>1. /\ level \in [Places -> NoLevel .. MaxLevel] /\ journal \in [Places -> Int]
      /\ unbacked \in [Places -> Nat] /\ MaxLevel \in Nat
  BY StockAssumption DEF StockInv, StockTypeOK
<1>2. Moved(p, delta) \in 0 .. MaxLevel /\ Moved(p, delta) \in NoLevel .. MaxLevel
  BY <1>1 DEF Apply, NoLevel
<1>3. /\ level' = [level EXCEPT ![p] = Moved(p, delta)]
      /\ journal' = [journal EXCEPT ![p] = journal[p] + delta]
      /\ unbacked' = IF level[p] = NoLevel /\ delta < 0
                     THEN [unbacked EXCEPT ![p] = unbacked[p] - delta] ELSE unbacked
  BY DEF Apply
<1>4. level' \in [Places -> NoLevel .. MaxLevel]
  BY <1>1, <1>2, <1>3
<1>5. journal' \in [Places -> Int]
  BY <1>1, <1>3
<1>6. unbacked' \in [Places -> Nat]
  <2>1. delta < 0 => unbacked[p] - delta \in Nat
    BY <1>1
  <2> QED
    BY <1>1, <1>3, <2>1
<1>7. StockExplained'
  <2> SUFFICES ASSUME NEW x \in Places
               PROVE  (IF level'[x] = NoLevel THEN 0 ELSE level'[x]) = journal'[x] + unbacked'[x]
    BY DEF StockExplained, Level
  <2>1. (IF level[x] = NoLevel THEN 0 ELSE level[x]) = journal[x] + unbacked[x]
    BY DEF StockInv, StockExplained, Level
  <2>2. CASE x # p
    BY <1>1, <1>3, <2>1, <2>2
  <2>3. CASE x = p
    <3>1. /\ level'[p] = Moved(p, delta) /\ journal'[p] = journal[p] + delta
          /\ unbacked'[p] = IF level[p] = NoLevel /\ delta < 0
                            THEN unbacked[p] - delta ELSE unbacked[p]
      BY <1>1, <1>3
    <3>2. /\ level[p] \in Int /\ journal[p] \in Int /\ unbacked[p] \in Nat
          /\ Moved(p, delta) # NoLevel
      BY <1>1, <1>2 DEF NoLevel
    <3> QED
      BY <2>1, <2>3, <3>1, <3>2 DEF Moved, NoLevel
  <2> QED
    BY <2>2, <2>3
<1> QED
  BY <1>4, <1>5, <1>6, <1>7

(* What a handler takes or gives back is charged to the work.               *)
LEMMA ChargeTyped ==
    ASSUME StockTypeOK, NEW w \in Work, NEW delta \in Int, Charge(w, delta)
    PROVE  cost' \in [Work -> Nat] /\ charged' \in [Work -> Int] /\ byHand \in [Work -> Int]
<1>0. {charged, byHand} \subseteq [Work -> Int]
  BY DEF StockTypeOK
<1>1. byHand \in [Work -> Int] /\ cost \in [Work -> Nat] /\ charged \in [Work -> Int]
  BY <1>0 DEF StockTypeOK
<1>2. charged' \in [Work -> Int]
  BY <1>1 DEF Charge
<1>3. (IF cost[w] > delta THEN cost[w] - delta ELSE 0) \in Nat
  BY <1>1
<1> QED
  BY <1>1, <1>2, <1>3 DEF Charge

LEMMA ReferTyped ==
    ASSUME StockTypeOK, NEW ref, NEW delta \in Int, Refer(ref, delta)
    PROVE  {charged', byHand'} \subseteq [Work -> Int]
<1>1. {charged, byHand} \subseteq [Work -> Int]
  BY DEF StockTypeOK
<1>2. charged \in [Work -> Int] /\ byHand \in [Work -> Int]
  BY <1>1
<1>3. charged' = [w \in Work |-> IF w = ref THEN charged[w] + delta ELSE charged[w]]
  BY DEF Refer
<1>4. byHand' = [w \in Work |-> IF w = ref THEN byHand[w] + delta ELSE byHand[w]]
  BY DEF Refer
<1>5. charged' \in [Work -> Int]
  BY <1>2, <1>3
<1>6. byHand' \in [Work -> Int]
  BY <1>2, <1>4
<1> QED
  BY <1>5, <1>6

(* A handler that begins keeps what it read; the others keep theirs.        *)
LEMMA BeginTyped ==
    ASSUME StockInv, NEW q \in Requests, NEW op \in StockOps,
           op.kind = "remove" => usage[op.usage] \in Row,
           Start(q, op), usage' = usage
    PROVE  ops' \in [Requests -> StockOps] /\ RemovesRows'
<1>1. ops \in [Requests -> StockOps] /\ ops' = [ops EXCEPT ![q] = op]
  BY DEF StockInv, StockTypeOK, Start
<1> QED
  BY <1>1 DEF RemovesRows, StockInv

LEMMA EndTyped ==
    ASSUME StockInv, NEW q \in Requests, End(q),
           \A u \in Usages : usage[u] \in Row => usage'[u] \in Row
    PROVE  ops' \in [Requests -> StockOps] /\ RemovesRows'
<1>1. ops \in [Requests -> StockOps] /\ ops' = [ops EXCEPT ![q] = NoOp] /\ NoOp \in StockOps
  BY DEF StockInv, StockTypeOK, End, StockOps
<1>2. \A x \in Requests : ops[x].kind = "remove" => ops[x].usage \in Usages
  <2> TAKE x \in Requests
  <2> QED
    BY <1>1 DEF StockOps, NoOp
<1> QED
  BY <1>1, <1>2 DEF RemovesRows, StockInv, NoOp

(* The rows of ops by their kind.                                           *)
LEMMA OpOfKind ==
    ASSUME StockInv, NEW q \in Requests
    PROVE  /\ ops[q].kind = "adjust" => ops[q] \in AdjustOp
           /\ ops[q].kind = "use"    => ops[q] \in UseOp
           /\ ops[q].kind = "remove" => ops[q] \in RemoveOp /\ usage[ops[q].usage] \in Row
BY DEF StockInv, StockTypeOK, StockOps, NoOp, AdjustOp, UseOp, RemoveOp, RemovesRows

LEMMA StockInitially == StockInit => StockInv
<1> SUFFICES ASSUME StockInit PROVE StockInv
  OBVIOUS
<1> USE DEF StockInit, StockIdle, TxInit
<1>1. StockTypeOK
  <2>1. NoLevel \in NoLevel .. MaxLevel
    BY StockAssumption DEF NoLevel
  <2> QED
    BY <2>1 DEF StockTypeOK, UsageRows, StockOps
<1>2. RemovesRows /\ StockExplained
  BY DEF RemovesRows, NoOp, StockExplained, Level
<1> QED
  BY <1>1, <1>2 DEF StockInv

LEMMA StockStep == StockInv /\ [StockNext]_stockVars => StockInv'
<1> SUFFICES ASSUME StockInv, [StockNext]_stockVars PROVE StockInv'
  OBVIOUS
<1>0. MaxLevel \in Nat /\ StockTypeOK /\ RemovesRows /\ StockExplained
  BY StockAssumption DEF StockInv
<1> DEFINE same == UNCHANGED <<level, journal, unbacked>>
           books == UNCHANGED <<usage, cost, charged, byHand>>
<1>1. ASSUME NEW p \in Places, SetPlace(p) PROVE StockInv'
  BY <1>0, <1>1 DEF SetPlace, StockInv, StockTypeOK, RemovesRows, StockExplained, Level
<1>2. ASSUME NEW p \in Places, NEW d \in -MaxLevel .. MaxLevel, NEW ref \in Work \cup {NoWork}, Transact(p, d, ref)
      PROVE  StockInv'
  <2>1. d \in Int /\ Apply(p, d) /\ Refer(ref, d)
    BY <1>0, <1>2 DEF Transact
  <2>2. UNCHANGED <<place, usage, work, cost, ops, serial>>
    BY <1>2 DEF Transact
  <2>3. {charged', byHand'} \subseteq [Work -> Int]
    BY <1>0, <2>1, ReferTyped
  <2> QED
    BY <1>0, <2>1, <2>2, <2>3, ApplyExplained DEF StockInv, StockTypeOK, RemovesRows
<1>3. ASSUME NEW w \in Work, WorkMoves(w) PROVE StockInv'
  BY <1>0, <1>3 DEF WorkMoves, StockInv, StockTypeOK, RemovesRows, StockExplained, Level
<1>4. ASSUME NEW q \in Requests, NEW p \in Places, NEW n \in 0 .. MaxLevel, NEW ref \in Work \cup {NoWork},
             AdjustRead(q, p, n, ref)
      PROVE  StockInv'
  <2> DEFINE op == [kind |-> "adjust", place |-> p, delta |-> n - Level(p), ref |-> ref]
  <2>1. op \in StockOps
    <3>1. Level(p) \in Int
      BY <1>0 DEF StockTypeOK, Level, NoLevel
    <3> QED
      BY <1>0, <3>1 DEF StockOps
  <2>2. Start(q, op) /\ UNCHANGED <<place, level, journal, unbacked, usage, work, cost, charged, byHand, serial>>
    BY <1>4 DEF AdjustRead, Begin
  <2>3. ops' \in [Requests -> StockOps] /\ RemovesRows'
    BY <2>1, <2>2, BeginTyped
  <2> QED
    BY <1>0, <2>2, <2>3 DEF StockInv, StockTypeOK, StockExplained, Level
<1>5. ASSUME NEW q \in Requests, NEW w \in Work, NEW p \in Places, NEW n \in Quantities,
             NEW r \in Refs \cup {NoRef}, UseRead(q, w, p, n, r)
      PROVE  StockInv'
  <2> DEFINE op == [kind |-> "use", work |-> w, place |-> p, quantity |-> n, ref |-> r]
  <2>1. op \in StockOps /\ op.kind # "remove"
    BY DEF StockOps
  <2>2. Start(q, op) /\ UNCHANGED <<place, level, journal, unbacked, usage, work, cost, charged, byHand, serial>>
    BY <1>5 DEF UseRead, Begin
  <2>3. ops' \in [Requests -> StockOps] /\ RemovesRows'
    BY <2>1, <2>2, BeginTyped
  <2> QED
    BY <1>0, <2>2, <2>3 DEF StockInv, StockTypeOK, StockExplained, Level
<1>6. ASSUME NEW q \in Requests, NEW u \in Usages, RemoveRead(q, u) PROVE StockInv'
  <2> DEFINE op == [kind |-> "remove", usage |-> u]
  <2>1. op \in StockOps /\ usage[u] \in Row
    BY <1>0, <1>6 DEF StockOps, RemoveRead, Kept, StockTypeOK, UsageRows, NoUsage, Row
  <2>2. Start(q, op) /\ UNCHANGED <<place, level, journal, unbacked, usage, work, cost, charged, byHand, serial>>
    BY <1>6 DEF RemoveRead, Begin
  <2>3. ops' \in [Requests -> StockOps] /\ RemovesRows'
    BY <2>1, <2>2, BeginTyped
  <2> QED
    BY <1>0, <2>2, <2>3 DEF StockInv, StockTypeOK, StockExplained, Level
<1>7. ASSUME NEW q \in Requests, AdjustCommit(q) PROVE StockInv'
  <2>1. /\ End(q) /\ Apply(ops[q].place, ops[q].delta) /\ ops[q] \in AdjustOp
        /\ Refer(ops[q].ref, ops[q].delta) /\ UNCHANGED <<place, usage, work, cost, serial>>
    BY <1>7, OpOfKind DEF AdjustCommit
  <2>2. ops[q].place \in Places /\ ops[q].delta \in Int
    BY <2>1 DEF AdjustOp
  <2>3. ops' \in [Requests -> StockOps] /\ RemovesRows'
    BY <2>1, EndTyped
  <2>4. {charged', byHand'} \subseteq [Work -> Int]
    BY <1>0, <2>1, <2>2, ReferTyped
  <2> QED
    BY <1>0, <2>1, <2>2, <2>3, <2>4, ApplyExplained DEF StockInv, StockTypeOK
<1>8. ASSUME NEW q \in Requests, UseCommit(q) PROVE StockInv'
  <2>1. ops[q] \in UseOp /\ End(q)
    BY <1>8, OpOfKind DEF UseCommit
  <2>2. /\ ops[q].place \in Places /\ -ops[q].quantity \in Int /\ ops[q].work \in Work
        /\ ops[q].quantity \in Quantities /\ ops[q].ref \in Refs \cup {NoRef}
    BY <1>0, <2>1 DEF UseOp, Quantities
  <2> DEFINE row == [status |-> "kept", work |-> ops[q].work, place |-> ops[q].place,
                     quantity |-> ops[q].quantity, ref |-> ops[q].ref]
  <2>3. PICK u \in Usages : usage' = [usage EXCEPT ![u] = row]
    BY <1>8 DEF UseCommit
  <2>4. row \in Row
    BY <2>2 DEF Row
  <2>5. /\ usage' \in [Usages -> UsageRows]
        /\ \A v \in Usages : usage[v] \in Row => usage'[v] \in Row
    <3> HIDE DEF row
    <3> QED
      BY <1>0, <2>3, <2>4 DEF StockTypeOK, UsageRows, Row
  <2>6. /\ Apply(ops[q].place, -ops[q].quantity) /\ Charge(ops[q].work, -ops[q].quantity)
        /\ UNCHANGED <<place, work, byHand, serial>>
    BY <1>8 DEF UseCommit
  <2>7. ops' \in [Requests -> StockOps] /\ RemovesRows'
    BY <2>1, <2>5, EndTyped
  <2>8. cost' \in [Work -> Nat] /\ {charged', byHand'} \subseteq [Work -> Int]
    BY <1>0, <2>2, <2>6, ChargeTyped
  <2>9. /\ level' \in [Places -> NoLevel .. MaxLevel] /\ journal' \in [Places -> Int]
        /\ unbacked' \in [Places -> Nat] /\ StockExplained'
    BY <2>2, <2>6, ApplyExplained
  <2> QED
    BY <1>0, <2>5, <2>6, <2>7, <2>8, <2>9 DEF StockInv, StockTypeOK
<1>9. ASSUME NEW q \in Requests, RemoveCommit(q) PROVE StockInv'
  <2> DEFINE u == ops[q].usage
  <2>1. /\ ops[q] \in RemoveOp /\ End(q) /\ usage[u] \in Row
        /\ usage' = [usage EXCEPT ![u].status = "removed"]
        /\ Apply(usage[u].place, usage[u].quantity) /\ Charge(usage[u].work, usage[u].quantity)
        /\ UNCHANGED <<place, work, byHand, serial>>
    BY <1>9, OpOfKind DEF RemoveCommit, Removed
  <2>2. /\ u \in Usages /\ usage[u].place \in Places /\ usage[u].quantity \in Int
        /\ usage[u].work \in Work
    BY <1>0, <2>1 DEF RemoveOp, Row, Quantities
  <2> HIDE DEF u
  <2>3. [usage[u] EXCEPT !.status = "removed"] \in Row
    BY <2>1 DEF Row
  <2>4. /\ usage' \in [Usages -> UsageRows]
        /\ \A v \in Usages : usage[v] \in Row => usage'[v] \in Row
    <3> DEFINE row == [usage[u] EXCEPT !.status = "removed"]
    <3>1. usage' = [usage EXCEPT ![u] = row] /\ row \in Row
      BY <2>1, <2>3
    <3> HIDE DEF row
    <3> QED
      BY <1>0, <2>2, <3>1 DEF StockTypeOK, UsageRows, Row
  <2>5. ops' \in [Requests -> StockOps] /\ RemovesRows'
    BY <2>1, <2>4, EndTyped
  <2>6. cost' \in [Work -> Nat] /\ {charged', byHand'} \subseteq [Work -> Int]
    BY <1>0, <2>1, <2>2, ChargeTyped
  <2>7. /\ level' \in [Places -> NoLevel .. MaxLevel] /\ journal' \in [Places -> Int]
        /\ unbacked' \in [Places -> Nat] /\ StockExplained'
    BY <2>1, <2>2, ApplyExplained
  <2> QED
    BY <1>0, <2>1, <2>4, <2>5, <2>6, <2>7 DEF StockInv, StockTypeOK
<1>10. ASSUME NEW q \in Requests, StockAbort(q) PROVE StockInv'
  <2>1. End(q) /\ UNCHANGED <<place, level, journal, unbacked, usage, work, cost, charged, byHand, serial>>
    BY <1>10 DEF StockAbort
  <2>2. ops' \in [Requests -> StockOps] /\ RemovesRows'
    BY <2>1, EndTyped
  <2> QED
    BY <1>0, <2>1, <2>2 DEF StockInv, StockTypeOK, StockExplained, Level
<1>11. ASSUME UNCHANGED stockVars PROVE StockInv'
  BY <1>0, <1>11 DEF stockVars, StockInv, StockTypeOK, RemovesRows, StockExplained, Level
<1>12. Orders \subseteq Work /\ Tasks \subseteq Work
  BY DEF Work
<1> QED
  BY <1>1, <1>2, <1>3, <1>4, <1>5, <1>6, <1>7, <1>8, <1>9, <1>10, <1>11, <1>12
     DEF StockNext, AddPart, AddConsumable

(* Every row of the stock keeps its type; a handler that gives a usage back *)
(* has a usage that was made, and no level leaves its bounds.               *)
THEOREM StockTyped == StockSpec => []StockTypeOK
<1>1. StockInv => StockTypeOK
  BY DEF StockInv
<1> QED
  BY StockInitially, StockStep, <1>1, PTL DEF StockSpec

(* The journal of stock transactions explains the level of every location,  *)
(* with any number of handlers that overlap and however stale a count was.  *)
THEOREM JournalExplains == StockSpec => []StockExplained
<1>1. StockInv => StockExplained
  BY DEF StockInv
<1> QED
  BY StockInitially, StockStep, <1>1, PTL DEF StockSpec

-----------------------------------------------------------------------------
(* What work is charged for, while handlers take turns.                     *)
UsageBooks == \A w \in Work : charged[w] = byHand[w] - Used(w) /\ (w \in Orders => cost[w] = Used(w))

(* Nobody works beside a handler, and the row that it removes is still kept.*)
StockTurns ==
    /\ \A p, q \in Requests : ops[p] # NoOp /\ ops[q] # NoOp => p = q
    /\ \A q \in Requests : ops[q].kind = "remove" => ops[q].usage \in Kept

UsageInv == serial => UsageBooks /\ StockTurns

LEMMA UsesNat ==
    ASSUME NEW w, NEW u \in Usages, usage \in [Usages -> UsageRows]
    PROVE  Uses(u, w) \in Nat
<1>1. u \in Kept => usage[u].quantity \in Nat
  <2>1. MaxLevel \in Nat
    BY StockAssumption
  <2> QED
    BY <2>1 DEF Kept, UsageRows, NoUsage, Quantities
<1> QED
  BY <1>1 DEF Uses

LEMMA UsedNat ==
    ASSUME NEW w, usage \in [Usages -> UsageRows]
    PROVE  Used(w) \in Nat
<1> DEFINE f == [v \in Usages |-> Uses(v, w)]
<1>1. \A v \in Usages : f[v] \in Nat
  BY UsesNat
<1>2. Used(w) = SumFunctionOnSet(f, Usages)
  BY DEF Used, SumFunction
<1>3. IsFiniteSet(Usages)
  <2>1. MaxUsages \in Nat
    BY StockAssumption
  <2> QED
    BY <2>1, FS_Interval DEF Usages
<1> HIDE DEF f
<1> QED
  BY <1>1, <1>2, <1>3, SumNat

(* One row of usage changes.                                                *)
LEMMA UsedMoves ==
    ASSUME NEW w, NEW u \in Usages, usage \in [Usages -> UsageRows], usage' \in [Usages -> UsageRows],
           \A v \in Usages \ {u} : usage'[v] = usage[v]
    PROVE  Used(w)' = Used(w) + Uses(u, w)' - Uses(u, w) /\ Used(w) \in Nat /\ Used(w)' \in Nat
<1> DEFINE f == [v \in Usages |-> Uses(v, w)]
           g == [v \in Usages |-> Uses(v, w)']
<1>1. ASSUME NEW v \in Usages PROVE f[v] \in Nat /\ g[v] \in Nat
  <2>1. Uses(v, w) \in Nat
    BY UsesNat
  <2>2. Uses(v, w)' \in Nat
    <3>1. MaxLevel \in Nat
      BY StockAssumption
    <3>2. v \in Kept' => usage'[v].quantity \in Nat
      BY <3>1 DEF Kept, UsageRows, NoUsage, Quantities
    <3> QED
      BY <3>2 DEF Uses
  <2> QED
    BY <2>1, <2>2
<1>2. \A v \in Usages \ {u} : g[v] = f[v]
  BY DEF Uses, Kept
<1>3. f[u] = Uses(u, w) /\ g[u] = Uses(u, w)'
  OBVIOUS
<1>4. Used(w) = SumFunctionOnSet(f, Usages) /\ Used(w)' = SumFunctionOnSet(g, Usages)
  BY DEF Used, SumFunction
<1>5. IsFiniteSet(Usages)
  <2>1. MaxUsages \in Nat
    BY StockAssumption
  <2> QED
    BY <2>1, FS_Interval DEF Usages
<1> HIDE DEF f, g
<1>6. SumFunctionOnSet(g, Usages) = SumFunctionOnSet(f, Usages) + g[u] - f[u]
  BY <1>1, <1>2, <1>5, SumChange
<1>7. SumFunctionOnSet(f, Usages) \in Nat /\ SumFunctionOnSet(g, Usages) \in Nat
  BY <1>1, <1>5, SumNat
<1> QED
  BY <1>3, <1>4, <1>6, <1>7

(* A row changes and its work is charged for the difference.                *)
LEMMA RowCharged ==
    ASSUME StockTypeOK, UsageBooks, usage' \in [Usages -> UsageRows], NEW u \in Usages,
           \A v \in Usages \ {u} : usage'[v] = usage[v], NEW w \in Work, NEW delta \in Int, Charge(w, delta), byHand' = byHand,
           Uses(u, w)' = Uses(u, w) - delta, \A x \in Work \ {w} : Uses(u, x)' = Uses(u, x)
    PROVE  UsageBooks'
<1>a. {charged, byHand} \subseteq [Work -> Int]
  BY DEF StockTypeOK
<1>0. /\ usage \in [Usages -> UsageRows] /\ cost \in [Work -> Nat]
      /\ charged \in [Work -> Int] /\ byHand \in [Work -> Int]
  BY <1>a DEF StockTypeOK
<1> SUFFICES ASSUME NEW x \in Work
             PROVE  charged'[x] = byHand[x] - Used(x)' /\ (x \in Orders => cost'[x] = Used(x)')
  BY DEF UsageBooks
<1>1. charged[x] = byHand[x] - Used(x) /\ (x \in Orders => cost[x] = Used(x)) /\ byHand[x] \in Int
  BY <1>0 DEF UsageBooks
<1>2. Used(x)' = Used(x) + Uses(u, x)' - Uses(u, x) /\ Used(x) \in Nat /\ Used(x)' \in Nat
  BY <1>0, UsedMoves
<1>3. Uses(u, x) \in Nat
  BY <1>0, UsesNat
<1>4. CASE x = w
  <2>1. charged'[x] = charged[x] + delta
        /\ (x \in Orders => cost'[x] = IF cost[x] > delta THEN cost[x] - delta ELSE 0)
    BY <1>0, <1>4 DEF Charge
  <2>2. Used(x)' = Used(x) - delta
    BY <1>2, <1>3, <1>4
  <2> QED
    BY <1>1, <1>2, <2>1, <2>2
<1>5. CASE x # w
  <2>1. charged'[x] = charged[x] /\ cost'[x] = cost[x]
    BY <1>0, <1>5 DEF Charge
  <2>2. Used(x)' = Used(x)
    BY <1>2, <1>3, <1>5
  <2> QED
    BY <1>1, <2>1, <2>2
<1> QED
  BY <1>4, <1>5

LEMMA UsageStill == ASSUME UsageBooks, UNCHANGED <<usage, cost, charged, byHand>> PROVE UsageBooks'
<1>1. \A w \in Work : Used(w)' = Used(w)
  BY DEF Used, Uses, Kept
<1> QED
  BY <1>1 DEF UsageBooks

(* What people enter on a work is the only part its usage does not explain. *)
LEMMA UsageReferred ==
    ASSUME StockTypeOK, UsageBooks, UNCHANGED <<usage, cost>>, NEW ref, NEW delta \in Int, Refer(ref, delta)
    PROVE  UsageBooks'
<1>1. {charged, byHand} \subseteq [Work -> Int]
  BY DEF StockTypeOK
<1>2. \A w \in Work : Used(w)' = Used(w)
  BY DEF Used, Uses, Kept
<1>3. ASSUME NEW w \in Work PROVE charged'[w] = byHand'[w] - Used(w) /\ cost'[w] = cost[w]
  <2>1. charged[w] = byHand[w] - Used(w) /\ byHand[w] \in Int /\ Used(w) \in Int
    <3>1. usage \in [Usages -> UsageRows] /\ byHand[w] \in Int
      BY <1>1 DEF StockTypeOK
    <3>2. Used(w) \in Nat
      BY <3>1, UsedNat
    <3> QED
      BY <3>1, <3>2 DEF UsageBooks
  <2>2. charged'[w] = IF w = ref THEN charged[w] + delta ELSE charged[w]
    BY DEF Refer
  <2>3. byHand'[w] = IF w = ref THEN byHand[w] + delta ELSE byHand[w]
    BY DEF Refer
  <2> QED
    BY <2>1, <2>2, <2>3
<1> QED
  BY <1>2, <1>3 DEF UsageBooks

(* Turns: a handler alone begins, ends, or waits for nobody.                *)
LEMMA TurnBegins ==
    ASSUME StockInv, serial, NEW q \in Requests, NEW op, Begin(q, op), usage' = usage,
           op.kind = "remove" => op.usage \in Kept
    PROVE  StockTurns'
<1>1. /\ ops' = [ops EXCEPT ![q] = op] /\ ops \in [Requests -> StockOps]
      /\ \A r \in Requests \ {q} : ops[r] = NoOp
  BY DEF Begin, Start, Turn, StockInv, StockTypeOK
<1>2. ops'[q] = op /\ \A r \in Requests \ {q} : ops'[r] = NoOp
  BY <1>1
<1> QED
  BY <1>2 DEF StockTurns, Kept, NoOp

LEMMA TurnEnds == ASSUME StockInv, StockTurns, NEW q \in Requests, ops[q] # NoOp, End(q) PROVE StockTurns'
<1>1. \A r \in Requests : ops'[r] = NoOp
  BY DEF StockInv, StockTypeOK, End, StockTurns
<1> QED
  BY <1>1 DEF StockTurns, NoOp

LEMMA CalmTurns == ASSUME serial, Calm, ops' = ops PROVE StockTurns'
BY DEF Calm, StockTurns, NoOp

LEMMA UsageStep == ASSUME StockInv, StockInv', UsageInv, [StockNext]_stockVars PROVE UsageInv'
<1>0. StockTypeOK /\ usage' \in [Usages -> UsageRows] /\ usage \in [Usages -> UsageRows]
  BY DEF StockInv, StockTypeOK
<1> SUFFICES ASSUME serial, serial' = serial PROVE UsageBooks' /\ StockTurns'
  <2>1. serial' = serial
    BY DEF stockVars, StockNext, SetPlace, Transact, WorkMoves, AdjustRead, AddPart, AddConsumable, UseRead,
       RemoveRead, AdjustCommit, UseCommit, RemoveCommit, StockAbort
  <2> QED
    BY <2>1 DEF UsageInv
<1>a. UsageBooks /\ StockTurns
  BY DEF UsageInv
<1>1. CASE \E p \in Places : SetPlace(p)
  BY <1>a, <1>1, UsageStill, CalmTurns DEF SetPlace
<1>12. ASSUME NEW p \in Places, NEW d \in -MaxLevel .. MaxLevel, NEW ref \in Work \cup {NoWork}, Transact(p, d, ref)
       PROVE  UsageBooks' /\ StockTurns'
  <2>1. d \in Int
    BY StockAssumption
  <2>2. Calm /\ ops' = ops /\ UNCHANGED <<usage, cost>> /\ Refer(ref, d)
    BY <1>12 DEF Transact
  <2> QED
    BY <1>0, <1>a, <2>1, <2>2, UsageReferred, CalmTurns
<1>2. CASE \E w \in Work : WorkMoves(w)
  BY <1>a, <1>2, UsageStill, CalmTurns DEF WorkMoves
<1>3. ASSUME NEW q \in Requests, NEW p \in Places, NEW n \in 0 .. MaxLevel, NEW ref \in Work \cup {NoWork},
             AdjustRead(q, p, n, ref)
      PROVE  UsageBooks' /\ StockTurns'
  BY <1>a, <1>3, UsageStill, TurnBegins DEF AdjustRead
<1>4. ASSUME NEW q \in Requests, NEW w \in Work, NEW p \in Places, NEW n \in Quantities, NEW r \in Refs \cup {NoRef},
             UseRead(q, w, p, n, r)
      PROVE  UsageBooks' /\ StockTurns'
  BY <1>a, <1>4, UsageStill, TurnBegins DEF UseRead
<1>5. ASSUME NEW q \in Requests, NEW u \in Usages, RemoveRead(q, u) PROVE UsageBooks' /\ StockTurns'
  BY <1>a, <1>5, UsageStill, TurnBegins DEF RemoveRead
<1>6. ASSUME NEW q \in Requests, AdjustCommit(q) PROVE UsageBooks' /\ StockTurns'
  <2>1. ops[q] # NoOp /\ End(q) /\ UNCHANGED <<usage, cost>> /\ Refer(ops[q].ref, ops[q].delta)
    BY <1>6 DEF AdjustCommit, NoOp
  <2>2. ops[q].delta \in Int
    BY <1>6, OpOfKind DEF AdjustCommit, AdjustOp
  <2> QED
    BY <1>0, <1>a, <2>1, <2>2, UsageReferred, TurnEnds
<1>7. ASSUME NEW q \in Requests, StockAbort(q) PROVE UsageBooks' /\ StockTurns'
  BY <1>a, <1>7, UsageStill, TurnEnds DEF StockAbort
<1>8. ASSUME NEW q \in Requests, UseCommit(q) PROVE UsageBooks' /\ StockTurns'
  <2>0. PICK w, n, row : /\ w = ops[q].work /\ n = ops[q].quantity
                         /\ row = [status |-> "kept", work |-> w, place |-> ops[q].place,
                                   quantity |-> n, ref |-> ops[q].ref]
    OBVIOUS
  <2>1. ops[q].kind = "use" /\ ops[q] \in UseOp /\ ops[q] # NoOp /\ End(q) /\ Charge(w, -n) /\ byHand' = byHand
    BY <1>8, <2>0, OpOfKind DEF UseCommit, NoOp
  <2>2. w \in Work /\ n \in Nat /\ -n \in Int
    BY <2>0, <2>1, StockAssumption DEF UseOp, Quantities
  <2>3. PICK u \in Usages : usage[u] = NoUsage /\ usage' = [usage EXCEPT ![u] = row]
    <3>1. PICK u \in Usages : (\A v \in Usages : usage[v] = NoUsage <=> v >= u) /\ usage' = [usage EXCEPT ![u] = row]
      BY <1>8, <2>0 DEF UseCommit
    <3>2. u \in Int
      BY StockAssumption DEF Usages
    <3>3. usage[u] = NoUsage
      BY <3>1, <3>2
    <3> QED
      BY <3>1, <3>3
  <2>4. row.status = "kept" /\ row.work = w /\ row.quantity = n
    BY <2>0
  <2>5. usage'[u] = row /\ \A v \in Usages \ {u} : usage'[v] = usage[v]
    BY <1>0, <2>3
  <2>6. \A x : Uses(u, x)' = (IF x = w THEN n ELSE 0) /\ Uses(u, x) = 0
    BY <2>3, <2>4, <2>5 DEF Uses, Kept, NoUsage
  <2>7. UsageBooks'
    <3>1. Uses(u, w)' = Uses(u, w) - (-n) /\ -n \in Int
      BY <2>2, <2>6
    <3>2. \A x \in Work \ {w} : Uses(u, x)' = Uses(u, x)
      BY <2>6
    <3> QED
      BY <1>0, <1>a, <2>1, <2>2, <2>5, <3>1, <3>2, RowCharged
  <2> QED
    BY <1>a, <2>1, <2>7, TurnEnds
<1>9. ASSUME NEW q \in Requests, RemoveCommit(q) PROVE UsageBooks' /\ StockTurns'
  <2>1. PICK u : u = ops[q].usage
    OBVIOUS
  <2>2. /\ ops[q].kind = "remove" /\ End(q) /\ ops[q] # NoOp /\ u \in Kept /\ usage[u] \in Row
        /\ usage' = [usage EXCEPT ![u].status = "removed"] /\ Charge(usage[u].work, usage[u].quantity)
        /\ byHand' = byHand
    BY <1>9, <1>a, <2>1, OpOfKind DEF RemoveCommit, Removed, StockTurns, NoOp
  <2>3. PICK w, n : w = usage[u].work /\ n = usage[u].quantity
    OBVIOUS
  <2>4. u \in Usages /\ w \in Work /\ n \in Nat
    BY <2>2, <2>3, StockAssumption DEF Kept, Row, Quantities
  <2>5. usage'[u].status = "removed" /\ \A v \in Usages \ {u} : usage'[v] = usage[v]
    BY <1>0, <2>2, <2>4 DEF Row
  <2>6. \A x : Uses(u, x) = (IF x = w THEN n ELSE 0) /\ Uses(u, x)' = 0
    BY <2>2, <2>3, <2>4, <2>5 DEF Uses, Kept
  <2>7. UsageBooks'
    <3>1. Uses(u, w)' = Uses(u, w) - n /\ n \in Int
      BY <2>4, <2>6
    <3>2. \A x \in Work \ {w} : Uses(u, x)' = Uses(u, x)
      BY <2>6
    <3> QED
      BY <1>0, <1>a, <2>2, <2>3, <2>4, <2>5, <3>1, <3>2, RowCharged
  <2> QED
    BY <1>a, <2>2, <2>7, TurnEnds
<1>10. CASE UNCHANGED stockVars
  BY <1>a, <1>10, UsageStill DEF stockVars, StockTurns, Kept
<1>11. Orders \subseteq Work /\ Tasks \subseteq Work
  BY DEF Work
<1> QED
  BY <1>1, <1>2, <1>3, <1>4, <1>5, <1>6, <1>7, <1>8, <1>9, <1>10, <1>11, <1>12
     DEF StockNext, AddPart, AddConsumable

LEMMA UsageInitially == ASSUME StockInit PROVE UsageInv
<1>1. /\ usage = [u \in Usages |-> NoUsage] /\ cost = [w \in Work |-> 0] /\ charged = [w \in Work |-> 0]
      /\ byHand = [w \in Work |-> 0]
      /\ ops = [q \in Requests |-> NoOp]
  BY DEF StockInit, StockIdle, TxInit
<1>2. ASSUME NEW w \in Work PROVE Used(w) = 0
  <2> DEFINE f == [u \in Usages |-> Uses(u, w)]
  <2>1. \A u \in Usages : f[u] = 0
    BY <1>1 DEF Uses, Kept, NoUsage
  <2>2. Used(w) = SumFunctionOnSet(f, Usages)
    BY DEF Used, SumFunction
  <2>3. IsFiniteSet(Usages)
    <3>1. MaxUsages \in Nat
      BY StockAssumption
    <3> QED
      BY <3>1, FS_Interval DEF Usages
  <2> HIDE DEF f
  <2> QED
    BY <2>1, <2>2, <2>3, SumZero
<1>3. Orders \subseteq Work
  BY DEF Work
<1> QED
  BY <1>1, <1>2, <1>3 DEF UsageInv, UsageBooks, StockTurns, NoOp

(* While handlers take turns, a work order or a cleaning task is charged for*)
(* the rows of usage that are kept and for what people entered on it by     *)
(* hand, and a work order costs what its usage does: what a correction      *)
(* removes is given back once, and no movement by hand reaches the cost.    *)
THEOREM UsageCharged == StockSpec => []UsageExplained
<1>1. StockInit => UsageInv
  BY UsageInitially
<1>2. StockInv /\ StockInv' /\ UsageInv /\ [StockNext]_stockVars => UsageInv'
  BY UsageStep
<1>3. UsageInv => UsageExplained
  BY DEF UsageInv, UsageBooks, UsageExplained
<1> QED
  BY StockInitially, StockStep, <1>1, <1>2, <1>3, PTL DEF StockSpec

-----------------------------------------------------------------------------
(* Billing runs.                                                            *)
NewLines == [Charges -> [is : {"absent", "exception", "excluded", "included"}, bill : {0}]]

RefreshOp  == [kind : {"refresh"}, run : Runs, line : NewLines]
GenerateOp == [kind : {"generate"}, run : Runs, charges : SUBSET Charges, refreshes : 0 .. MaxRefreshes]
IssueOp    == [kind : {"issue"}, run : Runs, bills : SUBSET Bills]
CancelOp   == [kind : {"cancel"}, run : Runs, bills : SUBSET Bills]
RunOps     == {NoOp} \cup RefreshOp \cup GenerateOp \cup IssueOp \cup CancelOp

RunTyped == RunTypeOK /\ ops \in [Requests -> RunOps]

(* Invoices are numbered in the order of their creation.                    *)
BillsInOrder == \E n \in 0 .. MaxBills : \A i \in Bills : bill[i].status # "none" <=> i <= n

(* The lines of a run point to exactly the live invoices that bill them.    *)
LinesPoint == \A r \in Runs, c \in Charges, i \in Bills :
                run[r].line[c].bill = i <=> Live(i) /\ bill[i].run = r /\ c \in bill[i].charges

(* What the unique index says of the lines.                                 *)
BoundOnce == \A r, s \in Runs, c \in Charges :
               run[r].line[c].bill # 0 /\ run[s].line[c].bill # 0 => r = s

PreviewsUnbilled == \A r \in Runs, i \in Bills :
                      run[r].status \in {"none", "preview"} => ~(bill[i].status # "none" /\ bill[i].run = r)

ClosedSettled == \A r \in Runs : run[r].status \in {"issued", "cancelled"} => Drafts(r) = {}

RunBooks == BillsInOrder /\ LinesPoint /\ BoundOnce /\ PreviewsUnbilled /\ ClosedSettled

(* What a handler has read still holds when it writes.                      *)
ReadStands(op) ==
    /\ op.kind \in {"refresh", "generate"} => run[op.run].status = "preview"
    /\ op.kind = "generate" => op.refreshes = run[op.run].refreshes
    /\ op.kind = "issue" => run[op.run].status = "generated" /\ op.bills = Drafts(op.run)
    /\ op.kind = "cancel" => run[op.run].status \in {"preview", "generated"} /\ op.bills = Drafts(op.run)

RunTurns ==
    /\ \A p, q \in Requests : ops[p] # NoOp /\ ops[q] # NoOp => p = q
    /\ \A q \in Requests : ops[q] # NoOp => ReadStands(ops[q])

RunInv == RunTyped /\ (serial => RunBooks /\ RunTurns)

-----------------------------------------------------------------------------
(* Transactions.                                                            *)
LEMMA RunOpOfKind ==
    ASSUME RunTyped, NEW q \in Requests
    PROVE  /\ ops[q].kind = "refresh"  => ops[q] \in RefreshOp
           /\ ops[q].kind = "generate" => ops[q] \in GenerateOp
           /\ ops[q].kind = "issue"    => ops[q] \in IssueOp
           /\ ops[q].kind = "cancel"   => ops[q] \in CancelOp
           /\ ops[q].kind \in {"refresh", "generate", "issue", "cancel"} => ops[q] # NoOp
BY DEF RunTyped, RunOps, NoOp, RefreshOp, GenerateOp, IssueOp, CancelOp

(* When the handler of q ends no other one is at work, if they take turns.  *)
LEMMA EndQuiet ==
    ASSUME RunInv, NEW q \in Requests, ops[q] # NoOp, End(q)
    PROVE  /\ ops' \in [Requests -> RunOps]
           /\ serial => \A p \in Requests : ops'[p] = NoOp
<1>1. ops \in [Requests -> RunOps] /\ ops' = [ops EXCEPT ![q] = NoOp] /\ NoOp \in RunOps
  BY DEF RunInv, RunTyped, End, RunOps
<1> QED
  BY <1>1 DEF RunInv, RunTurns

LEMMA CalmQuiet ==
    ASSUME RunInv, Calm, ops' = ops
    PROVE  /\ ops' \in [Requests -> RunOps]
           /\ serial => \A p \in Requests : ops'[p] = NoOp
BY DEF RunInv, RunTyped, Calm

(* Where none is at work there is nothing to keep true.                     *)
LEMMA QuietTurns ==
    ASSUME \A p \in Requests : ops'[p] = NoOp
    PROVE  RunTurns'
BY DEF RunTurns

(* A handler begins with what it reads.                                     *)
LEMMA BeginTurns ==
    ASSUME RunInv, NEW q \in Requests, NEW op \in RunOps, Begin(q, op), ReadStands(op),
           UNCHANGED <<run, bill, serial>>
    PROVE  RunInv'
<1>1. /\ ops \in [Requests -> RunOps] /\ ops' = [ops EXCEPT ![q] = op]
      /\ serial => \A p \in Requests \ {q} : ops[p] = NoOp
  BY DEF RunInv, RunTyped, Begin, Start, Turn
<1>2. RunTyped'
  BY <1>1 DEF RunInv, RunTyped, RunTypeOK
<1>3. serial => RunBooks'
  BY DEF RunInv, RunBooks, BillsInOrder, LinesPoint, BoundOnce, PreviewsUnbilled, ClosedSettled, Live, Drafts
<1>4. serial => RunTurns'
  <2> SUFFICES ASSUME serial PROVE RunTurns'
    OBVIOUS
  <2>1. \A p \in Requests : p # q => ops'[p] = NoOp
    BY <1>1
  <2>2. ops'[q] = op /\ ReadStands(op)'
    BY <1>1 DEF ReadStands, Drafts
  <2> QED
    BY <2>1, <2>2 DEF RunTurns
<1> QED
  BY <1>2, <1>3, <1>4 DEF RunInv

-----------------------------------------------------------------------------
(* The invoices of groups.                                                  *)
LEMMA FreshBills ==
    ASSUME BillsInOrder, bill \in [Bills -> [status : {"none", "draft", "issued", "cancelled"}, run : Runs,
                                             charges : SUBSET Charges]],
           NEW n \in Nat, Fresh(n) \subseteq Bills
    PROVE  /\ \A i \in Fresh(n) : bill[i].status = "none"
           /\ Cardinality(Fresh(n)) = n /\ IsFiniteSet(Fresh(n))
           /\ \E m \in 0 .. MaxBills : \A i \in Bills :
                bill[i].status # "none" \/ i \in Fresh(n) <=> i <= m
<1> DEFINE Taken == {i \in Bills : bill[i].status # "none"}
<1>0. MaxBills \in Nat
  BY RunAssumption
<1>1. PICK k \in 0 .. MaxBills : \A i \in Bills : bill[i].status # "none" <=> i <= k
  BY DEF BillsInOrder
<1>2. Taken = 1 .. k
  BY <1>0, <1>1 DEF Bills
<1>3. Cardinality(Taken) = k
  <2>1. k \in Nat /\ Cardinality(1 .. k) = IF 1 > k THEN 0 ELSE k - 1 + 1
    BY <1>0, FS_Interval
  <2> HIDE DEF Taken
  <2> QED
    BY <1>2, <2>1
<1>4. Fresh(n) = (k + 1) .. (k + n)
  BY <1>3 DEF Fresh
<1>5. Cardinality(Fresh(n)) = n /\ IsFiniteSet(Fresh(n))
  <2>1. /\ IsFiniteSet((k + 1) .. (k + n))
        /\ Cardinality((k + 1) .. (k + n)) = IF k + 1 > k + n THEN 0 ELSE k + n - (k + 1) + 1
    BY <1>0, FS_Interval
  <2> QED
    BY <1>0, <1>4, <2>1
<1>6. \A i \in Fresh(n) : bill[i].status = "none"
  BY <1>0, <1>1, <1>4 DEF Bills
<1>7. k + n \in 0 .. MaxBills
  <2>1. CASE n = 0
    BY <1>0, <2>1
  <2>2. CASE n > 0
    <3>1. k + n \in Fresh(n)
      BY <1>0, <1>4, <2>2
    <3> QED
      BY <1>0, <3>1 DEF Bills
  <2> QED
    BY <2>1, <2>2
<1>8. \A i \in Bills : bill[i].status # "none" \/ i \in Fresh(n) <=> i <= k + n
  BY <1>0, <1>1, <1>4 DEF Bills
<1> QED
  BY <1>5, <1>6, <1>7, <1>8

(* Charges that are billed together are told apart by their groups.         *)
LEMMA GroupsApart ==
    ASSUME NEW charges \in SUBSET Charges, NEW combine \in BOOLEAN
    PROVE  /\ Groups(charges, combine) \subseteq SUBSET charges
           /\ \A c \in charges : \E g \in Groups(charges, combine) : c \in g
           /\ \A g, h \in Groups(charges, combine) : g \cap h # {} => g = h
           /\ IsFiniteSet(Groups(charges, combine))
<1>1. IsFiniteSet(charges)
  BY RunAssumption, FS_Subset
<1>2. CASE combine
  BY <1>2, FS_Singleton DEF Groups
<1>3. CASE ~combine
  <2> DEFINE h == [c \in charges |-> {c}]  G == {{c} : c \in charges}
  <2>1. h \in Surjection(charges, G)
    BY DEF Surjection
  <2>2. IsFiniteSet(G)
    <3> HIDE DEF h, G
    <3> QED
      BY <1>1, <2>1, FS_Surjection
  <2> QED
    BY <1>3, <2>2 DEF Groups
<1> QED
  BY <1>2, <1>3

(* One invoice for every group: every charge is on one of the new invoices. *)
LEMMA OneBillPerCharge ==
    ASSUME NEW charges \in SUBSET Charges, NEW combine \in BOOLEAN, NEW D,
           IsFiniteSet(D), Cardinality(D) = Cardinality(Groups(charges, combine)),
           NEW f \in [D -> Groups(charges, combine)],
           {f[i] : i \in DOMAIN f} = Groups(charges, combine)
    PROVE  /\ \A c \in charges : \E i \in D : c \in f[i]
           /\ \A i, j \in D : f[i] \cap f[j] # {} => i = j
<1> DEFINE G == Groups(charges, combine)
<1>1. f \in Surjection(D, G)
  BY DEF Surjection
<1>2. f \in Injection(D, G)
  BY <1>1, FS_SurjSameCardinalityImpliesInj
<1> QED
  BY <1>2, GroupsApart DEF Injection, IsInjective

(* The rows that Generate writes.                                           *)
RunRows  == [status : {"none", "preview", "generated", "issued", "cancelled"},
             source : {"manual", "scheduled"}, combine : BOOLEAN,
             refreshes : 0 .. MaxRefreshes, line : [Charges -> LineRows]]
BillRows == [status : {"none", "draft", "issued", "cancelled"}, run : Runs, charges : SUBSET Charges]

(* What Generate writes: f gives the new invoices their groups.             *)
Generated(r, row, charges, there, f) ==
    /\ DOMAIN f = Fresh(Cardinality(Groups(charges, row.combine))) /\ DOMAIN f \subseteq Bills
    /\ f \in [DOMAIN f -> Groups(charges, row.combine)]
    /\ {f[i] : i \in DOMAIN f} = Groups(charges, row.combine)
    /\ bill' = [i \in Bills |->
         IF i \in DOMAIN f THEN [status |-> "draft", run |-> r, charges |-> f[i]] ELSE bill[i]]
    /\ \A s \in Runs \ {r} : run'[s] = run[s]
    /\ run'[r].status = "generated"
    /\ \A c \in Charges :
         IF there /\ c \in charges
         THEN run'[r].line[c].bill \in DOMAIN f /\ c \in f[run'[r].line[c].bill]
         ELSE run'[r].line[c].bill = row.line[c].bill

LEMMA GenerateTyped ==
    ASSUME RunTyped, NEW r \in Runs, NEW row \in RunRows, NEW charges \in SUBSET Charges,
           NEW there \in BOOLEAN, Generate(r, row, charges, there)
    PROVE  /\ run' \in [Runs -> RunRows] /\ bill' \in [Bills -> BillRows]
           /\ \E f : Generated(r, row, charges, there, f)
<1> DEFINE G == Groups(charges, row.combine)  D == Fresh(Cardinality(G))
<1>0. /\ run \in [Runs -> RunRows] /\ bill \in [Bills -> BillRows] /\ row.combine \in BOOLEAN
      /\ row.line \in [Charges -> LineRows]
  BY DEF RunTyped, RunTypeOK, RunRows, BillRows
<1>1. PICK f \in [D -> G] :
        /\ DOMAIN f \subseteq Bills
        /\ {f[i] : i \in DOMAIN f} = G
        /\ bill' = [i \in Bills |->
             IF i \in DOMAIN f THEN [status |-> "draft", run |-> r, charges |-> f[i]] ELSE bill[i]]
        /\ run' = [run EXCEPT ![r] = [row EXCEPT
             !.status = "generated",
             !.line = [c \in Charges |->
                IF there /\ c \in charges
                THEN [row.line[c] EXCEPT !.bill = CHOOSE i \in DOMAIN f : c \in f[i]]
                ELSE row.line[c]]]]
  BY DEF Generate
<1>2. DOMAIN f = D /\ D \subseteq Bills
  BY <1>1
<1>3. \A c \in charges : (CHOOSE i \in D : c \in f[i]) \in D /\ c \in f[CHOOSE i \in D : c \in f[i]]
  <2> TAKE c \in charges
  <2>1. \E i \in D : c \in f[i]
    BY <1>0, <1>1, <1>2, GroupsApart
  <2> QED
    BY <2>1
<1>4. bill' \in [Bills -> BillRows]
  <2>1. \A i \in D : [status |-> "draft", run |-> r, charges |-> f[i]] \in BillRows
    BY <1>0, <1>1, GroupsApart DEF BillRows
  <2> QED
    BY <1>0, <1>1, <1>2, <2>1
<1> DEFINE line == [c \in Charges |->
                      IF there /\ c \in charges
                      THEN [row.line[c] EXCEPT !.bill = CHOOSE i \in D : c \in f[i]]
                      ELSE row.line[c]]
<1>5. line \in [Charges -> LineRows]
  <2> SUFFICES ASSUME NEW c \in Charges PROVE line[c] \in LineRows
    OBVIOUS
  <2>1. row.line[c] \in LineRows
    BY <1>0
  <2>2. CASE there /\ c \in charges
    <3>1. line[c] = [row.line[c] EXCEPT !.bill = CHOOSE i \in D : c \in f[i]]
      BY <2>2
    <3>2. (CHOOSE i \in D : c \in f[i]) \in 0 .. MaxBills
      BY <1>2, <1>3, <2>2, RunAssumption DEF Bills
    <3> QED
      BY <2>1, <3>1, <3>2 DEF LineRows
  <2>3. CASE ~(there /\ c \in charges)
    BY <2>1, <2>3
  <2> QED
    BY <2>2, <2>3
<1>6. \A c \in Charges : line[c].bill = IF there /\ c \in charges THEN CHOOSE i \in D : c \in f[i]
                                                              ELSE row.line[c].bill
  <2> TAKE c \in Charges
  <2>1. row.line[c] \in LineRows
    BY <1>0
  <2> QED
    BY <2>1 DEF LineRows
<1>7. run' = [run EXCEPT ![r] = [row EXCEPT !.status = "generated", !.line = line]]
  BY <1>1, <1>2
<1> HIDE DEF line
<1>8. [row EXCEPT !.status = "generated", !.line = line] \in RunRows
  BY <1>5 DEF RunRows
<1>9. run' \in [Runs -> RunRows] /\ \A s \in Runs \ {r} : run'[s] = run[s]
  BY <1>0, <1>7, <1>8
<1>10. run'[r].status = "generated" /\ run'[r].line = line
  BY <1>0, <1>7 DEF RunRows
<1>11. Generated(r, row, charges, there, f)
  BY <1>1, <1>2, <1>3, <1>6, <1>9, <1>10 DEF Generated
<1> QED
  BY <1>4, <1>9, <1>11

(* A run without invoices has no line that is bound.                        *)
LEMMA PreviewFree ==
    ASSUME RunTyped, LinesPoint, PreviewsUnbilled, NEW r \in Runs, run[r].status \in {"none", "preview"}
    PROVE  \A c \in Charges : run[r].line[c].bill = 0
<1> TAKE c \in Charges
<1>1. run[r].line[c].bill \in 0 .. MaxBills /\ MaxBills \in Nat
  BY RunAssumption DEF RunTyped, RunTypeOK, LineRows
<1> QED
  BY <1>1 DEF LinesPoint, PreviewsUnbilled, Live, Bills

LEMMA GenerateBooks ==
    ASSUME RunTyped, RunBooks, NEW r \in Runs, NEW row \in RunRows, NEW charges \in SUBSET Charges,
           NEW there \in BOOLEAN, there, Generate(r, row, charges, there), run[r].status \in {"none", "preview"},
           \A c \in Charges : row.line[c].bill = 0
    PROVE  RunBooks'
<1>0. /\ run \in [Runs -> RunRows] /\ bill \in [Bills -> BillRows] /\ row.combine \in BOOLEAN
  BY DEF RunTyped, RunTypeOK, RunRows, BillRows
<1>p. PICK f : Generated(r, row, charges, there, f)
  BY GenerateTyped
<1>1. /\ DOMAIN f = Fresh(Cardinality(Groups(charges, row.combine))) /\ DOMAIN f \subseteq Bills
      /\ f \in [DOMAIN f -> Groups(charges, row.combine)] /\ {f[i] : i \in DOMAIN f} = Groups(charges, row.combine)
      /\ bill' = [i \in Bills |->
           IF i \in DOMAIN f THEN [status |-> "draft", run |-> r, charges |-> f[i]] ELSE bill[i]]
      /\ \A s \in Runs \ {r} : run'[s] = run[s]
      /\ run'[r].status = "generated"
      /\ \A c \in Charges :
           IF there /\ c \in charges
           THEN run'[r].line[c].bill \in DOMAIN f /\ c \in f[run'[r].line[c].bill]
           ELSE run'[r].line[c].bill = row.line[c].bill
  BY <1>p DEF Generated
<1> DEFINE G == Groups(charges, row.combine)  D == DOMAIN f
<1>2. /\ IsFiniteSet(G) /\ Cardinality(G) \in Nat /\ G \subseteq SUBSET charges
  BY <1>0, GroupsApart, FS_CardinalityType
<1>3. /\ \A i \in D : bill[i].status = "none"
      /\ Cardinality(D) = Cardinality(G) /\ IsFiniteSet(D)
      /\ \E m \in 0 .. MaxBills : \A i \in Bills : bill[i].status # "none" \/ i \in D <=> i <= m
  BY <1>1, <1>2, FreshBills DEF RunBooks, RunTyped, RunTypeOK
<1>4. \A i, j \in D : f[i] \cap f[j] # {} => i = j
  <2>1. /\ IsFiniteSet(D) /\ Cardinality(D) = Cardinality(Groups(charges, row.combine))
        /\ f \in [D -> Groups(charges, row.combine)]
        /\ {f[i] : i \in DOMAIN f} = Groups(charges, row.combine)
    BY <1>1, <1>3
  <2> HIDE DEF D, G
  <2> QED
    BY <1>0, <2>1, OneBillPerCharge
<1>5. D \subseteq Bills /\ \A i \in D : f[i] \subseteq charges /\ i # 0
  BY <1>1, <1>2, RunAssumption DEF Bills
<1> HIDE DEF D, G
<1>6. /\ \A i \in D : bill'[i].status = "draft" /\ bill'[i].run = r /\ bill'[i].charges = f[i]
      /\ \A i \in Bills \ D : bill'[i] = bill[i]
  BY <1>1, <1>5 DEF D
<1>7. BillsInOrder'
  <2>1. \A i \in Bills : bill'[i].status # "none" <=> bill[i].status # "none" \/ i \in D
    BY <1>3, <1>6
  <2> QED
    BY <1>3, <2>1 DEF BillsInOrder
<1>8. BoundOnce'
  <2>1. \A s \in Runs \ {r}, c \in charges : run[s].line[c].bill = 0
    BY DEF Generate, Billable
  <2> QED
    BY <1>1, <2>1 DEF RunBooks, BoundOnce
<1>9. PreviewsUnbilled'
  BY <1>1, <1>6 DEF RunBooks, PreviewsUnbilled
<1>10. ClosedSettled'
  BY <1>1, <1>6 DEF RunBooks, ClosedSettled, Drafts
<1>11. LinesPoint'
  <2> SUFFICES ASSUME NEW s \in Runs, NEW c \in Charges, NEW i \in Bills
               PROVE  run'[s].line[c].bill = i <=> Live(i)' /\ bill'[i].run = s /\ c \in bill'[i].charges
    BY DEF LinesPoint
  <2>0. /\ run[s].line[c].bill = i <=> Live(i) /\ bill[i].run = s /\ c \in bill[i].charges
        /\ i # 0
    BY RunAssumption DEF RunBooks, LinesPoint, Bills
  <2>1. CASE s # r
    BY <1>1, <1>3, <1>6, <2>0, <2>1 DEF Live
  <2>2. CASE s = r /\ i \notin D
    <3>1. ~(Live(i) /\ bill[i].run = r)
      BY <2>2 DEF RunBooks, PreviewsUnbilled, Live
    <3>2. run'[r].line[c].bill # i
      BY <1>1, <2>0, <2>2 DEF D
    <3> QED
      BY <1>6, <2>2, <3>1, <3>2 DEF Live
  <2>3. CASE s = r /\ i \in D
    <3>1. Live(i)' /\ bill'[i].run = r /\ bill'[i].charges = f[i]
      BY <1>6, <2>3 DEF Live
    <3>2. CASE c \in charges
      <4>1. run'[r].line[c].bill \in D /\ c \in f[run'[r].line[c].bill]
        BY <1>1, <3>2 DEF D
      <4>2. c \in f[i] => run'[r].line[c].bill = i
        BY <1>4, <2>3, <4>1
      <4> QED
        BY <2>3, <3>1, <4>1, <4>2
    <3>3. CASE c \notin charges
      <4>1. run'[r].line[c].bill = 0 /\ c \notin f[i]
        BY <1>1, <1>5, <2>3, <3>3
      <4> QED
        BY <2>0, <2>3, <3>1, <4>1
    <3> QED
      BY <3>2, <3>3
  <2> QED
    BY <2>1, <2>2, <2>3
<1> QED
  BY <1>7, <1>8, <1>9, <1>10, <1>11 DEF RunBooks

(* A run that is previewed, or whose preview changes, binds no charge.      *)
LEMMA RowKept ==
    ASSUME RunTyped, NEW r \in Runs, NEW row \in RunRows, run' = [run EXCEPT ![r] = row], bill' = bill
    PROVE  /\ run' \in [Runs -> RunRows] /\ bill' \in [Bills -> BillRows]
           /\ /\ RunBooks /\ run[r].status \in {"none", "preview"} /\ row.status = "preview"
              /\ \A c \in Charges : row.line[c].bill = 0
              => RunBooks'
<1>0. run \in [Runs -> RunRows] /\ bill \in [Bills -> BillRows]
  BY DEF RunTyped, RunTypeOK, RunRows, BillRows
<1>1. run' \in [Runs -> RunRows] /\ \A s \in Runs : run'[s] = IF s = r THEN row ELSE run[s]
  BY <1>0
<1>2. ASSUME RunBooks, run[r].status \in {"none", "preview"}, row.status = "preview",
             \A c \in Charges : row.line[c].bill = 0
      PROVE  RunBooks'
  <2>1. BillsInOrder' /\ PreviewsUnbilled' /\ ClosedSettled'
    BY <1>1, <1>2 DEF RunBooks, BillsInOrder, PreviewsUnbilled, ClosedSettled, Drafts
  <2>2. \A c \in Charges : run[r].line[c].bill = 0
    BY <1>2, PreviewFree DEF RunBooks
  <2>3. LinesPoint' /\ BoundOnce'
    BY <1>1, <1>2, <2>2 DEF RunBooks, LinesPoint, BoundOnce, Live
  <2> QED
    BY <2>1, <2>3 DEF RunBooks
<1> QED
  BY <1>0, <1>1, <1>2

LEMMA ComputedTyped ==
    ASSUME NEW charges, NEW flawed
    PROVE  /\ Computed(charges, flawed) \in NewLines /\ Computed(charges, flawed) \in [Charges -> LineRows]
           /\ \A c \in Charges : Computed(charges, flawed)[c].bill = 0
BY RunAssumption DEF Computed, NewLines, LineRows

(* What is cancelled is released.                                           *)
LEMMA ReleaseTyped ==
    ASSUME RunTyped, NEW S \in SUBSET Bills
    PROVE  /\ Cancelled(S) \in [Bills -> BillRows]
           /\ \A i \in Bills : Cancelled(S)[i] = IF i \in S THEN [bill[i] EXCEPT !.status = "cancelled"] ELSE bill[i]
           /\ \A r \in Runs :
                /\ Released(run[r], S) \in RunRows
                /\ Released(run[r], S).status = run[r].status
                /\ \A c \in Charges : Released(run[r], S).line[c].bill =
                     IF run[r].line[c].bill \in S THEN 0 ELSE run[r].line[c].bill
<1>0. run \in [Runs -> RunRows] /\ bill \in [Bills -> BillRows] /\ MaxBills \in Nat
  BY RunAssumption DEF RunTyped, RunTypeOK, RunRows, BillRows
<1>1. \A i \in Bills : [bill[i] EXCEPT !.status = "cancelled"] \in BillRows
  BY <1>0 DEF BillRows
<1>2. ASSUME NEW r \in Runs
      PROVE  /\ Released(run[r], S) \in RunRows
             /\ Released(run[r], S).status = run[r].status
             /\ \A c \in Charges : Released(run[r], S).line[c].bill =
                  IF run[r].line[c].bill \in S THEN 0 ELSE run[r].line[c].bill
  <2> DEFINE row == run[r]
             line == [c \in Charges |-> IF row.line[c].bill \in S THEN [row.line[c] EXCEPT !.bill = 0] ELSE row.line[c]]
  <2>1. row \in RunRows /\ row.line \in [Charges -> LineRows]
    BY <1>0 DEF RunRows
  <2>2. \A c \in Charges : line[c] \in LineRows /\ line[c].bill = IF row.line[c].bill \in S THEN 0 ELSE row.line[c].bill
    <3> TAKE c \in Charges
    <3>1. row.line[c] \in LineRows /\ 0 \in 0 .. MaxBills
      BY <1>0, <2>1
    <3> QED
      BY <3>1 DEF LineRows
  <2>3. Released(row, S) = [row EXCEPT !.line = line]
    BY DEF Released
  <2> HIDE DEF row
  <2>4. line \in [Charges -> LineRows]
    BY <2>2
  <2>5. /\ [row EXCEPT !.line = line] \in RunRows
        /\ [row EXCEPT !.line = line].status = row.status
        /\ [row EXCEPT !.line = line].line = line
    <3> HIDE DEF line
    <3> QED
      BY <2>1, <2>4 DEF RunRows
  <2>6. /\ Released(row, S) \in RunRows
        /\ Released(row, S).status = row.status
        /\ \A c \in Charges : Released(row, S).line[c].bill =
             IF row.line[c].bill \in S THEN 0 ELSE row.line[c].bill
    <3> HIDE DEF line
    <3> QED
      BY <2>2, <2>3, <2>5
  <2> QED
    BY <2>6 DEF row
<1> QED
  BY <1>0, <1>1, <1>2 DEF Cancelled

(* Invoices are cancelled, and the run of the drafts among them may be.     *)
LEMMA CancelBooks ==
    ASSUME RunTyped, NEW S \in SUBSET Bills, NEW closing \in SUBSET Runs,
           bill' = Cancelled(S),
           run' = [r \in Runs |-> IF r \in closing THEN [Released(run[r], S) EXCEPT !.status = "cancelled"]
                                                   ELSE Released(run[r], S)]
    PROVE  /\ run' \in [Runs -> RunRows] /\ bill' \in [Bills -> BillRows]
           /\ RunBooks /\ (\A i \in S : bill[i].status # "none") /\ (\A r \in closing : Drafts(r) \subseteq S) => RunBooks'
<1>1. /\ bill' \in [Bills -> BillRows]
      /\ \A i \in Bills : bill'[i] = IF i \in S THEN [bill[i] EXCEPT !.status = "cancelled"] ELSE bill[i]
  BY ReleaseTyped
<1>2. \A i \in Bills : /\ bill'[i].run = bill[i].run /\ bill'[i].charges = bill[i].charges
                       /\ bill'[i].status = IF i \in S THEN "cancelled" ELSE bill[i].status
  <2>1. \A i \in Bills : bill[i] \in BillRows
    BY DEF RunTyped, RunTypeOK, BillRows
  <2> QED
    BY <1>1, <2>1 DEF BillRows
<1>3. \A r \in Runs : /\ run'[r] \in RunRows
                      /\ run'[r].status = IF r \in closing THEN "cancelled" ELSE run[r].status
                      /\ \A c \in Charges : run'[r].line[c].bill =
                           IF run[r].line[c].bill \in S THEN 0 ELSE run[r].line[c].bill
  <2> TAKE r \in Runs
  <2> DEFINE row == Released(run[r], S)
  <2>1. /\ row \in RunRows /\ row.status = run[r].status
        /\ \A c \in Charges : row.line[c].bill = IF run[r].line[c].bill \in S THEN 0 ELSE run[r].line[c].bill
    BY ReleaseTyped
  <2>2. run'[r] = IF r \in closing THEN [row EXCEPT !.status = "cancelled"] ELSE row
    OBVIOUS
  <2> HIDE DEF row
  <2>3. /\ [row EXCEPT !.status = "cancelled"] \in RunRows
        /\ [row EXCEPT !.status = "cancelled"].status = "cancelled"
        /\ [row EXCEPT !.status = "cancelled"].line = row.line
    BY <2>1 DEF RunRows
  <2> QED
    BY <2>1, <2>2, <2>3
<1>4. run' \in [Runs -> RunRows]
  BY <1>3
<1>5. ASSUME RunBooks, \A i \in S : bill[i].status # "none", \A r \in closing : Drafts(r) \subseteq S
      PROVE  RunBooks'
  <2>1. BillsInOrder'
    <3>1. \A i \in Bills : bill'[i].status # "none" <=> bill[i].status # "none"
      BY <1>2, <1>5
    <3> QED
      BY <1>5, <3>1 DEF RunBooks, BillsInOrder
  <2>2. LinesPoint'
    <3> SUFFICES ASSUME NEW r \in Runs, NEW c \in Charges, NEW i \in Bills
                 PROVE  run'[r].line[c].bill = i <=> Live(i)' /\ bill'[i].run = r /\ c \in bill'[i].charges
      BY DEF LinesPoint
    <3>1. i # 0 /\ (run[r].line[c].bill = i <=> Live(i) /\ bill[i].run = r /\ c \in bill[i].charges)
      BY <1>5, RunAssumption DEF RunBooks, LinesPoint, Bills
    <3>2. Live(i)' <=> Live(i) /\ i \notin S
      BY <1>2 DEF Live
    <3>3. run'[r].line[c].bill = i <=> run[r].line[c].bill = i /\ i \notin S
      <4>1. run'[r].line[c].bill = IF run[r].line[c].bill \in S THEN 0 ELSE run[r].line[c].bill
        BY <1>3
      <4> QED
        BY <3>1, <4>1
    <3> QED
      BY <1>2, <3>1, <3>2, <3>3
  <2>3. BoundOnce'
    <3> SUFFICES ASSUME NEW r \in Runs, NEW s \in Runs, NEW c \in Charges,
                        run'[r].line[c].bill # 0, run'[s].line[c].bill # 0
                 PROVE  r = s
      BY DEF BoundOnce
    <3>1. run[r].line[c].bill # 0 /\ run[s].line[c].bill # 0
      BY <1>3, ZenonT(30)
    <3> QED
      BY <1>5, <3>1 DEF RunBooks, BoundOnce
  <2>4. PreviewsUnbilled'
    <3> SUFFICES ASSUME NEW r \in Runs, NEW i \in Bills, run'[r].status \in {"none", "preview"}
                 PROVE  ~(bill'[i].status # "none" /\ bill'[i].run = r)
      BY DEF PreviewsUnbilled
    <3>1. run[r].status \in {"none", "preview"}
      <4>1. run'[r].status = IF r \in closing THEN "cancelled" ELSE run[r].status
        BY <1>3
      <4> QED
        BY <4>1
    <3> QED
      BY <1>2, <1>5, <3>1 DEF RunBooks, PreviewsUnbilled
  <2>5. ClosedSettled'
    <3> SUFFICES ASSUME NEW r \in Runs, run'[r].status \in {"issued", "cancelled"}, NEW i \in Bills,
                        bill'[i].status = "draft", bill'[i].run = r
                 PROVE  FALSE
      BY DEF ClosedSettled, Drafts
    <3>1. i \notin S /\ i \in Drafts(r)
      BY <1>2 DEF Drafts
    <3> QED
      BY <1>3, <1>5, <3>1 DEF RunBooks, ClosedSettled
  <2> QED
    BY <2>1, <2>2, <2>3, <2>4, <2>5 DEF RunBooks
<1> QED
  BY <1>1, <1>4, <1>5

(* Drafts are issued, and the run of all of them may be.                    *)
LEMMA IssueBooks ==
    ASSUME RunTyped, NEW S \in SUBSET Bills, NEW closing \in SUBSET Runs,
           \A i \in S : bill[i].status = "draft",
           bill' = [i \in Bills |-> IF i \in S THEN [bill[i] EXCEPT !.status = "issued"] ELSE bill[i]],
           run' = [r \in Runs |-> IF r \in closing THEN [run[r] EXCEPT !.status = "issued"] ELSE run[r]]
    PROVE  /\ run' \in [Runs -> RunRows] /\ bill' \in [Bills -> BillRows]
           /\ RunBooks /\ (\A r \in closing : Drafts(r) \subseteq S) => RunBooks'
<1>0. run \in [Runs -> RunRows] /\ bill \in [Bills -> BillRows]
  BY DEF RunTyped, RunTypeOK, RunRows, BillRows
<1>1. \A i \in Bills : /\ bill'[i] \in BillRows /\ bill'[i].run = bill[i].run /\ bill'[i].charges = bill[i].charges
                       /\ bill'[i].status = IF i \in S THEN "issued" ELSE bill[i].status
  BY <1>0 DEF BillRows
<1>2. \A r \in Runs : /\ run'[r] \in RunRows /\ run'[r].line = run[r].line
                      /\ run'[r].status = IF r \in closing THEN "issued" ELSE run[r].status
  BY <1>0 DEF RunRows
<1>3. run' \in [Runs -> RunRows] /\ bill' \in [Bills -> BillRows]
  BY <1>1, <1>2
<1>4. ASSUME RunBooks, \A r \in closing : Drafts(r) \subseteq S
      PROVE  RunBooks'
  <2>1. BillsInOrder'
    <3>1. \A i \in Bills : bill'[i].status # "none" <=> bill[i].status # "none"
      BY <1>1
    <3> QED
      BY <1>4, <3>1 DEF RunBooks, BillsInOrder
  <2>2. LinesPoint' /\ BoundOnce'
    <3>1. \A i \in Bills : Live(i)' <=> Live(i)
      BY <1>1 DEF Live
    <3> QED
      BY <1>1, <1>2, <1>4, <3>1 DEF RunBooks, LinesPoint, BoundOnce
  <2>3. PreviewsUnbilled'
    BY <1>1, <1>2, <1>4 DEF RunBooks, PreviewsUnbilled
  <2>4. ClosedSettled'
    <3> SUFFICES ASSUME NEW r \in Runs, run'[r].status \in {"issued", "cancelled"}, NEW i \in Bills,
                        bill'[i].status = "draft", bill'[i].run = r
                 PROVE  FALSE
      BY DEF ClosedSettled, Drafts
    <3>1. i \notin S /\ i \in Drafts(r)
      BY <1>1 DEF Drafts
    <3> QED
      BY <1>2, <1>4, <3>1 DEF RunBooks, ClosedSettled
  <2> QED
    BY <2>1, <2>2, <2>3, <2>4 DEF RunBooks
<1> QED
  BY <1>3, <1>4

(* The row of a run that is previewed.                                      *)
LEMMA PreviewRow ==
    ASSUME NEW line \in [Charges -> LineRows], NEW combine \in BOOLEAN
    PROVE  /\ \A row : row = [NoRun EXCEPT !.status = "preview", !.combine = combine, !.line = line]
                        => row \in RunRows /\ row.status = "preview" /\ row.line = line
           /\ \A row : row = [NoRun EXCEPT !.status = "preview", !.source = "scheduled", !.line = line]
                        => row \in RunRows /\ row.status = "preview" /\ row.line = line
<1>1. NoRun \in RunRows
  <2>1. NoLine \in LineRows /\ 0 \in 0 .. MaxRefreshes
    BY RunAssumption DEF NoLine, LineRows
  <2> QED
    BY <2>1 DEF NoRun, RunRows
<1> QED
  BY <1>1 DEF RunRows

(* The scheduled run with its lines, and its invoices if it bills a charge. *)
SweptRow(charges, flawed) ==
    [NoRun EXCEPT !.status = "preview", !.source = "scheduled", !.line = Computed(charges, flawed)]
Ready(row) == {c \in Charges : row.line[c].is = "included"}
Swept(r, row) == \/ run' = [run EXCEPT ![r] = row] /\ bill' = bill
                 \/ Generate(r, row, Ready(row), TRUE)

LEMMA SweepWrites ==
    ASSUME NEW r \in Runs, AutoGenerateSweep(r)
    PROVE  \E row \in RunRows : /\ row.status = "preview" /\ \A c \in Charges : row.line[c].bill = 0
                                /\ Swept(r, row)
<1>1. \E charges \in SUBSET Charges : \E flawed \in SUBSET charges : Swept(r, SweptRow(charges, flawed))
  BY DEF AutoGenerateSweep, Swept, SweptRow, Ready
<1>2. PICK charges \in SUBSET Charges, flawed \in SUBSET Charges : Swept(r, SweptRow(charges, flawed))
  BY <1>1
<1>3. /\ SweptRow(charges, flawed) \in RunRows /\ SweptRow(charges, flawed).status = "preview"
      /\ SweptRow(charges, flawed).line = Computed(charges, flawed)
  <2>1. Computed(charges, flawed) \in [Charges -> LineRows] /\ TRUE \in BOOLEAN
    BY ComputedTyped
  <2> QED
    BY <2>1, PreviewRow DEF SweptRow
<1>4. \A c \in Charges : Computed(charges, flawed)[c].bill = 0
  BY ComputedTyped
<1> QED
  BY <1>2, <1>3, <1>4

-----------------------------------------------------------------------------
(* The invariant.                                                           *)
LEMMA RunInitially == RunInit => RunInv
<1> SUFFICES ASSUME RunInit PROVE RunInv
  OBVIOUS
<1>0. MaxBills \in Nat /\ MaxRefreshes \in Nat
  BY RunAssumption
<1>1. RunTyped
  <2>1. NoLine \in LineRows
    BY <1>0 DEF NoLine, LineRows
  <2>2. NoRun \in RunRows
    BY <1>0, <2>1 DEF NoRun, RunRows
  <2>3. NoBill \in BillRows
    BY RunAssumption DEF NoBill, BillRows, Runs
  <2> QED
    BY <2>2, <2>3 DEF RunInit, RunIdle, TxInit, RunTyped, RunTypeOK, RunOps, RunRows, BillRows
<1>2. RunBooks
  <2>1. /\ \A i \in Bills : bill[i].status = "none" /\ i > 0
        /\ \A r \in Runs : run[r].status = "none" /\ \A c \in Charges : run[r].line[c].bill = 0
    BY <1>0 DEF RunInit, RunIdle, NoBill, NoRun, NoLine, Bills
  <2>2. BillsInOrder
    <3>1. 0 \in 0 .. MaxBills /\ \A i \in Bills : bill[i].status # "none" <=> i <= 0
      BY <1>0, <2>1 DEF Bills
    <3> QED
      BY <3>1 DEF BillsInOrder
  <2> QED
    BY <2>1, <2>2 DEF RunBooks, LinesPoint, BoundOnce, PreviewsUnbilled, ClosedSettled, Live, Drafts
<1>3. RunTurns
  BY DEF RunInit, TxInit, RunTurns
<1> QED
  BY <1>1, <1>2, <1>3 DEF RunInv

LEMMA RunStep == RunInv /\ [RunNext]_runVars => RunInv'
<1> SUFFICES ASSUME RunInv, [RunNext]_runVars PROVE RunInv'
  OBVIOUS
<1>0. /\ RunTyped /\ run \in [Runs -> RunRows] /\ bill \in [Bills -> BillRows] /\ serial \in BOOLEAN
      /\ ops \in [Requests -> RunOps] /\ (serial => RunBooks /\ RunTurns) /\ MaxRefreshes \in Nat
  BY RunAssumption DEF RunInv, RunTyped, RunTypeOK, RunRows, BillRows
<1> DEFINE Saved == /\ run' \in [Runs -> RunRows] /\ bill' \in [Bills -> BillRows] /\ serial' = serial
                    /\ (serial => RunBooks')
           Quiet == /\ ops' \in [Requests -> RunOps]
                    /\ serial => \A p \in Requests : ops'[p] = NoOp
<1>1. ASSUME Saved, Quiet PROVE RunInv'
  <2>1. serial => RunTurns'
    BY <1>1, QuietTurns
  <2> QED
    BY <1>0, <1>1, <2>1 DEF RunInv, RunTyped, RunTypeOK, RunRows, BillRows
<1>2. ASSUME NEW r \in Runs, CreateRun(r) PROVE RunInv'
  <2>1. Quiet
    BY <1>2, CalmQuiet DEF CreateRun
  <2>2. run[r].status = "none"
    BY <1>2 DEF CreateRun, Runs
  <2>3. \E charges, flawed : \E combine \in BOOLEAN :
          run' = [run EXCEPT ![r] = [NoRun EXCEPT !.status = "preview", !.combine = combine,
                                                  !.line = Computed(charges, flawed)]]
    BY <1>2 DEF CreateRun
  <2>4. PICK charges, flawed : \E combine \in BOOLEAN :
          run' = [run EXCEPT ![r] = [NoRun EXCEPT !.status = "preview", !.combine = combine,
                                                  !.line = Computed(charges, flawed)]]
    BY <2>3
  <2> DEFINE line == Computed(charges, flawed)
  <2>5. line \in [Charges -> LineRows] /\ \A c \in Charges : line[c].bill = 0
    BY ComputedTyped
  <2>6. \E combine \in BOOLEAN :
          run' = [run EXCEPT ![r] = [NoRun EXCEPT !.status = "preview", !.combine = combine, !.line = line]]
    BY <2>4
  <2> HIDE DEF line
  <2>7. \E row \in RunRows : run' = [run EXCEPT ![r] = row] /\ row.status = "preview" /\ row.line = line
    <3>1. PICK combine \in BOOLEAN :
            run' = [run EXCEPT ![r] = [NoRun EXCEPT !.status = "preview", !.combine = combine, !.line = line]]
      BY <2>6
    <3> DEFINE row == [NoRun EXCEPT !.status = "preview", !.combine = combine, !.line = line]
    <3>2. row \in RunRows /\ row.status = "preview" /\ row.line = line
      BY <2>5, PreviewRow
    <3>3. run' = [run EXCEPT ![r] = row]
      BY <3>1
    <3> QED
      BY <3>2, <3>3
  <2>8. PICK row \in RunRows : run' = [run EXCEPT ![r] = row] /\ row.status = "preview" /\ row.line = line
    BY <2>7
  <2>9. bill' = bill /\ serial' = serial
    BY <1>2 DEF CreateRun
  <2>10. Saved
    BY <1>0, <2>2, <2>5, <2>8, <2>9, RowKept
  <2> QED
    BY <1>1, <2>1, <2>10
<1>3. ASSUME NEW r \in Runs, NEW c \in Charges, ToggleLine(r, c) PROVE RunInv'
  <2>1. Quiet
    BY <1>3, CalmQuiet DEF ToggleLine
  <2> DEFINE is == IF run[r].line[c].is = "included" THEN "excluded" ELSE "included"
             line == [run[r].line EXCEPT ![c].is = is]
             row == [run[r] EXCEPT !.line = line]
  <2>2. run[r] \in RunRows /\ run[r].line \in [Charges -> LineRows]
    BY <1>0 DEF RunRows
  <2>3. /\ line \in [Charges -> LineRows]
        /\ \A x \in Charges : line[x].bill = run[r].line[x].bill
    BY <2>2 DEF LineRows
  <2>4. run' = [run EXCEPT ![r] = row] /\ bill' = bill /\ serial' = serial /\ run[r].status = "preview"
    BY <1>0, <1>3, <2>2 DEF ToggleLine
  <2> HIDE DEF line
  <2>5. row \in RunRows /\ row.status = run[r].status /\ row.line = line
    BY <2>2, <2>3 DEF RunRows
  <2> HIDE DEF row
  <2>6. serial => \A x \in Charges : row.line[x].bill = 0
    BY <1>0, <2>3, <2>4, <2>5, PreviewFree DEF RunBooks
  <2>7. Saved
    BY <1>0, <2>4, <2>5, <2>6, RowKept
  <2> QED
    BY <1>1, <2>1, <2>7
<1>4. ASSUME NEW r \in Runs, AutoGenerateSweep(r) PROVE RunInv'
  <2>1. Quiet
    BY <1>4, CalmQuiet DEF AutoGenerateSweep
  <2>2. run[r].status = "none" /\ serial' = serial
    BY <1>4 DEF AutoGenerateSweep, Runs
  <2>3. PICK row \in RunRows : /\ row.status = "preview" /\ \A c \in Charges : row.line[c].bill = 0
                               /\ Swept(r, row)
    BY <1>4, SweepWrites
  <2> DEFINE ready == Ready(row)
             there == TRUE
  <2>4. /\ ready \in SUBSET Charges /\ there \in BOOLEAN /\ there
        /\ (run' = [run EXCEPT ![r] = row] /\ bill' = bill) \/ Generate(r, row, ready, there)
    BY <2>3 DEF Swept, Ready
  <2> HIDE DEF ready, there
  <2>5. CASE run' = [run EXCEPT ![r] = row] /\ bill' = bill
    BY <1>0, <1>1, <2>1, <2>2, <2>3, <2>5, RowKept
  <2>6. CASE Generate(r, row, ready, there)
    <3>1. run' \in [Runs -> RunRows] /\ bill' \in [Bills -> BillRows]
      BY <1>0, <2>4, <2>6, GenerateTyped
    <3>2. serial => RunBooks'
      BY <1>0, <2>2, <2>3, <2>4, <2>6, GenerateBooks
    <3> QED
      BY <1>1, <2>1, <2>2, <3>1, <3>2
  <2> QED
    BY <2>4, <2>5, <2>6
<1>5. ASSUME NEW q \in Requests, NEW r \in Runs, RefreshRead(q, r) PROVE RunInv'
  <2>1. \E charges, flawed : Begin(q, [kind |-> "refresh", run |-> r, line |-> Computed(charges, flawed)])
    BY <1>5 DEF RefreshRead
  <2>2. PICK charges, flawed : Begin(q, [kind |-> "refresh", run |-> r, line |-> Computed(charges, flawed)])
    BY <2>1
  <2>3. Computed(charges, flawed) \in NewLines
    BY ComputedTyped
  <2> DEFINE op == [kind |-> "refresh", run |-> r, line |-> Computed(charges, flawed)]
  <2>4. op \in RunOps /\ Begin(q, op) /\ op.kind = "refresh" /\ op.run = r
    BY <2>2, <2>3 DEF RunOps, RefreshOp
  <2> HIDE DEF op
  <2>5. ReadStands(op) /\ UNCHANGED <<run, bill, serial>>
    BY <1>5, <2>4 DEF RefreshRead, ReadStands
  <2> QED
    BY <2>4, <2>5, BeginTurns
<1>6. ASSUME NEW q \in Requests, NEW r \in Runs, GenerateRead(q, r) PROVE RunInv'
  <2> DEFINE op == [kind |-> "generate", run |-> r, charges |-> Included(r), refreshes |-> run[r].refreshes]
  <2>1. /\ Begin(q, op) /\ UNCHANGED <<run, bill, serial>> /\ run[r].status = "preview"
        /\ run[r].refreshes \in 0 .. MaxRefreshes /\ Included(r) \in SUBSET Charges
    BY <1>0, <1>6 DEF GenerateRead, Included, RunRows
  <2>2. op \in RunOps /\ op.kind = "generate" /\ op.run = r /\ op.refreshes = run[r].refreshes
    BY <2>1 DEF RunOps, GenerateOp
  <2> HIDE DEF op
  <2>3. ReadStands(op)
    BY <2>1, <2>2 DEF ReadStands
  <2> QED
    BY <2>1, <2>2, <2>3, BeginTurns
<1>7. ASSUME NEW q \in Requests, NEW r \in Runs, IssueRead(q, r) PROVE RunInv'
  <2> DEFINE op == [kind |-> "issue", run |-> r, bills |-> Drafts(r)]
  <2>1. /\ Begin(q, op) /\ UNCHANGED <<run, bill, serial>> /\ run[r].status = "generated"
        /\ Drafts(r) \in SUBSET Bills
    BY <1>7 DEF IssueRead, Drafts
  <2>2. op \in RunOps /\ op.kind = "issue" /\ op.run = r /\ op.bills = Drafts(r)
    BY <2>1 DEF RunOps, IssueOp
  <2> HIDE DEF op
  <2>3. ReadStands(op)
    BY <2>1, <2>2 DEF ReadStands
  <2> QED
    BY <2>1, <2>2, <2>3, BeginTurns
<1>8. ASSUME NEW q \in Requests, NEW r \in Runs, CancelRunRead(q, r) PROVE RunInv'
  <2> DEFINE op == [kind |-> "cancel", run |-> r, bills |-> Drafts(r)]
  <2>1. /\ Begin(q, op) /\ UNCHANGED <<run, bill, serial>> /\ run[r].status \in {"preview", "generated"}
        /\ Drafts(r) \in SUBSET Bills
    BY <1>8 DEF CancelRunRead, Drafts
  <2>2. op \in RunOps /\ op.kind = "cancel" /\ op.run = r /\ op.bills = Drafts(r)
    BY <2>1 DEF RunOps, CancelOp
  <2> HIDE DEF op
  <2>3. ReadStands(op)
    BY <2>1, <2>2 DEF ReadStands
  <2> QED
    BY <2>1, <2>2, <2>3, BeginTurns
<1>9. ASSUME NEW q \in Requests, RefreshCommit(q) PROVE RunInv'
  <2> DEFINE op == ops[q]
             row == [run[op.run] EXCEPT !.line = op.line, !.refreshes = @ + 1]
  <2>1. op \in RefreshOp /\ op # NoOp /\ End(q)
    BY <1>0, <1>9, RunOpOfKind DEF RefreshCommit
  <2>2. Quiet
    BY <2>1, EndQuiet
  <2>3. /\ op.run \in Runs /\ op.line \in [Charges -> LineRows] /\ \A c \in Charges : op.line[c].bill = 0
    BY <2>1, RunAssumption DEF RefreshOp, NewLines, LineRows
  <2>4. run[op.run] \in RunRows /\ run[op.run].refreshes < MaxRefreshes
    BY <1>0, <1>9, <2>3 DEF RefreshCommit
  <2>5. run[op.run].refreshes + 1 \in 0 .. MaxRefreshes
    BY <1>0, <2>4 DEF RunRows
  <2>6. row \in RunRows /\ row.status = run[op.run].status /\ row.line = op.line
    BY <2>3, <2>4, <2>5 DEF RunRows
  <2>7. run' = [run EXCEPT ![op.run] = row] /\ bill' = bill /\ serial' = serial
    BY <1>0, <1>9, <2>3, <2>4 DEF RefreshCommit, RunRows
  <2>8. serial => run[op.run].status = "preview"
    BY <1>0, <1>9, <2>1 DEF RunTurns, ReadStands, RefreshCommit
  <2> HIDE DEF row, op
  <2>9. Saved
    BY <1>0, <2>3, <2>6, <2>7, <2>8, RowKept
  <2> QED
    BY <1>1, <2>2, <2>9
<1>10. ASSUME NEW q \in Requests, GenerateCommit(q) PROVE RunInv'
  <2> DEFINE op == ops[q]
             row == run[op.run]
             there == op.refreshes = run[op.run].refreshes
  <2>1. op \in GenerateOp /\ op # NoOp /\ End(q)
    BY <1>0, <1>10, RunOpOfKind DEF GenerateCommit
  <2>2. Quiet
    BY <2>1, EndQuiet
  <2>3. /\ op.run \in Runs /\ op.charges \in SUBSET Charges /\ there \in BOOLEAN
        /\ Generate(op.run, row, op.charges, there) /\ serial' = serial
    BY <1>10, <2>1 DEF GenerateCommit, GenerateOp
  <2>4. row \in RunRows
    BY <1>0, <2>3
  <2>5. serial => row.status = "preview" /\ there
    BY <1>0, <1>10, <2>1 DEF RunTurns, ReadStands, GenerateCommit
  <2>6. serial => \A c \in Charges : row.line[c].bill = 0
    BY <1>0, <2>3, <2>5, PreviewFree DEF RunBooks
  <2>7. run[op.run].status = row.status
    OBVIOUS
  <2> DEFINE r == op.run
             charges == op.charges
  <2>8. /\ r \in Runs /\ charges \in SUBSET Charges /\ Generate(r, row, charges, there)
        /\ run[r].status = row.status
    BY <2>3, <2>7
  <2> HIDE DEF op, row, there, r, charges
  <2>9. run' \in [Runs -> RunRows] /\ bill' \in [Bills -> BillRows]
    BY <1>0, <2>3, <2>4, <2>8, GenerateTyped
  <2>10. serial => RunBooks'
    BY <1>0, <2>3, <2>4, <2>5, <2>6, <2>8, GenerateBooks
  <2> QED
    BY <1>1, <2>2, <2>3, <2>9, <2>10
<1>11. ASSUME NEW q \in Requests, IssueCommit(q) PROVE RunInv'
  <2> DEFINE op == ops[q]
             S == op.bills
             closing == {op.run}
  <2>1. op \in IssueOp /\ op # NoOp /\ End(q)
    BY <1>0, <1>11, RunOpOfKind DEF IssueCommit
  <2>2. Quiet
    BY <2>1, EndQuiet
  <2>3. S \in SUBSET Bills /\ op.run \in Runs /\ closing \in SUBSET Runs
    BY <2>1 DEF IssueOp
  <2>4. /\ \A i \in S : bill[i].status = "draft"
        /\ bill' = [i \in Bills |-> IF i \in S THEN [bill[i] EXCEPT !.status = "issued"] ELSE bill[i]]
        /\ run' = [r \in Runs |-> IF r \in closing THEN [run[r] EXCEPT !.status = "issued"] ELSE run[r]]
        /\ serial' = serial
    BY <1>0, <1>11, <2>3 DEF IssueCommit
  <2>5. serial => \A r \in closing : Drafts(r) \subseteq S
    BY <1>0, <1>11, <2>1 DEF RunTurns, ReadStands, IssueCommit
  <2> HIDE DEF op, S, closing
  <2>6. Saved
    BY <1>0, <2>3, <2>4, <2>5, IssueBooks
  <2> QED
    BY <1>1, <2>2, <2>6
<1>12. ASSUME NEW q \in Requests, CancelRunCommit(q) PROVE RunInv'
  <2> DEFINE op == ops[q]
             S == op.bills
             closing == {op.run}
  <2>1. op \in CancelOp /\ op # NoOp /\ End(q)
    BY <1>0, <1>12, RunOpOfKind DEF CancelRunCommit
  <2>2. Quiet
    BY <2>1, EndQuiet
  <2>3. S \in SUBSET Bills /\ op.run \in Runs /\ closing \in SUBSET Runs
    BY <2>1 DEF CancelOp
  <2>4. /\ bill' = Cancelled(S) /\ serial' = serial
        /\ run' = [r \in Runs |-> IF r \in closing THEN [Released(run[r], S) EXCEPT !.status = "cancelled"]
                                                   ELSE Released(run[r], S)]
    BY <1>12, <2>3 DEF CancelRunCommit
  <2>5. serial => /\ \A r \in closing : Drafts(r) \subseteq S
                  /\ \A i \in S : bill[i].status # "none"
    BY <1>0, <1>12, <2>1 DEF RunTurns, ReadStands, CancelRunCommit, Drafts
  <2> HIDE DEF op, S, closing
  <2>6. Saved
    BY <1>0, <2>3, <2>4, <2>5, CancelBooks
  <2> QED
    BY <1>1, <2>2, <2>6
<1>13. ASSUME NEW i \in Bills, IssueOne(i) PROVE RunInv'
  <2>1. Quiet
    BY <1>13, CalmQuiet DEF IssueOne
  <2> DEFINE S == {i}
             closing == {}
  <2>2. /\ S \in SUBSET Bills /\ closing \in SUBSET Runs /\ \A r \in closing : Drafts(r) \subseteq S
        /\ \A j \in S : bill[j].status = "draft" /\ serial' = serial
    BY <1>13 DEF IssueOne
  <2>3. bill' = [j \in Bills |-> IF j \in S THEN [bill[j] EXCEPT !.status = "issued"] ELSE bill[j]]
    BY <1>0, <1>13 DEF IssueOne
  <2>4. run' = [r \in Runs |-> IF r \in closing THEN [run[r] EXCEPT !.status = "issued"] ELSE run[r]]
    BY <1>0, <1>13 DEF IssueOne
  <2> HIDE DEF S, closing
  <2>5. Saved
    BY <1>0, <1>13, <2>2, <2>3, <2>4, IssueBooks DEF IssueOne
  <2> QED
    BY <1>1, <2>1, <2>5
<1>14. ASSUME NEW i \in Bills, CancelOne(i) PROVE RunInv'
  <2>1. Quiet
    BY <1>14, CalmQuiet DEF CancelOne
  <2> DEFINE S == {i}
             closing == {}
  <2>2. /\ S \in SUBSET Bills /\ closing \in SUBSET Runs /\ \A r \in closing : Drafts(r) \subseteq S
        /\ \A j \in S : bill[j].status # "none"
    BY <1>14 DEF CancelOne, Live
  <2>3. /\ bill' = Cancelled(S) /\ serial' = serial
        /\ run' = [r \in Runs |-> IF r \in closing THEN [Released(run[r], S) EXCEPT !.status = "cancelled"]
                                                   ELSE Released(run[r], S)]
    BY <1>14 DEF CancelOne
  <2> HIDE DEF S, closing
  <2>4. Saved
    BY <1>0, <2>2, <2>3, CancelBooks
  <2> QED
    BY <1>1, <2>1, <2>4
<1>15. ASSUME NEW q \in Requests, RunAbort(q) PROVE RunInv'
  <2>1. Quiet /\ UNCHANGED <<run, bill, serial>>
    BY <1>15, EndQuiet DEF RunAbort
  <2>2. Saved
    BY <1>0, <2>1 DEF RunBooks, BillsInOrder, LinesPoint, BoundOnce, PreviewsUnbilled, ClosedSettled, Live, Drafts
  <2> QED
    BY <1>1, <2>1, <2>2
<1>16. ASSUME UNCHANGED runVars PROVE RunInv'
  BY <1>16 DEF runVars, RunInv, RunTyped, RunTypeOK, RunBooks, RunTurns, ReadStands, BillsInOrder, LinesPoint,
       BoundOnce, PreviewsUnbilled, ClosedSettled, Live, Drafts
<1> QED
  BY <1>2, <1>3, <1>4, <1>5, <1>6, <1>7, <1>8, <1>9, <1>10, <1>11, <1>12, <1>13, <1>14, <1>15, <1>16 DEF RunNext

LEMMA RunInvariant == RunSpec => []RunInv
<1> QED
  BY RunInitially, RunStep, PTL DEF RunSpec

-----------------------------------------------------------------------------
(* Runs, their lines and their invoices have their types whatever overlaps. *)
THEOREM RunsTyped == RunSpec => []RunTypeOK
<1>1. RunInv => RunTypeOK
  BY DEF RunInv, RunTyped
<1> QED
  BY <1>1, RunInvariant, PTL

(* A charge is billed by one live invoice at most while handlers take turns,*)
(* and no closed run leaves a draft: the lines point to exactly the live    *)
(* invoices that bill their charges, and the index binds a charge once.     *)
THEOREM ChargesBilledOnce == RunSpec => []RunsBillOnce
<1>1. ASSUME RunInv PROVE RunsBillOnce
  <2> SUFFICES ASSUME serial PROVE RunsBillOnce
    BY DEF RunsBillOnce
  <2>1. RunBooks /\ run \in [Runs -> RunRows] /\ bill \in [Bills -> BillRows]
    BY <1>1 DEF RunInv, RunTyped, RunTypeOK, RunRows, BillRows
  <2>2. BilledOnce
    <3> SUFFICES ASSUME NEW i \in Bills, NEW j \in Bills, Live(i), Live(j),
                        NEW c \in bill[i].charges \cap bill[j].charges
                 PROVE  i = j
      BY DEF BilledOnce
    <3>1. bill[i].run \in Runs /\ bill[j].run \in Runs /\ c \in Charges /\ i # 0 /\ j # 0
      BY <2>1, RunAssumption DEF BillRows, Bills
    <3>2. run[bill[i].run].line[c].bill = i /\ run[bill[j].run].line[c].bill = j
      BY <2>1, <3>1 DEF RunBooks, LinesPoint
    <3> QED
      BY <2>1, <3>1, <3>2 DEF RunBooks, BoundOnce
  <2> QED
    BY <2>1, <2>2 DEF RunsBillOnce, RunBooks, LinesPoint, ClosedSettled
<1> QED
  BY <1>1, RunInvariant, PTL

-----------------------------------------------------------------------------
(* Tickets and the work that follows from them.                             *)
TicketStatus == {"new", "acknowledged", "assigned", "in_progress", "waiting"} \cup Over
StepStatus   == {"new", "in_progress", "completed"} \cup Over
StepActions  == {"start", "resolve", "close", "reopen", "cancel"}

WrittenRows == [kind : Kinds, source : Steps \cup {Ticket}, origin : BOOLEAN, status : StepStatus,
                follow_up : BOOLEAN, clock_resolved : BOOLEAN]

FinishOp       == [kind : {"finish"}, step : Steps, to : {"completed", "closed"},
                   verdict : [settles : SUBSET Steps, ticket : BOOLEAN]]
StepOp         == [kind : {"step"}, step : Steps, action : StepActions, ticket : BOOLEAN]
AssignOp       == [kind : {"assign"}, step : Steps, status : StepStatus]
FollowOp       == [kind : {"generate"}, source : Steps \cup {Ticket}, step : Kinds, starts : BOOLEAN]
TicketOp       == [kind : {"ticket"}, action : DOMAIN TicketRule]
AssignTicketOp == [kind : {"assignTicket"}, to : TicketStatus]
PriorityOp     == [kind : {"priority"}]
ChainOps       == {NoOp} \cup FinishOp \cup StepOp \cup AssignOp \cup FollowOp \cup TicketOp
                    \cup AssignTicketOp \cup PriorityOp

(* What a handler works on exists, and is of the kind that it read: kinds   *)
(* never change.                                                            *)
PointsTo(op) ==
    /\ op.kind = "finish" => /\ chain[op.step].kind = "work"
                             /\ \A a \in op.verdict.settles : chain[a].kind \in Kinds
    /\ op.kind = "step" => chain[op.step].kind \in {"finding", "incident"}
    /\ op.kind = "assign" => chain[op.step].kind = "incident"
    /\ op.kind = "generate" /\ op.source # Ticket => chain[op.source].kind \in Kinds

ChainTyped == ChainTypeOK /\ ops \in [Requests -> ChainOps] /\ \A q \in Requests : PointsTo(ops[q])

(* What the clocks say.  A resolved ticket keeps its flag, and it may be    *)
(* opened again: only a cancelled one is beyond the clock.                  *)
TicketClock ==
    /\ clock.resolved <=> ticket.status \in {"resolved", "closed"}
    /\ ticket.status = "waiting" => clock.paused
    /\ ticket.status # "cancelled" => (ticket.flag <=> clock.breached)

RowClock(row) == row.kind = "incident" => (row.clock_resolved <=> row.status \in {"resolved", "closed"})

Clocks == TicketClock /\ \A n \in Steps : RowClock(chain[n])

(* What a handler alone has read still holds when it writes.                *)
StillSo(op) ==
    /\ op.kind = "finish" => (op.verdict.ticket => ticket.status \notin Over)
    /\ op.kind = "step" => /\ chain[op.step].status \in StepRule[op.action].from
                           /\ op.ticket => ticket.status \notin Over
    /\ op.kind = "assign" => op.status = chain[op.step].status
    /\ op.kind = "generate" /\ op.starts =>
         IF op.source = Ticket THEN ticket.status \notin Over ELSE chain[op.source].status = "new"
    /\ op.kind = "ticket" => ticket.status \in TicketRule[op.action].from
    /\ op.kind = "assignTicket" => ticket.status \notin Over /\ op.to \in {"assigned", ticket.status}

ChainTurns ==
    /\ \A p, q \in Requests : ops[p] # NoOp /\ ops[q] # NoOp => p = q
    /\ \A q \in Requests : ops[q] # NoOp => StillSo(ops[q])

ChainInv == ChainTyped /\ (serial => Clocks /\ ChainTurns)

KindsKept == \A n \in Steps : chain[n].kind \in Kinds => chain'[n].kind = chain[n].kind

-----------------------------------------------------------------------------
(* Rows.                                                                    *)
LEMMA StepRowKinds ==
    ASSUME NEW row \in StepRows
    PROVE  /\ row \in WrittenRows <=> row.kind \in Kinds
           /\ row = NoStep <=> row.kind \notin Kinds
           /\ row.kind = "none" => row = NoStep
BY DEF StepRows, WrittenRows, StepStatus, NoStep, Kinds

LEMMA WrittenTyped == WrittenRows \subseteq StepRows
BY DEF StepRows, WrittenRows, StepStatus

LEMMA StatusWritten ==
    ASSUME NEW row \in WrittenRows, NEW status \in StepStatus
    PROVE  LET now == [row EXCEPT !.status = status]
           IN /\ now \in WrittenRows /\ now.kind = row.kind /\ now.status = status
              /\ now.clock_resolved = row.clock_resolved
BY DEF WrittenRows

LEMMA ResolveWritten ==
    ASSUME NEW row \in WrittenRows
    PROVE  LET now == [row EXCEPT !.status = "resolved", !.clock_resolved = TRUE]
           IN now \in WrittenRows /\ now.kind = row.kind /\ RowClock(now)
BY DEF WrittenRows, StepStatus, Over, RowClock

LEMMA SteppedWritten ==
    ASSUME NEW row \in WrittenRows, NEW action \in StepActions
    PROVE  LET now == Stepped(row, action)
           IN /\ now \in WrittenRows /\ now.kind = row.kind
              /\ RowClock(row) /\ row.status \in StepRule[action].from => RowClock(now)
<1> DEFINE to == StepRule[action].to
           resolved == CASE action = "resolve" -> TRUE
                         [] action = "reopen"  -> FALSE
                         [] OTHER              -> row.clock_resolved
           now == Stepped(row, action)
<1>1. /\ to \in StepStatus /\ resolved \in BOOLEAN
      /\ action = "resolve" => to = "resolved" /\ resolved = TRUE
      /\ action = "reopen" => to = "in_progress" /\ resolved = FALSE
      /\ action \notin {"resolve", "reopen"} => resolved = row.clock_resolved
  <2>1. row.clock_resolved \in BOOLEAN
    BY DEF WrittenRows
  <2>2. /\ action = "resolve" => resolved = TRUE
        /\ action = "reopen" => resolved = FALSE
        /\ action \notin {"resolve", "reopen"} => resolved = row.clock_resolved
    OBVIOUS
  <2>3. /\ to \in StepStatus
        /\ action = "resolve" => to = "resolved"
        /\ action = "reopen" => to = "in_progress"
    BY DEF StepActions, StepRule, StepStatus, Over
  <2> HIDE DEF to, resolved
  <2> QED
    BY <2>1, <2>2, <2>3
<1>2. now = [row EXCEPT !.status = to, !.clock_resolved = resolved]
  BY DEF Stepped, WrittenRows
<1> HIDE DEF resolved, to
<1>3. now \in WrittenRows /\ now.kind = row.kind /\ now.status = to /\ now.clock_resolved = resolved
  BY <1>1, <1>2 DEF WrittenRows
<1> HIDE DEF now
<1>4. RowClock(row) /\ row.status \in StepRule[action].from => RowClock(now)
  <2> SUFFICES ASSUME RowClock(row), row.status \in StepRule[action].from PROVE RowClock(now)
    OBVIOUS
  <2>1. CASE action = "resolve"
    BY <1>1, <1>3, <2>1 DEF RowClock
  <2>2. CASE action = "reopen"
    BY <1>1, <1>3, <2>2 DEF RowClock
  <2>3. CASE action = "start"
    BY <1>1, <1>3, <2>3 DEF RowClock, StepRule, to
  <2>4. CASE action = "close"
    BY <1>1, <1>3, <2>4 DEF RowClock, StepRule, to
  <2>5. CASE action = "cancel"
    BY <1>1, <1>3, <2>5 DEF RowClock, StepRule, to
  <2> QED
    BY <2>1, <2>2, <2>3, <2>4, <2>5 DEF StepActions
<1> QED
  BY <1>3, <1>4 DEF now

-----------------------------------------------------------------------------
(* Transactions.                                                            *)
LEMMA ChainOpOfKind ==
    ASSUME ChainTyped, NEW q \in Requests
    PROVE  /\ ops[q].kind = "finish"       => ops[q] \in FinishOp
           /\ ops[q].kind = "step"         => ops[q] \in StepOp
           /\ ops[q].kind = "assign"       => ops[q] \in AssignOp
           /\ ops[q].kind = "generate"     => ops[q] \in FollowOp
           /\ ops[q].kind = "ticket"       => ops[q] \in TicketOp
           /\ ops[q].kind = "assignTicket" => ops[q] \in AssignTicketOp
           /\ ops[q].kind \in {"finish", "step", "assign", "generate", "ticket", "assignTicket", "priority"}
                => ops[q] # NoOp
<1>1. ops[q] \in ChainOps
  BY DEF ChainTyped
<1> QED
  BY <1>1 DEF ChainOps, NoOp, FinishOp, StepOp, AssignOp, FollowOp, TicketOp, AssignTicketOp, PriorityOp

(* A handler begins with what it reads.                                     *)
LEMMA ChainBegins ==
    ASSUME ChainInv, NEW q \in Requests, NEW op \in ChainOps, Begin(q, op), PointsTo(op), serial => StillSo(op),
           UNCHANGED <<ticket, clock, chain, serial>>
    PROVE  ChainInv'
<1>1. /\ ops \in [Requests -> ChainOps] /\ ops' = [ops EXCEPT ![q] = op]
      /\ serial => \A p \in Requests \ {q} : ops[p] = NoOp
  BY DEF ChainInv, ChainTyped, Begin, Start, Turn
<1>2. ChainTyped'
  <2>1. \A p \in Requests : ops'[p] = op \/ ops'[p] = ops[p]
    BY <1>1
  <2>2. \A p \in Requests : PointsTo(ops'[p])
    BY <2>1 DEF ChainInv, ChainTyped
  <2>3. \A p \in Requests : PointsTo(ops[p])'
    BY <2>2 DEF PointsTo
  <2> QED
    BY <1>1, <2>3 DEF ChainInv, ChainTyped, ChainTypeOK
<1>3. serial => Clocks'
  BY DEF ChainInv, Clocks, TicketClock
<1>4. serial => ChainTurns'
  <2> SUFFICES ASSUME serial PROVE ChainTurns'
    OBVIOUS
  <2>1. \A p \in Requests : p # q => ops'[p] = NoOp
    BY <1>1
  <2>2. ops'[q] = op /\ StillSo(op)'
    BY <1>1 DEF StillSo
  <2> QED
    BY <2>1, <2>2 DEF ChainTurns
<1> QED
  BY <1>2, <1>3, <1>4 DEF ChainInv

(* What else is at work when a handler ends.                                *)
Freed ==
    /\ \A p \in Requests : ops'[p] = ops[p] \/ ops'[p] = NoOp
    /\ ops' \in [Requests -> ChainOps]
    /\ serial => \A p \in Requests : ops'[p] = NoOp

LEMMA ChainEnds ==
    ASSUME ChainInv, NEW q \in Requests, ops[q] # NoOp, End(q)
    PROVE  Freed
<1>1. ops \in [Requests -> ChainOps] /\ ops' = [ops EXCEPT ![q] = NoOp] /\ NoOp \in ChainOps
  BY DEF ChainInv, ChainTyped, End, ChainOps
<1> QED
  BY <1>1 DEF ChainInv, ChainTurns, Freed

LEMMA ChainCalm ==
    ASSUME ChainInv, Calm, ops' = ops
    PROVE  Freed
BY DEF ChainInv, ChainTyped, Calm, Freed

(* Written rows of kinds that stay leave what others work on in place.      *)
LEMMA ChainMoves ==
    ASSUME ChainInv, Freed, ChainTypeOK', KindsKept, serial' = serial, serial => Clocks'
    PROVE  ChainInv'
<1>1. \A p \in Requests : PointsTo(ops[p])'
  <2> SUFFICES ASSUME NEW p \in Requests PROVE PointsTo(ops[p])'
    OBVIOUS
  <2>1. CASE ops'[p] = NoOp
    BY <2>1 DEF PointsTo, NoOp
  <2>2. CASE ops'[p] = ops[p] /\ ops[p] # NoOp
    <3>1. PointsTo(ops[p]) /\ ChainTyped
      BY DEF ChainInv, ChainTyped
    <3> DEFINE op == ops[p]
    <3>2. CASE op.kind = "finish"
      <4>1. op \in FinishOp
        BY <3>1, <3>2, ChainOpOfKind
      <4>2. op.step \in Steps /\ op.verdict.settles \subseteq Steps
        BY <4>1 DEF FinishOp
      <4> QED
        BY <2>2, <3>1, <3>2, <4>2 DEF PointsTo, KindsKept, Kinds
    <3>3. CASE op.kind \in {"step", "assign"}
      <4>1. op.step \in Steps
        BY <3>1, <3>3, ChainOpOfKind DEF StepOp, AssignOp
      <4> QED
        BY <2>2, <3>1, <3>3, <4>1 DEF PointsTo, KindsKept, Kinds
    <3>4. CASE op.kind = "generate"
      <4>1. op.source \in Steps \cup {Ticket}
        BY <3>1, <3>4, ChainOpOfKind DEF FollowOp
      <4> QED
        BY <2>2, <3>1, <3>4, <4>1 DEF PointsTo, KindsKept
    <3>5. CASE op.kind \notin {"finish", "step", "assign", "generate"}
      BY <2>2, <3>5 DEF PointsTo
    <3> QED
      BY <3>2, <3>3, <3>4, <3>5
  <2> QED
    BY <2>1, <2>2 DEF Freed
<1>2. serial' => ChainTurns'
  <2> SUFFICES ASSUME serial' PROVE ChainTurns'
    OBVIOUS
  <2> QED
    BY DEF ChainTurns, Freed
<1> QED
  BY <1>1, <1>2 DEF ChainInv, ChainTyped, Freed

-----------------------------------------------------------------------------
(* The ticket and its clock.                                                *)
TicketRows == [status : TicketStatus, flag : BOOLEAN]
ClockRows  == [paused : BOOLEAN, resolved : BOOLEAN, late : BOOLEAN, breached : BOOLEAN]

TicketInv == ticket \in TicketRows /\ clock \in ClockRows /\ (serial => TicketClock)

LEMMA TicketOfInv == ASSUME ChainInv PROVE TicketInv
BY DEF ChainInv, ChainTyped, ChainTypeOK, TicketInv, TicketRows, ClockRows, TicketStatus, Clocks

LEMMA TicketKept == ASSUME ChainInv, UNCHANGED <<ticket, clock, serial>> PROVE TicketInv'
BY TicketOfInv DEF TicketInv, TicketClock

LEMMA ResolvedClock ==
    ASSUME ChainInv, TicketResolved, serial' = serial, serial => ticket.status \notin Over
    PROVE  TicketInv'
<1>1. /\ ticket \in TicketRows /\ clock \in ClockRows
      /\ ticket' = [ticket EXCEPT !.status = "resolved"] /\ clock' = [clock EXCEPT !.resolved = TRUE]
      /\ serial => TicketClock
  BY TicketOfInv DEF TicketInv, TicketResolved
<1>2. /\ ticket' \in TicketRows /\ ticket'.status = "resolved" /\ ticket'.flag = ticket.flag
      /\ clock' \in ClockRows /\ clock'.resolved /\ clock'.breached = clock.breached
  BY <1>1 DEF TicketRows, ClockRows, TicketStatus, Over
<1> QED
  BY <1>1, <1>2 DEF TicketInv, TicketClock, Over

(* The status alone, between those the clock does not tell apart.           *)
LEMMA StatusClock ==
    ASSUME ChainInv, NEW status \in TicketStatus \ {"resolved", "closed", "waiting", "cancelled"},
           ticket' = [ticket EXCEPT !.status = status], clock' = clock, serial' = serial,
           serial => ticket.status \notin Over
    PROVE  TicketInv'
<1>1. ticket \in TicketRows /\ clock \in ClockRows /\ (serial => TicketClock)
  BY TicketOfInv DEF TicketInv
<1>2. ticket' \in TicketRows /\ ticket'.status = status /\ ticket'.flag = ticket.flag
  BY <1>1 DEF TicketRows
<1> QED
  BY <1>1, <1>2 DEF TicketInv, TicketClock, Over

LEMMA TicketActions ==
    DOMAIN TicketRule = {"acknowledge", "start", "wait", "resolve", "close", "reopen", "cancel"}
BY DEF TicketRule

LEMMA TransitionClock ==
    ASSUME ChainInv, NEW action \in DOMAIN TicketRule, serial => ticket.status \in TicketRule[action].from,
           ticket' = [ticket EXCEPT !.status = TicketRule[action].to], clock' = ClockAfter(action),
           serial' = serial
    PROVE  TicketInv'
<1> DEFINE to == TicketRule[action].to
           from == TicketRule[action].from
           resolved == CASE action = "resolve" -> TRUE [] action = "reopen" -> FALSE [] OTHER -> clock.resolved
           paused == CASE action = "wait" -> TRUE [] action = "start" -> FALSE [] OTHER -> clock.paused
<1>1. ticket \in TicketRows /\ clock \in ClockRows /\ (serial => TicketClock)
  BY TicketOfInv DEF TicketInv
<1>2. action \in {"acknowledge", "start", "wait", "resolve", "close", "reopen", "cancel"}
  BY TicketActions
<1>3. /\ action = "acknowledge" => from = {"new"} /\ to = "acknowledged"
      /\ action = "start" => from = {"acknowledged", "assigned", "waiting"} /\ to = "in_progress"
      /\ action = "wait" => from = {"in_progress", "assigned"} /\ to = "waiting"
      /\ action = "resolve" => from = {"acknowledged", "assigned", "in_progress", "waiting"} /\ to = "resolved"
      /\ action = "close" => from = {"resolved"} /\ to = "closed"
      /\ action = "reopen" => from = {"resolved", "closed"} /\ to = "in_progress"
      /\ action = "cancel" => from = {"new", "acknowledged", "assigned", "in_progress", "waiting"} /\ to = "cancelled"
  BY DEF TicketRule
<1>4. to \in TicketStatus
  BY <1>2, <1>3 DEF TicketStatus, Over
<1>5. /\ action = "resolve" => resolved = TRUE
      /\ action = "reopen" => resolved = FALSE
      /\ action \notin {"resolve", "reopen"} => resolved = clock.resolved
  OBVIOUS
<1>6. /\ action = "wait" => paused = TRUE
      /\ action = "start" => paused = FALSE
      /\ action \notin {"wait", "start"} => paused = clock.paused
  OBVIOUS
<1>7. clock' = [clock EXCEPT !.resolved = resolved, !.paused = paused]
  BY <1>1 DEF ClockAfter, ClockRows
<1>8. (serial => ticket.status \in from) /\ ticket' = [ticket EXCEPT !.status = to]
  OBVIOUS
<1> HIDE DEF to, from, resolved, paused
<1>9. resolved \in BOOLEAN /\ paused \in BOOLEAN
  BY <1>1, <1>5, <1>6 DEF ClockRows
<1>10. /\ clock' \in ClockRows /\ clock'.resolved = resolved /\ clock'.paused = paused
       /\ clock'.breached = clock.breached
  BY <1>1, <1>7, <1>9 DEF ClockRows
<1>11. ticket' \in TicketRows /\ ticket'.status = to /\ ticket'.flag = ticket.flag
  BY <1>1, <1>4, <1>8 DEF TicketRows
<1>12. ASSUME serial PROVE TicketClock'
  <2>1. TicketClock /\ ticket.status \in from
    BY <1>1, <1>8, <1>12
  <2>2. ticket.status # "cancelled" /\ (ticket.flag <=> clock.breached)
    BY <1>2, <1>3, <2>1 DEF TicketClock
  <2>3. resolved <=> to \in {"resolved", "closed"}
    BY <1>2, <1>3, <1>5, <2>1 DEF TicketClock
  <2>4. to = "waiting" => paused
    BY <1>2, <1>3, <1>6
  <2> QED
    BY <1>10, <1>11, <2>2, <2>3, <2>4 DEF TicketClock
<1> QED
  BY <1>10, <1>11, <1>12 DEF TicketInv

(* A new due time, met by now or not.                                       *)
LEMMA RecomputedClock ==
    ASSUME ChainInv, NEW late \in BOOLEAN, Recomputed(late), serial' = serial
    PROVE  TicketInv'
<1>1. ticket \in TicketRows /\ clock \in ClockRows /\ (serial => TicketClock)
  BY TicketOfInv DEF TicketInv
<1>2. /\ clock' = [clock EXCEPT !.late = late, !.breached = FALSE]
      /\ ticket' = [ticket EXCEPT !.flag = FALSE]
  BY DEF Recomputed
<1>3. /\ clock' \in ClockRows /\ clock'.resolved = clock.resolved /\ clock'.paused = clock.paused
      /\ clock'.breached = FALSE
  BY <1>1, <1>2 DEF ClockRows
<1>4. ticket' \in TicketRows /\ ticket'.status = ticket.status /\ ticket'.flag = FALSE
  BY <1>1, <1>2 DEF TicketRows
<1> QED
  BY <1>1, <1>3, <1>4 DEF TicketInv, TicketClock

LEMMA SweptClock ==
    ASSUME ChainInv, SLASweep
    PROVE  TicketInv'
<1>1. ticket \in TicketRows /\ clock \in ClockRows /\ (serial => TicketClock)
  BY TicketOfInv DEF TicketInv
<1> DEFINE flag == ticket.flag \/ ticket.status \notin Over
<1>2. /\ clock' = [clock EXCEPT !.breached = TRUE] /\ serial' = serial
      /\ ticket' = [ticket EXCEPT !.flag = flag] /\ ~clock.resolved
  BY DEF SLASweep
<1>3. clock' \in ClockRows /\ clock'.resolved = clock.resolved /\ clock'.paused = clock.paused /\ clock'.breached = TRUE
  BY <1>1, <1>2 DEF ClockRows
<1>4. ticket' \in TicketRows /\ ticket'.status = ticket.status /\ ticket'.flag = flag
  <2>1. flag \in BOOLEAN
    OBVIOUS
  <2> HIDE DEF flag
  <2> QED
    BY <1>1, <1>2, <2>1 DEF TicketRows
<1>5. serial => TicketClock'
  <2> SUFFICES ASSUME serial PROVE TicketClock'
    OBVIOUS
  <2>1. ticket.status \notin {"resolved", "closed"}
    BY <1>1, <1>2 DEF TicketClock
  <2>2. ticket.status # "cancelled" => flag = TRUE
    BY <2>1 DEF Over
  <2> HIDE DEF flag
  <2> QED
    BY <1>1, <1>3, <1>4, <2>2 DEF TicketClock
<1> QED
  BY <1>2, <1>3, <1>4, <1>5 DEF TicketInv

-----------------------------------------------------------------------------
(* The rows that a handler writes.                                          *)
Writes(row, m) ==
    /\ row \in WrittenRows
    /\ chain[m].kind \in Kinds => row.kind = chain[m].kind
    /\ serial => RowClock(row)

LEMMA RowOfInv ==
    ASSUME ChainInv, NEW m \in Steps
    PROVE  /\ chain[m] \in StepRows
           /\ chain[m].kind \in Kinds <=> chain[m] \in WrittenRows
           /\ serial => RowClock(chain[m])
<1>1. chain[m] \in StepRows /\ (serial => RowClock(chain[m]))
  BY DEF ChainInv, ChainTyped, ChainTypeOK, Clocks
<1> QED
  BY <1>1, StepRowKinds

LEMMA ChainWrites ==
    ASSUME ChainInv, Freed, TicketInv', serial' = serial, NEW rows, chain' = [m \in Steps |-> rows[m]],
           \A m \in Steps : rows[m] = chain[m] \/ Writes(rows[m], m)
    PROVE  ChainInv'
<1>1. \A m \in Steps : chain'[m] = rows[m]
  OBVIOUS
<1>2. chain' \in [Steps -> StepRows]
  BY RowOfInv, WrittenTyped DEF Writes
<1>3. ChainTypeOK'
  BY <1>2 DEF ChainInv, ChainTyped, ChainTypeOK, TicketInv, TicketRows, ClockRows, TicketStatus
<1>4. KindsKept
  BY <1>1 DEF KindsKept, Writes
<1>5. ASSUME serial PROVE Clocks'
  <2>1. \A m \in Steps : RowClock(chain'[m])
    BY <1>1, <1>5, RowOfInv DEF Writes
  <2> QED
    BY <1>5, <2>1 DEF Clocks, TicketInv, RowClock
<1> QED
  BY <1>3, <1>4, <1>5, ChainMoves

LEMMA WriteOne ==
    ASSUME ChainInv, Freed, TicketInv', serial' = serial, NEW n \in Steps, NEW row,
           Writes(row, n), chain' = [chain EXCEPT ![n] = row]
    PROVE  ChainInv'
<1> DEFINE rows == [m \in Steps |-> IF m = n THEN row ELSE chain[m]]
<1>1. chain \in [Steps -> StepRows]
  BY DEF ChainInv, ChainTyped, ChainTypeOK
<1>2. chain' = [m \in Steps |-> rows[m]]
  BY <1>1
<1>3. \A m \in Steps : rows[m] = chain[m] \/ Writes(rows[m], m)
  OBVIOUS
<1> HIDE DEF rows
<1> QED
  BY <1>2, <1>3, ChainWrites

LEMMA WriteNone ==
    ASSUME ChainInv, Freed, TicketInv', serial' = serial, chain' = chain
    PROVE  ChainInv'
<1>1. chain' = [m \in Steps |-> chain[m]]
  BY DEF ChainInv, ChainTyped, ChainTypeOK
<1> QED
  BY <1>1, ChainWrites

(* The status alone, between those an incident's clock does not tell apart. *)
LEMMA WriteStatus ==
    ASSUME ChainInv, Freed, TicketInv', serial' = serial, NEW n \in Steps, chain[n].kind \in Kinds,
           NEW status \in StepStatus, chain' = [chain EXCEPT ![n].status = status],
           serial /\ chain[n].kind = "incident" =>
             (status \in {"resolved", "closed"} <=> chain[n].status \in {"resolved", "closed"})
    PROVE  ChainInv'
<1> DEFINE row == [chain[n] EXCEPT !.status = status]
<1>1. chain[n] \in WrittenRows /\ (serial => RowClock(chain[n]))
  BY RowOfInv
<1>2. /\ row \in WrittenRows /\ row.kind = chain[n].kind /\ row.status = status
      /\ row.clock_resolved = chain[n].clock_resolved
  BY <1>1, StatusWritten
<1>3. chain' = [chain EXCEPT ![n] = row]
  OBVIOUS
<1> HIDE DEF row
<1>4. Writes(row, n)
  BY <1>1, <1>2 DEF Writes, RowClock
<1> QED
  BY <1>3, <1>4, WriteOne

(* What was generated or reported is new.                                   *)
LEMMA NewWritten ==
    ASSUME ChainInv, NEW n \in Steps, chain[n].kind \notin Kinds, NEW kind \in Kinds,
           NEW source \in Steps \cup {Ticket}, source \in Steps /\ source # n => chain[source].kind \in Kinds,
           NEW follow_up \in BOOLEAN
    PROVE  LET row == NewStep(n, kind, source, follow_up)
           IN row \in WrittenRows /\ Writes(row, n)
<1> DEFINE origin == IF source = Ticket THEN TRUE ELSE source # n /\ chain[source].origin
           row == NewStep(n, kind, source, follow_up)
<1>1. origin \in BOOLEAN
  OBVIOUS
<1> HIDE DEF origin
<1>2. row = [kind |-> kind, source |-> source, origin |-> origin, status |-> "new",
             follow_up |-> follow_up, clock_resolved |-> FALSE]
  <2>1. row = [NoStep EXCEPT !.kind = kind, !.source = source, !.status = "new", !.follow_up = follow_up,
                             !.origin = origin]
    BY DEF NewStep, origin
  <2> HIDE DEF row
  <2> QED
    BY <2>1 DEF NoStep
<1>3. row \in WrittenRows /\ row.status = "new" /\ row.clock_resolved = FALSE
  BY <1>1, <1>2 DEF WrittenRows, StepStatus
<1> QED
  BY <1>3 DEF Writes, RowClock

LEMMA SettlesFound == \A rows, n : Settles(rows, n) \subseteq {a \in Steps : rows[a].kind # "work" /\ Pending(rows[a])}
BY DEF Settles, Candidates

LEMMA StepActionsAre == DOMAIN StepRule = StepActions
BY DEF StepRule, StepActions

-----------------------------------------------------------------------------
LEMMA ChainInitially == ChainInit => ChainInv
<1> SUFFICES ASSUME ChainInit PROVE ChainInv
  OBVIOUS
<1>1. /\ ticket = [status |-> "new", flag |-> FALSE] /\ chain = [n \in Steps |-> NoStep]
      /\ clock = [paused |-> FALSE, resolved |-> FALSE, late |-> FALSE, breached |-> FALSE]
      /\ ops = [q \in Requests |-> NoOp] /\ serial \in BOOLEAN
  BY DEF ChainInit, ChainIdle, TxInit
<1>2. ChainTypeOK
  BY <1>1 DEF ChainTypeOK, StepRows
<1>3. ChainTyped
  BY <1>1, <1>2 DEF ChainTyped, PointsTo, NoOp, ChainOps
<1>4. TicketClock
  BY <1>1 DEF TicketClock
<1>5. \A n \in Steps : RowClock(chain[n])
  BY <1>1 DEF RowClock, NoStep
<1> QED
  BY <1>1, <1>3, <1>4, <1>5 DEF ChainInv, ChainTurns, Clocks

(* A handler reads.                                                         *)
LEMMA ChainReads ==
    ASSUME ChainInv, NEW q \in Requests
    PROVE  /\ \A n \in Steps : FinishRead(q, n) \/ AssignIncidentRead(q, n) => ChainInv'
           /\ \A n \in Steps, action \in DOMAIN StepRule : StepRead(q, n, action) => ChainInv'
           /\ \A source \in Steps \cup {Ticket}, kind \in Kinds : GenerateStepRead(q, source, kind) => ChainInv'
           /\ \A action \in DOMAIN TicketRule : TicketRead(q, action) => ChainInv'
           /\ AssignTicketRead(q) \/ PriorityRead(q) => ChainInv'
<1>0. ticket \in TicketRows
  BY TicketOfInv DEF TicketInv
<1>1. ASSUME NEW n \in Steps, FinishRead(q, n) PROVE ChainInv'
  <2> DEFINE to == IF chain[n].status = "new" THEN "completed" ELSE "closed"
             rows == [chain EXCEPT ![n].status = to]
             verdict == Verdict(rows, n)
             op == [kind |-> "finish", step |-> n, to |-> to, verdict |-> verdict]
  <2>1. Begin(q, op) /\ UNCHANGED <<ticket, clock, chain, serial>> /\ chain[n].kind = "work"
    BY <1>1 DEF FinishRead
  <2>2. to \in {"completed", "closed"}
    OBVIOUS
  <2>3. \A a \in Steps : rows[a].kind = chain[a].kind
    <3> HIDE DEF to
    <3>1. chain \in [Steps -> StepRows]
      BY DEF ChainInv, ChainTyped, ChainTypeOK
    <3>2. chain[n] \in WrittenRows
      BY <2>1, RowOfInv DEF Kinds
    <3>3. [chain[n] EXCEPT !.status = to].kind = chain[n].kind
      BY <3>2 DEF WrittenRows
    <3> QED
      BY <3>1, <3>3
  <2>4. /\ verdict.settles = Settles(rows, n)
        /\ verdict.ticket = SettlesTicket(ResolveAll(rows, Settles(rows, n)), n)
        /\ verdict = [settles |-> verdict.settles, ticket |-> verdict.ticket]
    BY DEF Verdict
  <2>r. \A a \in Steps : a # n => rows[a] = chain[a]
    BY DEF ChainInv, ChainTyped, ChainTypeOK
  <2> HIDE DEF rows, to
  <2>5. verdict.settles \subseteq Steps /\ \A a \in verdict.settles : rows[a].kind # "work" /\ Pending(rows[a])
    BY <2>4, SettlesFound
  <2>6. verdict.ticket \in BOOLEAN /\ (verdict.ticket => ticket.status \notin Over)
    BY <2>4 DEF SettlesTicket
  <2> HIDE DEF verdict
  <2>7. op \in FinishOp
    BY <2>2, <2>4, <2>5, <2>6 DEF FinishOp
  <2>8. op \in ChainOps
    BY <2>7 DEF ChainOps
  <2>9. ASSUME NEW a \in verdict.settles PROVE chain[a].kind \in Kinds
    <3>1. CASE a = n
      BY <2>1, <3>1 DEF Kinds
    <3>2. CASE a # n
      <4>1. rows[a] = chain[a]
        BY <2>5, <2>r, <3>2
      <4>2. chain[a].status # "none"
        BY <2>5, <4>1 DEF Pending
      <4> QED
        BY <2>5, <4>2, RowOfInv, StepRowKinds DEF NoStep
    <3> QED
      BY <3>1, <3>2
  <2>10. PointsTo(op)
    BY <2>1, <2>9 DEF PointsTo
  <2>11. StillSo(op)
    BY <2>6 DEF StillSo
  <2> HIDE DEF op
  <2> QED
    BY <2>1, <2>8, <2>10, <2>11, ChainBegins
<1>2. ASSUME NEW n \in Steps, AssignIncidentRead(q, n) PROVE ChainInv'
  <2> DEFINE op == [kind |-> "assign", step |-> n, status |-> chain[n].status]
  <2>1. /\ Begin(q, op) /\ UNCHANGED <<ticket, clock, chain, serial>>
        /\ chain[n].kind = "incident" /\ Pending(chain[n])
    BY <1>2 DEF AssignIncidentRead
  <2>2. op \in ChainOps
    BY <2>1 DEF ChainOps, AssignOp, Pending, StepStatus
  <2>3. PointsTo(op) /\ StillSo(op)
    BY <2>1 DEF PointsTo, StillSo
  <2> HIDE DEF op
  <2> QED
    BY <2>1, <2>2, <2>3, ChainBegins
<1>3. ASSUME NEW n \in Steps, NEW action \in DOMAIN StepRule, StepRead(q, n, action) PROVE ChainInv'
  <2> DEFINE settled == /\ action \in {"resolve", "close"}
                        /\ SettlesTicket([chain EXCEPT ![n] = Stepped(@, action)], n)
             op == [kind |-> "step", step |-> n, action |-> action, ticket |-> settled]
  <2>1. /\ Begin(q, op) /\ UNCHANGED <<ticket, clock, chain, serial>>
        /\ chain[n].kind \in {"finding", "incident"} /\ chain[n].status \in StepRule[action].from
    BY <1>3 DEF StepRead
  <2>2. settled \in BOOLEAN /\ (settled => ticket.status \notin Over)
    BY DEF SettlesTicket
  <2> HIDE DEF settled
  <2>3. op \in ChainOps
    BY <2>2, StepActionsAre DEF ChainOps, StepOp
  <2>4. PointsTo(op) /\ StillSo(op)
    BY <2>1, <2>2 DEF PointsTo, StillSo
  <2> HIDE DEF op
  <2> QED
    BY <2>1, <2>3, <2>4, ChainBegins
<1>4. ASSUME NEW source \in Steps \cup {Ticket}, NEW kind \in Kinds, GenerateStepRead(q, source, kind)
      PROVE  ChainInv'
  <2> DEFINE starts == CASE KindOf(source) = "ticket" -> ticket.status \in {"new", "acknowledged", "assigned", "waiting"}
                         [] KindOf(source) = "work"   -> FALSE
                         [] OTHER                     -> chain[source].status = "new"
             op == [kind |-> "generate", source |-> source, step |-> kind, starts |-> starts]
  <2>1. Begin(q, op) /\ UNCHANGED <<ticket, clock, chain, serial>> /\ Generates(source, kind)
    BY <1>4 DEF GenerateStepRead
  <2>2. KindOf(source) \in {"ticket", "finding", "incident", "work"}
    BY <2>1 DEF Generates
  <2>3. starts \in BOOLEAN
    <3> DEFINE open == ticket.status \in {"new", "acknowledged", "assigned", "waiting"}
               fresh == chain[source].status = "new"
    <3>1. open \in BOOLEAN /\ fresh \in BOOLEAN
      OBVIOUS
    <3> HIDE DEF open, fresh
    <3>2. starts = CASE KindOf(source) = "ticket" -> open [] KindOf(source) = "work" -> FALSE [] OTHER -> fresh
      BY DEF open, fresh
    <3> HIDE DEF starts
    <3> QED
      BY <3>1, <3>2
  <2>4. source # Ticket => chain[source].kind \in Kinds
    <3> SUFFICES ASSUME source # Ticket PROVE chain[source].kind \in Kinds
      OBVIOUS
    <3>1. KindOf(source) = chain[source].kind /\ chain[source] \in StepRows
      BY RowOfInv DEF KindOf
    <3> QED
      BY <2>2, <3>1 DEF StepRows, NoStep, Kinds
  <2>5. starts => IF source = Ticket THEN ticket.status \notin Over ELSE chain[source].status = "new"
    <3>1. CASE source = Ticket
      BY <3>1 DEF KindOf, Over
    <3>2. CASE source # Ticket
      <4>1. KindOf(source) = chain[source].kind /\ chain[source].kind \in Kinds
        BY <2>4, <3>2 DEF KindOf
      <4> QED
        BY <3>2, <4>1 DEF Kinds
    <3> QED
      BY <3>1, <3>2
  <2> HIDE DEF starts
  <2>6. op \in ChainOps
    BY <2>3 DEF ChainOps, FollowOp
  <2>7. PointsTo(op) /\ StillSo(op)
    BY <2>4, <2>5 DEF PointsTo, StillSo
  <2> HIDE DEF op
  <2> QED
    BY <2>1, <2>6, <2>7, ChainBegins
<1>5. ASSUME NEW action \in DOMAIN TicketRule, TicketRead(q, action) PROVE ChainInv'
  <2> DEFINE op == [kind |-> "ticket", action |-> action]
  <2>1. /\ Begin(q, op) /\ UNCHANGED <<ticket, clock, chain, serial>>
        /\ ticket.status \in TicketRule[action].from
    BY <1>5 DEF TicketRead
  <2>2. op \in ChainOps
    BY DEF ChainOps, TicketOp
  <2>3. PointsTo(op) /\ StillSo(op)
    BY <2>1 DEF PointsTo, StillSo
  <2> HIDE DEF op
  <2> QED
    BY <2>1, <2>2, <2>3, ChainBegins
<1>6. ASSUME AssignTicketRead(q) PROVE ChainInv'
  <2> DEFINE to == IF ticket.status \in {"new", "acknowledged"} THEN "assigned" ELSE ticket.status
             op == [kind |-> "assignTicket", to |-> to]
  <2>1. Begin(q, op) /\ UNCHANGED <<ticket, clock, chain, serial>> /\ ticket.status \notin Over
    BY <1>6 DEF AssignTicketRead
  <2>2. to \in TicketStatus /\ to \in {"assigned", ticket.status}
    BY <1>0 DEF TicketRows, TicketStatus
  <2> HIDE DEF to
  <2>3. op \in ChainOps
    BY <2>2 DEF ChainOps, AssignTicketOp
  <2>4. PointsTo(op) /\ StillSo(op)
    BY <2>1, <2>2 DEF PointsTo, StillSo
  <2> HIDE DEF op
  <2> QED
    BY <2>1, <2>3, <2>4, ChainBegins
<1>7. ASSUME PriorityRead(q) PROVE ChainInv'
  <2> DEFINE op == [kind |-> "priority"]
  <2>1. Begin(q, op) /\ UNCHANGED <<ticket, clock, chain, serial>>
    BY <1>7 DEF PriorityRead
  <2>2. op \in ChainOps /\ PointsTo(op) /\ StillSo(op)
    BY DEF ChainOps, PriorityOp, PointsTo, StillSo
  <2> HIDE DEF op
  <2> QED
    BY <2>1, <2>2, ChainBegins
<1> QED
  BY <1>1, <1>2, <1>3, <1>4, <1>5, <1>6, <1>7

(* A handler that works on op writes.                                       *)
LEMMA FinishWrites == ASSUME ChainInv, NEW q \in Requests, FinishCommit(q) PROVE ChainInv'
<1> DEFINE op == ops[q]
           x == [chain EXCEPT ![op.step].status = op.to]
           rows == ResolveAll(x, op.verdict.settles)
<1>1. op \in FinishOp /\ op # NoOp /\ End(q) /\ PointsTo(op) /\ (serial => ChainTurns)
  BY ChainOpOfKind DEF FinishCommit, ChainInv, ChainTyped
<1>2. /\ op.step \in Steps /\ op.to \in StepStatus /\ op.verdict.settles \subseteq Steps
      /\ op.kind = "finish" /\ op.verdict.ticket \in BOOLEAN
  BY <1>1 DEF FinishOp, StepStatus, Over
<1>3. Freed
  BY <1>1, ChainEnds
<1>4. /\ chain' = rows /\ serial' = serial
      /\ IF op.verdict.ticket THEN TicketResolved ELSE UNCHANGED <<ticket, clock>>
  BY DEF FinishCommit
<1>5. serial => (op.verdict.ticket => ticket.status \notin Over)
  BY <1>1, <1>2 DEF ChainTurns, StillSo
<1>6. TicketInv'
  <2>1. CASE op.verdict.ticket
    BY <1>4, <1>5, <2>1, ResolvedClock
  <2>2. CASE ~op.verdict.ticket
    BY <1>4, <2>2, TicketKept
  <2> QED
    BY <2>1, <2>2
<1>7. chain[op.step].kind = "work" /\ \A a \in op.verdict.settles : chain[a].kind \in Kinds
  BY <1>1, <1>2 DEF PointsTo
<1>8. \A m \in Steps : x[m] = IF m = op.step THEN [chain[m] EXCEPT !.status = op.to] ELSE chain[m]
  BY <1>2 DEF ChainInv, ChainTyped, ChainTypeOK
<1> HIDE DEF x
<1>9. \A m \in Steps : x[m] = chain[m] \/ (x[m] \in WrittenRows /\ x[m].kind = chain[m].kind /\ x[m].kind = "work")
  <2> SUFFICES ASSUME op.step \in Steps
               PROVE  x[op.step] \in WrittenRows /\ x[op.step].kind = chain[op.step].kind
    BY <1>2, <1>7, <1>8
  <2>1. chain[op.step] \in WrittenRows
    BY <1>7, RowOfInv DEF Kinds
  <2>2. x[op.step] = [chain[op.step] EXCEPT !.status = op.to]
    BY <1>2, <1>8
  <2> HIDE DEF op
  <2> QED
    BY <1>2, <2>1, <2>2, StatusWritten
<1>10. \A m \in Steps : rows[m] = IF m \in op.verdict.settles
                                  THEN [x[m] EXCEPT !.status = "resolved", !.clock_resolved = TRUE] ELSE x[m]
  BY DEF ResolveAll
<1>11. chain' = [m \in Steps |-> rows[m]]
  BY <1>4 DEF ResolveAll
<1> HIDE DEF rows
<1>12. ASSUME NEW m \in Steps PROVE rows[m] = chain[m] \/ Writes(rows[m], m)
  <2>1. CASE m \in op.verdict.settles
    <3>1. x[m] \in WrittenRows /\ x[m].kind = chain[m].kind
      BY <1>7, <1>9, <2>1, RowOfInv
    <3> QED
      BY <1>10, <2>1, <3>1, ResolveWritten DEF Writes
  <2>2. CASE m \notin op.verdict.settles
    BY <1>9, <1>10, <2>2 DEF Writes, RowClock
  <2> QED
    BY <2>1, <2>2
<1> QED
  BY <1>3, <1>4, <1>6, <1>11, <1>12, ChainWrites

LEMMA StepWrites == ASSUME ChainInv, NEW q \in Requests, StepCommit(q) PROVE ChainInv'
<1> DEFINE op == ops[q]
           row == Stepped(chain[op.step], op.action)
<1>1. op \in StepOp /\ op # NoOp /\ End(q) /\ PointsTo(op) /\ (serial => ChainTurns)
  BY ChainOpOfKind DEF StepCommit, ChainInv, ChainTyped
<1>2. op.step \in Steps /\ op.action \in StepActions /\ op.kind = "step" /\ op.ticket \in BOOLEAN
  BY <1>1 DEF StepOp
<1>3. Freed
  BY <1>1, ChainEnds
<1>4. /\ chain' = [chain EXCEPT ![op.step] = row] /\ serial' = serial
      /\ IF op.ticket THEN TicketResolved ELSE UNCHANGED <<ticket, clock>>
  BY <1>2 DEF StepCommit, ChainInv, ChainTyped, ChainTypeOK
<1>5. serial => /\ op.ticket => ticket.status \notin Over
                /\ chain[op.step].status \in StepRule[op.action].from
  BY <1>1, <1>2 DEF ChainTurns, StillSo
<1>6. TicketInv'
  <2>1. CASE op.ticket
    BY <1>4, <1>5, <2>1, ResolvedClock
  <2>2. CASE ~op.ticket
    BY <1>4, <2>2, TicketKept
  <2> QED
    BY <2>1, <2>2
<1>7. chain[op.step] \in WrittenRows /\ (serial => RowClock(chain[op.step]))
  <2>1. chain[op.step].kind \in Kinds
    BY <1>1, <1>2 DEF PointsTo, Kinds
  <2> QED
    BY <1>2, <2>1, RowOfInv
<1>8. Writes(row, op.step)
  BY <1>2, <1>5, <1>7, SteppedWritten DEF Writes
<1> HIDE DEF row
<1> QED
  BY <1>2, <1>3, <1>4, <1>6, <1>8, WriteOne

LEMMA AssignWrites == ASSUME ChainInv, NEW q \in Requests, AssignIncidentCommit(q) PROVE ChainInv'
<1> DEFINE op == ops[q]
<1>1. op \in AssignOp /\ op # NoOp /\ End(q) /\ PointsTo(op) /\ (serial => ChainTurns)
  BY ChainOpOfKind DEF AssignIncidentCommit, ChainInv, ChainTyped
<1>2. op.step \in Steps /\ op.status \in StepStatus /\ op.kind = "assign" /\ chain[op.step].kind \in Kinds
  BY <1>1 DEF AssignOp, PointsTo, Kinds
<1>3. serial => op.status = chain[op.step].status
  BY <1>1, <1>2 DEF ChainTurns, StillSo
<1>4. Freed
  BY <1>1, ChainEnds
<1>5. TicketInv' /\ serial' = serial /\ chain' = [chain EXCEPT ![op.step].status = op.status]
  BY TicketKept DEF AssignIncidentCommit
<1> HIDE DEF op
<1> QED
  BY <1>2, <1>3, <1>4, <1>5, WriteStatus

LEMMA GenerateWrites == ASSUME ChainInv, NEW q \in Requests, GenerateStepCommit(q) PROVE ChainInv'
<1> DEFINE op == ops[q]
           source == op.source
           starts == op.starts
<1>1. op \in FollowOp /\ op # NoOp /\ End(q) /\ PointsTo(op) /\ (serial => ChainTurns)
  BY ChainOpOfKind DEF GenerateStepCommit, ChainInv, ChainTyped
<1>2. /\ source \in Steps \cup {Ticket} /\ op.step \in Kinds /\ starts \in BOOLEAN
      /\ source # Ticket => source \in Steps /\ chain[source].kind \in Kinds
  BY <1>1 DEF FollowOp, PointsTo
<1>3. Freed /\ serial' = serial
  BY <1>1, ChainEnds DEF GenerateStepCommit
<1>4. serial /\ starts => IF source = Ticket THEN ticket.status \notin Over ELSE chain[source].status = "new"
  BY <1>1 DEF ChainTurns, StillSo, FollowOp
<1>5. TicketInv'
  <2>1. CASE starts /\ source = Ticket
    <3>0. ticket \in TicketRows /\ clock \in ClockRows /\ (serial => TicketClock)
      BY TicketOfInv DEF TicketInv
    <3>1. ticket' = [ticket EXCEPT !.status = "in_progress"] /\ clock' = [clock EXCEPT !.paused = FALSE]
      BY <2>1 DEF GenerateStepCommit
    <3>2. ticket' \in TicketRows /\ ticket'.status = "in_progress" /\ ticket'.flag = ticket.flag
      BY <3>0, <3>1 DEF TicketRows, TicketStatus
    <3>3. /\ clock' \in ClockRows /\ clock'.resolved = clock.resolved /\ clock'.breached = clock.breached
      BY <3>0, <3>1 DEF ClockRows
    <3> QED
      BY <1>3, <1>4, <2>1, <3>0, <3>2, <3>3 DEF TicketInv, TicketClock, Over
  <2>2. CASE ~(starts /\ source = Ticket)
    <3>1. UNCHANGED <<ticket, clock>>
      BY <2>2 DEF GenerateStepCommit
    <3> QED
      BY <1>3, <3>1, TicketKept
  <2> QED
    BY <2>1, <2>2
<1>6. PICK n \in Steps :
        /\ NextStep(n)
        /\ LET rows == [chain EXCEPT ![n] = NewStep(n, op.step, op.source, KindOf(op.source) = "work")]
           IN chain' = IF op.starts /\ op.source # Ticket
                       THEN [rows EXCEPT ![op.source].status = "in_progress"] ELSE rows
  BY DEF GenerateStepCommit
<1> DEFINE follow_up == KindOf(source) = "work"
           new == NewStep(n, op.step, source, follow_up)
           rows == [chain EXCEPT ![n] = new]
<1>7. chain' = IF starts /\ source # Ticket THEN [rows EXCEPT ![source].status = "in_progress"] ELSE rows
  BY <1>6
<1>8. chain[n] = NoStep /\ chain[n].kind \notin Kinds
  <2>1. n >= n
    BY ChainAssumption DEF Steps
  <2>2. chain[n] = NoStep
    BY <1>6, <2>1 DEF NextStep
  <2> QED
    BY <2>2 DEF NoStep, Kinds
<1>9. new \in WrittenRows /\ Writes(new, n)
  <2>1. follow_up \in BOOLEAN
    OBVIOUS
  <2> HIDE DEF follow_up
  <2>2. source \in Steps /\ source # n => chain[source].kind \in Kinds
    BY <1>2 DEF Ticket, Steps
  <2> HIDE DEF source
  <2> QED
    BY <1>2, <1>8, <2>1, <2>2, NewWritten
<1> HIDE DEF new, op, source, starts, follow_up
<1>10. CASE ~(starts /\ source # Ticket)
  BY <1>3, <1>5, <1>7, <1>9, <1>10, WriteOne
<1>11. CASE starts /\ source # Ticket
  <2>1. source \in Steps /\ source # n /\ chain[source] \in WrittenRows /\ (serial => RowClock(chain[source]))
    BY <1>2, <1>8, <1>11, RowOfInv
  <2> DEFINE row == [chain[source] EXCEPT !.status = "in_progress"]
             after == [m \in Steps |-> IF m = source THEN row ELSE IF m = n THEN new ELSE chain[m]]
  <2>2. /\ row \in WrittenRows /\ row.kind = chain[source].kind /\ row.status = "in_progress"
        /\ row.clock_resolved = chain[source].clock_resolved
    BY <2>1, StatusWritten DEF StepStatus
  <2>3. Writes(row, source)
    <3> HIDE DEF row
    <3> QED
      BY <1>4, <1>11, <2>1, <2>2 DEF Writes, RowClock
  <2>4. chain' = after
    <3>1. chain \in [Steps -> StepRows]
      BY DEF ChainInv, ChainTyped, ChainTypeOK
    <3> QED
      BY <1>7, <1>11, <2>1, <3>1
  <2> HIDE DEF row
  <2>5. chain' = [m \in Steps |-> after[m]] /\ \A m \in Steps : after[m] = chain[m] \/ Writes(after[m], m)
    BY <1>9, <2>3, <2>4
  <2> HIDE DEF after
  <2> QED
    BY <1>3, <1>5, <2>5, ChainWrites
<1> QED
  BY <1>10, <1>11

LEMMA TicketWrites ==
    ASSUME ChainInv, NEW q \in Requests, TicketCommit(q) \/ AssignTicketCommit(q) \/ PriorityCommit(q)
    PROVE  ChainInv'
<1> DEFINE op == ops[q]
<1>1. op # NoOp /\ End(q) /\ serial' = serial /\ chain' = chain /\ (serial => ChainTurns)
  BY ChainOpOfKind DEF TicketCommit, AssignTicketCommit, PriorityCommit, ChainInv
<1>2. Freed
  BY <1>1, ChainEnds
<1>3. CASE TicketCommit(q)
  <2>1. op \in TicketOp /\ op.kind = "ticket"
    BY <1>3, ChainOpOfKind DEF TicketCommit, ChainInv
  <2>2. op.action \in DOMAIN TicketRule
    BY <2>1 DEF TicketOp
  <2>3. serial => ticket.status \in TicketRule[op.action].from
    BY <1>1, <2>1 DEF ChainTurns, StillSo
  <2>4. ticket' = [ticket EXCEPT !.status = TicketRule[op.action].to] /\ clock' = ClockAfter(op.action)
    BY <1>3 DEF TicketCommit
  <2> HIDE DEF op
  <2>5. TicketInv'
    BY <1>1, <2>2, <2>3, <2>4, TransitionClock
  <2> QED
    BY <1>1, <1>2, <2>5, WriteNone
<1>4. CASE AssignTicketCommit(q)
  <2>1. op \in AssignTicketOp /\ op.kind = "assignTicket"
    BY <1>4, ChainOpOfKind DEF AssignTicketCommit, ChainInv
  <2>2. op.to \in TicketStatus
    BY <2>1 DEF AssignTicketOp
  <2>3. serial => ticket.status \notin Over /\ op.to \in {"assigned", ticket.status}
    BY <1>1, <2>1 DEF ChainTurns, StillSo
  <2>4. ticket' = [ticket EXCEPT !.status = op.to] /\ clock' = clock
    BY <1>4 DEF AssignTicketCommit
  <2> HIDE DEF op
  <2>5. ticket \in TicketRows /\ clock \in ClockRows /\ (serial => TicketClock)
    BY TicketOfInv DEF TicketInv
  <2>6. ticket' \in TicketRows /\ ticket'.status = op.to /\ ticket'.flag = ticket.flag
    BY <2>2, <2>4, <2>5 DEF TicketRows
  <2>7. TicketInv'
    BY <1>1, <2>3, <2>4, <2>5, <2>6 DEF TicketInv, TicketClock, Over
  <2> QED
    BY <1>1, <1>2, <2>7, WriteNone
<1>5. CASE PriorityCommit(q)
  <2>1. PICK late \in BOOLEAN : Recomputed(late)
    BY <1>5 DEF PriorityCommit
  <2>2. TicketInv'
    BY <1>1, <2>1, RecomputedClock
  <2> QED
    BY <1>1, <1>2, <2>2, WriteNone
<1> QED
  BY <1>3, <1>4, <1>5

(* The due time passes whoever is at work.                                  *)
LEMMA DueWrites == ASSUME ChainInv, DuePasses PROVE ChainInv'
<1>1. /\ clock' = [clock EXCEPT !.late = TRUE] /\ UNCHANGED <<ticket, chain, ops, serial>>
      /\ ticket \in TicketRows /\ clock \in ClockRows
  BY TicketOfInv DEF DuePasses, TicketInv
<1>2. /\ clock' \in ClockRows /\ clock'.resolved = clock.resolved /\ clock'.paused = clock.paused
      /\ clock'.breached = clock.breached
  BY <1>1 DEF ClockRows
<1>3. ChainTypeOK'
  BY <1>1, <1>2 DEF ChainInv, ChainTyped, ChainTypeOK, ClockRows
<1>4. ChainTyped'
  BY <1>1, <1>3 DEF ChainInv, ChainTyped, PointsTo
<1>5. serial => Clocks'
  BY <1>1, <1>2 DEF ChainInv, Clocks, TicketClock
<1>6. serial => ChainTurns'
  BY <1>1 DEF ChainInv, ChainTurns, StillSo
<1> QED
  BY <1>1, <1>4, <1>5, <1>6 DEF ChainInv

LEMMA ChainStep == ChainInv /\ [ChainNext]_chainVars => ChainInv'
<1> SUFFICES ASSUME ChainInv, [ChainNext]_chainVars PROVE ChainInv'
  OBVIOUS
<1>1. CASE SLASweep
  <2>1. Freed /\ TicketInv' /\ serial' = serial /\ chain' = chain
    BY <1>1, ChainCalm, SweptClock DEF SLASweep
  <2> QED
    BY <2>1, WriteNone
<1>2. ASSUME NEW n \in Steps, WorkBack(n) PROVE ChainInv'
  <2>1. Freed /\ TicketInv' /\ serial' = serial /\ chain[n].kind = "work"
    BY <1>2, ChainCalm, TicketKept DEF WorkBack
  <2>2. chain' = [chain EXCEPT ![n].status = "new"] \/ chain' = [chain EXCEPT ![n].status = "cancelled"]
    BY <1>2 DEF WorkBack
  <2>3. chain[n].kind \in Kinds /\ chain[n].kind # "incident" /\ {"new", "cancelled"} \subseteq StepStatus
    BY <2>1 DEF Kinds, StepStatus, Over
  <2> QED
    BY <2>1, <2>2, <2>3, WriteStatus
<1>3. ASSUME NEW n \in Steps, NEW kind \in Kinds, NEW source \in Steps \cup {Ticket}, Report(n, kind, source)
      PROVE  ChainInv'
  <2>1. Freed /\ TicketInv' /\ serial' = serial
    BY <1>3, ChainCalm, TicketKept DEF Report
  <2>2. chain[n] = NoStep
    <3>1. n >= n
      BY ChainAssumption DEF Steps
    <3> QED
      BY <1>3, <3>1 DEF Report, NextStep
  <2>3. chain[n].kind \notin Kinds
    BY <2>2 DEF NoStep, Kinds
  <2>4. source \in Steps /\ source # n => chain[source].kind \in Kinds
    <3> SUFFICES ASSUME source \in Steps, source # n PROVE chain[source].kind \in Kinds
      OBVIOUS
    <3>1. source # Ticket /\ chain[source].kind \in {"ticket", "work"}
      BY <1>3 DEF Report, KindOf, Steps, Ticket
    <3> QED
      BY <3>1, RowOfInv DEF StepRows, NoStep, Kinds
  <2> DEFINE new == NewStep(n, kind, source, FALSE)
  <2>5. Writes(new, n)
    BY <2>3, <2>4, NewWritten
  <2>6. chain' = [chain EXCEPT ![n] = new]
    BY <1>3 DEF Report
  <2> HIDE DEF new
  <2> QED
    BY <2>1, <2>5, <2>6, WriteOne
<1>4. ASSUME NEW q \in Requests, ChainAbort(q) PROVE ChainInv'
  <2>1. Freed /\ TicketInv' /\ serial' = serial /\ chain' = chain
    BY <1>4, ChainEnds, TicketKept DEF ChainAbort
  <2> QED
    BY <2>1, WriteNone
<1>5. CASE UNCHANGED chainVars
  BY <1>5 DEF chainVars, ChainInv, ChainTyped, ChainTypeOK, PointsTo, Clocks, TicketClock, ChainTurns, StillSo
<1> QED
  BY <1>1, <1>2, <1>3, <1>4, <1>5, DueWrites, ChainReads, FinishWrites, StepWrites, AssignWrites,
     GenerateWrites, TicketWrites DEF ChainNext

LEMMA ChainInvariant == ChainSpec => []ChainInv
<1> QED
  BY ChainInitially, ChainStep, PTL DEF ChainSpec

(* The ticket, its clock and what was generated from it have their types    *)
(* whatever overlaps.                                                       *)
THEOREM ChainsTyped == ChainSpec => []ChainTypeOK
<1>1. ChainInv => ChainTypeOK
  BY DEF ChainInv, ChainTyped
<1> QED
  BY <1>1, ChainInvariant, PTL

(* The clocks of the ticket and of its incidents agree with the statuses    *)
(* they measure while handlers take turns.                                  *)
THEOREM ClocksAgree == ChainSpec => []TicketClocks
<1>1. ChainInv => TicketClocks
  BY DEF ChainInv, Clocks, TicketClock, RowClock, TicketClocks, Over
<1> QED
  BY <1>1, ChainInvariant, PTL

-----------------------------------------------------------------------------
(* What is below an object, and what is settled with it.  Both definitions  *)
(* are recursive; what they say is had without induction, from the least    *)
(* set that is closed under them.                                           *)
LEMMA LeastSet ==
    ASSUME NEW S, NEW C \in SUBSET S, NEW D, \A a \in S : D[a] \subseteq S
    PROVE  \E L \in SUBSET S : \A a \in S : a \in L <=> a \in C /\ D[a] \subseteq L
<1> DEFINE Closed(X) == \A a \in C : D[a] \subseteq X => a \in X
           L == {a \in S : \A X \in SUBSET S : Closed(X) => a \in X}
<1>1. L \in SUBSET S /\ \A X \in SUBSET S : Closed(X) => L \subseteq X
  OBVIOUS
<1>2. ASSUME NEW a \in C, D[a] \subseteq L PROVE a \in L
  <2> SUFFICES ASSUME NEW X \in SUBSET S, Closed(X) PROVE a \in X
    OBVIOUS
  <2> QED
    BY <1>1, <1>2
<1>3. ASSUME NEW a \in L PROVE a \in C /\ D[a] \subseteq L
  <2> SUFFICES ASSUME ~ (a \in C /\ D[a] \subseteq L) PROVE FALSE
    OBVIOUS
  <2>1. Closed(L \ {a})
    <3> SUFFICES ASSUME NEW b \in C, D[b] \subseteq L \ {a} PROVE b \in L \ {a}
      OBVIOUS
    <3>1. b \in L
      BY <1>2
    <3> HIDE DEF L
    <3> QED
      BY <3>1
  <2> HIDE DEF L, Closed
  <2> QED
    BY <1>1, <1>3, <2>1
<1> HIDE DEF L
<1> QED
  BY <1>1, <1>2, <1>3

Sourced(rows) == \A m \in Steps : rows[m].source \in Steps \cup {Ticket}

UnderStep(rows, n, f) ==
    [m \in Steps |-> /\ rows[m].source \notin {m, Ticket}
                     /\ rows[m].source = n \/ f[rows[m].source]]

Under(rows, n) == CHOOSE f : f = UnderStep(rows, n, f)

LEMMA BelowUnder == ASSUME NEW rows, NEW n PROVE Below(rows, n) = {m \in Steps : Under(rows, n)[m]}
BY DEF Below, Under, UnderStep

LEMMA BelowRows ==
    ASSUME NEW rows, NEW n, Sourced(rows)
    PROVE  /\ Below(rows, n) \subseteq Steps
           /\ \A m \in Steps : m \in Below(rows, n) <=>
                /\ rows[m].source \notin {m, Ticket}
                /\ rows[m].source = n \/ rows[m].source \in Below(rows, n)
<1> DEFINE C == {m \in Steps : rows[m].source \notin {m, Ticket}}
           D == [m \in Steps |-> IF rows[m].source \in {n, Ticket} THEN {} ELSE {rows[m].source}]
<1>0. C \in SUBSET Steps /\ D \in [Steps -> SUBSET Steps]
  BY DEF Sourced
<1> HIDE DEF C
<1>1. PICK L \in SUBSET Steps : \A a \in Steps : a \in L <=> a \in C /\ D[a] \subseteq L
  <2> HIDE DEF D
  <2>1. C \in SUBSET Steps /\ \A a \in Steps : D[a] \subseteq Steps
    BY <1>0
  <2> QED
    BY <2>1, LeastSet
<1> DEFINE f == [m \in Steps |-> m \in L]
<1>2. f = UnderStep(rows, n, f)
  <2>1. \A m \in Steps : m \in L <=> /\ rows[m].source \notin {m, Ticket}
                                     /\ rows[m].source = n \/ rows[m].source \in L
    BY <1>1 DEF C, Sourced
  <2>2. \A m \in Steps : rows[m].source \notin {m, Ticket} => (f[rows[m].source] <=> rows[m].source \in L)
    BY DEF Sourced
  <2> DEFINE is(m)  == m \in L
             now(m) == /\ rows[m].source \notin {m, Ticket}
                       /\ rows[m].source = n \/ f[rows[m].source]
  <2>3. \A m \in Steps : is(m) <=> now(m)
    BY <2>1, <2>2
  <2>4. \A m \in Steps : is(m) \in BOOLEAN /\ now(m) \in BOOLEAN
    OBVIOUS
  <2>5. f = [m \in Steps |-> is(m)] /\ UnderStep(rows, n, f) = [m \in Steps |-> now(m)]
    BY Zenon DEF UnderStep
  <2> HIDE DEF is, now, f
  <2>6. \A m \in Steps : is(m) = now(m)
    BY <2>3, <2>4
  <2> QED
    BY <2>5, <2>6
<1> HIDE DEF f
<1>3. Under(rows, n) = UnderStep(rows, n, Under(rows, n))
  BY <1>2 DEF Under
<1> DEFINE U == Under(rows, n)
<1>4. \A m \in Steps : U[m] = /\ rows[m].source \notin {m, Ticket}
                              /\ rows[m].source = n \/ U[rows[m].source]
  <2> HIDE DEF U
  <2>1. U = UnderStep(rows, n, U)
    BY <1>3 DEF U
  <2> QED
    BY <2>1 DEF UnderStep
<1>5. Below(rows, n) = {m \in Steps : U[m]}
  BY BelowUnder
<1> HIDE DEF U
<1> QED
  BY <1>4, <1>5 DEF Sourced

SettledStep(rows, n, f) ==
    [a \in Steps |-> /\ a \in Candidates(rows, n)
                     /\ \A m \in OpenBelow(rows, a) : f[m]]

Settled(rows, n) == CHOOSE f : f = SettledStep(rows, n, f)

LEMMA SettlesSettled ==
    ASSUME NEW rows, NEW n
    PROVE  Settles(rows, n) = {a \in Candidates(rows, n) : Settled(rows, n)[a]}
BY DEF Settles, Settled, SettledStep

(* An object is settled exactly if it may be and what is open below it is.  *)
LEMMA SettlesRows ==
    ASSUME NEW rows, NEW n
    PROVE  /\ Settles(rows, n) \subseteq Candidates(rows, n)
           /\ \A a \in Candidates(rows, n) : a \in Settles(rows, n) <=> OpenBelow(rows, a) \subseteq Settles(rows, n)
<1> DEFINE C == Candidates(rows, n)
           D == [a \in Steps |-> OpenBelow(rows, a)]
<1>0. C \in SUBSET Steps /\ \A a \in Steps : D[a] \subseteq Steps
  BY DEF Candidates, OpenBelow, Below
<1> HIDE DEF C
<1>1. PICK L \in SUBSET Steps : \A a \in Steps : a \in L <=> a \in C /\ D[a] \subseteq L
  <2> HIDE DEF D
  <2> QED
    BY <1>0, LeastSet
<1> DEFINE f == [a \in Steps |-> a \in L]
<1>2. f = SettledStep(rows, n, f)
  <2>1. \A a \in Steps : (\A m \in OpenBelow(rows, a) : f[m]) <=> OpenBelow(rows, a) \subseteq L
    BY <1>0
  <2> DEFINE is(a)  == a \in L
             now(a) == /\ a \in Candidates(rows, n)
                       /\ \A m \in OpenBelow(rows, a) : f[m]
  <2>2. \A a \in Steps : is(a) <=> now(a)
    BY <1>1, <2>1 DEF C
  <2>3. \A a \in Steps : is(a) \in BOOLEAN /\ now(a) \in BOOLEAN
    OBVIOUS
  <2>4. f = [a \in Steps |-> is(a)] /\ SettledStep(rows, n, f) = [a \in Steps |-> now(a)]
    BY Zenon DEF SettledStep
  <2> HIDE DEF is, now, f
  <2>5. \A a \in Steps : is(a) = now(a)
    BY <2>2, <2>3
  <2> QED
    BY <2>4, <2>5
<1> HIDE DEF f
<1>3. Settled(rows, n) = SettledStep(rows, n, Settled(rows, n))
  BY <1>2 DEF Settled
<1> DEFINE U == Settled(rows, n)
<1>4. \A a \in Steps : U[a] = /\ a \in Candidates(rows, n)
                              /\ \A m \in OpenBelow(rows, a) : U[m]
  <2> HIDE DEF U
  <2>1. U = SettledStep(rows, n, U)
    BY <1>3 DEF U
  <2> QED
    BY <2>1 DEF SettledStep
<1>5. Settles(rows, n) = {a \in Candidates(rows, n) : U[a]}
  BY SettlesSettled
<1> HIDE DEF U
<1>6. \A a \in Steps : a \in Settles(rows, n) <=> U[a]
  BY <1>4, <1>5
<1> QED
  BY <1>0, <1>4, <1>5, <1>6 DEF C


(* What was generated from another object came after it and is of the       *)
(* ticket exactly if that one is.                                           *)
Tree(rows) ==
    \A m \in Steps : rows[m].source \in Steps \ {m} =>
        rows[m].source < m /\ (rows[m].origin <=> rows[rows[m].source].origin)

LEMMA FirstOf == ASSUME NEW S \in SUBSET Steps, S # {} PROVE \E n \in S : \A m \in S : n <= m
<1>1. MaxSteps \in Nat
  BY ChainAssumption
<1> DEFINE T == {MaxSteps - m : m \in S}
<1>2. IsFiniteSet(S)
  <2>1. IsFiniteSet(Steps)
    BY <1>1, FS_Interval DEF Steps
  <2> QED
    BY <2>1, FS_Subset
<1>3. IsFiniteSet(T)
  <2> DEFINE f == [m \in S |-> MaxSteps - m]
  <2>1. f \in Surjection(S, T)
    BY DEF Surjection
  <2> HIDE DEF f, T
  <2> QED
    BY <1>2, <2>1, FS_Surjection
<1>4. T \in SUBSET Nat /\ T # {}
  BY <1>1 DEF Steps
<1>5. PICK t \in T : \A u \in T : u <= t
  <2> HIDE DEF T
  <2> QED
    BY <1>3, <1>4, FiniteMax
<1>6. PICK n \in S : t = MaxSteps - n
  BY <1>5
<1>7. ASSUME NEW m \in S PROVE n <= m
  <2>1. MaxSteps - m <= MaxSteps - n
    BY <1>5, <1>6
  <2> QED
    BY <1>1, <2>1 DEF Steps
<1> QED
  BY <1>7

(* What is below an object depends on the sources alone.                    *)
LEMMA SameBelow ==
    ASSUME NEW rows, NEW now, NEW n, Sourced(rows), Tree(rows), \A m \in Steps : now[m].source = rows[m].source
    PROVE  Below(now, n) = Below(rows, n)
<1> DEFINE A == Below(rows, n)
           B == Below(now, n)
           Bad == {m \in Steps : ~(m \in A <=> m \in B)}
<1>1. /\ A \subseteq Steps
      /\ \A m \in Steps : m \in A <=> /\ rows[m].source \notin {m, Ticket}
                                      /\ rows[m].source = n \/ rows[m].source \in A
  BY BelowRows
<1>2. /\ B \subseteq Steps
      /\ \A m \in Steps : m \in B <=> /\ now[m].source \notin {m, Ticket}
                                      /\ now[m].source = n \/ now[m].source \in B
  <2>1. Sourced(now)
    BY DEF Sourced
  <2> QED
    BY <2>1, BelowRows
<1> HIDE DEF A, B
<1>3. Bad = {}
  <2> SUFFICES ASSUME Bad # {} PROVE FALSE
    OBVIOUS
  <2>1. PICK m \in Bad : \A o \in Bad : m <= o
    BY FirstOf
  <2>2. m \in Steps /\ ~(m \in A <=> m \in B)
    BY <2>1
  <2>3. rows[m].source \in Steps \ {m}
    BY <1>1, <1>2, <2>2 DEF Sourced
  <2>4. rows[m].source < m /\ rows[m].source \in Nat /\ m \in Nat
    BY <2>2, <2>3 DEF Tree, Steps
  <2>5. rows[m].source \notin Bad
    BY <2>1, <2>4
  <2> QED
    BY <1>1, <1>2, <2>2, <2>3, <2>5
<1> QED
  BY <1>1, <1>2, <1>3 DEF A, B

LEMMA OriginBelow ==
    ASSUME NEW rows, Sourced(rows), Tree(rows), NEW a \in Steps, rows[a].origin
    PROVE  \A m \in Below(rows, a) : rows[m].origin
<1> DEFINE A == Below(rows, a)
           Bad == {m \in A : ~rows[m].origin}
<1>1. /\ A \subseteq Steps
      /\ \A m \in Steps : m \in A <=> /\ rows[m].source \notin {m, Ticket}
                                      /\ rows[m].source = a \/ rows[m].source \in A
  BY BelowRows
<1> HIDE DEF A
<1> SUFFICES ASSUME Bad # {} PROVE FALSE
  BY DEF A
<1>2. PICK m \in Bad : \A o \in Bad : m <= o
  BY <1>1, FirstOf
<1>3. m \in Steps /\ rows[m].source \in Steps \ {m} /\ (rows[m].source = a \/ rows[m].source \in A)
  BY <1>1, <1>2 DEF Sourced
<1>4. rows[m].source < m /\ rows[m].source \in Nat /\ m \in Nat /\ ~rows[rows[m].source].origin
  BY <1>2, <1>3 DEF Tree, Steps
<1> QED
  BY <1>2, <1>3, <1>4

LinksKept == \A m \in Steps : chain'[m].source = chain[m].source /\ chain'[m].origin = chain[m].origin

LEMMA LinksTree == ASSUME Tree(chain), LinksKept PROVE Tree(chain)'
<1> SUFFICES ASSUME NEW m \in Steps, chain'[m].source \in Steps \ {m}
             PROVE  chain'[m].source < m /\ (chain'[m].origin <=> chain'[chain'[m].source].origin)
  BY DEF Tree
<1> QED
  BY DEF Tree, LinksKept

LEMMA StatusLinks ==
    ASSUME ChainInv, NEW n \in Steps, NEW status, chain' = [chain EXCEPT ![n].status = status]
    PROVE  LinksKept
<1>1. chain \in [Steps -> StepRows]
  BY DEF ChainInv, ChainTyped, ChainTypeOK
<1>2. chain[n] \in StepRows
  BY <1>1
<1>3. \A m \in Steps : chain'[m] = IF m = n THEN [chain[n] EXCEPT !.status = status] ELSE chain[m]
  BY <1>1
<1>4. LET row == [chain[n] EXCEPT !.status = status]
      IN row.source = chain[n].source /\ row.origin = chain[n].origin
  BY <1>2 DEF StepRows, NoStep
<1> QED
  BY <1>3, <1>4 DEF LinksKept

LEMMA SteppedLinks ==
    ASSUME NEW row \in StepRows, NEW action
    PROVE  Stepped(row, action).source = row.source /\ Stepped(row, action).origin = row.origin
BY DEF Stepped, StepRows, NoStep

LEMMA ResolvedLinks ==
    ASSUME NEW row \in StepRows, NEW status
    PROVE  LET now  == [row EXCEPT !.status = status]
               over == [now EXCEPT !.status = "resolved", !.clock_resolved = TRUE]
           IN /\ now.source = row.source /\ now.origin = row.origin
              /\ over.source = row.source /\ over.origin = row.origin
              /\ now.kind = row.kind /\ now.follow_up = row.follow_up /\ now.status = status
              /\ over.kind = row.kind /\ over.status = "resolved"
BY DEF StepRows, NoStep

(* A new object comes after the one that it was generated from.             *)
LEMMA NewTree ==
    ASSUME ChainInv, Tree(chain), NEW n \in Steps, NextStep(n), NEW kind, NEW source \in Steps \cup {Ticket},
           NEW follow_up, source \in Steps \ {n} => chain[source].kind \in Kinds,
           \A m \in Steps \ {n} : chain'[m].source = chain[m].source /\ chain'[m].origin = chain[m].origin,
           chain'[n].source = NewStep(n, kind, source, follow_up).source,
           chain'[n].origin = NewStep(n, kind, source, follow_up).origin
    PROVE  Tree(chain)'
<1>1. /\ chain'[n].source = source
      /\ chain'[n].origin = IF source = Ticket THEN TRUE ELSE source # n /\ chain[source].origin
  BY DEF NewStep, NoStep
<1>2. \A m \in Steps : chain[m] = NoStep <=> m >= n
  BY DEF NextStep
<1>3. Steps \subseteq Nat \ {Ticket}
  BY DEF Steps, Ticket
<1>4. \A m \in Steps : chain[m].kind \in Kinds => m < n
  <2>1. \A m \in Steps : chain[m].kind \in Kinds => chain[m] # NoStep
    BY DEF NoStep, Kinds
  <2> QED
    BY <1>2, <1>3, <2>1
<1> SUFFICES ASSUME NEW m \in Steps, chain'[m].source \in Steps \ {m}
             PROVE  chain'[m].source < m /\ (chain'[m].origin <=> chain'[chain'[m].source].origin)
  BY DEF Tree
<1>5. CASE m = n
  <2>1. source \in Steps \ {n} /\ source # Ticket
    BY <1>1, <1>3, <1>5
  <2>2. source < n
    BY <1>4, <2>1
  <2>3. chain'[n].origin <=> chain[source].origin
    BY <1>1, <2>1
  <2> QED
    BY <1>1, <1>5, <2>1, <2>2, <2>3
<1>6. CASE m # n
  <2>1. /\ chain'[m].source = chain[m].source /\ chain'[m].origin = chain[m].origin
        /\ chain[m].source \in Steps \ {m}
    BY <1>6
  <2>2. chain[m] # NoStep
    <3>1. NoStep.source = Ticket /\ Ticket \notin Steps
      BY <1>3 DEF NoStep
    <3> QED
      BY <2>1, <3>1
  <2>3. chain[m].source < m /\ m < n /\ (chain[m].origin <=> chain[chain[m].source].origin)
    BY <1>2, <1>3, <2>1, <2>2 DEF Tree
  <2>4. chain[m].source \in Steps \ {n}
    BY <1>3, <2>1, <2>3
  <2> QED
    BY <2>1, <2>3, <2>4
<1> QED
  BY <1>5, <1>6

(* What a handler that finishes work, or takes a step of a finding or an    *)
(* incident, found to settle is what it finds when it writes.               *)
SawSo(op) ==
    /\ op.kind = "finish" =>
         /\ op.to = IF chain[op.step].status = "new" THEN "completed" ELSE "closed"
         /\ chain[op.step].status \in {"new", "completed"}
         /\ op.verdict = Verdict([chain EXCEPT ![op.step].status = op.to], op.step)
    /\ op.kind = "step" =>
         op.ticket = /\ op.action \in {"resolve", "close"}
                     /\ SettlesTicket([chain EXCEPT ![op.step] = Stepped(@, op.action)], op.step)

ChainSaw == serial => \A q \in Requests : SawSo(ops[q])

ChainTreeInv == ChainInv /\ Tree(chain) /\ ChainSaw

LEMMA QuietSaw == SawSo(NoOp)
BY DEF SawSo, NoOp

(* Who writes is the only one at work: nobody is left with what was read.   *)
LEMMA FreedSaw == ASSUME Freed, serial' = serial PROVE ChainSaw'
<1> SUFFICES ASSUME serial PROVE \A q \in Requests : SawSo(ops[q])'
  BY DEF ChainSaw
<1>1. \A q \in Requests : ops'[q].kind \notin {"finish", "step"}
  BY DEF Freed, NoOp
<1> QED
  BY <1>1 DEF SawSo

LEMMA BeginSaw ==
    ASSUME ChainInv, ChainSaw, NEW q \in Requests, NEW op, Begin(q, op), SawSo(op),
           UNCHANGED <<ticket, chain, serial>>
    PROVE  ChainSaw'
<1>1. /\ ops \in [Requests -> ChainOps] /\ ops' = [ops EXCEPT ![q] = op]
  BY DEF ChainInv, ChainTyped, Begin, Start
<1>2. \A p \in Requests : ops'[p] = op \/ ops'[p] = ops[p]
  BY <1>1
<1> SUFFICES ASSUME serial, NEW p \in Requests PROVE SawSo(ops[p])'
  BY DEF ChainSaw
<1>3. SawSo(ops'[p])
  BY <1>2 DEF ChainSaw
<1> HIDE DEF ChainSaw
<1> QED
  BY <1>3 DEF SawSo, Verdict, SettlesTicket

LEMMA ReadsSaw ==
    ASSUME ChainTreeInv, NEW q \in Requests
    PROVE  /\ \A n \in Steps : FinishRead(q, n) \/ AssignIncidentRead(q, n) => ChainSaw'
           /\ \A n \in Steps, action \in DOMAIN StepRule : StepRead(q, n, action) => ChainSaw'
           /\ \A source \in Steps \cup {Ticket}, kind \in Kinds : GenerateStepRead(q, source, kind) => ChainSaw'
           /\ \A action \in DOMAIN TicketRule : TicketRead(q, action) => ChainSaw'
           /\ AssignTicketRead(q) \/ PriorityRead(q) => ChainSaw'
<1>0. ChainInv /\ ChainSaw
  BY DEF ChainTreeInv
<1>1. ASSUME NEW n \in Steps, FinishRead(q, n) PROVE ChainSaw'
  <2> DEFINE to == IF chain[n].status = "new" THEN "completed" ELSE "closed"
             op == [kind |-> "finish", step |-> n, to |-> to,
                    verdict |-> Verdict([chain EXCEPT ![n].status = to], n)]
  <2>1. Begin(q, op) /\ UNCHANGED <<ticket, clock, chain, serial>> /\ chain[n].status \in {"new", "completed"}
    BY <1>1 DEF FinishRead
  <2>2. /\ op.kind = "finish" /\ op.to = to /\ op.step = n
        /\ op.verdict = Verdict([chain EXCEPT ![n].status = to], n)
    OBVIOUS
  <2> HIDE DEF op
  <2>3. SawSo(op)
    BY <2>1, <2>2 DEF SawSo
  <2> QED
    BY <1>0, <2>1, <2>3, BeginSaw
<1>2. ASSUME NEW n \in Steps, NEW action \in DOMAIN StepRule, StepRead(q, n, action) PROVE ChainSaw'
  <2> DEFINE done == /\ action \in {"resolve", "close"}
                     /\ SettlesTicket([chain EXCEPT ![n] = Stepped(@, action)], n)
             op == [kind |-> "step", step |-> n, action |-> action, ticket |-> done]
  <2>1. Begin(q, op) /\ UNCHANGED <<ticket, clock, chain, serial>>
    BY <1>2 DEF StepRead
  <2>2. op.kind = "step" /\ op.step = n /\ op.action = action /\ op.ticket = done
    BY Zenon
  <2> HIDE DEF op
  <2>3. SawSo(op)
    BY <2>2, Zenon DEF SawSo
  <2> QED
    BY <1>0, <2>1, <2>3, BeginSaw
<1>3. ASSUME NEW op, op.kind \notin {"finish", "step"}, Begin(q, op), UNCHANGED <<ticket, clock, chain, serial>>
      PROVE  ChainSaw'
  <2>1. SawSo(op)
    BY <1>3 DEF SawSo
  <2> QED
    BY <1>0, <1>3, <2>1, BeginSaw
<1>4. \A n \in Steps : AssignIncidentRead(q, n) => ChainSaw'
  BY <1>3 DEF AssignIncidentRead
<1>5. ASSUME NEW source \in Steps \cup {Ticket}, NEW kind \in Kinds, GenerateStepRead(q, source, kind)
      PROVE  ChainSaw'
  BY <1>3, <1>5 DEF GenerateStepRead
<1>6. \A action \in DOMAIN TicketRule : TicketRead(q, action) => ChainSaw'
  BY <1>3 DEF TicketRead
<1>7. AssignTicketRead(q) => ChainSaw'
  BY <1>3 DEF AssignTicketRead
<1>8. PriorityRead(q) => ChainSaw'
  BY <1>3 DEF PriorityRead
<1> QED
  BY <1>1, <1>2, <1>4, <1>5, <1>6, <1>7, <1>8

(* What FinishCommit leaves of the rows.                                    *)
LEMMA FinishRows ==
    ASSUME ChainInv, NEW q \in Requests, FinishCommit(q)
    PROVE  LET op == ops[q]
               x  == [chain EXCEPT ![op.step].status = op.to]
           IN /\ op.step \in Steps /\ chain[op.step].kind = "work" /\ op.to \in {"completed", "closed"}
              /\ op.verdict.settles \subseteq Steps /\ op.verdict.ticket \in BOOLEAN
              /\ chain' = ResolveAll(x, op.verdict.settles)
              /\ \A m \in Steps :
                   /\ x[m].source = chain[m].source /\ x[m].origin = chain[m].origin
                   /\ x[m].kind = chain[m].kind /\ x[m].follow_up = chain[m].follow_up
                   /\ x[m].status = IF m = op.step THEN op.to ELSE chain[m].status
                   /\ chain'[m].source = chain[m].source /\ chain'[m].origin = chain[m].origin
                   /\ chain'[m].status = IF m \in op.verdict.settles THEN "resolved" ELSE x[m].status
<1> DEFINE op == ops[q]
           x  == [chain EXCEPT ![op.step].status = op.to]
<1>1. op \in FinishOp /\ PointsTo(op) /\ op.kind = "finish"
  BY ChainOpOfKind DEF FinishCommit, ChainInv, ChainTyped
<1>2. /\ op.step \in Steps /\ chain[op.step].kind = "work" /\ op.to \in {"completed", "closed"}
      /\ op.verdict.settles \subseteq Steps /\ op.verdict.ticket \in BOOLEAN
  BY <1>1 DEF FinishOp, PointsTo
<1>3. chain' = ResolveAll(x, op.verdict.settles)
  BY DEF FinishCommit
<1>4. chain \in [Steps -> StepRows]
  BY DEF ChainInv, ChainTyped, ChainTypeOK
<1> HIDE DEF op
<1>5. \A m \in Steps : x[m] = IF m = op.step THEN [chain[m] EXCEPT !.status = op.to] ELSE chain[m]
  BY <1>4
<1>6. \A m \in Steps : chain'[m] = IF m \in op.verdict.settles
                                   THEN [x[m] EXCEPT !.status = "resolved", !.clock_resolved = TRUE] ELSE x[m]
  BY <1>3 DEF ResolveAll
<1> HIDE DEF x
<1>7. ASSUME NEW m \in Steps
      PROVE  /\ x[m] \in StepRows
             /\ x[m].source = chain[m].source /\ x[m].origin = chain[m].origin
             /\ x[m].kind = chain[m].kind /\ x[m].follow_up = chain[m].follow_up
             /\ x[m].status = IF m = op.step THEN op.to ELSE chain[m].status
  <2>1. chain[m] \in StepRows
    BY <1>4
  <2>2. CASE m = op.step
    <3>1. chain[m] \in WrittenRows
      BY <1>2, <2>1, <2>2, StepRowKinds DEF Kinds
    <3>2. op.to \in StepStatus
      BY <1>2 DEF StepStatus, Over
    <3>3. x[m] = [chain[m] EXCEPT !.status = op.to]
      BY <1>5, <2>2
    <3>4. x[m] \in StepRows
      BY <3>1, <3>2, <3>3, StatusWritten, WrittenTyped
    <3> QED
      BY <2>1, <2>2, <3>3, <3>4, ResolvedLinks
  <2>3. CASE m # op.step
    BY <1>5, <2>1, <2>3
  <2> QED
    BY <2>2, <2>3
<1>8. ASSUME NEW m \in Steps
      PROVE  /\ chain'[m].source = x[m].source /\ chain'[m].origin = x[m].origin
             /\ chain'[m].status = IF m \in op.verdict.settles THEN "resolved" ELSE x[m].status
  <2>1. LET now == [x[m] EXCEPT !.status = "resolved", !.clock_resolved = TRUE]
        IN now.source = x[m].source /\ now.origin = x[m].origin /\ now.status = "resolved"
    BY <1>7 DEF StepRows, NoStep
  <2> QED
    BY <1>6, <2>1
<1>9. \A m \in Steps :
        /\ x[m].source = chain[m].source /\ x[m].origin = chain[m].origin
        /\ x[m].kind = chain[m].kind /\ x[m].follow_up = chain[m].follow_up
        /\ x[m].status = IF m = op.step THEN op.to ELSE chain[m].status
        /\ chain'[m].source = chain[m].source /\ chain'[m].origin = chain[m].origin
        /\ chain'[m].status = IF m \in op.verdict.settles THEN "resolved" ELSE x[m].status
  BY <1>7, <1>8
<1> QED
  BY <1>2, <1>3, <1>9 DEF op, x

LEMMA StepLinks == ASSUME ChainInv, NEW q \in Requests, StepCommit(q) PROVE LinksKept
<1> DEFINE op == ops[q]
<1>1. op.step \in Steps
  BY ChainOpOfKind DEF StepCommit, ChainInv, StepOp
<1>2. chain \in [Steps -> StepRows] /\ chain' = [chain EXCEPT ![op.step] = Stepped(@, op.action)]
  BY DEF StepCommit, ChainInv, ChainTyped, ChainTypeOK
<1> HIDE DEF op
<1>3. \A m \in Steps : chain'[m] = IF m = op.step THEN Stepped(chain[m], op.action) ELSE chain[m]
  BY <1>1, <1>2
<1>4. \A m \in Steps : chain[m] \in StepRows
  BY <1>2
<1>5. \A m \in Steps : /\ Stepped(chain[m], op.action).source = chain[m].source
                       /\ Stepped(chain[m], op.action).origin = chain[m].origin
  BY <1>4, SteppedLinks
<1> QED
  BY <1>3, <1>5 DEF LinksKept

LEMMA GenerateTree == ASSUME ChainInv, Tree(chain), NEW q \in Requests, GenerateStepCommit(q) PROVE Tree(chain)'
<1> DEFINE op == ops[q]
           source == op.source
           starts == op.starts
<1>1. op \in FollowOp /\ PointsTo(op) /\ op.kind = "generate"
  BY ChainOpOfKind DEF GenerateStepCommit, ChainInv, ChainTyped
<1>2. /\ source \in Steps \cup {Ticket}
      /\ source # Ticket => source \in Steps /\ chain[source].kind \in Kinds
  BY <1>1 DEF FollowOp, PointsTo
<1>3. PICK n \in Steps :
        /\ NextStep(n)
        /\ LET rows == [chain EXCEPT ![n] = NewStep(n, op.step, op.source, KindOf(op.source) = "work")]
           IN chain' = IF op.starts /\ op.source # Ticket
                       THEN [rows EXCEPT ![op.source].status = "in_progress"] ELSE rows
  BY DEF GenerateStepCommit
<1> DEFINE new == NewStep(n, op.step, source, KindOf(source) = "work")
           rows == [chain EXCEPT ![n] = new]
<1>4. chain' = IF starts /\ source # Ticket THEN [rows EXCEPT ![source].status = "in_progress"] ELSE rows
  BY <1>3
<1>5. chain \in [Steps -> StepRows] /\ chain[n] = NoStep
  <2>1. n >= n
    BY ChainAssumption DEF Steps
  <2> QED
    BY <1>3, <2>1 DEF NextStep, ChainInv, ChainTyped, ChainTypeOK
<1>6. source # Ticket => source \in Steps \ {n} /\ chain[source] \in StepRows
  BY <1>2, <1>5 DEF NoStep, Kinds
<1>7. \A m \in Steps : rows[m] = IF m = n THEN new ELSE chain[m]
  BY <1>5
<1>8. ASSUME NEW m \in Steps PROVE chain'[m].source = rows[m].source /\ chain'[m].origin = rows[m].origin
  <2>1. CASE starts /\ source # Ticket /\ m = source
    <3> HIDE DEF new, source, starts
    <3>1. rows[m] \in StepRows
      BY <1>6, <1>7, <2>1
    <3>2. chain'[m] = [rows[m] EXCEPT !.status = "in_progress"]
      BY <1>4, <1>5, <2>1
    <3> HIDE DEF rows
    <3> QED
      BY <3>1, <3>2 DEF StepRows, NoStep
  <2>2. CASE ~(starts /\ source # Ticket /\ m = source)
    <3> HIDE DEF new, source, starts
    <3>1. chain'[m] = rows[m]
      BY <1>4, <1>5, <2>2
    <3> QED
      BY <3>1
  <2> QED
    BY <2>1, <2>2
<1> DEFINE follow_up == KindOf(source) = "work"
           kind == op.step
<1>9. new = NewStep(n, kind, source, follow_up)
  OBVIOUS
<1>10. source \in Steps \ {n} => chain[source].kind \in Kinds
  BY <1>2 DEF Steps, Ticket
<1>11. /\ \A m \in Steps \ {n} : chain'[m].source = chain[m].source /\ chain'[m].origin = chain[m].origin
       /\ chain'[n].source = new.source /\ chain'[n].origin = new.origin
  <2> HIDE DEF new, rows
  <2> QED
    BY <1>7, <1>8
<1> HIDE DEF new, follow_up, source, kind, op
<1>12. /\ chain'[n].source = NewStep(n, kind, source, follow_up).source
       /\ chain'[n].origin = NewStep(n, kind, source, follow_up).origin
       /\ NextStep(n) /\ source \in Steps \cup {Ticket}
  BY <1>2, <1>3, <1>9, <1>11
<1> QED
  BY <1>10, <1>11, <1>12, NewTree

LEMMA ChainFrees ==
    ASSUME ChainInv, NEW q \in Requests,
           \/ FinishCommit(q) \/ StepCommit(q) \/ AssignIncidentCommit(q) \/ GenerateStepCommit(q)
           \/ TicketCommit(q) \/ AssignTicketCommit(q) \/ PriorityCommit(q) \/ ChainAbort(q)
    PROVE  Freed /\ serial' = serial
<1>1. ops[q] # NoOp
  BY ChainOpOfKind DEF FinishCommit, StepCommit, AssignIncidentCommit, GenerateStepCommit, TicketCommit,
     AssignTicketCommit, PriorityCommit, ChainAbort, ChainInv
<1>2. End(q) /\ serial' = serial
  BY DEF FinishCommit, StepCommit, AssignIncidentCommit, GenerateStepCommit, TicketCommit,
     AssignTicketCommit, PriorityCommit, ChainAbort
<1> QED
  BY <1>1, <1>2, ChainEnds

LEMMA TreeStep == ASSUME ChainTreeInv, [ChainNext]_chainVars PROVE ChainTreeInv'
<1>0. ChainInv /\ Tree(chain) /\ ChainSaw
  BY DEF ChainTreeInv
<1>1. ChainInv'
  BY <1>0, ChainStep
<1>2. ASSUME chain' = chain PROVE Tree(chain)'
  BY <1>0, <1>2, LinksTree DEF LinksKept
<1>3. ASSUME UNCHANGED <<ticket, chain, ops, serial>> PROVE ChainSaw'
  BY <1>0, <1>3 DEF ChainSaw, SawSo, Verdict, SettlesTicket
<1>4. ASSUME Freed, serial' = serial PROVE ChainSaw'
  BY <1>4, FreedSaw
<1> SUFFICES Tree(chain)' /\ ChainSaw'
  BY <1>1 DEF ChainTreeInv
<1>5. CASE DuePasses
  BY <1>2, <1>3, <1>5 DEF DuePasses
<1>6. CASE SLASweep
  BY <1>0, <1>2, <1>4, <1>6, ChainCalm DEF SLASweep
<1>7. ASSUME NEW n \in Steps, WorkBack(n) PROVE Tree(chain)' /\ ChainSaw'
  <2>1. Freed /\ serial' = serial
    BY <1>0, <1>7, ChainCalm DEF WorkBack
  <2>2. \E status \in {"new", "cancelled"} : chain' = [chain EXCEPT ![n].status = status]
    BY <1>7 DEF WorkBack
  <2>3. LinksKept
    BY <1>0, <2>2, StatusLinks
  <2> QED
    BY <1>0, <1>4, <2>1, <2>3, LinksTree
<1>8. ASSUME NEW n \in Steps, NEW kind \in Kinds, NEW source \in Steps \cup {Ticket}, Report(n, kind, source)
      PROVE  Tree(chain)' /\ ChainSaw'
  <2>1. Freed /\ serial' = serial
    BY <1>0, <1>8, ChainCalm DEF Report
  <2> DEFINE new == NewStep(n, kind, source, FALSE)
  <2>2. NextStep(n) /\ chain' = [chain EXCEPT ![n] = new] /\ (source # n => KindOf(source) \in {"ticket", "work"})
    BY <1>8 DEF Report
  <2>3. source \in Steps \ {n} => chain[source].kind \in Kinds
    <3> SUFFICES ASSUME source \in Steps, source # n PROVE chain[source].kind \in Kinds
      OBVIOUS
    <3>1. chain[source].kind \in {"ticket", "work"}
      BY <2>2 DEF KindOf, Steps, Ticket
    <3> QED
      BY <1>0, <3>1, RowOfInv DEF StepRows, NoStep, Kinds
  <2>4. chain \in [Steps -> StepRows]
    BY <1>0 DEF ChainInv, ChainTyped, ChainTypeOK
  <2>5. chain'[n] = new /\ \A m \in Steps \ {n} : chain'[m] = chain[m]
    <3> HIDE DEF new
    <3> QED
      BY <2>2, <2>4
  <2>6. Tree(chain)'
    <3> DEFINE follow_up == FALSE
    <3>1. /\ chain'[n].source = NewStep(n, kind, source, follow_up).source
          /\ chain'[n].origin = NewStep(n, kind, source, follow_up).origin
          /\ \A m \in Steps \ {n} : chain'[m].source = chain[m].source /\ chain'[m].origin = chain[m].origin
      BY <2>5
    <3>2. ChainInv /\ Tree(chain) /\ NextStep(n)
      BY <1>0, <2>2
    <3> HIDE DEF new, follow_up
    <3> QED
      BY <2>3, <3>1, <3>2, NewTree
  <2> QED
    BY <1>4, <2>1, <2>6
<1>9. ASSUME NEW q \in Requests,
             \/ FinishCommit(q) \/ StepCommit(q) \/ AssignIncidentCommit(q) \/ GenerateStepCommit(q)
             \/ TicketCommit(q) \/ AssignTicketCommit(q) \/ PriorityCommit(q) \/ ChainAbort(q)
      PROVE  Tree(chain)' /\ ChainSaw'
  <2>1. ChainSaw'
    BY <1>0, <1>4, <1>9, ChainFrees
  <2>2. CASE FinishCommit(q)
    <3>1. LinksKept
      BY <1>0, <2>2, FinishRows DEF LinksKept
    <3> QED
      BY <1>0, <2>1, <3>1, LinksTree
  <2>3. CASE StepCommit(q)
    BY <1>0, <2>1, <2>3, StepLinks, LinksTree
  <2>4. CASE AssignIncidentCommit(q)
    <3>1. ops[q].step \in Steps
      BY <1>0, <2>4, ChainOpOfKind DEF AssignIncidentCommit, ChainInv, AssignOp
    <3>2. chain' = [chain EXCEPT ![ops[q].step].status = ops[q].status]
      BY <2>4 DEF AssignIncidentCommit
    <3> QED
      BY <1>0, <2>1, <3>1, <3>2, StatusLinks, LinksTree
  <2>5. CASE GenerateStepCommit(q)
    BY <1>0, <2>1, <2>5, GenerateTree
  <2>6. CASE TicketCommit(q) \/ AssignTicketCommit(q) \/ PriorityCommit(q) \/ ChainAbort(q)
    BY <1>2, <2>1, <2>6 DEF TicketCommit, AssignTicketCommit, PriorityCommit, ChainAbort
  <2> QED
    BY <1>9, <2>2, <2>3, <2>4, <2>5, <2>6
<1>10. ASSUME NEW q \in Requests,
              \/ \E n \in Steps : \/ FinishRead(q, n) \/ AssignIncidentRead(q, n)
                                  \/ \E action \in DOMAIN StepRule : StepRead(q, n, action)
              \/ \E source \in Steps \cup {Ticket}, kind \in Kinds : GenerateStepRead(q, source, kind)
              \/ \E action \in DOMAIN TicketRule : TicketRead(q, action)
              \/ AssignTicketRead(q) \/ PriorityRead(q)
       PROVE  Tree(chain)' /\ ChainSaw'
  <2>1. chain' = chain
    BY <1>10 DEF FinishRead, AssignIncidentRead, StepRead, GenerateStepRead, TicketRead, AssignTicketRead, PriorityRead
  <2> QED
    BY <1>2, <1>10, <2>1, ReadsSaw
<1>11. CASE UNCHANGED chainVars
  BY <1>2, <1>3, <1>11 DEF chainVars
<1> QED
  BY <1>5, <1>6, <1>7, <1>8, <1>9, <1>10, <1>11 DEF ChainNext

TicketLast ==
    /\ ChainOpen(chain) # {} /\ ChainOpen(chain') = {}
    /\ \E n \in ChainOpen(chain) : chain'[n].status # "cancelled"
    => ticket'.status \in Over

AboveSettled ==
    \A n \in Steps : chain[n].follow_up /\ Pending(chain[n]) /\ chain'[n].status = "completed"
      => \A a \in Steps : n \in Below(chain, a) /\ chain[a].kind # "work" /\ OpenBelow(chain', a) = {}
                            => ~Pending(chain'[a])

(* What is pending stays so or is cancelled: nothing is finished.           *)
Unfinished ==
    \A n \in Steps : Pending(chain[n]) =>
        /\ chain'[n].origin = chain[n].origin
        /\ Pending(chain'[n]) \/ chain'[n].status = "cancelled"

LEMMA UnfinishedSettles == ASSUME Unfinished PROVE TicketLast /\ AboveSettled
<1>1. TicketLast
  BY DEF Unfinished, TicketLast, ChainOpen
<1>2. AboveSettled
  BY DEF Unfinished, AboveSettled, Pending
<1> QED
  BY <1>1, <1>2

(* Findings and incidents that handlers resolve, and the ticket with them.  *)
LEMMA StepSettles ==
    ASSUME ChainTreeInv, serial, NEW q \in Requests, StepCommit(q)
    PROVE  TicketLast /\ AboveSettled
<1> DEFINE op == ops[q]
<1>0. ChainInv /\ ChainSaw
  BY DEF ChainTreeInv
<1>1. op \in StepOp /\ op.kind = "step" /\ op # NoOp /\ LinksKept
  BY <1>0, ChainOpOfKind, StepLinks DEF StepCommit, ChainInv
<1>2. op.step \in Steps /\ op.action \in StepActions /\ chain[op.step].status \in StepRule[op.action].from
  BY <1>0, <1>1 DEF StepOp, ChainInv, ChainTurns, StillSo
<1>3. /\ chain' = [chain EXCEPT ![op.step] = Stepped(@, op.action)]
      /\ IF op.ticket THEN TicketResolved ELSE UNCHANGED <<ticket, clock>>
  BY DEF StepCommit
<1>4. op.ticket = /\ op.action \in {"resolve", "close"}
                  /\ SettlesTicket(chain', op.step)
  BY <1>0, <1>1, <1>3 DEF ChainSaw, SawSo
<1>5. /\ chain \in [Steps -> StepRows] /\ chain[op.step] \in StepRows /\ ticket \in TicketRows
  BY <1>0, <1>2, TicketOfInv DEF ChainInv, ChainTyped, ChainTypeOK, TicketInv
<1> HIDE DEF op
<1>6. \A m \in Steps : chain'[m] = IF m = op.step THEN Stepped(chain[m], op.action) ELSE chain[m]
  BY <1>2, <1>3, <1>5
<1>7. chain'[op.step].status = StepRule[op.action].to
  <2>1. Stepped(chain[op.step], op.action).status = StepRule[op.action].to
    BY <1>5 DEF Stepped, StepRows, NoStep
  <2> QED
    BY <1>2, <1>6, <2>1
<1>8. CASE op.action # "resolve"
  <2>1. /\ op.action \in {"close", "reopen"} => StepRule[op.action].from \subseteq {"resolved", "closed"}
        /\ op.action = "start" => StepRule[op.action].to = "in_progress"
        /\ op.action = "cancel" => StepRule[op.action].to = "cancelled"
    BY DEF StepRule
  <2>2. ASSUME NEW n \in Steps, Pending(chain[n])
        PROVE  Pending(chain'[n]) \/ chain'[n].status = "cancelled"
    <3>1. CASE n = op.step
      <4>1. op.action \in {"start", "cancel"}
        BY <1>2, <1>8, <2>1, <2>2, <3>1 DEF StepActions, Pending
      <4> QED
        BY <1>7, <2>1, <3>1, <4>1 DEF Pending
    <3>2. CASE n # op.step
      BY <1>6, <2>2, <3>2
    <3> QED
      BY <3>1, <3>2
  <2>3. Unfinished
    BY <1>1, <2>2 DEF Unfinished, LinksKept
  <2> QED
    BY <2>3, UnfinishedSettles
<1>9. CASE op.action = "resolve"
  <2>1. chain'[op.step].status = "resolved"
    BY <1>7, <1>9 DEF StepRule
  <2>2. AboveSettled
    BY <1>6, <2>1 DEF AboveSettled, Pending
  <2>3. TicketLast
    <3> SUFFICES ASSUME ChainOpen(chain) # {}, ChainOpen(chain') = {} PROVE ticket'.status \in Over
      BY DEF TicketLast
    <3>1. PICK m \in Steps : chain[m].origin /\ Pending(chain[m])
      BY DEF ChainOpen
    <3>2. chain'[m].origin /\ m \notin ChainOpen(chain')
      BY <1>1, <3>1 DEF LinksKept
    <3>3. m = op.step
      BY <1>6, <3>1, <3>2 DEF ChainOpen
    <3>4. op.ticket <=> ticket.status \notin Over
      BY <1>4, <1>9, <3>2, <3>3 DEF SettlesTicket
    <3>5. CASE op.ticket
      <4>1. ticket' = [ticket EXCEPT !.status = "resolved"]
        BY <1>3, <3>5 DEF TicketResolved
      <4> QED
        BY <1>5, <4>1 DEF TicketRows, Over
    <3>6. CASE ~op.ticket
      BY <1>3, <3>4, <3>6
    <3> QED
      BY <3>5, <3>6
  <2> QED
    BY <2>2, <2>3
<1> QED
  BY <1>8, <1>9

(* Work that handlers finish, what that settles above it, and the ticket.   *)
LEMMA FinishSettles ==
    ASSUME ChainTreeInv, serial, NEW q \in Requests, FinishCommit(q)
    PROVE  TicketLast /\ AboveSettled
<1> DEFINE op == ops[q]
           s == op.step
           x == [chain EXCEPT ![s].status = op.to]
           up == op.verdict.settles
<1>0. ChainInv /\ ChainSaw /\ Tree(chain)
  BY DEF ChainTreeInv
<1>1. /\ s \in Steps /\ chain[s].kind = "work" /\ op.to \in {"completed", "closed"} /\ up \subseteq Steps
      /\ chain' = ResolveAll(x, up)
  BY <1>0, FinishRows
<1>2. \A m \in Steps :
        /\ x[m].source = chain[m].source /\ x[m].origin = chain[m].origin
        /\ x[m].kind = chain[m].kind /\ x[m].follow_up = chain[m].follow_up
        /\ x[m].status = IF m = s THEN op.to ELSE chain[m].status
        /\ chain'[m].source = chain[m].source /\ chain'[m].origin = chain[m].origin
        /\ chain'[m].status = IF m \in up THEN "resolved" ELSE x[m].status
  BY <1>0, FinishRows
<1>3. op.kind = "finish"
  BY DEF FinishCommit
<1>4. op.verdict = Verdict(x, s)
  BY <1>0, <1>3 DEF ChainSaw, SawSo
<1>5. up = Settles(x, s) /\ op.verdict.ticket = SettlesTicket(chain', s)
  BY <1>1, <1>4 DEF Verdict
<1>6. Sourced(chain) /\ ticket \in TicketRows
  <2>1. \A m \in Steps : chain[m] \in StepRows
    BY <1>0 DEF ChainInv, ChainTyped, ChainTypeOK
  <2> QED
    BY <1>0, <2>1, TicketOfInv DEF Sourced, StepRows, NoStep, TicketInv
<1>7. IF op.verdict.ticket THEN TicketResolved ELSE UNCHANGED <<ticket, clock>>
  BY DEF FinishCommit
<1> HIDE DEF op, s, x, up
<1>8. \A a : Below(x, a) = Below(chain, a) /\ Below(chain', a) = Below(chain, a)
  <2>1. \A m \in Steps : x[m].source = chain[m].source
    BY <1>2
  <2>2. \A m \in Steps : chain'[m].source = chain[m].source
    BY <1>2
  <2>3. \A a : Below(x, a) = Below(chain, a)
    BY <1>0, <1>6, <2>1, SameBelow
  <2> DEFINE now == chain'
  <2>4. \A m \in Steps : now[m].source = chain[m].source
    BY <2>2
  <2> HIDE DEF now
  <2>5. \A a : Below(now, a) = Below(chain, a)
    BY <1>0, <1>6, <2>4, SameBelow
  <2> QED
    BY <2>3, <2>5 DEF now
<1>9. /\ up \subseteq Candidates(x, s)
      /\ \A a \in Candidates(x, s) : a \in up <=> OpenBelow(x, a) \subseteq up
  BY <1>5, SettlesRows
<1>10. s \notin up
  BY <1>1, <1>2, <1>9 DEF Candidates
<1>11. AboveSettled
  <2> SUFFICES ASSUME NEW n \in Steps, chain[n].follow_up, Pending(chain[n]), chain'[n].status = "completed",
                      NEW a \in Steps, n \in Below(chain, a), chain[a].kind # "work", OpenBelow(chain', a) = {},
                      Pending(chain'[a])
               PROVE  FALSE
    BY DEF AboveSettled
  <2>1. n = s
    BY <1>2 DEF Pending
  <2>2. a \notin up /\ a # s /\ Pending(x[a])
    BY <1>1, <1>2 DEF Pending
  <2>3. a \in Candidates(x, s)
    BY <1>2, <1>8, <2>1, <2>2 DEF Candidates
  <2>4. PICK m \in OpenBelow(x, a) : m \notin up
    BY <1>9, <2>2, <2>3
  <2>5. m \in Below(x, a) /\ Pending(x[m]) /\ m \in Steps
    BY <2>4 DEF OpenBelow, Below
  <2>6. m \in Below(chain', a) /\ Pending(chain'[m])
    BY <1>2, <1>8, <2>4, <2>5 DEF Pending
  <2> QED
    BY <2>6 DEF OpenBelow
<1>12. TicketLast
  <2> SUFFICES ASSUME ChainOpen(chain) # {}, ChainOpen(chain') = {} PROVE ticket'.status \in Over
    BY DEF TicketLast
  <2>1. PICK m \in Steps : chain[m].origin /\ Pending(chain[m])
    BY DEF ChainOpen
  <2>2. ~Pending(chain'[m])
    BY <1>2, <2>1 DEF ChainOpen
  <2>3. m = s \/ m \in up
    BY <1>2, <2>1, <2>2 DEF Pending
  <2>4. chain[s].origin
    <3>1. CASE m \in up
      <4>1. m # s /\ (s \in Below(chain, m) \/ chain[s].source = m)
        <5>1. m \in Candidates(x, s) /\ m # s
          BY <1>9, <1>10, <3>1
        <5>2. s \in Below(x, m) \/ x[s].source = m
          BY <5>1 DEF Candidates
        <5> QED
          BY <1>1, <1>2, <1>8, <5>1, <5>2
      <4>2. CASE s \in Below(chain, m)
        BY <1>0, <1>6, <2>1, <4>2, OriginBelow
      <4>3. CASE chain[s].source = m
        BY <1>0, <1>1, <2>1, <4>1, <4>3 DEF Tree
      <4> QED
        BY <4>1, <4>2, <4>3
    <3> QED
      BY <2>1, <2>3, <3>1
  <2>5. op.verdict.ticket <=> ticket.status \notin Over
    BY <1>1, <1>2, <1>5, <2>4 DEF SettlesTicket
  <2>6. CASE op.verdict.ticket
    <3>1. ticket' = [ticket EXCEPT !.status = "resolved"]
      BY <1>7, <2>6 DEF TicketResolved
    <3> QED
      BY <1>6, <3>1 DEF TicketRows, Over
  <2>7. CASE ~op.verdict.ticket
    BY <1>7, <2>5, <2>7
  <2> QED
    BY <2>6, <2>7
<1> QED
  BY <1>11, <1>12

LEMMA LastStep == ASSUME ChainTreeInv, [ChainNext]_chainVars, serial PROVE TicketLast /\ AboveSettled
<1>0. ChainInv /\ chain \in [Steps -> StepRows]
  BY DEF ChainTreeInv, ChainInv, ChainTyped, ChainTypeOK
<1>1. ASSUME chain' = chain PROVE TicketLast /\ AboveSettled
  BY <1>1, UnfinishedSettles DEF Unfinished
<1>2. ASSUME NEW n \in Steps, NEW status,
             Pending(chain[n]) => status \in {"new", "in_progress", "cancelled"},
             chain' = [chain EXCEPT ![n].status = status]
      PROVE  TicketLast /\ AboveSettled
  <2>1. chain'[n].status = status
    <3>1. chain'[n] = [chain[n] EXCEPT !.status = status]
      BY <1>0, <1>2
    <3>2. chain[n] \in StepRows
      BY <1>0
    <3> QED
      BY <3>1, <3>2 DEF StepRows, NoStep
  <2>2. \A m \in Steps : m # n => chain'[m] = chain[m]
    BY <1>0, <1>2
  <2>3. LinksKept
    BY <1>0, <1>2, StatusLinks
  <2>4. Unfinished
    BY <1>2, <2>1, <2>2, <2>3 DEF Unfinished, LinksKept, Pending
  <2> QED
    BY <2>4, UnfinishedSettles
<1>3. ASSUME NEW n \in Steps, WorkBack(n) PROVE TicketLast /\ AboveSettled
  <2>1. \E status \in {"new", "cancelled"} : chain' = [chain EXCEPT ![n].status = status]
    BY <1>3 DEF WorkBack
  <2> QED
    BY <1>2, <2>1
<1>4. ASSUME NEW n \in Steps, NEW kind \in Kinds, NEW source \in Steps \cup {Ticket}, Report(n, kind, source)
      PROVE  TicketLast /\ AboveSettled
  <2>1. chain[n] = NoStep
    <3>1. n >= n
      BY ChainAssumption DEF Steps
    <3> QED
      BY <1>4, <3>1 DEF Report, NextStep
  <2>2. \A m \in Steps : m # n => chain'[m] = chain[m]
    BY <1>0, <1>4 DEF Report
  <2>3. Unfinished
    BY <2>1, <2>2 DEF Unfinished, Pending, NoStep
  <2> QED
    BY <2>3, UnfinishedSettles
<1>5. ASSUME NEW q \in Requests, AssignIncidentCommit(q) PROVE TicketLast /\ AboveSettled
  <2>1. ops[q].kind = "assign" /\ chain' = [chain EXCEPT ![ops[q].step].status = ops[q].status]
    BY <1>5 DEF AssignIncidentCommit
  <2>2. ops[q] \in AssignOp /\ ops[q] # NoOp
    BY <1>0, <2>1, ChainOpOfKind DEF ChainInv
  <2>3. ops[q].step \in Steps /\ ops[q].status = chain[ops[q].step].status
    BY <1>0, <2>1, <2>2 DEF ChainInv, ChainTurns, StillSo, AssignOp
  <2> QED
    BY <1>2, <2>1, <2>3 DEF Pending
<1>6. ASSUME NEW q \in Requests, GenerateStepCommit(q) PROVE TicketLast /\ AboveSettled
  <2> DEFINE op == ops[q]
  <2>1. PICK n \in Steps :
          /\ NextStep(n)
          /\ LET rows == [chain EXCEPT ![n] = NewStep(n, op.step, op.source, KindOf(op.source) = "work")]
             IN chain' = IF op.starts /\ op.source # Ticket
                         THEN [rows EXCEPT ![op.source].status = "in_progress"] ELSE rows
    BY <1>6 DEF GenerateStepCommit
  <2> DEFINE new  == NewStep(n, op.step, op.source, KindOf(op.source) = "work")
             rows == [chain EXCEPT ![n] = new]
  <2>2. chain' = IF op.starts /\ op.source # Ticket THEN [rows EXCEPT ![op.source].status = "in_progress"] ELSE rows
    BY <2>1
  <2> HIDE DEF new, op
  <2>3. chain[n] = NoStep
    <3>1. n >= n
      BY ChainAssumption DEF Steps
    <3> QED
      BY <2>1, <3>1 DEF NextStep
  <2>4. ASSUME NEW m \in Steps, Pending(chain[m])
        PROVE  /\ chain'[m].origin = chain[m].origin
               /\ Pending(chain'[m]) \/ chain'[m].status = "cancelled"
    <3>1. m # n
      BY <2>3, <2>4 DEF Pending, NoStep
    <3>2. chain'[m] = chain[m] \/ chain'[m] = [chain[m] EXCEPT !.status = "in_progress"]
      BY <1>0, <2>2, <3>1
    <3>3. chain[m] \in StepRows
      BY <1>0
    <3> QED
      BY <2>4, <3>2, <3>3 DEF Pending, StepRows, NoStep
  <2> QED
    BY <2>4, UnfinishedSettles DEF Unfinished
<1>7. CASE UNCHANGED chainVars
  BY <1>1, <1>7 DEF chainVars
<1>8. CASE \/ DuePasses \/ SLASweep
           \/ \E q \in Requests :
                \/ \E n \in Steps : \/ FinishRead(q, n) \/ AssignIncidentRead(q, n)
                                    \/ \E action \in DOMAIN StepRule : StepRead(q, n, action)
                \/ \E source \in Steps \cup {Ticket}, kind \in Kinds : GenerateStepRead(q, source, kind)
                \/ \E action \in DOMAIN TicketRule : TicketRead(q, action)
                \/ AssignTicketRead(q) \/ PriorityRead(q)
                \/ TicketCommit(q) \/ AssignTicketCommit(q) \/ PriorityCommit(q) \/ ChainAbort(q)
  <2>1. chain' = chain
    BY <1>8 DEF DuePasses, SLASweep, FinishRead, AssignIncidentRead, StepRead, GenerateStepRead, TicketRead,
       AssignTicketRead, PriorityRead, TicketCommit, AssignTicketCommit, PriorityCommit, ChainAbort
  <2> QED
    BY <1>1, <2>1
<1> QED
  BY <1>3, <1>4, <1>5, <1>6, <1>7, <1>8, StepSettles, FinishSettles DEF ChainNext

(* While handlers take turns, who finishes the last open object that comes  *)
(* from the ticket leaves the ticket over, and who completes a follow-up    *)
(* leaves no finding or incident above it pending without open work below.  *)
THEOREM LastSettles == ChainSpec => LastWorkSettles
<1>1. ChainInit => ChainTreeInv
  <2> SUFFICES ASSUME ChainInit PROVE ChainTreeInv
    OBVIOUS
  <2>1. chain = [n \in Steps |-> NoStep] /\ ops = [q \in Requests |-> NoOp]
    BY DEF ChainInit, ChainIdle, TxInit
  <2>2. Tree(chain)
    <3>1. Ticket \notin Steps
      BY DEF Steps, Ticket
    <3> QED
      BY <2>1, <3>1 DEF Tree, NoStep
  <2>3. ChainSaw
    BY <2>1, QuietSaw DEF ChainSaw
  <2> QED
    BY <2>2, <2>3, ChainInitially DEF ChainTreeInv
<1>2. ChainTreeInv /\ [ChainNext]_chainVars => ChainTreeInv'
  BY TreeStep
<1>3. ChainTreeInv /\ [ChainNext]_chainVars =>
        [serial => TicketLast /\ AboveSettled]_chainVars
  BY LastStep
<1> QED
  BY <1>1, <1>2, <1>3, PTL DEF ChainSpec, LastWorkSettles, TicketLast, AboveSettled

-----------------------------------------------------------------------------
(* Rounds.                                                                  *)
StopStatus == {"none", "new", "in_progress", "completed", "cancelled"}
Present    == {"new", "in_progress", "completed", "cancelled"}
ScanStatus == {"none", "pending", "scanned", "missed"}
Counts     == 0 .. Cardinality(Spots)

WalkRows   == [status : {"none", "scheduled", "in_progress", "completed", "cancelled"},
               total : Counts, done : Counts]
StopRows   == [Spots -> StopStatus]
PatrolRows == [status : StopStatus, scanned : Counts]
ScanRows   == [Spots -> ScanStatus]
Routes     == [active : BOOLEAN, stops : SUBSET Spots]

SomeStops == (SUBSET Spots) \ {{}}
RunsOp    == [kind : {"runs"}, stops : SomeStops, from : Nat]
RouteOp   == [kind : {"route"}, active : BOOLEAN, stops : SomeStops, runs : SUBSET RoundDays]
StopOp    == [kind : {"stop"}, day : RoundDays, spot : Spots, to : Present,
              count : [done : Counts, cancelled : Counts, started : Counts]]
ScanOp    == [kind : {"scan"}, day : RoundDays, spot : Spots, scanned : Counts]
RoundOps  == {NoOp} \cup RunsOp \cup RouteOp \cup StopOp \cup ScanOp

(* A run of a day and its stops.                                            *)
Whole(w, row) == Cardinality(Parts(row, Present)) = w.total

WalkAgrees(w, row) ==
    /\ w.status = "none" => row = NoStops
    /\ w.status # "none" =>
         /\ w.total >= 1 /\ Cardinality(Parts(row, Present)) <= w.total
         /\ w.done = Cardinality(Parts(row, {"completed"}))
         /\ Whole(w, row) =>
              /\ w.status \in {"completed", "cancelled"} <=> Parts(row, {"new", "in_progress"}) = {}
              /\ w.status \in {"cancelled", "scheduled"} => Parts(row, {"in_progress", "completed"}) = {}

RouteSide ==
    /\ route \in Routes /\ (route.active => route.stops # {})
    /\ walk \in [RoundDays -> WalkRows] /\ stop \in [RoundDays -> StopRows]
    /\ serial => \A d \in RoundDays : WalkAgrees(walk[d], stop[d])

(* A patrol of a day and its scans: only one that is over says that nothing *)
(* is pending.                                                              *)
Recorded(p, row)     == p.status = "completed" => Parts(row, {"pending"}) = {}
ScansCounted(p, row) == p.scanned = Cardinality(Parts(row, {"scanned"}))

PatrolSide ==
    /\ beat \in BOOLEAN
    /\ patrol \in [RoundDays -> PatrolRows] /\ scan \in [RoundDays -> ScanRows]
    /\ \A d \in RoundDays : Recorded(patrol[d], scan[d])
    /\ serial => \A d \in RoundDays : ScansCounted(patrol[d], scan[d])

(* What a handler alone has read still holds when it writes.                *)
SeenStands(op) ==
    /\ op.kind = "route" => \A d \in op.runs : walk[d].status = "scheduled"
    /\ op.kind = "stop" => /\ stop[op.day][op.spot] \in {"new", "in_progress", "completed"}
                           /\ op.count = Count([stop[op.day] EXCEPT ![op.spot] = op.to])
    /\ op.kind = "scan" =>
         op.scanned = Cardinality(Parts([scan[op.day] EXCEPT ![op.spot] = "scanned"], {"scanned"}))

RoundTurns ==
    /\ \A p, q \in Requests : ops[p] # NoOp /\ ops[q] # NoOp => p = q
    /\ \A q \in Requests : ops[q] # NoOp => SeenStands(ops[q])

RoundHandlers == ops \in [Requests -> RoundOps] /\ (serial => RoundTurns)

RoundInv == RouteSide /\ PatrolSide /\ RoundHandlers /\ day \in RoundDays /\ serial \in BOOLEAN

-----------------------------------------------------------------------------
(* Counting the parts of a round.                                           *)
LEMMA PartsCount ==
    ASSUME NEW row, NEW S
    PROVE  /\ IsFiniteSet(Parts(row, S)) /\ Cardinality(Parts(row, S)) \in Counts
           /\ Cardinality(Parts(row, S)) \in Nat
           /\ Cardinality(Parts(row, S)) = 0 <=> Parts(row, S) = {}
<1>1. Parts(row, S) \in SUBSET Spots
  BY DEF Parts
<1>2. IsFiniteSet(Parts(row, S)) /\ Cardinality(Parts(row, S)) <= Cardinality(Spots)
  BY <1>1, RoundAssumption, FS_Subset
<1>3. Cardinality(Parts(row, S)) \in Nat /\ Cardinality(Spots) \in Nat
  BY <1>2, RoundAssumption, FS_CardinalityType
<1> QED
  BY <1>2, <1>3, FS_EmptySet DEF Counts

LEMMA PartsAdd ==
    ASSUME NEW row, NEW S, NEW T, S \cap T = {}
    PROVE  Cardinality(Parts(row, S \cup T)) = Cardinality(Parts(row, S)) + Cardinality(Parts(row, T))
<1>1. Parts(row, S \cup T) = Parts(row, S) \cup Parts(row, T) /\ Parts(row, S) \cap Parts(row, T) = {}
  BY DEF Parts
<1> DEFINE s == Parts(row, S)
           t == Parts(row, T)
<1>2. IsFiniteSet(s) /\ IsFiniteSet(t) /\ Cardinality(s) \in Nat /\ Cardinality(t) \in Nat
  BY PartsCount
<1> HIDE DEF s, t
<1>3. Cardinality(s \cup t) = Cardinality(s) + Cardinality(t) - Cardinality(s \cap t)
  BY <1>2, FS_Union
<1>4. s \cap t = {}
  BY <1>1 DEF s, t
<1>5. Cardinality(s \cup t) = Cardinality(s) + Cardinality(t)
  BY <1>2, <1>3, <1>4, FS_EmptySet
<1> QED
  BY <1>1, <1>5 DEF s, t

(* The stops that are to be done, are done and are cancelled are all.       *)
LEMMA PresentCount ==
    ASSUME NEW row
    PROVE  Cardinality(Parts(row, Present)) =
             Cardinality(Parts(row, {"new", "in_progress"})) + Cardinality(Parts(row, {"completed"}))
               + Cardinality(Parts(row, {"cancelled"}))
<1>1. {"new", "in_progress"} \cup {"completed"} \cup {"cancelled"} = Present
  BY DEF Present
<1>2. /\ ({"new", "in_progress"} \cup {"completed"}) \cap {"cancelled"} = {}
      /\ {"new", "in_progress"} \cap {"completed"} = {}
  OBVIOUS
<1> DEFINE open == {"new", "in_progress"}
           over == {"completed"}
           gone == {"cancelled"}
<1> HIDE DEF open, over, gone
<1>3. (open \cup over) \cap gone = {} /\ open \cap over = {} /\ open \cup over \cup gone = Present
  BY <1>1, <1>2 DEF open, over, gone
<1>4. /\ Cardinality(Parts(row, (open \cup over) \cup gone))
           = Cardinality(Parts(row, open \cup over)) + Cardinality(Parts(row, gone))
      /\ Cardinality(Parts(row, open \cup over)) = Cardinality(Parts(row, open)) + Cardinality(Parts(row, over))
  BY <1>3, PartsAdd
<1> QED
  BY <1>3, <1>4 DEF open, over, gone

(* A count refreshed from the stops tells what became of them.              *)
LEMMA RefreshedAgrees ==
    ASSUME NEW w \in WalkRows, NEW row, w.status # "none", w.total >= 1,
           Cardinality(Parts(row, Present)) <= w.total
    PROVE  WalkAgrees(Refreshed(w, Count(row)), row)
<1> DEFINE open == Cardinality(Parts(row, {"new", "in_progress"}))
           done == Cardinality(Parts(row, {"completed"}))
           cancelled == Cardinality(Parts(row, {"cancelled"}))
           started == Cardinality(Parts(row, {"in_progress"}))
           present == Cardinality(Parts(row, Present))
           status == IF cancelled >= w.total THEN "cancelled"
                     ELSE IF done + cancelled >= w.total THEN "completed"
                     ELSE IF started > 0 \/ done > 0 THEN "in_progress" ELSE "scheduled"
           now == Refreshed(w, Count(row))
<1>1. /\ open \in Nat /\ done \in Nat /\ cancelled \in Nat /\ started \in Nat /\ done \in Counts
      /\ open = 0 <=> Parts(row, {"new", "in_progress"}) = {}
      /\ done = 0 <=> Parts(row, {"completed"}) = {}
      /\ started = 0 <=> Parts(row, {"in_progress"}) = {}
  BY PartsCount
<1>2. present = open + done + cancelled /\ present <= w.total
  BY PresentCount
<1>3. now = [w EXCEPT !.done = done, !.status = status]
  BY DEF Refreshed, Count
<1>4. w.total \in Nat /\ w.total >= 1
  BY DEF WalkRows, Counts
<1>5. Parts(row, {"in_progress", "completed"}) = Parts(row, {"in_progress"}) \cup Parts(row, {"completed"})
      /\ Parts(row, {"in_progress"}) \subseteq Parts(row, {"new", "in_progress"})
  BY DEF Parts
<1>p. present = Cardinality(Parts(row, Present))
  OBVIOUS
<1> HIDE DEF open, done, cancelled, started, present
<1>6. status \in {"cancelled", "completed", "in_progress", "scheduled"}
  OBVIOUS
<1>7. status = "cancelled" => open = 0 /\ done = 0
  BY <1>1, <1>2, <1>4
<1>8. present = w.total => (status \in {"completed", "cancelled"} <=> open = 0)
  BY <1>1, <1>2, <1>4
<1>9. status = "scheduled" => started = 0 /\ done = 0
  BY <1>1, <1>2, <1>4
<1> HIDE DEF status
<1>10. now.total = w.total /\ now.done = done /\ now.status = status
  BY <1>3 DEF WalkRows
<1> HIDE DEF now
<1>11. status \in {"cancelled", "scheduled"} => Parts(row, {"in_progress", "completed"}) = {}
  BY <1>1, <1>5, <1>7, <1>9
<1>12. WalkAgrees(now, row)
  BY <1>1, <1>2, <1>4, <1>6, <1>8, <1>10, <1>11, <1>p DEF WalkAgrees, Whole, done
<1> QED
  BY <1>12 DEF now

LEMMA RefreshedTyped ==
    ASSUME NEW w \in WalkRows, NEW n, n.done \in Counts
    PROVE  Refreshed(w, n) \in WalkRows
BY DEF Refreshed, WalkRows

-----------------------------------------------------------------------------
(* Runs that are generated, and those that a change of the route withdraws. *)
Walks(w, t) ==
    /\ w \in [RoundDays -> WalkRows] /\ t \in [RoundDays -> StopRows]
    /\ serial => \A d \in RoundDays : WalkAgrees(w[d], t[d])

LEMMA RanAgrees ==
    ASSUME NEW w, NEW t, Walks(w, t), NEW days, NEW stops \in SUBSET Spots, days # {} => stops # {}
    PROVE  Walks(Ran(w, days, stops), Stopped(t, days, stops))
<1> DEFINE new == [status |-> "scheduled", total |-> Cardinality(stops), done |-> 0]
           row == [s \in Spots |-> IF s \in stops THEN "new" ELSE "none"]
<1>1. IsFiniteSet(stops) /\ Cardinality(stops) \in Nat /\ (Cardinality(stops) = 0 <=> stops = {})
  BY RoundAssumption, FS_Subset, FS_CardinalityType, FS_EmptySet
<1>2. Cardinality(stops) <= Cardinality(Spots) /\ Cardinality(Spots) \in Nat
  BY RoundAssumption, FS_Subset, FS_CardinalityType
<1>3. new \in WalkRows /\ row \in StopRows
  BY <1>1, <1>2 DEF WalkRows, Counts, StopRows, StopStatus
<1>4. /\ Parts(row, Present) = stops /\ Parts(row, {"new", "in_progress"}) = stops
      /\ Parts(row, {"completed"}) = {} /\ Parts(row, {"in_progress", "completed"}) = {}
  BY DEF Parts, Present
<1>5. ASSUME stops # {} PROVE WalkAgrees(new, row)
  <2>1. /\ new.status = "scheduled" /\ new.total = Cardinality(stops) /\ new.done = 0
    OBVIOUS
  <2> HIDE DEF new, row
  <2>2. new.total >= 1 /\ Cardinality(Parts(row, Present)) <= new.total
    BY <1>1, <1>4, <1>5, <2>1
  <2>3. new.done = Cardinality(Parts(row, {"completed"}))
    BY <1>4, <2>1, FS_EmptySet
  <2> QED
    BY <1>4, <1>5, <2>1, <2>2, <2>3 DEF WalkAgrees
<1>6. /\ Ran(w, days, stops) = [d \in RoundDays |-> IF d \in days THEN new ELSE w[d]]
      /\ Stopped(t, days, stops) = [d \in RoundDays |-> IF d \in days THEN row ELSE t[d]]
  BY DEF Ran, Stopped
<1> HIDE DEF new, row
<1>7. /\ Ran(w, days, stops) \in [RoundDays -> WalkRows]
      /\ Stopped(t, days, stops) \in [RoundDays -> StopRows]
  BY <1>3, <1>6 DEF Walks
<1>8. ASSUME serial, NEW d \in RoundDays PROVE WalkAgrees(Ran(w, days, stops)[d], Stopped(t, days, stops)[d])
  <2>1. CASE d \in days
    BY <1>5, <1>6, <2>1
  <2>2. CASE d \notin days
    BY <1>6, <1>8, <2>2 DEF Walks
  <2> QED
    BY <2>1, <2>2
<1> QED
  BY <1>7, <1>8 DEF Walks

LEMMA WithdrawnAgrees ==
    ASSUME NEW w, NEW t, Walks(w, t), NEW days,
           serial => \A d \in RoundDays : d \in days => w[d].status = "scheduled"
    PROVE  Walks(Withdrawn(w, Emptied(t, days), days), Emptied(t, days))
<1> DEFINE stops == Emptied(t, days)
           kept == Withdrawn(w, stops, days)
<1>1. stops = [d \in RoundDays |-> IF d \in days
                                   THEN [s \in Spots |-> IF t[d][s] \in {"new", "cancelled"} THEN "none" ELSE t[d][s]]
                                   ELSE t[d]]
  BY DEF Emptied
<1> HIDE DEF stops
<1>2. kept = [d \in RoundDays |-> IF d \in days /\ stops[d] = NoStops THEN NoWalk ELSE w[d]]
  BY DEF Withdrawn
<1> HIDE DEF kept
<1>3. NoWalk \in WalkRows
  <2>1. Cardinality(Spots) \in Nat
    BY RoundAssumption, FS_CardinalityType
  <2> QED
    BY <2>1 DEF NoWalk, WalkRows, Counts
<1>4. kept \in [RoundDays -> WalkRows]
  BY <1>2, <1>3 DEF Walks
<1>5. \A d \in RoundDays : stops[d] \in StopRows
  <2> SUFFICES ASSUME NEW d \in RoundDays PROVE stops[d] \in StopRows
    OBVIOUS
  <2>1. t[d] \in StopRows
    BY DEF Walks
  <2> QED
    BY <1>1, <2>1 DEF StopRows, StopStatus
<1>6. stops \in [RoundDays -> StopRows]
  <2>1. stops = [d \in RoundDays |-> stops[d]]
    BY <1>1
  <2> QED
    BY <1>5, <2>1
<1>7. ASSUME serial, NEW d \in RoundDays PROVE WalkAgrees(kept[d], stops[d])
  <2>0. WalkAgrees(w[d], t[d]) /\ w[d] \in WalkRows /\ t[d] \in StopRows
    BY <1>7 DEF Walks
  <2>1. CASE d \notin days
    BY <1>1, <1>2, <2>0, <2>1
  <2>2. CASE d \in days /\ stops[d] = NoStops
    <3>1. kept[d] = NoWalk
      BY <1>2, <2>2
    <3> QED
      BY <2>2, <3>1 DEF WalkAgrees, NoWalk
  <2>3. CASE d \in days /\ stops[d] # NoStops
    <3> DEFINE row == t[d]
               left == stops[d]
               before == w[d]
    <3>1. kept[d] = before /\ before.status = "scheduled"
      BY <1>2, <1>7, <2>3
    <3>2. /\ left \in StopRows
          /\ \A s \in Spots : left[s] = IF row[s] \in {"new", "cancelled"} THEN "none" ELSE row[s]
      BY <1>1, <1>5, <2>3
    <3>r. row \in StopRows /\ left # NoStops
      BY <2>0, <2>3
    <3>q. WalkAgrees(before, row)
      BY <2>0
    <3> HIDE DEF row, left
    <3>3. /\ Parts(left, {"completed"}) = Parts(row, {"completed"})
          /\ Parts(left, Present) \subseteq Parts(row, Present)
          /\ Parts(left, Present) = Parts(row, {"in_progress", "completed"})
      BY <3>2, <3>r DEF Parts, Present, StopRows, StopStatus
    <3>4. Parts(left, Present) # {}
      <4>1. PICK s \in Spots : left[s] # "none"
        BY <3>2, <3>r DEF NoStops, StopRows
      <4> QED
        BY <3>2, <4>1 DEF Parts, Present, StopRows, StopStatus
    <3>5. ~Whole(before, row)
      BY <3>1, <3>3, <3>4, <3>q DEF WalkAgrees
    <3>6. /\ Cardinality(Parts(left, Present)) <= Cardinality(Parts(row, Present))
          /\ Cardinality(Parts(left, Present)) \in Nat /\ Cardinality(Parts(row, Present)) \in Nat
      BY <3>3, PartsCount, FS_Subset
    <3>7. before.total \in Nat
      BY <2>0 DEF WalkRows, Counts
    <3>8. Cardinality(Parts(row, Present)) <= before.total /\ before.total >= 1
          /\ before.done = Cardinality(Parts(row, {"completed"}))
      BY <3>1, <3>q DEF WalkAgrees
    <3> HIDE DEF before
    <3>9. Cardinality(Parts(left, Present)) <= before.total /\ ~Whole(before, left)
      BY <3>5, <3>6, <3>7, <3>8 DEF Whole
    <3>10. WalkAgrees(before, left)
      BY <3>1, <3>3, <3>8, <3>9 DEF WalkAgrees
    <3> QED
      BY <3>1, <3>10 DEF left
  <2> QED
    BY <2>1, <2>2, <2>3
<1> QED
  BY <1>4, <1>6, <1>7 DEF Walks, kept, stops

-----------------------------------------------------------------------------
(* Transactions.                                                            *)
LEMMA RoundOpOfKind ==
    ASSUME RoundHandlers, NEW q \in Requests
    PROVE  /\ ops[q].kind = "runs"  => ops[q] \in RunsOp
           /\ ops[q].kind = "route" => ops[q] \in RouteOp
           /\ ops[q].kind = "stop"  => ops[q] \in StopOp
           /\ ops[q].kind = "scan"  => ops[q] \in ScanOp
           /\ ops[q].kind \in {"runs", "route", "stop", "scan"} => ops[q] # NoOp
<1>1. ops[q] \in RoundOps
  BY DEF RoundHandlers
<1> QED
  BY <1>1 DEF RoundOps, NoOp, RunsOp, RouteOp, StopOp, ScanOp

(* When the handler of q ends no other one is at work, if they take turns.  *)
LEMMA RoundEnds ==
    ASSUME RoundHandlers, NEW q \in Requests, ops[q] # NoOp, End(q), serial' = serial
    PROVE  RoundHandlers'
<1>1. ops \in [Requests -> RoundOps] /\ ops' = [ops EXCEPT ![q] = NoOp] /\ NoOp \in RoundOps
  BY DEF RoundHandlers, End, RoundOps
<1>2. ops' \in [Requests -> RoundOps]
  BY <1>1
<1>3. serial => \A p \in Requests : ops'[p] = NoOp
  BY <1>1 DEF RoundHandlers, RoundTurns
<1> QED
  BY <1>2, <1>3 DEF RoundHandlers, RoundTurns

LEMMA RoundCalm == ASSUME RoundHandlers, Calm, UNCHANGED <<ops, serial>> PROVE RoundHandlers'
BY DEF RoundHandlers, RoundTurns, Calm

LEMMA RoundBegins ==
    ASSUME RoundInv, NEW q \in Requests, NEW op \in RoundOps, Begin(q, op), serial => SeenStands(op),
           UNCHANGED <<route, walk, stop, beat, patrol, scan, day, serial>>
    PROVE  RoundInv'
<1>1. /\ ops \in [Requests -> RoundOps] /\ ops' = [ops EXCEPT ![q] = op]
      /\ serial => \A p \in Requests \ {q} : ops[p] = NoOp
  BY DEF RoundInv, RoundHandlers, Begin, Start, Turn
<1>2. RouteSide' /\ PatrolSide' /\ day' \in RoundDays /\ serial' \in BOOLEAN
  BY DEF RoundInv, RouteSide, PatrolSide
<1>3. serial => RoundTurns'
  <2> SUFFICES ASSUME serial PROVE RoundTurns'
    OBVIOUS
  <2>1. \A p \in Requests : p # q => ops'[p] = NoOp
    BY <1>1
  <2>2. ops'[q] = op /\ SeenStands(op)'
    BY <1>1 DEF SeenStands
  <2> QED
    BY <2>1, <2>2 DEF RoundTurns
<1>4. ops' \in [Requests -> RoundOps]
  BY <1>1
<1> QED
  BY <1>2, <1>3, <1>4 DEF RoundInv, RoundHandlers

LEMMA RouteStays == ASSUME RouteSide, UNCHANGED <<route, walk, stop, serial>> PROVE RouteSide'
BY DEF RouteSide

LEMMA PatrolStays == ASSUME PatrolSide, UNCHANGED <<beat, patrol, scan, serial>> PROVE PatrolSide'
BY DEF PatrolSide

-----------------------------------------------------------------------------
(* The route.                                                               *)
LEMMA WalksOfSide == ASSUME RouteSide PROVE Walks(walk, stop)
BY DEF RouteSide, Walks

LEMMA SideOfWalks ==
    ASSUME Walks(walk', stop'), serial' = serial, route' \in Routes, route'.active => route'.stops # {}
    PROVE  RouteSide'
BY DEF RouteSide, Walks

LEMMA RouteReads ==
    ASSUME RoundInv, NEW q \in Requests
    PROVE  /\ GenerateRunsRead(q) => RoundInv'
           /\ \A active \in BOOLEAN, stops \in SomeStops : ChangeRouteRead(q, active, stops) => RoundInv'
           /\ \A d \in RoundDays, s \in Spots, action \in DOMAIN StopRule : StopActRead(q, d, s, action) => RoundInv'
<1>1. ASSUME GenerateRunsRead(q) PROVE RoundInv'
  <2> DEFINE op == [kind |-> "runs", stops |-> route.stops, from |-> day]
  <2>1. route.active /\ Begin(q, op) /\ UNCHANGED <<route, walk, stop, beat, patrol, scan, day, serial>>
    BY <1>1 DEF GenerateRunsRead
  <2>2. op \in RoundOps
    BY <2>1 DEF RoundOps, RunsOp, RoundInv, RouteSide, Routes, SomeStops, RoundDays
  <2>3. SeenStands(op)
    BY DEF SeenStands
  <2> HIDE DEF op
  <2> QED
    BY <2>1, <2>2, <2>3, RoundBegins
<1>2. ASSUME NEW active \in BOOLEAN, NEW stops \in SomeStops, ChangeRouteRead(q, active, stops) PROVE RoundInv'
  <2> DEFINE first == IF active THEN day + 1 ELSE day
             runs == {d \in RoundDays : d >= first /\ walk[d].status = "scheduled"}
             op == [kind |-> "route", active |-> active, stops |-> stops, runs |-> runs]
  <2>1. Begin(q, op) /\ UNCHANGED <<route, walk, stop, beat, patrol, scan, day, serial>>
    BY <1>2 DEF ChangeRouteRead
  <2>2. runs \subseteq RoundDays /\ \A d \in runs : walk[d].status = "scheduled"
    OBVIOUS
  <2> HIDE DEF runs, first
  <2>3. op \in RoundOps
    BY <2>2 DEF RoundOps, RouteOp
  <2>4. SeenStands(op)
    BY <2>2 DEF SeenStands
  <2> HIDE DEF op
  <2> QED
    BY <2>1, <2>3, <2>4, RoundBegins
<1>3. ASSUME NEW d \in RoundDays, NEW s \in Spots, NEW action \in DOMAIN StopRule, StopActRead(q, d, s, action)
      PROVE  RoundInv'
  <2> DEFINE to == StopRule[action].to
             row == [stop[d] EXCEPT ![s] = to]
             count == Count(row)
             op == [kind |-> "stop", day |-> d, spot |-> s, to |-> to, count |-> count]
  <2>1. /\ Begin(q, op) /\ UNCHANGED <<route, walk, stop, beat, patrol, scan, day, serial>>
        /\ stop[d][s] \in StopRule[action].from
    BY <1>3 DEF StopActRead
  <2>2. to \in Present /\ StopRule[action].from \subseteq {"new", "in_progress", "completed"}
    BY DEF StopRule, Present
  <2>3. count \in [done : Counts, cancelled : Counts, started : Counts]
    BY PartsCount DEF Count
  <2>4. op \in StopOp
    <3> HIDE DEF to, count
    <3> QED
      BY <2>2, <2>3 DEF StopOp
  <2>5. SeenStands(op)
    BY <2>1, <2>2 DEF SeenStands
  <2>6. op \in RoundOps
    BY <2>4 DEF RoundOps
  <2> HIDE DEF op
  <2> QED
    BY <2>1, <2>5, <2>6, RoundBegins
<1> QED
  BY <1>1, <1>2, <1>3

LEMMA CreateWrites ==
    ASSUME RoundInv, NEW stops \in SomeStops, CreateRoute(stops)
    PROVE  RoundInv'
<1> DEFINE days == RoundDays \ 0 .. day - 1
<1>1. Walks(Ran(walk, days, stops), Stopped(stop, days, stops))
  BY WalksOfSide, RanAgrees DEF RoundInv, SomeStops
<1>2. /\ route' = [active |-> TRUE, stops |-> stops] /\ serial' = serial
      /\ walk' = Ran(walk, days, stops) /\ stop' = Stopped(stop, days, stops)
  BY DEF CreateRoute
<1> HIDE DEF days
<1>3. RouteSide'
  BY <1>1, <1>2, SideOfWalks DEF Routes, SomeStops
<1>4. PatrolSide' /\ RoundHandlers' /\ day' \in RoundDays /\ serial' \in BOOLEAN
  BY PatrolStays, RoundCalm DEF RoundInv, CreateRoute
<1> QED
  BY <1>3, <1>4 DEF RoundInv

LEMMA RunsWrite == ASSUME RoundInv, NEW q \in Requests, GenerateRunsCommit(q) PROVE RoundInv'
<1> DEFINE op == ops[q]
           days == Missing(walk, op.from)
<1>1. op \in RunsOp /\ op # NoOp /\ End(q)
  BY RoundOpOfKind DEF GenerateRunsCommit, RoundInv
<1>2. op.stops \in SomeStops
  BY <1>1 DEF RunsOp
<1>3. /\ walk' = Ran(walk, days, op.stops) /\ stop' = Stopped(stop, days, op.stops)
      /\ UNCHANGED <<route, beat, patrol, scan, day, serial>>
  BY DEF GenerateRunsCommit
<1> HIDE DEF days
<1>4. Walks(Ran(walk, days, op.stops), Stopped(stop, days, op.stops))
  BY <1>2, WalksOfSide, RanAgrees DEF RoundInv, SomeStops
<1>5. RouteSide'
  BY <1>3, <1>4, SideOfWalks DEF RoundInv, RouteSide
<1>6. RoundHandlers' /\ PatrolSide' /\ day' \in RoundDays /\ serial' \in BOOLEAN
  BY <1>1, <1>3, RoundEnds, PatrolStays DEF RoundInv
<1> QED
  BY <1>5, <1>6 DEF RoundInv

LEMMA ChangeWrites == ASSUME RoundInv, NEW q \in Requests, ChangeRouteCommit(q) PROVE RoundInv'
<1> DEFINE op == ops[q]
           runs == op.runs
           stops == Emptied(stop, runs)
           kept == Withdrawn(walk, stops, runs)
           days == IF op.active THEN Missing(kept, day) ELSE {}
<1>1. op \in RouteOp /\ op # NoOp /\ End(q) /\ op.kind = "route"
  BY RoundOpOfKind DEF ChangeRouteCommit, RoundInv
<1>2. op.stops \in SomeStops /\ op.active \in BOOLEAN
  BY <1>1 DEF RouteOp
<1>3. /\ walk' = Ran(kept, days, op.stops) /\ stop' = Stopped(stops, days, op.stops)
      /\ route' = [active |-> op.active, stops |-> op.stops]
      /\ UNCHANGED <<beat, patrol, scan, day, serial>>
  BY DEF ChangeRouteCommit
<1>4. serial => \A d \in RoundDays : d \in runs => walk[d].status = "scheduled"
  BY <1>1 DEF RoundInv, RoundHandlers, RoundTurns, SeenStands
<1> HIDE DEF days, op, runs
<1>5. Walks(kept, stops)
  BY <1>4, WalksOfSide, WithdrawnAgrees DEF RoundInv
<1> HIDE DEF kept, stops
<1>6. Walks(Ran(kept, days, op.stops), Stopped(stops, days, op.stops))
  BY <1>2, <1>5, RanAgrees DEF SomeStops
<1>7. RouteSide'
  BY <1>2, <1>3, <1>6, SideOfWalks DEF Routes, SomeStops
<1>8. RoundHandlers' /\ PatrolSide' /\ day' \in RoundDays /\ serial' \in BOOLEAN
  BY <1>1, <1>3, RoundEnds, PatrolStays DEF RoundInv, op
<1> QED
  BY <1>7, <1>8 DEF RoundInv

(* A stop is started, done, reopened or cancelled.                          *)
LEMMA StopWrites == ASSUME RoundInv, NEW q \in Requests, StopActCommit(q) PROVE RoundInv'
<1> DEFINE op == ops[q]
           e == op.day
           s == op.spot
           row == [stop[e] EXCEPT ![s] = op.to]
           now == IF walk[e].status = "none" THEN walk[e] ELSE Refreshed(walk[e], op.count)
<1>1. op \in StopOp /\ op # NoOp /\ End(q) /\ op.kind = "stop"
  BY RoundOpOfKind DEF StopActCommit, RoundInv
<1>2. /\ e \in RoundDays /\ s \in Spots /\ op.to \in Present /\ op.count.done \in Counts
  BY <1>1 DEF StopOp
<1>3. /\ walk \in [RoundDays -> WalkRows] /\ stop \in [RoundDays -> StopRows]
      /\ serial => \A d \in RoundDays : WalkAgrees(walk[d], stop[d])
  BY DEF RoundInv, RouteSide
<1>4. /\ stop' = [stop EXCEPT ![e] = row] /\ walk' = [walk EXCEPT ![e] = now]
      /\ UNCHANGED <<route, beat, patrol, scan, day, serial>>
  BY <1>2, <1>3 DEF StopActCommit
<1>5. serial => stop[e][s] \in {"new", "in_progress", "completed"} /\ op.count = Count(row)
  BY <1>1 DEF RoundInv, RoundHandlers, RoundTurns, SeenStands
<1>6. stop[e] \in StopRows /\ walk[e] \in WalkRows
  BY <1>2, <1>3
<1>7. row \in StopRows /\ row[s] = op.to /\ \A c \in Spots : c # s => row[c] = stop[e][c]
  BY <1>2, <1>6 DEF StopRows, StopStatus, Present
<1>8. now \in WalkRows
  BY <1>2, <1>6, RefreshedTyped
<1>9. ASSUME serial PROVE WalkAgrees(now, row)
  <2>1. WalkAgrees(walk[e], stop[e])
    BY <1>2, <1>3, <1>9
  <2>2. walk[e].status # "none"
    BY <1>2, <1>5, <1>9, <2>1 DEF WalkAgrees, NoStops
  <2>3. Parts(row, Present) = Parts(stop[e], Present)
    <3> HIDE DEF row
    <3> QED
      BY <1>2, <1>5, <1>7, <1>9 DEF Parts, Present
  <2>4. walk[e].total >= 1 /\ Cardinality(Parts(row, Present)) <= walk[e].total
    BY <2>1, <2>2, <2>3 DEF WalkAgrees
  <2>5. now = Refreshed(walk[e], Count(row))
    BY <1>5, <1>9, <2>2
  <2> HIDE DEF now, row
  <2> QED
    BY <1>6, <2>2, <2>4, <2>5, RefreshedAgrees
<1> HIDE DEF row, now, e, s, op
<1>10. Walks(walk', stop')
  <2>1. walk' \in [RoundDays -> WalkRows] /\ stop' \in [RoundDays -> StopRows]
    BY <1>2, <1>3, <1>4, <1>7, <1>8
  <2>2. \A d \in RoundDays : /\ d # e => walk'[d] = walk[d] /\ stop'[d] = stop[d]
                             /\ d = e => walk'[d] = now /\ stop'[d] = row
    BY <1>2, <1>3, <1>4
  <2>3. serial => \A d \in RoundDays : WalkAgrees(walk'[d], stop'[d])
    BY <1>3, <1>9, <2>2
  <2> QED
    BY <1>4, <2>1, <2>3 DEF Walks
<1>11. RouteSide'
  BY <1>4, <1>10, SideOfWalks DEF RoundInv, RouteSide
<1>12. RoundHandlers' /\ PatrolSide' /\ day' \in RoundDays /\ serial' \in BOOLEAN
  BY <1>1, <1>4, RoundEnds, PatrolStays DEF RoundInv, op
<1> QED
  BY <1>11, <1>12 DEF RoundInv

(* A stop leaves its run, which is not whole any more.                      *)
LEMMA DeleteWrites ==
    ASSUME RoundInv, NEW e \in RoundDays, NEW s \in Spots, DeleteStop(e, s)
    PROVE  RoundInv'
<1> DEFINE row == stop[e]
           left == [stop[e] EXCEPT ![s] = "none"]
           w == walk[e]
<1>1. /\ walk \in [RoundDays -> WalkRows] /\ stop \in [RoundDays -> StopRows]
      /\ serial => \A d \in RoundDays : WalkAgrees(walk[d], stop[d])
  BY DEF RoundInv, RouteSide
<1>2. /\ stop' = [stop EXCEPT ![e] = left] /\ walk' = walk /\ stop[e][s] \in {"new", "cancelled"}
      /\ UNCHANGED <<route, beat, patrol, scan, day, ops, serial>> /\ Calm
  BY <1>1 DEF DeleteStop
<1>3. row \in StopRows /\ w \in WalkRows
  BY <1>1
<1>4. left \in StopRows /\ left[s] = "none" /\ \A c \in Spots : c # s => left[c] = row[c]
  BY <1>3 DEF StopRows, StopStatus
<1>5. ASSUME serial PROVE WalkAgrees(w, left)
  <2>1. WalkAgrees(w, row) /\ row[s] \in {"new", "cancelled"}
    BY <1>1, <1>2, <1>5
  <2>2. w.status # "none"
    BY <2>1 DEF WalkAgrees, NoStops
  <2> HIDE DEF left, row, w
  <2>3. /\ Parts(left, Present) = Parts(row, Present) \ {s} /\ s \in Parts(row, Present)
        /\ Parts(left, {"completed"}) = Parts(row, {"completed"})
    BY <1>4, <2>1 DEF Parts, Present
  <2>4. Cardinality(Parts(left, Present)) = Cardinality(Parts(row, Present)) - 1
        /\ Cardinality(Parts(row, Present)) \in Nat
    <3> DEFINE all == Parts(row, Present)
    <3>1. IsFiniteSet(all) /\ Cardinality(all) \in Nat
      BY PartsCount
    <3>2. Parts(left, Present) = all \ {s} /\ s \in all
      BY <2>3
    <3> HIDE DEF all
    <3>3. Cardinality(all \ {s}) = Cardinality(all) - 1
      BY <3>1, <3>2, FS_RemoveElement
    <3> QED
      BY <3>1, <3>2, <3>3 DEF all
  <2>5. /\ w.total >= 1 /\ Cardinality(Parts(row, Present)) <= w.total /\ w.total \in Nat
        /\ w.done = Cardinality(Parts(row, {"completed"}))
    BY <1>3, <2>1, <2>2 DEF WalkAgrees, WalkRows, Counts
  <2>6. Cardinality(Parts(left, Present)) <= w.total /\ ~Whole(w, left)
    BY <2>4, <2>5 DEF Whole
  <2> QED
    BY <2>2, <2>3, <2>5, <2>6 DEF WalkAgrees
<1> HIDE DEF left
<1>6. Walks(walk', stop')
  <2>1. stop' \in [RoundDays -> StopRows]
    BY <1>1, <1>2, <1>4
  <2>2. \A d \in RoundDays : (d # e => stop'[d] = stop[d]) /\ (d = e => stop'[d] = left)
    BY <1>1, <1>2
  <2> QED
    BY <1>1, <1>2, <1>5, <2>1, <2>2 DEF Walks
<1>7. RouteSide'
  BY <1>2, <1>6, SideOfWalks DEF RoundInv, RouteSide
<1>8. RoundHandlers' /\ PatrolSide' /\ day' \in RoundDays /\ serial' \in BOOLEAN
  BY <1>2, RoundCalm, PatrolStays DEF RoundInv
<1> QED
  BY <1>7, <1>8 DEF RoundInv

-----------------------------------------------------------------------------
(* Patrols.                                                                 *)
Beats(p, t) ==
    /\ p \in [RoundDays -> PatrolRows] /\ t \in [RoundDays -> ScanRows]
    /\ \A d \in RoundDays : Recorded(p[d], t[d]) /\ (serial => ScansCounted(p[d], t[d]))

LEMMA BeatsOfSide == ASSUME PatrolSide PROVE Beats(patrol, scan)
BY DEF PatrolSide, Beats

LEMMA SideOfBeats ==
    ASSUME Beats(patrol', scan'), serial' = serial, beat' \in BOOLEAN
    PROVE  PatrolSide'
BY DEF PatrolSide, Beats

LEMMA PostedAgrees ==
    ASSUME NEW p, NEW t, Beats(p, t), NEW days
    PROVE  Beats(Patrolled(p, days), Posted(t, days))
<1> DEFINE new == [NoPatrol EXCEPT !.status = "new"]
           row == [c \in Spots |-> "pending"]
<1>0. 0 \in Counts
  <2>1. Cardinality(Spots) \in Nat
    BY RoundAssumption, FS_CardinalityType
  <2> QED
    BY <2>1 DEF Counts
<1>1. new \in PatrolRows /\ row \in ScanRows /\ new.status = "new" /\ new.scanned = 0
  BY <1>0 DEF NoPatrol, PatrolRows, StopStatus, ScanRows, ScanStatus
<1>2. Parts(row, {"scanned"}) = {}
  BY DEF Parts
<1>3. Recorded(new, row) /\ ScansCounted(new, row)
  BY <1>1, <1>2, FS_EmptySet DEF Recorded, ScansCounted
<1>4. /\ Patrolled(p, days) = [d \in RoundDays |-> IF d \in days THEN new ELSE p[d]]
      /\ Posted(t, days) = [d \in RoundDays |-> IF d \in days THEN row ELSE t[d]]
  BY DEF Patrolled, Posted
<1> HIDE DEF new, row
<1> QED
  BY <1>1, <1>3, <1>4 DEF Beats

LEMMA LeftAgrees ==
    ASSUME NEW p, NEW t, Beats(p, t), NEW gone
    PROVE  Beats([d \in RoundDays |-> IF d \in gone THEN NoPatrol ELSE p[d]],
                 [d \in RoundDays |-> IF d \in gone THEN NoStops ELSE t[d]])
<1>0. 0 \in Counts
  <2>1. Cardinality(Spots) \in Nat
    BY RoundAssumption, FS_CardinalityType
  <2> QED
    BY <2>1 DEF Counts
<1>1. NoPatrol \in PatrolRows /\ NoStops \in ScanRows /\ NoPatrol.status = "none" /\ NoPatrol.scanned = 0
  BY <1>0 DEF NoPatrol, PatrolRows, StopStatus, NoStops, ScanRows, ScanStatus
<1>2. Parts(NoStops, {"scanned"}) = {}
  BY DEF Parts, NoStops
<1>3. Recorded(NoPatrol, NoStops) /\ ScansCounted(NoPatrol, NoStops)
  BY <1>1, <1>2, FS_EmptySet DEF Recorded, ScansCounted
<1> QED
  BY <1>1, <1>3 DEF Beats

(* One day of patrols changes.                                              *)
LEMMA BeatMoves ==
    ASSUME RoundInv, NEW e \in RoundDays, NEW now \in PatrolRows, NEW row \in ScanRows,
           patrol' = [patrol EXCEPT ![e] = now], scan' = [scan EXCEPT ![e] = row],
           Recorded(now, row), serial => ScansCounted(now, row), UNCHANGED <<beat, serial>>
    PROVE  PatrolSide'
<1>1. Beats(patrol, scan) /\ beat \in BOOLEAN
  BY BeatsOfSide DEF RoundInv, PatrolSide
<1>2. \A d \in RoundDays : /\ d # e => patrol'[d] = patrol[d] /\ scan'[d] = scan[d]
                           /\ d = e => patrol'[d] = now /\ scan'[d] = row
  BY <1>1 DEF Beats
<1>3. patrol' \in [RoundDays -> PatrolRows] /\ scan' \in [RoundDays -> ScanRows]
  BY <1>1 DEF Beats
<1>4. Beats(patrol', scan')
  BY <1>1, <1>2, <1>3 DEF Beats
<1> QED
  BY <1>1, <1>4, SideOfBeats

LEMMA ChangeBeatWrites ==
    ASSUME RoundInv, NEW active \in BOOLEAN, ChangeBeat(active)
    PROVE  RoundInv'
<1> DEFINE gone == {d \in RoundDays : d > day /\ patrol[d].status \in {"new", "cancelled"}}
           left == [d \in RoundDays |-> IF d \in gone THEN NoPatrol ELSE patrol[d]]
           bare == [d \in RoundDays |-> IF d \in gone THEN NoStops ELSE scan[d]]
           days == IF active THEN Unpatrolled(left) ELSE {}
<1>1. /\ beat' = active /\ patrol' = Patrolled(left, days) /\ scan' = Posted(bare, days) /\ Calm
      /\ UNCHANGED <<route, walk, stop, day, ops, serial>>
  BY DEF ChangeBeat
<1> HIDE DEF gone, days
<1>2. Beats(left, bare)
  BY BeatsOfSide, LeftAgrees DEF RoundInv
<1> HIDE DEF left, bare
<1>3. Beats(Patrolled(left, days), Posted(bare, days))
  BY <1>2, PostedAgrees
<1>4. PatrolSide'
  BY <1>1, <1>3, SideOfBeats
<1>5. RouteSide' /\ RoundHandlers' /\ day' \in RoundDays /\ serial' \in BOOLEAN
  BY <1>1, RouteStays, RoundCalm DEF RoundInv
<1> QED
  BY <1>4, <1>5 DEF RoundInv

LEMMA PatrolsWrite == ASSUME RoundInv, GeneratePatrols PROVE RoundInv'
<1> DEFINE days == Unpatrolled(patrol)
<1>1. /\ patrol' = Patrolled(patrol, days) /\ scan' = Posted(scan, days) /\ Calm
      /\ UNCHANGED <<route, walk, stop, beat, day, ops, serial>>
  BY DEF GeneratePatrols
<1> HIDE DEF days
<1>2. PatrolSide'
  <2>1. Beats(patrol', scan') /\ beat' \in BOOLEAN
    BY <1>1, BeatsOfSide, PostedAgrees DEF RoundInv, PatrolSide
  <2> QED
    BY <1>1, <2>1, SideOfBeats
<1>3. RouteSide' /\ RoundHandlers' /\ day' \in RoundDays /\ serial' \in BOOLEAN
  BY <1>1, RouteStays, RoundCalm DEF RoundInv
<1> QED
  BY <1>2, <1>3 DEF RoundInv

LEMMA ScanBegins ==
    ASSUME RoundInv, NEW q \in Requests, NEW d \in RoundDays, NEW c \in Spots, ScanRead(q, d, c)
    PROVE  RoundInv'
<1> DEFINE scanned == Cardinality(Parts([scan[d] EXCEPT ![c] = "scanned"], {"scanned"}))
           op == [kind |-> "scan", day |-> d, spot |-> c, scanned |-> scanned]
<1>1. Begin(q, op) /\ UNCHANGED <<route, walk, stop, beat, patrol, scan, day, serial>>
  BY DEF ScanRead
<1>2. scanned \in Counts
  BY PartsCount
<1>3. SeenStands(op)
  BY DEF SeenStands
<1>4. op \in RoundOps
  <2> HIDE DEF scanned
  <2> QED
    BY <1>2 DEF RoundOps, ScanOp
<1> HIDE DEF op
<1> QED
  BY <1>1, <1>3, <1>4, RoundBegins

LEMMA ScanWrites == ASSUME RoundInv, NEW q \in Requests, ScanCommit(q) PROVE RoundInv'
<1> DEFINE op == ops[q]
           e == op.day
           now == [patrol[e] EXCEPT !.scanned = op.scanned]
           row == [scan[e] EXCEPT ![op.spot] = "scanned"]
<1>1. op \in ScanOp /\ op # NoOp /\ End(q) /\ op.kind = "scan"
  BY RoundOpOfKind DEF ScanCommit, RoundInv
<1>2. e \in RoundDays /\ op.spot \in Spots /\ op.scanned \in Counts
  BY <1>1 DEF ScanOp
<1>3. /\ patrol[e] \in PatrolRows /\ scan[e] \in ScanRows /\ Recorded(patrol[e], scan[e])
      /\ patrol \in [RoundDays -> PatrolRows] /\ scan \in [RoundDays -> ScanRows]
  BY <1>2 DEF RoundInv, PatrolSide
<1>4. /\ patrol' = [patrol EXCEPT ![e] = now] /\ scan' = [scan EXCEPT ![e] = row]
      /\ UNCHANGED <<route, walk, stop, beat, day, serial>>
  BY <1>2, <1>3 DEF ScanCommit
<1>5. serial => op.scanned = Cardinality(Parts(row, {"scanned"}))
  BY <1>1 DEF RoundInv, RoundHandlers, RoundTurns, SeenStands
<1>6. /\ now \in PatrolRows /\ now.status = patrol[e].status /\ now.scanned = op.scanned
  BY <1>2, <1>3 DEF PatrolRows
<1>7. row \in ScanRows /\ row[op.spot] = "scanned" /\ \A c \in Spots : c # op.spot => row[c] = scan[e][c]
  BY <1>2, <1>3 DEF ScanRows, ScanStatus
<1> HIDE DEF now, row
<1>8. Recorded(now, row)
  BY <1>2, <1>3, <1>6, <1>7 DEF Recorded, Parts
<1>9. serial => ScansCounted(now, row)
  BY <1>5, <1>6 DEF ScansCounted
<1>10. PatrolSide'
  BY <1>2, <1>4, <1>6, <1>7, <1>8, <1>9, BeatMoves
<1>11. RouteSide' /\ RoundHandlers' /\ day' \in RoundDays /\ serial' \in BOOLEAN
  BY <1>1, <1>4, RouteStays, RoundEnds DEF RoundInv
<1> QED
  BY <1>10, <1>11 DEF RoundInv

LEMMA MissedWrites ==
    ASSUME RoundInv, NEW e \in RoundDays, NEW c \in Spots, MarkMissed(e, c)
    PROVE  RoundInv'
<1> DEFINE now == patrol[e]
           row == [scan[e] EXCEPT ![c] = "missed"]
<1>1. /\ now \in PatrolRows /\ scan[e] \in ScanRows /\ Recorded(now, scan[e])
      /\ serial => ScansCounted(now, scan[e])
      /\ patrol \in [RoundDays -> PatrolRows] /\ scan \in [RoundDays -> ScanRows]
  BY DEF RoundInv, PatrolSide
<1>2. /\ patrol' = [patrol EXCEPT ![e] = now] /\ scan' = [scan EXCEPT ![e] = row] /\ scan[e][c] = "pending"
      /\ UNCHANGED <<route, walk, stop, beat, day, ops, serial>> /\ Calm
  BY <1>1 DEF MarkMissed
<1>3. row \in ScanRows /\ row[c] = "missed" /\ \A d \in Spots : d # c => row[d] = scan[e][d]
  BY <1>1 DEF ScanRows, ScanStatus
<1> HIDE DEF row
<1>4. Parts(row, {"scanned"}) = Parts(scan[e], {"scanned"}) /\ Parts(row, {"pending"}) \subseteq Parts(scan[e], {"pending"})
  BY <1>2, <1>3 DEF Parts
<1>5. Recorded(now, row) /\ (serial => ScansCounted(now, row))
  BY <1>1, <1>4 DEF Recorded, ScansCounted
<1>6. PatrolSide'
  BY <1>1, <1>2, <1>3, <1>5, BeatMoves
<1>7. RouteSide' /\ RoundHandlers' /\ day' \in RoundDays /\ serial' \in BOOLEAN
  BY <1>2, RouteStays, RoundCalm DEF RoundInv
<1> QED
  BY <1>6, <1>7 DEF RoundInv

LEMMA PatrolWrites ==
    ASSUME RoundInv, NEW e \in RoundDays, NEW action \in DOMAIN StopRule, PatrolAct(e, action)
    PROVE  RoundInv'
<1> DEFINE to == StopRule[action].to
           now == [patrol[e] EXCEPT !.status = to]
           row == IF action = "complete" THEN AllRecorded(scan[e]) ELSE scan[e]
<1>1. /\ patrol[e] \in PatrolRows /\ scan[e] \in ScanRows
      /\ serial => ScansCounted(patrol[e], scan[e])
      /\ patrol \in [RoundDays -> PatrolRows] /\ scan \in [RoundDays -> ScanRows]
  BY DEF RoundInv, PatrolSide
<1>2. /\ patrol' = [patrol EXCEPT ![e] = now] /\ scan' = [scan EXCEPT ![e] = row]
      /\ UNCHANGED <<route, walk, stop, beat, day, ops, serial>> /\ Calm
  BY <1>1 DEF PatrolAct
<1>3. to \in StopStatus /\ (to = "completed" => action = "complete")
  BY DEF StopRule, StopStatus
<1> HIDE DEF to
<1>4. now \in PatrolRows /\ now.status = to /\ now.scanned = patrol[e].scanned
  BY <1>1, <1>3 DEF PatrolRows
<1>5. /\ row \in ScanRows /\ Parts(row, {"scanned"}) = Parts(scan[e], {"scanned"})
      /\ action = "complete" => Parts(row, {"pending"}) = {}
  BY <1>1 DEF AllRecorded, ScanRows, ScanStatus, Parts
<1> HIDE DEF now, row
<1>6. Recorded(now, row) /\ (serial => ScansCounted(now, row))
  BY <1>1, <1>3, <1>4, <1>5 DEF Recorded, ScansCounted
<1>7. PatrolSide'
  BY <1>2, <1>4, <1>5, <1>6, BeatMoves
<1>8. RouteSide' /\ RoundHandlers' /\ day' \in RoundDays /\ serial' \in BOOLEAN
  BY <1>2, RouteStays, RoundCalm DEF RoundInv
<1> QED
  BY <1>7, <1>8 DEF RoundInv

LEMMA PatrolGone ==
    ASSUME RoundInv, NEW e \in RoundDays, DeletePatrol(e)
    PROVE  RoundInv'
<1>1. /\ patrol \in [RoundDays -> PatrolRows] /\ scan \in [RoundDays -> ScanRows] /\ Beats(patrol, scan)
  BY BeatsOfSide DEF RoundInv, PatrolSide
<1>2. /\ patrol' = [d \in RoundDays |-> IF d \in {e} THEN NoPatrol ELSE patrol[d]]
      /\ scan' = [d \in RoundDays |-> IF d \in {e} THEN NoStops ELSE scan[d]]
      /\ UNCHANGED <<route, walk, stop, beat, day, ops, serial>> /\ Calm
  BY <1>1 DEF DeletePatrol
<1> DEFINE gone == {e}
           left == [d \in RoundDays |-> IF d \in gone THEN NoPatrol ELSE patrol[d]]
           bare == [d \in RoundDays |-> IF d \in gone THEN NoStops ELSE scan[d]]
<1>l. patrol' = left /\ scan' = bare
  BY <1>2
<1> HIDE DEF gone
<1>b. Beats(left, bare)
  BY <1>1, LeftAgrees
<1> HIDE DEF left, bare
<1>3. Beats(patrol', scan')
  BY <1>l, <1>b
<1>4. PatrolSide'
  BY <1>2, <1>3, SideOfBeats DEF RoundInv, PatrolSide
<1>5. RouteSide' /\ RoundHandlers' /\ day' \in RoundDays /\ serial' \in BOOLEAN
  BY <1>2, RouteStays, RoundCalm DEF RoundInv
<1> QED
  BY <1>4, <1>5 DEF RoundInv

-----------------------------------------------------------------------------
LEMMA RoundInitially == RoundIdle /\ TxInit => RoundInv
<1> SUFFICES ASSUME RoundIdle, TxInit PROVE RoundInv
  OBVIOUS
<1>1. /\ route = [active |-> FALSE, stops |-> {}] /\ beat = FALSE /\ day \in RoundDays
      /\ walk = [d \in RoundDays |-> NoWalk] /\ stop = [d \in RoundDays |-> NoStops]
      /\ patrol = [d \in RoundDays |-> NoPatrol] /\ scan = [d \in RoundDays |-> NoStops]
      /\ ops = [q \in Requests |-> NoOp] /\ serial \in BOOLEAN
  BY DEF RoundIdle, TxInit
<1>2. 0 \in Counts
  <2>1. Cardinality(Spots) \in Nat
    BY RoundAssumption, FS_CardinalityType
  <2> QED
    BY <2>1 DEF Counts
<1>3. /\ NoWalk \in WalkRows /\ NoPatrol \in PatrolRows /\ NoStops \in StopRows /\ NoStops \in ScanRows
      /\ NoWalk.status = "none" /\ NoPatrol.status = "none" /\ NoPatrol.scanned = 0
      /\ Parts(NoStops, {"scanned"}) = {}
  BY <1>2 DEF NoWalk, NoPatrol, NoStops, WalkRows, PatrolRows, StopRows, StopStatus, ScanRows, ScanStatus, Parts
<1>4. WalkAgrees(NoWalk, NoStops) /\ Recorded(NoPatrol, NoStops) /\ ScansCounted(NoPatrol, NoStops)
  BY <1>3, FS_EmptySet DEF WalkAgrees, Recorded, ScansCounted
<1>5. RouteSide
  BY <1>1, <1>3, <1>4 DEF RouteSide, Routes
<1>6. PatrolSide
  BY <1>1, <1>3, <1>4 DEF PatrolSide
<1>7. RoundHandlers
  BY <1>1 DEF RoundHandlers, RoundTurns, RoundOps
<1> QED
  BY <1>1, <1>5, <1>6, <1>7 DEF RoundInv

LEMMA RoundStep == RoundInv /\ [RoundNext]_roundVars => RoundInv'
<1> SUFFICES ASSUME RoundInv, [RoundNext]_roundVars PROVE RoundInv'
  OBVIOUS
<1>1. ASSUME NEW q \in Requests, RoundAbort(q) PROVE RoundInv'
  BY <1>1, RouteStays, PatrolStays, RoundEnds DEF RoundAbort, RoundInv
<1>2. CASE RoundDayPasses
  <2>1. day' \in RoundDays
    BY <1>2, RoundAssumption DEF RoundDayPasses, RoundInv, RoundDays
  <2>2. RouteSide' /\ PatrolSide' /\ serial' \in BOOLEAN
    BY <1>2, RouteStays, PatrolStays DEF RoundDayPasses, RoundInv
  <2>3. RoundHandlers'
    BY <1>2 DEF RoundDayPasses, RoundInv, RoundHandlers, RoundTurns, SeenStands
  <2> QED
    BY <2>1, <2>2, <2>3 DEF RoundInv
<1>3. CASE UNCHANGED roundVars
  <2>1. RouteSide' /\ PatrolSide' /\ serial' \in BOOLEAN /\ day' \in RoundDays
    BY <1>3, RouteStays, PatrolStays DEF roundVars, RoundInv
  <2>2. RoundHandlers'
    BY <1>3 DEF roundVars, RoundInv, RoundHandlers, RoundTurns, SeenStands
  <2> QED
    BY <2>1, <2>2 DEF RoundInv
<1>4. CASE RouteNext
  BY <1>4, CreateWrites, RouteReads, DeleteWrites, RunsWrite, ChangeWrites, StopWrites DEF RouteNext, SomeStops
<1>5. CASE PatrolNext
  BY <1>5, ChangeBeatWrites, PatrolsWrite, PatrolGone, PatrolWrites, MissedWrites, ScanBegins, ScanWrites
     DEF PatrolNext
<1> QED
  BY <1>1, <1>2, <1>3, <1>4, <1>5 DEF RoundNext

LEMMA RoundInvariant == RoundSpec => []RoundInv
<1> QED
  BY RoundInitially, RoundStep, PTL DEF RoundSpec

(* Runs, stops, patrols and scans have their types whatever overlaps.       *)
THEOREM RoundsTyped == RoundSpec => []RoundTypeOK
<1>1. RoundInv => RoundTypeOK
  BY DEF RoundInv, RouteSide, PatrolSide, RoundTypeOK, Routes, WalkRows, StopRows, PatrolRows, ScanRows,
         StopStatus, ScanStatus, Counts
<1> QED
  BY <1>1, RoundInvariant, PTL

(* A completed patrol leaves nothing pending whatever overlaps; while       *)
(* handlers take turns its count is that of the checkpoints scanned, and a  *)
(* run shows what became of its stops.                                      *)
THEOREM RoundsShowTheirParts == RoundSpec => []RoundsAgree
<1>1. ASSUME RoundInv PROVE RunsAgree
  BY <1>1 DEF RoundInv, RouteSide, RunsAgree, WalkAgrees, Whole, Present
<1>2. RoundInv => PatrolsAgree
  BY DEF RoundInv, PatrolSide, PatrolsAgree, Recorded, ScansCounted
<1>3. RoundInv => RoundsAgree
  BY <1>1, <1>2 DEF RoundsAgree
<1> QED
  BY <1>3, RoundInvariant, PTL
=============================================================================
