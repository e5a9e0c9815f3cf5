-------------------------- MODULE LiveTrader_proofs --------------------------
(***************************************************************************)
(* Theorems about LiveTrader, for every value of its constants.            *)
(***************************************************************************)
EXTENDS LiveTrader, TLAPS

-----------------------------------------------------------------------------
(* Types. *)

\* The next state of the state record, whatever writes it, is a state record.
LEMMA ReplayType ==
    ASSUME TypeOK, NEW long \in BOOLEAN, NEW from, NEW to
    PROVE  Replay(long, from, to) \in BOOLEAN
<1>1. \A x, bar : AfterBar(x, bar) \in BOOLEAN
  BY DEF AfterBar
<1>2. CASE to = from
  BY <1>2 DEF Replay
<1>3. CASE to # from
  <2> DEFINE before ==
        CHOOSE b : b = [i \in from + 1 .. to |->
            IF i = from + 1 THEN long ELSE AfterBar(b[i - 1], bars[i - 1])]
  <2>1. Replay(long, from, to) = AfterBar(before[to], bars[to])
    BY <1>3, Zenon DEF Replay
  <2> QED BY <2>1, <1>1
<1> QED BY <1>2, <1>3

LEMMA StopType ==
    ASSUME TypeOK PROVE ReplayStop \in Nat
<1>1. stored \in Nat /\ mem.done \in Nat
  BY DEF TypeOK, States
<1>2. MaxBarsPerCycle \in Nat
  BY ConfigAssumption
<1> QED BY <1>1, <1>2 DEF ReplayStop, Least

LEMMA ReplayedType ==
    ASSUME TypeOK
    PROVE  /\ Replayed \in States
           /\ Replayed.marker = mem.marker
           /\ Replayed.base = mem.base
<1>1. Replay(mem.long, mem.done, ReplayStop) \in BOOLEAN
  BY ReplayType DEF TypeOK, States
<1> QED BY <1>1, StopType DEF Replayed, TypeOK, States

LEMMA ReconciledType ==
    ASSUME NEW m \in States, NEW own \in BOOLEAN, NEW base \in Nat, NEW quote \in Nat
    PROVE  /\ Reconciled(m, own, base, quote) \in States
           /\ Reconciled(m, own, base, quote).marker = m.marker
<1>1. QuoteCap \in Nat
  BY ConfigAssumption
<1>2. \A b : HoldsPosition(b) \in BOOLEAN
  BY DEF HoldsPosition
<1> QED BY <1>1, <1>2 DEF Reconciled, States, Least

LEMMA ReconcileKeepsMarker ==
    ASSUME TypeOK, NEW own \in BOOLEAN, Reconcile(own)
    PROVE  mem'.marker = mem.marker
<1>1. mem \in States /\ coins \in Nat /\ cash \in Nat
  BY DEF TypeOK, VenueTypeOK
<1>2. Reconciled(mem, own, coins, cash).marker = mem.marker
  BY <1>1, ReconciledType, Zenon
<1> QED BY <1>2 DEF Reconcile

LEMMA BlockedType ==
    ASSUME NEW m, NEW own, NEW base
    PROVE  Blocked(m, own, base) \in Reasons
<1> QED BY DEF Blocked, Reasons

LEMMA BookedType ==
    ASSUME NEW m \in States, NEW k \in Nat
    PROVE  /\ Booked(m, k) \in States
           /\ Booked(m, k).marker = NoId
<1>1. \A b : HoldsPosition(b) \in BOOLEAN
  BY DEF HoldsPosition
<1> DEFINE base == IF m.marker.side = "buy" THEN m.base + k
                   ELSE IF k < m.base THEN m.base - k ELSE 0
           quote == IF m.marker.side = "sell" THEN m.quote + k
                    ELSE IF k < m.quote THEN m.quote - k ELSE 0
<1>2. base \in Nat /\ quote \in Nat
  BY DEF States
<1>3. Booked(m, k) = [m EXCEPT !.base = base, !.quote = quote,
                               !.bought = HoldsPosition(base), !.marker = NoId]
  BY DEF Booked
<1> HIDE DEF base, quote
<1> QED BY <1>1, <1>2, <1>3 DEF States

LEMMA AcknowledgedType ==
    ASSUME NEW m \in States
    PROVE  /\ Acknowledged(m) \in States
           /\ Acknowledged(m).marker = m.marker
<1> QED BY DEF Acknowledged, States

LEMMA OrderIdType ==
    ASSUME TypeOK, NEW m \in States, NEW side \in Sides
    PROVE  OrderId(m, side) \in Ids
<1>1. stored \in Nat
  BY DEF TypeOK
<1> QED BY <1>1 DEF OrderId, Ids, States

LEMMA DustType ==
    ASSUME TypeOK, stored > 0 PROVE Dust \in Nat
<1>1. bars[stored] \in Bars
  BY DEF TypeOK
<1> QED BY <1>1, BoundsAssumption DEF Dust, Bars

LEMMA BudgetType ==
    ASSUME TypeOK, NEW f \in Fractions PROVE Budget(f) \in Nat
<1>1. f \in 0 .. 2
  BY BoundsAssumption
<1>2. mem.quote \in Nat
  BY DEF TypeOK, States
<1> QED BY <1>1, <1>2 DEF Budget

LEMMA SaveType ==
    ASSUME TypeOK, NEW m \in States, SaveAndRest(m)
    PROVE  /\ mem' \in States /\ disk' \in States
           /\ pc' \in PCs
           /\ faults' \in Nat
<1> QED BY DEF SaveAndRest, Fault, TypeOK, PCs

LEMMA AcceptType ==
    ASSUME VenueTypeOK, NEW id \in Ids, NEW qty \in Nat, Accept(id, qty)
    PROVE  VenueTypeOK'
<1>1. /\ DOMAIN orders' = DOMAIN orders \union {id}
      /\ \A o \in DOMAIN orders' : orders'[o] \in Order
  BY DEF Accept, VenueTypeOK, Order
<1>2. orders' \in [DOMAIN orders' -> Order]
  BY <1>1 DEF Accept
<1>3. cash' \in Nat /\ coins' \in Nat
  BY DEF Accept, Affordable, VenueTypeOK
<1> QED BY <1>1, <1>2, <1>3 DEF Accept, VenueTypeOK

LEMMA MatchType ==
    ASSUME VenueTypeOK, NEW id \in DOMAIN orders, NEW k \in Int,
           NEW closes \in BOOLEAN, Match(id, k, closes)
    PROVE  /\ VenueTypeOK'
           /\ DOMAIN orders' = DOMAIN orders
           /\ orders'[id] = [orders[id] EXCEPT !.filled = @ + k, !.live = ~closes]
           /\ \A o \in DOMAIN orders \ {id} : orders'[o] = orders[o]
<1> DEFINE rest == orders[id].qty - orders[id].filled
           released == IF closes THEN rest - k ELSE 0
<1>1. /\ orders[id] \in Order
      /\ rest \in Int /\ k \in 0 .. rest /\ released \in Nat
  BY DEF VenueTypeOK, Match, Order
<1>2. /\ DOMAIN orders' = DOMAIN orders
      /\ orders'[id] = [orders[id] EXCEPT !.filled = @ + k, !.live = ~closes]
      /\ \A o \in DOMAIN orders \ {id} : orders'[o] = orders[o]
      /\ orders' = [o \in DOMAIN orders |-> orders'[o]]
  BY DEF Match, VenueTypeOK
<1>3. orders'[id] \in Order
  <2>1. orders[id].filled + k \in Nat /\ (~closes) \in BOOLEAN
    BY <1>1 DEF Order
  <2> DEFINE filled == orders[id].filled + k
             live == ~closes
  <2>2. orders'[id] = [orders[id] EXCEPT !.filled = filled, !.live = live]
    BY <1>2
  <2> HIDE DEF filled, live
  <2> QED BY <1>1, <2>1, <2>2 DEF Order, filled, live
<1>4. orders' \in [DOMAIN orders' -> Order]
  BY <1>2, <1>3 DEF VenueTypeOK
<1>5. /\ coins' \in Nat /\ cash' \in Nat /\ held' \in Int
      /\ thin' \in Nat /\ moves' \in Nat
  BY <1>1 DEF Match, VenueTypeOK
<1> QED BY <1>2, <1>4, <1>5 DEF VenueTypeOK

LEMMA FaultType == ASSUME TypeOK, NEW kind, Fault(kind) PROVE faults' \in Nat
<1> QED BY DEF Fault, TypeOK

LEMMA MarkPendingType ==
    ASSUME TypeOK, NEW side \in Sides, NEW qty \in Nat, MarkPending(side, qty)
    PROVE  /\ mem' \in States /\ disk' \in States /\ pc' \in PCs
           /\ amount' \in Nat /\ faults' \in Nat
<1> DEFINE marked == [Replayed EXCEPT !.marker = OrderId(Replayed, side)]
<1>1. marked \in States
  BY ReplayedType, OrderIdType DEF States
<1>2. /\ mem' = marked
      /\ \/ disk' = marked /\ pc' = "send" /\ amount' = qty /\ UNCHANGED faults
         \/ Fault("save") /\ disk' \in {disk, marked} /\ pc' = "idle" /\ UNCHANGED amount
  BY DEF MarkPending
<1> HIDE DEF marked
<1> QED BY <1>1, <1>2, FaultType DEF TypeOK, PCs

\* What a process that is placing an order may rely on: it has an id, which
\* the venue knows once it has accepted the order.
Placing ==
    /\ pc = "send" => mem.marker \in Ids
    /\ pc = "read" => mem.marker \in DOMAIN orders

LEMMA TypeStep ==
    ASSUME TypeOK, Placing, [Next]_vars PROVE TypeOK'
<1>1. CASE UNCHANGED vars
  BY <1>1 DEF vars, TypeOK, VenueTypeOK
<1>2. CASE CloseBar
  <2>1. PICK bar \in Bars : bars' = Append(bars, bar)
    BY <1>2 DEF CloseBar
  <2>2. bars' \in Seq(Bars) /\ stored \in 0 .. Len(bars')
    BY <2>1 DEF TypeOK
  <2> QED BY <1>2, <2>2 DEF CloseBar, TypeOK, VenueTypeOK, venueVars, botVars
<1>3. CASE OthersMove
  <2>1. coins \in Nat /\ moves \in Nat
    BY DEF TypeOK, VenueTypeOK
  <2>2. ASSUME ForeignDeposit PROVE coins' \in Nat /\ moves' \in Nat
    <3>1. coins' = coins + 1 /\ moves' = moves + 1
      BY <2>2 DEF ForeignDeposit
    <3> QED BY <2>1, <3>1
  <2>3. ASSUME ForeignWithdraw PROVE coins' \in Nat /\ moves' \in Nat
    <3>1. coins > 0 /\ coins' = coins - 1 /\ moves' = moves + 1
      BY <2>3 DEF ForeignWithdraw
    <3> QED BY <2>1, <3>1
  <2>4. coins' \in Nat /\ moves' \in Nat
    BY <1>3, <2>2, <2>3 DEF OthersMove
  <2>5. UNCHANGED <<orders, cash, held, thin>>
    BY <1>3 DEF OthersMove, ForeignDeposit, ForeignWithdraw
  <2>6. VenueTypeOK'
    BY <2>4, <2>5 DEF TypeOK, VenueTypeOK
  <2> QED BY <1>3, <2>6 DEF OthersMove, TypeOK, Reasons
<1>4. CASE VenueMatches
  <2>1. PICK id \in DOMAIN orders :
           \E k \in 0 .. orders[id].qty, closes \in BOOLEAN : Match(id, k, closes)
    BY <1>4 DEF VenueMatches
  <2>2. orders[id].qty \in Nat
    BY DEF TypeOK, VenueTypeOK, Order
  <2>3. PICK k \in Int, closes \in BOOLEAN : Match(id, k, closes)
    BY <2>1, <2>2
  <2>4. VenueTypeOK'
    BY <2>3, MatchType DEF TypeOK
  <2> QED BY <1>4, <2>4 DEF VenueMatches, TypeOK, botVars
<1>5. CASE Crash
  BY <1>5, FaultType DEF Crash, TypeOK, VenueTypeOK, venueVars, PCs, Reasons
<1>6. CASE Restart
  BY <1>6 DEF Restart, TypeOK, VenueTypeOK, venueVars, PCs
<1>7. CASE BeginCycle
  <2>1. faults' \in Nat
    BY <1>7, FaultType DEF BeginCycle, TypeOK
  <2>2. Len(bars) \in Nat /\ stored \in 0 .. Len(bars)
    BY DEF TypeOK
  <2>3. stored' = Len(bars) \/ stored' = stored
    BY <1>7 DEF BeginCycle
  <2>4. stored' \in 0 .. Len(bars)
    BY <2>2, <2>3
  <2>5. pc' \in {"ask", "reconcile", "decide"}
    BY <1>7 DEF BeginCycle, Resume
  <2>6. halted' \in Reasons
    BY <1>7 DEF BeginCycle, TypeOK, Reasons
  <2> QED
    BY <1>7, <2>1, <2>4, <2>5, <2>6 DEF BeginCycle, TypeOK, VenueTypeOK, venueVars, PCs
<1>8. CASE NoData
  BY <1>8, SaveType, FaultType DEF NoData, TypeOK, VenueTypeOK, venueVars
<1>9. CASE AwaitOrder
  BY <1>9, SaveType DEF AwaitOrder, TypeOK, VenueTypeOK, venueVars
<1>10. CASE OrderGone
  BY <1>10, FaultType DEF OrderGone, TypeOK, VenueTypeOK, venueVars, States, PCs
<1>11. ASSUME NEW own \in BOOLEAN, Reconcile(own)
       PROVE  mem' \in States /\ block' \in Reasons /\ faults' \in Nat
  <2>1. /\ Reconciled(mem, own, coins, cash) \in States
        /\ Blocked(mem, own, coins) \in Reasons
    BY ReconciledType, BlockedType DEF TypeOK, VenueTypeOK
  <2> QED BY <1>11, <2>1, FaultType DEF Reconcile, TypeOK
<1>12. CASE ReconcileOwnFill
  BY <1>11, <1>12 DEF ReconcileOwnFill, TypeOK, VenueTypeOK, venueVars, PCs, Resume
<1>13. CASE ReconcileCycle
  BY <1>11, <1>13 DEF ReconcileCycle, TypeOK, VenueTypeOK, venueVars, PCs
<1>14. CASE Backlog
  BY <1>14, SaveType, ReplayedType DEF Backlog, TypeOK, VenueTypeOK, venueVars
<1>15. CASE Halt
  BY <1>15, SaveType, ReplayedType DEF Halt, TypeOK, VenueTypeOK, venueVars, Reasons
<1>16. CASE Hold
  BY <1>16, SaveType, ReplayedType DEF Hold, TypeOK, VenueTypeOK, venueVars
<1>17. CASE PlaceBuy
  <2>1. PICK f \in Fractions :
           IF HoldsPosition(Budget(f))
           THEN MarkPending("buy", Budget(f))
           ELSE SaveAndRest(Replayed) /\ UNCHANGED amount
    BY <1>17 DEF PlaceBuy
  <2>2. /\ mem' \in States /\ disk' \in States /\ pc' \in PCs
        /\ amount' \in Nat /\ faults' \in Nat
    BY <2>1, BudgetType, MarkPendingType, SaveType, ReplayedType DEF Sides, TypeOK
  <2> QED BY <1>17, <2>2 DEF PlaceBuy, TypeOK, VenueTypeOK, venueVars
<1>18. CASE PlaceSell
  <2>1. [Replayed EXCEPT !.bought = FALSE] \in States
    BY ReplayedType DEF States
  <2>2. mem.base \in Nat
    BY DEF TypeOK, States
  <2>3. /\ mem' \in States /\ disk' \in States /\ pc' \in PCs
        /\ amount' \in Nat /\ faults' \in Nat
    BY <1>18, <2>1, <2>2, MarkPendingType, SaveType DEF PlaceSell, Sides, TypeOK
  <2> QED BY <1>18, <2>3 DEF PlaceSell, TypeOK, VenueTypeOK, venueVars
<1>19. CASE SendFails
  BY <1>19, FaultType DEF SendFails, TypeOK, VenueTypeOK, venueVars, PCs
<1>20. CASE SendDuplicate
  BY <1>20, AcknowledgedType DEF SendDuplicate, TypeOK, VenueTypeOK, venueVars, PCs
<1>21. CASE SendRejected
  BY <1>21 DEF SendRejected, TypeOK, VenueTypeOK, venueVars, PCs
<1>22. CASE SendAccepted
  <2>1. VenueTypeOK'
    BY <1>22, AcceptType DEF SendAccepted, Placing, TypeOK
  <2> QED BY <1>22, <2>1, FaultType DEF SendAccepted, TypeOK, PCs
<1>23. CASE ReadBackFails
  BY <1>23, AcknowledgedType, FaultType DEF ReadBackFails, TypeOK, VenueTypeOK, venueVars, PCs
<1>24. CASE ReadBackEmpty
  BY <1>24, AcknowledgedType DEF ReadBackEmpty, TypeOK, VenueTypeOK, venueVars, PCs
<1>25. CASE EndCycle
  BY <1>25, SaveType DEF EndCycle, TypeOK, VenueTypeOK, venueVars
<1>26. CASE ReadBackFilled
  <2> DEFINE k == orders[mem.marker].filled
  <2>1. mem.marker \in Ids /\ k \in Nat
    BY <1>26 DEF ReadBackFilled, Placing, TypeOK, VenueTypeOK, Order
  <2>2. mem' \in States
    BY <1>26, <2>1, BookedType, AcknowledgedType DEF ReadBackFilled, TypeOK
  <2>3. log' \in Seq(Ids \X Nat)
    BY <1>26, <2>1 DEF ReadBackFilled, TypeOK
  <2> QED BY <1>26, <2>2, <2>3 DEF ReadBackFilled, TypeOK, VenueTypeOK, venueVars, PCs
<1> QED
  BY <1>1, <1>2, <1>3, <1>4, <1>5, <1>6, <1>7, <1>8, <1>9, <1>10, <1>12, <1>13,
     <1>14, <1>15, <1>16, <1>17, <1>18, <1>19, <1>20, <1>21, <1>22, <1>23, <1>24,
     <1>25, <1>26
  DEF Next, Trader

LEMMA PlacingStep ==
    ASSUME TypeOK, Placing, [Next]_vars PROVE Placing'
<1> USE DEF Placing
<1>1. CASE UNCHANGED vars
  BY <1>1 DEF vars
<1>2. CASE CloseBar \/ OthersMove
  BY <1>2 DEF CloseBar, OthersMove, ForeignDeposit, ForeignWithdraw, venueVars, botVars
<1>3. CASE VenueMatches
  <2>1. DOMAIN orders' = DOMAIN orders
    BY <1>3 DEF VenueMatches, Match
  <2> QED BY <1>3, <2>1 DEF VenueMatches, botVars
<1>4. ASSUME NEW m, SaveAndRest(m) PROVE Placing'
  BY <1>4 DEF SaveAndRest
<1>5. ASSUME NEW side \in Sides, NEW qty, MarkPending(side, qty) PROVE Placing'
  <2>1. [Replayed EXCEPT !.marker = OrderId(Replayed, side)].marker \in Ids
    BY ReplayedType, OrderIdType DEF States
  <2> QED BY <1>5, <2>1 DEF MarkPending
<1>6. CASE PlaceBuy
  BY <1>4, <1>5, <1>6 DEF PlaceBuy, Sides
<1>7. CASE PlaceSell
  BY <1>4, <1>5, <1>7 DEF PlaceSell, Sides
<1>8. CASE AwaitOrder \/ Backlog \/ Halt \/ Hold \/ EndCycle
  BY <1>4, <1>8 DEF AwaitOrder, Backlog, Halt, Hold, EndCycle
<1>9. CASE NoData
  BY <1>4, <1>9 DEF NoData
<1>10. CASE Crash \/ Restart \/ BeginCycle \/ OrderGone
  BY <1>10 DEF Crash, Restart, BeginCycle, OrderGone, Resume
<1>11. CASE ReconcileOwnFill \/ ReconcileCycle
  BY <1>11 DEF ReconcileOwnFill, ReconcileCycle, Resume
<1>12. CASE SendFails \/ SendDuplicate \/ SendRejected
  BY <1>12 DEF SendFails, SendDuplicate, SendRejected
<1>13. CASE SendAccepted
  <2>1. mem.marker \in DOMAIN orders'
    BY <1>13 DEF SendAccepted, Accept
  <2> QED BY <1>13, <2>1 DEF SendAccepted
<1>14. CASE ReadBackFails \/ ReadBackEmpty \/ ReadBackFilled
  BY <1>14 DEF ReadBackFails, ReadBackEmpty, ReadBackFilled
<1> QED
  BY <1>1, <1>2, <1>3, <1>6, <1>7, <1>8, <1>9, <1>10, <1>11, <1>12, <1>13, <1>14
  DEF Next, Trader

LEMMA TypeInit == Init => TypeOK /\ Placing
<1> SUFFICES ASSUME Init PROVE TypeOK /\ Placing
  OBVIOUS
<1>1. VenueTypeOK
  <2>1. DOMAIN orders = {}
    BY DEF Init, VenueInit
  <2>2. orders \in [DOMAIN orders -> Order]
    BY <2>1 DEF Init, VenueInit
  <2>3. DOMAIN orders \subseteq Ids
    BY <2>1
  <2>4. coins \in Nat /\ cash \in Nat /\ held \in Int /\ thin \in Nat /\ moves \in Nat
    <3>1. coins = 0 /\ cash = StartCash /\ held = 0 /\ thin = 0 /\ moves = 0
      BY Zenon DEF Init, VenueInit
    <3> QED BY <3>1, StartCashAssumption
  <2> QED BY <2>2, <2>3, <2>4 DEF VenueTypeOK
<1>2. Fresh \in States
  BY StartCashAssumption DEF Fresh, States
<1>3. bars = <<>> /\ log = <<>> /\ stored = 0
  BY Zenon DEF Init
<1>4. bars \in Seq(Bars) /\ log \in Seq(Ids \X Nat) /\ stored \in 0 .. Len(bars)
  BY <1>3
<1>5. /\ mem = Fresh /\ disk = Fresh /\ pc = "down" /\ firstCycle = TRUE
      /\ block = "" /\ halted = "" /\ amount = 0 /\ faults = 0
  BY Zenon DEF Init
<1> QED BY <1>1, <1>2, <1>4, <1>5 DEF TypeOK, Placing, PCs, Reasons

\* The types are right whatever the constants: whatever fails, however many
\* bars, and whoever else uses the account.
THEOREM TypeCorrect == Spec => [](TypeOK /\ Placing)
<1>1. TypeOK /\ Placing /\ [Next]_vars => (TypeOK /\ Placing)'
  BY TypeStep, PlacingStep
<1> QED BY <1>1, TypeInit, PTL DEF Spec

-----------------------------------------------------------------------------
(* The write-ahead rule. *)

\* What the rule needs of the world: the venue closes an immediate-or-cancel
\* order in the step that matches it, and a failed openOrders() does not pass
\* for an empty book. Without either of them the rule is false.
WorldIsKind == AtomicMatch /\ "openOrders" \notin Faults

\* The inductive invariant: what can still trade is the order the process
\* remembers, a process that decides or sends has nothing that can still
\* trade, a process that sends has written its marker, and an order that can
\* still trade has not filled anything (or its marker would be cleared).
DurableInv ==
    /\ InFlightIsDurable
    /\ \A id \in DOMAIN orders : orders[id].live =>
          /\ id = mem.marker
          /\ orders[id].filled = 0
          /\ pc \notin {"own", "reconcile", "decide", "send"}
    /\ pc = "send" => disk.marker = mem.marker

LEMMA DurableStep ==
    ASSUME TypeOK, Placing, WorldIsKind, DurableInv, [Next]_vars
    PROVE  DurableInv'
<1> USE DEF DurableInv, InFlightIsDurable
<1>1. CASE UNCHANGED vars
  BY <1>1 DEF vars
<1>2. CASE CloseBar \/ OthersMove
  BY <1>2 DEF CloseBar, OthersMove, ForeignDeposit, ForeignWithdraw, venueVars, botVars
<1>3. CASE VenueMatches
  <2>1. PICK id \in DOMAIN orders :
           \E k \in 0 .. orders[id].qty, closes \in BOOLEAN : Match(id, k, closes)
    BY <1>3 DEF VenueMatches
  <2>2. orders[id].qty \in Nat
    BY DEF TypeOK, VenueTypeOK, Order
  <2>3. PICK k \in Int, closes \in BOOLEAN : Match(id, k, closes)
    BY <2>1, <2>2
  <2>4. /\ DOMAIN orders' = DOMAIN orders
        /\ orders'[id] = [orders[id] EXCEPT !.filled = @ + k, !.live = ~closes]
        /\ \A o \in DOMAIN orders \ {id} : orders'[o] = orders[o]
    <3>1. VenueTypeOK
      BY DEF TypeOK
    <3> HIDE DEF DurableInv, InFlightIsDurable
    <3> QED BY <2>3, <3>1 DEF Match, VenueTypeOK
  <2>5. closes
    BY <2>3 DEF Match, WorldIsKind
  <2>6. ~orders'[id].live
    BY <2>4, <2>5 DEF TypeOK, VenueTypeOK, Order
  <2> QED BY ZenonT(40), <1>3, <2>4, <2>6 DEF VenueMatches, botVars
\* Saving a state with the same marker keeps the rule.
<1>4. ASSUME NEW m, SaveAndRest(m), m.marker = mem.marker, UNCHANGED orders
      PROVE  DurableInv'
  BY <1>4 DEF SaveAndRest
\* Only a process with nothing at the venue writes another marker.
<1>5. ASSUME NEW side, NEW qty, MarkPending(side, qty), pc = "decide", UNCHANGED orders
      PROVE  DurableInv'
  BY <1>5 DEF MarkPending
<1>6. CASE PlaceBuy
  BY <1>4, <1>5, <1>6, ReplayedType DEF PlaceBuy, CaughtUp, venueVars
<1>7. CASE PlaceSell
  <2>1. [Replayed EXCEPT !.bought = FALSE].marker = mem.marker
    BY ReplayedType DEF States
  <2> QED BY <1>4, <1>5, <1>7, <2>1 DEF PlaceSell, CaughtUp, venueVars
<1>8. CASE AwaitOrder \/ Backlog \/ Halt \/ Hold \/ EndCycle
  BY <1>4, <1>8, ReplayedType DEF AwaitOrder, Backlog, Halt, Hold, EndCycle, venueVars
<1>9. CASE NoData
  BY <1>4, <1>9 DEF NoData, venueVars
<1>10. CASE Crash \/ Restart
  BY <1>10 DEF Crash, Restart, venueVars
<1>11. CASE BeginCycle
  <2>1. mem.marker = NoId => \A id \in DOMAIN orders : ~orders[id].live
    BY NoIdAssumption DEF TypeOK, VenueTypeOK
  <2> QED BY <1>11, <2>1 DEF BeginCycle, venueVars, Resume
<1>12. CASE OrderGone
  <2>1. ~Live(mem.marker)
    BY <1>12 DEF OrderGone, Fault, WorldIsKind
  <2>2. \A id \in DOMAIN orders : ~orders[id].live
    BY <2>1 DEF Live
  <2> QED BY <1>12, <2>2 DEF OrderGone, venueVars
<1>13. ASSUME NEW own \in BOOLEAN, Reconcile(own) PROVE mem'.marker = mem.marker
  BY <1>13, ReconcileKeepsMarker
<1>14. CASE ReconcileOwnFill \/ ReconcileCycle
  BY <1>13, <1>14 DEF ReconcileOwnFill, ReconcileCycle, venueVars, Resume
<1>15. CASE SendFails \/ SendDuplicate \/ SendRejected
  BY <1>15, AcknowledgedType DEF SendFails, SendDuplicate, SendRejected, venueVars, TypeOK
<1>16. CASE SendAccepted
  <2>1. /\ DOMAIN orders' = DOMAIN orders \union {mem.marker}
        /\ orders'[mem.marker].filled = 0
        /\ \A o \in DOMAIN orders' : o # mem.marker => orders'[o] = orders[o]
    BY <1>16 DEF SendAccepted, Accept
  <2>2. pc = "send" /\ pc' \in {"read", "save"} /\ UNCHANGED <<mem, disk>>
    BY <1>16 DEF SendAccepted
  <2> QED BY <2>1, <2>2
<1>17. CASE ReadBackFails \/ ReadBackEmpty
  BY <1>17, AcknowledgedType DEF ReadBackFails, ReadBackEmpty, venueVars, TypeOK
<1>18. CASE ReadBackFilled
  <2>1. \A id \in DOMAIN orders : ~orders[id].live
    BY <1>18 DEF ReadBackFilled
  <2> QED BY <1>18, <2>1 DEF ReadBackFilled, venueVars
<1> QED
  BY <1>1, <1>2, <1>3, <1>6, <1>7, <1>8, <1>9, <1>10, <1>11, <1>12, <1>14, <1>15,
     <1>16, <1>17, <1>18
  DEF Next, Trader

LEMMA DurableInit == Init => DurableInv
<1> SUFFICES ASSUME Init PROVE DurableInv
  OBVIOUS
<1>1. DOMAIN orders = {} /\ pc = "down"
  BY DEF Init, VenueInit
<1> QED BY <1>1 DEF DurableInv, InFlightIsDurable

\* Whatever crashes, lost answers and failed saves do, an order that can still
\* trade is named by the state file.
THEOREM InFlightDurable == WorldIsKind /\ Spec => []InFlightIsDurable
<1> SUFFICES ASSUME WorldIsKind PROVE Spec => []InFlightIsDurable
  OBVIOUS
<1>1. TypeOK /\ Placing /\ DurableInv /\ [Next]_vars => DurableInv'
  BY DurableStep
<1>2. DurableInv => InFlightIsDurable
  BY DEF DurableInv
<1> QED BY <1>1, <1>2, DurableInit, TypeCorrect, PTL DEF Spec

-----------------------------------------------------------------------------
(* The trade log. *)

\* What a process that reads an order back may rely on: it has not logged it.
LogInv ==
    /\ LogIsTruthful
    /\ pc = "read" => \A i \in DOMAIN log : log[i][1] # mem.marker

\* Only the venue's answer to a send and the venue itself change the orders;
\* only a read-back appends to the log.
LEMMA QuietStep ==
    ASSUME Trader \/ Crash, ~SendAccepted, ~ReadBackFilled
    PROVE  /\ UNCHANGED venueVars
           /\ UNCHANGED log
           /\ pc' \notin {"read"}
<1>1. ASSUME NEW m, SaveAndRest(m) PROVE pc' = "idle"
  BY <1>1 DEF SaveAndRest
<1>2. ASSUME NEW side, NEW qty, MarkPending(side, qty) PROVE pc' \in {"idle", "send"}
  BY <1>2 DEF MarkPending
<1>3. CASE PlaceBuy
  BY <1>1, <1>2, <1>3 DEF PlaceBuy
<1>4. CASE PlaceSell
  BY <1>1, <1>2, <1>4 DEF PlaceSell
<1>5. CASE AwaitOrder \/ Backlog \/ Halt \/ Hold \/ EndCycle
  BY <1>1, <1>5 DEF AwaitOrder, Backlog, Halt, Hold, EndCycle
<1>6. CASE NoData
  BY <1>1, <1>6 DEF NoData
<1>7. CASE Crash \/ Restart \/ BeginCycle \/ OrderGone
  BY <1>7 DEF Crash, Restart, BeginCycle, OrderGone, Resume
<1>8. CASE ReconcileOwnFill \/ ReconcileCycle
  BY <1>8 DEF ReconcileOwnFill, ReconcileCycle, Resume
<1>9. CASE SendFails \/ SendDuplicate \/ SendRejected \/ ReadBackFails \/ ReadBackEmpty
  BY <1>9 DEF SendFails, SendDuplicate, SendRejected, ReadBackFails, ReadBackEmpty
<1> QED
  BY <1>3, <1>4, <1>5, <1>6, <1>7, <1>8, <1>9 DEF Trader

\* What a match changes: one order, by k units.
Matched(id, k, closes) ==
    /\ Match(id, k, closes)
    /\ DOMAIN orders' = DOMAIN orders
    /\ orders'[id].filled = orders[id].filled + k
    /\ orders'[id].live = ~closes
    /\ \A o \in DOMAIN orders \ {id} : orders'[o] = orders[o]

LEMMA MatchStep ==
    ASSUME TypeOK, VenueMatches
    PROVE  \E id \in DOMAIN orders, k \in Nat, closes \in BOOLEAN : Matched(id, k, closes)
<1>1. PICK id \in DOMAIN orders :
         \E k \in 0 .. orders[id].qty, closes \in BOOLEAN : Match(id, k, closes)
  BY DEF VenueMatches
<1>2. orders[id] \in Order /\ orders[id].qty \in Nat /\ VenueTypeOK
  BY DEF TypeOK, VenueTypeOK, Order
<1>3. PICK k \in Nat, closes \in BOOLEAN : Match(id, k, closes)
  BY <1>1, <1>2
<1>4. /\ DOMAIN orders' = DOMAIN orders
      /\ orders'[id] = [orders[id] EXCEPT !.filled = @ + k, !.live = ~closes]
      /\ \A o \in DOMAIN orders \ {id} : orders'[o] = orders[o]
  BY <1>2, <1>3 DEF Match, VenueTypeOK
<1>5. orders'[id].filled = orders[id].filled + k /\ orders'[id].live = ~closes
  BY <1>2, <1>4 DEF Order
<1>6. Matched(id, k, closes)
  BY <1>3, <1>4, <1>5 DEF Matched
<1> QED BY <1>6

LEMMA LogStep ==
    ASSUME TypeOK, Placing, LogInv, [Next]_vars PROVE LogInv'
<1> USE DEF LogInv, LogIsTruthful
<1>1. CASE UNCHANGED vars
  BY <1>1 DEF vars
<1>2. CASE CloseBar \/ OthersMove
  BY <1>2 DEF CloseBar, OthersMove, ForeignDeposit, ForeignWithdraw, venueVars, botVars
<1>3. CASE VenueMatches
  <2>1. PICK id \in DOMAIN orders, k \in Nat, closes \in BOOLEAN : Matched(id, k, closes)
    BY <1>3, MatchStep
  <2>2. orders[id].filled \in Nat
    BY DEF TypeOK, VenueTypeOK, Order
  <2>4. /\ DOMAIN orders' = DOMAIN orders
        /\ orders'[id].filled = orders[id].filled + k
        /\ \A o \in DOMAIN orders \ {id} : orders'[o] = orders[o]
    BY <2>1 DEF Matched
  <2>6. UNCHANGED <<log, pc, mem>>
    BY <1>3 DEF VenueMatches, botVars
  <2>7. ASSUME NEW i \in DOMAIN log PROVE log[i][2] <= orders'[log[i][1]].filled
    <3>1. /\ log[i][1] \in DOMAIN orders /\ log[i][2] \in Nat
          /\ log[i][2] <= orders[log[i][1]].filled
      BY DEF TypeOK
    <3>2. CASE log[i][1] = id
      BY <2>2, <2>4, <3>1, <3>2
    <3>3. CASE log[i][1] # id
      BY <2>4, <3>1, <3>3
    <3> QED BY <3>2, <3>3
  <2> QED BY <2>4, <2>6, <2>7
<1>4. CASE SendAccepted
  <2>1. /\ mem.marker \notin DOMAIN orders
        /\ DOMAIN orders' = DOMAIN orders \union {mem.marker}
        /\ \A o \in DOMAIN orders : orders'[o] = orders[o]
    BY <1>4 DEF SendAccepted, Accept
  <2>2. UNCHANGED <<log, mem>>
    BY <1>4 DEF SendAccepted
  <2> QED BY <2>1, <2>2
<1>5. CASE ReadBackFilled
  <2> DEFINE k == orders[mem.marker].filled
  <2>1. /\ log' = Append(log, <<mem.marker, k>>)
        /\ mem.marker \in DOMAIN orders
        /\ \A i \in DOMAIN log : log[i][1] # mem.marker
        /\ orders' = orders /\ pc' = "save"
    BY <1>5 DEF ReadBackFilled, Placing, venueVars
  <2>2. k \in Nat
    BY <2>1 DEF TypeOK, VenueTypeOK, Order
  <2>3. /\ log \in Seq(Ids \X Nat)
        /\ DOMAIN log = 1 .. Len(log) /\ Len(log) \in Nat
        /\ DOMAIN log' = 1 .. Len(log) + 1
        /\ \A i \in 1 .. Len(log) : log'[i] = log[i]
        /\ log'[Len(log) + 1] = <<mem.marker, k>>
    BY <2>1 DEF TypeOK
  <2> HIDE DEF k
  <2>4. ASSUME NEW i \in DOMAIN log'
        PROVE  log'[i][1] \in DOMAIN orders /\ log'[i][2] <= orders[log'[i][1]].filled
    <3>1. CASE i \in DOMAIN log
      BY <2>3, <3>1
    <3>2. CASE i = Len(log) + 1
      BY <2>1, <2>2, <2>3, <3>2 DEF k
    <3> QED BY <2>3, <3>1, <3>2
  <2>5. ASSUME NEW i \in DOMAIN log', NEW j \in DOMAIN log', log'[i][1] = log'[j][1]
        PROVE  i = j
    BY <2>1, <2>3, <2>5
  <2> QED BY <2>1, <2>4, <2>5
<1>6. CASE (Trader \/ Crash) /\ ~SendAccepted /\ ~ReadBackFilled
  BY <1>6, QuietStep DEF venueVars
<1> QED
  BY <1>1, <1>2, <1>3, <1>4, <1>5, <1>6 DEF Next

\* Whatever crashes, retries, lost answers and other people do, the trade log
\* reports an order at most once and no more of it than the venue traded.
THEOREM LogTruthful == Spec => []LogIsTruthful
<1>1. Init => LogInv
  <2>1. Init => log = <<>> /\ pc = "down"
    BY Zenon DEF Init
  <2> QED BY <2>1 DEF LogInv, LogIsTruthful
<1>2. TypeOK /\ Placing /\ LogInv /\ [Next]_vars => LogInv'
  BY LogStep
<1>3. LogInv => LogIsTruthful
  BY DEF LogInv
<1> QED BY <1>1, <1>2, <1>3, TypeCorrect, PTL DEF Spec

-----------------------------------------------------------------------------
(* The books. *)

\* ... and the balances can be read: where a fill is unknown, reading them is
\* the only way to learn of it (see live_twice for what happens otherwise).
BalancesAreRead == "balances" \notin Faults

\* What a step of a cycle knows of the marker, and that it has seen a bar.
MarkerInv ==
    /\ pc \in {"own", "reconcile", "decide"} => mem.marker = NoId
    /\ pc = "ask" => mem.marker # NoId
    /\ pc \notin {"down", "idle", "save"} => stored > 0

\* Where the account's money is, as long as nobody else moves it: an order that
\* can still trade holds what it may spend, everything else is available.
AccountInv ==
    moves = 0 =>
        /\ (\A id \in DOMAIN orders : ~orders[id].live) =>
              coins = held /\ cash + held = StartCash
        /\ \A id \in DOMAIN orders : orders[id].live =>
              IF id.side = "buy"
              THEN coins = held /\ cash + orders[id].qty + held = StartCash
              ELSE coins + orders[id].qty = held /\ cash + held = StartCash

\* BooksMatchVenue at every step of a cycle: an order being read back is the
\* only difference between the books in memory and what the orders did.
BooksInv ==
    moves = 0 =>
        /\ disk.marker = NoId => disk.base = held
        /\ pc \in {"idle", "reconcile", "decide", "save"} /\ mem.marker = NoId =>
              mem.base = held
        /\ pc = "send" => mem.base = held
        /\ pc = "read" =>
              held = IF mem.marker.side = "buy" THEN mem.base + orders[mem.marker].filled
                                                ELSE mem.base - orders[mem.marker].filled

\* An entry is only decided on, and sent, when the books are next to empty.
EntryInv ==
    /\ pc = "decide" => mem.bought = HoldsPosition(mem.base)
    /\ pc = "send" /\ mem.marker.side = "buy" => ~HoldsPosition(mem.base)

LEMMA MarkerStep ==
    ASSUME TypeOK, Placing, MarkerInv, [Next]_vars PROVE MarkerInv'
<1> USE DEF MarkerInv
<1>1. CASE UNCHANGED vars
  BY <1>1 DEF vars
<1>2. CASE CloseBar \/ OthersMove \/ VenueMatches
  BY <1>2 DEF CloseBar, OthersMove, VenueMatches, botVars
<1>3. ASSUME NEW m, SaveAndRest(m) PROVE MarkerInv'
  BY <1>3 DEF SaveAndRest
<1>4. ASSUME NEW side, NEW qty, MarkPending(side, qty), pc = "decide", UNCHANGED stored
      PROVE  MarkerInv'
  BY <1>4 DEF MarkPending
<1>5. CASE PlaceBuy
  BY <1>3, <1>4, <1>5 DEF PlaceBuy, CaughtUp
<1>6. CASE PlaceSell
  BY <1>3, <1>4, <1>6 DEF PlaceSell, CaughtUp
<1>7. CASE AwaitOrder \/ Backlog \/ Halt \/ Hold \/ EndCycle
  BY <1>3, <1>7 DEF AwaitOrder, Backlog, Halt, Hold, EndCycle
<1>8. CASE NoData
  BY <1>3, <1>8 DEF NoData
<1>9. CASE Crash \/ Restart
  BY <1>9 DEF Crash, Restart
<1>10. CASE BeginCycle
  BY <1>10 DEF BeginCycle, Resume
<1>11. CASE OrderGone
  <2>1. mem'.marker = NoId
    BY <1>11 DEF OrderGone, TypeOK, States
  <2> QED BY <1>11, <2>1 DEF OrderGone
<1>12. ASSUME NEW own \in BOOLEAN, Reconcile(own) PROVE mem'.marker = mem.marker
  BY <1>12, ReconcileKeepsMarker
<1>13. CASE ReconcileOwnFill \/ ReconcileCycle
  BY <1>12, <1>13 DEF ReconcileOwnFill, ReconcileCycle, Resume
<1>14. CASE SendFails \/ SendDuplicate \/ SendRejected \/ SendAccepted
  BY <1>14 DEF SendFails, SendDuplicate, SendRejected, SendAccepted
<1>15. CASE ReadBackFails \/ ReadBackEmpty \/ ReadBackFilled
  BY <1>15 DEF ReadBackFails, ReadBackEmpty, ReadBackFilled
<1> QED
  BY <1>1, <1>2, <1>5, <1>6, <1>7, <1>8, <1>9, <1>10, <1>11, <1>13, <1>14, <1>15
  DEF Next, Trader

\* Nothing can still trade once the venue has closed the order in flight.
LEMMA NothingElseIsLive ==
    ASSUME DurableInv, NEW id \in DOMAIN orders, orders[id].live
    PROVE  /\ orders[id].filled = 0
           /\ \A o \in DOMAIN orders \ {id} : ~orders[o].live
<1> QED BY DEF DurableInv

LEMMA AccountStep ==
    ASSUME TypeOK, Placing, WorldIsKind, DurableInv, AccountInv, [Next]_vars
    PROVE  AccountInv'
<1>1. CASE UNCHANGED venueVars
  BY <1>1 DEF venueVars, AccountInv
<1>2. CASE UNCHANGED vars \/ CloseBar \/ ReadBackFilled
  BY <1>1, <1>2 DEF vars, CloseBar, ReadBackFilled, venueVars
<1>3. CASE OthersMove
  <2>1. moves' = moves + 1 /\ moves \in Nat
    BY <1>3 DEF OthersMove, ForeignDeposit, ForeignWithdraw, TypeOK, VenueTypeOK
  <2> QED BY <2>1 DEF AccountInv
<1>4. CASE VenueMatches
  <2>1. PICK id \in DOMAIN orders, k \in Nat, closes \in BOOLEAN : Matched(id, k, closes)
    BY <1>4, MatchStep
  <2>2. closes /\ orders[id].live
    BY <2>1 DEF Matched, Match, Live, WorldIsKind
  <2>3. \A o \in DOMAIN orders' : ~orders'[o].live
    BY <2>1, <2>2, NothingElseIsLive DEF Matched
  <2>4. orders[id].qty \in Nat /\ orders[id].filled = 0
        /\ coins \in Nat /\ cash \in Nat /\ held \in Int
    BY <2>2, NothingElseIsLive DEF TypeOK, VenueTypeOK, Order
  <2>5. /\ IF id.side = "buy"
           THEN coins' = coins + k /\ cash' = cash + (orders[id].qty - k) /\ held' = held + k
           ELSE cash' = cash + k /\ coins' = coins + (orders[id].qty - k) /\ held' = held - k
        /\ moves' = moves
    BY <2>1, <2>2, <2>4 DEF Matched, Match
  <2>6. moves = 0 => IF id.side = "buy"
                     THEN coins = held /\ cash + orders[id].qty + held = StartCash
                     ELSE coins + orders[id].qty = held /\ cash + held = StartCash
    BY <2>2 DEF AccountInv
  <2>7. moves' = 0 => coins' = held' /\ cash' + held' = StartCash
    BY SMTT(30), <2>4, <2>5, <2>6, StartCashAssumption
  <2> QED BY <2>3, <2>7 DEF AccountInv
<1>5. CASE SendAccepted
  <2> DEFINE id == mem.marker
  <2>1. pc = "send" /\ Accept(id, amount)
    BY <1>5 DEF SendAccepted
  <2>2. \A o \in DOMAIN orders : ~orders[o].live
    BY <2>1 DEF DurableInv
  <2>3. /\ id \in Ids /\ amount \in Nat
        /\ coins \in Nat /\ cash \in Nat /\ held \in Int
    BY <2>1 DEF Placing, TypeOK, VenueTypeOK
  <2>4. /\ DOMAIN orders' = DOMAIN orders \union {id}
        /\ orders'[id] = [qty |-> amount, filled |-> 0, live |-> TRUE]
        /\ \A o \in DOMAIN orders : o # id /\ orders'[o] = orders[o]
        /\ cash' = IF id.side = "buy" THEN cash - amount ELSE cash
        /\ coins' = IF id.side = "sell" THEN coins - amount ELSE coins
        /\ UNCHANGED <<held, moves>>
    BY <2>1 DEF Accept
  <2>5. id.side = "buy" \/ id.side = "sell"
    BY <2>3 DEF Ids, Sides
  <2>6. moves = 0 => coins = held /\ cash + held = StartCash
    BY <2>2 DEF AccountInv
  <2>7. orders'[id].qty = amount /\ orders'[id].live
    BY <2>4
  <2>8. moves' = 0 =>
           IF id.side = "buy"
           THEN coins' = held' /\ cash' + orders'[id].qty + held' = StartCash
           ELSE coins' + orders'[id].qty = held' /\ cash' + held' = StartCash
    BY <2>3, <2>4, <2>5, <2>6, <2>7, StartCashAssumption
  <2>9. \A o \in DOMAIN orders' : orders'[o].live => o = id
    BY <2>2, <2>4
  <2> HIDE DEF id
  <2> QED BY <2>4, <2>7, <2>8, <2>9 DEF AccountInv
<1>6. CASE (Trader \/ Crash) /\ ~SendAccepted /\ ~ReadBackFilled
  BY <1>1, <1>6, QuietStep
<1> QED
  BY <1>2, <1>3, <1>4, <1>5, <1>6 DEF Next

\* Balances that are read are adopted: all of them after the bot's own fill, and
\* otherwise at least when they are what the books say.
LEMMA ReconcileAdopts ==
    ASSUME TypeOK, BalancesAreRead, NEW own \in BOOLEAN, Reconcile(own)
    PROVE  /\ own \/ mem.base = coins => mem'.base = coins
           /\ mem'.bought = HoldsPosition(mem'.base)
           /\ QuoteCap > 0 => mem'.quote <= QuoteCap
<1>1. mem' = Reconciled(mem, own, coins, cash)
  BY DEF Reconcile, BalancesAreRead, Fault
<1>2. mem \in States /\ QuoteCap \in Nat /\ cash \in Nat
  BY ConfigAssumption DEF TypeOK, VenueTypeOK
<1> DEFINE newBase == IF coins > mem.base + Dust /\ ~own /\ ~AdoptVenueBase
                      THEN mem.base ELSE coins
           quote == IF QuoteCap > 0 THEN Least(cash, QuoteCap) ELSE cash
<1>3. Reconciled(mem, own, coins, cash) =
        [mem EXCEPT !.base = newBase, !.quote = quote, !.bought = HoldsPosition(newBase)]
  BY DEF Reconciled
<1>4. own \/ mem.base = coins => newBase = coins
  OBVIOUS
<1>5. QuoteCap > 0 => quote <= QuoteCap
  BY <1>2 DEF Least
<1> HIDE DEF newBase, quote
<1> QED BY <1>1, <1>2, <1>3, <1>4, <1>5 DEF States

LEMMA BooksStep ==
    ASSUME TypeOK, Placing, WorldIsKind, BalancesAreRead,
           DurableInv, MarkerInv, AccountInv, BooksInv, [Next]_vars
    PROVE  BooksInv'
<1> SUFFICES ASSUME moves = 0, UNCHANGED moves PROVE BooksInv'
  <2>1. moves \in Nat /\ (moves' = moves \/ moves' = moves + 1)
    <3>1. CASE UNCHANGED venueVars
      BY <3>1 DEF venueVars, TypeOK, VenueTypeOK
    <3>2. CASE UNCHANGED vars \/ CloseBar \/ ReadBackFilled
      BY <3>1, <3>2 DEF vars, CloseBar, ReadBackFilled, venueVars
    <3>3. CASE (Trader \/ Crash) /\ ~SendAccepted /\ ~ReadBackFilled
      BY <3>1, <3>3, QuietStep
    <3>4. CASE OthersMove \/ VenueMatches \/ SendAccepted
      BY ZenonT(40), <3>4 DEF OthersMove, ForeignDeposit, ForeignWithdraw, VenueMatches, Match,
                  SendAccepted, Accept, TypeOK, VenueTypeOK
    <3> QED BY <3>2, <3>3, <3>4 DEF Next
  <2>2. CASE moves' = 0
    BY <2>1, <2>2
  <2>3. CASE moves' # 0
    BY <2>3 DEF BooksInv
  <2> QED BY <2>2, <2>3
<1> USE DEF BooksInv
<1>0. /\ disk.marker = NoId => disk.base = held
      /\ pc \in {"idle", "reconcile", "decide", "save"} /\ mem.marker = NoId => mem.base = held
      /\ pc = "send" => mem.base = held
  OBVIOUS
<1>1. CASE UNCHANGED vars
  BY <1>1 DEF vars
<1>2. CASE CloseBar
  BY <1>2 DEF CloseBar, venueVars, botVars
<1>3. CASE OthersMove
  BY <1>3 DEF OthersMove, ForeignDeposit, ForeignWithdraw, TypeOK, VenueTypeOK
<1>4. CASE VenueMatches
  <2>1. PICK id \in DOMAIN orders, k \in Nat, closes \in BOOLEAN : Matched(id, k, closes)
    BY <1>4, MatchStep
  <2>2. orders[id].live /\ UNCHANGED <<mem, disk, pc>>
    BY <1>4, <2>1 DEF Matched, Match, Live, VenueMatches, botVars
  <2>3. /\ id = mem.marker /\ id = disk.marker /\ id \in Ids /\ orders[id].filled = 0
        /\ pc \notin {"own", "reconcile", "decide", "send"}
    BY <2>2 DEF DurableInv, InFlightIsDurable, TypeOK, VenueTypeOK
  <2>4. id # NoId /\ (id.side = "buy" \/ id.side = "sell")
    BY <2>3, NoIdAssumption DEF Ids, Sides
  <2>5. held' = IF id.side = "buy" THEN held + k ELSE held - k
    BY <2>1 DEF Matched, Match
  <2>6. orders'[id].filled = k
    BY <2>1, <2>3 DEF Matched
  <2>7. mem.base \in Nat /\ held \in Int
    BY DEF TypeOK, VenueTypeOK, States
  <2>8. pc = "read" => held = mem.base
    BY <2>3, <2>4, <2>7
  <2> QED BY <2>2, <2>3, <2>4, <2>5, <2>6, <2>7, <2>8
\* What is saved, and rested on, agrees with the orders unless it names one.
<1>5. ASSUME NEW m, SaveAndRest(m), UNCHANGED held,
             m.marker = NoId => m.base = held
      PROVE  BooksInv'
  BY <1>0, <1>5 DEF SaveAndRest
<1>6. ASSUME NEW side \in Sides, NEW qty, MarkPending(side, qty), UNCHANGED held,
             pc = "decide"
      PROVE  BooksInv'
  <2> DEFINE marked == [Replayed EXCEPT !.marker = OrderId(Replayed, side)]
  <2>1. marked.marker # NoId /\ marked.base = mem.base
    <3>1. OrderId(Replayed, side) \in Ids
      BY ReplayedType, OrderIdType
    <3> QED BY <3>1, ReplayedType, NoIdAssumption DEF States
  <2>2. mem.base = held
    BY <1>6 DEF MarkerInv
  <2>3. /\ mem' = marked
        /\ disk' \in {disk, marked} /\ pc' \in {"send", "idle"}
    BY <1>6 DEF MarkPending
  <2> HIDE DEF marked
  <2> QED BY <1>0, <1>6, <2>1, <2>2, <2>3
<1>7. CASE PlaceBuy
  <2>1. pc = "decide" /\ UNCHANGED held
    BY <1>7 DEF PlaceBuy, CaughtUp, venueVars
  <2>2. PICK f \in Fractions :
           IF HoldsPosition(Budget(f))
           THEN MarkPending("buy", Budget(f))
           ELSE SaveAndRest(Replayed) /\ UNCHANGED amount
    BY <1>7 DEF PlaceBuy
  <2> QED BY <1>0, <1>5, <1>6, <2>1, <2>2, ReplayedType DEF Sides
<1>8. CASE PlaceSell
  <2>1. /\ [Replayed EXCEPT !.bought = FALSE].marker = mem.marker
        /\ [Replayed EXCEPT !.bought = FALSE].base = mem.base
    BY ReplayedType DEF States
  <2> QED BY <1>0, <1>5, <1>6, <1>8, <2>1 DEF PlaceSell, CaughtUp, venueVars, Sides
<1>9. CASE Backlog \/ Halt \/ Hold
  BY <1>0, <1>5, <1>9, ReplayedType DEF Backlog, Halt, Hold, CaughtUp, venueVars
<1>10. CASE AwaitOrder \/ EndCycle
  BY <1>0, <1>5, <1>10 DEF AwaitOrder, EndCycle, venueVars, MarkerInv
<1>11. CASE NoData
  BY <1>0, <1>5, <1>11 DEF NoData, venueVars
<1>12. CASE Crash \/ Restart
  BY <1>0, <1>12 DEF Crash, Restart, venueVars
<1>13. CASE BeginCycle
  BY <1>0, <1>13 DEF BeginCycle, venueVars, Resume
<1>14. CASE OrderGone
  BY <1>0, <1>14 DEF OrderGone, venueVars
<1>15. CASE ReconcileOwnFill \/ ReconcileCycle
  <2>1. pc \in {"own", "reconcile"} /\ pc' \in {"reconcile", "decide"}
        /\ UNCHANGED <<disk, held>>
    BY <1>15 DEF ReconcileOwnFill, ReconcileCycle, Resume, venueVars
  <2>2. coins = held
    <3>1. \A id \in DOMAIN orders : ~orders[id].live
      BY <2>1 DEF DurableInv
    <3> QED BY <3>1 DEF AccountInv
  <2>3. mem'.base = held
    <3>1. CASE ReconcileOwnFill
      BY <2>2, <3>1, ReconcileAdopts DEF ReconcileOwnFill
    <3>2. CASE ReconcileCycle
      <4>1. mem.base = coins
        BY <2>2, <3>2 DEF ReconcileCycle, MarkerInv
      <4> QED BY <2>2, <3>2, <4>1, ReconcileAdopts DEF ReconcileCycle
    <3> QED BY <1>15, <3>1, <3>2
  <2> QED BY <1>0, <2>1, <2>3
<1>16. CASE SendFails \/ SendDuplicate \/ SendRejected
  <2>1. mem.marker # NoId
    BY <1>16, NoIdAssumption DEF SendFails, SendDuplicate, SendRejected, Placing
  <2>2. mem'.marker = mem.marker /\ pc' = "save" /\ UNCHANGED <<disk, held>>
    BY <1>16, AcknowledgedType
    DEF SendFails, SendDuplicate, SendRejected, venueVars, TypeOK
  <2> QED BY <1>0, <2>1, <2>2
<1>17. CASE SendAccepted
  <2>1. /\ pc = "send" /\ pc' \in {"read", "save"}
        /\ orders'[mem.marker].filled = 0
        /\ UNCHANGED <<disk, mem, held>>
    BY <1>17 DEF SendAccepted, Accept
  <2>2. mem.base = held /\ mem.marker # NoId /\ held \in Int
    BY <2>1, NoIdAssumption DEF Placing, TypeOK, VenueTypeOK
  <2> QED BY <1>0, <2>1, <2>2
<1>18. CASE ReadBackFails \/ ReadBackEmpty
  <2>1. pc = "read" /\ pc' = "save" /\ UNCHANGED <<disk, held>>
    BY <1>18 DEF ReadBackFails, ReadBackEmpty, venueVars
  <2>2. mem.marker # NoId /\ mem'.marker = mem.marker
    BY <1>18, <2>1, AcknowledgedType, NoIdAssumption
    DEF ReadBackFails, ReadBackEmpty, Placing, TypeOK, VenueTypeOK
  <2> QED BY <1>0, <2>1, <2>2
<1>19. CASE ReadBackFilled
  <2> DEFINE k == orders[mem.marker].filled
             acked == Acknowledged(mem)
  <2>1. /\ pc = "read" /\ pc' = "save" /\ k > 0
        /\ mem' = Booked(acked, k)
        /\ UNCHANGED <<disk, held>>
    BY <1>19 DEF ReadBackFilled, venueVars
  <2>2. /\ acked \in States /\ acked.marker = mem.marker /\ acked.base = mem.base
        /\ mem.marker \in Ids /\ k \in Nat /\ mem.base \in Nat
        /\ mem.marker.side \in {"buy", "sell"}
    BY <2>1, AcknowledgedType
    DEF Acknowledged, States, Placing, TypeOK, VenueTypeOK, Order, Ids, Sides
  <2>3. held = IF mem.marker.side = "buy" THEN mem.base + k ELSE mem.base - k
    BY <2>1
  <2>4. held >= 0
    <3>1. \A id \in DOMAIN orders : ~orders[id].live
      BY <2>1, <2>2 DEF DurableInv
    <3> QED BY <3>1 DEF AccountInv, TypeOK, VenueTypeOK
  <2> DEFINE base == IF acked.marker.side = "buy" THEN acked.base + k
                     ELSE IF k < acked.base THEN acked.base - k ELSE 0
  <2>5. mem'.base = base
    BY <2>1, <2>2 DEF Booked, States
  <2>6. base = held
    BY <2>2, <2>3, <2>4
  <2> QED BY <1>0, <2>1, <2>5, <2>6
<1> QED
  BY <1>1, <1>2, <1>3, <1>4, <1>7, <1>8, <1>9, <1>10, <1>11, <1>12, <1>13, <1>14,
     <1>15, <1>16, <1>17, <1>18, <1>19
  DEF Next, Trader

\* Everything the proofs about the books rest on, as one inductive invariant.
AllBooksInv == TypeOK /\ Placing /\ DurableInv /\ MarkerInv /\ AccountInv /\ BooksInv

LEMMA AllBooksInit == Init => AllBooksInv
<1> SUFFICES ASSUME Init PROVE AllBooksInv
  OBVIOUS
<1>1. /\ DOMAIN orders = {} /\ coins = 0 /\ cash = StartCash /\ held = 0
      /\ pc = "down" /\ mem = Fresh /\ disk = Fresh
  <2>1. DOMAIN orders = {}
    BY DEF Init, VenueInit
  <2> QED BY <2>1, Zenon DEF Init, VenueInit
<1>2. MarkerInv
  BY <1>1 DEF MarkerInv
<1>3. AccountInv
  BY <1>1, StartCashAssumption DEF AccountInv
<1>4. BooksInv
  BY <1>1 DEF BooksInv, Fresh
<1> QED BY <1>2, <1>3, <1>4, TypeInit, DurableInit DEF AllBooksInv

\* For every number of bars, failures and crashes, every price of dust, every
\* cap and share of the cash: as long as nobody else moves coins, the books,
\* in the file always and in memory whenever they are acted on, are what the
\* bot's orders did, or the marker names the order that explains the rest.
THEOREM BooksMatch == WorldIsKind /\ BalancesAreRead /\ Spec => []BooksMatchVenue
<1> SUFFICES ASSUME WorldIsKind, BalancesAreRead PROVE Spec => []BooksMatchVenue
  OBVIOUS
<1>1. AllBooksInv /\ [Next]_vars => AllBooksInv'
  BY TypeStep, PlacingStep, DurableStep, MarkerStep, AccountStep, BooksStep DEF AllBooksInv
<1>2. AllBooksInv => BooksMatchVenue
  BY DEF AllBooksInv, BooksInv, BooksMatchVenue
<1> QED BY <1>1, <1>2, AllBooksInit, PTL DEF Spec

LEMMA EntryStep ==
    ASSUME TypeOK, Placing, BalancesAreRead, ReconcileBalances, MarkerInv, EntryInv,
           [Next]_vars
    PROVE  EntryInv'
\* The dust threshold only changes with the bar a cycle starts from.
<1>1. ASSUME UNCHANGED <<mem, pc, stored>>, UNCHANGED bars \/ CloseBar PROVE EntryInv'
  <2>1. CASE UNCHANGED bars
    BY <1>1, <2>1 DEF EntryInv, HoldsPosition, Dust
  <2>2. CASE CloseBar /\ stored > 0
    <3>1. PICK bar \in Bars : bars' = Append(bars, bar)
      BY <2>2 DEF CloseBar
    <3>2. bars'[stored] = bars[stored]
      BY <2>2, <3>1 DEF TypeOK
    <3> QED BY <1>1, <3>2 DEF EntryInv, HoldsPosition, Dust
  <2>3. CASE ~(stored > 0)
    BY <1>1, <2>3 DEF EntryInv, MarkerInv
  <2> QED BY <1>1, <2>1, <2>2, <2>3
<1>2. CASE UNCHANGED vars \/ CloseBar \/ OthersMove \/ VenueMatches
  BY <1>1, <1>2 DEF vars, CloseBar, OthersMove, VenueMatches, botVars
<1>3. ASSUME pc' \notin {"decide", "send"} PROVE EntryInv'
  BY <1>3 DEF EntryInv
<1>4. ASSUME NEW m, SaveAndRest(m) PROVE EntryInv'
  BY <1>3, <1>4 DEF SaveAndRest
<1>5. CASE PlaceBuy
  <2>1. PICK f \in Fractions :
           IF HoldsPosition(Budget(f))
           THEN MarkPending("buy", Budget(f))
           ELSE SaveAndRest(Replayed) /\ UNCHANGED amount
    BY <1>5 DEF PlaceBuy
  <2>2. CASE MarkPending("buy", Budget(f))
    <3>1. ~HoldsPosition(mem.base) /\ UNCHANGED <<bars, stored>>
      BY <1>5 DEF PlaceBuy, CaughtUp, EntryInv
    <3>2. mem'.base = mem.base
      BY <2>2, ReplayedType DEF MarkPending, States
    <3>3. pc' # "decide"
      BY <2>2 DEF MarkPending
    <3> QED BY <3>1, <3>2, <3>3 DEF EntryInv, HoldsPosition, Dust
  <2> QED BY <1>4, <2>1, <2>2
<1>6. CASE PlaceSell
  <2>1. CASE MarkPending("sell", mem.base)
    <3>1. mem'.marker = OrderId(Replayed, "sell")
      BY <2>1, ReplayedType DEF MarkPending, States
    <3>2. mem'.marker.side = "sell"
      BY <3>1 DEF OrderId
    <3>3. pc' # "decide"
      BY <2>1 DEF MarkPending
    <3> QED BY <3>2, <3>3 DEF EntryInv
  <2> QED BY <1>4, <1>6, <2>1 DEF PlaceSell
<1>7. CASE AwaitOrder \/ Backlog \/ Halt \/ Hold \/ EndCycle
  BY <1>4, <1>7 DEF AwaitOrder, Backlog, Halt, Hold, EndCycle
<1>8. CASE NoData
  BY <1>3, <1>4, <1>8 DEF NoData
<1>9. CASE Crash \/ Restart \/ BeginCycle \/ OrderGone \/ ReconcileOwnFill
  BY <1>3, <1>9 DEF Crash, Restart, BeginCycle, OrderGone, ReconcileOwnFill, Resume
<1>10. CASE ReconcileCycle
  <2>1. mem'.bought = HoldsPosition(mem'.base) /\ pc' = "decide" /\ UNCHANGED <<bars, stored>>
    BY <1>10, ReconcileAdopts DEF ReconcileCycle
  <2> QED BY <2>1 DEF EntryInv, HoldsPosition, Dust
<1>11. CASE \/ SendFails \/ SendDuplicate \/ SendRejected \/ SendAccepted
            \/ ReadBackFails \/ ReadBackEmpty \/ ReadBackFilled
  BY <1>3, <1>11 DEF SendFails, SendDuplicate, SendRejected, SendAccepted,
                     ReadBackFails, ReadBackEmpty, ReadBackFilled
<1> QED
  BY <1>2, <1>5, <1>6, <1>7, <1>8, <1>9, <1>10, <1>11 DEF Next, Trader

\* An account that only this bot trades, by a bot that looks at the balances of
\* every cycle before it decides.
AloneAndReconciling == BalancesAreRead /\ ReconcileBalances /\ MaxForeign = 0

\* Nobody else moves coins where nobody else is.
LEMMA AloneStep ==
    ASSUME MaxForeign = 0, TypeOK, moves = 0, [Next]_vars PROVE moves' = 0
<1>1. CASE UNCHANGED venueVars
  BY <1>1 DEF venueVars
<1>2. CASE UNCHANGED vars \/ CloseBar \/ ReadBackFilled
  BY <1>1, <1>2 DEF vars, CloseBar, ReadBackFilled, venueVars
<1>3. CASE (Trader \/ Crash) /\ ~SendAccepted /\ ~ReadBackFilled
  BY <1>1, <1>3, QuietStep
<1>4. CASE OthersMove
  <2>1. moves < MaxForeign
    BY <1>4, Zenon DEF OthersMove, ForeignDeposit, ForeignWithdraw
  <2> QED BY <2>1
<1>5. CASE VenueMatches
  BY ZenonT(40), <1>5, MatchStep DEF Matched, Match
<1>6. CASE SendAccepted
  BY <1>6 DEF SendAccepted, Accept
<1> QED BY <1>2, <1>3, <1>4, <1>5, <1>6 DEF Next

EntriesInv == AllBooksInv /\ EntryInv /\ moves = 0

LEMMA EntriesAlways ==
    ASSUME WorldIsKind, AloneAndReconciling
    PROVE  Spec => []EntriesInv
<1>1. Init => EntriesInv
  <2>1. Init => pc = "down" /\ moves = 0
    BY Zenon DEF Init, VenueInit
  <2> QED BY <2>1, AllBooksInit DEF EntriesInv, EntryInv
<1>2. EntriesInv /\ [Next]_vars => EntriesInv'
  BY TypeStep, PlacingStep, DurableStep, MarkerStep, AccountStep, BooksStep, EntryStep,
     AloneStep
  DEF EntriesInv, AllBooksInv, AloneAndReconciling
<1> QED BY <1>1, <1>2, PTL DEF Spec

\* Whatever is lost, repeated or restarted, as long as the balances can be read
\* (live_twice shows the bot that could not): a bot never buys on top of what
\* its orders have already bought.
THEOREM NeverEntersTwice == WorldIsKind /\ AloneAndReconciling /\ Spec => NoDoubleEntry
<1> SUFFICES ASSUME WorldIsKind, AloneAndReconciling PROVE Spec => NoDoubleEntry
  OBVIOUS
<1>1. EntriesInv => (pc = "send" /\ NewOrder /\ mem.marker.side = "buy" => ~HoldsPosition(held))
  BY DEF EntriesInv, AllBooksInv, BooksInv, EntryInv
<1> QED BY <1>1, EntriesAlways, PTL DEF NoDoubleEntry

\* A cycle decides on a quote within the cap, so what it sends is within it.
CapInv ==
    /\ pc = "decide" => mem.quote <= QuoteCap
    /\ pc = "send" /\ mem.marker.side = "buy" => amount <= QuoteCap

LEMMA CapStep ==
    ASSUME TypeOK, Placing, BalancesAreRead, ReconcileBalances, QuoteCap > 0, CapInv,
           [Next]_vars
    PROVE  CapInv'
<1>1. CASE UNCHANGED vars \/ CloseBar \/ OthersMove \/ VenueMatches
  BY <1>1 DEF vars, CloseBar, OthersMove, VenueMatches, botVars, CapInv
<1>2. ASSUME pc' \notin {"decide", "send"} PROVE CapInv'
  BY <1>2 DEF CapInv
<1>3. ASSUME NEW m, SaveAndRest(m) PROVE CapInv'
  BY <1>2, <1>3 DEF SaveAndRest
<1>4. CASE PlaceBuy
  <2>1. PICK f \in Fractions :
           IF HoldsPosition(Budget(f))
           THEN MarkPending("buy", Budget(f))
           ELSE SaveAndRest(Replayed) /\ UNCHANGED amount
    BY <1>4 DEF PlaceBuy
  <2>2. CASE MarkPending("buy", Budget(f))
    <3>1. mem.quote <= QuoteCap
      BY <1>4 DEF PlaceBuy, CaughtUp, CapInv
    <3>2. f \in 0 .. 2 /\ mem.quote \in Nat /\ QuoteCap \in Nat
      BY BoundsAssumption, ConfigAssumption DEF TypeOK, States
    <3>3. Budget(f) <= QuoteCap
      BY <3>1, <3>2 DEF Budget
    <3>4. pc' \in {"idle", "send"} /\ (pc' = "send" => amount' = Budget(f))
      BY <2>2 DEF MarkPending
    <3> QED BY <3>3, <3>4 DEF CapInv
  <2> QED BY <1>3, <2>1, <2>2
<1>5. CASE PlaceSell
  <2>1. CASE MarkPending("sell", mem.base)
    <3>1. mem'.marker = OrderId(Replayed, "sell")
      BY <2>1, ReplayedType DEF MarkPending, States
    <3>2. mem'.marker.side = "sell" /\ pc' # "decide"
      BY <2>1, <3>1 DEF OrderId, MarkPending
    <3> QED BY <3>2 DEF CapInv
  <2> QED BY <1>3, <1>5, <2>1 DEF PlaceSell
<1>6. CASE AwaitOrder \/ Backlog \/ Halt \/ Hold \/ EndCycle
  BY <1>3, <1>6 DEF AwaitOrder, Backlog, Halt, Hold, EndCycle
<1>7. CASE NoData
  BY <1>2, <1>3, <1>7 DEF NoData
<1>8. CASE Crash \/ Restart \/ BeginCycle \/ OrderGone \/ ReconcileOwnFill
  BY <1>2, <1>8 DEF Crash, Restart, BeginCycle, OrderGone, ReconcileOwnFill, Resume
<1>9. CASE ReconcileCycle
  BY <1>9, ReconcileAdopts DEF ReconcileCycle, CapInv
<1>10. CASE \/ SendFails \/ SendDuplicate \/ SendRejected \/ SendAccepted
            \/ ReadBackFails \/ ReadBackEmpty \/ ReadBackFilled
  BY <1>2, <1>10 DEF SendFails, SendDuplicate, SendRejected, SendAccepted,
                     ReadBackFails, ReadBackEmpty, ReadBackFilled
<1> QED
  BY <1>1, <1>4, <1>5, <1>6, <1>7, <1>8, <1>9, <1>10 DEF Next, Trader

\* A sleeve with a cap that reconciles each cycle never sends more than its
\* cap, whoever else trades on the account and whatever was won before.
THEOREM CapKept ==
    BalancesAreRead /\ ReconcileBalances /\ QuoteCap > 0 /\ Spec => CapRespected
<1> SUFFICES ASSUME BalancesAreRead, ReconcileBalances, QuoteCap > 0
             PROVE  Spec => CapRespected
  OBVIOUS
<1>1. Init => CapInv
  <2>1. Init => pc = "down"
    BY Zenon DEF Init
  <2> QED BY <2>1 DEF CapInv
<1>2. TypeOK /\ Placing /\ CapInv /\ [Next]_vars => CapInv'
  BY CapStep
<1>3. CapInv => (pc = "send" /\ NewOrder /\ mem.marker.side = "buy" => amount <= QuoteCap)
  BY DEF CapInv
<1> QED BY <1>1, <1>2, <1>3, TypeCorrect, PTL DEF Spec, CapRespected

-----------------------------------------------------------------------------
(* Halts. *)

\* A bot halted by an excess knows it from memory, from disk and at each
\* decision: whatever it loads or reads, the excess is there again.
ExcessInv ==
    /\ block = "excess" => ~AdoptVenueBase
    /\ halted = "excess" =>
          /\ mem.marker = NoId /\ disk.marker = NoId /\ disk.base = mem.base
          /\ pc \in {"down", "idle", "reconcile", "decide"}
          /\ stored > 0 /\ coins > mem.base + Dust
          /\ ~AdoptVenueBase
          /\ pc = "decide" => block = "excess"

\* ... as long as what it decides is in its state file.
SavesSucceed == "save" \notin Faults

LEMMA ExcessStep ==
    ASSUME TypeOK, Placing, DurableInv, MarkerInv, ExcessInv,
           WorldIsKind, BalancesAreRead, ReconcileBalances, SavesSucceed, [Next]_vars
    PROVE  ExcessInv'
<1> USE DEF ExcessInv
\* What an excess halt is about does not change between two cycles.
<1>1. ASSUME UNCHANGED <<mem, disk, pc, block, stored, coins, halted>>,
             UNCHANGED bars \/ CloseBar
      PROVE  ExcessInv'
  <2>1. CASE CloseBar /\ stored > 0
    <3>1. PICK bar \in Bars : bars' = Append(bars, bar)
      BY <2>1 DEF CloseBar
    <3>2. bars'[stored] = bars[stored]
      BY <2>1, <3>1 DEF TypeOK
    <3> QED BY <1>1, <3>2 DEF Dust
  <2> QED BY <1>1, <2>1 DEF Dust
<1>2. CASE UNCHANGED vars \/ CloseBar
  BY <1>1, <1>2 DEF vars, CloseBar, botVars, venueVars
<1>3. CASE OthersMove
  BY <1>3 DEF OthersMove
<1>4. CASE VenueMatches
  <2>1. PICK id \in DOMAIN orders, k \in Nat, closes \in BOOLEAN : Matched(id, k, closes)
    BY <1>4, MatchStep
  <2>2. id = disk.marker /\ id \in Ids
    BY <2>1 DEF Matched, Match, Live, DurableInv, InFlightIsDurable, TypeOK, VenueTypeOK
  <2>3. halted # "excess"
    BY <2>2, NoIdAssumption
  <2> QED BY <1>4, <2>3 DEF VenueMatches, botVars
<1>5. ASSUME NEW m, SaveAndRest(m) PROVE mem' = m /\ disk' = m /\ pc' = "idle"
  BY <1>5 DEF SaveAndRest, SavesSucceed, Fault
<1>6. CASE Halt
  <2>1. /\ mem' = Replayed /\ disk' = Replayed /\ pc' = "idle" /\ pc = "decide"
        /\ UNCHANGED <<venueVars, bars, stored, block>>
        /\ halted' = IF block = "excess" /\ coins <= mem.base + Dust THEN "" ELSE block
    BY <1>5, <1>6 DEF Halt, CaughtUp
  <2>2. mem.marker = NoId /\ stored > 0
    BY <2>1 DEF MarkerInv
  <2>3. coins \in Nat /\ mem.base \in Nat /\ Dust \in Nat
    BY <2>2, DustType DEF TypeOK, VenueTypeOK, States
  <2>4. halted' = "excess" => block = "excess" /\ coins > mem.base + Dust
    BY <2>1, <2>3
  <2> QED BY <2>1, <2>2, <2>4, ReplayedType DEF venueVars, Dust
<1>7. CASE Backlog
  <2>1. /\ mem' = Replayed /\ disk' = Replayed /\ pc' = "idle"
        /\ UNCHANGED <<venueVars, bars, stored, block, halted>>
    BY <1>5, <1>7 DEF Backlog
  <2> QED BY <2>1, ReplayedType DEF venueVars, Dust
<1>8. CASE Hold \/ PlaceBuy \/ PlaceSell
  <2>1. halted # "excess" /\ UNCHANGED <<halted, block>>
    BY <1>8 DEF Hold, PlaceBuy, PlaceSell, CaughtUp
  <2> QED BY <2>1
<1>9. CASE AwaitOrder \/ OrderGone \/ ReconcileOwnFill
  <2>1. halted # "excess" /\ halted' = halted
    BY <1>9 DEF AwaitOrder, OrderGone, ReconcileOwnFill
  <2>2. block' = "excess" => ~AdoptVenueBase
    BY <1>9 DEF AwaitOrder, OrderGone, ReconcileOwnFill, Reconcile, Blocked
  <2> QED BY <2>1, <2>2
<1>10. CASE NoData
  <2>1. halted # "excess" /\ UNCHANGED <<halted, block>>
    BY <1>10 DEF NoData
  <2> QED BY <2>1
<1>11. CASE EndCycle
  <2>1. halted # "excess" /\ UNCHANGED <<halted, block>>
    BY <1>11 DEF EndCycle
  <2> QED BY <2>1
<1>12. CASE Crash
  BY <1>12 DEF Crash, venueVars, Dust
<1>13. CASE Restart
  BY <1>13 DEF Restart, venueVars, Dust
<1>14. CASE BeginCycle
  <2>1. /\ pc' \in {"ask", "reconcile"} /\ (mem.marker = NoId => pc' = "reconcile")
        /\ stored' > 0
        /\ halted' = IF coins <= mem.base + bars[stored'].dust THEN "" ELSE halted
        /\ UNCHANGED <<venueVars, bars, mem, disk, block>>
    BY <1>14 DEF BeginCycle, Resume
  <2>2. stored' \in 1 .. Len(bars)
    <3>1. stored' = Len(bars) \/ stored' = stored
      BY <1>14 DEF BeginCycle
    <3>2. Len(bars) \in Nat /\ stored \in 0 .. Len(bars)
      BY DEF TypeOK
    <3>3. stored' > 0
      BY <2>1
    <3> QED BY <3>1, <3>2, <3>3
  <2>3. bars[stored'].dust \in Nat /\ coins \in Nat /\ mem.base \in Nat
    <3>1. bars[stored'] \in Bars
      BY <2>2 DEF TypeOK
    <3> QED BY <3>1, BoundsAssumption DEF TypeOK, VenueTypeOK, States, Bars
  <2>4. halted' = "excess" => halted = "excess" /\ coins > mem.base + bars[stored'].dust
    BY <2>1, <2>3
  <2> QED BY <2>1, <2>4 DEF venueVars, Dust
<1>15. CASE ReconcileCycle
  <2>1. /\ mem' = Reconciled(mem, FALSE, coins, cash)
        /\ block' = Blocked(mem, FALSE, coins)
        /\ pc' = "decide" /\ pc = "reconcile"
        /\ UNCHANGED <<venueVars, bars, stored, disk, halted>>
    BY <1>15 DEF ReconcileCycle, Reconcile, BalancesAreRead, Fault
  <2>2. block' = "excess" => ~AdoptVenueBase
    BY <2>1 DEF Blocked
  <2>3. stored > 0 /\ mem.marker = NoId
    BY <2>1 DEF MarkerInv
  <2>4. coins \in Nat /\ mem.base \in Nat /\ Dust \in Nat
    BY <2>3, DustType DEF TypeOK, VenueTypeOK, States
  <2>5. mem'.marker = mem.marker
    BY <1>15, ReconcileKeepsMarker DEF ReconcileCycle
  <2>6. CASE halted = "excess"
    <3>1. coins > mem.base + Dust /\ ~AdoptVenueBase
      BY <2>6
    <3>2. Blocked(mem, FALSE, coins) = "excess"
      BY <2>4, <3>1 DEF Blocked
    <3>3. mem'.base = mem.base
      BY <2>1, <3>1 DEF Reconciled, TypeOK, States
    <3> QED BY <2>1, <2>2, <2>3, <2>5, <2>6, <3>1, <3>2, <3>3 DEF venueVars, Dust
  <2>7. CASE halted # "excess"
    BY <2>1, <2>2, <2>7
  <2> QED BY <2>6, <2>7
<1>16. CASE \/ SendFails \/ SendDuplicate \/ SendRejected \/ SendAccepted
            \/ ReadBackFails \/ ReadBackEmpty \/ ReadBackFilled
  <2>1. halted # "excess" /\ UNCHANGED <<halted, block>>
    BY <1>16 DEF SendFails, SendDuplicate, SendRejected, SendAccepted,
                 ReadBackFails, ReadBackEmpty, ReadBackFilled
  <2> QED BY <2>1
<1> QED
  BY <1>2, <1>3, <1>4, <1>6, <1>7, <1>8, <1>9, <1>10, <1>11, <1>12, <1>13, <1>14,
     <1>15, <1>16
  DEF Next, Trader

\* A bot that can read the balances and write its state stays halted by coins
\* it never bought, over restarts, fetches and new bars, until somebody moves
\* coins or a price makes the excess dust.
THEOREM ExcessHalts ==
    WorldIsKind /\ BalancesAreRead /\ SavesSucceed /\ ReconcileBalances /\ Spec
        => ExcessHaltHolds
<1> SUFFICES ASSUME WorldIsKind, BalancesAreRead, SavesSucceed, ReconcileBalances
             PROVE  Spec => ExcessHaltHolds
  OBVIOUS
<1> DEFINE HaltInv == TypeOK /\ Placing /\ DurableInv /\ MarkerInv /\ ExcessInv
<1>1. Init => HaltInv
  <2>1. Init => block = "" /\ halted = "" /\ pc = "down"
    BY Zenon DEF Init
  <2> QED BY <2>1, TypeInit, DurableInit DEF ExcessInv, MarkerInv
<1>2. HaltInv /\ [Next]_vars => HaltInv'
  BY TypeStep, PlacingStep, DurableStep, MarkerStep, ExcessStep
<1>3. HaltInv /\ [Next]_vars => (NewOrder => halted # "excess")
  <2> SUFFICES ASSUME HaltInv, [Next]_vars, NewOrder PROVE halted # "excess"
    OBVIOUS
  <2>1. CASE SendAccepted
    BY <2>1 DEF SendAccepted, ExcessInv
  <2>2. ~SendAccepted => UNCHANGED orders \/ VenueMatches
    BY QuietStep
    DEF Next, vars, venueVars, CloseBar, OthersMove, ForeignDeposit, ForeignWithdraw,
        ReadBackFilled
  <2>3. VenueMatches => DOMAIN orders' = DOMAIN orders
    BY DEF VenueMatches, Match
  <2> QED BY <2>1, <2>2, <2>3 DEF NewOrder
<1> QED BY <1>1, <1>2, <1>3, PTL DEF Spec, ExcessHaltHolds

-----------------------------------------------------------------------------
(* OneOrder. *)

\* A base amount that no price makes worth more than dust is bounded.
DustIsBounded == \E d \in Dusts : \A e \in Dusts : e <= d

MaxDust == CHOOSE d \in Dusts : \A e \in Dusts : e <= d

\* What OneOrder sees of the account.
LEMMA NoOpenOrder ==
    ASSUME \A id \in DOMAIN orders : ~orders[id].live
    PROVE  OpenOrder = [side |-> "none", left |-> 0]
<1>1. {id \in DOMAIN orders : orders[id].live} = {}
  OBVIOUS
<1> QED BY <1>1 DEF OpenOrder

LEMMA TheOpenOrder ==
    ASSUME NEW id \in DOMAIN orders, orders[id].live,
           \A o \in DOMAIN orders \ {id} : ~orders[o].live
    PROVE  OpenOrder = [side |-> id.side, left |-> orders[id].qty - orders[id].filled]
<1> DEFINE alive == {o \in DOMAIN orders : orders[o].live}
<1>1. alive = {id}
  OBVIOUS
<1>2. (CHOOSE i \in alive : TRUE) = id
  BY <1>1
<1>3. alive # {}
  BY <1>1
<1> QED BY <1>2, <1>3 DEF OpenOrder

LEMMA OneOrderTrades ==
    ASSUME WorldIsKind, EntriesInv, VenueMatches
    PROVE  Account!Run
<1>1. PICK id \in DOMAIN orders, k \in Nat, closes \in BOOLEAN : Matched(id, k, closes)
  BY MatchStep DEF EntriesInv, AllBooksInv
<1>2. /\ closes /\ orders[id].live
      /\ k \in 0 .. orders[id].qty - orders[id].filled
      /\ held' = IF id.side = "buy" THEN held + k ELSE held - k
  BY <1>1 DEF Matched, Match, Live, WorldIsKind
<1>3. \A o \in DOMAIN orders \ {id} : ~orders[o].live
  BY <1>2, NothingElseIsLive DEF EntriesInv, AllBooksInv
<1>4. OpenOrder = [side |-> id.side, left |-> orders[id].qty - orders[id].filled]
  BY <1>2, <1>3, TheOpenOrder
<1>5. \A o \in DOMAIN orders' : ~orders'[o].live
  BY <1>1, <1>2, <1>3 DEF Matched
<1>6. OpenOrder' = [side |-> "none", left |-> 0]
  <2>1. {o \in DOMAIN orders' : orders'[o].live} = {}
    BY <1>5
  <2> QED BY <2>1 DEF OpenOrder
<1>7. id.side \in {"buy", "sell"}
  BY DEF EntriesInv, AllBooksInv, TypeOK, VenueTypeOK, Ids, Sides
<1>8. OpenOrder # [side |-> "none", left |-> 0] /\ OpenOrder.side = id.side
  BY <1>4, <1>7
<1>9. Account!Trade(k)
  BY <1>2, <1>6, <1>8 DEF Account!Trade, Account!NoOrder
<1> QED BY <1>2, <1>4, <1>9 DEF Account!Run

LEMMA OneOrderSubmits ==
    ASSUME DustIsBounded, EntriesInv, SendAccepted
    PROVE  Account!Run
<1> DEFINE id == mem.marker
<1>1. pc = "send" /\ Accept(id, amount)
  BY DEF SendAccepted
<1>2. \A o \in DOMAIN orders : ~orders[o].live
  BY <1>1 DEF EntriesInv, AllBooksInv, DurableInv
<1>3. OpenOrder = [side |-> "none", left |-> 0]
  BY <1>2, NoOpenOrder
<1>4. /\ id \in Ids /\ id.side \in {"buy", "sell"} /\ amount \in Nat
      /\ coins \in Nat /\ cash \in Nat /\ held \in Int
      /\ stored > 0
  BY <1>1 DEF EntriesInv, AllBooksInv, Placing, TypeOK, VenueTypeOK, MarkerInv, Ids, Sides
<1>5. coins = held /\ cash + held = StartCash
  BY <1>2 DEF EntriesInv, AllBooksInv, AccountInv
<1>6. /\ DOMAIN orders' = DOMAIN orders \union {id}
      /\ orders'[id] = [qty |-> amount, filled |-> 0, live |-> TRUE]
      /\ \A o \in DOMAIN orders : o # id /\ orders'[o] = orders[o]
      /\ held' = held
  BY <1>1 DEF Accept
<1>7. OpenOrder' = [side |-> id.side, left |-> amount]
  <2> DEFINE alive == {o \in DOMAIN orders' : orders'[o].live}
  <2>1. alive = {id}
    BY <1>2, <1>6
  <2>2. (CHOOSE i \in alive : TRUE) = id /\ alive # {}
    BY <2>1
  <2>3. id' = id
    BY DEF SendAccepted
  <2>4. orders'[id].qty - orders'[id].filled = amount
    BY <1>4, <1>6
  <2> HIDE DEF id
  <2> QED BY <2>2, <2>3, <2>4 DEF OpenOrder
<1>8. IF id.side = "buy" THEN amount <= cash ELSE amount <= coins
  BY <1>1 DEF Accept, Affordable
<1>9. amount \in 0 .. StartCash
  BY <1>4, <1>5, <1>8, StartCashAssumption
<1>10. id.side = "buy" => held <= MaxDust
  <2>1. Dust \in Dusts
    <3>1. bars[stored] \in Bars
      BY <1>4 DEF EntriesInv, AllBooksInv, TypeOK
    <3> QED BY <3>1 DEF Dust, Bars
  <2>2. MaxDust \in Dusts /\ Dust <= MaxDust
    BY <2>1 DEF DustIsBounded, MaxDust
  <2>3. Dust \in Nat /\ MaxDust \in Nat
    BY <2>1, <2>2, BoundsAssumption
  <2>4. id.side = "buy" => ~HoldsPosition(held)
    BY <1>1 DEF EntriesInv, AllBooksInv, BooksInv, EntryInv
  <2> QED BY <1>4, <2>2, <2>3, <2>4 DEF HoldsPosition
<1>11. id.side # "buy" => amount <= held
  BY <1>5, <1>8
<1>12. Account!Submit(id.side, amount)
  <2> HIDE DEF id
  <2> QED BY <1>3, <1>6, <1>7, <1>10, <1>11
          DEF Account!Submit, Account!NoOrder, MaxDust
<1> QED BY <1>4, <1>9, <1>12 DEF Account!Run

\* The loop with its crashes, lost answers, failed saves and retries does to
\* an account of its own only what OneOrder allows: one order at a time, no
\* entry on top of an entry, no sale of what it has not bought.
THEOREM OneOrderAtATime ==
    WorldIsKind /\ AloneAndReconciling /\ DustIsBounded /\ Spec => ImplementsOneOrder
<1> SUFFICES ASSUME WorldIsKind, AloneAndReconciling, DustIsBounded
             PROVE  Spec => ImplementsOneOrder
  OBVIOUS
<1>1. Init => Account!Start
  <2> SUFFICES ASSUME Init PROVE Account!Start
    OBVIOUS
  <2>1. DOMAIN orders = {}
    BY DEF Init, VenueInit
  <2>2. held = 0
    BY Zenon DEF Init, VenueInit
  <2>3. OpenOrder = [side |-> "none", left |-> 0]
    BY <2>1, NoOpenOrder
  <2> QED BY <2>2, <2>3 DEF Account!Start, Account!NoOrder
<1>2. EntriesInv /\ [Next]_vars => [Account!Run]_(Account!orderVars)
  <2> SUFFICES ASSUME EntriesInv, [Next]_vars
               PROVE  [Account!Run]_(Account!orderVars)
    OBVIOUS
  <2>1. CASE VenueMatches
    BY <2>1, OneOrderTrades
  <2>2. CASE SendAccepted
    BY <2>2, OneOrderSubmits
  <2>3. CASE UNCHANGED <<orders, held>>
    <3>1. OpenOrder' = OpenOrder
      BY <2>3 DEF OpenOrder
    <3> QED BY <2>3, <3>1 DEF Account!orderVars
  <2>4. CASE UNCHANGED vars \/ CloseBar \/ OthersMove \/ ReadBackFilled
    BY <2>3, <2>4
    DEF vars, CloseBar, OthersMove, ForeignDeposit, ForeignWithdraw, ReadBackFilled, venueVars
  <2>5. CASE (Trader \/ Crash) /\ ~SendAccepted /\ ~ReadBackFilled
    BY <2>3, <2>5, QuietStep DEF venueVars
  <2> QED BY <2>1, <2>2, <2>4, <2>5 DEF Next
<1>3. Spec => []EntriesInv
  BY EntriesAlways
<1> QED BY <1>1, <1>2, <1>3, PTL DEF Spec, ImplementsOneOrder, Account!OneOrderSpec
=============================================================================
