----------------------------- MODULE LiveTrader -----------------------------
(***************************************************************************)
(* The trading loop of src/src/trading/live_trader.h driving the client of *)
(* src/src/trading/poloniex_trading_client.h against one account.          *)
(*                                                                         *)
(* A cycle is cut where the outside world can act: at each request to the  *)
(* venue and at each write of the state file. Between two cuts the code    *)
(* runs alone, so a step does all of it. A crash may come at any cut and   *)
(* loses everything but the state file.                                    *)
(***************************************************************************)
EXTENDS Venue, Sequences

CONSTANTS
    NoId,              \* no order in flight
    MaxBars,           \* bound: closed bars
    Dusts,             \* what a bar's price may make dust: base amounts of at
                       \* most this many units are worth less than $1
    Fractions,         \* halves of the cash that sizeFraction() may commit
    QuoteCap,          \* --quote-cap, 0 for none
    AdoptVenueBase,    \* --adopt-venue-position
    ReconcileBalances, \* cfg.reconcileBalances
    MaxBarsPerCycle,   \* cfg.maxBarsPerCycle, 0 for no limit
    Faults,            \* the kinds of failure that happen
    MaxFaults          \* bound: how many of them

FaultKinds == {"crash", "fetch", "openOrders", "balances", "post", "reply",
               "readback", "save"}

ASSUME NoIdAssumption == NoId \notin Ids
ASSUME FaultsAssumption == Faults \subseteq FaultKinds
ASSUME ConfigAssumption ==
    /\ QuoteCap \in Nat /\ MaxBarsPerCycle \in Nat
    /\ AdoptVenueBase \in BOOLEAN /\ ReconcileBalances \in BOOLEAN
ASSUME BoundsAssumption ==
    /\ MaxBars \in Nat /\ MaxFaults \in Nat
    /\ Dusts \subseteq Nat /\ Fractions \subseteq 0 .. 2

VARIABLES
    bars,       \* the closed bars the market has produced
    stored,     \* how many of them the candle store holds
    pc,         \* where the process is
    mem,        \* state_, the TradingState in memory
    disk,       \* the state file; none yet is what a fresh start would have
    firstCycle, \* firstCycle_
    block,      \* reconcileBlock_: why trading is suspended, "" if it is not
    amount,     \* the amount of the order being placed
    log,        \* the trade log: <<client order id, amount>> appended so far
    halted,     \* history: the reason the last Halt gave, if it was still true
                \* then, until others move coins or a price makes them dust
    faults      \* failures so far

botVars == <<stored, pc, mem, disk, firstCycle, block, amount, log, halted>>
vars == <<orders, coins, cash, held, thin, moves,
          bars, stored, pc, mem, disk, firstCycle, block, amount, log, halted, faults>>

-----------------------------------------------------------------------------
\* A closed bar: the signals onBar() gives on it when flat ("Buy" or not) and
\* when long ("Sell" or not), and the dust threshold at its close.
Bars == [signal : SUBSET {"Buy", "Sell"}, dust : Dusts]

States == [base : Nat, quote : Nat, bought : BOOLEAN, long : BOOLEAN,
           done : Nat, marker : Ids \union {NoId}, attempt : Nat]

Reasons == {"", "short", "excess"}

PCs == {"down", "idle", "ask", "own", "reconcile", "decide", "send", "read", "save"}

TypeOK ==
    /\ VenueTypeOK
    /\ faults \in Nat
    /\ bars \in Seq(Bars)
    /\ stored \in 0 .. Len(bars)
    /\ pc \in PCs
    /\ mem \in States
    /\ disk \in States
    /\ firstCycle \in BOOLEAN
    /\ block \in Reasons
    /\ halted \in Reasons
    /\ amount \in Nat
    /\ log \in Seq(Ids \X Nat)

\* What the constructor starts from when there is no state file.
Fresh == [base |-> 0, quote |-> StartCash, bought |-> FALSE, long |-> FALSE,
          done |-> 0, marker |-> NoId, attempt |-> 0]

Init ==
    /\ VenueInit
    /\ bars = <<>>
    /\ stored = 0
    /\ pc = "down"
    /\ mem = Fresh
    /\ disk = Fresh
    /\ firstCycle = TRUE
    /\ block = ""
    /\ halted = ""
    /\ amount = 0
    /\ log = <<>>
    /\ faults = 0

-----------------------------------------------------------------------------
\* One more failure of this kind, if the instance has any left.
Fault(kind) ==
    /\ kind \in Faults
    /\ faults < MaxFaults
    /\ faults' = faults + 1

Least(a, b) == IF a < b THEN a ELSE b

\* The dust threshold at the newest stored close (lastPrice, refPrice).
Dust == bars[stored].dust

\* holdsPosition()
HoldsPosition(base) == base > Dust

\* The strategy's position after a bar: Buy acts when flat, Sell when long.
AfterBar(long, bar) ==
    \/ long /\ "Sell" \notin bar.signal
    \/ ~long /\ "Buy" \in bar.signal

\* The position after replaying bars from+1 .. to.
Replay(long, from, to) ==
    LET before[i \in from + 1 .. to] ==
            IF i = from + 1 THEN long ELSE AfterBar(before[i - 1], bars[i - 1])
    IN  IF to = from THEN long ELSE AfterBar(before[to], bars[to])

\* The bar the replay of this cycle stops at.
ReplayStop ==
    IF MaxBarsPerCycle > 0 THEN Least(stored, mem.done + MaxBarsPerCycle)
                           ELSE stored

\* state_ after the replay loop.
Replayed == [mem EXCEPT !.long = Replay(mem.long, mem.done, ReplayStop),
                        !.done = ReplayStop]

\* Mistake: the cash of the whole account is adopted, whatever the cap.
ReconciledUncapped(m, ownFillLikely, base, quote) ==
    LET excess == base > m.base + Dust
        newBase == IF excess /\ ~ownFillLikely /\ ~AdoptVenueBase
                   THEN m.base ELSE base
    IN  [m EXCEPT !.base = newBase,
                  !.quote = quote,
                  !.bought = HoldsPosition(newBase)]

\* reconcileWithVenue() applied to state m, given the venue's balances. The
\* base is adopted when the difference is immaterial (worth less than dust),
\* when it is a shortfall, and when an excess is attributed to this bot.
Reconciled(m, ownFillLikely, base, quote) ==
    LET excess == base > m.base + Dust
        newBase == IF excess /\ ~ownFillLikely /\ ~AdoptVenueBase
                   THEN m.base ELSE base
    IN  [m EXCEPT !.base = newBase,
                  !.quote = IF QuoteCap > 0 THEN Least(quote, QuoteCap) ELSE quote,
                  !.bought = HoldsPosition(newBase)]

\* Mistake: a mismatch that has been reported once is let pass.
BlockedOnce(m, ownFillLikely, base) ==
    IF block # "" \/ ownFillLikely \/ base = m.base THEN "" ELSE "excess"

\* ... and reconcileBlock_: set by a shortfall and by a foreign excess.
Blocked(m, ownFillLikely, base) ==
    CASE base + Dust < m.base -> "short"
      [] base > m.base + Dust /\ ~ownFillLikely /\ ~AdoptVenueBase -> "excess"
      [] OTHER -> ""

\* Cash committed by an entry sized at f halves of the cash.
Budget(f) == (mem.quote * f) \div 2

OrderId(m, side) == [side |-> side, attempt |-> m.attempt + 1, bar |-> stored]

\* The end of a cycle that places nothing: saveState(), then sleep. A failed
\* save only leaves the old file.
SaveAndRest(m) ==
    /\ mem' = m
    /\ pc' = "idle"
    /\ \/ disk' = m /\ UNCHANGED faults
       \/ disk' = disk /\ Fault("save")

-----------------------------------------------------------------------------
\* The market closes a bar.
CloseBar ==
    /\ Len(bars) < MaxBars
    /\ \E bar \in Bars : bars' = Append(bars, bar)
    /\ UNCHANGED <<venueVars, botVars, faults>>

\* The account's other users, and the venue's matching.
OthersMove ==
    /\ ForeignDeposit \/ ForeignWithdraw
    /\ halted' = ""
    /\ UNCHANGED <<bars, stored, pc, mem, disk, firstCycle, block, amount, log, faults>>

VenueMatches ==
    /\ \E id \in DOMAIN orders :
          \E k \in 0 .. orders[id].qty, closes \in BOOLEAN : Match(id, k, closes)
    /\ UNCHANGED <<bars, botVars, faults>>

-----------------------------------------------------------------------------
\* Mistake: only the first cycle reconciles.
ResumeOnce == IF firstCycle THEN "reconcile" ELSE "decide"

\* Where a cycle goes once no order is in flight.
Resume == IF firstCycle \/ ReconcileBalances THEN "reconcile" ELSE "decide"

\* Steps 1 and 2 of cycle(): fetch and store the closed bars, load the series.
\* A fetch that fails leaves the store as it was.
BeginCycle ==
    /\ pc = "idle"
    /\ \/ stored' = Len(bars) /\ UNCHANGED faults
       \/ stored' = stored /\ Fault("fetch")
    /\ stored' > 0
    /\ pc' = IF mem.marker # NoId THEN "ask" ELSE Resume
    /\ halted' = IF coins <= mem.base + bars[stored'].dust THEN "" ELSE halted
    /\ UNCHANGED <<venueVars, bars, mem, disk, firstCycle, block, amount, log>>

\* ... there is no bar at all yet: "no-data".
NoData ==
    /\ pc = "idle"
    /\ stored = 0
    /\ \/ bars = <<>> /\ SaveAndRest(mem)
       \/ Fault("fetch") /\ disk' = mem /\ UNCHANGED <<pc, mem>>
    /\ UNCHANGED <<venueVars, bars, stored, firstCycle, block, amount, log, halted>>

\* Step 3: the order in flight still rests at the venue; place nothing.
AwaitOrder ==
    /\ pc = "ask"
    /\ Live(mem.marker)
    /\ SaveAndRest(mem)
    /\ UNCHANGED <<venueVars, bars, stored, firstCycle, block, amount, log, halted>>

\* Mistake: never ask whether the order still rests.
OrderGoneUnasked ==
    /\ pc = "ask"
    /\ mem' = [mem EXCEPT !.marker = NoId]
    /\ pc' = "own"
    /\ UNCHANGED <<venueVars, bars, stored, disk, firstCycle, block, amount, log, halted, faults>>

\* ... it is gone from the book, or openOrders() failed, which the client
\* reports as an empty list: forget the marker and look at the balances.
OrderGone ==
    /\ pc = "ask"
    /\ \/ ~Live(mem.marker) /\ UNCHANGED faults
       \/ Live(mem.marker) /\ Fault("openOrders")
    /\ mem' = [mem EXCEPT !.marker = NoId]
    /\ pc' = "own"
    /\ UNCHANGED <<venueVars, bars, stored, disk, firstCycle, block, amount, log, halted>>

\* reconcileWithVenue(ownFillLikely): a failed balances() changes nothing.
Reconcile(ownFillLikely) ==
    \/ /\ mem' = Reconciled(mem, ownFillLikely, coins, cash)
       /\ block' = Blocked(mem, ownFillLikely, coins)
       /\ UNCHANGED faults
    \/ /\ Fault("balances")
       /\ UNCHANGED <<mem, block>>

\* Step 3, after the order in flight is gone: what changed is its doing.
ReconcileOwnFill ==
    /\ pc = "own"
    /\ Reconcile(TRUE)
    /\ pc' = Resume
    /\ UNCHANGED <<venueVars, bars, stored, disk, firstCycle, amount, log, halted>>

\* Step 4: the reconciliation of every cycle (or of the first one only).
ReconcileCycle ==
    /\ pc = "reconcile"
    /\ Reconcile(FALSE)
    /\ pc' = "decide"
    /\ firstCycle' = FALSE
    /\ UNCHANGED <<venueVars, bars, stored, disk, amount, log, halted>>

-----------------------------------------------------------------------------
\* Steps 5 and 6: replay the bars not yet processed, then one order at most.

\* The replay stopped short of the newest bar: "replaying-backlog".
Backlog ==
    /\ pc = "decide"
    /\ ReplayStop < stored
    /\ SaveAndRest(Replayed)
    /\ UNCHANGED <<venueVars, bars, stored, firstCycle, block, amount, log, halted>>

\* The replay is complete and m is the state it left.
CaughtUp(m) ==
    /\ pc = "decide"
    /\ ReplayStop = stored
    /\ m = Replayed

\* "halted-balance-mismatch"
Halt ==
    /\ CaughtUp(Replayed)
    /\ block # ""
    /\ halted' = IF block = "excess" /\ coins <= mem.base + Dust THEN "" ELSE block
    /\ SaveAndRest(Replayed)
    /\ UNCHANGED <<venueVars, bars, stored, firstCycle, block, amount, log>>

Hold ==
    /\ CaughtUp(Replayed)
    /\ block = ""
    /\ Replayed.long = mem.bought
    /\ SaveAndRest(Replayed)
    /\ UNCHANGED <<venueVars, bars, stored, firstCycle, block, amount, log, halted>>

\* Mistake: the id is set in memory, and saved with the rest at the end.
MarkPendingInMemory(side, qty) ==
    /\ mem' = [Replayed EXCEPT !.marker = OrderId(Replayed, side)]
    /\ pc' = "send"
    /\ amount' = qty
    /\ UNCHANGED <<disk, faults>>

\* markPending(): the id goes into the state file before the order leaves. A
\* failed save throws: nothing is sent, the catch of runLoop() saves again.
MarkPending(side, qty) ==
    LET marked == [Replayed EXCEPT !.marker = OrderId(Replayed, side)]
    IN  /\ mem' = marked
        /\ \/ disk' = marked /\ pc' = "send" /\ amount' = qty /\ UNCHANGED faults
           \/ /\ Fault("save")
              /\ disk' \in {disk, marked}
              /\ pc' = "idle"
              /\ UNCHANGED amount

\* placeBuy() as far as the send: budget the order, or skip it when there is
\* no volatility estimate (f = 0) or only dust to spend.
PlaceBuy ==
    /\ CaughtUp(Replayed)
    /\ block = ""
    /\ Replayed.long /\ ~mem.bought
    /\ \E f \in Fractions :
          IF HoldsPosition(Budget(f))
          THEN MarkPending("buy", Budget(f))
          ELSE SaveAndRest(Replayed) /\ UNCHANGED amount
    /\ UNCHANGED <<venueVars, bars, stored, firstCycle, block, log, halted>>

\* placeSell() as far as the send: everything, unless it became dust.
PlaceSell ==
    /\ CaughtUp(Replayed)
    /\ block = ""
    /\ ~Replayed.long /\ mem.bought
    /\ IF HoldsPosition(mem.base)
       THEN MarkPending("sell", mem.base)
       ELSE SaveAndRest([Replayed EXCEPT !.bought = FALSE]) /\ UNCHANGED amount
    /\ UNCHANGED <<venueVars, bars, stored, firstCycle, block, log, halted>>

-----------------------------------------------------------------------------
\* PoloniexTradingClient::order(), with id = mem.marker.

\* Mistake: the attempt counter never advances.
AcknowledgedNever(m) == m

\* noteOrderAcknowledged() when the venue is known to have seen the id.
Acknowledged(m) == [m EXCEPT !.attempt = @ + 1]

\* The POST does not reach the venue, or the order is below its minimum and
\* not sent: ok = false, no order id. The marker stays.
SendFails ==
    /\ pc = "send"
    /\ Fault("post")
    /\ pc' = "save"
    /\ UNCHANGED <<venueVars, bars, stored, mem, disk, firstCycle, block, amount, log, halted>>

\* Mistake: a duplicate is taken for an order to read back.
SendDuplicateReads ==
    /\ pc = "send"
    /\ mem.marker \in DOMAIN orders
    /\ pc' = "read"
    /\ UNCHANGED <<venueVars, bars, stored, mem, disk, firstCycle, block, amount, log, halted, faults>>

\* The venue has seen this id before and answers 21312.
SendDuplicate ==
    /\ pc = "send"
    /\ mem.marker \in DOMAIN orders
    /\ mem' = Acknowledged(mem)
    /\ pc' = "save"
    /\ UNCHANGED <<venueVars, bars, stored, disk, firstCycle, block, amount, log, halted, faults>>

\* The account cannot pay for it: an error envelope, no order id.
SendRejected ==
    /\ pc = "send"
    /\ mem.marker \notin DOMAIN orders
    /\ ~Affordable(mem.marker, amount)
    /\ pc' = "save"
    /\ UNCHANGED <<venueVars, bars, stored, mem, disk, firstCycle, block, amount, log, halted, faults>>

\* The venue accepts the order, and its answer arrives or is lost.
SendAccepted ==
    /\ pc = "send"
    /\ Accept(mem.marker, amount)
    /\ \/ pc' = "read" /\ UNCHANGED faults
       \/ pc' = "save" /\ Fault("reply")
    /\ UNCHANGED <<bars, stored, mem, disk, firstCycle, block, amount, log, halted>>

\* Mistake: an unknown outcome forgets the order.
ReadBackFailsForgets ==
    /\ pc = "read"
    /\ Fault("readback")
    /\ mem' = [Acknowledged(mem) EXCEPT !.marker = NoId]
    /\ pc' = "save"
    /\ UNCHANGED <<venueVars, bars, stored, disk, firstCycle, block, amount, log, halted>>

\* All four GET /orders/{id} fail: ok = false with an order id.
ReadBackFails ==
    /\ pc = "read"
    /\ Fault("readback")
    /\ mem' = Acknowledged(mem)
    /\ pc' = "save"
    /\ UNCHANGED <<venueVars, bars, stored, disk, firstCycle, block, amount, log, halted>>

\* Read back with nothing filled: still resting, or cancelled unfilled, which
\* the client reports as ok = false. Either way the marker stays.
ReadBackEmpty ==
    /\ pc = "read"
    /\ orders[mem.marker].filled = 0
    /\ mem' = Acknowledged(mem)
    /\ pc' = "save"
    /\ UNCHANGED <<venueVars, bars, stored, disk, firstCycle, block, amount, log, halted, faults>>

\* A fill of k units enters the books: the rest of placeBuy() and placeSell().
Booked(m, k) ==
    LET base == IF m.marker.side = "buy" THEN m.base + k
                ELSE IF k < m.base THEN m.base - k ELSE 0
        quote == IF m.marker.side = "sell" THEN m.quote + k
                 ELSE IF k < m.quote THEN m.quote - k ELSE 0
    IN  [m EXCEPT !.base = base, !.quote = quote,
                  !.bought = HoldsPosition(base), !.marker = NoId]

\* Read back with a fill: clear the marker, book the fill, log it.
ReadBackFilled ==
    /\ pc = "read"
    /\ LET k == orders[mem.marker].filled
       IN  /\ k > 0
           /\ mem' = Booked(Acknowledged(mem), k)
           /\ log' = Append(log, <<mem.marker, k>>)
    /\ pc' = "save"
    /\ UNCHANGED <<venueVars, bars, stored, disk, firstCycle, block, amount, halted, faults>>

\* Step 8: saveState() at the end of a cycle that placed an order.
EndCycle ==
    /\ pc = "save"
    /\ SaveAndRest(mem)
    /\ amount' = 0
    /\ UNCHANGED <<venueVars, bars, stored, firstCycle, block, log, halted>>

-----------------------------------------------------------------------------
\* The process dies (or is stopped) and its memory with it: what is left is
\* what the next start will load.
Crash ==
    /\ pc # "down"
    /\ Fault("crash")
    /\ pc' = "down"
    /\ mem' = disk
    /\ firstCycle' = TRUE
    /\ block' = ""
    /\ amount' = 0
    /\ UNCHANGED <<venueVars, bars, stored, disk, log, halted>>

\* The constructor of LiveTrader: load the state file, or start afresh.
Restart ==
    /\ pc = "down"
    /\ pc' = "idle"
    /\ mem' = disk
    /\ UNCHANGED <<venueVars, bars, stored, disk, firstCycle, block, amount, log, halted, faults>>

Trader ==
    \/ Restart
    \/ BeginCycle \/ NoData \/ AwaitOrder \/ OrderGone
    \/ ReconcileOwnFill \/ ReconcileCycle
    \/ Backlog \/ Halt \/ Hold \/ PlaceBuy \/ PlaceSell
    \/ SendFails \/ SendDuplicate \/ SendRejected \/ SendAccepted
    \/ ReadBackFails \/ ReadBackEmpty \/ ReadBackFilled
    \/ EndCycle

Next == CloseBar \/ OthersMove \/ VenueMatches \/ Trader \/ Crash

Spec == Init /\ [][Next]_vars

\* The scheduling the code justifies: runLoop() goes on cycling and systemd
\* restarts a dead process; an IOC order does not rest for ever.
FairSpec == Spec /\ WF_vars(Trader) /\ WF_vars(VenueMatches)

-----------------------------------------------------------------------------
\* The write-ahead rule: an order that can still trade is named by the state
\* file, so whatever process comes next asks about it before placing another.
InFlightIsDurable ==
    \A id \in DOMAIN orders : orders[id].live => disk.marker = id

\* As long as nobody else moves coins, the books agree with what the bot's
\* orders did, but for an order still named by the marker. On disk always, in
\* memory when a decision is taken: no crash and no lost answer makes the bot
\* forget or repeat a fill.
BooksMatchVenue ==
    moves = 0 =>
        /\ disk.marker = NoId => disk.base = held
        /\ pc \in {"idle", "decide"} /\ mem.marker = NoId => mem.base = held

\* The trade log reports each order once, and never more than it filled.
LogIsTruthful ==
    /\ \A i \in DOMAIN log :
          /\ log[i][1] \in DOMAIN orders
          /\ log[i][2] <= orders[log[i][1]].filled
    /\ \A i, j \in DOMAIN log : log[i][1] = log[j][1] => i = j

\* An order the venue takes in this step.
NewOrder == DOMAIN orders' # DOMAIN orders

\* A bot halts because somebody else moved coins, and never because of a fill
\* of its own ("Trading is suspended until the two agree", live_trader.h:569).
HaltedOnlyByOthers ==
    pc = "decide" /\ block # "" => moves > 0

\* A bot halted by coins it never bought stays halted, restarts included,
\* until somebody moves coins again or a price makes them dust.
ExcessHaltHolds == [][NewOrder => halted # "excess"]_vars

\* The same for a bot halted by coins that went missing: "Trading is suspended
\* until the two agree" (live_trader.h:569).
ShortfallHaltHolds == [][NewOrder => halted # "short"]_vars

\* A sleeve never commits more than its share of the cash.
CapRespected == [][pc = "send" /\ NewOrder /\ mem.marker.side = "buy" => amount <= QuoteCap]_vars

\* A buy is accepted only while the bot's orders have left it (next to)
\* nothing: it never enters on top of an entry.
NoDoubleEntry ==
    [][pc = "send" /\ NewOrder /\ mem.marker.side = "buy" => ~HoldsPosition(held)]_vars

\* The account as OneOrder sees it.
OpenOrder ==
    LET alive == {id \in DOMAIN orders : orders[id].live}
        id == CHOOSE i \in alive : TRUE
    IN  IF alive = {} THEN [side |-> "none", left |-> 0]
        ELSE [side |-> id.side, left |-> orders[id].qty - orders[id].filled]

Account == INSTANCE OneOrder
           WITH order <- OpenOrder,
                Quantities <- 0 .. StartCash,
                MaxDust <- CHOOSE d \in Dusts : \A e \in Dusts : e <= d

\* The loop with its crashes, lost answers and retries does to the account
\* only what OneOrder allows.
ImplementsOneOrder == Account!OneOrderSpec

\* The bot sells no more than its own orders bought.
SellsOnlyItsOwn == held >= 0

\* The account follows the strategy, or has only dust to follow it with.
Settled ==
    /\ pc # "down"
    /\ mem.done = Len(bars)
    /\ mem.long = mem.bought \/ (mem.long /\ ~HoldsPosition(mem.quote))
    /\ disk = mem

\* Once bars, failures and thin books are over, an account nobody else touched
\* comes to hold what the strategy wants, and stays there: no id is burned for
\* ever, no marker is stuck, no partial exit is stranded.
Settles == <>[](moves > 0 \/ Settled)

\* A halt lifts by itself once the venue holds no more than the books say.
HaltLifts == (block = "excess" /\ coins <= mem.base + Dust) ~> (block = "" \/ coins > mem.base + Dust)
=============================================================================
