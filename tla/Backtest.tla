------------------------------ MODULE Backtest ------------------------------
(***************************************************************************)
(* BacktestEngine::run (backtest/engine.cpp): the bar-by-bar simulator     *)
(* behind every published number, with both of its loops (long/flat and    *)
(* long/short), both fill timings, volatility-targeted sizes, and the      *)
(* intra-trade resizes of the long/flat loop; and buyAndHoldStats, the     *)
(* benchmark that is computed apart from it over the same bars.            *)
(*                                                                         *)
(* A bar has two steps, for its open and for its close.  The strategy is   *)
(* any sequence of signals, the series any sequence of prices.  Money and  *)
(* units are integers: a division rounds down, and what it drops stays in  *)
(* the account; percentages are of 100.  Left out: the statistics of the   *)
(* curves, and the bars before the evaluated window, of which the engine   *)
(* only takes indicators.                                                  *)
(***************************************************************************)
EXTENDS Integers

CONSTANTS
    Prices,               \* raw prices of opens and closes
    Sizes,                \* volatility-targeted fractions; 0: not measurable
    StartingEquity,
    FeePct, SlippagePct,
    BandPct,              \* retargetBand
    LongCost, ShortCost,  \* funding of one bar, in percent of the notional
    MaxPosition,          \* maxPositionFraction
    NumBars,              \* bars of the evaluated window
    Configs               \* the configurations that are run

Config == [allowShort : BOOLEAN, nextOpen : BOOLEAN, volTarget : BOOLEAN,
           retarget : BOOLEAN, downOnly : BOOLEAN]
Signals == {"Hold", "Buy", "Sell"}

\* A run returns at once unless it evaluates two bars; a size is at most the cap.
ASSUME BacktestAssumption ==
    /\ Prices \subseteq Nat \ {0}
    /\ StartingEquity \in Nat
    /\ FeePct \in 0..100
    /\ SlippagePct \in 0..99
    /\ BandPct \in Nat
    /\ LongCost \in Int
    /\ ShortCost \in Int
    /\ MaxPosition \in 0..100
    /\ Sizes \subseteq 0..MaxPosition
    /\ NumBars \in Nat \ {0, 1}
    /\ Configs \subseteq Config

VARIABLES
    config,
    bar,      \* the bar at hand
    at,       \* the step it is at: "open", "close"; "done" after the last bar
    account,  \* what the run holds, and what its report adds up
    size,     \* sizeFraction() at the last closed bar
    pending,  \* the signal queued for the next open
    resize,   \* the resize queued for the next open
    bench,    \* the benchmark's cash and units
    history   \* what the signals and the funding were, for the properties

vars == <<config, bar, at, account, size, pending, resize, bench, history>>

Least(m, n) == IF m < n THEN m ELSE n

-----------------------------------------------------------------------------
(* What a fill costs.                                                      *)

BuyFill(price)  == price + (price * SlippagePct) \div 100
SellFill(price) == price - (price * SlippagePct) \div 100
Fee(amount) == (amount * FeePct) \div 100
\* Mistake: the fee comes on top of the budget.
GrossBeforeFee(budget) == budget
\* What a budget buys when the fee is paid out of it.
Gross(budget) == (budget * 100) \div (100 + FeePct)

(* The account.  `outlay` is what an open long has cost, or what an open   *)
(* short has brought, net of its entry fee.                                *)

Account == [cash : Int, units : Nat, side : {-1, 0, 1}, outlay : Int, fee : Int,
            pnl : Int, tradeFees : Int, totalFees : Int, resizes : Nat]
Unfunded == [cash |-> StartingEquity, units |-> 0, side |-> 0,
             outlay |-> 0, fee |-> 0,
             pnl |-> 0, tradeFees |-> 0, totalFees |-> 0, resizes |-> 0]
NoResize == [pending |-> FALSE, target |-> 0, sellDown |-> FALSE]

\* openAt(), executeBuy(): an entry with a fraction f of the account.  Nothing
\* happens when the volatility could not be measured or no money is left.
Position(a, want, price, f) ==
    LET budget == Least(a.cash, (a.cash * f) \div 100)
        gross  == IF want > 0 THEN Gross(budget) ELSE budget
        basis  == gross + want * Fee(gross)
    IN  [a EXCEPT !.cash = @ - want * basis,
                  !.units = gross \div (IF want > 0 THEN BuyFill(price)
                                                    ELSE SellFill(price)),
                  !.side = want,
                  !.outlay = basis,
                  !.fee = Fee(gross),
                  !.totalFees = @ + Fee(gross)]
CanEnter(a, want, price, f) == f > 0 /\ Position(a, want, price, f).units > 0
Enter(a, want, price, f) ==
    IF a.side = 0 /\ CanEnter(a, want, price, f) THEN Position(a, want, price, f)
                                                 ELSE a

\* Mistake: the record of a trade forgets the fee of its entry.
ExitForgettingEntry(a, price) ==
    LET amount == a.units * (IF a.side > 0 THEN SellFill(price) ELSE BuyFill(price))
        net == a.side * amount - Fee(amount)
    IN  IF a.side = 0
        THEN a
        ELSE [a EXCEPT !.cash = @ + net,
                       !.units = 0, !.side = 0, !.outlay = 0, !.fee = 0,
                       !.pnl = @ + net - a.side * a.outlay + a.fee,
                       !.tradeFees = @ + Fee(amount),
                       !.totalFees = @ + Fee(amount)]
\* closeAt(), executeSell(): the whole position, and the record of its trade.
Exit(a, price) ==
    LET amount == a.units * (IF a.side > 0 THEN SellFill(price) ELSE BuyFill(price))
        net == a.side * amount - Fee(amount)
    IN  IF a.side = 0
        THEN a
        ELSE [a EXCEPT !.cash = @ + net,
                       !.units = 0, !.side = 0, !.outlay = 0, !.fee = 0,
                       !.pnl = @ + net - a.side * a.outlay,
                       !.tradeFees = @ + a.fee + Fee(amount),
                       !.totalFees = @ + Fee(amount)]

\* Mistake: an order against the open position only closes it.
ReverseToFlat(a, want, price, f) ==
    IF a.side = 0 THEN Enter(a, want, price, f)
    ELSE IF a.side = want THEN a ELSE Exit(a, price)
\* applyTarget(): the other side, through flat.
Turn(a, want, price, f) ==
    IF a.side = want THEN a ELSE Enter(Exit(a, price), want, price, f)

Side(signal) == IF signal = "Buy" THEN 1 ELSE -1
Execute(signal, price, f) ==
    CASE signal = "Hold" -> account
      [] signal # "Hold" /\ config.allowShort -> Turn(account, Side(signal), price, f)
      [] signal = "Buy" /\ ~config.allowShort -> Enter(account, 1, price, f)
      [] signal = "Sell" /\ ~config.allowShort -> Exit(account, price)

\* executeResize(): a slice sold, with its share of the outlay, or bought.
Trim(a, n, price) ==
    LET amount == n * SellFill(price)
    IN  [a EXCEPT !.cash = @ + amount - Fee(amount),
                  !.units = @ - n,
                  !.outlay = (@ * (a.units - n)) \div a.units,
                  !.fee = (@ * (a.units - n)) \div a.units,
                  !.totalFees = @ + Fee(amount),
                  !.resizes = @ + 1]
TopUp(a, budget, price) ==
    LET gross == Gross(budget)
    IN  [a EXCEPT !.cash = @ - gross - Fee(gross),
                  !.units = @ + gross \div BuyFill(price),
                  !.outlay = @ + gross + Fee(gross),
                  !.fee = @ + Fee(gross),
                  !.totalFees = @ + Fee(gross),
                  !.resizes = @ + 1]
Resize(a, price) ==
    LET value  == a.units * price
        target == (resize.target * (a.cash + value)) \div 100
        excess == (value - target) \div price
        budget == Least(a.cash, target - value)
    IN  IF a.side = 0 \/ resize.sellDown # (value > target) THEN a
        ELSE IF value > target
        THEN IF excess > 0 THEN Trim(a, excess, price) ELSE a
        ELSE IF Gross(budget) > 0 THEN TopUp(a, budget, price) ELSE a

-----------------------------------------------------------------------------
(* The benchmark: all of the account at the first possible fill, sold at   *)
(* the last close.                                                         *)

Hold(price) ==
    LET gross == Gross(StartingEquity)
    IN  [cash |-> StartingEquity - gross - Fee(gross),
         units |-> gross \div BuyFill(price)]
\* Mistake: the benchmark leaves at the end for free.
LiquidateFree(b, price) == [cash |-> b.cash + b.units * price, units |-> 0]
Liquidate(b, price) ==
    LET proceeds == b.units * SellFill(price)
    IN  [cash |-> b.cash + proceeds - Fee(proceeds), units |-> 0]

Init ==
    /\ config \in Configs
    /\ bar = 1
    /\ at = "open"
    /\ account = Unfunded
    /\ size = 0
    /\ pending = "Hold"
    /\ resize = NoResize
    /\ bench = [cash |-> StartingEquity, units |-> 0]
    /\ history = [held |-> TRUE, funding |-> 0, wanted |-> "Hold", blind |-> FALSE]

\* What AlwaysIn wants to know of an executed signal: the side it asked for, and
\* whether the entry on that side was out of the question.
Noted(signal, price, f) ==
    IF signal = "Hold" THEN history
    ELSE [history EXCEPT
            !.wanted = signal,
            !.blind = /\ account.side # Side(signal)
                      /\ ~CanEnter(Exit(account, price), Side(signal), price, f)]

\* The open of a bar: the order or the resize that the last close queued.
AtOpen(price) ==
    /\ at = "open"
    /\ at' = "close"
    /\ account' = IF resize.pending THEN Resize(account, price)
                                    ELSE Execute(pending, price, size)
    /\ history' = Noted(pending, price, size)
    /\ pending' = "Hold"
    /\ resize' = NoResize
    /\ bench' = IF config.nextOpen /\ bar = 2 THEN Hold(price) ELSE bench
    /\ UNCHANGED <<config, bar, size>>

\* Whether a signal is worth an order: it changes the position.
Changes(signal) ==
    IF config.allowShort
    THEN (signal = "Buy" /\ account.side <= 0) \/ (signal = "Sell" /\ account.side >= 0)
    ELSE (signal = "Buy" /\ account.side = 0) \/ (signal = "Sell" /\ account.side > 0)

\* The resize that a drift out of the band asks for.
Drift(price, f) ==
    LET value  == account.units * price
        equity == account.cash + value
        over   == value * 100 * 100 > f * (100 + BandPct) * equity
        under  == ~config.downOnly /\ account.cash > 0
                    /\ value * (100 + BandPct) < f * equity
    IN  [pending |-> over \/ under, target |-> f, sellDown |-> over]

MayResize(f) ==
    /\ ~config.allowShort
    /\ config.nextOpen
    /\ config.volTarget
    /\ config.retarget
    /\ account.side > 0
    /\ f > 0

\* Funding of the open notional; the long/flat loop has none.
Funding(a, price) ==
    IF ~config.allowShort \/ a.side = 0 THEN 0
    ELSE (a.units * price * (IF a.side > 0 THEN LongCost ELSE ShortCost)) \div 100

\* The close of a bar: the strategy is asked, and its signal executed or queued;
\* after the last bar the position is closed at that close, at cost.
AtClose(signal, price, f) ==
    LET traded == IF config.nextOpen THEN account ELSE Execute(signal, price, f)
        cost   == Funding(traded, price)
        after  == [traded EXCEPT !.cash = @ - cost]
        held   == IF ~config.nextOpen /\ bar = 1 THEN Hold(price) ELSE bench
    IN  /\ at = "close"
        /\ f \in IF config.volTarget THEN Sizes ELSE {MaxPosition}
        /\ size' = f
        /\ pending' = IF config.nextOpen /\ Changes(signal) THEN signal ELSE "Hold"
        /\ resize' = IF MayResize(f) /\ ~Changes(signal) THEN Drift(price, f)
                                                         ELSE NoResize
        /\ account' = IF bar = NumBars THEN Exit(after, price) ELSE after
        /\ bench' = IF bar = NumBars THEN Liquidate(held, price) ELSE held
        /\ bar' = IF bar = NumBars THEN bar ELSE bar + 1
        /\ at' = IF bar = NumBars THEN "done" ELSE "open"
        /\ history' =
              [(IF config.nextOpen THEN history ELSE Noted(signal, price, f)) EXCEPT
                  !.funding = @ + cost,
                  !.held = @ /\ signal # "Sell" /\ (bar = 1 => signal = "Buy")]
        /\ UNCHANGED config

Next ==
    \/ \E price \in Prices : AtOpen(price)
    \/ \E signal \in Signals, price \in Prices, f \in Sizes \union {MaxPosition} :
          AtClose(signal, price, f)

Spec == Init /\ [][Next]_vars

-----------------------------------------------------------------------------
(* Properties.                                                             *)

TypeOK ==
    /\ config \in Configs
    /\ bar \in 1..NumBars
    /\ at \in {"open", "close", "done"}
    /\ account \in Account
    /\ size \in 0..MaxPosition
    /\ pending \in Signals
    /\ resize \in [pending : BOOLEAN, target : 0..MaxPosition, sellDown : BOOLEAN]
    /\ bench \in [cash : Int, units : Nat]
    /\ history \in [held : BOOLEAN, funding : Int, wanted : Signals, blind : BOOLEAN]

\* The long/flat loop never spends money that it does not have: not by an entry
\* whose fee comes on top, and not by a resize that buys ("the engine does not
\* borrow", maxPositionFraction in engine.h).
NeverBorrows == ~config.allowShort => account.cash >= 0

\* Without resizes, the trade records explain every cent of the cash: what was
\* there, the profits of the closed trades, what is tied up in the open one, and
\* the funding, which no trade is charged with; and every fee is in a record or
\* in the open position (entryOutlay and entryFee in run()).
TradesExplainCash ==
    account.resizes = 0 =>
        /\ account.cash + account.side * account.outlay
             = StartingEquity + account.pnl - history.funding
        /\ account.totalFees = account.tradeFees + account.fee

\* A strategy that buys at the first close and never sells ends where the
\* benchmark does: buyAndHoldStats() enters at the same fill, for the same
\* friction, and sells at the same price as the forced close of run().
HoldingIsTheBenchmark ==
    at = "done" /\ history.held /\ ~config.volTarget /\ MaxPosition = 100
      /\ history.funding = 0
    => account.cash = bench.cash

\* In long/short mode a run is always in after its first executed signal, on the
\* side that the last one asked for, unless that entry had no measurable size or
\* no money (applyTarget(); "always-in after its first signal" in engine.h).
AlwaysIn ==
    config.allowShort /\ history.wanted # "Hold" /\ at # "done"
    => account.side = (IF history.blind THEN 0 ELSE Side(history.wanted))
=============================================================================
