-------------------------------- MODULE Replay --------------------------------
(***************************************************************************)
(* A live bot and a strategy, bar by bar: bars close and are stored, the   *)
(* bot polls, prepares the strategy on the whole store and feeds it every  *)
(* bar it has not seen, its own notional position in hand                  *)
(* (trading/live_trader.h, step 5 of cycle()).  A repair may put older     *)
(* history in front of what is stored (fetch --repair).                    *)
(*                                                                         *)
(* The strategy is any two operators, its prepare() and onBar(); those of  *)
(* the program are in Families.                                            *)
(*                                                                         *)
(* A setup is a family with its parameters, the gate it stands behind, and *)
(* the bars the market may produce: a set of them for each bar of a series *)
(* that so has a largest length.                                           *)
(***************************************************************************)
EXTENDS ChartStrategies

CONSTANTS
    OnBar(_, _, _, _, _), \* of a setup, a series, a bar, a position and what is
                          \* remembered: the signal, and what is remembered after
    Prepared(_),          \* what prepare() of a family leaves to be remembered
    Setups,          \* records [family, p, gate, g, tape, older]
    MaxBarsPerCycle, \* bars one poll may process; 0: all of them
    MaxBacklog       \* bound: bars that close while the bot does not poll

ASSUME ReplayAssumption == MaxBarsPerCycle \in Nat /\ MaxBacklog \in Nat \ {0}

Candle == [open : Int, high : Int, low : Int, close : Int, volume : Int]
ASSUME SetupsAssumption ==
    \A u \in Setups : /\ Len(u.tape) \in Nat /\ DOMAIN u.tape = 1..Len(u.tape)
                      /\ \A k \in DOMAIN u.tape : u.tape[k] \subseteq Candle
                      /\ u.older \subseteq Candle

VARIABLES
    setup,
    series,    \* the store: a record of columns
    live,      \* the bot's saved state: position, entry time, last bar processed
    repaired   \* a repair has put a bar in front

replayVars == <<setup, series, live, repaired>>

-----------------------------------------------------------------------------
(* A driver's loop over a strategy.                                        *)

\* One bar of the driver's loop: observe, ask, and fill at the close.
Step(u, s, i, was) ==
    LET pos  == Observed(was.pos, s.close[i])
        said == OnBar(u, s, i, pos, was.hidden)
    IN  [pos |-> Filled(pos, said.signal, s.close[i], i), hidden |-> said.hidden]
\* The loop over the bars first..last, from a state; what held after each.
Looped(u, s, first, last, from) ==
    LET after[i \in (first - 1)..last] ==
            IF i < first THEN from ELSE LET was == after[i - 1] IN Step(u, s, i, was)
    IN  [i \in (first - 1)..last |-> after[i]]
\* Mistake: the position lives in the strategy, and prepare() resets it.
PositionForgotten(u, pos) == [pos |-> Flat, hidden |-> Prepared(u.family)]
FreshFrom(u, pos) == [pos |-> pos, hidden |-> Prepared(u.family)]
WholeReplay(u, s) == Looped(u, s, 1, Len(s.close), FreshFrom(u, Flat))

-----------------------------------------------------------------------------
(* The machine.  Timestamps count periods; the first bar of a tape is 10.  *)

Columns == {"open", "high", "low", "close", "volume", "timestamp"}
NoBars == [c \in Columns |-> <<>>]
Dated(b, ts) == [c \in Columns |-> IF c = "timestamp" THEN ts ELSE b[c]]
Longer(s, b)  == [c \in Columns |-> Append(s[c], b[c])]
Earlier(s, b) == [c \in Columns |-> <<b[c]>> \o s[c]]
StoredAt(s, ts) == { i \in Bars(s.timestamp) : s.timestamp[i] >= ts }
\* Mistake: the index of the entry is used as it was saved.
IndexAsSaved(l, s) == l.pos.index
\* Indices do not survive a rebuild of the store, timestamps do.
IndexOfEntry(l, s) ==
    IF StoredAt(s, l.entered) = {} THEN Len(s.close) ELSE Lowest(StoredAt(s, l.entered))

ReplayInit ==
    /\ setup \in Setups
    /\ series = NoBars
    /\ live = [pos |-> Flat, entered |-> 0, done |-> 0]
    /\ repaired = FALSE

Ahead == { i \in Bars(series.timestamp) : series.timestamp[i] > live.done }
\* Mistake: a poll looks at the newest bar and at no other.
NewestBar == Highest(Ahead)
NextBar == Lowest(Ahead)

BarCloses ==
    LET k == Len(series.close) - (IF repaired THEN 1 ELSE 0) + 1
    IN  /\ k <= Len(setup.tape)
        /\ Cardinality(Ahead) < MaxBacklog
        /\ \E b \in setup.tape[k] : series' = Longer(series, Dated(b, 9 + k))
        /\ UNCHANGED <<setup, live, repaired>>

\* fetch --repair rewrites the store with a history that starts earlier.
Repaired ==
    /\ ~repaired /\ Len(series.close) > 0
    /\ \E b \in setup.older : series' = Earlier(series, Dated(b, 9))
    /\ repaired' = TRUE
    /\ UNCHANGED <<setup, live>>

\* prepare() on the whole store, then every bar not processed yet, in order.
Polled ==
    LET n     == Len(series.close)
        first == NextBar
        last  == IF MaxBarsPerCycle > 0 THEN Smaller(n, first + MaxBarsPerCycle - 1) ELSE n
        held  == IF live.pos.in THEN [live.pos EXCEPT !.index = IndexOfEntry(live, series)]
                                ELSE live.pos
        after == Looped(setup, series, first, last, FreshFrom(setup, held))[last].pos
    IN  /\ Ahead # {}
        /\ live' = [pos |-> after, done |-> series.timestamp[last],
                    entered |-> IF after.in THEN series.timestamp[after.index] ELSE 0]
        /\ UNCHANGED <<setup, series, repaired>>

ReplayNext == BarCloses \/ Repaired \/ Polled
ReplaySpec == ReplayInit /\ [][ReplayNext]_replayVars

-----------------------------------------------------------------------------
(* The engine's loop, whose orders fill at the next open, and not at the   *)
(* close they were decided at (backtest/engine.cpp; what a fill costs is   *)
(* Backtest's).                                                            *)

Ordered(signal, pos) ==
    IF (signal = "Buy" /\ ~pos.in) \/ (signal = "Sell" /\ pos.in) THEN signal ELSE "Hold"
EngineStep(u, s, i, was) ==
    LET pos  == Observed(Filled(was.pos, was.pending, s.open[i], i), s.close[i])
        said == OnBar(u, s, i, pos, was.hidden)
    IN  [pos |-> pos, pending |-> Ordered(said.signal, pos), hidden |-> said.hidden]
EngineRun(u, s) ==
    LET after[i \in 0..Len(s.close)] ==
            IF i = 0 THEN [pos |-> Flat, pending |-> "Hold", hidden |-> Prepared(u.family)]
            ELSE LET was == after[i - 1] IN EngineStep(u, s, i, was)
    IN  [i \in 0..Len(s.close) |-> after[i]]
\* In the trade, or about to be: where a fill at the close would already stand.
Committed(e) == e.pending = "Buy" \/ (e.pos.in /\ e.pending # "Sell")

-----------------------------------------------------------------------------
(* Properties.                                                             *)

CaughtUp == Ahead = {} /\ Len(series.close) > 0
Ended == Len(series.close) = Len(setup.tape) + (IF repaired THEN 1 ELSE 0)

(* However the bars of a history reached a bot, one by one or several at a *)
(* poll, the position it holds for a family is the one a single pass over  *)
(* the whole history ends in: entry, price, highest and lowest close.      *)
(* live_trader.h promises a replay; the series prepare() sees grows while  *)
(* it happens.                                                             *)
LiveIsReplay ==
    CaughtUp /\ ~repaired /\ setup.family \notin Remembering =>
        live.pos = WholeReplay(setup, series)[Len(series.close)].pos

(* The same of all families, as README.md has it: "the same call produces  *)
(* the same signal in backtest, walk-forward and live".                    *)
EveryFamilyReplays ==
    CaughtUp /\ ~repaired => live.pos = WholeReplay(setup, series)[Len(series.close)].pos

(* What the engine holds or has ordered is what a bot that saw the same    *)
(* bars holds, for every family that asks of a position only whether there *)
(* is one: their fills differ by a bar and in price, and nothing else.     *)
AsksOnlyWhetherIn == {"tsmom", "sma_cross", "faber_ma", "kama_trend", "ehlers_trend", "macd_norm",
    "ou_score", "squeeze_breakout", "pure_ichimoku", "ichimoku_full", "vol_managed", "vr_switch",
    "fracdiff", "lppls_bubble", "factor_trend", "ensemble_vote", "ensemble_rule", "ensemble_tuned",
    "ensemble_ls", "emergent", "calendar_rule", "control_always_long"}
BacktestPredictsLive ==
    CaughtUp /\ ~repaired /\ setup.family \in AsksOnlyWhetherIn =>
        live.pos.in = Committed(EngineRun(setup, series)[Len(series.close)])

(* The same of the families with a fixed holding horizon: live_trader.h:248 *)
(* has a bot feed its bars "exactly as BacktestEngine::run does it".       *)
Horizons == {"dip_reversion", "control_random"}
HorizonsPredictLive ==
    CaughtUp /\ ~repaired /\ setup.family \in Horizons =>
        live.pos.in = Committed(EngineRun(setup, series)[Len(series.close)])

(* No decision changes when the bars after it become known: a strategy     *)
(* that is given the history up to a bar says there what it says when it   *)
(* is given the rest, in and out of a position; a family that remembers    *)
(* is asked along its own trades (experiments/tools/causality_check.cpp).  *)
Prefix(s, i) == [c \in Columns |-> SubSeq(s[c], 1, i)]
Probes(s, i) ==
    LET e == Larger(1, i - 2)
        closes == Column(s.close, e..i)
    IN  {Flat, [in |-> TRUE, price |-> s.close[e], highest |-> Highest(closes),
                lowest |-> Lowest(closes), index |-> e]}
NothingIsForeseen ==
    Ended =>
        LET whole == WholeReplay(setup, series)
        IN  \A i \in Bars(series.close) :
                IF setup.family \in Remembering
                THEN WholeReplay(setup, Prefix(series, i))[i] = whole[i]
                ELSE \A pos \in Probes(series, i) :
                         OnBar(setup, Prefix(series, i), i, pos, NaN) = OnBar(setup, series, i, pos, NaN)

(* A trade of a chart family is over on the first close that is past the   *)
(* target, or at the stop, it was opened with: the boxes, swings and turns *)
(* that form while it is open may tighten its stop and move nothing else   *)
(* (darvas_strategy.h, "only ever tightens risk").                         *)
FrameLeft(u, h, close) ==
    CASE u.family \in {"darvas", "patterns"} -> close >= h.target \/ close <= h.stop
      [] u.family = "fib_ichimoku" ->
            LET range == h.entryTop - h.entryBot
            IN  \/ Permille * (close - h.entryTop) >= -u.p.targetLevel * range
                \/ Permille * (h.entryTop - close) >= u.p.stopLevel * range
      [] OTHER -> FALSE
TradeKeepsItsFrame ==
    Ended /\ setup.family \in Remembering =>
        LET whole == WholeReplay(setup, series)
        IN  \A i \in Bars(series.close) :
                whole[i].pos.in /\ whole[i].pos.index < i =>
                    ~FrameLeft(setup, whole[whole[i].pos.index].hidden, series.close[i])

(* A gate in front of a rule, or a market that must agree with a coin, may *)
(* keep it out of a trade and never in one: whenever the gated rule is in  *)
(* a position so is the rule alone, over the same bars.                    *)
Ungated(u) ==
    IF u.family = "factor_trend" THEN [u EXCEPT !.p.confirm = FALSE] ELSE [u EXCEPT !.gate = "none"]
GatesOnlyKeepOut ==
    Ended /\ (setup.gate # "none" \/ setup.family = "factor_trend") =>
        LET gated == WholeReplay(setup, series)
            alone == WholeReplay(Ungated(setup), series)
        IN  \A i \in Bars(series.close) : gated[i].pos.in => alone[i].pos.in

(* A trade with a fixed horizon lasts until the bar the horizon names, and *)
(* no longer: by timestamps, which are what is saved, through polls and    *)
(* through a repair that moves the index of every bar.                     *)
HorizonKept ==
    [][live.pos.in /\ setup.family \in Horizons =>
          (live'.pos.in /\ live'.entered = live.entered
               <=> live'.done < live.entered + Larger(1, setup.p.holdBars))]_live

(* "VR > 1 means q-bar moves are larger than q independent one-bar moves   *)
(* would be" (regime.h:12): a window in which the mean squared q-bar move  *)
(* is at least q times that of one bar is measured at one or above.        *)
PersistenceShows ==
    Ended /\ setup.gate = "vr" =>
        LET x == LogOf(series.close)
            w == setup.g.window
            q == setup.g.lag
        IN  \A i \in (w + 1)..Len(x) :
                LET one  == SquaredMoves(x, w, 1, i)
                    many == SquaredMoves(x, w, q, i)
                IN  one >= w /\ many * w >= q * one * (w - q + 1) =>
                        VarianceRatio(series.close, w, q, i) >= Permille

(* What is kept as a running sum, a running count or a countdown is, on    *)
(* every bar, what the window it stands for holds: nothing that left the   *)
(* window is still counted, and nothing in it is missed.                   *)
WindowsAreExact ==
    Ended =>
        LET c == series.close
            v == series.volume
            moves == [k \in Bars(c) |-> IF k = 1 THEN 0 ELSE Abs(c[k] - c[k - 1])]
            rank == PercentileRank(c, 3)
        IN  \A i \in Bars(c) : \A w \in 2..3 :
                /\ i >= w => Sma(c, w)[i] = SumOver(c, i - w + 1, i) \div w
                /\ i > w => PathLength(c, w)[i] = SumOver(moves, i - w + 1, i)
                /\ i > w => LET before == SumOver(v, i - w, i - 1)
                            IN  RelativeVolume(v, w)[i] = Where(before > 0, (Permille * w * v[i]) \div before)
                /\ i > w => LET b == Before(c, 1, w)[i]
                            IN  b.n = w - 1 /\ b.sum = SumOver(c, i - w + 1, i - 1)
                /\ Armed(rank, 500, w)[i] =
                       \E k \in Bars(c) : k > i - w /\ k <= i /\ Ok(rank[k]) /\ (IF Ok(rank[k]) THEN rank[k] <= 500 ELSE FALSE)
                /\ i >= 2 => \A o \in DOMAIN PatternCounts(c, 2, w, i) :
                       PatternCounts(c, 2, w, i)[o] =
                           Cardinality({ k \in 2..i : k > i - w /\ Ordinal(c, 2, k) = o })
=============================================================================
