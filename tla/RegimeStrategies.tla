--------------------------- MODULE RegimeStrategies ---------------------------
(***************************************************************************)
(* The families that measure what kind of series they are in, the gates    *)
(* that hold back entries by such a measure, the votes over several rules, *)
(* and the two rule languages a search composes (emergent_strategy.h,      *)
(* zoo/spec_strategy.h).                                                   *)
(*                                                                         *)
(* Three numeric procedures enter as constant operators of the window they *)
(* read: the LPPLS fit, the spiral's memory order, and the R/S statistic a *)
(* random walk of a given length would have.  When they are computed, and  *)
(* how long a result is held, is modelled.                                 *)
(***************************************************************************)
EXTENDS Strategies

CONSTANTS
    Bubble(_),       \* the share of the scales that see a bubble, of log closes
    MemoryOrder(_),  \* the spiral's order, or NaN, of log closes
    WalkRange(_)     \* log of the R/S of a random walk of that many bars

Window(v, i, w) == [k \in 1..w |-> v[i - w + k]]

-----------------------------------------------------------------------------
(* Measures of a regime.                                                   *)

\* The squared q-bar moves of a window, around what its drift explains.
SquaredMoves(x, w, q, i) ==
    LET mu == (x[i] - x[i - w]) \div w
        d(k) == x[i - w + q + k - 1] - x[i - w + k - 1] - q * mu
    IN  SumOver([k \in 1..(w - q + 1) |-> d(k) * d(k)], 1, w - q + 1)
\* Lo and MacKinlay's ratio, of overlapping moves; m, too, has a factor q.
VarianceRatio(close, w, q, i) ==
    LET x   == LogOf(close)
        one == SquaredMoves(x, w, 1, i) \div (w - 1)
        m   == q * (w - q + 1) * (w - q)
        many == SquaredMoves(x, w, q, i)
    IN  IF i <= w \/ ~OkOn(x, i - w, i) THEN NaN
        ELSE IF one <= 0 THEN NaN ELSE (Permille * ((many * w) \div m)) \div (q * one)

\* The order of the last m closes, the earlier of two equals first.
Ordinal(close, m, i) ==
    [a \in 1..m |-> Cardinality({ b \in 1..m : \/ close[i - m + b] < close[i - m + a]
                                               \/ close[i - m + b] = close[i - m + a] /\ b < a })]
\* Mistake: the pattern that leaves the window is not taken off its count.
CountsKept(close, m, w, i) ==
    LET seen == { Ordinal(close, m, k) : k \in m..i }
    IN  [o \in seen |-> Cardinality({ k \in m..i : Ordinal(close, m, k) = o })]
\* How often each order was seen in the window: counted as bars come and go.
PatternCounts(close, m, w, i) ==
    LET seen == { Ordinal(close, m, k) : k \in m..i }
        count[k \in 0..i] ==
            IF k = 0 THEN [o \in seen |-> 0]
            ELSE LET was == count[k - 1]
                 IN  [o \in seen |-> was[o]
                        + (IF k >= m /\ Ordinal(close, m, k) = o THEN 1 ELSE 0)
                        - (IF k - w >= m /\ Ordinal(close, m, k - w) = o THEN 1 ELSE 0)]
    IN  count[i]
\* Bandt and Pompe's entropy of those counts; p.logOrders is the log of m!.
PermutationEntropy(p, close, i) ==
    LET counts == PatternCounts(close, p.order, p.window, i)
        total  == Cardinality({ k \in (i - p.window + 1)..i : k >= p.order })
        share(o) == (Permille * counts[o]) \div total
        order[S \in SUBSET DOMAIN counts] ==
            IF S = {} THEN 0
            ELSE LET o == CHOOSE o \in S : TRUE
                 IN  (IF counts[o] = 0 THEN 0 ELSE share(o) * (Log(1000) - Log(share(o))))
                     + order[S \ {o}]
    IN  IF i < p.window \/ 2 * total < p.window THEN NaN
        ELSE order[DOMAIN counts] \div p.logOrders

\* A shock adds to the intensity, which decays bar by bar; unmeasured bars decay too.
HawkesIntensity(p, close) ==
    LET r   == PercentReturns(close)
        vol == RollingVolatility(close, p.volWindow)
        measured(k) == Ok(r[k]) /\ Ok(vol[k]) /\ (IF Ok(vol[k]) THEN vol[k] > 0 ELSE FALSE)
        lambda[k \in 0..Len(close)] ==
            IF k = 0 THEN 0
            ELSE (lambda[k - 1] * p.decay) \div Permille
                 + (IF measured(k) /\ Permille * Abs(r[k]) > p.jumpSigmas * vol[k]
                    THEN Permille ELSE 0)
    IN  [k \in Bars(close) |-> Where(measured(k), lambda[k])]

\* Half the slope, over the lags, of the log of the mean squared move.
HurstStructure(p, close, i) ==
    LET x == LogOf(close)
        moves(lag) == SumOver([k \in 1..(p.window - lag) |->
                          LET d == x[i - p.window + lag + k] - x[i - p.window + k] IN d * d],
                          1, p.window - lag)
        size == [k \in Bars(p.lags) |-> Log(Larger(1, moves(p.lags[k]) \div (p.window - p.lags[k])))]
        fit  == Ols([k \in Bars(p.lags) |-> Log(p.lags[k])], size, Len(p.lags))
    IN  IF i < p.window \/ \E k \in Bars(p.lags) : moves(p.lags[k]) <= 0 \/ ~Ok(fit) THEN NaN
        ELSE Larger(0, Smaller(Permille, fit.b \div 2))

\* Rescaled range: the log of R/S over the log of the chunk's length, after
\* taking off what a random walk would show.
RescaledRange(r, from, len) ==
    LET mean == MeanOver(r, from, from + len - 1)
        walk == [k \in 0..len |-> IF k = 0 THEN 0 ELSE SumOver(r, from, from + k - 1) - k * mean]
        dev  == Root(SquaresAround(r, from, from + len - 1, mean) \div len)
    IN  IF dev = 0 THEN NaN
        ELSE (Permille * (Highest(Column(walk, 0..len)) - Lowest(Column(walk, 0..len)))) \div dev
HurstExponent(p, close, i) ==
    LET r     == PercentReturns(close)
        start == Larger(2, i - p.window + 1)
        measured(len) ==
            LET chunks == (i - start + 1) \div len
                rs == [c \in 1..chunks |-> RescaledRange(r, start + (c - 1) * len, len)]
                known == { c \in 1..chunks : Ok(rs[c]) }
            IN  IF known = {} THEN NaN
                ELSE SumOver([c \in 1..chunks |-> IF c \in known THEN rs[c] ELSE 0], 1, chunks)
                     \div Cardinality(known)
        rs  == [k \in Bars(p.chunks) |-> measured(p.chunks[k])]
        fit == Ols([k \in Bars(rs) |-> Log(p.chunks[k])],
                   [k \in Bars(rs) |-> Log(rs[k]) - WalkRange(p.chunks[k])], Len(rs))
    IN  IF i < p.window + 1 \/ \E k \in Bars(rs) : ~Ok(rs[k]) \/ rs[k] = 0 THEN NaN
        ELSE IF ~Ok(fit) THEN NaN ELSE Permille \div 2 + fit.b

-----------------------------------------------------------------------------
(* Gates.  They take the inner rule's signal, hold back an entry when the  *)
(* measure is against it, and never an exit; what is not measured blocks   *)
(* nothing.                                                                *)

\* Mistake: a gate silences the rule behind it.
GatedBothWays(signal, measure, open) == IF Ok(measure) /\ ~open THEN "Hold" ELSE signal
Gated(signal, measure, open) ==
    IF signal = "Buy" /\ Ok(measure) /\ ~open THEN "Hold" ELSE signal
PermutationEntropyGate(p, s, i, signal) ==
    LET pe == PermutationEntropy(p, s.close, i) IN Gated(signal, pe, pe <= p.maxEntropy)
HawkesIntensityGate(p, s, i, signal) ==
    LET rank == PercentileRank(HawkesIntensity(p, s.close), p.rankWindow)[i]
    IN  Gated(signal, rank, rank <= p.maxRank)
VarianceRatioGate(p, s, i, signal) ==
    LET vr == VarianceRatio(s.close, p.window, p.lag, i) IN Gated(signal, vr, vr >= p.minVr)
HurstRegimeFilter(p, s, i, signal) ==
    LET h == IF p.estimator = "StructureFunction" THEN HurstStructure(p, s.close, i)
                                                  ELSE HurstExponent(p, s.close, i)
    IN  Gated(signal, h, h >= p.trendThreshold)

-----------------------------------------------------------------------------
(* Families: vol_managed, vr_switch, fracdiff, cusum_tb, lppls_bubble.     *)

VolManaged(p, s, i) ==
    LET rank  == PercentileRank(RollingVolatility(s.close, p.volWindow), p.rankWindow)[i]
        trend == Sma(s.close, Larger(1, p.trendWindow))[i]
        up    == p.trendWindow > 1 => (IF Ok(trend) THEN s.close[i] > trend ELSE FALSE)
    IN  IF ~Ok(rank) THEN "Hold" ELSE Choice(rank <= p.maxVolRank /\ up, TRUE)

\* It follows a persistent series, buys the dips of a reverting one, and has
\* no position in any other.
VrSwitch(p, s, i, pos) ==
    LET vr    == VarianceRatio(s.close, p.vrWindow, p.vrLag, i)
        trend == Sma(s.close, p.trendWindow)[i]
        mean  == Sma(s.close, p.mrWindow)[i]
        dev   == RollingStd(s.close, p.mrWindow)[i]
        z     == (Permille * (s.close[i] - mean)) \div dev
    IN  IF ~Ok(vr) THEN "Hold"
        ELSE IF vr > Permille + p.band
        THEN IF Ok(trend) THEN Choice(s.close[i] > trend, TRUE) ELSE "Hold"
        ELSE IF vr >= Permille - p.band THEN "Sell"
        ELSE IF ~(Ok(mean) /\ Ok(dev)) THEN "Hold"
        ELSE IF dev = 0 THEN "Hold"
        ELSE Choice(~pos.in /\ z < -p.mrEntryZ, pos.in /\ z > 0)

\* Fractional differencing with the fixed weights p.weights, newest bar first.
FracDiff(p, s, i, pos) ==
    LET x  == LogOf(s.close)
        fd == [k \in Bars(x) |->
                  IF k < Len(p.weights) \/ ~OkOn(x, k - Len(p.weights) + 1, k) THEN NaN
                  ELSE SumOver([j \in Bars(p.weights) |-> p.weights[j] * x[k - j + 1]],
                               1, Len(p.weights)) \div Permille]
        mean == MeanSkipNaN(fd, p.zWindow)[i]
        dev  == RollingStd(fd, p.zWindow)[i]
        z    == (Permille * (fd[i] - mean)) \div dev
        v    == IF p.momentum THEN z ELSE -z
    IN  IF ~(Ok(fd[i]) /\ Ok(mean) /\ Ok(dev)) THEN "Hold"
        ELSE IF dev = 0 THEN "Hold"
        ELSE IF pos.in THEN Leave(v < p.exitZ) ELSE Enter(v > p.entryZ)

\* The bars at which returns have added up to a threshold; the sums pass over
\* a bar whose volatility is not known.
CusumEvents(p, close) ==
    LET r   == PercentReturns(close)
        vol == RollingVolatility(close, p.volWindow)
        state[k \in 0..Len(close)] ==
            IF k = 0 THEN [up |-> 0, down |-> 0, event |-> FALSE]
            ELSE LET was  == state[k - 1]
                     h    == (p.hSigmas * vol[k]) \div Permille
                     up   == Larger(0, was.up + r[k])
                     down == Smaller(0, was.down + r[k])
                     blind == ~(Ok(r[k]) /\ Ok(vol[k])) \/ vol[k] = 0
                 IN  IF blind THEN [was EXCEPT !.event = FALSE]
                     ELSE [up |-> IF up > h THEN 0 ELSE up,
                           down |-> IF up <= h /\ down < -h THEN 0 ELSE down,
                           event |-> up > h]
    IN  { k \in Bars(close) : state[k].event }
\* A target, a stop and a deadline, in deviations as of the bar of entry.
CusumTripleBarrier(p, s, i, pos) ==
    LET sigma == RollingVolatility(s.close, p.volWindow)[pos.index]
        gain  == Permille * Gain(s, i, pos)
    IN  IF ~pos.in THEN Enter(i \in CusumEvents(p, s.close))
        ELSE IF HeldFor(i, pos, p.maxHold) THEN "Sell"
        ELSE IF ~Ok(sigma) \/ pos.price <= 0 THEN "Hold"
        ELSE Leave(sigma > 0 /\ (gain >= p.ptMult * sigma \/ gain <= -p.slMult * sigma))

\* A fit every refitEvery bars, held until the next one; a bubble means out.
LastFit(i, first, step) == i - ((i - first) % step)
LpplsBubble(p, s, i) ==
    LET trend == Sma(s.close, p.trendWindow)[i]
        x     == LogOf(s.close)
        fitAt == LastFit(i, p.window + 1, p.refitEvery)
        conf  == IF i <= p.window THEN 0
                 ELSE IF ~OkOn(x, fitAt - p.window + 1, fitAt) THEN 0
                 ELSE Bubble(Window(x, fitAt, p.window))
    IN  IF ~Ok(trend) THEN "Hold"
        ELSE Choice(conf < p.confThreshold /\ s.close[i] > trend, TRUE)

-----------------------------------------------------------------------------
(* factor_trend: a trend of its own, and that of a reference series, read  *)
(* late and by timestamp, never by index.                                  *)

TrendZ(p, close) ==
    LET vol == RollingVolatility(close, p.volWindow)
        ret == TrailingReturn(close, p.lookback)
    IN  [k \in Bars(close) |->
            IF ~(Ok(ret[k]) /\ Ok(vol[k])) \/ vol[k] = 0 THEN NaN
            ELSE (100 * Permille * ret[k]) \div (vol[k] * Root(10000 * p.lookback))]
\* The latest bar of the reference that closed lag bars before bar i; 0: none did.
Aligned(s, ref, lag, i) ==
    LET known == { k \in Bars(ref.timestamp) : ref.timestamp[k] <= s.timestamp[i] - lag }
    IN  IF known = {} THEN 0 ELSE Highest(known)
FactorZ(p, s, ref, i) ==
    LET k == Aligned(s, ref, p.refLagBars, i) IN IF k = 0 THEN NaN ELSE TrendZ(p, ref.close)[k]
\* The market may keep a coin out, never in; unmeasured, it blocks nothing.
ConfirmedByMarket(p, market, signal) ==
    IF signal = "Buy" /\ p.confirm /\ Ok(market) /\ ~(market > p.confirmZ) THEN "Hold" ELSE signal
\* The weight of the reference is in thousandths.
FactorTrend(p, s, ref, i) ==
    LET own    == TrendZ(p, s.close)[i]
        market == IF p.factorWeight = 0 /\ ~p.confirm THEN NaN ELSE FactorZ(p, s, ref, i)
        blend  == CASE p.factorWeight = 0 -> own
                    [] p.factorWeight = Permille -> market
                    [] OTHER -> IF Ok(own) /\ Ok(market)
                                THEN ((Permille - p.factorWeight) * own + p.factorWeight * market) \div Permille
                                ELSE NaN
    IN  IF ~Ok(blend) THEN "Hold" ELSE ConfirmedByMarket(p, market, Above(blend, p.thresholdZ))

-----------------------------------------------------------------------------
(* Votes.  Every member is replayed over the series with a position of its *)
(* own, filled at closes, and votes while that position is open.           *)

Members == {"tsmom", "faber", "donchian"}
Member(m, p, s, i, pos) ==
    CASE m = "tsmom" -> Tsmom(p.tsmom, s, i)
      [] m = "faber" -> FaberMa(p.faber, s, i)
      [] m = "donchian" -> Donchian(p.donchian, s, i, pos)
\* The positions of one uninterrupted replay of a member.
Replayed(m, p, s) ==
    LET at[i \in 0..Len(s.close)] ==
            IF i = 0 THEN Flat
            ELSE LET pos == Observed(at[i - 1], s.close[i])
                 IN  Filled(pos, Member(m, p, s, i, pos), s.close[i], i)
    IN  [i \in Bars(s.close) |-> at[i]]
WantsLong(m, p, s) == LET held == Replayed(m, p, s) IN { i \in Bars(s.close) : held[i].in }
Votes(p, s, i) == { m \in Members : i \in WantsLong(m, p, s) }

ExitVotes(enter, exit) == IF exit >= enter THEN enter - 1 ELSE exit
EnsembleVote(p, s, i, pos) ==
    LET v == Cardinality(Votes(p, s, i))
    IN  Choice(~pos.in /\ v >= p.enterVotes, pos.in /\ v <= ExitVotes(p.enterVotes, p.exitVotes))

\* The sets of members that open a long, and that keep it.
EnsembleRule(p, s, i, pos) ==
    Choice(~pos.in /\ Votes(p, s, i) \in p.entry, pos.in /\ Votes(p, s, i) \notin p.stay)

\* The members' parameters are its own, but for the windows it has none for.
EnsembleTuned(p, s, i, pos) ==
    EnsembleVote([enterVotes |-> p.enterVotes, exitVotes |-> p.exitVotes,
                  tsmom    |-> [p.tsmom EXCEPT !.lookback = p.tsLookback, !.threshold = p.tsThreshold],
                  faber    |-> [p.faber EXCEPT !.window = p.faberWindow],
                  donchian |-> [p.donchian EXCEPT !.entryWindow = p.donEntry, !.exitWindow = p.donExit,
                                                  !.atrStopMult = p.donAtrMult]], s, i, pos)

\* A trade that loses is given less patience than one that wins.
EnsembleAsym(p, s, i, pos) ==
    LET v == Cardinality(Votes(p, s, i))
        winning == pos.price > 0 /\ Gain(s, i, pos) > p.lossThreshold
    IN  IF pos.in THEN Leave(v <= (IF winning THEN p.exitWinner ELSE p.exitLoser))
        ELSE Enter(v >= p.enterVotes)

\* A short is a long on one over the price: high and low change places.
Reciprocal(s) ==
    LET over(v) == [k \in Bars(v) |-> IF v[k] > 0 THEN 1000000 \div v[k] ELSE 0]
    IN  [s EXCEPT !.open = over(s.open), !.high = over(s.low), !.low = over(s.high),
                  !.close = over(s.close)]
EnsembleLongShort(p, s, i) ==
    LET long  == Cardinality(Votes(p, s, i)) >= p.enterVotes
        short == Cardinality(Votes(p, Reciprocal(s), i)) >= p.enterVotes
    IN  Choice(long /\ ~short, short /\ ~long)

-----------------------------------------------------------------------------
(* Rules a search has written: a weighted sum of comparisons, and a tree.  *)

Ratio(a, b) == IF Ok(a) /\ Ok(b) /\ b # 0 THEN (Permille * a) \div b ELSE NaN
Feature(p, s, i, name) ==
    LET cloud == Ichimoku(s, p.tenkan, p.kijun, p.kijun, p.kijun)
        dmi   == Dmi(s, p.w)
        band  == Bollinger(s.close, p.slow, 2)[i]
    IN  CASE name = "rsi" -> Rsi(s.close, p.w)[i]
          [] name = "adx" -> dmi.adx[i]
          [] name = "plusDI" -> dmi.plusDI[i]
          [] name = "minusDI" -> dmi.minusDI[i]
          [] name = "hurst" -> HurstExponent(p, s.close, i)
          [] name = "close/sma" -> Ratio(s.close[i], Sma(s.close, p.slow)[i])
          [] name = "sma/sma" -> Ratio(Sma(s.close, p.fast)[i], Sma(s.close, p.slow)[i])
          [] name = "close/ema" -> Ratio(s.close[i], Ema(s.close, p.fast)[i])
          [] name = "ema/ema" -> Ratio(Ema(s.close, p.fast)[i], Ema(s.close, p.slow)[i])
          [] name = "close/tenkan" -> Ratio(s.close[i], cloud.tenkan[i])
          [] name = "close/kijun" -> Ratio(s.close[i], cloud.kijun[i])
          [] name = "atr/close" -> Ratio(Atr(s, p.w)[i], s.close[i])
          [] name = "%B" -> IF Ok(band.mid) THEN Ratio(s.close[i] - band.lower, band.upper - band.lower)
                                            ELSE NaN
\* A rule with an unmeasured side is passed over: it adds nothing either way.
Fires(p, s, i, r) ==
    LET a == Feature(p, s, i, r.a)
        b == IF r.useConstant THEN r.constant ELSE Feature(p, s, i, r.b)
    IN  Ok(a) /\ Ok(b) /\ (IF r.greater THEN a > b ELSE a < b)
Emergent(p, s, i) ==
    LET score == SumOver([k \in Bars(p.rules) |-> IF Fires(p, s, i, p.rules[k])
                                                  THEN p.rules[k].weight ELSE 0], 1, Len(p.rules))
    IN  Choice(score >= p.buyThreshold, score <= p.sellThreshold)

\* How many deviations the trailing return is away from nothing.
ZScore(close, w, volWindow, i) ==
    LET vol == RollingVolatility(close, volWindow)[i]
        ret == TrailingReturn(close, w)[i]
    IN  IF ~(Ok(ret) /\ Ok(vol)) THEN NaN
        ELSE IF vol = 0 THEN NaN
        ELSE (Permille * ret) \div Larger(1, (vol * Root(10000 * w)) \div 100)
\* A fit every stride bars from the first full window on, held in between.
HeldMemoryOrder(close, w, stride, i) ==
    IF i <= w THEN NaN ELSE MemoryOrder(Window(LogOf(close), LastFit(i, w + 1, stride), w + 1))
\* What a leaf compares with its threshold: a value and a level, or NaN.
LeafValue(l, s, ref, i) ==
    CASE l.type = "close_sma" -> Ratio(s.close[i], Sma(s.close, l.window)[i])
      [] l.type = "close_ema" -> Ratio(s.close[i], Ema(s.close, l.window)[i])
      [] l.type = "return" -> TrailingReturn(s.close, l.window)[i]
      [] l.type = "breakout" -> Ratio(s.close[i], RollingMaxExclusive(s.high, l.window)[i])
      [] l.type = "breakdown" -> Ratio(s.close[i], RollingMinExclusive(s.low, l.window)[i])
      [] l.type = "rsi" -> Rsi(s.close, l.window)[i]
      [] l.type = "relative_volume" -> RelativeVolume(s.volume, l.window)[i]
      [] l.type = "zscore" -> ZScore(s.close, l.window, l.volWindow, i)
      [] l.type = "market_zscore" ->
            LET k == Aligned(s, ref, 1, i) IN IF k = 0 THEN NaN ELSE ZScore(ref.close, l.window, l.volWindow, k)
      [] l.type = "vol_rank" -> PercentileRank(RollingVolatility(s.close, l.window), l.rankWindow)[i]
      [] l.type = "memory_order" -> HeldMemoryOrder(s.close, l.window, l.stride, i)
      [] l.type = "candle" -> s.close[i] - s.open[i]
      [] l.type = "weekday" -> IF Weekday(s.timestamp[i]) = l.threshold - 1 THEN l.threshold + 1
                                                                           ELSE NaN
\* A leaf that is not measured is false, and so makes the "not" above it true.
Leaf(l, s, ref, i, pos) ==
    LET atr   == Atr(s, l.window)[i]
        value == LeafValue(l, s, ref, i)
    IN  IF l.type = "atr_trailing_stop"
        THEN /\ pos.in /\ Ok(atr)
             /\ 1000 * s.close[i] < 1000 * pos.highest - l.threshold * atr
        ELSE Ok(value) /\ (IF l.above THEN value > l.threshold ELSE value < l.threshold)
\* Rules of any depth, as a tree in a function: node 1 is the root.
Holds(tree, s, ref, i, pos) ==
    LET true[k \in DOMAIN tree] ==
            \/ tree[k].kind = "leaf" /\ Leaf(tree[k].leaf, s, ref, i, pos)
            \/ tree[k].kind = "not" /\ \A c \in tree[k].children : ~true[c]
            \/ tree[k].kind = "all" /\ \A c \in tree[k].children : true[c]
            \/ tree[k].kind = "any" /\ \E c \in tree[k].children : true[c]
    IN  true[1]
GeneratedSpec(p, s, ref, i, pos) ==
    IF pos.in THEN Leave(\/ Holds(p.exit, s, ref, i, pos)
                         \/ p.maxHoldBars > 0 /\ i >= pos.index + p.maxHoldBars)
    ELSE Enter(Holds(p.entry, s, ref, i, pos))
=============================================================================
