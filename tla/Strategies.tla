------------------------------ MODULE Strategies ------------------------------
(***************************************************************************)
(* What a strategy is (strategy/strategy.h), and the families that read    *)
(* nothing but their indicators, the bar and the position: prepare() and   *)
(* onBar() of a family are one operator of its parameters p, the series s  *)
(* prepare() was given, the bar i and the position pos.  What prepare()    *)
(* computed for the whole series is computed here for the bar at hand, by  *)
(* the same recursions over the same series: an indicator that looked past *)
(* bar i would show.                                                       *)
(*                                                                         *)
(* Percentages are of 100, ratios, ranks and multiples of a deviation in   *)
(* thousandths; the fields of p are the parameters of the code.            *)
(***************************************************************************)
EXTENDS Indicators

CONSTANTS
    Coin(_, _),   \* uniform01: of a seed and a timestamp, in thousandths
    Weekday(_)    \* of a timestamp

Signals == {"Hold", "Buy", "Sell"}
\* The rule says buy, or else sell, or else nothing.
Choice(buy, sell) == CASE buy -> "Buy" [] ~buy /\ sell -> "Sell" [] OTHER -> "Hold"
Enter(test) == Choice(test, FALSE)
Leave(test) == Choice(FALSE, test)
Above(x, level) == Choice(x > level, x < -level)

-----------------------------------------------------------------------------
(* The position a strategy is asked about, and what a driver does with it. *)

Flat == [in |-> FALSE, price |-> 0, highest |-> 0, lowest |-> 0, index |-> 0]
Opened(price, i) ==
    [in |-> TRUE, price |-> price, highest |-> price, lowest |-> price, index |-> i]
Observed(pos, close) ==
    IF pos.in THEN [pos EXCEPT !.highest = Larger(@, close), !.lowest = Smaller(@, close)]
              ELSE pos
\* The position after a signal that fills at the close of bar i.
Filled(pos, signal, price, i) ==
    CASE signal = "Buy" /\ ~pos.in -> Opened(price, i)
      [] signal = "Sell" /\ pos.in -> Flat
      [] OTHER -> pos
\* The part of thousand at which a position stands.
Gain(s, i, pos) == (Permille * (s.close[i] - pos.price)) \div pos.price
HeldFor(i, pos, bars) == i >= pos.index + Larger(1, bars)

-----------------------------------------------------------------------------
(* Trend: tsmom, sma_cross, faber_ma, kama_trend, ehlers_trend, macd_norm. *)

TrailingReturn(close, w) == [i \in Bars(close) |->
    IF i <= w \/ close[i - w] = 0 THEN NaN
    ELSE (Permille * (close[i] - close[i - w])) \div close[i - w]]
\* A spike in volatility stops entries, never exits.
Tsmom(p, s, i) ==
    LET ret == TrailingReturn(s.close, p.lookback)[i]
        vol == RollingVolatility(s.close, p.volWindow)[i]
        threshold == IF p.sigmas = 0 THEN p.threshold
                     ELSE Where(Ok(vol), (p.sigmas * vol * Root(p.lookback * 10000)) \div 100)
        calm == ~Ok(vol) \/ vol <= p.maxVolatility
    IN  IF ~Ok(ret) \/ ~Ok(threshold) THEN "Hold"
        ELSE Choice(ret > threshold /\ calm, ret < -threshold)

\* It acts on the bar of the crossing and on no other.
SmaCross(p, s, i) ==
    LET fast == Sma(s.close, p.fast)
        slow == Sma(s.close, p.slow)
    IN  IF i = 1 \/ ~(OkOn(fast, i - 1, i) /\ OkOn(slow, i - 1, i)) THEN "Hold"
        ELSE Choice(fast[i - 1] <= slow[i - 1] /\ fast[i] > slow[i],
                    fast[i - 1] >= slow[i - 1] /\ fast[i] < slow[i])

FaberMa(p, s, i) ==
    LET ma   == Sma(s.close, p.window)[i]
        band == (ma * p.bandPct) \div 100
    IN  IF ~Ok(ma) THEN "Hold" ELSE Choice(s.close[i] > ma + band, s.close[i] < ma - band)

\* The length of the path over the last w moves, as a running sum.
PathLength(close, w) ==
    LET move(k) == Abs(close[k] - close[k - 1])
        path[k \in Bars(close)] ==
            IF k = 1 THEN 0
            ELSE path[k - 1] + move(k) - (IF k > w + 1 THEN move(k - w) ELSE 0)
    IN  Computed([k \in Bars(close) |-> path[k]])
Efficiency(close, w) ==
    LET path == PathLength(close, w)
    IN  [k \in Bars(close) |-> CASE k <= w -> NaN
                                 [] k > w /\ path[k] = 0 -> 0
                                 [] OTHER -> (Permille * Abs(close[k] - close[k - w])) \div path[k]]
Kama(p, close) ==
    LET er   == Efficiency(close, p.erWindow)
        fast == (2 * Permille) \div (p.fastPeriod + 1)
        slow == (2 * Permille) \div (p.slowPeriod + 1)
        speed(k) == (er[k] * (fast - slow)) \div Permille + slow
        kama[k \in (p.erWindow + 1)..Len(close)] ==
            LET from == IF k = p.erWindow + 1 THEN close[1] ELSE kama[k - 1]
            IN  from + (((speed(k) * speed(k)) \div Permille) * (close[k] - from)) \div Permille
    IN  Computed([k \in Bars(close) |-> IF k <= p.erWindow THEN NaN ELSE kama[k]])
KamaTrend(p, s, i) ==
    LET kama == Kama(p, s.close)
        er   == Efficiency(s.close, p.erWindow)[i]
        rising == kama[i] > kama[i - 1]
    IN  IF i = 1 \/ ~OkOn(kama, i - 1, i) THEN "Hold"
        ELSE Choice(s.close[i] > kama[i] /\ rising /\ (~Ok(er) \/ er >= p.minEfficiency),
                    s.close[i] < kama[i] \/ ~rising)

\* A two-pole filter with weights c1 + c2 + c3 = 1, in thousandths.
SuperSmoother(p, c) ==
    LET f[k \in Bars(c)] ==
            IF k <= 2 THEN c[k]
            ELSE (p.c1 * ((c[k] + c[k - 1]) \div 2) + p.c2 * f[k - 1] + p.c3 * f[k - 2]) \div Permille
    IN  Computed([k \in Bars(c) |-> f[k]])
EhlersTrend(p, s, i) ==
    LET f   == SuperSmoother(p, s.close)
        vol == RollingVolatility(s.close, p.volWindow)[i]
        slope == (Log(Larger(1, f[i])) - Log(Larger(1, f[i - p.slopeLag]))) \div p.slopeLag
    IN  IF i <= p.slopeLag \/ f[i - p.slopeLag] = 0 \/ ~Ok(vol) \/ vol = 0 THEN "Hold"
        ELSE Above((Permille * slope) \div vol, p.entrySigmas)

\* The spread of two averages, in deviations of the price and then of its own.
MacdNorm(p, s, i) ==
    LET fast == Ema(s.close, p.short)
        slow == Ema(s.close, p.long)
        dev  == RollingStd(s.close, p.priceStdWindow)
        q == Computed([k \in Bars(s.close) |->
                 IF ~(Ok(fast[k]) /\ Ok(slow[k]) /\ Ok(dev[k])) \/ dev[k] = 0 THEN NaN
                 ELSE (Permille * (fast[k] - slow[k])) \div dev[k]])
        qDev == RollingStd(q, p.signalStdWindow)[i]
    IN  IF ~Ok(q[i]) \/ ~Ok(qDev) \/ qDev = 0 THEN "Hold"
        ELSE Above((Permille * q[i]) \div qDev, p.entryZ)

-----------------------------------------------------------------------------
(* Reversal: rsi_reversal, ou_score, skew_reversal, dip_reversion.         *)

RsiReversal(p, s, i, pos) ==
    LET rsi   == Rsi(s.close, p.rsiWindow)[i]
        trend == Sma(s.close, p.trendWindow)[i]
        late  == p.maxHoldBars > 0 /\ i >= pos.index + p.maxHoldBars
    IN  CASE ~Ok(rsi) -> "Hold"
          [] Ok(rsi) /\ pos.in -> Leave(rsi > p.exitLevel \/ late)
          [] OTHER -> Enter(Ok(trend) /\ rsi < p.entryLevel /\ s.close[i] > trend)

\* How far the detrended log price is from the mean it reverts to, if it does:
\* the slope b in thousandths is below one, and fast enough (p.slowestB).
OuStanding(p, s, i) ==
    LET logC  == LogOf(s.close)
        trend == Sma(logC, p.detrendWindow)
        resid == [k \in Bars(logC) |-> Where(Ok(trend[k]), logC[k] - trend[k])]
        fit == Ols([k \in 1..p.window |-> resid[i - p.window + k - 1]],
                   [k \in 1..p.window |-> resid[i - p.window + k]], p.window)
        m   == (Permille * fit.a) \div (Permille - fit.b)
        dev == Root((1000 * fit.var) \div (Permille - (fit.b * fit.b) \div Permille))
    IN  IF i <= p.window \/ ~OkOn(resid, i - p.window, i) THEN NaN
        ELSE IF ~Ok(fit) THEN NaN
        ELSE IF ~(fit.b > 0 /\ fit.b <= p.slowestB) \/ dev = 0 THEN NaN
        ELSE (Permille * (resid[i] - m)) \div dev
OuScore(p, s, i, pos) ==
    LET score == OuStanding(p, s, i)
    IN  CASE ~Ok(score) -> "Hold"
          [] Ok(score) /\ pos.in -> Leave(score > -p.exitS)
          [] OTHER -> Enter(score < -p.entryS)

\* Skewness of the last w returns; none where no price moved.
Skewness(close, w, i) ==
    LET r    == PercentReturns(close)
        mean == MeanOver(r, i - w + 1, i)
        d    == [k \in 1..w |-> (r[i - w + k] - mean) \div 10]
        m2   == SumOver([k \in 1..w |-> d[k] * d[k]], 1, w) \div w
        m3   == SumOver([k \in 1..w |-> d[k] * d[k] * d[k]], 1, w) \div w
    IN  IF i <= w \/ ~OkOn(r, i - w + 1, i) THEN NaN
        ELSE IF m2 = 0 THEN NaN ELSE (Permille * m3) \div (m2 * Larger(1, Root(m2)))
SkewReversal(p, s, i, pos) ==
    LET skew  == Skewness(s.close, p.window, i)
        trend == Sma(s.close, Larger(1, p.trendWindow))[i]
        below == p.trendWindow > 1 /\ (IF Ok(trend) THEN s.close[i] < trend ELSE TRUE)
    IN  CASE ~Ok(skew) -> "Hold"
          [] Ok(skew) /\ pos.in -> Leave(HeldFor(i, pos, p.holdBars))
          [] OTHER -> Enter(~below /\ skew < p.entrySkew)

\* The returns a bar is measured against, as running sums that a full window
\* leaves before the bar at hand is read: w - 1 of them once w are known.
Before(r, first, w) ==
    LET none == [n |-> 0, sum |-> 0, squares |-> 0]
        before[k \in first..Larger(first, Len(r))] ==
            IF k = first THEN none
            ELSE LET was  == before[k - 1]
                     full == was.n + 1 >= w
                     out  == IF full THEN r[k - w] ELSE 0
                 IN  [n |-> was.n + (IF full THEN 0 ELSE 1),
                      sum |-> was.sum + r[k - 1] - out,
                      squares |-> was.squares + r[k - 1] * r[k - 1] - out * out]
    IN  [k \in Bars(r) |-> IF k < first THEN none ELSE before[k]]
DipReversion(p, s, i, pos) ==
    LET r  == [k \in Bars(s.close) |->
                  IF k <= p.lookback THEN 0 ELSE TrailingReturn(s.close, p.lookback)[k]]
        b  == Before(r, p.lookback + 1, p.volWindow)[i]
        mean == b.sum \div b.n
        dev  == Root(Larger(0, b.squares \div b.n - mean * mean))
        z    == IF i <= p.lookback \/ b.n < 2 THEN 0
                ELSE IF dev = 0 THEN 0 ELSE (Permille * (r[i] - mean)) \div dev
    IN  IF pos.in THEN Leave(HeldFor(i, pos, p.holdBars))
        ELSE Enter(z < -p.entrySigmas)

-----------------------------------------------------------------------------
(* Breakout: donchian, squeeze, conviction_breakout, momo_breakout.        *)

Donchian(p, s, i, pos) ==
    LET upper == RollingMaxExclusive(s.high, p.entryWindow)[i]
        lower == RollingMinExclusive(s.low, p.exitWindow)[i]
        atr   == Atr(s, p.atrWindow)[i]
        broken  == Ok(lower) /\ s.close[i] < lower
        stopped == p.atrStopMult > 0 /\ Ok(atr)
                   /\ 1000 * s.close[i] < 1000 * pos.highest - p.atrStopMult * atr
    IN  IF pos.in THEN Leave(broken \/ stopped)
        ELSE Enter(Ok(upper) /\ s.close[i] > upper)

\* A countdown, started again at every low rank.
Armed(rank, level, bars) ==
    LET left[i \in 0..Len(rank)] ==
            CASE i = 0 -> 0
              [] i > 0 /\ Ok(rank[i]) /\ rank[i] <= level -> Larger(1, bars)
              [] OTHER -> Larger(0, left[i - 1] - 1)
    IN  Computed([i \in DOMAIN rank |-> left[i] > 0])
SqueezeRank(p, close) ==
    LET bands == Computed(Bollinger(close, p.window, p.numSigma))
        width == Computed([k \in Bars(close) |->
                     IF ~Ok(bands[k].mid) \/ bands[k].mid <= 0 THEN NaN
                     ELSE (Permille * (bands[k].upper - bands[k].lower)) \div bands[k].mid])
    IN  PercentileRank(width, p.rankWindow)
SqueezeBreakout(p, s, i, pos) ==
    LET band == Bollinger(s.close, p.window, p.numSigma)[i]
    IN  CASE ~Ok(band.mid) -> "Hold"
          [] Ok(band.mid) /\ pos.in -> Leave(s.close[i] < band.mid)
          [] OTHER -> Enter(Armed(SqueezeRank(p, s.close), p.squeezePct, p.armBars)[i]
                             /\ s.close[i] > band.upper)

ConvictionBreakout(p, s, i, pos) ==
    LET upper == RollingMaxExclusive(s.high, p.entryWindow)[i]
        lower == RollingMinExclusive(s.low, p.exitWindow)[i]
        ma    == Sma(s.close, p.trendWindow)
        atr   == Atr(s, p.atrWindow)[i]
        momentum == TrailingReturn(s.close, p.momentumWindow)[i]
        rising   == i > p.slopeWindow /\ Ok(ma[i - p.slopeWindow]) /\ ma[i] > ma[i - p.slopeWindow]
    IN  IF ~(Ok(upper) /\ Ok(ma[i]) /\ Ok(momentum) /\ Ok(atr)) THEN "Hold"
        ELSE IF atr <= 0 THEN "Hold"
        ELSE IF pos.in
        THEN Leave(\/ Ok(lower) /\ s.close[i] < lower
                   \/ s.close[i] < ma[i]
                   \/ 1000 * s.close[i] < 1000 * pos.highest - p.stopAtr * atr)
        ELSE Enter(/\ 1000 * s.close[i] > 1000 * upper + p.breakoutAtr * atr
                   /\ rising /\ s.close[i] > ma[i] /\ momentum > p.momentumThreshold)

\* Its only exits are a stop and a target around the price of the entry.
MomoBreakout(p, s, i, pos) ==
    LET range == [k \in Bars(s.high) |-> s.high[k] - s.low[k]]
        fast  == Sma(range, p.rangeFast)[i]
        slow  == Sma(range, p.rangeSlow)[i]
        prior == RollingMaxExclusive(s.close, p.lookback)[i]
    IN  IF pos.in THEN Leave(/\ pos.price > 0
                           /\ \/ Gain(s, i, pos) <= -10 * p.stopPct
                              \/ Gain(s, i, pos) >= 10 * p.tpPct)
        ELSE IF i <= p.lookback \/ ~(Ok(fast) /\ Ok(slow) /\ Ok(prior)) THEN "Hold"
        ELSE Enter(/\ fast > slow /\ s.close[i] > s.close[i - p.lookback]
                   /\ s.close[i] > prior /\ s.close[i] > s.open[i])

-----------------------------------------------------------------------------
(* Clouds: pure_ichimoku, ichimoku_full, odiseo.                           *)

Top(cloud, i)    == Larger(cloud.spanA[i], cloud.spanB[i])
Bottom(cloud, i) == Smaller(cloud.spanA[i], cloud.spanB[i])
Formed(cloud, i) == Ok(cloud.spanA[i]) /\ Ok(cloud.spanB[i])
PureIchimoku(p, s, i, pos) ==
    LET cloud == Ichimoku(s, p.tenkan, p.kijun, p.spanB, p.kijun)
        bull  == cloud.tenkan[i] > cloud.kijun[i]
    IN  IF i = 1 \/ ~(Formed(cloud, i) /\ Ok(cloud.tenkan[i]) /\ Ok(cloud.kijun[i])) THEN "Hold"
        ELSE IF pos.in THEN Leave(s.close[i] < Bottom(cloud, i) \/ ~bull)
        ELSE Enter(s.close[i] > Top(cloud, i) /\ bull)

\* The lagging line: today's close against the close it is drawn over.
IchimokuFull(p, s, i, pos) ==
    LET cloud  == Ichimoku(s, p.tenkan, p.kijun, p.spanB, p.displacement)
        bull   == cloud.tenkan[i] > cloud.kijun[i]
        chikou == p.requireChikou => s.close[i] > s.close[i - p.displacement]
    IN  IF i = 1 \/ ~(Formed(cloud, i) /\ Ok(cloud.tenkan[i]) /\ Ok(cloud.kijun[i])) THEN "Hold"
        ELSE IF p.requireChikou /\ i <= p.displacement THEN "Hold"
        ELSE IF pos.in THEN Leave(s.close[i] < Bottom(cloud, i) \/ ~bull)
        ELSE Enter(s.close[i] > Top(cloud, i) /\ bull /\ chikou)

\* Volume confirms an entry, ends a trade, or stands in for a strong trend.
Odiseo(p, s, i, pos) ==
    LET cloud == Ichimoku(s, p.tenkan, p.kijun, p.spanB, p.kijun)
        dmi   == Dmi(s, p.dmiWindow)
        atr   == Atr(s, p.atrWindow)[i]
        relVol == RelativeVolume(s.volume, p.volWindow)[i]
        obv    == OnBalanceVolume(s.close, s.volume)
        expanding == p.volumeMode # "None" /\ Ok(relVol) /\ relVol >= p.volConfirmMult
        strong == dmi.adx[i] > p.adxThreshold \/ (p.volumeMode = "AdxOr" /\ expanding)
        bull   == Ok(dmi.plusDI[i]) /\ dmi.plusDI[i] > dmi.minusDI[i]
        before == i - p.obvWindow
        stopped == p.atrStop > 0 /\ 1000 * (pos.highest - s.close[i]) > p.atrStop * atr
        flipped == s.close[i] < Bottom(cloud, i) /\ strong /\ ~bull
        hollow  == p.volumeMode = "ObvExit" /\ before >= 1
                   /\ s.close[i] >= s.close[before] /\ obv[i] < obv[before]
    IN  IF i = 1 \/ ~(Formed(cloud, i) /\ Ok(dmi.adx[i]) /\ Ok(atr)) THEN "Hold"
        ELSE IF pos.in THEN Leave(stopped \/ flipped \/ hollow)
        ELSE Enter(/\ s.close[i] > Top(cloud, i) /\ strong /\ bull
                   /\ ~p.requireTenkan \/ cloud.tenkan[i] > cloud.kijun[i]
                   /\ p.volumeMode = "Confirm" => expanding)

-----------------------------------------------------------------------------
(* Controls and the calendar.  A coin is a hash of the seed and the bar's  *)
(* timestamp: the same for the same bar, whoever asks.                     *)

RandomEntry(p, s, i, pos) ==
    IF pos.in THEN Leave(HeldFor(i, pos, p.holdBars))
    ELSE Enter(Coin(p.seed, s.timestamp[i]) < p.entryProb)
AlwaysLong(pos) == Enter(~pos.in)
CalendarRule(p, s, i, pos) ==
    Choice(~pos.in /\ Weekday(s.timestamp[i]) = p.buyWeekday,
           pos.in /\ Weekday(s.timestamp[i]) = p.sellWeekday)
=============================================================================
