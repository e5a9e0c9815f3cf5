----------------------------- MODULE Indicators -----------------------------
(***************************************************************************)
(* The indicator library (indicators/indicators.cpp) and the helpers every *)
(* strategy of the zoo shares (strategy/zoo/zoo_common.h), as functions of *)
(* a series: output[i] belongs to input[i], and is NaN where the code      *)
(* leaves it so.                                                           *)
(*                                                                         *)
(* A series is a sequence of integers, its first bar is bar 1.  Numbers    *)
(* are fixed-point: a division and a root round down, and a ratio is in    *)
(* thousandths.  The rounding of doubles is left out, and so are the       *)
(* smallest windows the callers enforce: a window here is what was left    *)
(* after std::max.                                                         *)
(***************************************************************************)
EXTENDS Integers, Sequences, FiniteSets

CONSTANTS
    NaN,     \* "not yet valid", or not measurable
    Log(_)   \* the natural logarithm, in thousandths, of a positive price

ASSUME NaNAssumption == NaN \notin Int

Permille == 1000

Ok(x) == x # NaN
Bars(v) == 1..Len(v)
Abs(x) == IF x < 0 THEN -x ELSE x
Larger(x, y)  == IF x > y THEN x ELSE y
Smaller(x, y) == IF x < y THEN x ELSE y
Highest(S) == CHOOSE x \in S : \A y \in S : y <= x
Lowest(S)  == CHOOSE x \in S : \A y \in S : x <= y
Column(v, S) == { v[k] : k \in S }
\* The same sequence; TLC then computes its elements once, not at every use.
Computed(v) == SubSeq(v, 1, Len(v))

\* v[a] + ... + v[b]
SumOver(v, a, b) ==
    LET sum[k \in (a - 1)..b] == IF k < a THEN 0 ELSE sum[k - 1] + v[k] IN sum[b]
MeanOver(v, a, b) == SumOver(v, a, b) \div (b - a + 1)
SquaresAround(v, a, b, m) ==
    LET sum[k \in (a - 1)..b] == IF k < a THEN 0 ELSE sum[k - 1] + (v[k] - m) * (v[k] - m)
    IN  sum[b]
\* The integer square root, by Newton's steps from above (n < 10^7).
Root(n) ==
    LET guess[k \in 0..16] ==
            IF k = 0 THEN n
            ELSE LET x == guess[k - 1]
                 IN  IF x = 0 THEN 0 ELSE Smaller(x, (x + n \div x) \div 2)
    IN  guess[16]
Where(test, value) == IF test THEN value ELSE NaN
OkOn(v, a, b) == \A k \in a..b : Ok(v[k])
LogOf(v) == [i \in Bars(v) |-> IF v[i] > 0 THEN Log(v[i]) ELSE NaN]

\* Least squares y = a + b x over n samples x(k), y(k); the slope in thousandths.
Ols(x, y, n) ==
    LET mx  == SumOver(x, 1, n) \div n
        my  == SumOver(y, 1, n) \div n
        sxx == SquaresAround(x, 1, n, mx)
        sxy == SumOver([k \in 1..n |-> (x[k] - mx) * (y[k] - my)], 1, n)
        b   == Permille * (sxy \div sxx) + (Permille * (sxy % sxx)) \div sxx
        a   == my - (b * mx) \div Permille
        e   == [k \in 1..n |-> y[k] - a - (b * x[k]) \div Permille]
    IN  IF n < 3 \/ sxx = 0 THEN NaN
        ELSE [a |-> a, b |-> b, var |-> SquaresAround(e, 1, n, 0) \div Larger(n - 2, 1)]

-----------------------------------------------------------------------------
(* Averages.                                                               *)

\* A running sum: each bar enters, the one that leaves the window is taken off.
Sma(v, w) ==
    LET sum[i \in w..Larger(w, Len(v))] ==
            IF i = w THEN SumOver(v, 1, w) ELSE sum[i - 1] + v[i] - v[i - w]
    IN  [i \in Bars(v) |-> IF i < w THEN NaN ELSE sum[i] \div w]

\* Seeded with the average of the first window, and silent before it.
Ema(v, w) ==
    LET ema[i \in w..Larger(w, Len(v))] ==
            IF i = w THEN SumOver(v, 1, w) \div w
            ELSE (2 * v[i] + (w - 1) * ema[i - 1]) \div (w + 1)
    IN  [i \in Bars(v) |-> IF i < w THEN NaN ELSE ema[i]]

\* Wilder's average: v[first..first+w-1] seeds it.
Wilder(v, first, w) ==
    LET avg[i \in (first + w - 1)..Larger(first + w - 1, Len(v))] ==
            IF i = first + w - 1 THEN SumOver(v, first, i) \div w
            ELSE (avg[i - 1] * (w - 1) + v[i]) \div w
    IN  [i \in Bars(v) |-> IF i < first + w - 1 THEN NaN ELSE avg[i]]

Gains(close)  == [i \in Bars(close) |-> IF i = 1 THEN 0 ELSE Larger(close[i] - close[i - 1], 0)]
Losses(close) == [i \in Bars(close) |-> IF i = 1 THEN 0 ELSE Larger(close[i - 1] - close[i], 0)]
Rsi(close, w) ==
    LET gain == Wilder(Gains(close), 2, w)
        loss == Wilder(Losses(close), 2, w)
    IN  [i \in Bars(close) |->
            CASE ~Ok(gain[i]) -> NaN
              [] Ok(gain[i]) /\ loss[i] = 0 -> 100
              [] OTHER -> (100 * gain[i]) \div (gain[i] + loss[i])]

TrueRange(s) ==
    [i \in Bars(s.close) |->
        IF i = 1 THEN s.high[1] - s.low[1]
        ELSE Highest({s.high[i] - s.low[i], Abs(s.high[i] - s.close[i - 1]),
                      Abs(s.low[i] - s.close[i - 1])})]
Atr(s, w) == Wilder(TrueRange(s), 1, w)

-----------------------------------------------------------------------------
(* Directional movement.                                                   *)

\* Wilder's running sum, from the second bar on.
SmoothedSum(v, w) ==
    LET sum[i \in (w + 1)..Larger(w + 1, Len(v))] ==
            IF i = w + 1 THEN SumOver(v, 2, i)
            ELSE sum[i - 1] - sum[i - 1] \div w + v[i]
    IN  Computed([i \in Bars(v) |-> IF i < w + 1 THEN NaN ELSE sum[i]])
PlusDM(s) == [i \in Bars(s.high) |->
    IF i > 1 /\ s.high[i] - s.high[i - 1] > Larger(s.low[i - 1] - s.low[i], 0)
    THEN s.high[i] - s.high[i - 1] ELSE 0]
MinusDM(s) == [i \in Bars(s.low) |->
    IF i > 1 /\ s.low[i - 1] - s.low[i] > Larger(s.high[i] - s.high[i - 1], 0)
    THEN s.low[i - 1] - s.low[i] ELSE 0]
\* Where nothing moved in the whole window there is no index to read.
DirectionalIndex(dm, range) == Computed([i \in DOMAIN dm |->
    IF ~Ok(range[i]) \/ range[i] = 0 THEN NaN ELSE (100 * dm[i]) \div range[i]])
Dx(pdi, mdi) == Computed([i \in DOMAIN pdi |->
    CASE ~Ok(pdi[i]) -> NaN
      [] Ok(pdi[i]) /\ pdi[i] + mdi[i] = 0 -> 0
      [] OTHER -> (100 * Abs(pdi[i] - mdi[i])) \div (pdi[i] + mdi[i])])
\* The average of the index, carried through a bar that has none.
Adx(dx, w) ==
    LET seed  == { k \in (w + 1)..(2 * w) : k \in DOMAIN dx /\ Ok(dx[k]) }
        known == [k \in DOMAIN dx |-> IF k \in seed THEN dx[k] ELSE 0]
        adx[i \in (2 * w)..Larger(2 * w, Len(dx))] ==
            CASE i = 2 * w -> SumOver(known, w + 1, i) \div Cardinality(seed)
              [] i > 2 * w /\ ~Ok(dx[i]) -> adx[i - 1]
              [] OTHER -> (adx[i - 1] * (w - 1) + dx[i]) \div w
    IN  Computed([i \in DOMAIN dx |-> IF i < 2 * w \/ seed = {} THEN NaN ELSE adx[i]])
Dmi(s, w) ==
    LET range == SmoothedSum(TrueRange(s), w)
        pdi == DirectionalIndex(SmoothedSum(PlusDM(s), w), range)
        mdi == DirectionalIndex(SmoothedSum(MinusDM(s), w), range)
    IN  [plusDI |-> pdi, minusDI |-> mdi, adx |-> Adx(Dx(pdi, mdi), w)]

-----------------------------------------------------------------------------
(* Channels and dispersion.                                                *)

HighLowMid(s, w) == [i \in Bars(s.high) |->
    IF i < w THEN NaN
    ELSE (Highest(Column(s.high, (i - w + 1)..i)) + Lowest(Column(s.low, (i - w + 1)..i))) \div 2]
\* Mistake: the cloud at a bar is read from the bars after it.
CloudFromTheFuture(line, shift) == [i \in DOMAIN line |->
    IF i + shift \in DOMAIN line THEN line[i + shift] ELSE NaN]
\* The cloud at a bar was formed `shift` bars earlier.
Displaced(line, shift) == [i \in DOMAIN line |-> IF i <= shift THEN NaN ELSE line[i - shift]]
Ichimoku(s, tenkanWindow, kijunWindow, spanBWindow, shift) ==
    LET tenkan == HighLowMid(s, tenkanWindow)
        kijun  == HighLowMid(s, kijunWindow)
        middle == [i \in DOMAIN tenkan |-> IF Ok(tenkan[i]) /\ Ok(kijun[i])
                                           THEN (tenkan[i] + kijun[i]) \div 2 ELSE NaN]
    IN  [tenkan |-> tenkan, kijun |-> kijun,
         spanA |-> Displaced(middle, shift),
         spanB |-> Displaced(HighLowMid(s, spanBWindow), shift)]

\* The deviation over the window, which must hold no NaN.
RollingStd(v, w) ==
    LET deviation(i) == LET mean == MeanOver(v, i - w + 1, i)
                        IN  Root(SquaresAround(v, i - w + 1, i, mean) \div w)
    IN  [i \in Bars(v) |-> IF i < w \/ ~OkOn(v, i - w + 1, i) THEN NaN ELSE deviation(i)]
Bollinger(close, w, sigmas) ==
    LET mid == Sma(close, w)
        dev == RollingStd(close, w)
    IN  [i \in Bars(close) |->
            [mid |-> mid[i], upper |-> Where(Ok(mid[i]), mid[i] + sigmas * dev[i]),
             lower |-> Where(Ok(mid[i]), mid[i] - sigmas * dev[i])]]
PercentReturns(close) == [i \in Bars(close) |->
    IF i = 1 \/ close[i - 1] = 0 THEN NaN
    ELSE (Permille * (close[i] - close[i - 1])) \div close[i - 1]]
RollingVolatility(close, w) == RollingStd(Computed(PercentReturns(close)), w)

RollingMaxExclusive(v, w) == [i \in Bars(v) |->
    IF i <= w THEN NaN ELSE Highest(Column(v, (i - w)..(i - 1)))]
RollingMinExclusive(v, w) == [i \in Bars(v) |->
    IF i <= w THEN NaN ELSE Lowest(Column(v, (i - w)..(i - 1)))]

\* The share of the window at or below the value; half of the window must be real.
PercentileRank(v, w) == Computed([i \in Bars(v) |->
    LET valid == { k \in (i - w + 1)..i : k \in Bars(v) /\ Ok(v[k]) }
    IN  IF i < w \/ ~Ok(v[i]) \/ 2 * Cardinality(valid) < w THEN NaN
        ELSE (Permille * Cardinality({ k \in valid : v[k] <= v[i] })) \div Cardinality(valid)])
MeanSkipNaN(v, w) == [i \in Bars(v) |->
    LET valid == { k \in (i - w + 1)..i : k \in Bars(v) /\ Ok(v[k]) }
        known == [k \in Bars(v) |-> IF k \in valid THEN v[k] ELSE 0]
    IN  IF i < w \/ 2 * Cardinality(valid) < w THEN NaN
        ELSE SumOver(known, i - w + 1, i) \div Cardinality(valid)]

-----------------------------------------------------------------------------
(* Volume and candles.                                                     *)

\* Volume against the mean of the bars before it, with a running sum.
RelativeVolume(volume, w) ==
    LET before[i \in 1..Len(volume)] ==
            IF i = 1 THEN 0
            ELSE before[i - 1] + volume[i - 1] - (IF i - 1 > w THEN volume[i - 1 - w] ELSE 0)
    IN  [i \in Bars(volume) |-> IF i <= w \/ before[i] <= 0 THEN NaN
                                ELSE (Permille * w * volume[i]) \div before[i]]
Sign(x) == CASE x > 0 -> 1 [] x < 0 -> -1 [] OTHER -> 0
OnBalanceVolume(close, volume) ==
    LET obv[i \in 1..Len(close)] ==
            IF i = 1 THEN 0 ELSE obv[i - 1] + Sign(close[i] - close[i - 1]) * volume[i]
    IN  Computed([i \in Bars(close) |-> obv[i]])

Bullish == {"BullEngulfing", "Hammer", "MorningStar", "Piercing"}
Bearish == {"BearEngulfing", "ShootingStar", "EveningStar", "DarkCloud"}
\* The shape of one bar; a body of a tenth of the range is a doji.
ShapesOfOne(s, i) ==
    LET range == s.high[i] - s.low[i]
        body  == Abs(s.close[i] - s.open[i])
        upper == s.high[i] - Larger(s.open[i], s.close[i])
        lower == Smaller(s.open[i], s.close[i]) - s.low[i]
    IN  IF 10 * body <= range THEN {"Doji"}
        ELSE (IF lower >= 2 * body /\ upper <= body THEN {"Hammer"} ELSE {})
             \cup (IF upper >= 2 * body /\ lower <= body THEN {"ShootingStar"} ELSE {})
Up(s, i)   == s.close[i] > s.open[i]
Down(s, i) == s.close[i] < s.open[i]
\* Bodies are compared with the bar before.
ShapesOfTwo(s, i) ==
    LET o == s.open[i]  c == s.close[i]  po == s.open[i - 1]  pc == s.close[i - 1]
    IN  (IF Up(s, i) /\ Down(s, i - 1) /\ c >= po /\ o <= pc THEN {"BullEngulfing"} ELSE {})
        \cup (IF Down(s, i) /\ Up(s, i - 1) /\ c <= po /\ o >= pc THEN {"BearEngulfing"} ELSE {})
        \cup (IF Up(s, i) /\ Down(s, i - 1) /\ o < pc /\ 2 * c > po + pc /\ c < po
              THEN {"Piercing"} ELSE {})
        \cup (IF Down(s, i) /\ Up(s, i - 1) /\ o > pc /\ 2 * c < po + pc /\ c > po
              THEN {"DarkCloud"} ELSE {})
\* A strong bar, a small one, and a bar the other way past the first one's middle.
ShapesOfThree(s, i) ==
    LET body(k)  == Abs(s.close[k] - s.open[k])
        range(k) == s.high[k] - s.low[k]
        strong == range(i - 2) > 0 /\ 2 * body(i - 2) >= range(i - 2)
        small  == range(i - 1) > 0 /\ 10 * body(i - 1) <= 3 * range(i - 1)
        middle == s.open[i - 2] + s.close[i - 2]
    IN  (IF strong /\ Down(s, i - 2) /\ small /\ Up(s, i) /\ 2 * s.close[i] > middle
         THEN {"MorningStar"} ELSE {})
        \cup (IF strong /\ Up(s, i - 2) /\ small /\ Down(s, i) /\ 2 * s.close[i] < middle
              THEN {"EveningStar"} ELSE {})
CandleSignals(s) == [i \in Bars(s.close) |->
    IF s.high[i] = s.low[i] THEN {}
    ELSE ShapesOfOne(s, i) \cup (IF i > 1 THEN ShapesOfTwo(s, i) ELSE {})
         \cup (IF i > 2 THEN ShapesOfThree(s, i) ELSE {})]
=============================================================================
