--------------------------- MODULE ChartStrategies ---------------------------
(***************************************************************************)
(* The four families that remember: darvas, fib_ichimoku, patterns and     *)
(* pencil_extrap.  prepare() forgets everything; onBar() carries a record  *)
(* from bar to bar, the same as the private members of the class.  An      *)
(* operator of this module gives the signal together with what is          *)
(* remembered after it.                                                    *)
(***************************************************************************)
EXTENDS RegimeStrategies

CONSTANT
    ModesMove(_)  \* what a matrix pencil's modes predict for a window, or NaN

\* Their names.
Remembering == {"darvas", "fib_ichimoku", "patterns", "pencil_extrap"}

Says(signal, h) == [signal |-> signal, hidden |-> h]

\* A turn of the price, seen from the k bars to either side of it.
Around(j, k) == ((j - k)..(j + k)) \ {j}
Inside(s, j, k) == j > k /\ j + k <= Len(s.close)
PivotHigh(s, j, k) == Inside(s, j, k) /\ \A m \in Around(j, k) : s.high[m] < s.high[j]
PivotLow(s, j, k)  == Inside(s, j, k) /\ \A m \in Around(j, k) : s.low[m] > s.low[j]
\* The bar a rule may call a turn at bar i: nothing exceeded it since.
Confirmed(i, k) == i - k

-----------------------------------------------------------------------------
(* darvas: an impulse to a top, a box under it, and the break of the box.  *)

DarvasPrepared == [swingLow |-> NaN, swingHigh |-> NaN, boxTop |-> NaN, boxBot |-> NaN,
                   boxStart |-> 0, target |-> NaN, stop |-> NaN]
DarvasBox(p, s, i, h) ==
    LET j == Confirmed(i, p.pivotWindow)
        rises == PivotHigh(s, j, p.pivotWindow) /\ Ok(h.swingLow)
                 /\ (IF Ok(h.swingLow) THEN s.high[j] > h.swingLow ELSE FALSE)
        box == IF PivotLow(s, j, p.pivotWindow)
               THEN [h EXCEPT !.swingLow = s.low[j], !.swingHigh = NaN, !.boxTop = NaN, !.boxBot = NaN]
               ELSE IF rises
               THEN [h EXCEPT !.swingHigh = s.high[j], !.boxTop = s.high[j],
                              !.boxBot = s.low[j], !.boxStart = j]
               ELSE h
    IN  IF Ok(box.boxTop) THEN [box EXCEPT !.boxBot = Smaller(@, s.low[i])] ELSE box
\* Mistake: the stop follows the box, wherever it goes.
StopFollows(p, h) == IF p.trailToNewBox /\ Ok(h.boxBot) THEN [h EXCEPT !.stop = h.boxBot] ELSE h
\* The stop is raised to the bottom of a higher box, never lowered.
Trailed(p, h) ==
    IF p.trailToNewBox /\ Ok(h.boxBot) /\ Ok(h.stop)
    THEN [h EXCEPT !.stop = Larger(@, h.boxBot)] ELSE h
DarvasBreaks(p, s, i, h) ==
    LET height == h.boxTop - h.boxBot
        swing  == h.swingHigh - h.swingLow
        age    == i - h.boxStart
        atr    == Atr(s, p.atrWindow)[i]
        relVol == RelativeVolume(s.volume, p.volWindow)[i]
    IN  /\ Ok(h.boxTop) /\ Ok(h.boxBot) /\ Ok(h.swingLow)
        /\ height > 0 /\ swing > 0
        /\ Ok(atr) /\ atr > 0 /\ Permille * swing >= p.minSwingAtr * atr
        /\ age >= p.minBoxBars /\ age <= p.maxBoxBars
        /\ Permille * height <= p.maxBoxWidth * h.boxTop
        /\ s.close[i] > h.boxTop
        /\ p.requireVolume => (Ok(relVol) /\ relVol >= p.volMult)
Darvas(p, s, i, pos, was) ==
    LET h == DarvasBox(p, s, i, was)
        done == \/ Ok(h.target) /\ s.close[i] >= h.target
                \/ Ok(h.stop) /\ s.close[i] <= h.stop
        swing == h.swingHigh - h.swingLow
    IN  IF i <= p.pivotWindow + 2 THEN Says("Hold", was)
        ELSE IF pos.in THEN (IF done THEN Says("Sell", h) ELSE Says("Hold", Trailed(p, h)))
        ELSE IF DarvasBreaks(p, s, i, h)
        THEN Says("Buy", [h EXCEPT
                 !.target = h.swingHigh + (p.targetLevel * swing) \div Permille,
                 !.stop   = h.boxBot - (p.stopBelowBox * (h.boxTop - h.boxBot)) \div Permille])
        ELSE Says("Hold", h)

-----------------------------------------------------------------------------
(* fib_ichimoku: the retracement of a swing, in a trend the cloud confirms *)

FibPrepared == [top |-> NaN, topIdx |-> 0, bot |-> NaN, entryTop |-> NaN, entryBot |-> NaN]
FibSwing(p, s, i, h) ==
    LET j == Confirmed(i, p.pivotWindow)
    IN  IF PivotLow(s, j, p.pivotWindow) THEN [h EXCEPT !.bot = s.low[j], !.top = NaN]
        ELSE IF PivotHigh(s, j, p.pivotWindow) /\ Ok(h.bot)
        THEN (IF s.high[j] > h.bot THEN [h EXCEPT !.top = s.high[j], !.topIdx = j] ELSE h)
        ELSE h
FibCloud(p, s) == Ichimoku(s, p.tenkan, p.kijun, p.spanB, p.kijun)
TrendBroken(p, s, i) ==
    LET cloud == FibCloud(p, s) IN Formed(cloud, i) /\ s.close[i] < Bottom(cloud, i)
IchimokuAgrees(p, s, i) ==
    LET cloud == FibCloud(p, s)
    IN  \/ p.strictness <= 0
        \/ /\ Formed(cloud, i) /\ Ok(cloud.tenkan[i]) /\ Ok(cloud.kijun[i])
           /\ s.close[i] >= Bottom(cloud, i) /\ cloud.spanA[i] > cloud.spanB[i]
           /\ \/ p.strictness = 1
              \/ /\ cloud.tenkan[i] > cloud.kijun[i]
                 /\ i > p.kijun /\ s.close[i] > s.close[i - p.kijun]
\* The swing as it was at the entry.
FibFramed(h) == Ok(h.entryTop) /\ Ok(h.entryBot)
FibDone(p, s, i, h) ==
    LET range == h.entryTop - h.entryBot
    IN  \/ /\ FibFramed(h)
           /\ \/ Permille * (s.close[i] - h.entryTop) >= -p.targetLevel * range
              \/ Permille * (h.entryTop - s.close[i]) >= p.stopLevel * range
        \/ p.exitOnTrendBreak /\ TrendBroken(p, s, i)
FibClear(p, s, i, h) ==
    LET atr == Atr(s, p.atrWindow)[i]
    IN  /\ Ok(h.top) /\ Ok(h.bot) /\ h.top > h.bot
        /\ Ok(atr) /\ atr > 0 /\ Permille * (h.top - h.bot) >= p.minSwingAtr * atr
        /\ i <= h.topIdx + p.maxSwingAge
FibIchimoku(p, s, i, pos, was) ==
    LET h == FibSwing(p, s, i, was)
        reached == Permille * (h.top - s.low[i]) >= p.entryZoneNear * (h.top - h.bot)
    IN  IF i <= p.pivotWindow + 2 THEN Says("Hold", was)
        ELSE IF pos.in THEN Says(Leave(FibDone(p, s, i, h)), h)
        ELSE IF ~FibClear(p, s, i, h) THEN Says("Hold", h)
        ELSE IF s.close[i] <= h.bot THEN Says("Hold", [h EXCEPT !.top = NaN])
        ELSE IF reached /\ IchimokuAgrees(p, s, i)
        THEN Says("Buy", [h EXCEPT !.entryTop = h.top, !.entryBot = h.bot])
        ELSE Says("Hold", h)

-----------------------------------------------------------------------------
(* patterns: shapes made of the last few turns.  A match is the level it   *)
(* breaks (or, for a harmonic, the level it is bid at), its low and its    *)
(* height.                                                                 *)

PatternPrepared == [turns |-> <<>>, target |-> NaN, stop |-> NaN]
Turn(s, j, high) == [idx |-> j, px |-> IF high THEN s.high[j] ELSE s.low[j], high |-> high]
\* Highs and lows alternate: of two of a kind the more extreme is kept.
Pushed(turns, t) ==
    LET n == Len(turns)
        longer == Append(turns, t)
        exceeds == IF t.high THEN t.px > turns[n].px ELSE t.px < turns[n].px
    IN  IF n > 0 /\ (IF n > 0 THEN turns[n].high = t.high ELSE FALSE)
        THEN (IF exceeds THEN [turns EXCEPT ![n] = t] ELSE turns)
        ELSE IF n = 8 THEN Tail(longer) ELSE longer
\* The last turns are highs and lows as listed, and not too long ago.
Turns(p, i, turns, highs) ==
    /\ Len(turns) >= Len(highs)
    /\ \A k \in DOMAIN highs : turns[Len(turns) - Len(highs) + k].high = highs[k]
    /\ i - turns[Len(turns) - Len(highs) + 1].idx <= p.maxPatternBars
Newest(turns, n) == [k \in 1..n |-> turns[Len(turns) - n + k]]
Level(p, a, b, height) == Permille * Abs(a - b) <= p.levelTol * height
Shape(level, low, height) == [level |-> level, low |-> low, height |-> height]

DoubleBottom(p, i, turns) ==
    LET t   == Newest(turns, 3)
        low == Smaller(t[1].px, t[3].px)
        h   == t[2].px - low
    IN  Where(/\ Turns(p, i, turns, <<FALSE, TRUE, FALSE>>)
              /\ h > 0 /\ Level(p, t[1].px, t[3].px, h), Shape(t[2].px, low, h))
InverseHS(p, i, turns) ==
    LET t    == Newest(turns, 5)
        neck == Larger(t[2].px, t[4].px)
        h    == neck - t[3].px
    IN  Where(/\ Turns(p, i, turns, <<FALSE, TRUE, FALSE, TRUE, FALSE>>)
              /\ Permille * t[3].px < Smaller(t[1].px, t[5].px) * (Permille - p.minHeadDrop)
              /\ h > 0 /\ Level(p, t[1].px, t[5].px, h), Shape(neck, t[3].px, h))
\* The handle is the pullback since the right rim, the bar at hand left out.
CupHandle(p, s, i, turns) ==
    LET t   == Newest(turns, 3)
        h   == Smaller(t[1].px, t[3].px) - t[2].px
        low == Lowest(Column(s.low, t[3].idx..(i - 1)))
        pull == t[3].px - low
    IN  Where(/\ Turns(p, i, turns, <<TRUE, FALSE, TRUE>>)
              /\ h > 0 /\ Level(p, t[1].px, t[3].px, h)
              /\ pull > 0 /\ Permille * pull <= p.handleMax * h,
              Shape(Larger(t[1].px, t[3].px), low, h))
FlagBars(top, i) == top.idx..(i - 1)
BullFlag(p, s, i, turns) ==
    LET t  == Newest(turns, 2)
        h  == t[2].px - t[1].px
        hi == Highest(Column(s.high, FlagBars(t[2], i)))
        lo == Lowest(Column(s.low, FlagBars(t[2], i)))
    IN  Where(/\ Turns(p, i, turns, <<FALSE, TRUE>>) /\ h > 0
              /\ i - t[2].idx >= 2 /\ i - t[2].idx <= p.flagMaxBars
              /\ Permille * (hi - lo) <= p.flagMaxWidth * h, Shape(hi, lo, h))

\* Two highs over two lows, either kind first; the later of each is the second.
Converging(p, i, turns) ==
    \/ Turns(p, i, turns, <<TRUE, FALSE, TRUE, FALSE>>)
    \/ Turns(p, i, turns, <<FALSE, TRUE, FALSE, TRUE>>)
TriangleOf(turns) ==
    LET t == Newest(turns, 4)
        at(n, high) == LET k == IF t[n].high = high THEN n ELSE n + 1 IN t[k].px
    IN  [highA |-> at(1, TRUE), highB |-> at(3, TRUE), lowA |-> at(1, FALSE), lowB |-> at(3, FALSE)]
AscTriangle(p, i, turns) ==
    LET q == TriangleOf(turns)
        h == Larger(q.highA, q.highB) - Smaller(q.lowA, q.lowB)
    IN  Where(/\ Converging(p, i, turns) /\ h > 0
              /\ Level(p, q.highA, q.highB, h) /\ q.lowB > q.lowA,
              Shape(Larger(q.highA, q.highB), q.lowB, h))
SymTriangle(p, i, turns) ==
    LET q == TriangleOf(turns)
        h == Larger(q.highA, q.highB) - Smaller(q.lowA, q.lowB)
    IN  Where(/\ Converging(p, i, turns) /\ h > 0
              /\ q.highB < q.highA /\ q.lowB > q.lowA, Shape(q.highB, q.lowB, h))

\* Harmonics: the legs X-A, A-B and B-C stand in given ratios (in thousandths),
\* within the tolerance, and D is where the next leg is to end.
RatioIn(p, leg, of, lo, hi) ==
    /\ leg * 1000000 >= of * lo * (Permille - p.harmonicTol)
    /\ leg * 1000000 <= of * hi * (Permille + p.harmonicTol)
Legs(p, i, turns) == Turns(p, i, turns, <<TRUE, FALSE, TRUE, FALSE>>)
Butterfly(p, i, turns) ==
    LET t  == Newest(turns, 4)
        xa == t[1].px - t[2].px
        ab == t[3].px - t[2].px
        d  == t[1].px - (1270 * xa) \div Permille
    IN  Where(/\ Legs(p, i, turns) /\ xa > 0
              /\ RatioIn(p, ab, xa, 786, 786) /\ ab > 0
              /\ RatioIn(p, t[3].px - t[4].px, ab, 382, 886)
              /\ d > 0 /\ d < t[4].px,
              Shape(d, t[1].px - (1618 * xa) \div Permille, t[4].px - d))
Cypher(p, i, turns) ==
    LET t  == Newest(turns, 4)
        xa == t[1].px - t[2].px
        ab == t[3].px - t[2].px
        d  == t[4].px + (786 * (t[1].px - t[4].px)) \div Permille
    IN  Where(/\ Legs(p, i, turns) /\ xa > 0
              /\ RatioIn(p, ab, xa, 382, 618) /\ ab > 0
              /\ RatioIn(p, t[3].px - t[4].px, ab, 1130, 1414)
              /\ t[4].px < t[2].px /\ d < t[1].px, Shape(d, t[4].px, t[1].px - d))

PatternOrder == <<"db", "ihs", "cup", "flag", "asc", "sym", "butterfly", "cypher">>
Reversals == {"butterfly", "cypher"}
Match(name, p, s, i, turns) ==
    CASE name = "db"   -> DoubleBottom(p, i, turns)
      [] name = "ihs"  -> InverseHS(p, i, turns)
      [] name = "cup"  -> CupHandle(p, s, i, turns)
      [] name = "flag" -> BullFlag(p, s, i, turns)
      [] name = "asc"  -> AscTriangle(p, i, turns)
      [] name = "sym"  -> SymTriangle(p, i, turns)
      [] name = "butterfly" -> Butterfly(p, i, turns)
      [] name = "cypher"    -> Cypher(p, i, turns)
\* Only the first shape that matches is asked whether its level breaks.
FirstMatch(p, s, i, turns) ==
    LET hits == { k \in DOMAIN PatternOrder :
                     PatternOrder[k] \in p.use /\ Ok(Match(PatternOrder[k], p, s, i, turns)) }
    IN  IF hits = {} THEN NaN ELSE PatternOrder[Lowest(hits)]
Confirms(p, s, i, name, m) ==
    LET atr    == Atr(s, p.atrWindow)[i]
        relVol == RelativeVolume(s.volume, p.volWindow)[i]
    IN  /\ Permille * m.height >= p.minPatternAtr * atr
        /\ IF name \in Reversals THEN s.low[i] <= m.level /\ s.close[i] > m.low
                                 ELSE s.close[i] > m.level
        /\ p.requireCandle => CandleSignals(s)[i] \cap Bullish # {}
        /\ p.requireVolume => (Ok(relVol) /\ relVol >= p.volMult)
Patterns(p, s, i, pos, was) ==
    LET j == Confirmed(i, p.pivotWindow)
        k == p.pivotWindow
        turns == IF PivotHigh(s, j, k) THEN Pushed(was.turns, Turn(s, j, TRUE))
                 ELSE IF PivotLow(s, j, k) THEN Pushed(was.turns, Turn(s, j, FALSE))
                 ELSE was.turns
        h    == [was EXCEPT !.turns = turns]
        atr  == Atr(s, p.atrWindow)[i]
        name == FirstMatch(p, s, i, turns)
        m    == Match(name, p, s, i, turns)
        done == \/ Ok(h.target) /\ s.close[i] >= h.target
                \/ Ok(h.stop) /\ s.close[i] <= h.stop
                \/ p.exitOnBearCandle /\ CandleSignals(s)[i] \cap Bearish # {}
    IN  IF i <= k + 3 THEN Says("Hold", was)
        ELSE IF pos.in THEN Says(Leave(done), h)
        ELSE IF ~Ok(atr) THEN Says("Hold", h)
        ELSE IF atr <= 0 \/ ~Ok(name) THEN Says("Hold", h)
        ELSE IF Confirms(p, s, i, name, m)
        THEN Says("Buy", [h EXCEPT !.target = m.level + (p.targetHeight * m.height) \div Permille,
                                   !.stop = (m.low * (Permille - p.stopBelowLow)) \div Permille])
        ELSE Says("Hold", h)

-----------------------------------------------------------------------------
(* pencil_extrap: a forecast, made again every so many bars.               *)

PencilPrepared == [fitAt |-> 0, move |-> NaN]
\* The window's line is taken off before the fit and carried on after it.
PredictedMove(p, s, i) ==
    LET y    == Window(LogOf(s.close), i, p.window)
        line == Ols([k \in 1..p.window |-> k - 1], y, p.window)
        rest == [k \in 1..p.window |-> y[k] - line.a - (line.b * (k - 1)) \div Permille]
        move == IF p.detrend THEN ModesMove(rest) ELSE ModesMove(y)
        total == move + (IF p.detrend THEN (line.b * p.horizon) \div Permille ELSE 0)
    IN  IF i < p.window \/ ~OkOn(LogOf(s.close), i - p.window + 1, i) THEN NaN
        ELSE IF ~Ok(move) THEN NaN ELSE Where(Abs(total) <= p.maxPredictedMove, total)
PencilExtrapolation(p, s, i, pos, was) ==
    LET h == IF was.fitAt = 0 \/ i - was.fitAt >= Larger(1, p.refitEvery)
             THEN [fitAt |-> i, move |-> PredictedMove(p, s, i)] ELSE was
    IN  IF i < p.window THEN Says("Hold", was)
        ELSE IF ~Ok(h.move) THEN Says("Hold", h)
        ELSE Says(Choice(h.move > p.entryThreshold, pos.in /\ h.move < -p.entryThreshold), h)
=============================================================================
