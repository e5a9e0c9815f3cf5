------------------------------- MODULE MCReplay -------------------------------
(* Small instances of Replay and MarketContext, a behaviour being of one of   *)
(* the two.  Replay: every family of the registry with windows of           *)
(* two to four bars, on tapes of up to eight.  Closes move by a fifth or   *)
(* more, so that every threshold is crossed both ways.                     *)
EXTENDS Replay, Families, MarketContext, TLC

\* ln in thousandths: powers of two, and two terms of the series of the rest.
MCLog(x) ==
    LET k == CHOOSE k \in 0..29 : 2^k <= x /\ x < 2^(k + 1)
        m == (Permille * x) \div 2^k
        y == (Permille * (m - Permille)) \div (m + Permille)
    IN  (693147 * k) \div 1000 + 2 * y + (2 * y * y * y) \div 3000000
MCCoin(seed, ts) == (ts * ts * 371 + seed * 77) % 1000
MCWeekday(ts) == ts % 3
\* Stand-ins that tell rising, falling and flat windows apart.
MCBubble(w) == IF w[Len(w)] > w[1] + 300 THEN 1000 ELSE 0
MCMemoryOrder(w) == IF w[1] = w[2] THEN NaN ELSE Abs(w[Len(w)] - w[1])
MCWalkRange(len) == MCLog(1000 * len) \div 2
MCModesMove(w) == IF w[1] = w[2] THEN NaN ELSE w[Len(w)] - w[Len(w) - 1]

\* Bars: a close, with a body and a range around it, and a volume.
Green(c) == [open |-> c - 2, high |-> c + 2, low |-> c - 4, close |-> c, volume |-> 10]
Red(c)   == [open |-> c + 2, high |-> c + 4, low |-> c - 2, close |-> c, volume |-> 10]
Loud(b)  == [b EXCEPT !.volume = 30]
Wide(b)  == [b EXCEPT !.high = @ + 20, !.low = @ - 20]
Greens(closes) == { Green(c) : c \in closes }
Reds(closes)   == { Red(c) : c \in closes }
Tape(n, bars)  == [k \in 1..n |-> bars]
Three == Greens({80, 100, 125})
Two   == Greens({80, 100})
\* A tape that is drawn first, and branches after.
Drawn(bars, rest) == [k \in 1..Len(bars) |-> {bars[k]}] \o rest
Closes(cs) == [k \in 1..Len(cs) |-> Green(cs[k])]

Plain(family, p, tape) == [family |-> family, p |-> p, gate |-> "none", g |-> <<>>,
                           tape |-> tape, older |-> {}]
Rewritten(u) == [u EXCEPT !.older = {Green(110)}]
Gate(u, gate, g) == [u EXCEPT !.gate = gate, !.g = g]

TsmomP    == [lookback |-> 2, volWindow |-> 2, threshold |-> 100, sigmas |-> 0, maxVolatility |-> 150]
FaberP    == [window |-> 3, bandPct |-> 5]
DonchianP == [entryWindow |-> 2, exitWindow |-> 2, atrWindow |-> 2, atrStopMult |-> 1000]
VotesP    == [tsmom |-> TsmomP, faber |-> FaberP, donchian |-> DonchianP, enterVotes |-> 2, exitVotes |-> 1]
CloudP    == [tenkan |-> 1, kijun |-> 2, spanB |-> 3]

Trends == {
    Plain("tsmom", TsmomP, Tape(5, Three)),
    Plain("tsmom", [TsmomP EXCEPT !.sigmas = 1, !.maxVolatility = 400], Tape(5, Three)),
    Plain("sma_cross", [fast |-> 1, slow |-> 3], Tape(5, Three)),
    Plain("faber_ma", FaberP, Tape(5, Three)),
    Plain("kama_trend", [erWindow |-> 2, fastPeriod |-> 2, slowPeriod |-> 4, minEfficiency |-> 500], Tape(5, Three)),
    Plain("ehlers_trend", [c1 |-> 600, c2 |-> 700, c3 |-> -300, volWindow |-> 2, slopeLag |-> 2, entrySigmas |-> 200], Tape(5, Three)),
    Plain("macd_norm", [short |-> 2, long |-> 3, priceStdWindow |-> 2, signalStdWindow |-> 2, entryZ |-> 300], Drawn(Closes(<<100, 125>>), Tape(5, Two \cup Greens({125})))) }
Reversals3 == {
    Plain("rsi_reversal", [rsiWindow |-> 2, trendWindow |-> 4, maxHoldBars |-> 2, exitLevel |-> 90, entryLevel |-> 70], Drawn(Closes(<<100, 110, 125>>), Tape(5, Three))),
    Plain("ou_score", [detrendWindow |-> 2, window |-> 3, slowestB |-> 950, exitS |-> 100, entryS |-> 300],
          Drawn(Closes(<<100, 80, 80, 100>>), Tape(4, Three))),
    Plain("skew_reversal", [window |-> 3, trendWindow |-> 2, holdBars |-> 2, entrySkew |-> -100], Drawn(Closes(<<100, 110>>), Tape(5, Three))),
    Rewritten(Plain("dip_reversion", [lookback |-> 1, volWindow |-> 3, holdBars |-> 2, entrySigmas |-> 500], Drawn(Closes(<<100, 110>>), Tape(5, Three)))) }
Breakouts == {
    Plain("donchian", DonchianP, Tape(5, Three)),
    Plain("squeeze_breakout", [window |-> 3, numSigma |-> 1, rankWindow |-> 3, squeezePct |-> 400, armBars |-> 2], Tape(7, Two)),
    Plain("conviction_breakout", [entryWindow |-> 2, exitWindow |-> 2, trendWindow |-> 2, slopeWindow |-> 1, momentumWindow |-> 2,
                                  momentumThreshold |-> 0, atrWindow |-> 2, breakoutAtr |-> 100, stopAtr |-> 800], Tape(5, Three)),
    Plain("momo_breakout", [rangeFast |-> 2, rangeSlow |-> 3, lookback |-> 2, stopPct |-> 10, tpPct |-> 20],
          Drawn(Closes(<<80>>), Tape(4, Two \cup {Wide(Green(100)), Wide(Green(125))}))) }
Clouds == {
    Plain("pure_ichimoku", CloudP, Drawn(Closes(<<80, 100>>), Tape(5, Three))),
    Plain("ichimoku_full", [tenkan |-> 1, kijun |-> 2, spanB |-> 3, displacement |-> 2, requireChikou |-> TRUE], Drawn(Closes(<<80, 90, 100>>), Tape(5, Three))),
    Plain("odiseo", [tenkan |-> 1, kijun |-> 2, spanB |-> 2, volumeMode |-> "ObvExit", volWindow |-> 2, volConfirmMult |-> 1500,
                     obvWindow |-> 2, atrStop |-> 1500, adxThreshold |-> 20, requireTenkan |-> TRUE, dmiWindow |-> 2, atrWindow |-> 2],
          Tape(5, Two \cup {Loud(Green(125))})) }
Regimes == {
    Plain("vol_managed", [volWindow |-> 2, rankWindow |-> 3, maxVolRank |-> 700, trendWindow |-> 2], Tape(5, Three)),
    Plain("vr_switch", [vrWindow |-> 4, vrLag |-> 2, band |-> 100, trendWindow |-> 2, mrWindow |-> 2, mrEntryZ |-> 500], Drawn(Closes(<<100, 125>>), Tape(5, Three))),
    Plain("fracdiff", [weights |-> <<1000, -400>>, zWindow |-> 2, momentum |-> TRUE, entryZ |-> 500, exitZ |-> 0], Tape(5, Three)),
    Rewritten(Plain("cusum_tb", [volWindow |-> 2, hSigmas |-> 500, ptMult |-> 3000, slMult |-> 1500, maxHold |-> 2], Tape(5, Three))),
    Plain("lppls_bubble", [window |-> 3, refitEvery |-> 2, confThreshold |-> 500, trendWindow |-> 2], Tape(5, Three)),
    Plain("factor_trend", [lookback |-> 2, volWindow |-> 2, factorWeight |-> 500, confirm |-> TRUE, confirmZ |-> 300,
                           refLagBars |-> 1, thresholdZ |-> 300], Drawn(Closes(<<100, 110>>), Tape(5, Three))) }
Voting == {
    Plain("ensemble_vote", VotesP, Tape(5, Three)),
    Plain("ensemble_rule", VotesP @@ [entry |-> {Members}, stay |-> {Members, {"faber", "donchian"}}], Tape(5, Three)),
    Plain("ensemble_tuned", VotesP @@ [tsLookback |-> 1, tsThreshold |-> 50, faberWindow |-> 2, donEntry |-> 3,
                                       donExit |-> 1, donAtrMult |-> 0], Tape(5, Three)),
    Plain("ensemble_asym", VotesP @@ [exitWinner |-> 0, exitLoser |-> 1, lossThreshold |-> 0], Tape(5, Three)),
    Plain("ensemble_ls", VotesP, Tape(5, Three)) }

\* Rules of a search.
EmergentP == [w |-> 2, fast |-> 2, slow |-> 3, tenkan |-> 1, kijun |-> 2, window |-> 5, chunks |-> <<2, 3, 4>>,
              buyThreshold |-> 2, sellThreshold |-> -1]
FeatureRule(a, constant, greater, weight) ==
    [a |-> a, useConstant |-> TRUE, constant |-> constant, b |-> a, greater |-> greater, weight |-> weight]
Compared(a, b, weight) ==
    [a |-> a, useConstant |-> FALSE, constant |-> 0, b |-> b, greater |-> TRUE, weight |-> weight]
Leaf0 == [type |-> "rsi", window |-> 2, threshold |-> 0, above |-> TRUE, volWindow |-> 2, rankWindow |-> 3, stride |-> 2]
IsLeaf(type, threshold, above) == [kind |-> "leaf", leaf |-> [Leaf0 EXCEPT !.type = type, !.threshold = threshold, !.above = above]]
Node(kind, children) == [kind |-> kind, children |-> children]
Written == {
    Plain("emergent", EmergentP @@ [rules |-> <<FeatureRule("rsi", 60, TRUE, 1), Compared("plusDI", "minusDI", 1), FeatureRule("%B", 500, TRUE, 1),
                                      FeatureRule("close/sma", 1000, FALSE, -1), FeatureRule("adx", 30, TRUE, 1), FeatureRule("atr/close", 300, TRUE, -1)>>],
          Tape(5, Three)),
    Plain("emergent", EmergentP @@ [rules |-> <<FeatureRule("hurst", 500, TRUE, 1), FeatureRule("sma/sma", 1000, TRUE, 1),
                                      Compared("close/ema", "ema/ema", 1), FeatureRule("close/tenkan", 990, FALSE, -1), FeatureRule("close/kijun", 1000, FALSE, -1)>>],
          Tape(5, Three)),
    Rewritten(Plain("generated_spec",
        [maxHoldBars |-> 3,
         entry |-> 1 :> Node("all", {2, 3}) @@ 2 :> Node("any", {4, 5}) @@ 3 :> Node("not", {6})
                   @@ 4 :> IsLeaf("close_sma", 1000, TRUE) @@ 5 :> IsLeaf("return", 200, TRUE) @@ 6 :> IsLeaf("vol_rank", 900, TRUE),
         exit  |-> 1 :> Node("any", {2, 3, 4}) @@ 2 :> IsLeaf("atr_trailing_stop", 1000, TRUE)
                   @@ 3 :> IsLeaf("breakdown", 1000, FALSE) @@ 4 :> IsLeaf("zscore", -500, FALSE)], Tape(5, Three))),
    Plain("generated_spec",
        [maxHoldBars |-> 0,
         entry |-> 1 :> Node("any", {2, 3, 4}) @@ 2 :> IsLeaf("breakout", 1000, TRUE)
                   @@ 3 :> IsLeaf("memory_order", 300, TRUE) @@ 4 :> IsLeaf("relative_volume", 1500, TRUE),
         exit  |-> 1 :> Node("all", {2, 3, 4}) @@ 2 :> Node("any", {5, 6}) @@ 5 :> IsLeaf("close_ema", 1000, FALSE)
                   @@ 6 :> IsLeaf("market_zscore", -300, FALSE)
                   @@ 3 :> IsLeaf("rsi", 60, FALSE) @@ 4 :> IsLeaf("candle", 0, FALSE)],
        Drawn(Closes(<<100>>), Tape(4, Two \cup {Loud(Green(125)), Red(80)}))),
    Plain("calendar_rule", [buyWeekday |-> 1, sellWeekday |-> 0], Tape(4, Two)),
    Rewritten(Plain("control_random", [seed |-> 5, entryProb |-> 500, holdBars |-> 2], Tape(6, Two))),
    Plain("control_always_long", <<>>, Tape(5, Two)) }

Gates == {
    Gate(Plain("tsmom", TsmomP, Tape(5, Three)), "pe", [order |-> 2, window |-> 3, logOrders |-> 693, maxEntropy |-> 800]),
    Gate(Plain("tsmom", TsmomP, Tape(5, Three)), "hawkes", [volWindow |-> 2, decay |-> 500, jumpSigmas |-> 1000, rankWindow |-> 3, maxRank |-> 700]),
    Gate(Plain("sma_cross", [fast |-> 1, slow |-> 3], Drawn(Closes(<<100, 80, 100, 125, 100>>), Tape(5, Three))), "vr", [window |-> 8, lag |-> 2, minVr |-> 300]),
    Gate(Plain("faber_ma", FaberP, Tape(5, Three)), "hurst", [estimator |-> "StructureFunction", window |-> 5, lags |-> <<1, 2, 3>>, trendThreshold |-> 200]),
    Gate(Plain("faber_ma", FaberP, Tape(7, Two)), "hurst", [estimator |-> "RS", window |-> 5, chunks |-> <<2, 3, 4>>, trendThreshold |-> 500]) }

\* Charts: tapes that draw the figure, and branch where it breaks.
DarvasP == [pivotWindow |-> 1, minBoxBars |-> 1, maxBoxBars |-> 4, maxBoxWidth |-> 400, minSwingAtr |-> 1000, atrWindow |-> 2,
            requireVolume |-> TRUE, volWindow |-> 2, volMult |-> 1300, targetLevel |-> 618, stopBelowBox |-> 0, trailToNewBox |-> TRUE]
FibP == CloudP @@ [pivotWindow |-> 1, minSwingAtr |-> 1000, atrWindow |-> 2, maxSwingAge |-> 6, entryZoneNear |-> 500, targetLevel |-> -272,
                   stopLevel |-> 1050, strictness |-> 1, exitOnTrendBreak |-> TRUE]
PatternP == [pivotWindow |-> 1, atrWindow |-> 2, use |-> {}, levelTol |-> 300, minHeadDrop |-> 30, minPatternAtr |-> 500,
             maxPatternBars |-> 7, handleMax |-> 500, flagMaxWidth |-> 500, flagMaxBars |-> 4, harmonicTol |-> 300,
             requireCandle |-> FALSE, requireVolume |-> FALSE, volWindow |-> 2, volMult |-> 1300,
             targetHeight |-> 1000, stopBelowLow |-> 20, exitOnBearCandle |-> FALSE]
Only(names, changes) == changes @@ [PatternP EXCEPT !.use = names]
Span(l, h, c) == [open |-> c - 2, high |-> h, low |-> l, close |-> c, volume |-> 10]
Ends == <<Greens({70, 110, 150}), Greens({60, 120, 190})>>
Charts == {
    Plain("darvas", DarvasP, Drawn(Closes(<<110, 100, 80, 125, 110, 110>>),
        <<{Green(140), Loud(Green(140))}, Greens({120, 200}), Greens({90, 160}) \cup {Span(100, 122, 118)}, Greens({104, 150})>>)),
    Plain("fib_ichimoku", FibP, Drawn(Closes(<<100, 90, 80, 125, 110>>),
        <<Greens({102, 114}), Greens({96, 102, 130}), Greens({75, 102, 145}), Greens({70, 150})>>)),
    Plain("fib_ichimoku", [FibP EXCEPT !.strictness = 2, !.exitOnTrendBreak = FALSE],
        Drawn(Closes(<<100, 90, 80, 125>>) \o <<Span(98, 112, 104), Span(98, 104, 100)>>,
        <<{Span(100, 116, 112), Green(102)}, Greens({130, 108, 75}), Greens({128, 145, 75}), Greens({70, 126})>>)),
    Plain("patterns", Only({"db"}, [requireVolume |-> TRUE]), Drawn(Closes(<<130, 120, 110, 80, 110>>),
        <<Greens({82, 92}), Greens({100}), {Green(125), Loud(Green(125))}>> \o Ends)),
    Plain("patterns", Only({"ihs"}, <<>>), Drawn(Closes(<<150, 140, 130, 104, 124, 84, 124>>), <<Greens({104, 100})>> \o Ends)),
    Plain("patterns", Only({"cup", "flag"}, [exitOnBearCandle |-> TRUE]), Drawn(Closes(<<120, 110, 100, 84, 124>>),
        <<Greens({118}), Greens({118, 100}), {Green(140), Green(110)}, {Green(145), Red(100)}, {Green(120), Red(120)}>>)),
    Plain("patterns", Only({"cup"}, [requireCandle |-> TRUE]), Drawn(Closes(<<70, 80, 90, 124, 84, 124>>), <<Greens({116}), Greens({116})>> \o
        <<{Green(140), [Green(140) EXCEPT !.open = 137, !.low = 130]}>> \o Ends)),
    Plain("patterns", Only({"asc", "sym"}, <<>>), Drawn(Closes(<<80, 90, 100, 124, 84>>), <<Greens({124, 106}), Greens({100}), Greens({115, 140})>> \o Ends)),
    Plain("patterns", Only({"butterfly", "cypher"}, <<>>), <<Greens({130}), Greens({140}), Greens({150}), Greens({198})>> \o
        <<{Green(104), Green(124)}, {Green(176), Green(158)}, {Span(131, 150, 135), Span(112, 122, 120)},
          {Span(135, 145, 140), Span(130, 140, 135)}, {Span(70, 120, 76), Span(70, 125, 110)}, Greens({60, 135, 205})>>),
    Plain("pencil_extrap", [window |-> 3, refitEvery |-> 2, detrend |-> FALSE, horizon |-> 1, entryThreshold |-> 100, maxPredictedMove |-> 300], Tape(5, Three)),
    Plain("pencil_extrap", [window |-> 3, refitEvery |-> 1, detrend |-> TRUE, horizon |-> 1, entryThreshold |-> 50, maxPredictedMove |-> 300], Tape(5, Three)) }

\* Two markets: BTC's store starts a bar earlier and misses a bar.
MCRule == [lookback |-> 2, volWindow |-> 2, factorWeight |-> 500, confirm |-> TRUE, confirmZ |-> 300,
           refLagBars |-> 1, thresholdZ |-> 300]
MCHistories ==
    { [coin |-> [close |-> <<100, 110, a, b, 100>>, timestamp |-> <<10, 11, 12, 13, 14>>],
       ref  |-> [close |-> <<80, 90, 100, c, d>>, timestamp |-> <<9, 10, 11, 13, 14>>]] :
      a \in {80, 125}, b \in {80, 125}, c \in {80, 125}, d \in {80, 125} }

VARIABLE part    \* which of the two machines runs
PartsInit ==
    /\ part \in {"replay", "market"}
    /\ ReplayInit /\ (part # "replay" => setup = CHOOSE u \in Setups : TRUE)
    /\ MarketInit /\ (part # "market" => history = CHOOSE h \in Histories : TRUE)
PartsNext ==
    \/ part = "replay" /\ ReplayNext /\ UNCHANGED <<part, marketVars>>
    \/ part = "market" /\ MarketNext /\ UNCHANGED <<part, replayVars>>
PartsSpec == PartsInit /\ [][PartsNext]_<<part, replayVars, marketVars>>

MCHorizons == { u \in Reversals3 \cup Written : u.family \in Horizons }
MCSetups == Trends \cup Reversals3 \cup Breakouts \cup Clouds \cup Regimes \cup Voting \cup Written \cup Gates \cup Charts

\* The instances are among those the theorems are about.
ASSUME SetupsWellFormed == \A u \in Setups : WellFormed(u)
ASSUME SetupsAreRuled   == \A u \in Setups : GateIsBeforeRule(u)
ASSUME SetupsAreFramed  == \A u \in Setups : FrameIsNumbers(u)
=============================================================================
