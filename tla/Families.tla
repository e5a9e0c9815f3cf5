------------------------------- MODULE Families -------------------------------
(***************************************************************************)
(* The families by name (strategy/zoo/registry.h), and the gates a genome  *)
(* may put in front of one (evolution/tournament.h): the strategies that   *)
(* Replay is about.                                                        *)
(***************************************************************************)
EXTENDS ChartStrategies

\* What prepare() leaves of the private members onBar() writes.
PreparedFamily(family) ==
    CASE family = "darvas" -> DarvasPrepared
      [] family = "fib_ichimoku" -> FibPrepared
      [] family = "patterns" -> PatternPrepared
      [] family = "pencil_extrap" -> PencilPrepared
      [] OTHER -> NaN

PureSignal(family, p, s, i, pos) ==
    CASE family = "tsmom" -> Tsmom(p, s, i)
      [] family = "sma_cross" -> SmaCross(p, s, i)
      [] family = "faber_ma" -> FaberMa(p, s, i)
      [] family = "kama_trend" -> KamaTrend(p, s, i)
      [] family = "ehlers_trend" -> EhlersTrend(p, s, i)
      [] family = "macd_norm" -> MacdNorm(p, s, i)
      [] family = "rsi_reversal" -> RsiReversal(p, s, i, pos)
      [] family = "ou_score" -> OuScore(p, s, i, pos)
      [] family = "skew_reversal" -> SkewReversal(p, s, i, pos)
      [] family = "dip_reversion" -> DipReversion(p, s, i, pos)
      [] family = "donchian" -> Donchian(p, s, i, pos)
      [] family = "squeeze_breakout" -> SqueezeBreakout(p, s, i, pos)
      [] family = "conviction_breakout" -> ConvictionBreakout(p, s, i, pos)
      [] family = "momo_breakout" -> MomoBreakout(p, s, i, pos)
      [] family = "pure_ichimoku" -> PureIchimoku(p, s, i, pos)
      [] family = "ichimoku_full" -> IchimokuFull(p, s, i, pos)
      [] family = "odiseo" -> Odiseo(p, s, i, pos)
      [] family = "vol_managed" -> VolManaged(p, s, i)
      [] family = "vr_switch" -> VrSwitch(p, s, i, pos)
      [] family = "fracdiff" -> FracDiff(p, s, i, pos)
      [] family = "cusum_tb" -> CusumTripleBarrier(p, s, i, pos)
      [] family = "lppls_bubble" -> LpplsBubble(p, s, i)
      [] family = "factor_trend" -> FactorTrend(p, s, s, i)
      [] family = "ensemble_vote" -> EnsembleVote(p, s, i, pos)
      [] family = "ensemble_rule" -> EnsembleRule(p, s, i, pos)
      [] family = "ensemble_tuned" -> EnsembleTuned(p, s, i, pos)
      [] family = "ensemble_asym" -> EnsembleAsym(p, s, i, pos)
      [] family = "ensemble_ls" -> EnsembleLongShort(p, s, i)
      [] family = "emergent" -> Emergent(p, s, i)
      [] family = "generated_spec" -> GeneratedSpec(p, s, s, i, pos)
      [] family = "calendar_rule" -> CalendarRule(p, s, i, pos)
      [] family = "control_random" -> RandomEntry(p, s, i, pos)
      [] family = "control_always_long" -> AlwaysLong(pos)
Remembered(family, p, s, i, pos, h) ==
    CASE family = "darvas" -> Darvas(p, s, i, pos, h)
      [] family = "fib_ichimoku" -> FibIchimoku(p, s, i, pos, h)
      [] family = "patterns" -> Patterns(p, s, i, pos, h)
      [] family = "pencil_extrap" -> PencilExtrapolation(p, s, i, pos, h)
\* A decorator around a family asks it first, and gates what it says.
Behind(gate, g, s, i, signal) ==
    CASE gate = "none" -> signal
      [] gate = "hurst" -> HurstRegimeFilter(g, s, i, signal)
      [] gate = "pe" -> PermutationEntropyGate(g, s, i, signal)
      [] gate = "hawkes" -> HawkesIntensityGate(g, s, i, signal)
      [] gate = "vr" -> VarianceRatioGate(g, s, i, signal)
OnBarOfFamily(u, s, i, pos, h) ==
    LET said == IF u.family \in Remembering THEN Remembered(u.family, u.p, s, i, pos, h)
                ELSE Says(PureSignal(u.family, u.p, s, i, pos), h)
    IN  [said EXCEPT !.signal = Behind(u.gate, u.g, s, i, said.signal)]

-----------------------------------------------------------------------------
(* What the parameters of a setup are.  The code has ints where bars are   *)
(* counted, read by registry.h from a spec or drawn by a generator, and    *)
(* takes std::max of each with the least it can do with.                   *)

Counts(p, fields) == \A f \in fields : p[f] \in Nat
AllCounts(v, least) == \A k \in Bars(v) : v[k] \in Nat /\ v[k] >= least
GateNames == {"none", "pe", "hawkes", "vr", "hurst"}
GateCounts(gate, g) ==
    CASE gate = "none"   -> TRUE
      [] gate = "pe"     -> Counts(g, {"order", "window"})
      [] gate = "hawkes" -> Counts(g, {"volWindow", "rankWindow"})
      [] gate = "vr"     -> Counts(g, {"window", "lag"})
      [] gate = "hurst"  -> /\ Counts(g, {"window"})
                            /\ IF g.estimator = "StructureFunction" THEN AllCounts(g.lags, 0)
                                                                    ELSE AllCounts(g.chunks, 1)
\* The members of a vote have their own, which ensemble_tuned sets some of.
MembersCount(p) ==
    /\ Counts(p.tsmom, {"lookback", "volWindow"}) /\ Counts(p.faber, {"window"})
    /\ Counts(p.donchian, {"entryWindow", "exitWindow", "atrWindow"})
TunedCounts(p) ==
    MembersCount([enterVotes |-> p.enterVotes, exitVotes |-> p.exitVotes,
                  tsmom    |-> [p.tsmom EXCEPT !.lookback = p.tsLookback, !.threshold = p.tsThreshold],
                  faber    |-> [p.faber EXCEPT !.window = p.faberWindow],
                  donchian |-> [p.donchian EXCEPT !.entryWindow = p.donEntry, !.exitWindow = p.donExit,
                                                  !.atrStopMult = p.donAtrMult]])
\* Rules that a search has written.
FeatureNames == {"rsi", "adx", "plusDI", "minusDI", "hurst", "close/sma", "sma/sma", "close/ema",
                 "ema/ema", "close/tenkan", "close/kijun", "atr/close", "%B"}
EmergentCounts(p) ==
    /\ Counts(p, {"w", "fast", "slow", "tenkan", "kijun", "window"}) /\ AllCounts(p.chunks, 1)
    /\ Len(p.rules) \in Nat
    /\ \A k \in Bars(p.rules) : /\ p.rules[k].a \in FeatureNames
                                /\ ~p.rules[k].useConstant => p.rules[k].b \in FeatureNames
LeafTypes == {"close_sma", "close_ema", "return", "breakout", "breakdown", "rsi", "relative_volume", "zscore",
              "market_zscore", "vol_rank", "memory_order", "candle", "weekday", "atr_trailing_stop"}
LeafCounts(l) == Counts(l, {"window", "volWindow", "rankWindow", "stride"}) /\ l.stride > 0 /\ l.type \in LeafTypes
NodeKinds == {"leaf", "not", "all", "any"}
TreeCounts(tree) ==
    \A k \in DOMAIN tree : /\ tree[k].kind \in NodeKinds
                           /\ tree[k].kind = "leaf" => LeafCounts(tree[k].leaf)
SpecCounts(p) == TreeCounts(p.entry) /\ TreeCounts(p.exit)

FamilyCounts(family, p) ==
    CASE family = "tsmom" -> Counts(p, {"lookback", "volWindow"})
      [] family = "sma_cross" -> Counts(p, {"fast", "slow"})
      [] family = "faber_ma" -> Counts(p, {"window"})
      [] family = "kama_trend" -> Counts(p, {"erWindow"})
      [] family = "ehlers_trend" -> Counts(p, {"volWindow", "slopeLag"})
      [] family = "macd_norm" -> Counts(p, {"short", "long", "priceStdWindow", "signalStdWindow"})
      [] family = "rsi_reversal" -> Counts(p, {"rsiWindow", "trendWindow"})
      [] family = "ou_score" -> Counts(p, {"detrendWindow", "window"})
      [] family = "skew_reversal" -> Counts(p, {"window", "trendWindow"})
      [] family = "dip_reversion" -> Counts(p, {"lookback", "volWindow"})
      [] family = "donchian" -> Counts(p, {"entryWindow", "exitWindow", "atrWindow"})
      [] family = "squeeze_breakout" -> Counts(p, {"window", "rankWindow"})
      [] family = "conviction_breakout" ->
             Counts(p, {"entryWindow", "exitWindow", "trendWindow", "slopeWindow", "momentumWindow", "atrWindow"})
      [] family = "momo_breakout" -> Counts(p, {"rangeFast", "rangeSlow", "lookback"})
      [] family = "pure_ichimoku" -> Counts(p, {"tenkan", "kijun", "spanB"})
      [] family = "ichimoku_full" -> Counts(p, {"tenkan", "kijun", "spanB", "displacement"})
      [] family = "odiseo" ->
             Counts(p, {"tenkan", "kijun", "spanB", "dmiWindow", "atrWindow", "volWindow", "obvWindow"})
      [] family = "vol_managed" -> Counts(p, {"volWindow", "rankWindow", "trendWindow"})
      [] family = "vr_switch" -> Counts(p, {"vrWindow", "vrLag", "trendWindow", "mrWindow"})
      [] family = "fracdiff" -> Counts(p, {"zWindow"}) /\ Len(p.weights) \in Nat
      [] family = "cusum_tb" -> Counts(p, {"volWindow"})
      [] family = "lppls_bubble" -> Counts(p, {"window", "refitEvery", "trendWindow"}) /\ p.refitEvery > 0
      [] family = "factor_trend" -> Counts(p, {"lookback", "volWindow", "refLagBars"})
      [] family = "ensemble_tuned" -> TunedCounts(p)
      [] family \in {"ensemble_vote", "ensemble_rule", "ensemble_asym", "ensemble_ls"} -> MembersCount(p)
      [] family = "emergent" -> EmergentCounts(p)
      [] family = "generated_spec" -> SpecCounts(p)
      [] family \in {"calendar_rule", "control_random", "control_always_long"} -> TRUE
      [] family = "darvas" -> Counts(p, {"pivotWindow", "atrWindow", "volWindow"})
      [] family = "fib_ichimoku" -> Counts(p, {"pivotWindow", "tenkan", "kijun", "spanB", "atrWindow"})
      [] family = "patterns" -> Counts(p, {"pivotWindow", "atrWindow", "volWindow"})
      [] family = "pencil_extrap" -> Counts(p, {"window"})
      [] OTHER -> FALSE
WellFormed(u) == FamilyCounts(u.family, u.p) /\ u.gate \in GateNames /\ GateCounts(u.gate, u.g)

-----------------------------------------------------------------------------
(* What more is asked of a setup with a gate, and of one with a frame.     *)

\* These take no position.
Stateless == {"tsmom", "sma_cross", "faber_ma", "kama_trend", "ehlers_trend", "macd_norm",
              "vol_managed", "lppls_bubble", "factor_trend", "ensemble_ls", "emergent"}
\* What keeps the others from leaving on a bar they would enter on.
EntersOrLeaves(family, p) ==
    CASE family \in Stateless \cup {"control_always_long"} -> TRUE
      [] family \in {"ensemble_vote", "ensemble_tuned"} -> p.enterVotes \in Int /\ p.exitVotes \in Int
      [] family = "ensemble_rule" -> p.entry \subseteq p.stay
      [] family = "calendar_rule" -> p.buyWeekday # p.sellWeekday
      [] OTHER -> FALSE
SetupFields == {"family", "p", "gate", "g"}
FactorFields == {"lookback", "volWindow", "factorWeight", "confirm", "confirmZ", "refLagBars", "thresholdZ"}
GateIsBeforeRule(u) ==
    /\ u.gate \in GateNames /\ SetupFields \subseteq DOMAIN u
    /\ u.gate # "none" => EntersOrLeaves(u.family, u.p)
    /\ u.family = "factor_trend" => FactorFields \subseteq DOMAIN u.p

\* A turn is seen from one bar on each side at least (std::max of the parameter).
FrameIsNumbers(u) ==
    /\ u.gate \in GateNames
    /\ u.family \in {"darvas", "fib_ichimoku", "patterns"} => u.p.pivotWindow \in Nat \ {0}
    /\ u.family = "darvas" => u.p.targetLevel \in Int /\ u.p.stopBelowBox \in Int
    /\ u.family = "patterns" => u.p.targetHeight \in Int /\ u.p.stopBelowLow \in Int
=============================================================================
