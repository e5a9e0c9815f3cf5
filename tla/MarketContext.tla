----------------------------- MODULE MarketContext -----------------------------
(***************************************************************************)
(* A rule that decides on one coin while it reads another: the sleeve of a *)
(* coin runs factor_trend, whose reference is the store that the sleeve of *)
(* BTC appends to, through a cache inside the process                      *)
(* (strategy/zoo/market_context.h).  A store holds the first so many bars  *)
(* of its history; the two histories have their own starts and gaps.       *)
(*                                                                         *)
(* The cache's lock is held from the look at the store to the end of the   *)
(* load, against the threads of the process, and not against the other     *)
(* process: bars may be appended in between.                               *)
(***************************************************************************)
EXTENDS RegimeStrategies

CONSTANTS
    FactorRule, \* the parameters of factor_trend
    Histories,  \* records [coin, ref] of series: what the two markets print
    MaxLead     \* bound: bars by which the reference's store runs ahead of the coin's

ASSUME MarketAssumption == MaxLead \in Nat

ASSUME RuleAssumption == FactorRule.lookback \in Nat /\ FactorRule.volWindow \in Nat

\* Stores are sorted (CandleStore's Sorted), and time is past the epoch.
Sound(s) ==
    /\ s \in [timestamp : Seq(Nat \ {0}), close : Seq(Int)] /\ Len(s.timestamp) = Len(s.close)
    /\ \A i, j \in 1..Len(s.timestamp) : i < j => s.timestamp[i] < s.timestamp[j]
ASSUME HistoriesAssumption == \A h \in Histories : Sound(h.coin) /\ Sound(h.ref)

VARIABLES
    history,
    coinBars, refBars,  \* the length of each store; 0: there is none
    looked,   \* what a get() on its way found the reference's store to end with
    cache,    \* the bars of the cached series, and the end it was cached for
    decided   \* of each bar of the coin processed: the signal, and how long
              \* the reference's store was when the poll began

marketVars == <<history, coinBars, refBars, looked, cache, decided>>

Nothing == [bars |-> 0, last |-> 0]
First(s, n) == [c \in DOMAIN s |-> SubSeq(s[c], 1, n)]
EndOf(s, n) == IF n = 0 THEN 0 ELSE s.timestamp[n]

MarketInit ==
    /\ history \in Histories
    /\ coinBars = 0 /\ refBars = 0
    /\ looked = Nothing
    /\ cache = Nothing
    /\ decided = <<>>

\* The sleeve fetches its own bars between polls, not inside of one.
CoinAppended ==
    /\ looked = Nothing
    /\ coinBars < Len(history.coin.close)
    /\ coinBars' = coinBars + 1
    /\ UNCHANGED <<history, refBars, looked, cache, decided>>

RefAppended ==
    /\ refBars < Len(history.ref.close)
    /\ history.ref.timestamp[refBars + 1] < history.coin.timestamp[1] + coinBars + MaxLead
    /\ refBars' = refBars + 1
    /\ UNCHANGED <<history, coinBars, looked, cache, decided>>

\* The rule over the bars not processed yet, with so many bars of the reference;
\* the store's own bars are all it sees of the coin.
Decided(bars, stored) ==
    LET coin == First(history.coin, coinBars)
        ref  == First(history.ref, bars)
    IN  [i \in 1..coinBars |->
            IF i <= Len(decided) THEN decided[i]
            ELSE [signal |-> FactorTrend(FactorRule, coin, ref, i), stored |-> stored]]

\* get(): the cached series stands as long as the store ends where it ended.
\* Without a store and without a cache prepare() throws, and the poll is over.
PollFindsCache ==
    /\ looked = Nothing /\ coinBars > 0
    /\ cache # Nothing
    /\ refBars = 0 \/ cache.last = EndOf(history.ref, refBars)
    /\ decided' = Decided(cache.bars, refBars)
    /\ UNCHANGED <<history, coinBars, refBars, looked, cache>>
PollLooks ==
    /\ looked = Nothing /\ coinBars > 0
    /\ refBars > 0 /\ cache.last # EndOf(history.ref, refBars)
    /\ looked' = [last |-> EndOf(history.ref, refBars), bars |-> refBars]
    /\ UNCHANGED <<history, coinBars, refBars, cache, decided>>
\* Mistake: what was loaded once is served for good.
LoadedOnce == IF cache = Nothing THEN [bars |-> refBars, last |-> looked.last]
              ELSE [cache EXCEPT !.last = looked.last]
\* The whole store, as it is by now; cached for the end that was seen before.
Loaded == [bars |-> refBars, last |-> looked.last]
PollLoads ==
    /\ looked # Nothing
    /\ cache' = Loaded
    /\ decided' = Decided(cache'.bars, looked.bars)
    /\ looked' = Nothing
    /\ UNCHANGED <<history, coinBars, refBars>>

\* The process restarts, in the middle of a poll or not: the cache is gone,
\* what was processed is in the state file.
Restarted ==
    /\ looked' = Nothing
    /\ cache' = Nothing
    /\ UNCHANGED <<history, coinBars, refBars, decided>>

MarketNext == CoinAppended \/ RefAppended \/ PollFindsCache \/ PollLooks \/ PollLoads \/ Restarted
MarketSpec == MarketInit /\ [][MarketNext]_marketVars

-----------------------------------------------------------------------------
(* A cache that is served without a look inside holds the whole store: not *)
(* even the bars that arrived while it was being loaded are missed, for    *)
(* the end it is cached under is the one seen before the load              *)
(* (MarketContext::get).                                                   *)
CacheIsCurrent ==
    cache # Nothing /\ cache.last = EndOf(history.ref, refBars) => cache.bars = refBars

(* A decision that was made while the reference's store already held the   *)
(* bar the decision is to read is the decision of the backtest, which has  *)
(* both histories whole: whatever was cached, loaded and appended before,  *)
(* between and after ("live and backtest agree", market_context.h:42).  A  *)
(* store that ended sooner leaves the two to differ, and is only warned of *)
(* (factor_trend.h:178).                                                   *)
FreshDecisionsStand ==
    \A i \in DOMAIN decided :
        Aligned(history.coin, history.ref, FactorRule.refLagBars, i) <= decided[i].stored =>
            decided[i].signal = FactorTrend(FactorRule, history.coin, history.ref, i)
=============================================================================
