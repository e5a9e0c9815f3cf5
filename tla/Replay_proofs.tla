------------------------------ MODULE Replay_proofs ------------------------------
(***************************************************************************)
(* What is proved of a strategy that is replayed live.                     *)
(*                                                                         *)
(* Of Replay, for any strategy whatever whose onBar() is causal: however   *)
(* the bars reach the bot, it ends where one pass over them ends; and the  *)
(* engine, which fills a bar later, holds what the bot holds.              *)
(*                                                                         *)
(* Of the families of the registry, with any parameters and behind any     *)
(* gate: that they are causal, which is proved of each in Families_proofs; *)
(* that no decision is another when the bars after it are not there; that  *)
(* a gate only keeps trades out; that a horizon is kept by the clock; that *)
(* a chart trade is over where its frame says; and that what they carry    *)
(* from bar to bar is what their windows hold.                             *)
(*                                                                         *)
(* Of MarketContext, for any two histories, any rule and any interleaving  *)
(* of the process that appends, the one that reads and its restarts: what  *)
(* the cache serves as current is current, and a decision made when the    *)
(* bar it needs had arrived is the one a backtest of the whole histories   *)
(* makes.                                                                  *)
(***************************************************************************)
EXTENDS Families_proofs, MarketContext, FiniteSetTheorems

-----------------------------------------------------------------------------
(* The cache.  CacheIsCurrent is not inductive by itself: the cache is     *)
(* keyed by an end that was seen before the load, and so may be older than *)
(* its contents.  What a get() carries from one lock-free read to the next *)
(* is the strengthening.                                                   *)

\* What has been read of the store was the store, at some length it had then.
SeenBefore(last, atMost) == \E n \in 1..atMost : last = EndOf(history.ref, n)
MarketInv ==
    /\ history \in Histories
    /\ refBars \in 0..Len(history.ref.close)
    /\ looked = Nothing \/
         (/\ looked.bars \in 1..refBars
          /\ looked.last = EndOf(history.ref, looked.bars))
    /\ cache = Nothing \/
         (/\ cache.bars \in 1..refBars
          /\ SeenBefore(cache.last, cache.bars))

\* Two lengths of a sorted store that end alike are one length.
LEMMA EndsTellLengths ==
    ASSUME NEW h \in Histories, NEW m \in 1..Len(h.ref.close), NEW n \in 1..Len(h.ref.close),
           EndOf(h.ref, m) = EndOf(h.ref, n)
    PROVE  m = n
<1>1. Sound(h.ref)
  BY HistoriesAssumption
<1>2. h.ref.timestamp[m] = h.ref.timestamp[n]
  BY DEF EndOf
<1>3. /\ Len(h.ref.timestamp) = Len(h.ref.close) /\ Len(h.ref.timestamp) \in Nat
      /\ h.ref.timestamp[m] \in Nat /\ h.ref.timestamp[n] \in Nat
  BY SMTT(30), <1>1 DEF Sound
<1> QED
  BY SMTT(30), <1>1, <1>2, <1>3 DEF Sound

LEMMA MarketInvInit == MarketInit => MarketInv
<1> SUFFICES ASSUME MarketInit PROVE MarketInv
  OBVIOUS
<1>1. Len(history.ref.close) \in Nat
  BY HistoriesAssumption DEF MarketInit, Sound
<1> QED
  BY <1>1 DEF MarketInit, MarketInv

LEMMA MarketInvStep == MarketInv /\ [MarketNext]_marketVars => MarketInv'
<1> SUFFICES ASSUME MarketInv, [MarketNext]_marketVars PROVE MarketInv'
  OBVIOUS
<1>0. Len(history.ref.close) \in Nat /\ refBars \in Nat
  BY HistoriesAssumption DEF MarketInv, Sound
<1>1. CASE CoinAppended
  BY <1>1 DEF CoinAppended, MarketInv, SeenBefore, EndOf
<1>2. CASE RefAppended
  <2>1. history' = history /\ looked' = looked /\ cache' = cache
    BY <1>2 DEF RefAppended
  <2>2. refBars' = refBars + 1 /\ refBars' \in 0..Len(history.ref.close)
    BY <1>0, <1>2 DEF RefAppended, MarketInv
  <2>3. looked = Nothing \/ (looked.bars \in 1..refBars' /\ looked.last = EndOf(history.ref, looked.bars))
    BY <1>0, <2>2 DEF MarketInv
  <2>4. cache = Nothing \/ (cache.bars \in 1..refBars' /\ SeenBefore(cache.last, cache.bars))
    BY <1>0, <2>2 DEF MarketInv
  <2> QED
    BY <2>1, <2>2, <2>3, <2>4 DEF MarketInv, SeenBefore, EndOf
<1>3. CASE PollFindsCache
  BY <1>3 DEF PollFindsCache, MarketInv, SeenBefore, EndOf
<1>4. CASE PollLooks
  <2>1. /\ looked' = [last |-> EndOf(history.ref, refBars), bars |-> refBars] /\ refBars > 0
        /\ UNCHANGED <<history, refBars, cache>>
    BY <1>4 DEF PollLooks
  <2>2. looked'.bars \in 1..refBars /\ looked'.last = EndOf(history.ref, looked'.bars)
    BY <1>0, <2>1
  <2> QED
    BY <2>1, <2>2 DEF MarketInv, SeenBefore, EndOf
<1>5. CASE PollLoads
  <2>1. /\ cache' = [bars |-> refBars, last |-> looked.last] /\ looked' = Nothing /\ looked # Nothing
        /\ UNCHANGED <<history, refBars>>
    BY <1>5 DEF PollLoads, Loaded
  <2>2. looked.bars \in 1..refBars /\ looked.last = EndOf(history.ref, looked.bars)
    BY <2>1 DEF MarketInv
  <2>3. cache'.bars \in 1..refBars /\ \E n \in 1..refBars : cache'.last = EndOf(history.ref, n)
    BY <1>0, <2>1, <2>2
  <2> QED
    BY <2>1, <2>3 DEF MarketInv, SeenBefore, EndOf
<1>6. CASE Restarted
  BY <1>6 DEF Restarted, MarketInv, Nothing
<1>7. CASE UNCHANGED marketVars
  BY <1>7 DEF marketVars, MarketInv, SeenBefore, EndOf
<1> QED
  BY <1>1, <1>2, <1>3, <1>4, <1>5, <1>6, <1>7 DEF MarketNext

LEMMA MarketInvImplies == MarketInv => CacheIsCurrent
<1> SUFFICES ASSUME MarketInv, cache # Nothing, cache.last = EndOf(history.ref, refBars)
             PROVE  cache.bars = refBars
  BY DEF CacheIsCurrent
<1>0. Len(history.ref.close) \in Nat /\ refBars \in 0..Len(history.ref.close) /\ history \in Histories
  BY HistoriesAssumption DEF MarketInv, Sound
<1>1. cache.bars \in 1..refBars
  BY DEF MarketInv
<1>2. PICK n \in 1..cache.bars : cache.last = EndOf(history.ref, n)
  BY DEF MarketInv, SeenBefore
<1>3. n \in 1..Len(history.ref.close) /\ refBars \in 1..Len(history.ref.close)
  BY <1>0, <1>1, <1>2
<1>4. n = refBars
  BY <1>0, <1>2, <1>3, EndsTellLengths
<1> QED
  BY <1>0, <1>1, <1>2, <1>4

(* For every history with sorted timestamps, every rule and every bound:   *)
(* the cache never passes an older reference off as the store it stands    *)
(* for, whatever was appended between the look and the load.               *)
THEOREM CacheStaysCurrent == MarketSpec => []CacheIsCurrent
<1>1. MarketInit => MarketInv
  BY MarketInvInit
<1>2. MarketInv /\ [MarketNext]_marketVars => MarketInv'
  BY MarketInvStep
<1>3. MarketInv => CacheIsCurrent
  BY MarketInvImplies
<1> QED
  BY <1>1, <1>2, <1>3, PTL DEF MarketSpec

-----------------------------------------------------------------------------
(* What the rule computes of bar i it computes of the bars up to i: every  *)
(* operator on the way is given two series that agree so far, and says the *)
(* same.  The running sums are recursive functions; two such functions of  *)
(* the same body are one, so no induction is needed here.                  *)

Agree(v, u, n) == \A k \in 1..n : v[k] = u[k]

LEMMA SameSum ==
    ASSUME NEW v, NEW u, NEW a \in Int, NEW b \in Int, \A k \in a..b : v[k] = u[k]
    PROVE  SumOver(v, a, b) = SumOver(u, a, b)
<1>1. \A k \in (a - 1)..b : ~(k < a) => v[k] = u[k]
  OBVIOUS
<1>2. \A sum : [k \in (a - 1)..b |-> IF k < a THEN 0 ELSE sum[k - 1] + v[k]]
             = [k \in (a - 1)..b |-> IF k < a THEN 0 ELSE sum[k - 1] + u[k]]
  BY <1>1
<1> QED BY <1>2 DEF SumOver

LEMMA SameSquares ==
    ASSUME NEW v, NEW u, NEW a \in Int, NEW b \in Int, NEW m, \A k \in a..b : v[k] = u[k]
    PROVE  SquaresAround(v, a, b, m) = SquaresAround(u, a, b, m)
<1>1. \A k \in (a - 1)..b : ~(k < a) => v[k] = u[k]
  OBVIOUS
<1>2. \A sum : [k \in (a - 1)..b |-> IF k < a THEN 0 ELSE sum[k - 1] + (v[k] - m) * (v[k] - m)]
             = [k \in (a - 1)..b |-> IF k < a THEN 0 ELSE sum[k - 1] + (u[k] - m) * (u[k] - m)]
  BY <1>1
<1> QED BY <1>2 DEF SquaresAround

LEMMA StdAgrees ==
    ASSUME NEW v, NEW u, Len(v) \in Nat, Len(u) \in Nat, NEW w \in Nat,
           NEW i \in 1..Len(v), i <= Len(u), Agree(v, u, i)
    PROVE  RollingStd(v, w)[i] = RollingStd(u, w)[i]
<1>1. i \in Bars(v) /\ i \in Bars(u)
  BY DEF Bars
<1> DEFINE std(x) == Root(SquaresAround(x, i - w + 1, i, MeanOver(x, i - w + 1, i)) \div w)
           at(x) == IF i < w \/ ~OkOn(x, i - w + 1, i) THEN NaN ELSE std(x)
<1>2. RollingStd(v, w)[i] = at(v) /\ RollingStd(u, w)[i] = at(u)
  BY <1>1 DEF RollingStd
<1>3. CASE i < w
  BY <1>2, <1>3
<1>4. CASE ~(i < w)
  <2>1. i - w + 1 \in Int /\ i \in Int /\ \A k \in (i - w + 1)..i : v[k] = u[k]
    BY <1>4 DEF Agree
  <2>2. OkOn(v, i - w + 1, i) <=> OkOn(u, i - w + 1, i)
    BY <2>1 DEF OkOn
  <2>3. MeanOver(v, i - w + 1, i) = MeanOver(u, i - w + 1, i)
    BY <2>1, SameSum DEF MeanOver
  <2>4. \A m : SquaresAround(v, i - w + 1, i, m) = SquaresAround(u, i - w + 1, i, m)
    BY <2>1, SameSquares
  <2>5. std(v) = std(u)
    BY <2>3, <2>4
  <2> QED BY <1>2, <2>2, <2>5
<1> QED BY <1>3, <1>4

LEMMA IsSeq ==
    ASSUME NEW S, NEW n \in Nat, NEW f \in [1..n -> S]
    PROVE  f \in Seq(S) /\ Len(f) = n
OBVIOUS

LEMMA PrefixIs ==
    ASSUME NEW S, NEW long \in Seq(S), NEW k \in 0..Len(long)
    PROVE  /\ SubSeq(long, 1, k) \in Seq(S) /\ Len(SubSeq(long, 1, k)) = k
           /\ \A i \in 1..k : SubSeq(long, 1, k)[i] = long[i]
<1>1. k \in Nat /\ \A i \in 1..k : i \in 1..Len(long) /\ long[i] \in S
  OBVIOUS
<1>2. \A i \in 1..k : 1 <= i /\ i <= k /\ 1 + i - 1 = i
  OBVIOUS
<1>3. SubSeq(long, 1, k) = [i \in 1..k |-> long[i]]
  BY <1>1, <1>2
<1>4. [i \in 1..k |-> long[i]] \in [1..k -> S]
  BY <1>1
<1> QED BY <1>1, <1>3, <1>4, IsSeq

LEMMA PrefixFunction ==
    ASSUME NEW S, NEW long \in Seq(S), NEW k \in 0..Len(long)
    PROVE  SubSeq(long, 1, k) = [i \in 1..k |-> long[i]]
<1>1. k \in Nat /\ \A i \in 1..k : i \in 1..Len(long) /\ long[i] \in S
  OBVIOUS
<1>2. \A i \in 1..k : 1 <= i /\ i <= k /\ 1 + i - 1 = i
  OBVIOUS
<1> QED BY <1>1, <1>2

LEMMA ComputedIs ==
    ASSUME NEW n \in Nat, NEW S, NEW f \in [1..n -> S]
    PROVE  Len(Computed(f)) = n /\ \A k \in 1..n : Computed(f)[k] = f[k]
<1>1. f \in Seq(S) /\ Len(f) = n
  BY IsSeq
<1>2. n \in 0..Len(f)
  BY <1>1
<1> QED BY <1>1, <1>2, PrefixIs DEF Computed

LEMMA VolatilityAgrees ==
    ASSUME NEW c \in Seq(Int), NEW d \in Seq(Int), NEW w \in Nat,
           NEW i \in 1..Len(c), i <= Len(d), Agree(c, d, i)
    PROVE  RollingVolatility(c, w)[i] = RollingVolatility(d, w)[i]
<1> DEFINE return(x, k) == (Permille * (x[k] - x[k - 1])) \div x[k - 1]
           returns(x) == PercentReturns(x)
<1>1. \A k \in 1..i : k \in Bars(c) /\ k \in Bars(d)
  BY DEF Bars
<1>2. \A k \in 1..i : returns(c)[k] = returns(d)[k]
  <2> SUFFICES ASSUME NEW k \in 1..i PROVE returns(c)[k] = returns(d)[k]
    OBVIOUS
  <2>1. /\ returns(c)[k] = IF k = 1 \/ c[k - 1] = 0 THEN NaN ELSE return(c, k)
        /\ returns(d)[k] = IF k = 1 \/ d[k - 1] = 0 THEN NaN ELSE return(d, k)
    BY <1>1 DEF PercentReturns
  <2>2. CASE k = 1
    BY <2>1, <2>2
  <2>3. CASE k # 1
    <3>1. k \in 1..i /\ k - 1 \in 1..i
      BY <2>3
    <3>2. c[k] = d[k] /\ c[k - 1] = d[k - 1]
      BY <3>1 DEF Agree
    <3> QED BY <2>1, <3>2
  <2> QED BY <2>2, <2>3
<1>3. \A x \in {c, d} : /\ Len(Computed(returns(x))) = Len(x)
                        /\ \A k \in 1..Len(x) : Computed(returns(x))[k] = returns(x)[k]
  <2> SUFFICES ASSUME NEW x \in {c, d}
               PROVE  /\ Len(Computed(returns(x))) = Len(x)
                      /\ \A k \in 1..Len(x) : Computed(returns(x))[k] = returns(x)[k]
    OBVIOUS
  <2>1. returns(x) \in [1..Len(x) -> {returns(x)[k] : k \in 1..Len(x)}]
    BY DEF PercentReturns, Bars
  <2>2. Len(x) \in Nat
    OBVIOUS
  <2> HIDE DEF returns
  <2> QED BY <2>1, <2>2, ComputedIs
<1> HIDE DEF returns
<1>4. PICK v, u : v = Computed(returns(c)) /\ u = Computed(returns(d))
  OBVIOUS
<1>5. Len(v) = Len(c) /\ Len(u) = Len(d) /\ Len(c) \in Nat /\ Len(d) \in Nat
  BY <1>3, <1>4
<1>6. Agree(v, u, i)
  <2>1. \A k \in 1..i : k \in 1..Len(c) /\ k \in 1..Len(d)
    OBVIOUS
  <2> QED BY <1>2, <1>3, <1>4, <2>1 DEF Agree
<1>7. RollingStd(v, w)[i] = RollingStd(u, w)[i]
  BY <1>5, <1>6, StdAgrees
<1> QED BY <1>4, <1>7 DEF RollingVolatility, returns

LEMMA TrendAgrees ==
    ASSUME NEW c \in Seq(Int), NEW d \in Seq(Int),
           NEW i \in 1..Len(c), i <= Len(d), Agree(c, d, i)
    PROVE  TrendZ(FactorRule, c)[i] = TrendZ(FactorRule, d)[i]
<1> DEFINE w == FactorRule.lookback
           move(x) == (Permille * (x[i] - x[i - w])) \div x[i - w]
           ret(x) == TrailingReturn(x, w)[i]
           vol(x) == RollingVolatility(x, FactorRule.volWindow)[i]
<1>1. i \in Bars(c) /\ i \in Bars(d)
  BY DEF Bars
<1>2. w \in Nat /\ FactorRule.volWindow \in Nat
  BY RuleAssumption
<1>3. vol(c) = vol(d)
  BY <1>2, VolatilityAgrees
<1>4. ret(c) = ret(d)
  <2>1. /\ ret(c) = IF i <= w \/ c[i - w] = 0 THEN NaN ELSE move(c)
        /\ ret(d) = IF i <= w \/ d[i - w] = 0 THEN NaN ELSE move(d)
    BY <1>1 DEF TrailingReturn
  <2>2. CASE i <= w
    BY <2>1, <2>2
  <2>3. CASE ~(i <= w)
    <3>1. i \in 1..i /\ i - w \in 1..i
      BY SMTT(30), <1>2, <2>3
    <3>2. c[i] = d[i] /\ c[i - w] = d[i - w]
      BY <3>1 DEF Agree
    <3> QED BY <2>1, <3>2
  <2> QED BY <2>2, <2>3
<1> DEFINE z(r, v) == IF ~(Ok(r) /\ Ok(v)) \/ v = 0 THEN NaN
                      ELSE (100 * Permille * r) \div (v * Root(10000 * FactorRule.lookback))
<1>5. TrendZ(FactorRule, c)[i] = z(ret(c), vol(c)) /\ TrendZ(FactorRule, d)[i] = z(ret(d), vol(d))
  BY <1>1 DEF TrendZ
<1> QED BY <1>3, <1>4, <1>5

-----------------------------------------------------------------------------
(* The bar of the reference that is read, in the store and in the history. *)

LEMMA AlignedIs ==
    ASSUME NEW s, NEW ref, NEW lag, NEW i, Len(ref.timestamp) \in Nat
    PROVE  Aligned(s, ref, lag, i) \in 0..Len(ref.timestamp)
<1> DEFINE known == { k \in Bars(ref.timestamp) : ref.timestamp[k] <= s.timestamp[i] - lag }
<1>1. known \in SUBSET (1..Len(ref.timestamp))
  BY DEF Bars
<1>2. Aligned(s, ref, lag, i) = IF known = {} THEN 0 ELSE Highest(known)
  BY DEF Aligned
<1> HIDE DEF known
<1>3. CASE known = {}
  BY <1>2, <1>3
<1>4. CASE known # {}
  <2>1. PICK k \in known : k = Highest(known)
    BY <1>1, <1>4, HighestIs
  <2>2. Aligned(s, ref, lag, i) = k
    BY <1>2, <1>4, <2>1
  <2>3. k \in 1..Len(ref.timestamp)
    BY <1>1
  <2> QED BY <2>2, <2>3
<1> QED BY <1>3, <1>4

\* A store that already holds the bar to be read gives that bar.
LEMMA AlignedAgrees ==
    ASSUME NEW s, NEW t, NEW ref, NEW part, NEW lag, NEW i, NEW m \in Nat,
           Len(ref.timestamp) \in Nat, Len(part.timestamp) = m, m <= Len(ref.timestamp),
           Agree(part.timestamp, ref.timestamp, m), t.timestamp[i] = s.timestamp[i],
           Aligned(s, ref, lag, i) <= m
    PROVE  Aligned(t, part, lag, i) = Aligned(s, ref, lag, i)
<1> DEFINE due == s.timestamp[i] - lag
           known == { k \in Bars(ref.timestamp) : ref.timestamp[k] <= due }
           stored == { k \in Bars(part.timestamp) : part.timestamp[k] <= due }
<1>1. known \in SUBSET (1..Len(ref.timestamp))
  BY DEF Bars
<1>2. /\ Aligned(s, ref, lag, i) = IF known = {} THEN 0 ELSE Highest(known)
      /\ Aligned(t, part, lag, i) = IF stored = {} THEN 0 ELSE Highest(stored)
  BY DEF Aligned
<1>3. \A k : k \in stored <=> k \in 1..m /\ k \in known
  <2>1. \A k \in 1..m : k \in Bars(ref.timestamp) /\ part.timestamp[k] = ref.timestamp[k]
    BY DEF Agree, Bars
  <2>2. Bars(part.timestamp) = 1..m
    BY DEF Bars
  <2> QED BY <2>1, <2>2
<1> HIDE DEF known, stored
<1>4. CASE known = {}
  <2>1. stored = {}
    BY <1>3, <1>4
  <2> QED BY <1>2, <1>4, <2>1
<1>5. CASE known # {}
  <2>1. Highest(known) \in known /\ \A k \in known : k <= Highest(known)
    BY <1>1, <1>5, HighestIs
  <2>2. PICK h \in known : h = Highest(known)
    BY <2>1
  <2>3. h <= m
    BY <1>2, <1>5, <2>2
  <2>4. \A k \in known : k \in 1..m
    <3>1. \A k \in known : k \in 1..Len(ref.timestamp) /\ k <= h
      BY <1>1, <2>1, <2>2
    <3>2. h \in Nat
      BY <1>1, <2>2
    <3> QED BY <2>3, <3>1, <3>2
  <2>5. stored = known
    BY <1>3, <2>4
  <2> QED BY <1>2, <2>5
<1> QED BY <1>4, <1>5

LEMMA FirstIs ==
    ASSUME NEW s, Sound(s), NEW n \in 0..Len(s.close)
    PROVE  /\ First(s, n).timestamp \in Seq(Nat \ {0}) /\ Len(First(s, n).timestamp) = n
           /\ Agree(First(s, n).timestamp, s.timestamp, n)
           /\ First(s, n).close \in Seq(Int) /\ Len(First(s, n).close) = n
           /\ Agree(First(s, n).close, s.close, n)
<1>1. s \in [timestamp : Seq(Nat \ {0}), close : Seq(Int)] /\ Len(s.timestamp) = Len(s.close)
  BY DEF Sound
<1>2. First(s, n).timestamp = SubSeq(s.timestamp, 1, n) /\ First(s, n).close = SubSeq(s.close, 1, n)
  BY <1>1 DEF First
<1>3. s.timestamp \in Seq(Nat \ {0}) /\ s.close \in Seq(Int) /\ n \in 0..Len(s.timestamp)
  BY <1>1
<1>4. /\ SubSeq(s.timestamp, 1, n) \in Seq(Nat \ {0}) /\ Len(SubSeq(s.timestamp, 1, n)) = n
      /\ \A i \in 1..n : SubSeq(s.timestamp, 1, n)[i] = s.timestamp[i]
  BY <1>3, PrefixIs
<1>5. /\ SubSeq(s.close, 1, n) \in Seq(Int) /\ Len(SubSeq(s.close, 1, n)) = n
      /\ \A i \in 1..n : SubSeq(s.close, 1, n)[i] = s.close[i]
  BY <1>3, PrefixIs
<1> QED BY <1>2, <1>4, <1>5 DEF Agree

\* The decision over a part of each history is the decision over the whole.
LEMMA FactorTrendAgrees ==
    ASSUME NEW h \in Histories, NEW n \in 0..Len(h.coin.close), NEW m \in 0..Len(h.ref.close),
           NEW i \in 1..n, Aligned(h.coin, h.ref, FactorRule.refLagBars, i) <= m
    PROVE  FactorTrend(FactorRule, First(h.coin, n), First(h.ref, m), i)
             = FactorTrend(FactorRule, h.coin, h.ref, i)
<1> DEFINE lag == FactorRule.refLagBars
<1>1. /\ Sound(h.coin) /\ Sound(h.ref)
      /\ Len(h.coin.timestamp) = Len(h.coin.close) /\ Len(h.ref.timestamp) = Len(h.ref.close)
      /\ h.coin.close \in Seq(Int) /\ h.ref.close \in Seq(Int)
      /\ Len(h.coin.close) \in Nat /\ Len(h.ref.close) \in Nat
  BY SMTT(30), HistoriesAssumption DEF Sound
<1>2. PICK coin : coin = First(h.coin, n)
  OBVIOUS
<1>3. PICK ref : ref = First(h.ref, m)
  OBVIOUS
<1>4. /\ Len(coin.timestamp) = n /\ Agree(coin.timestamp, h.coin.timestamp, n)
      /\ coin.close \in Seq(Int) /\ Len(coin.close) = n /\ Agree(coin.close, h.coin.close, n)
  BY <1>1, <1>2, FirstIs
<1>5. /\ Len(ref.timestamp) = m /\ Agree(ref.timestamp, h.ref.timestamp, m)
      /\ ref.close \in Seq(Int) /\ Len(ref.close) = m /\ Agree(ref.close, h.ref.close, m)
  BY <1>1, <1>3, FirstIs
<1>6. TrendZ(FactorRule, coin.close)[i] = TrendZ(FactorRule, h.coin.close)[i]
  <2>1. i \in 1..Len(coin.close) /\ i <= Len(h.coin.close)
    BY <1>1, <1>4
  <2>2. Agree(coin.close, h.coin.close, i)
    BY <1>4 DEF Agree
  <2> QED BY <1>1, <1>4, <2>1, <2>2, TrendAgrees
<1>7. coin.timestamp[i] = h.coin.timestamp[i]
  BY <1>4 DEF Agree
<1>8. Aligned(coin, ref, lag, i) = Aligned(h.coin, h.ref, lag, i)
  <2>1. m \in Nat /\ Len(h.ref.timestamp) \in Nat /\ m <= Len(h.ref.timestamp)
    BY <1>1
  <2>2. Len(ref.timestamp) = m /\ Agree(ref.timestamp, h.ref.timestamp, m)
    BY <1>5
  <2> HIDE DEF lag
  <2>3. Aligned(h.coin, h.ref, lag, i) <= m
    BY DEF lag
  <2> QED BY <1>7, <2>1, <2>2, <2>3, AlignedAgrees
<1>9. PICK k : k = Aligned(h.coin, h.ref, lag, i)
  OBVIOUS
<1>10. FactorZ(FactorRule, coin, ref, i) = FactorZ(FactorRule, h.coin, h.ref, i)
  <2>1. k \in 0..m
    <3>1. Aligned(h.coin, h.ref, lag, i) \in 0..Len(h.ref.timestamp)
      BY <1>1, AlignedIs
    <3> QED BY <1>9, <3>1
  <2>2. CASE k = 0
    BY <1>8, <1>9, <2>2 DEF FactorZ
  <2>3. CASE k # 0
    <3>1. k \in 1..Len(ref.close) /\ k <= Len(h.ref.close)
      BY <1>1, <1>5, <2>1, <2>3
    <3>2. Agree(ref.close, h.ref.close, k)
      BY <1>5, <2>1 DEF Agree
    <3>3. TrendZ(FactorRule, ref.close)[k] = TrendZ(FactorRule, h.ref.close)[k]
      BY <1>1, <1>5, <3>1, <3>2, TrendAgrees
    <3> QED BY <1>8, <1>9, <2>3, <3>3 DEF FactorZ
  <2> QED BY <2>2, <2>3
<1>11. FactorTrend(FactorRule, coin, ref, i) = FactorTrend(FactorRule, h.coin, h.ref, i)
  BY <1>6, <1>10 DEF FactorTrend
<1> QED BY <1>2, <1>3, <1>11

-----------------------------------------------------------------------------
(* The decisions so far are of bars the store of the coin holds, and stand.*)

DecisionsInv ==
    /\ coinBars \in 0..Len(history.coin.close)
    /\ Len(decided) \in Nat /\ DOMAIN decided = 1..Len(decided)
    /\ Len(decided) <= coinBars
    /\ FreshDecisionsStand
DecidingInv == MarketInv /\ DecisionsInv

LEMMA HistoryIs ==
    ASSUME MarketInv
    PROVE  /\ history \in Histories /\ Sound(history.coin) /\ Sound(history.ref)
           /\ Len(history.coin.close) \in Nat /\ Len(history.ref.close) \in Nat
           /\ Len(history.ref.timestamp) = Len(history.ref.close)
<1>1. history \in Histories /\ Sound(history.coin) /\ Sound(history.ref)
  BY HistoriesAssumption DEF MarketInv
<1> QED BY SMTT(30), <1>1 DEF Sound

\* A poll that reads at least the bars its store held when it began.
LEMMA DecidedStands ==
    ASSUME DecidingInv, NEW bars \in 0..Len(history.ref.close), NEW stored \in 0..bars
    PROVE  LET new == Decided(bars, stored)
           IN  /\ Len(new) = coinBars /\ DOMAIN new = 1..coinBars
               /\ \A i \in 1..coinBars :
                     Aligned(history.coin, history.ref, FactorRule.refLagBars, i) <= new[i].stored =>
                         new[i].signal = FactorTrend(FactorRule, history.coin, history.ref, i)
<1> DEFINE new == Decided(bars, stored)
           made(i) == FactorTrend(FactorRule, First(history.coin, coinBars), First(history.ref, bars), i)
           record(i) == [signal |-> made(i), stored |-> stored]
           entry(i) == IF i <= Len(decided) THEN decided[i] ELSE record(i)
<1>1. /\ history \in Histories /\ Len(history.coin.close) \in Nat /\ Len(history.ref.close) \in Nat
      /\ Len(history.ref.timestamp) = Len(history.ref.close)
      /\ coinBars \in 0..Len(history.coin.close) /\ coinBars \in Nat
      /\ Len(decided) \in Nat /\ DOMAIN decided = 1..Len(decided)
  BY HistoryIs DEF DecidingInv, DecisionsInv
<1>2. new = [i \in 1..coinBars |-> entry(i)]
  BY DEF Decided
<1>3. Len(new) = coinBars /\ DOMAIN new = 1..coinBars
  <2>1. new \in [1..coinBars -> {entry(i) : i \in 1..coinBars}]
    BY <1>2
  <2> HIDE DEF new, entry
  <2> QED BY <1>1, <2>1, IsSeq
<1>4. ASSUME NEW i \in 1..coinBars,
             Aligned(history.coin, history.ref, FactorRule.refLagBars, i) <= new[i].stored
      PROVE  new[i].signal = FactorTrend(FactorRule, history.coin, history.ref, i)
  <2>1. new[i] = entry(i)
    BY <1>2
  <2>2. CASE i <= Len(decided)
    <3>1. i \in DOMAIN decided /\ new[i] = decided[i]
      BY <1>1, <2>1, <2>2
    <3> HIDE DEF new
    <3> QED BY <1>4, <3>1 DEF DecidingInv, DecisionsInv, FreshDecisionsStand
  <2>3. CASE ~(i <= Len(decided))
    <3>1. new[i] = record(i)
      BY <2>1, <2>3
    <3>2. new[i].stored = stored /\ new[i].signal = made(i)
      BY <3>1
    <3>3. PICK k \in 0..Len(history.ref.timestamp) :
              k = Aligned(history.coin, history.ref, FactorRule.refLagBars, i)
      BY <1>1, AlignedIs
    <3>4. k <= stored
      <4> HIDE DEF new
      <4> QED BY <1>4, <3>2, <3>3
    <3>5. k <= bars
      BY <1>1, <3>3, <3>4
    <3>6. made(i) = FactorTrend(FactorRule, history.coin, history.ref, i)
      <4>1. Aligned(history.coin, history.ref, FactorRule.refLagBars, i) <= bars
        BY <3>3, <3>5
      <4> QED BY <1>1, <4>1, FactorTrendAgrees
    <3> HIDE DEF new, made
    <3> QED BY <3>2, <3>6
  <2> QED BY <2>2, <2>3
<1> HIDE DEF new
<1>5. \A i \in 1..coinBars :
         Aligned(history.coin, history.ref, FactorRule.refLagBars, i) <= new[i].stored =>
             new[i].signal = FactorTrend(FactorRule, history.coin, history.ref, i)
  BY <1>4
<1> QED BY <1>3, <1>5 DEF new

LEMMA PollDecides ==
    ASSUME DecidingInv, NEW bars \in 0..Len(history.ref.close), NEW stored \in 0..bars,
           decided' = Decided(bars, stored), UNCHANGED <<history, coinBars>>
    PROVE  DecisionsInv'
<1>1. PICK new : new = Decided(bars, stored)
  OBVIOUS
<1>2. /\ Len(new) = coinBars /\ DOMAIN new = 1..coinBars
      /\ \A i \in 1..coinBars :
            Aligned(history.coin, history.ref, FactorRule.refLagBars, i) <= new[i].stored =>
                new[i].signal = FactorTrend(FactorRule, history.coin, history.ref, i)
  BY <1>1, DecidedStands
<1>3. decided' = new /\ history' = history /\ coinBars' = coinBars
  BY <1>1
<1>4. FreshDecisionsStand'
  BY <1>2, <1>3 DEF FreshDecisionsStand
<1>5. coinBars \in 0..Len(history.coin.close) /\ coinBars \in Nat
  BY HistoryIs DEF DecidingInv, DecisionsInv
<1> QED BY <1>2, <1>3, <1>4, <1>5 DEF DecisionsInv

LEMMA DecisionsInvInit == MarketInit => DecisionsInv
<1> SUFFICES ASSUME MarketInit PROVE DecisionsInv
  OBVIOUS
<1>1. Len(history.coin.close) \in Nat
  BY HistoriesAssumption DEF MarketInit, Sound
<1>2. decided = <<>> /\ Len(decided) = 0 /\ DOMAIN decided = {} /\ coinBars = 0
  BY DEF MarketInit
<1> QED BY <1>1, <1>2 DEF DecisionsInv, FreshDecisionsStand

LEMMA DecisionsInvStep == DecidingInv /\ [MarketNext]_marketVars => DecisionsInv'
<1> SUFFICES ASSUME DecidingInv, [MarketNext]_marketVars PROVE DecisionsInv'
  OBVIOUS
<1>0. /\ Len(history.coin.close) \in Nat /\ Len(history.ref.close) \in Nat
      /\ coinBars \in 0..Len(history.coin.close)
      /\ refBars \in 0..Len(history.ref.close)
  BY HistoryIs DEF DecidingInv, DecisionsInv, MarketInv
<1>1. CASE CoinAppended
  <2>1. coinBars' = coinBars + 1 /\ coinBars < Len(history.coin.close)
        /\ UNCHANGED <<history, decided>>
    BY <1>1 DEF CoinAppended
  <2>2. Len(decided) \in Nat /\ Len(decided) <= coinBars
    BY DEF DecidingInv, DecisionsInv
  <2>3. coinBars' \in 0..Len(history.coin.close) /\ Len(decided) <= coinBars'
    BY <1>0, <2>1, <2>2
  <2> QED BY <2>1, <2>3 DEF DecidingInv, DecisionsInv, FreshDecisionsStand
<1>2. CASE RefAppended
  BY <1>2 DEF RefAppended, DecidingInv, DecisionsInv, FreshDecisionsStand
<1>3. CASE PollFindsCache
  <2>1. /\ cache # Nothing /\ (refBars = 0 \/ cache.last = EndOf(history.ref, refBars))
        /\ decided' = Decided(cache.bars, refBars) /\ UNCHANGED <<history, coinBars>>
    BY <1>3 DEF PollFindsCache
  <2>2. cache.bars \in 1..refBars
    BY <2>1 DEF DecidingInv, MarketInv
  <2>3. refBars # 0
    BY <1>0, <2>2
  <2>4. cache.bars = refBars
    BY <2>1, <2>3, MarketInvImplies DEF CacheIsCurrent, DecidingInv
  <2>5. refBars \in 0..refBars
    BY <1>0
  <2> QED BY <1>0, <2>1, <2>4, <2>5, PollDecides
<1>4. CASE PollLooks
  BY <1>4 DEF PollLooks, DecidingInv, DecisionsInv, FreshDecisionsStand
<1>5. CASE PollLoads
  <2>1. /\ looked # Nothing /\ cache' = [bars |-> refBars, last |-> looked.last]
        /\ decided' = Decided(cache'.bars, looked.bars) /\ UNCHANGED <<history, coinBars>>
    BY <1>5 DEF PollLoads, Loaded
  <2>2. looked.bars \in 1..refBars
    BY <2>1 DEF DecidingInv, MarketInv
  <2>3. decided' = Decided(refBars, looked.bars) /\ looked.bars \in 0..refBars
    BY <1>0, <2>1, <2>2
  <2> QED BY <1>0, <2>1, <2>3, PollDecides
<1>6. CASE Restarted
  BY <1>6 DEF Restarted, DecidingInv, DecisionsInv, FreshDecisionsStand
<1>7. CASE UNCHANGED marketVars
  BY <1>7 DEF marketVars, DecidingInv, DecisionsInv, FreshDecisionsStand
<1> QED
  BY <1>1, <1>2, <1>3, <1>4, <1>5, <1>6, <1>7 DEF MarketNext

(* For every two histories, every factor_trend rule and every interleaving *)
(* of appends, polls and restarts: a decision made when the reference's    *)
(* store already held the bar that is due is the one a backtest of both    *)
(* whole histories makes; it saw no more and missed nothing.               *)
THEOREM DecisionsStand == MarketSpec => []FreshDecisionsStand
<1>1. MarketInit => DecidingInv
  BY MarketInvInit, DecisionsInvInit DEF DecidingInv
<1>2. DecidingInv /\ [MarketNext]_marketVars => DecidingInv'
  BY MarketInvStep, DecisionsInvStep DEF DecidingInv
<1>3. DecidingInv => FreshDecisionsStand
  BY DEF DecidingInv, DecisionsInv
<1> QED
  BY <1>1, <1>2, <1>3, PTL DEF MarketSpec

-----------------------------------------------------------------------------
(* A strategy, replayed.  What is asked of it: its onBar() says the same   *)
(* of a bar when the bars after it are known (FamiliesAreCausal, below, is *)
(* that of the registry's own), and what it says depends on nothing that   *)
(* it remembers (the families of Remembering are the others).              *)

IsStore(s) ==
    /\ s = [c \in Columns |-> s[c]]
    /\ \A c \in Columns : s[c] \in Seq(Int) /\ Len(s[c]) = Len(s.close)

Positions == [in : BOOLEAN, price : Int, highest : Int, lowest : Int, index : Nat]
\* A position that bar i may be asked about.
Held(pos, i) == pos \in Positions /\ (pos.in => pos.index \in 1..i)

Causal(u) ==
    \A s : IsStore(s) /\ InOrder(s) =>
        \A i \in 1..Len(s.close), pos \in Positions : Held(pos, i) => \A h, g :
            OnBar(u, Prefix(s, i), i, pos, h).signal = OnBar(u, s, i, pos, g).signal
StrategiesAreCausal == \A u \in Setups : u.family \notin Remembering => Causal(u)

\* Bars that follow each other a period apart.
LEMMA DatesInOrder ==
    ASSUME NEW s, Len(s.close) \in Nat, NEW base \in Int,
           \A i \in 1..Len(s.close) : s.timestamp[i] = base + i
    PROVE  InOrder(s)
BY DEF InOrder
LEMMA DatesFromNine ==
    ASSUME NEW s, IsStore(s), \A i \in 1..Len(s.close) : s.timestamp[i] = 9 + i
    PROVE  InOrder(s)
<1>1. s["close"] \in Seq(Int)
  BY DEF IsStore, Columns
<1> QED BY <1>1 DEF InOrder

\* Two stores that hold the same bars so far.
Alike(s, t, n) == \A c \in Columns : \A k \in 1..n : s[c][k] = t[c][k]

LEMMA StoreLength ==
    ASSUME NEW s, IsStore(s)
    PROVE  Len(s.close) \in Nat
<1>1. s["close"] \in Seq(Int)
  BY DEF IsStore, Columns
<1> QED BY <1>1

LEMMA SamePrefix ==
    ASSUME NEW s, NEW t, IsStore(s), IsStore(t), NEW n \in Nat,
           n <= Len(s.close), n <= Len(t.close), Alike(s, t, n)
    PROVE  Prefix(s, n) = Prefix(t, n)
<1>1. ASSUME NEW c \in Columns
      PROVE  SubSeq(s[c], 1, n) = SubSeq(t[c], 1, n)
  <2>1. /\ s[c] \in Seq(Int) /\ t[c] \in Seq(Int)
        /\ n \in 0..Len(s[c]) /\ n \in 0..Len(t[c])
    <3>1. /\ s[c] \in Seq(Int) /\ Len(s[c]) = Len(s.close)
          /\ t[c] \in Seq(Int) /\ Len(t[c]) = Len(t.close)
      BY DEF IsStore
    <3>2. Len(s.close) \in Nat /\ Len(t.close) \in Nat
      BY StoreLength
    <3> QED BY <3>1, <3>2
  <2>2. PICK v \in Seq(Int) : v = s[c] /\ n \in 0..Len(v)
    BY <2>1
  <2>3. PICK w \in Seq(Int) : w = t[c] /\ n \in 0..Len(w)
    BY <2>1
  <2>4. \A i \in 1..n : v[i] = w[i]
    BY <2>2, <2>3 DEF Alike
  <2>5. SubSeq(v, 1, n) = [i \in 1..n |-> v[i]] /\ SubSeq(w, 1, n) = [i \in 1..n |-> w[i]]
    BY <2>2, <2>3, PrefixFunction
  <2>6. [i \in 1..n |-> v[i]] = [i \in 1..n |-> w[i]]
    BY <2>4
  <2> QED BY <2>2, <2>3, <2>5, <2>6
<1> QED BY <1>1 DEF Prefix

LEMMA FillKeepsPosition ==
    ASSUME NEW pos \in Positions, NEW i \in Nat \ {0}, Held(pos, i), NEW signal, NEW price \in Int
    PROVE  Held(Filled(pos, signal, price, i), i)
<1>1. Opened(price, i) \in Positions /\ Opened(price, i).index = i /\ Flat \in Positions /\ ~Flat.in
  BY DEF Opened, Flat, Positions
<1>2. Filled(pos, signal, price, i) \in {pos, Opened(price, i), Flat}
  <2>1. CASE signal = "Buy" /\ ~pos.in
    BY <2>1 DEF Filled
  <2>2. CASE signal = "Sell" /\ pos.in
    BY <2>2 DEF Filled
  <2>3. CASE ~(signal = "Buy" /\ ~pos.in) /\ ~(signal = "Sell" /\ pos.in)
    BY <2>3 DEF Filled
  <2> QED BY <2>1, <2>2, <2>3
<1>3. i \in 1..i
  OBVIOUS
<1> QED BY <1>1, <1>2, <1>3 DEF Held

LEMMA ObservedKeepsPosition ==
    ASSUME NEW pos \in Positions, NEW i \in Nat, Held(pos, i), NEW close \in Int
    PROVE  /\ Held(Observed(pos, close), i)
           /\ Observed(pos, close).in = pos.in
<1>1. Larger(pos.highest, close) \in Int /\ Smaller(pos.lowest, close) \in Int
  BY DEF Positions, Larger, Smaller
<1>2. CASE pos.in
  <2>1. Observed(pos, close) = [pos EXCEPT !.highest = Larger(pos.highest, close),
                                           !.lowest = Smaller(pos.lowest, close)]
    BY <1>2 DEF Observed, Positions
  <2>2. PICK h \in Int, l \in Int : Observed(pos, close) = [pos EXCEPT !.highest = h, !.lowest = l]
    BY <1>1, <2>1
  <2>3. [pos EXCEPT !.highest = h, !.lowest = l] \in Positions
    BY DEF Positions
  <2>4. /\ [pos EXCEPT !.highest = h, !.lowest = l].in = pos.in
        /\ [pos EXCEPT !.highest = h, !.lowest = l].index = pos.index
    BY DEF Positions
  <2> QED BY <2>2, <2>3, <2>4 DEF Held
<1>3. CASE ~pos.in
  BY <1>3 DEF Observed
<1> QED BY <1>2, <1>3

Comparable(u, s, t, n) ==
    /\ Causal(u) /\ IsStore(s) /\ IsStore(t) /\ InOrder(s) /\ InOrder(t)
    /\ n \in Nat /\ n <= Len(s.close) /\ n <= Len(t.close) /\ Alike(s, t, n)
SamePosition(v, w, i) == v.pos = w.pos /\ Held(v.pos, i)

\* The same bar of two stores that are alike so far, from the same position.
LEMMA StepAgrees ==
    ASSUME NEW u, NEW s, NEW t, NEW i, i # 0, Comparable(u, s, t, i),
           NEW v, NEW w, SamePosition(v, w, i)
    PROVE  SamePosition(Step(u, s, i, v), Step(u, t, i, w), i)
<1> USE DEF Comparable, SamePosition
<1> DEFINE pos == Observed(v.pos, s.close[i])
           said == OnBar(u, s, i, pos, v.hidden).signal
           heard == OnBar(u, t, i, pos, w.hidden).signal
           first == OnBar(u, Prefix(s, i), i, pos, v.hidden).signal
<1>1. s.close[i] \in Int /\ s.close[i] = t.close[i]
  <2>1. s["close"] \in Seq(Int) /\ "close" \in Columns
    BY DEF IsStore, Columns
  <2>2. i \in 1..Len(s.close) /\ i \in 1..i
    BY StoreLength
  <2> QED BY <2>1, <2>2 DEF Alike
<1>2. Held(pos, i) /\ pos \in Positions
  BY <1>1, ObservedKeepsPosition DEF Held
<1>3. Prefix(s, i) = Prefix(t, i)
  BY SamePrefix
<1>4. i \in 1..Len(s.close) /\ i \in 1..Len(t.close)
  BY StoreLength
<1> HIDE DEF pos
<1>5. first = said
  BY <1>2, <1>4 DEF Causal
<1>6. first = heard
  <2>1. OnBar(u, Prefix(t, i), i, pos, v.hidden).signal = heard
    BY <1>2, <1>4 DEF Causal
  <2> QED BY <1>3, <2>1
<1>7. Step(u, s, i, v).pos = Filled(pos, said, s.close[i], i)
  BY DEF Step, pos
<1>8. Step(u, t, i, w).pos = Filled(pos, heard, s.close[i], i)
  <2>1. Observed(w.pos, t.close[i]) = pos
    BY <1>1 DEF pos
  <2> QED BY <1>1, <2>1 DEF Step
<1> HIDE DEF said, heard, first
<1>9. Held(Filled(pos, said, s.close[i], i), i)
  BY <1>1, <1>2, FillKeepsPosition
<1> QED BY <1>5, <1>6, <1>7, <1>8, <1>9

\* What is true of the first and of the next is true of all: a least number
\* of which it is not would have one before it.
LEMMA AllFrom ==
    ASSUME NEW a \in Nat, NEW b \in Nat, NEW T, a \in T,
           \A i \in (a + 1)..b : i - 1 \in T => i \in T
    PROVE  \A i \in a..b : i \in T
<1> DEFINE R == OpToRel(<, Nat)
           bad == {i \in a..b : i \notin T}
<1> SUFFICES ASSUME bad # {} PROVE FALSE
  OBVIOUS
<1>1. IsWellFoundedOn(R, Nat)
  BY NatLessThanWellFounded
<1>2. \A x, y \in Nat : x < y => <<x, y>> \in R
  BY DEF OpToRel
<1>3. bad \in SUBSET Nat
  OBVIOUS
<1> HIDE DEF R, bad
<1>4. PICK i \in bad : \A x \in Nat : <<x, i>> \in R => x \notin bad
  BY <1>1, <1>3, WFMin
<1>5. i \in a..b /\ i \notin T
  BY DEF bad
<1>6. i # a
  BY <1>5
<1>7. i - 1 \in a..b /\ i - 1 \in Nat /\ i - 1 < i /\ i \in Nat /\ i \in (a + 1)..b
  BY <1>5, <1>6
<1>8. i - 1 \notin bad
  BY <1>2, <1>4, <1>7
<1>9. i - 1 \in T
  BY <1>7, <1>8 DEF bad
<1> QED BY <1>5, <1>7, <1>9

\* The loop's recursion defines a function.
IsLoop(f, u, s, first, last, from) ==
    f = [i \in (first - 1)..last |-> IF i < first THEN from ELSE Step(u, s, i, f[i - 1])]

LEMMA LoopIs ==
    ASSUME NEW u, NEW s, NEW first \in Nat \ {0}, NEW last \in Nat, first - 1 <= last, NEW from
    PROVE  LET f == Looped(u, s, first, last, from)
           IN  /\ f[first - 1] = from
               /\ \A i \in first..last : f[i] = Step(u, s, i, f[i - 1])
<1> DEFINE Long(k) == \E f : IsLoop(f, u, s, first, k, from)
           T == {k \in Nat : Long(k)}
<1>1. first - 1 \in T
  <2> DEFINE f == [i \in (first - 1)..(first - 1) |-> from]
  <2>1. IsLoop(f, u, s, first, first - 1, from)
    BY DEF IsLoop
  <2> QED BY <2>1
<1>2. ASSUME NEW k \in first..last, k - 1 \in T PROVE k \in T
  <2>1. PICK f : IsLoop(f, u, s, first, k - 1, from)
    BY <1>2
  <2> DEFINE g == [i \in (first - 1)..k |-> IF i = k THEN Step(u, s, k, f[k - 1]) ELSE f[i]]
  <2>2. \A i \in (first - 1)..k : i # k => i \in (first - 1)..(k - 1)
    OBVIOUS
  <2>3. \A i \in (first - 1)..(k - 1) : g[i] = f[i]
    OBVIOUS
  <2>4. \A i \in (first - 1)..(k - 1) :
            f[i] = IF i < first THEN from ELSE Step(u, s, i, f[i - 1])
    BY <2>1 DEF IsLoop
  <2>5. g[k] = Step(u, s, k, f[k - 1]) /\ k - 1 \in (first - 1)..(k - 1) /\ ~(k < first)
    OBVIOUS
  <2>6. \A i \in first..(k - 1) : i - 1 \in (first - 1)..(k - 1)
    OBVIOUS
  <2> DEFINE body == [i \in (first - 1)..k |-> IF i < first THEN from ELSE Step(u, s, i, g[i - 1])]
  <2>7. \A i \in (first - 1)..k : g[i] = IF i < first THEN from ELSE Step(u, s, i, g[i - 1])
    <3> SUFFICES ASSUME NEW i \in (first - 1)..k
                 PROVE  g[i] = IF i < first THEN from ELSE Step(u, s, i, g[i - 1])
      OBVIOUS
    <3>1. CASE i = k
      <4>1. g[k - 1] = f[k - 1]
        BY <2>3, <2>5
      <4> HIDE DEF g
      <4> QED BY <2>5, <3>1, <4>1
    <3>2. CASE i # k /\ i < first
      <4>1. i \in (first - 1)..(k - 1)
        BY <3>2
      <4> HIDE DEF g
      <4> QED BY <2>3, <2>4, <3>2, <4>1
    <3>3. CASE i # k /\ ~(i < first)
      <4>1. i \in (first - 1)..(k - 1) /\ i - 1 \in (first - 1)..(k - 1)
        BY <3>3
      <4> HIDE DEF g
      <4>2. g[i] = f[i] /\ g[i - 1] = f[i - 1]
        BY <2>3, <4>1
      <4>3. f[i] = Step(u, s, i, f[i - 1])
        BY <2>4, <3>3, <4>1
      <4> QED BY <3>3, <4>2, <4>3
    <3> QED BY <3>1, <3>2, <3>3
  <2>8. g = body
    <3> DEFINE e(i) == IF i = k THEN Step(u, s, k, f[k - 1]) ELSE f[i]
    <3>1. g = [i \in (first - 1)..k |-> g[i]]
      OBVIOUS
    <3> HIDE DEF g
    <3> QED BY <2>7, <3>1
  <2>9. IsLoop(g, u, s, first, k, from)
    BY <2>8 DEF IsLoop
  <2> HIDE DEF g
  <2> QED BY <2>9
<1> HIDE DEF T
<1>3. first - 1 \in Nat /\ (first - 1) + 1 = first
  OBVIOUS
<1>4. \A i \in ((first - 1) + 1)..last : i - 1 \in T => i \in T
  BY <1>2, <1>3
<1>5. last \in T
  <2>1. \A i \in (first - 1)..last : i \in T
    BY <1>1, <1>3, <1>4, AllFrom
  <2> QED BY <1>3, <2>1
<1> DEFINE after == CHOOSE f : IsLoop(f, u, s, first, last, from)
<1>6. IsLoop(after, u, s, first, last, from)
  <2>1. \E f : IsLoop(f, u, s, first, last, from)
    BY <1>5 DEF T
  <2> QED BY <2>1
<1>7. Looped(u, s, first, last, from) = [i \in (first - 1)..last |-> after[i]]
  BY DEF Looped, IsLoop
<1> HIDE DEF after
<1>8. \A i \in (first - 1)..last :
          after[i] = IF i < first THEN from ELSE Step(u, s, i, after[i - 1])
  BY <1>6 DEF IsLoop
<1>9. PICK f : f = Looped(u, s, first, last, from)
  OBVIOUS
<1>10. \A i \in (first - 1)..last : f[i] = after[i]
  BY <1>7, <1>9
<1>11. f[first - 1] = from
  <2>1. first - 1 \in (first - 1)..last /\ first - 1 < first
    BY <1>3
  <2> QED BY <1>8, <1>10, <2>1
<1>12. ASSUME NEW i \in first..last PROVE f[i] = Step(u, s, i, f[i - 1])
  <2>1. i \in (first - 1)..last /\ i - 1 \in (first - 1)..last /\ ~(i < first)
    OBVIOUS
  <2> QED BY <1>8, <1>10, <2>1
<1> QED BY <1>9, <1>11, <1>12

LEMMA WholeIs ==
    ASSUME NEW u, NEW s, IsStore(s)
    PROVE  LET whole == WholeReplay(u, s)
           IN  /\ whole[0] = FreshFrom(u, Flat) /\ whole[0].pos = Flat
               /\ \A i \in 1..Len(s.close) : whole[i] = Step(u, s, i, whole[i - 1])
<1>1. PICK n \in Nat : n = Len(s.close)
  BY StoreLength
<1>2. PICK whole : whole = Looped(u, s, 1, n, FreshFrom(u, Flat))
  OBVIOUS
<1>3. 1 - 1 = 0 /\ 1 - 1 <= n
  OBVIOUS
<1>4. whole[0] = FreshFrom(u, Flat) /\ \A i \in 1..n : whole[i] = Step(u, s, i, whole[i - 1])
  <2>1. whole[1 - 1] = FreshFrom(u, Flat) /\ \A i \in 1..n : whole[i] = Step(u, s, i, whole[i - 1])
    BY <1>2, <1>3, LoopIs
  <2> QED BY <1>3, <2>1
<1>5. FreshFrom(u, Flat).pos = Flat
  BY DEF FreshFrom
<1> QED BY <1>1, <1>2, <1>4, <1>5 DEF WholeReplay

Follows(f, u, s, a, m) == \A i \in (a + 1)..m : f[i] = Step(u, s, i, f[i - 1])

\* Two loops over stores that are alike, from one position on.
LEMMA LoopsAgree ==
    ASSUME NEW u, NEW s, NEW t, NEW a \in Nat, NEW m, Comparable(u, s, t, m), a <= m,
           NEW f, NEW g, Follows(f, u, s, a, m), Follows(g, u, t, a, m),
           SamePosition(f[a], g[a], a)
    PROVE  \A i \in a..m : SamePosition(f[i], g[i], i)
<1> DEFINE T == {i \in Nat : SamePosition(f[i], g[i], i)}
<1>0. m \in Nat
  BY DEF Comparable
<1>1. a \in T
  OBVIOUS
<1>2. ASSUME NEW i \in (a + 1)..m, i - 1 \in T PROVE i \in T
  <2>1. SamePosition(f[i - 1], g[i - 1], i - 1) /\ i \in Nat /\ i # 0 /\ i <= m
    BY <1>0, <1>2
  <2>2. i <= Len(s.close) /\ i <= Len(t.close)
    BY <1>0, <2>1, StoreLength DEF Comparable
  <2>3. Alike(s, t, i)
    BY <1>0, <2>1 DEF Alike, Comparable
  <2>4. Comparable(u, s, t, i)
    BY <2>1, <2>2, <2>3 DEF Comparable
  <2>5. SamePosition(f[i - 1], g[i - 1], i)
    BY <2>1 DEF SamePosition, Held
  <2>6. SamePosition(Step(u, s, i, f[i - 1]), Step(u, t, i, g[i - 1]), i)
    BY <2>1, <2>4, <2>5, StepAgrees
  <2>7. f[i] = Step(u, s, i, f[i - 1]) /\ g[i] = Step(u, t, i, g[i - 1])
    BY <1>2 DEF Follows
  <2> QED BY <2>1, <2>6, <2>7
<1> HIDE DEF T
<1>3. \A i \in a..m : i \in T
  BY <1>0, <1>1, <1>2, AllFrom
<1> QED BY <1>3 DEF T

\* The pass over a store, after a bar that it shares with a longer one.
LEMMA WholeAgrees ==
    ASSUME NEW u, NEW s, NEW t, NEW k, Comparable(u, s, t, k)
    PROVE  /\ WholeReplay(u, s)[k].pos = WholeReplay(u, t)[k].pos
           /\ Held(WholeReplay(u, s)[k].pos, k)
<1>1. PICK f : f = WholeReplay(u, s)
  OBVIOUS
<1>2. PICK g : g = WholeReplay(u, t)
  OBVIOUS
<1>0. IsStore(s) /\ IsStore(t) /\ k \in Nat /\ k <= Len(s.close) /\ k <= Len(t.close)
  BY DEF Comparable
<1>3. /\ f[0].pos = Flat /\ g[0].pos = Flat
      /\ \A i \in 1..Len(s.close) : f[i] = Step(u, s, i, f[i - 1])
      /\ \A i \in 1..Len(t.close) : g[i] = Step(u, t, i, g[i - 1])
  BY <1>0, <1>1, <1>2, WholeIs
<1>4. Follows(f, u, s, 0, k) /\ Follows(g, u, t, 0, k)
  <2>1. \A i \in (0 + 1)..k : i \in 1..Len(s.close) /\ i \in 1..Len(t.close)
    BY <1>0, StoreLength
  <2> QED BY <1>3, <2>1 DEF Follows
<1>5. SamePosition(f[0], g[0], 0)
  BY <1>3 DEF SamePosition, Held, Flat, Positions
<1>6. 0 \in Nat /\ 0 <= k
  BY <1>0
<1>7. \A i \in 0..k : SamePosition(f[i], g[i], i)
  BY <1>4, <1>5, <1>6, LoopsAgree
<1> QED BY <1>0, <1>1, <1>2, <1>7 DEF SamePosition

-----------------------------------------------------------------------------
(* The bot.  It knows by timestamp how far it is, and when it entered.     *)

Stamp(k) == IF k = 0 THEN 0 ELSE 9 + k
Processed(k) ==
    /\ live.done = Stamp(k)
    /\ Held(live.pos, k)
    /\ live.pos.in => live.entered = 9 + live.pos.index
    /\ live.pos = WholeReplay(setup, series)[k].pos
Replaying ==
    /\ IsStore(series)
    /\ \A i \in 1..Len(series.close) : series.timestamp[i] = 9 + i
    /\ \E k \in 0..Len(series.close) : Processed(k)
ReplayInv ==
    /\ setup \in Setups
    /\ ~repaired /\ setup.family \notin Remembering => Replaying

LEMMA ReplayInvInit == ReplayInit => ReplayInv
<1> SUFFICES ASSUME ReplayInit PROVE ReplayInv
  OBVIOUS
<1>1. series = [c \in Columns |-> <<>>] /\ live = [pos |-> Flat, entered |-> 0, done |-> 0]
      /\ setup \in Setups
  BY DEF ReplayInit, NoBars
<1>2. \A c \in Columns : series[c] = <<>>
  BY <1>1
<1>3. series.close = <<>> /\ Len(series.close) = 0
  BY <1>2 DEF Columns
<1>4. IsStore(series)
  BY <1>1, <1>2, <1>3 DEF IsStore
<1>5. WholeReplay(setup, series)[0].pos = Flat
  BY <1>4, WholeIs
<1>6. Processed(0)
  BY <1>1, <1>5 DEF Processed, Stamp, Held, Flat, Positions
<1> QED BY <1>1, <1>3, <1>4, <1>6 DEF ReplayInv, Replaying

LEMMA LongerIs ==
    ASSUME NEW s, IsStore(s), NEW b \in Candle, NEW ts \in Int
    PROVE  LET t == Longer(s, Dated(b, ts))
           IN  /\ IsStore(t) /\ Len(t.close) = Len(s.close) + 1
               /\ Alike(s, t, Len(s.close)) /\ t.timestamp[Len(s.close) + 1] = ts
               /\ \A i \in 1..Len(s.close) : t.timestamp[i] = s.timestamp[i]
<1>1. PICK n \in Nat : n = Len(s.close)
  BY StoreLength
<1>2. PICK t : t = Longer(s, Dated(b, ts))
  OBVIOUS
<1>3. PICK d : d = Dated(b, ts)
  OBVIOUS
<1>4. \A c \in Columns : d[c] \in Int
  <2>1. \A c \in Columns : d[c] = IF c = "timestamp" THEN ts ELSE b[c]
    BY <1>3 DEF Dated
  <2>2. \A c \in Columns : c # "timestamp" => b[c] \in Int
    BY DEF Columns, Candle
  <2> QED BY <2>1, <2>2
<1>5. t = [c \in Columns |-> Append(s[c], d[c])]
  BY <1>2, <1>3 DEF Longer
<1>6. ASSUME NEW c \in Columns
      PROVE  /\ t[c] \in Seq(Int) /\ Len(t[c]) = n + 1 /\ t[c][n + 1] = d[c]
             /\ \A i \in 1..n : t[c][i] = s[c][i]
  <2>1. PICK v \in Seq(Int) : v = s[c] /\ Len(v) = n
    BY <1>1 DEF IsStore
  <2>2. PICK x \in Int : x = d[c]
    BY <1>4
  <2>3. t[c] = Append(v, x)
    BY <1>5, <2>1, <2>2
  <2>4. /\ Append(v, x) \in Seq(Int) /\ Len(Append(v, x)) = n + 1 /\ Append(v, x)[n + 1] = x
        /\ \A i \in 1..n : Append(v, x)[i] = v[i]
    BY <2>1
  <2> QED BY <2>1, <2>2, <2>3, <2>4
<1>7. {"close", "timestamp"} \subseteq Columns
  BY DEF Columns
<1>8. Len(t.close) = n + 1
  BY <1>6, <1>7
<1>9. t = [c \in Columns |-> t[c]]
  BY <1>5
<1>10. IsStore(t)
  BY <1>6, <1>8, <1>9 DEF IsStore
<1>11. Alike(s, t, n)
  BY <1>6 DEF Alike
<1>12. t.timestamp[n + 1] = ts /\ \A i \in 1..n : t.timestamp[i] = s.timestamp[i]
  <2>1. d["timestamp"] = ts
    BY <1>3, <1>7 DEF Dated
  <2> QED BY <1>6, <1>7, <2>1
<1> QED BY <1>1, <1>2, <1>8, <1>10, <1>11, <1>12

LEMMA LowestIs ==
    ASSUME NEW S \in SUBSET Int, NEW a \in S, \A y \in S : a <= y
    PROVE  Lowest(S) = a
<1>1. Lowest(S) \in S /\ \A y \in S : Lowest(S) <= y
  BY DEF Lowest
<1>2. PICK x \in S : x = Lowest(S) /\ \A y \in S : x <= y
  BY <1>1
<1> QED BY <1>2

\* What is ahead of a bot that has processed k bars.
LEMMA AheadIs ==
    ASSUME IsStore(series), \A i \in 1..Len(series.close) : series.timestamp[i] = 9 + i,
           NEW k \in 0..Len(series.close), Processed(k)
    PROVE  Ahead = (k + 1)..Len(series.close)
<1>1. PICK n \in Nat : n = Len(series.close)
  BY StoreLength
<1>2. Len(series.timestamp) = n
  BY <1>1 DEF IsStore, Columns
<1>3. live.done = Stamp(k)
  BY DEF Processed
<1>4. \A i \in 1..n : 9 + i > Stamp(k) <=> i \in (k + 1)..n
  BY <1>1 DEF Stamp
<1>5. Ahead = {i \in 1..n : 9 + i > Stamp(k)}
  BY <1>1, <1>2, <1>3 DEF Ahead, Bars
<1>6. (k + 1)..n \subseteq 1..n
  BY <1>1
<1> QED BY <1>1, <1>4, <1>5, <1>6

\* The index it recovers from the time of its entry is the index it entered at.
LEMMA EntryIs ==
    ASSUME IsStore(series), \A i \in 1..Len(series.close) : series.timestamp[i] = 9 + i,
           NEW k \in 0..Len(series.close), Processed(k), live.pos.in
    PROVE  [live.pos EXCEPT !.index = IndexOfEntry(live, series)] = live.pos
<1>1. PICK n \in Nat : n = Len(series.close)
  BY StoreLength
<1>2. Len(series.timestamp) = n
  BY <1>1 DEF IsStore, Columns
<1>3. PICK e \in 1..k : e = live.pos.index /\ live.entered = 9 + e /\ live.pos \in Positions
  BY DEF Processed, Held
<1>4. e \in 1..n
  BY <1>1, <1>3
<1>5. StoredAt(series, live.entered) = {i \in 1..n : 9 + i >= 9 + e}
  BY <1>1, <1>2, <1>3 DEF StoredAt, Bars
<1>6. PICK S : S = StoredAt(series, live.entered)
  OBVIOUS
<1>7. Lowest(S) = e /\ S # {}
  <2>1. \A y : y \in S <=> y \in 1..n /\ 9 + y >= 9 + e
    BY <1>5, <1>6
  <2>2. S \in SUBSET Int
    BY <2>1
  <2>3. e \in S /\ \A y \in S : e <= y
    BY <1>4, <2>1
  <2>4. Lowest(S) = e
    BY <2>2, <2>3, LowestIs
  <2> QED BY <2>3, <2>4
<1>8. IndexOfEntry(live, series) = e
  BY <1>6, <1>7 DEF IndexOfEntry
<1> QED BY <1>3, <1>8 DEF Positions

LEMMA BarClosesInv ==
    ASSUME StrategiesAreCausal, Replaying, setup \in Setups, ~repaired,
           setup.family \notin Remembering, BarCloses
    PROVE  Replaying'
<1>1. PICK n \in Nat : n = Len(series.close) /\ n + 1 = n - 0 + 1
  BY StoreLength DEF Replaying
<1>2. PICK b : b \in setup.tape[n + 1] /\ n + 1 <= Len(setup.tape)
                 /\ series' = Longer(series, Dated(b, 9 + (n + 1)))
  BY <1>1 DEF BarCloses
<1>3. b \in Candle
  <2>1. n + 1 \in DOMAIN setup.tape
    BY <1>2, SetupsAssumption
  <2> QED BY <1>2, <2>1, SetupsAssumption
<1>4. PICK t : t = Longer(series, Dated(b, 9 + (n + 1)))
  OBVIOUS
<1>5. /\ IsStore(t) /\ Len(t.close) = n + 1 /\ Alike(series, t, n)
      /\ t.timestamp[n + 1] = 9 + (n + 1)
      /\ \A i \in 1..n : t.timestamp[i] = series.timestamp[i]
  <2>1. 9 + (n + 1) \in Int /\ IsStore(series)
    BY DEF Replaying
  <2> QED BY <1>1, <1>3, <1>4, <2>1, LongerIs
<1>6. \A i \in 1..Len(t.close) : t.timestamp[i] = 9 + i
  BY <1>1, <1>5 DEF Replaying
<1>7. PICK k \in 0..n : Processed(k)
  BY <1>1 DEF Replaying
<1>8. WholeReplay(setup, series)[k].pos = WholeReplay(setup, t)[k].pos
  <2>1. Comparable(setup, series, t, k)
    <3>1. Causal(setup)
      BY DEF StrategiesAreCausal
    <3>2. k \in Nat /\ k <= Len(series.close) /\ k <= Len(t.close)
      BY <1>1, <1>5
    <3>3. Alike(series, t, k)
      BY <1>5 DEF Alike
    <3>4. InOrder(series) /\ InOrder(t)
      <4>1. IsStore(series) /\ \A i \in 1..Len(series.close) : series.timestamp[i] = 9 + i
        BY DEF Replaying
      <4>2. InOrder(series)
        BY <4>1, DatesFromNine
      <4> QED BY <1>5, <1>6, <4>2, DatesFromNine
    <3> QED BY <1>5, <3>1, <3>2, <3>3, <3>4 DEF Comparable, Replaying
  <2> QED BY <2>1, WholeAgrees
<1>9. live' = live /\ setup' = setup /\ series' = t
  BY <1>2, <1>4 DEF BarCloses
<1>10. Processed(k)'
  BY <1>7, <1>8, <1>9 DEF Processed
<1>11. k \in 0..Len(t.close)
  BY <1>5
<1> QED BY <1>5, <1>6, <1>9, <1>10, <1>11 DEF Replaying

LEMMA PolledInv ==
    ASSUME StrategiesAreCausal, Replaying, setup \in Setups,
           setup.family \notin Remembering, Polled
    PROVE  Replaying'
<1>1. PICK n \in Nat : n = Len(series.close)
  BY StoreLength DEF Replaying
<1>2. PICK k \in 0..n : Processed(k)
  BY <1>1 DEF Replaying
<1> DEFINE last == IF MaxBarsPerCycle > 0 THEN Smaller(n, NextBar + MaxBarsPerCycle - 1) ELSE n
           held == IF live.pos.in THEN [live.pos EXCEPT !.index = IndexOfEntry(live, series)]
                   ELSE live.pos
           loop == Looped(setup, series, NextBar, last, FreshFrom(setup, held))
           after == loop[last].pos
<1>3. Ahead = (k + 1)..n
  BY <1>1, <1>2, AheadIs DEF Replaying
<1>4. NextBar = k + 1 /\ k + 1 <= n /\ k \in Nat
  <2>1. Ahead # {}
    BY DEF Polled
  <2>2. k + 1 \in Ahead /\ Ahead \in SUBSET Int /\ \A y \in Ahead : k + 1 <= y
    BY <1>3, <2>1
  <2>3. Lowest(Ahead) = k + 1
    BY <2>2, LowestIs
  <2>4. k + 1 <= n /\ k \in Nat
    BY <1>3, <2>2
  <2> QED BY SMTT(30), <2>3, <2>4 DEF NextBar
<1>5. last \in (k + 1)..n
  BY <1>4, ReplayAssumption DEF Smaller
<1>6. held = live.pos
  BY SMTT(30), <1>1, <1>2, EntryIs DEF Replaying
<1>7. /\ live' = [pos |-> after, done |-> series.timestamp[last],
                  entered |-> IF after.in THEN series.timestamp[after.index] ELSE 0]
      /\ UNCHANGED <<setup, series, repaired>>
  BY <1>1 DEF Polled
<1> HIDE DEF last, held
<1>8. PICK m \in (k + 1)..n : m = last
  BY <1>5
<1>9. PICK f : f = loop
  OBVIOUS
<1>10. PICK g : g = WholeReplay(setup, series)
  OBVIOUS
<1>11. f[k] = FreshFrom(setup, held) /\ Follows(f, setup, series, k, m)
  <2>1. f = Looped(setup, series, k + 1, m, FreshFrom(setup, held))
    BY <1>4, <1>8, <1>9
  <2>2. k + 1 \in Nat \ {0} /\ m \in Nat /\ (k + 1) - 1 <= m /\ (k + 1) - 1 = k
    BY <1>4, <1>8
  <2>3. f[(k + 1) - 1] = FreshFrom(setup, held)
        /\ \A i \in (k + 1)..m : f[i] = Step(setup, series, i, f[i - 1])
    BY <2>1, <2>2, LoopIs
  <2> QED BY <2>2, <2>3 DEF Follows
<1>12. Follows(g, setup, series, k, m)
  <2>1. \A i \in (k + 1)..m : i \in 1..Len(series.close)
    BY <1>1, <1>4, <1>8
  <2>2. \A i \in 1..Len(series.close) : g[i] = Step(setup, series, i, g[i - 1])
    BY <1>10, WholeIs DEF Replaying
  <2> QED BY <2>1, <2>2 DEF Follows
<1>13. SamePosition(f[k], g[k], k)
  <2>1. f[k].pos = live.pos
    BY <1>6, <1>11 DEF FreshFrom
  <2>2. live.pos = g[k].pos /\ Held(live.pos, k)
    BY <1>2, <1>10 DEF Processed
  <2> QED BY <2>1, <2>2 DEF SamePosition
<1>14. Comparable(setup, series, series, m)
  <2>1. Causal(setup)
    BY DEF StrategiesAreCausal
  <2>2. m \in Nat /\ m <= Len(series.close)
    BY <1>1, <1>4, <1>8
  <2>3. InOrder(series)
    <3>1. IsStore(series) /\ \A i \in 1..Len(series.close) : series.timestamp[i] = 9 + i
      BY DEF Replaying
    <3> QED BY <3>1, DatesFromNine
  <2> QED BY <2>1, <2>2, <2>3 DEF Comparable, Alike, Replaying
<1>15. SamePosition(f[m], g[m], m)
  <2>1. k <= m /\ m \in k..m
    BY <1>4, <1>8
  <2>2. \A i \in k..m : SamePosition(f[i], g[i], i)
    BY <1>4, <1>11, <1>12, <1>13, <1>14, <2>1, LoopsAgree
  <2> QED BY <2>1, <2>2
<1>16. PICK p : p = after
  OBVIOUS
<1>17. p = g[m].pos /\ Held(p, m)
  BY SMTT(30), <1>8, <1>9, <1>15, <1>16 DEF SamePosition
<1>18. /\ live'.pos = p /\ live'.done = series.timestamp[m]
       /\ p.in => live'.entered = series.timestamp[p.index]
  BY <1>7, <1>8, <1>16
<1>19. m \in 1..n /\ (p.in => p.index \in 1..n)
  BY <1>4, <1>8, <1>17 DEF Held
<1>20. /\ live'.done = 9 + m /\ (p.in => live'.entered = 9 + p.index)
  BY <1>1, <1>18, <1>19 DEF Replaying
<1>21. series' = series /\ setup' = setup
  BY <1>7
<1>22. Processed(m)'
  <2>1. live'.done = Stamp(m)
    BY <1>19, <1>20 DEF Stamp
  <2> QED BY <1>10, <1>17, <1>18, <1>20, <1>21, <2>1 DEF Processed
<1>23. m \in 0..Len(series.close)
  BY <1>1, <1>19
<1> QED BY <1>21, <1>22, <1>23 DEF Replaying

LEMMA ReplayInvStep == StrategiesAreCausal /\ ReplayInv /\ [ReplayNext]_replayVars => ReplayInv'
<1> SUFFICES ASSUME StrategiesAreCausal, ReplayInv, [ReplayNext]_replayVars PROVE ReplayInv'
  OBVIOUS
<1>1. CASE BarCloses
  <2>1. setup' = setup /\ repaired' = repaired
    BY <1>1 DEF BarCloses
  <2> QED BY <1>1, <2>1, BarClosesInv DEF ReplayInv
<1>2. CASE Repaired
  BY <1>2 DEF Repaired, ReplayInv
<1>3. CASE Polled
  <2>1. setup' = setup /\ repaired' = repaired
    BY <1>3 DEF Polled
  <2>2. ~repaired /\ setup.family \notin Remembering /\ setup \in Setups => Replaying'
    BY <1>3, PolledInv DEF ReplayInv
  <2> QED BY SMTT(30), <2>1, <2>2 DEF ReplayInv
<1>4. CASE UNCHANGED replayVars
  BY <1>4 DEF replayVars, ReplayInv, Replaying, Processed
<1> QED BY <1>1, <1>2, <1>3, <1>4 DEF ReplayNext

(* For any causal strategy, tape, backlog and number of bars a poll takes, *)
(* and however bars and polls alternate: a bot that has caught up holds    *)
(* the position that one pass over its whole store ends in, entry, price   *)
(* and extremes (cycle(), step 5, of live_trader.h).  What it saves is a   *)
(* time; that the index comes back from it is part of the invariant.       *)
THEOREM PollsAreOnePass == StrategiesAreCausal /\ ReplaySpec => []LiveIsReplay
<1>1. CASE StrategiesAreCausal
  <2>1. ReplayInv => LiveIsReplay
    <3> SUFFICES ASSUME ReplayInv, CaughtUp, ~repaired, setup.family \notin Remembering
                 PROVE  live.pos = WholeReplay(setup, series)[Len(series.close)].pos
      BY DEF LiveIsReplay
    <3>1. Replaying
      BY DEF ReplayInv
    <3>2. PICK k \in 0..Len(series.close) : Processed(k)
      BY <3>1 DEF Replaying
    <3>3. Ahead = (k + 1)..Len(series.close)
      BY <3>1, <3>2, AheadIs DEF Replaying
    <3>4. k = Len(series.close)
      BY <3>1, <3>3, StoreLength DEF CaughtUp, Replaying
    <3> QED BY <3>2, <3>4 DEF Processed
  <2>2. ReplayInv /\ [ReplayNext]_replayVars => ReplayInv'
    BY <1>1, ReplayInvStep
  <2> QED BY <2>1, <2>2, ReplayInvInit, PTL DEF ReplaySpec
<1>2. CASE ~StrategiesAreCausal
  BY <1>2
<1> QED BY <1>1, <1>2

-----------------------------------------------------------------------------
(* The engine next to the pass over the same bars.  Its fills come a bar   *)
(* later and at another price: a strategy that asks a position only        *)
(* whether there is one cannot tell.                                       *)

AskersAskOnly ==
    \A u \in Setups : u.family \in AsksOnlyWhetherIn =>
        \A s : IsStore(s) =>
            \A i \in 1..Len(s.close), p, q \in Positions :
                Held(p, i) /\ Held(q, i) /\ p.in = q.in => \A h, g :
                    OnBar(u, s, i, p, h).signal = OnBar(u, s, i, q, g).signal

LEMMA FilledIn ==
    ASSUME NEW pos \in Positions, NEW signal, NEW price, NEW i
    PROVE  Filled(pos, signal, price, i).in <=> signal = "Buy" \/ (pos.in /\ signal # "Sell")
<1>1. Opened(price, i).in /\ ~Flat.in
  BY DEF Opened, Flat
<1>2. CASE signal = "Buy" /\ ~pos.in
  BY <1>1, <1>2 DEF Filled
<1>3. CASE signal = "Sell" /\ pos.in
  BY <1>1, <1>3 DEF Filled
<1>4. CASE ~(signal = "Buy" /\ ~pos.in) /\ ~(signal = "Sell" /\ pos.in)
  <2>1. Filled(pos, signal, price, i) = pos
    BY <1>4 DEF Filled
  <2> QED BY <1>4, <2>1
<1> QED BY <1>2, <1>3, <1>4

LEMMA OrderedIn ==
    ASSUME NEW pos \in Positions, NEW signal
    PROVE  (Ordered(signal, pos) = "Buy" \/ (pos.in /\ Ordered(signal, pos) # "Sell"))
               <=> (signal = "Buy" \/ (pos.in /\ signal # "Sell"))
<1>1. CASE (signal = "Buy" /\ ~pos.in) \/ (signal = "Sell" /\ pos.in)
  BY <1>1 DEF Ordered
<1>2. CASE ~(signal = "Buy" /\ ~pos.in) /\ ~(signal = "Sell" /\ pos.in)
  <2>1. Ordered(signal, pos) = "Hold"
    BY <1>2 DEF Ordered
  <2> QED BY <1>2, <2>1
<1> QED BY <1>1, <1>2

\* The bot and the engine after the same bar.
Mirrors(w, e, i) ==
    /\ Held(w.pos, i) /\ Held(e.pos, i)
    /\ w.pos.in <=> Committed(e)

LEMMA MirrorStep ==
    ASSUME NEW u \in Setups, u.family \in AsksOnlyWhetherIn, AskersAskOnly,
           NEW s, IsStore(s), NEW i \in 1..Len(s.close), NEW w, NEW e, Mirrors(w, e, i - 1)
    PROVE  Mirrors(Step(u, s, i, w), EngineStep(u, s, i, e), i)
<1> DEFINE pos == Observed(w.pos, s.close[i])
           filled == Filled(e.pos, e.pending, s.open[i], i)
           stood == Observed(filled, s.close[i])
           said == OnBar(u, s, i, pos, w.hidden)
           heard == OnBar(u, s, i, stood, e.hidden)
<1>0. i \in Nat \ {0} /\ s.close[i] \in Int /\ s.open[i] \in Int
  <2>1. s["close"] \in Seq(Int) /\ s["open"] \in Seq(Int) /\ Len(s["open"]) = Len(s.close)
    BY DEF IsStore, Columns
  <2> QED BY <2>1
<1>1. /\ w.pos \in Positions /\ Held(w.pos, i)
      /\ e.pos \in Positions /\ Held(e.pos, i)
      /\ w.pos.in <=> Committed(e)
  BY <1>0 DEF Mirrors, Held
<1>2. Held(pos, i) /\ pos \in Positions /\ (pos.in <=> Committed(e))
  BY <1>0, <1>1, ObservedKeepsPosition DEF Held
<1>3. Held(filled, i) /\ filled \in Positions /\ (filled.in <=> Committed(e))
  <2>1. filled.in <=> e.pending = "Buy" \/ (e.pos.in /\ e.pending # "Sell")
    BY <1>1, FilledIn
  <2>2. Held(filled, i) /\ filled \in Positions
    BY <1>0, <1>1, FillKeepsPosition DEF Held
  <2> QED BY <2>1, <2>2 DEF Committed
<1> HIDE DEF filled
<1>4. Held(stood, i) /\ stood \in Positions /\ (stood.in <=> Committed(e))
  BY <1>0, <1>3, ObservedKeepsPosition DEF Held
<1> HIDE DEF pos, stood
<1>5. said.signal = heard.signal
  <2>1. pos.in = stood.in
    BY <1>2, <1>4 DEF Positions
  <2> QED BY <1>2, <1>4, <2>1 DEF AskersAskOnly
<1>6. Step(u, s, i, w).pos = Filled(pos, said.signal, s.close[i], i)
  BY DEF Step, pos
<1>7. /\ EngineStep(u, s, i, e).pos = stood
      /\ EngineStep(u, s, i, e).pending = Ordered(heard.signal, stood)
  BY DEF EngineStep, stood, filled
<1> HIDE DEF said, heard
<1>8. Held(Step(u, s, i, w).pos, i)
  BY <1>0, <1>2, <1>6, FillKeepsPosition
<1>9. Step(u, s, i, w).pos.in <=> said.signal = "Buy" \/ (pos.in /\ said.signal # "Sell")
  BY <1>2, <1>6, FilledIn
<1>10. Committed(EngineStep(u, s, i, e))
          <=> heard.signal = "Buy" \/ (stood.in /\ heard.signal # "Sell")
  BY <1>4, <1>7, OrderedIn DEF Committed
<1> QED BY <1>2, <1>4, <1>5, <1>7, <1>8, <1>9, <1>10 DEF Mirrors

\* The engine's recursion defines a function, as that of the loop does.
Fresh(u) == [pos |-> Flat, pending |-> "Hold", hidden |-> Prepared(u.family)]
IsEngine(f, u, s, last) ==
    f = [i \in 0..last |-> IF i = 0 THEN Fresh(u) ELSE EngineStep(u, s, i, f[i - 1])]

LEMMA EngineIs ==
    ASSUME NEW u, NEW s, Len(s.close) \in Nat
    PROVE  LET f == EngineRun(u, s)
           IN  /\ f[0] = Fresh(u)
               /\ \A i \in 1..Len(s.close) : f[i] = EngineStep(u, s, i, f[i - 1])
<1> DEFINE Long(k) == \E f : IsEngine(f, u, s, k)
           T == {k \in Nat : Long(k)}
<1>0. PICK last \in Nat : last = Len(s.close)
  OBVIOUS
<1>1. 0 \in T
  <2> DEFINE f == [i \in 0..0 |-> Fresh(u)]
  <2>1. IsEngine(f, u, s, 0)
    BY DEF IsEngine
  <2> QED BY <2>1
<1>2. ASSUME NEW k \in 1..last, k - 1 \in T PROVE k \in T
  <2>1. PICK f : IsEngine(f, u, s, k - 1)
    BY <1>2
  <2> DEFINE g == [i \in 0..k |-> IF i = k THEN EngineStep(u, s, k, f[k - 1]) ELSE f[i]]
             body == [i \in 0..k |-> IF i = 0 THEN Fresh(u) ELSE EngineStep(u, s, i, g[i - 1])]
  <2>2. /\ \A i \in 0..(k - 1) : g[i] = f[i]
        /\ g[k] = EngineStep(u, s, k, f[k - 1]) /\ k - 1 \in 0..(k - 1) /\ k # 0
        /\ g = [i \in 0..k |-> g[i]]
    OBVIOUS
  <2>3. \A i \in 0..(k - 1) : f[i] = IF i = 0 THEN Fresh(u) ELSE EngineStep(u, s, i, f[i - 1])
    BY <2>1 DEF IsEngine
  <2>4. \A i \in 0..k : i # k => i \in 0..(k - 1)
    OBVIOUS
  <2>5. \A i \in 1..k : i # k => i - 1 \in 0..(k - 1)
    OBVIOUS
  <2> HIDE DEF g
  <2>6. ASSUME NEW i \in 0..k
        PROVE  g[i] = IF i = 0 THEN Fresh(u) ELSE EngineStep(u, s, i, g[i - 1])
    <3>1. CASE i = k
      BY <2>2, <3>1
    <3>2. CASE i # k /\ i = 0
      BY <2>2, <2>3, <2>4, <3>2
    <3>3. CASE i # k /\ i # 0
      <4>1. i \in 0..(k - 1) /\ i - 1 \in 0..(k - 1)
        BY <2>4, <2>5, <3>3
      <4>2. g[i] = f[i] /\ g[i - 1] = f[i - 1]
        BY <2>2, <4>1
      <4>3. f[i] = EngineStep(u, s, i, f[i - 1])
        BY <2>3, <3>3, <4>1
      <4> QED BY <3>3, <4>2, <4>3
    <3> QED BY <3>1, <3>2, <3>3
  <2>7. g = body
    BY <2>2, <2>6
  <2>8. IsEngine(g, u, s, k)
    BY <2>7 DEF IsEngine
  <2> QED BY <2>8
<1> HIDE DEF T
<1>3. last \in T
  <2>1. \A i \in (0 + 1)..last : i - 1 \in T => i \in T
    BY <1>2
  <2>2. \A i \in 0..last : i \in T
    BY <1>1, <2>1, AllFrom
  <2> QED BY <2>2
<1> DEFINE after == CHOOSE f : IsEngine(f, u, s, last)
<1>4. IsEngine(after, u, s, last)
  <2>1. \E f : IsEngine(f, u, s, last)
    BY <1>3 DEF T
  <2> QED BY <2>1
<1>5. EngineRun(u, s) = [i \in 0..last |-> after[i]]
  BY <1>0 DEF EngineRun, IsEngine, Fresh
<1> HIDE DEF after
<1>6. \A i \in 0..last : after[i] = IF i = 0 THEN Fresh(u) ELSE EngineStep(u, s, i, after[i - 1])
  BY <1>4 DEF IsEngine
<1>7. PICK f : f = EngineRun(u, s)
  OBVIOUS
<1>8. \A i \in 0..last : f[i] = after[i]
  BY <1>5, <1>7
<1>9. f[0] = Fresh(u)
  BY <1>6, <1>8
<1>10. ASSUME NEW i \in 1..last PROVE f[i] = EngineStep(u, s, i, f[i - 1])
  <2>1. i \in 0..last /\ i - 1 \in 0..last /\ i # 0
    OBVIOUS
  <2> QED BY <1>6, <1>8, <2>1
<1> QED BY <1>0, <1>7, <1>9, <1>10

LEMMA EngineMirrors ==
    ASSUME NEW u \in Setups, u.family \in AsksOnlyWhetherIn, AskersAskOnly, NEW s, IsStore(s)
    PROVE  LET n == Len(s.close) IN Mirrors(WholeReplay(u, s)[n], EngineRun(u, s)[n], n)
<1>1. PICK n \in Nat : n = Len(s.close)
  BY StoreLength
<1>2. PICK w : w = WholeReplay(u, s)
  OBVIOUS
<1>3. PICK e : e = EngineRun(u, s)
  OBVIOUS
<1>4. w[0].pos = Flat /\ \A i \in 1..n : w[i] = Step(u, s, i, w[i - 1])
  BY <1>1, <1>2, WholeIs
<1>5. e[0] = Fresh(u) /\ \A i \in 1..n : e[i] = EngineStep(u, s, i, e[i - 1])
  BY <1>1, <1>3, EngineIs
<1> DEFINE T == {i \in Nat : Mirrors(w[i], e[i], i)}
<1>6. 0 \in T
  <2>1. w[0].pos = Flat /\ e[0].pos = Flat /\ e[0].pending = "Hold"
    BY <1>4, <1>5 DEF Fresh
  <2>2. Flat \in Positions /\ Flat.in = FALSE
    BY DEF Flat, Positions
  <2>3. Held(Flat, 0)
    BY <2>2 DEF Held
  <2>4. ~Committed(e[0])
    BY <2>1, <2>2, Zenon DEF Committed
  <2>5. ~w[0].pos.in
    BY <2>1, <2>2, Zenon
  <2>6. Held(w[0].pos, 0) /\ Held(e[0].pos, 0)
    BY <2>1, <2>3, Zenon
  <2>7. Mirrors(w[0], e[0], 0)
    BY <2>4, <2>5, <2>6, Zenon DEF Mirrors
  <2> QED BY <2>7
<1>7. ASSUME NEW i \in (0 + 1)..n, i - 1 \in T PROVE i \in T
  <2>1. i \in 1..Len(s.close) /\ Mirrors(w[i - 1], e[i - 1], i - 1) /\ i \in Nat
    BY <1>1, <1>7
  <2>2. Mirrors(Step(u, s, i, w[i - 1]), EngineStep(u, s, i, e[i - 1]), i)
    BY <2>1, MirrorStep
  <2> QED BY <1>1, <1>4, <1>5, <2>1, <2>2
<1> HIDE DEF T
<1>8. n \in T
  <2>1. \A i \in 0..n : i \in T
    BY <1>6, <1>7, AllFrom
  <2> QED BY <2>1
<1> QED BY <1>1, <1>2, <1>3, <1>8 DEF T

(* For any causal strategy that asks of its position only whether there is *)
(* one, and any way bars and polls alternate: a bot that has caught up is  *)
(* in a trade exactly when the engine is in one or has ordered it.         *)
THEOREM EnginePredictsBot ==
    StrategiesAreCausal /\ AskersAskOnly /\ ReplaySpec => []BacktestPredictsLive
<1>1. CASE AskersAskOnly
  <2>1. ReplayInv /\ LiveIsReplay => BacktestPredictsLive
    <3> SUFFICES ASSUME ReplayInv, LiveIsReplay, CaughtUp, ~repaired,
                        setup.family \in AsksOnlyWhetherIn
                 PROVE  live.pos.in = Committed(EngineRun(setup, series)[Len(series.close)])
      BY DEF BacktestPredictsLive
    <3>1. setup.family \notin Remembering
      BY DEF AsksOnlyWhetherIn, Remembering
    <3>2. PICK w : w = WholeReplay(setup, series)[Len(series.close)]
      OBVIOUS
    <3>3. PICK e : e = EngineRun(setup, series)[Len(series.close)]
      OBVIOUS
    <3>4. IsStore(series) /\ setup \in Setups
      BY <3>1 DEF ReplayInv, Replaying
    <3>5. Mirrors(w, e, Len(series.close))
      BY <1>1, <3>2, <3>3, <3>4, EngineMirrors
    <3>6. live.pos = w.pos
      BY <3>1, <3>2 DEF LiveIsReplay
    <3>7. (live.pos.in <=> Committed(e)) /\ live.pos.in \in BOOLEAN
      BY <3>5, <3>6 DEF Mirrors, Held, Positions
    <3>8. Committed(e) \in BOOLEAN
      BY DEF Committed
    <3>9. PICK b \in BOOLEAN : b = Committed(e)
      BY <3>8
    <3>10. PICK a \in BOOLEAN : a = live.pos.in
      BY <3>7
    <3>11. a <=> b
      BY <3>7, <3>9, <3>10, Zenon
    <3>12. a = b
      BY <3>11
    <3> QED BY <3>3, <3>9, <3>10, <3>12, Zenon
  <2>2. StrategiesAreCausal /\ ReplaySpec => []ReplayInv
    <3>1. CASE StrategiesAreCausal
      <4>1. ReplayInv /\ [ReplayNext]_replayVars => ReplayInv'
        BY <3>1, ReplayInvStep
      <4> QED BY <4>1, ReplayInvInit, PTL DEF ReplaySpec
    <3>2. CASE ~StrategiesAreCausal
      BY <3>2
    <3> QED BY <3>1, <3>2
  <2> QED BY <2>1, <2>2, PollsAreOnePass, PTL
<1>2. CASE ~AskersAskOnly
  BY <1>2
<1> QED BY <1>1, <1>2

-----------------------------------------------------------------------------
(* The families of the program: what was asked of a strategy above, of     *)
(* those that are named to ask a position only whether there is one.       *)

TheFamiliesPlay ==
    \A u, s, i, pos, h : OnBar(u, s, i, pos, h) = OnBarOfFamily(u, s, i, pos, h)

LEMMA RulesAskOnly ==
    ASSUME NEW par, NEW s, NEW i, NEW p, NEW q, p.in = q.in
    PROVE 
    /\ OuScore(par, s, i, p) = OuScore(par, s, i, q)
    /\ SqueezeBreakout(par, s, i, p) = SqueezeBreakout(par, s, i, q)
    /\ PureIchimoku(par, s, i, p) = PureIchimoku(par, s, i, q)
    /\ IchimokuFull(par, s, i, p) = IchimokuFull(par, s, i, q)
    /\ VrSwitch(par, s, i, p) = VrSwitch(par, s, i, q)
    /\ FracDiff(par, s, i, p) = FracDiff(par, s, i, q)
    /\ EnsembleVote(par, s, i, p) = EnsembleVote(par, s, i, q)
    /\ EnsembleRule(par, s, i, p) = EnsembleRule(par, s, i, q)
    /\ CalendarRule(par, s, i, p) = CalendarRule(par, s, i, q)
    /\ AlwaysLong(p) = AlwaysLong(q)
    /\ EnsembleTuned(par, s, i, p) = EnsembleTuned(par, s, i, q)
<1>1. OuScore(par, s, i, p) = OuScore(par, s, i, q)
  BY DEF OuScore
<1>2. SqueezeBreakout(par, s, i, p) = SqueezeBreakout(par, s, i, q)
  BY DEF SqueezeBreakout
<1>3. PureIchimoku(par, s, i, p) = PureIchimoku(par, s, i, q)
  BY DEF PureIchimoku
<1>4. IchimokuFull(par, s, i, p) = IchimokuFull(par, s, i, q)
  BY DEF IchimokuFull
<1>5. VrSwitch(par, s, i, p) = VrSwitch(par, s, i, q)
  BY DEF VrSwitch
<1>6. FracDiff(par, s, i, p) = FracDiff(par, s, i, q)
  BY DEF FracDiff
<1>7. EnsembleVote(par, s, i, p) = EnsembleVote(par, s, i, q)
  BY DEF EnsembleVote
<1>8. EnsembleRule(par, s, i, p) = EnsembleRule(par, s, i, q)
  BY DEF EnsembleRule
<1>9. CalendarRule(par, s, i, p) = CalendarRule(par, s, i, q)
  BY DEF CalendarRule
<1>10. AlwaysLong(p) = AlwaysLong(q)
  BY DEF AlwaysLong
<1>11. EnsembleTuned(par, s, i, p) = EnsembleTuned(par, s, i, q)
  BY DEF EnsembleTuned, EnsembleVote
<1> QED BY <1>1, <1>2, <1>3, <1>4, <1>5, <1>6, <1>7, <1>8, <1>9, <1>10, <1>11

LEMMA FamilyAsksOnly ==
    ASSUME NEW family \in AsksOnlyWhetherIn, NEW par, NEW s, NEW i, NEW p, NEW q, p.in = q.in
    PROVE  PureSignal(family, par, s, i, p) = PureSignal(family, par, s, i, q)
<1>1. CASE family \in {"tsmom", "sma_cross", "faber_ma", "kama_trend", "ehlers_trend", "macd_norm"}
  BY <1>1, RulesAskOnly DEF PureSignal
<1>2. CASE family \in {"ou_score", "squeeze_breakout", "pure_ichimoku", "ichimoku_full"}
  BY <1>2, RulesAskOnly DEF PureSignal
<1>3. CASE family \in {"vol_managed", "lppls_bubble", "factor_trend", "ensemble_ls", "emergent"}
  BY <1>3, RulesAskOnly DEF PureSignal
<1>4. CASE family \in {"vr_switch", "fracdiff", "calendar_rule", "control_always_long"}
  BY <1>4, RulesAskOnly DEF PureSignal
<1>5. CASE family \in {"ensemble_vote", "ensemble_rule", "ensemble_tuned"}
  BY <1>5, RulesAskOnly DEF PureSignal
<1> QED BY <1>1, <1>2, <1>3, <1>4, <1>5 DEF AsksOnlyWhetherIn

(* Twenty-two families of the registry, whatever their parameters and      *)
(* whatever gate is in front of them, ask of their position only whether   *)
(* there is one: what they say is the same at any entry, price and extreme.*)
THEOREM FamiliesAskOnly == TheFamiliesPlay => AskersAskOnly
<1> SUFFICES ASSUME TheFamiliesPlay, NEW u \in Setups, u.family \in AsksOnlyWhetherIn,
                    NEW s, NEW i, NEW p, NEW q, NEW h, NEW g, p.in = q.in
             PROVE  OnBar(u, s, i, p, h).signal = OnBar(u, s, i, q, g).signal
  BY DEF AskersAskOnly
<1>1. u.family \notin Remembering
  BY DEF AsksOnlyWhetherIn, Remembering
<1>2. PICK said : /\ said = PureSignal(u.family, u.p, s, i, p)
                  /\ said = PureSignal(u.family, u.p, s, i, q)
  BY FamilyAsksOnly
<1>3. ASSUME NEW pos, NEW was, said = PureSignal(u.family, u.p, s, i, pos)
      PROVE  OnBar(u, s, i, pos, was).signal = Behind(u.gate, u.g, s, i, said)
  <2>1. OnBar(u, s, i, pos, was) =
            [Says(said, was) EXCEPT !.signal = Behind(u.gate, u.g, s, i, Says(said, was).signal)]
    BY <1>1, <1>3 DEF TheFamiliesPlay, OnBarOfFamily
  <2> QED BY <2>1 DEF Says
<1> QED BY <1>2, <1>3

(* Of the program's own families it is proved, and not asked, that none of *)
(* them looks ahead: what a setup says of a bar of any store, it says of   *)
(* the store that ends there.                                              *)

SetupsAreWellFormed == \A u \in Setups : WellFormed(u)
FamiliesArePrepared == \A family : Prepared(family) = PreparedFamily(family)

\* A store, cut off at a bar, is a store, and as far as it goes the same one.
LEMMA PrefixAlike ==
    ASSUME NEW s, IsStore(s), InOrder(s), NEW i \in 1..Len(s.close)
    PROVE  /\ IsStore(Prefix(s, i)) /\ Len(Prefix(s, i).close) = i
           /\ InOrder(Prefix(s, i)) /\ SameBars(Prefix(s, i), s, i)
<1>1. PICK n \in Nat : n = Len(s.close) /\ i \in 1..n
  BY StoreLength
<1>2. PICK t : t = Prefix(s, i)
  OBVIOUS
<1>3. ASSUME NEW c \in Columns
      PROVE  /\ t[c] \in Seq(Int) /\ Len(t[c]) = i /\ Len(s[c]) = n
             /\ \A k \in 1..i : t[c][k] = s[c][k]
  <2>1. PICK v \in Seq(Int) : v = s[c] /\ Len(v) = n
    BY <1>1 DEF IsStore
  <2>2. t[c] = SubSeq(v, 1, i)
    BY <1>2, <2>1 DEF Prefix
  <2>3. i \in 0..Len(v)
    BY <1>1, <2>1
  <2>4. /\ SubSeq(v, 1, i) \in Seq(Int) /\ Len(SubSeq(v, 1, i)) = i
        /\ \A k \in 1..i : SubSeq(v, 1, i)[k] = v[k]
    BY <2>1, <2>3, PrefixIs
  <2> QED BY <2>1, <2>2, <2>4
<1>4. "close" \in Columns /\ "timestamp" \in Columns
  BY DEF Columns
<1>5. Len(t.close) = i /\ \A k \in 1..i : t.timestamp[k] = s.timestamp[k]
  BY <1>3, <1>4
<1>6. t = [c \in Columns |-> t[c]] /\ s = [c \in Columns |-> s[c]]
  BY <1>2 DEF Prefix, IsStore
<1>7. IsStore(t)
  BY <1>3, <1>5, <1>6 DEF IsStore
<1>8. InOrder(t)
  BY <1>1, <1>5 DEF InOrder
<1>9. \A c \in Columns : Same(t[c], s[c], i)
  BY <1>1, <1>3 DEF Same
<1>10. SameBars(t, s, i)
  BY <1>1, <1>3, <1>5, <1>6, <1>9 DEF SameBars
<1> QED BY <1>2, <1>5, <1>7, <1>8, <1>10

(* Every setup with parameters such as the code has is causal: the prefix  *)
(* property that causality_check.cpp samples, for every store in order.    *)
THEOREM FamiliesAreCausal == SetupsAreWellFormed /\ TheFamiliesPlay => StrategiesAreCausal
<1> SUFFICES ASSUME SetupsAreWellFormed, TheFamiliesPlay,
                    NEW u \in Setups, u.family \notin Remembering,
                    NEW s, IsStore(s), InOrder(s), NEW i \in 1..Len(s.close),
                    NEW pos \in Positions, Held(pos, i), NEW h, NEW g
             PROVE  OnBar(u, Prefix(s, i), i, pos, h).signal = OnBar(u, s, i, pos, g).signal
  BY DEF StrategiesAreCausal, Causal
<1>1. PICK t : t = Prefix(s, i)
  OBVIOUS
<1>2. InOrder(t) /\ SameBars(t, s, i)
  BY <1>1, PrefixAlike
<1>3. i \in Nat \ {0} /\ (pos.in => pos.index \in 1..i)
  BY StoreLength DEF Held
<1>4. AskedAlike(t, s, i, pos)
  BY <1>2, <1>3 DEF AskedAlike
<1>5. WellFormed(u)
  BY DEF SetupsAreWellFormed
<1>6. PICK said : said = OnBarOfFamily(u, t, i, pos, h) /\ said = OnBarOfFamily(u, s, i, pos, h)
  BY <1>4, <1>5, NoFamilyLooksAhead
<1>7. \A was : OnBarOfFamily(u, s, i, pos, was).signal
                   = Behind(u.gate, u.g, s, i, PureSignal(u.family, u.p, s, i, pos))
  BY DEF OnBarOfFamily, Says
<1> QED BY <1>1, <1>6, <1>7 DEF TheFamiliesPlay

(* However the bars reach it, a bot that trades any of them by itself ends *)
(* where one pass over them ends.                                          *)
THEOREM FamiliesReplayOnePass ==
    SetupsAreWellFormed /\ TheFamiliesPlay /\ ReplaySpec => []LiveIsReplay
BY FamiliesAreCausal, PollsAreOnePass

(* And is then in a trade exactly when the engine is in one or has ordered *)
(* it: of these families nothing is left to assume.                        *)
THEOREM EnginePredictsTheFamilies ==
    SetupsAreWellFormed /\ TheFamiliesPlay /\ ReplaySpec => []BacktestPredictsLive
BY FamiliesAreCausal, FamiliesAskOnly, EnginePredictsBot

-----------------------------------------------------------------------------
(* The store, whatever a bot makes of it: a bar every period, in order,    *)
(* through every close and through a repair.                               *)

\* The time of a bar before the first of the store.
Base == IF repaired THEN 8 ELSE 9
Dates == \A i \in 1..Len(series.close) : series.timestamp[i] = Base + i
Stored == IsStore(series) /\ Dates /\ (repaired => Len(series.close) >= 1)
StoreInv == setup \in Setups /\ Stored

LEMMA StoredInOrder ==
    ASSUME Stored
    PROVE  InOrder(series)
<1>1. PICK base \in Int : base = Base
  BY DEF Base
<1>2. Len(series.close) \in Nat /\ \A i \in 1..Len(series.close) : series.timestamp[i] = base + i
  BY <1>1, StoreLength DEF Stored, Dates
<1> QED BY <1>2, DatesInOrder

LEMMA StoreInvInit == ReplayInit => StoreInv
<1> SUFFICES ASSUME ReplayInit PROVE StoreInv
  OBVIOUS
<1>1. series = [c \in Columns |-> <<>>] /\ setup \in Setups /\ ~repaired
  BY DEF ReplayInit, NoBars
<1>2. \A c \in Columns : series[c] = <<>>
  BY <1>1
<1>3. series.close = <<>> /\ Len(series.close) = 0
  BY <1>2 DEF Columns
<1>4. IsStore(series)
  BY <1>1, <1>2, <1>3 DEF IsStore
<1> QED BY <1>1, <1>3, <1>4 DEF StoreInv, Stored, Dates

LEMMA EarlierIs ==
    ASSUME NEW s, IsStore(s), NEW b \in Candle, NEW ts \in Int
    PROVE  LET t == Earlier(s, Dated(b, ts))
           IN  /\ IsStore(t) /\ Len(t.close) = Len(s.close) + 1
               /\ t.timestamp[1] = ts
               /\ \A i \in 1..Len(s.close) : t.timestamp[i + 1] = s.timestamp[i]
<1>1. PICK n \in Nat : n = Len(s.close)
  BY StoreLength
<1>2. PICK t : t = Earlier(s, Dated(b, ts))
  OBVIOUS
<1>3. PICK d : d = Dated(b, ts)
  OBVIOUS
<1>4. \A c \in Columns : d[c] \in Int
  <2>1. \A c \in Columns : d[c] = IF c = "timestamp" THEN ts ELSE b[c]
    BY <1>3 DEF Dated
  <2>2. \A c \in Columns : c # "timestamp" => b[c] \in Int
    BY DEF Columns, Candle
  <2> QED BY <2>1, <2>2
<1>5. t = [c \in Columns |-> <<d[c]>> \o s[c]]
  BY <1>2, <1>3 DEF Earlier
<1>6. ASSUME NEW c \in Columns
      PROVE  /\ t[c] \in Seq(Int) /\ Len(t[c]) = n + 1 /\ t[c][1] = d[c]
             /\ \A i \in 1..n : t[c][i + 1] = s[c][i]
  <2>1. PICK v \in Seq(Int) : v = s[c] /\ Len(v) = n
    BY <1>1 DEF IsStore
  <2>2. PICK x \in Int : x = d[c]
    BY <1>4
  <2>3. t[c] = <<x>> \o v
    BY <1>5, <2>1, <2>2
  <2>4. <<x>> \in Seq(Int) /\ Len(<<x>>) = 1 /\ <<x>>[1] = x
    OBVIOUS
  <2>5. /\ <<x>> \o v \in Seq(Int) /\ Len(<<x>> \o v) = n + 1 /\ (<<x>> \o v)[1] = x
        /\ \A i \in 1..n : (<<x>> \o v)[i + 1] = v[i]
    BY <2>1, <2>4
  <2> QED BY <2>1, <2>2, <2>3, <2>5
<1>7. {"close", "timestamp"} \subseteq Columns
  BY DEF Columns
<1>8. Len(t.close) = n + 1
  BY <1>6, <1>7
<1>9. t = [c \in Columns |-> t[c]]
  BY <1>5
<1>10. IsStore(t)
  BY <1>6, <1>8, <1>9 DEF IsStore
<1>11. t.timestamp[1] = ts /\ \A i \in 1..n : t.timestamp[i + 1] = s.timestamp[i]
  <2>1. d["timestamp"] = ts
    BY <1>3, <1>7 DEF Dated
  <2> QED BY <1>6, <1>7, <2>1
<1> QED BY <1>1, <1>2, <1>8, <1>10, <1>11

\* A bar that closes comes a period after the last.
LEMMA BarIsStored ==
    ASSUME Stored, setup \in Setups, BarCloses
    PROVE  /\ Stored' /\ Len(series'.close) = Len(series.close) + 1
           /\ live' = live /\ setup' = setup /\ repaired' = repaired
<1>1. PICK n \in Nat : n = Len(series.close)
  BY StoreLength DEF Stored
<1>2. PICK x \in {8, 9} : x = Base
  BY DEF Base
<1> DEFINE j == Len(series.close) - (IF repaired THEN 1 ELSE 0) + 1
<1>3. 9 + j = x + (n + 1) /\ j \in Int /\ j >= 1
  <2>1. CASE repaired
    <3>1. x = 8 /\ n >= 1
      BY <1>1, <1>2, <2>1 DEF Base, Stored
    <3>2. j = n - 1 + 1
      BY <1>1, <2>1
    <3> HIDE DEF j
    <3> QED BY <3>1, <3>2
  <2>2. CASE ~repaired
    <3>1. x = 9
      BY <1>2, <2>2 DEF Base
    <3>2. j = n - 0 + 1
      BY <1>1, <2>2
    <3> HIDE DEF j
    <3> QED BY <3>1, <3>2
  <2> QED BY <2>1, <2>2
<1>4. j \in DOMAIN setup.tape
  <2>1. Len(setup.tape) \in Nat /\ DOMAIN setup.tape = 1..Len(setup.tape)
    BY SetupsAssumption
  <2>2. j <= Len(setup.tape)
    BY DEF BarCloses
  <2> HIDE DEF j
  <2> QED BY <1>3, <2>1, <2>2
<1>5. PICK b : b \in setup.tape[j] /\ series' = Longer(series, Dated(b, 9 + j))
  BY DEF BarCloses
<1> HIDE DEF j
<1>6. b \in Candle
  BY <1>4, <1>5, SetupsAssumption
<1>7. PICK t : t = Longer(series, Dated(b, x + (n + 1)))
  OBVIOUS
<1>8. /\ IsStore(t) /\ Len(t.close) = n + 1
      /\ t.timestamp[n + 1] = x + (n + 1)
      /\ \A i \in 1..n : t.timestamp[i] = series.timestamp[i]
  <2>1. x + (n + 1) \in Int /\ IsStore(series)
    BY DEF Stored
  <2> QED BY <1>1, <1>6, <1>7, <2>1, LongerIs
<1>9. \A i \in 1..Len(t.close) : t.timestamp[i] = x + i
  BY <1>1, <1>2, <1>8 DEF Stored, Dates
<1>10. live' = live /\ setup' = setup /\ repaired' = repaired /\ series' = t
  BY <1>3, <1>5, <1>7 DEF BarCloses
<1>11. Base' = x
  BY <1>2, <1>10 DEF Base
<1>12. Dates'
  BY <1>9, <1>10, <1>11 DEF Dates
<1>13. Len(t.close) >= 1
  BY <1>8
<1> QED BY <1>1, <1>8, <1>10, <1>12, <1>13 DEF Stored

\* Every bar has one more before it, and keeps its time.
LEMMA OlderIsStored ==
    ASSUME Stored, setup \in Setups, Repaired
    PROVE  /\ Stored' /\ Len(series'.close) = Len(series.close) + 1 /\ Len(series.close) >= 1
           /\ live' = live /\ setup' = setup /\ ~repaired /\ repaired'
<1>1. PICK n \in Nat : n = Len(series.close) /\ n >= 1
  BY StoreLength DEF Stored, Repaired
<1>2. PICK b : b \in setup.older /\ series' = Earlier(series, Dated(b, 9))
  BY DEF Repaired
<1>3. b \in Candle
  BY <1>2, SetupsAssumption
<1>4. PICK t : t = Earlier(series, Dated(b, 9))
  OBVIOUS
<1>5. /\ IsStore(t) /\ Len(t.close) = n + 1 /\ t.timestamp[1] = 9
      /\ \A i \in 1..n : t.timestamp[i + 1] = series.timestamp[i]
  <2>1. 9 \in Int /\ IsStore(series)
    BY DEF Stored
  <2> QED BY <1>1, <1>3, <1>4, <2>1, EarlierIs
<1>6. /\ Base = 9 /\ Base' = 8 /\ live' = live /\ setup' = setup /\ series' = t
      /\ ~repaired /\ repaired'
  BY <1>2, <1>4 DEF Repaired, Base
<1>7. \A i \in 1..(n + 1) : t.timestamp[i] = 8 + i
  <2> SUFFICES ASSUME NEW i \in 1..(n + 1) PROVE t.timestamp[i] = 8 + i
    OBVIOUS
  <2>1. CASE i = 1
    BY <1>5, <2>1
  <2>2. CASE i # 1
    <3>1. i - 1 \in 1..n /\ (i - 1) + 1 = i
      BY <2>2
    <3>2. t.timestamp[(i - 1) + 1] = 9 + (i - 1)
      BY <1>1, <1>5, <1>6, <3>1 DEF Stored, Dates
    <3> QED BY <3>1, <3>2
  <2> QED BY <2>1, <2>2
<1>8. Dates'
  BY <1>1, <1>5, <1>6, <1>7 DEF Dates
<1>9. Len(t.close) >= 1
  BY <1>1, <1>5
<1> QED BY <1>1, <1>5, <1>6, <1>8, <1>9 DEF Stored

LEMMA StoreInvStep == StoreInv /\ [ReplayNext]_replayVars => StoreInv'
<1> SUFFICES ASSUME StoreInv, [ReplayNext]_replayVars PROVE StoreInv'
  OBVIOUS
<1>1. CASE BarCloses
  <2>1. Stored' /\ setup' = setup
    BY <1>1, BarIsStored DEF StoreInv
  <2> QED BY <2>1 DEF StoreInv
<1>2. CASE Repaired
  <2>1. Stored' /\ setup' = setup
    BY <1>2, OlderIsStored DEF StoreInv
  <2> QED BY <2>1 DEF StoreInv
<1>3. CASE Polled
  <2>1. UNCHANGED <<setup, series, repaired>>
    BY <1>3 DEF Polled
  <2> QED BY SMTT(30), <2>1 DEF StoreInv, Stored, Dates, Base
<1>4. CASE UNCHANGED replayVars
  BY <1>4 DEF replayVars, StoreInv, Stored, Dates, Base
<1> QED BY <1>1, <1>2, <1>3, <1>4 DEF ReplayNext

-----------------------------------------------------------------------------
(* A horizon, kept by the clock.  What is saved of an entry is its time;   *)
(* a repair moves the index of every bar, and of the entry's with them.    *)
(* HorizonKept is about two polls; what carries it from one to the next is *)
(* that a bot is never left in a trade whose time is up.                   *)

HorizonsAreNumbers ==
    \A u \in Setups : u.gate \in GateNames /\ (u.family \in Horizons => u.p.holdBars \in Int)

Term(u) == Larger(1, u.p.holdBars)

LEMMA HolderSays ==
    ASSUME TheFamiliesPlay, HorizonsAreNumbers, NEW u \in Setups, u.family \in Horizons,
           NEW s, NEW i, NEW pos, pos.in, NEW h
    PROVE  OnBar(u, s, i, pos, h).signal = IF i >= pos.index + Term(u) THEN "Sell" ELSE "Hold"
<1>1. u.family \notin Remembering
  BY DEF Horizons, Remembering
<1>2. PICK held \in BOOLEAN : held = HeldFor(i, pos, u.p.holdBars)
  <2>1. HeldFor(i, pos, u.p.holdBars) \in BOOLEAN
    BY DEF HeldFor
  <2> QED BY <2>1, Zenon
<1>3. PureSignal(u.family, u.p, s, i, pos) = Leave(held)
  <2>1. CASE u.family = "dip_reversion"
    BY ZenonT(40), <1>2, <2>1 DEF PureSignal, DipReversion
  <2>2. CASE u.family = "control_random"
    BY <1>2, <2>2 DEF PureSignal, RandomEntry
  <2>3. u.family = "dip_reversion" \/ u.family = "control_random"
    BY DEF Horizons
  <2> QED BY <2>1, <2>2, <2>3, Zenon
<1>4. PICK said \in {"Sell", "Hold"} : /\ said = PureSignal(u.family, u.p, s, i, pos)
                                       /\ said = IF held THEN "Sell" ELSE "Hold"
  <2>1. Leave(held) = IF held THEN "Sell" ELSE "Hold"
    BY DEF Leave, Choice
  <2> QED BY <1>3, <2>1
<1>5. Behind(u.gate, u.g, s, i, said) = said
  <2>1. u.gate \in GateNames
    BY DEF HorizonsAreNumbers
  <2>2. \A x, passes : Gated(said, x, passes) = said
    BY <1>4 DEF Gated
  <2>3. CASE u.gate = "none"
    BY <2>3 DEF Behind
  <2>4. CASE u.gate = "hurst"
    BY <2>2, <2>4 DEF Behind, HurstRegimeFilter
  <2>5. CASE u.gate = "pe"
    BY <2>2, <2>5 DEF Behind, PermutationEntropyGate
  <2>6. CASE u.gate = "hawkes"
    BY <2>2, <2>6 DEF Behind, HawkesIntensityGate
  <2>7. CASE u.gate = "vr"
    BY <2>2, <2>7 DEF Behind, VarianceRatioGate
  <2> QED BY <2>1, <2>3, <2>4, <2>5, <2>6, <2>7 DEF GateNames
<1>6. OnBar(u, s, i, pos, h) =
          [Says(said, h) EXCEPT !.signal = Behind(u.gate, u.g, s, i, Says(said, h).signal)]
  BY <1>1, <1>4 DEF TheFamiliesPlay, OnBarOfFamily
<1>7. OnBar(u, s, i, pos, h).signal = said
  BY <1>5, <1>6 DEF Says
<1> QED BY <1>2, <1>4, <1>7 DEF HeldFor, Term

\* After bar i: no trade is past its term, and the trade of bar e, if that is
\* the one, is exactly as old as its term allows.
OnTerm(u, pos, i, e) ==
    /\ Held(pos, i)
    /\ pos.in => i < pos.index + Term(u)
    /\ pos.in /\ pos.index = e <=> i < e + Term(u)

LEMMA OnTermStep ==
    ASSUME TheFamiliesPlay, HorizonsAreNumbers, NEW u \in Setups, u.family \in Horizons,
           NEW s, IsStore(s), NEW i \in 1..Len(s.close), NEW e \in Int, e < i,
           NEW w, OnTerm(u, w.pos, i - 1, e)
    PROVE  OnTerm(u, Step(u, s, i, w).pos, i, e)
<1> DEFINE pos == Observed(w.pos, s.close[i])
           said == OnBar(u, s, i, pos, w.hidden).signal
<1>1. PICK n \in Nat : n = Len(s.close)
  BY StoreLength
<1>2. s.close[i] \in Int
  <2>1. s["close"] \in Seq(Int)
    BY DEF IsStore, Columns
  <2> QED BY <2>1
<1>3. PICK t \in Nat \ {0} : t = Term(u)
  BY DEF HorizonsAreNumbers, Term, Larger
<1>4. i \in Nat /\ i # 0 /\ w.pos \in Positions /\ (w.pos.in => w.pos.index \in 1..(i - 1))
  BY <1>1 DEF OnTerm, Held
<1>5. Held(w.pos, i)
  BY <1>4 DEF Held
<1>6. /\ Held(pos, i) /\ pos.in = w.pos.in
      /\ pos.in => pos.index = w.pos.index
  <2>1. Held(pos, i) /\ pos.in = w.pos.in
    BY <1>2, <1>4, <1>5, ObservedKeepsPosition
  <2>2. pos.index = w.pos.index
    BY <1>4 DEF Observed, Positions
  <2> QED BY <2>1, <2>2
<1>7. Step(u, s, i, w).pos = Filled(pos, said, s.close[i], i)
  BY DEF Step, pos
<1> HIDE DEF pos
<1>8. pos.in => said = IF i >= pos.index + t THEN "Sell" ELSE "Hold"
  BY <1>3, HolderSays
<1> HIDE DEF said
<1>9. PICK next : next = Step(u, s, i, w).pos
  OBVIOUS
<1>10. Held(next, i)
  BY <1>2, <1>4, <1>6, <1>7, <1>9, FillKeepsPosition DEF Held
<1>11. CASE pos.in
  <2>1. PICK x \in 1..(i - 1) : x = pos.index /\ x = w.pos.index /\ w.pos.in
    BY <1>4, <1>6, <1>11
  <2>2. (x = e) <=> (i - 1 < e + t)
    BY <1>3, <2>1 DEF OnTerm
  <2>3. CASE i >= x + t
    <3>1. next = Flat
      BY <1>7, <1>8, <1>9, <1>11, <2>1, <2>3 DEF Filled
    <3>2. ~next.in
      BY <3>1 DEF Flat
    <3>3. ~(i < e + t)
      BY <1>4, <2>1, <2>2, <2>3
    <3> QED BY <1>3, <1>9, <1>10, <3>2, <3>3 DEF OnTerm
  <2>4. CASE ~(i >= x + t)
    <3>1. said = "Hold"
      BY <1>8, <1>11, <2>1, <2>4
    <3>2. next = pos
      BY <1>7, <1>9, <3>1 DEF Filled
    <3>3. next.in /\ next.index = x
      BY <1>11, <2>1, <3>2
    <3>4. i < x + t /\ (x = e <=> i < e + t)
      BY <1>4, <2>1, <2>2, <2>4
    <3> QED BY <1>3, <1>9, <1>10, <3>3, <3>4 DEF OnTerm
  <2> QED BY <2>3, <2>4
<1>12. CASE ~pos.in
  <2>1. ~(i - 1 < e + t)
    BY <1>3, <1>6, <1>12 DEF OnTerm
  <2>2. ~(i < e + t)
    BY <1>4, <2>1
  <2>3. next.in => next.index = i
    <3>1. CASE said = "Buy"
      <4>1. next = Opened(s.close[i], i)
        BY <1>7, <1>9, <1>12, <3>1 DEF Filled
      <4> QED BY <4>1 DEF Opened
    <3>2. CASE said # "Buy"
      <4>1. next = pos
        BY <1>7, <1>9, <1>12, <3>2 DEF Filled
      <4> QED BY <1>12, <4>1
    <3> QED BY <3>1, <3>2
  <2>4. i < i + t /\ i # e
    BY <1>4
  <2> QED BY <1>3, <1>9, <1>10, <2>2, <2>3, <2>4 DEF OnTerm
<1> QED BY <1>11, <1>12

TimelyAt(k) ==
    /\ live.done = (IF k = 0 THEN 0 ELSE Base + k)
    /\ live.pos \in Positions
    /\ live.pos.in => \E e \in 1..k : live.entered = Base + e /\ k < e + Term(setup)
Timely ==
    /\ Stored
    /\ \E k \in 0..Len(series.close) : TimelyAt(k)
TimelyInv == setup \in Setups /\ (setup.family \in Horizons => Timely)

LEMMA TimelyInvInit == ReplayInit => TimelyInv
<1> SUFFICES ASSUME ReplayInit PROVE TimelyInv
  OBVIOUS
<1>1. series = [c \in Columns |-> <<>>] /\ live = [pos |-> Flat, entered |-> 0, done |-> 0]
      /\ setup \in Setups
  BY DEF ReplayInit, NoBars
<1>2. \A c \in Columns : series[c] = <<>>
  BY <1>1
<1>3. series.close = <<>> /\ Len(series.close) = 0
  BY <1>2 DEF Columns
<1>4. IsStore(series)
  BY <1>1, <1>2, <1>3 DEF IsStore
<1>5. TimelyAt(0)
  BY <1>1 DEF TimelyAt, Flat, Positions
<1>6. ~repaired
  BY DEF ReplayInit
<1> QED BY <1>1, <1>3, <1>4, <1>5, <1>6 DEF TimelyInv, Timely, Stored, Dates

LEMMA BarClosesTimely ==
    ASSUME Timely, setup \in Setups, BarCloses
    PROVE  Timely'
<1>1. PICK n \in Nat : n = Len(series.close)
  BY StoreLength DEF Timely, Stored
<1>2. PICK k \in 0..n : TimelyAt(k)
  BY <1>1 DEF Timely
<1>3. /\ Stored' /\ Len(series'.close) = n + 1
      /\ live' = live /\ setup' = setup /\ repaired' = repaired
  BY <1>1, BarIsStored DEF Timely
<1>4. Base' = Base /\ Term(setup)' = Term(setup)
  BY <1>3 DEF Base, Term
<1>5. TimelyAt(k)'
  BY <1>2, <1>3, <1>4 DEF TimelyAt
<1>6. k \in 0..(n + 1)
  OBVIOUS
<1> QED BY <1>3, <1>5, <1>6 DEF Timely

\* Every bar has one more before it, and keeps its time.
LEMMA RepairedTimely ==
    ASSUME HorizonsAreNumbers, Timely, setup \in Setups, setup.family \in Horizons, Repaired
    PROVE  Timely'
<1>1. PICK n \in Nat : n = Len(series.close)
  BY StoreLength DEF Timely, Stored
<1>6. /\ Stored' /\ Len(series'.close) = n + 1
      /\ live' = live /\ setup' = setup /\ ~repaired /\ repaired'
  BY <1>1, OlderIsStored DEF Timely
<1>7. Base = 9 /\ Base' = 8
  BY <1>6 DEF Base
<1>8. PICK k \in 0..n : TimelyAt(k)
  BY <1>1 DEF Timely
<1>0. PICK term \in Nat \ {0} : term = Term(setup) /\ term = Term(setup)'
  <2>1. Term(setup) \in Nat \ {0}
    BY DEF HorizonsAreNumbers, Term, Larger
  <2>2. Term(setup)' = Term(setup)
    BY <1>6 DEF Term
  <2> QED BY <2>1, <2>2
<1>9. live.pos.in => \E e \in 1..(k + 1) : live.entered = 8 + e /\ k + 1 < e + term
  <2> SUFFICES ASSUME live.pos.in
               PROVE  \E e \in 1..(k + 1) : live.entered = 8 + e /\ k + 1 < e + term
    OBVIOUS
  <2>1. PICK e \in 1..k : live.entered = 9 + e /\ k < e + term
    BY <1>0, <1>7, <1>8 DEF TimelyAt
  <2>2. e + 1 \in 1..(k + 1) /\ live.entered = 8 + (e + 1) /\ k + 1 < (e + 1) + term
    BY <2>1
  <2> QED BY <2>2
<1>10. \E m \in 0..(n + 1) : TimelyAt(m)'
  <2>1. CASE k = 0
    <3>1. ~live.pos.in /\ live.done = 0 /\ live.pos \in Positions
      BY <1>8, <2>1 DEF TimelyAt
    <3>2. TimelyAt(0)'
      BY <1>6, <3>1 DEF TimelyAt
    <3> QED BY <1>1, <3>2
  <2>2. CASE k # 0
    <3>1. live.done = 9 + k /\ live.pos \in Positions
      BY <1>7, <1>8, <2>2 DEF TimelyAt
    <3>2. live.done = 8 + (k + 1) /\ k + 1 # 0 /\ k + 1 \in 0..(n + 1)
      BY <1>1, <3>1
    <3>3. TimelyAt(k + 1)'
      BY <1>0, <1>6, <1>7, <1>9, <3>1, <3>2 DEF TimelyAt
    <3> QED BY <3>2, <3>3
  <2> QED BY <2>1, <2>2
<1> QED BY <1>6, <1>10 DEF Timely

KeptByPoll ==
    live.pos.in => (live'.pos.in /\ live'.entered = live.entered
                        <=> live'.done < live.entered + Term(setup))

LEMMA PolledTimely ==
    ASSUME TheFamiliesPlay, HorizonsAreNumbers, Timely,
           setup \in Setups, setup.family \in Horizons, Polled
    PROVE  Timely' /\ KeptByPoll
<1>1. PICK n \in Nat : n = Len(series.close)
  BY StoreLength DEF Timely, Stored
<1>2. PICK d \in {8, 9} : d = Base
  BY DEF Base
<1>3. PICK k \in 0..n : TimelyAt(k)
  BY <1>1 DEF Timely, Stored
<1>4. PICK u \in Setups : u = setup /\ u.family \in Horizons
  OBVIOUS
<1>5. PICK term \in Nat \ {0} : term = Term(u)
  BY <1>4 DEF HorizonsAreNumbers, Term, Larger
<1>6. \A i \in 1..n : series.timestamp[i] = d + i
  BY <1>1, <1>2 DEF Timely, Stored, Dates
<1>7. IsStore(series)
  BY DEF Timely, Stored
<1>8. Len(series.timestamp) = n
  BY <1>1, <1>7 DEF IsStore, Columns
<1> DEFINE last == IF MaxBarsPerCycle > 0 THEN Smaller(n, NextBar + MaxBarsPerCycle - 1) ELSE n
           held == IF live.pos.in THEN [live.pos EXCEPT !.index = IndexOfEntry(live, series)]
                   ELSE live.pos
           loop == Looped(setup, series, NextBar, last, FreshFrom(setup, held))
           after == loop[last].pos
<1>9. Ahead = (k + 1)..n
  <2>1. \A i \in 1..n : d + i > (IF k = 0 THEN 0 ELSE d + k) <=> i \in (k + 1)..n
    OBVIOUS
  <2>2. live.done = IF k = 0 THEN 0 ELSE d + k
    BY <1>2, <1>3 DEF TimelyAt
  <2>3. Ahead = {i \in 1..n : d + i > (IF k = 0 THEN 0 ELSE d + k)}
    BY <1>6, <1>8, <2>2 DEF Ahead, Bars
  <2>4. (k + 1)..n \subseteq 1..n
    OBVIOUS
  <2> QED BY <2>1, <2>3, <2>4
<1>10. NextBar = k + 1 /\ k + 1 <= n /\ k \in Nat
  <2>1. Ahead # {}
    BY DEF Polled
  <2>2. k + 1 \in Ahead /\ Ahead \in SUBSET Int /\ \A y \in Ahead : k + 1 <= y
    BY <1>9, <2>1
  <2>3. Lowest(Ahead) = k + 1
    BY <2>2, LowestIs
  <2>4. k + 1 <= n /\ k \in Nat
    BY <1>9, <2>2
  <2> QED BY SMTT(30), <2>3, <2>4 DEF NextBar
<1>11. last \in (k + 1)..n
  BY <1>10, ReplayAssumption DEF Smaller
<1>12. PICK e \in Int : /\ e < k + 1 /\ OnTerm(u, held, k, e)
                        /\ live.pos.in => live.entered = d + e
  <2>1. CASE live.pos.in
    <3>1. PICK e \in 1..k : live.entered = d + e /\ k < e + term
      BY <1>2, <1>3, <1>4, <1>5, <2>1 DEF TimelyAt
    <3>2. StoredAt(series, live.entered) = {i \in 1..n : d + i >= d + e}
      BY <1>6, <1>8, <3>1 DEF StoredAt, Bars
    <3>3. PICK S : S = StoredAt(series, live.entered)
      OBVIOUS
    <3>4. \A y : y \in S <=> y \in 1..n /\ d + y >= d + e
      BY <3>2, <3>3
    <3>5. S \in SUBSET Int /\ e \in S /\ \A y \in S : e <= y
      BY <3>1, <3>4
    <3>6. Lowest(S) = e
      BY <3>5, LowestIs
    <3>7. IndexOfEntry(live, series) = e
      BY <3>3, <3>5, <3>6 DEF IndexOfEntry
    <3>8. held = [live.pos EXCEPT !.index = e] /\ live.pos \in Positions
      BY <1>3, <2>1, <3>7 DEF TimelyAt
    <3> HIDE DEF held
    <3>9. held \in Positions /\ held.in /\ held.index = e
      BY <2>1, <3>1, <3>8 DEF Positions
    <3>10. OnTerm(u, held, k, e)
      BY <1>5, <3>1, <3>9 DEF OnTerm, Held
    <3> QED BY <3>1, <3>10
  <2>2. CASE ~live.pos.in
    <3>1. held = live.pos /\ held \in Positions
      BY <1>3, <2>2 DEF TimelyAt
    <3> HIDE DEF held
    <3>2. k - term \in Int /\ k - term < k + 1 /\ ~(k < (k - term) + term)
      OBVIOUS
    <3>3. OnTerm(u, held, k, k - term)
      BY SMTT(30), <1>5, <2>2, <3>1, <3>2 DEF OnTerm, Held
    <3> QED BY <2>2, <3>2, <3>3
  <2> QED BY <2>1, <2>2
<1>13. /\ live' = [pos |-> after, done |-> series.timestamp[last],
                   entered |-> IF after.in THEN series.timestamp[after.index] ELSE 0]
       /\ UNCHANGED <<setup, series, repaired>>
  BY <1>1 DEF Polled
<1> HIDE DEF last, held
<1>14. PICK m \in (k + 1)..n : m = last
  BY <1>11
<1>15. PICK f : f = loop
  OBVIOUS
<1>16. f[k].pos = held /\ \A i \in (k + 1)..m : f[i] = Step(u, series, i, f[i - 1])
  <2>1. f = Looped(u, series, k + 1, m, FreshFrom(setup, held))
    BY <1>4, <1>10, <1>14, <1>15
  <2>2. k + 1 \in Nat \ {0} /\ m \in Nat /\ (k + 1) - 1 <= m /\ (k + 1) - 1 = k
    BY <1>10, <1>14
  <2>3. f[(k + 1) - 1] = FreshFrom(setup, held)
        /\ \A i \in (k + 1)..m : f[i] = Step(u, series, i, f[i - 1])
    BY <2>1, <2>2, LoopIs
  <2> QED BY <2>2, <2>3 DEF FreshFrom
<1> DEFINE T == {i \in Nat : OnTerm(u, f[i].pos, i, e)}
<1>17. k \in T
  BY <1>10, <1>12, <1>16
<1>18. ASSUME NEW i \in (k + 1)..m, i - 1 \in T PROVE i \in T
  <2>1. i \in 1..Len(series.close) /\ i \in Nat /\ e < i
    BY <1>1, <1>10, <1>12, <1>14
  <2>2. OnTerm(u, f[i - 1].pos, i - 1, e)
    BY <1>18
  <2>3. OnTerm(u, Step(u, series, i, f[i - 1]).pos, i, e)
    BY <1>4, <1>7, <2>1, <2>2, OnTermStep
  <2>4. f[i] = Step(u, series, i, f[i - 1])
    BY <1>16
  <2> QED BY <2>1, <2>3, <2>4
<1>19. PICK p : p = f[m].pos
  OBVIOUS
<1>20. OnTerm(u, p, m, e)
  <2> HIDE DEF T
  <2>1. m \in Nat /\ m \in k..m
    BY <1>10, <1>14
  <2>2. \A i \in k..m : i \in T
    BY <1>10, <1>17, <1>18, <2>1, AllFrom
  <2>3. m \in T
    BY <2>1, <2>2
  <2> QED BY <1>19, <2>3 DEF T
<1> HIDE DEF T
<1>21. /\ p \in Positions /\ (p.in => p.index \in 1..m /\ m < p.index + term)
       /\ p.in /\ p.index = e <=> m < e + term
  BY <1>5, <1>20 DEF OnTerm, Held
<1>22. /\ live'.pos = p /\ live'.done = series.timestamp[m]
       /\ p.in => live'.entered = series.timestamp[p.index]
  BY <1>13, <1>14, <1>15, <1>19
<1>23. live'.done = d + m /\ m \in 1..n
  BY <1>6, <1>10, <1>14, <1>22
<1>24. p.in => live'.entered = d + p.index
  <2>1. p.in => p.index \in 1..n
    BY <1>10, <1>14, <1>21
  <2> QED BY <1>6, <1>22, <2>1
<1>25. series' = series /\ setup' = setup /\ repaired' = repaired
  BY <1>13
<1>26. Base' = d /\ Term(setup)' = term
  BY <1>2, <1>4, <1>5, <1>25 DEF Base, Term
<1>27. TimelyAt(m)'
  <2>1. p.in => \E x \in 1..m : live'.entered = d + x /\ m < x + term
    BY <1>21, <1>24
  <2>2. m # 0
    BY <1>23
  <2> QED BY <1>21, <1>22, <1>23, <1>26, <2>1, <2>2 DEF TimelyAt
<1>28. Timely'
  <2>1. IsStore(series)' /\ Dates' /\ (repaired => Len(series.close) >= 1)'
    BY <1>2, <1>25, <1>26 DEF Timely, Stored, Dates
  <2>2. m \in 0..Len(series.close)'
    BY <1>1, <1>23, <1>25
  <2> QED BY <1>27, <2>1, <2>2 DEF Timely, Stored
<1>29. KeptByPoll
  <2> SUFFICES ASSUME live.pos.in
               PROVE  p.in /\ live'.entered = live.entered <=> live'.done < live.entered + term
    BY <1>4, <1>5, <1>22 DEF KeptByPoll
  <2>1. live.entered = d + e
    BY <1>12
  <2>2. live'.done < live.entered + term <=> m < e + term
    BY <1>23, <2>1
  <2>3. CASE p.in
    <3>1. PICK x \in 1..m : x = p.index
      BY <1>21, <2>3
    <3>2. live'.entered = d + x /\ (x = e <=> m < e + term)
      BY <1>21, <1>24, <2>3, <3>1
    <3>3. live'.entered = live.entered <=> x = e
      BY <2>1, <3>2
    <3> QED BY <2>2, <2>3, <3>2, <3>3
  <2>4. CASE ~p.in
    BY <1>21, <2>2, <2>4
  <2> QED BY <2>3, <2>4
<1> QED BY <1>28, <1>29

LEMMA TimelyInvStep ==
    TheFamiliesPlay /\ HorizonsAreNumbers /\ TimelyInv /\ [ReplayNext]_replayVars =>
        /\ TimelyInv'
        /\ live' # live /\ setup.family \in Horizons => KeptByPoll
<1> SUFFICES ASSUME TheFamiliesPlay, HorizonsAreNumbers, TimelyInv, [ReplayNext]_replayVars
             PROVE  /\ TimelyInv'
                    /\ live' # live /\ setup.family \in Horizons => KeptByPoll
  OBVIOUS
<1>1. CASE BarCloses
  <2>1. setup' = setup /\ live' = live
    BY <1>1 DEF BarCloses
  <2> QED BY <1>1, <2>1, BarClosesTimely DEF TimelyInv
<1>2. CASE Repaired
  <2>1. setup' = setup /\ live' = live
    BY <1>2 DEF Repaired
  <2> QED BY <1>2, <2>1, RepairedTimely DEF TimelyInv
<1>3. CASE Polled
  <2>1. setup' = setup
    BY <1>3 DEF Polled
  <2> QED BY SMTT(30), <1>3, <2>1, PolledTimely DEF TimelyInv
<1>4. CASE UNCHANGED replayVars
  <2>1. setup' = setup /\ live' = live /\ series' = series /\ repaired' = repaired
    BY <1>4 DEF replayVars
  <2>2. TimelyInv'
    BY <2>1 DEF TimelyInv, Timely, Stored, Dates, TimelyAt, Base, Term
  <2> QED BY <2>1, <2>2
<1> QED BY <1>1, <1>2, <1>3, <1>4 DEF ReplayNext

(* For any horizon, tape, backlog and number of bars a poll takes, and     *)
(* wherever a repair comes between two polls: what a bot holds after a     *)
(* poll is the trade it held before if and only if that trade's term is    *)
(* not over, by the clock.  The families with a horizon are the program's  *)
(* own, behind any of its gates; nothing is assumed of the others.         *)
THEOREM TradesKeepTheirTerm == HorizonsAreNumbers /\ TheFamiliesPlay /\ ReplaySpec => HorizonKept
<1>1. CASE HorizonsAreNumbers /\ TheFamiliesPlay
  <2>1. TimelyInv /\ [ReplayNext]_replayVars =>
            [live.pos.in /\ setup.family \in Horizons =>
                (live'.pos.in /\ live'.entered = live.entered
                    <=> live'.done < live.entered + Larger(1, setup.p.holdBars))]_live
    BY <1>1, TimelyInvStep DEF KeptByPoll, Term
  <2>2. TimelyInv /\ [ReplayNext]_replayVars => TimelyInv'
    BY <1>1, TimelyInvStep
  <2> QED BY <2>1, <2>2, TimelyInvInit, PTL DEF ReplaySpec, HorizonKept
<1>2. CASE ~(HorizonsAreNumbers /\ TheFamiliesPlay)
  BY <1>2
<1> QED BY <1>1, <1>2

-----------------------------------------------------------------------------
(* Nothing is foreseen.  A family that remembers is asked along its own    *)
(* trades: the pass over a store that ends at a bar and the pass over all  *)
(* of it go through the same states, of the position and of the memory.    *)

Along(u, f, g, k) == f[k] = g[k] /\ Held(f[k].pos, k) /\ (u.family \in Remembering => Remembers(u.family, f[k].hidden))

\* A bar of both passes.
LEMMA StepSame ==
    ASSUME TheFamiliesPlay, NEW u, WellFormed(u), NEW s, NEW t, IsStore(s), InOrder(s), InOrder(t),
           NEW k \in Nat \ {0}, SameBars(t, s, k), NEW was, Held(was.pos, k),
           u.family \in Remembering => Remembers(u.family, was.hidden)
    PROVE  /\ Step(u, t, k, was) = Step(u, s, k, was)
           /\ Held(Step(u, s, k, was).pos, k)
           /\ u.family \in Remembering => Remembers(u.family, Step(u, s, k, was).hidden)
<1>1. k \in 1..k
  OBVIOUS
<1>2. k \in 1..Len(s.close) /\ t.close[k] = s.close[k]
  BY <1>1, SameBarAt
<1>3. PICK close \in Int : close = s.close[k] /\ close = t.close[k]
  <2>1. s["close"] \in Seq(Int)
    BY DEF IsStore, Columns
  <2> QED BY <1>2, <2>1
<1>4. PICK pos \in Positions : pos = Observed(was.pos, close) /\ Held(pos, k)
  BY ObservedKeepsPosition DEF Held
<1>5. AskedAlike(t, s, k, pos)
  BY <1>4 DEF AskedAlike, Held
<1>6. PICK said : /\ said = OnBarOfFamily(u, t, k, pos, was.hidden)
                  /\ said = OnBarOfFamily(u, s, k, pos, was.hidden)
                  /\ u.family \in Remembering => Remembers(u.family, said.hidden)
  BY <1>5, NoFamilyLooksAhead
<1>7. said = OnBar(u, t, k, pos, was.hidden) /\ said = OnBar(u, s, k, pos, was.hidden)
  BY <1>6 DEF TheFamiliesPlay
<1> DEFINE next == [pos |-> Filled(pos, said.signal, close, k), hidden |-> said.hidden]
<1>8. Step(u, s, k, was) = next
  BY <1>3, <1>4, <1>7 DEF Step
<1>9. Step(u, t, k, was) = next
  BY <1>3, <1>4, <1>7 DEF Step
<1>10. Held(next.pos, k)
  BY <1>4, FillKeepsPosition
<1>11. next.hidden = said.hidden
  OBVIOUS
<1> HIDE DEF next
<1> QED BY <1>6, <1>8, <1>9, <1>10, <1>11

LEMMA PassesAlike ==
    ASSUME TheFamiliesPlay, FamiliesArePrepared, NEW u, WellFormed(u),
           NEW s, IsStore(s), InOrder(s), NEW i \in 1..Len(s.close)
    PROVE  WholeReplay(u, Prefix(s, i))[i] = WholeReplay(u, s)[i]
<1>1. PICK n \in Nat : n = Len(s.close) /\ i \in 1..n
  BY StoreLength
<1>2. PICK t : t = Prefix(s, i)
  OBVIOUS
<1>3. IsStore(t) /\ Len(t.close) = i /\ InOrder(t) /\ SameBars(t, s, i)
  BY <1>2, PrefixAlike
<1>4. PICK f : f = WholeReplay(u, t)
  OBVIOUS
<1>5. PICK g : g = WholeReplay(u, s)
  OBVIOUS
<1>6. f[0] = FreshFrom(u, Flat) /\ \A k \in 1..i : f[k] = Step(u, t, k, f[k - 1])
  BY <1>3, <1>4, WholeIs
<1>7. g[0] = FreshFrom(u, Flat) /\ \A k \in 1..n : g[k] = Step(u, s, k, g[k - 1])
  BY <1>1, <1>5, WholeIs
<1> DEFINE T == {k \in Nat : Along(u, f, g, k)}
<1>8. 0 \in T
  <2>1. f[0].pos = Flat /\ f[0].hidden = PreparedFamily(u.family)
    BY <1>6 DEF FreshFrom, FamiliesArePrepared
  <2>2. Held(Flat, 0)
    BY DEF Held, Flat, Positions
  <2>3. u.family \in Remembering => Remembers(u.family, f[0].hidden)
    BY <2>1, PreparedRemembers
  <2> QED BY <1>6, <1>7, <2>1, <2>2, <2>3 DEF Along
<1>9. ASSUME NEW k \in (0 + 1)..i, k - 1 \in T PROVE k \in T
  <2>1. k \in Nat \ {0} /\ k - 1 \in Nat /\ k \in 1..i /\ k \in 1..n /\ k <= i
    BY <1>1
  <2>2. PICK was : was = f[k - 1] /\ was = g[k - 1] /\ Held(was.pos, k - 1)
                     /\ (u.family \in Remembering => Remembers(u.family, was.hidden))
    BY <1>9 DEF Along
  <2>3. Held(was.pos, k)
    BY <2>1, <2>2 DEF Held
  <2>4. SameBars(t, s, k)
    BY <1>3, <2>1, SameEarlier
  <2>5. PICK next : /\ next = Step(u, t, k, was) /\ next = Step(u, s, k, was)
                    /\ Held(next.pos, k)
                    /\ u.family \in Remembering => Remembers(u.family, next.hidden)
    BY <1>3, <2>1, <2>2, <2>3, <2>4, StepSame
  <2>6. f[k] = next /\ g[k] = next
    BY <1>6, <1>7, <2>1, <2>2, <2>5
  <2> QED BY <2>1, <2>5, <2>6 DEF Along
<1> HIDE DEF T
<1>10. \A k \in 0..i : k \in T
  <2>1. 0 \in Nat /\ i \in Nat
    BY <1>1
  <2> QED BY <1>8, <1>9, <2>1, AllFrom
<1>11. f[i] = g[i]
  <2>1. i \in 0..i
    BY <1>1
  <2> QED BY <1>10, <2>1 DEF T, Along
<1> QED BY <1>2, <1>4, <1>5, <1>11

LEMMA StoredForeseesNothing ==
    ASSUME TheFamiliesPlay, FamiliesArePrepared, SetupsAreWellFormed, StoreInv
    PROVE  NothingIsForeseen
<1>1. setup \in Setups /\ IsStore(series) /\ InOrder(series) /\ WellFormed(setup)
  BY StoredInOrder DEF StoreInv, Stored, SetupsAreWellFormed
<1>2. PICK n \in Nat : n = Len(series.close)
  BY <1>1, StoreLength
<1>3. ASSUME NEW i \in 1..n, setup.family \in Remembering
      PROVE  WholeReplay(setup, Prefix(series, i))[i] = WholeReplay(setup, series)[i]
  BY <1>1, <1>2, PassesAlike
<1>4. ASSUME NEW i \in 1..n, setup.family \notin Remembering, NEW pos \in Probes(series, i)
      PROVE  OnBar(setup, Prefix(series, i), i, pos, NaN) = OnBar(setup, series, i, pos, NaN)
  <2>1. PICK t : t = Prefix(series, i)
    OBVIOUS
  <2>2. InOrder(t) /\ SameBars(t, series, i)
    BY <1>1, <1>2, <2>1, PrefixAlike
  <2>3. pos.in => pos.index \in 1..i
    <3>1. PICK e : e = Larger(1, i - 2)
      OBVIOUS
    <3>2. e \in 1..i
      BY <3>1 DEF Larger
    <3>3. pos = Flat \/ pos.index = e
      BY <3>1 DEF Probes
    <3> QED BY <3>2, <3>3 DEF Flat
  <2>4. AskedAlike(t, series, i, pos)
    BY <1>1, <2>2, <2>3 DEF AskedAlike
  <2>5. OnBarOfFamily(setup, t, i, pos, NaN) = OnBarOfFamily(setup, series, i, pos, NaN)
    BY <1>1, <1>4, <2>4, NoFamilyLooksAhead
  <2> QED BY <2>1, <2>5 DEF TheFamiliesPlay
<1>5. Bars(series.close) = 1..n
  BY <1>2 DEF Bars
<1> QED BY <1>3, <1>4, <1>5 DEF NothingIsForeseen

(* For every setup of any parameters, whatever the bars of the market and  *)
(* however they reach the store: no decision of any family of the          *)
(* registry, behind any gate, would be another if the bars after it were   *)
(* not there, in a position and out of one; and those that remember go     *)
(* through the same trades with the same memory.                           *)
THEOREM NothingEverForeseen ==
    SetupsAreWellFormed /\ TheFamiliesPlay /\ FamiliesArePrepared /\ ReplaySpec => []NothingIsForeseen
<1>1. CASE SetupsAreWellFormed /\ TheFamiliesPlay /\ FamiliesArePrepared
  <2>1. StoreInv => NothingIsForeseen
    BY <1>1, StoredForeseesNothing
  <2> QED BY <2>1, StoreInvInit, StoreInvStep, PTL DEF ReplaySpec
<1>2. CASE ~(SetupsAreWellFormed /\ TheFamiliesPlay /\ FamiliesArePrepared)
  BY <1>2
<1> QED BY <1>1, <1>2

-----------------------------------------------------------------------------
(* Gates.  A rule behind a gate and the rule alone hold positions of their *)
(* own, and each is asked with its own: that the gate never puts the rule  *)
(* in a trade it would not be in holds of the rules that ask only whether  *)
(* they are in one, and that never enter where they would leave.  A stop   *)
(* at a distance from the entry, or a horizon, is another for an entry the *)
(* gate has put off: of those families it is not so.                       *)

GatesAreBeforeRules == \A u \in Setups : GateIsBeforeRule(u)

\* The second says what the first does, or would buy where the first does not.
HeldBack(signal, alone) == signal = alone \/ (signal = "Hold" /\ alone = "Buy")

LEMMA GateHoldsBack ==
    ASSUME NEW gate \in GateNames, NEW g, NEW s, NEW i, NEW signal
    PROVE  HeldBack(Behind(gate, g, s, i, signal), signal)
<1>1. \A measure, open : HeldBack(Gated(signal, measure, open), signal)
  BY DEF Gated, HeldBack
<1>2. HeldBack(PermutationEntropyGate(g, s, i, signal), signal)
  BY <1>1 DEF PermutationEntropyGate
<1>3. HeldBack(HawkesIntensityGate(g, s, i, signal), signal)
  BY <1>1 DEF HawkesIntensityGate
<1>4. HeldBack(VarianceRatioGate(g, s, i, signal), signal)
  BY <1>1 DEF VarianceRatioGate
<1>5. HeldBack(HurstRegimeFilter(g, s, i, signal), signal)
  BY <1>1 DEF HurstRegimeFilter
<1>6. HeldBack(signal, signal)
  BY DEF HeldBack
<1> QED BY <1>2, <1>3, <1>4, <1>5, <1>6 DEF Behind, GateNames

\* A gate that holds back one of two signals holds back the other, or less.
LEMMA BehindTheSameGate ==
    ASSUME NEW gate \in GateNames, NEW g, NEW s, NEW i, NEW x, NEW y, HeldBack(x, y)
    PROVE  HeldBack(Behind(gate, g, s, i, x), Behind(gate, g, s, i, y))
<1>1. \A measure, open : HeldBack(Gated(x, measure, open), Gated(y, measure, open))
  BY DEF Gated, HeldBack
<1>2. HeldBack(PermutationEntropyGate(g, s, i, x), PermutationEntropyGate(g, s, i, y))
  BY <1>1 DEF PermutationEntropyGate
<1>3. HeldBack(HawkesIntensityGate(g, s, i, x), HawkesIntensityGate(g, s, i, y))
  BY <1>1 DEF HawkesIntensityGate
<1>4. HeldBack(VarianceRatioGate(g, s, i, x), VarianceRatioGate(g, s, i, y))
  BY <1>1 DEF VarianceRatioGate
<1>5. HeldBack(HurstRegimeFilter(g, s, i, x), HurstRegimeFilter(g, s, i, y))
  BY <1>1 DEF HurstRegimeFilter
<1> QED BY <1>2, <1>3, <1>4, <1>5 DEF Behind, GateNames

\* Without its market, factor_trend buys where it did, and sells where it did.
LEMMA MarketHoldsBack ==
    ASSUME NEW par, FactorFields \subseteq DOMAIN par, NEW s, NEW i
    PROVE  HeldBack(FactorTrend(par, s, s, i), FactorTrend([par EXCEPT !.confirm = FALSE], s, s, i))
<1>1. PICK q : q = [par EXCEPT !.confirm = FALSE]
  OBVIOUS
<1>2. /\ q.lookback = par.lookback /\ q.volWindow = par.volWindow /\ q.factorWeight = par.factorWeight
      /\ q.confirmZ = par.confirmZ /\ q.refLagBars = par.refLagBars /\ q.thresholdZ = par.thresholdZ
      /\ q.confirm = FALSE
  BY <1>1 DEF FactorFields
<1>3. TrendZ(q, s.close) = TrendZ(par, s.close)
  BY <1>2 DEF TrendZ
<1>4. FactorZ(q, s, s, i) = FactorZ(par, s, s, i)
  BY <1>2, <1>3 DEF FactorZ
<1>5. PICK own : own = TrendZ(par, s.close)[i] /\ own = TrendZ(q, s.close)[i]
  BY <1>3
<1>6. PICK z : z = FactorZ(par, s, s, i) /\ z = FactorZ(q, s, s, i)
  BY <1>4
<1> DEFINE market(c) == IF par.factorWeight = 0 /\ ~c THEN NaN ELSE z
           blend(m) == CASE par.factorWeight = 0 -> own
                         [] par.factorWeight = Permille -> m
                         [] OTHER -> IF Ok(own) /\ Ok(m)
                                     THEN ((Permille - par.factorWeight) * own + par.factorWeight * m) \div Permille
                                     ELSE NaN
           confirmed(c, m, x) == IF x = "Buy" /\ c /\ Ok(m) /\ ~(m > par.confirmZ) THEN "Hold" ELSE x
           said(c, m, b) == IF ~Ok(b) THEN "Hold" ELSE confirmed(c, m, Above(b, par.thresholdZ))
<1>7. FactorTrend(par, s, s, i) = said(par.confirm, market(par.confirm), blend(market(par.confirm)))
  BY <1>5, <1>6 DEF FactorTrend, ConfirmedByMarket
<1>8. FactorTrend(q, s, s, i) = said(FALSE, market(FALSE), blend(market(FALSE)))
  BY <1>2, <1>5, <1>6 DEF FactorTrend, ConfirmedByMarket
<1>9. blend(market(par.confirm)) = blend(market(FALSE))
  <2>1. CASE par.factorWeight = 0
    BY <2>1 DEF Permille
  <2>2. CASE par.factorWeight # 0
    <3>1. market(par.confirm) = z /\ market(FALSE) = z
      BY <2>2
    <3> HIDE DEF market, blend
    <3> QED BY <3>1
  <2> QED BY <2>1, <2>2
<1> HIDE DEF market, blend
<1>10. PICK b : b = blend(market(par.confirm)) /\ b = blend(market(FALSE))
  BY <1>9
<1>11. \A m : HeldBack(said(par.confirm, m, b), said(FALSE, market(FALSE), b))
  BY DEF HeldBack
<1> HIDE DEF said
<1> QED BY <1>1, <1>7, <1>8, <1>10, <1>11

LEMMA RulesEnterOrLeave ==
    ASSUME NEW family, NEW par, EntersOrLeaves(family, par), NEW s, NEW i, NEW p, NEW q
    PROVE  /\ p.in = q.in => PureSignal(family, par, s, i, p) = PureSignal(family, par, s, i, q)
           /\ ~p.in /\ q.in => ~(/\ PureSignal(family, par, s, i, p) = "Buy"
                                 /\ PureSignal(family, par, s, i, q) = "Sell")
<1>1. family \in AsksOnlyWhetherIn
  BY DEF EntersOrLeaves, AsksOnlyWhetherIn, Stateless
<1>2. p.in = q.in => PureSignal(family, par, s, i, p) = PureSignal(family, par, s, i, q)
  BY <1>1, FamilyAsksOnly
<1> SUFFICES ASSUME ~p.in, q.in
             PROVE  ~(/\ PureSignal(family, par, s, i, p) = "Buy"
                      /\ PureSignal(family, par, s, i, q) = "Sell")
  BY <1>2
<1>3. CASE family \in {"tsmom", "sma_cross", "faber_ma", "kama_trend", "ehlers_trend", "macd_norm"}
  BY <1>3 DEF PureSignal
<1>4. CASE family \in {"vol_managed", "lppls_bubble", "factor_trend", "ensemble_ls", "emergent"}
  BY <1>4 DEF PureSignal
<1>5. CASE family = "control_always_long"
  <2>1. PureSignal(family, par, s, i, q) = AlwaysLong(q)
    BY <1>5 DEF PureSignal
  <2>2. AlwaysLong(q) = "Hold"
    BY DEF AlwaysLong, Enter, Choice
  <2> QED BY <2>1, <2>2
<1>6. CASE family = "calendar_rule"
  <2>1. PureSignal(family, par, s, i, p) = CalendarRule(par, s, i, p)
        /\ PureSignal(family, par, s, i, q) = CalendarRule(par, s, i, q)
    BY <1>6 DEF PureSignal
  <2>2. par.buyWeekday # par.sellWeekday
    BY <1>6 DEF EntersOrLeaves, Stateless
  <2>3. ~(CalendarRule(par, s, i, p) = "Buy" /\ CalendarRule(par, s, i, q) = "Sell")
    BY <2>2 DEF CalendarRule, Choice
  <2> QED BY <2>1, <2>3
<1>7. CASE family = "ensemble_rule"
  <2>1. PureSignal(family, par, s, i, p) = EnsembleRule(par, s, i, p)
        /\ PureSignal(family, par, s, i, q) = EnsembleRule(par, s, i, q)
    BY <1>7 DEF PureSignal
  <2>2. par.entry \subseteq par.stay
    BY <1>7 DEF EntersOrLeaves, Stateless
  <2>3. ~(EnsembleRule(par, s, i, p) = "Buy" /\ EnsembleRule(par, s, i, q) = "Sell")
    BY <2>2 DEF EnsembleRule, Choice
  <2> QED BY <2>1, <2>3
<1>8. ASSUME NEW r, r.enterVotes \in Int, r.exitVotes \in Int
      PROVE  ~(EnsembleVote(r, s, i, p) = "Buy" /\ EnsembleVote(r, s, i, q) = "Sell")
  <2>1. Cardinality(Votes(r, s, i)) \in Nat
    <3>1. IsFiniteSet(Members)
      <4>1. Members = {"tsmom"} \cup {"faber"} \cup {"donchian"}
        BY DEF Members
      <4> QED BY <4>1, FS_Singleton, FS_Union
    <3>2. Votes(r, s, i) \subseteq Members
      BY DEF Votes
    <3>3. IsFiniteSet(Votes(r, s, i))
      BY <3>1, <3>2, FS_Subset
    <3> QED BY <3>3, FS_CardinalityType
  <2>2. PICK v \in Nat : v = Cardinality(Votes(r, s, i))
    BY <2>1
  <2>3. PICK x \in Int : x = ExitVotes(r.enterVotes, r.exitVotes) /\ x < r.enterVotes
    BY <1>8 DEF ExitVotes
  <2>4. /\ EnsembleVote(r, s, i, p) = Choice(v >= r.enterVotes, FALSE)
        /\ EnsembleVote(r, s, i, q) = Choice(FALSE, v <= x)
    BY <2>2, <2>3 DEF EnsembleVote, Choice
  <2>5. ~(v >= r.enterVotes /\ v <= x)
    BY <1>8, <2>3
  <2> QED BY <2>4, <2>5 DEF Choice
<1>9. CASE family = "ensemble_vote"
  <2>1. PureSignal(family, par, s, i, p) = EnsembleVote(par, s, i, p)
        /\ PureSignal(family, par, s, i, q) = EnsembleVote(par, s, i, q)
    BY <1>9 DEF PureSignal
  <2>2. par.enterVotes \in Int /\ par.exitVotes \in Int
    BY <1>9 DEF EntersOrLeaves, Stateless
  <2> QED BY <1>8, <2>1, <2>2
<1>10. CASE family = "ensemble_tuned"
  <2>1. PureSignal(family, par, s, i, p) = EnsembleTuned(par, s, i, p)
        /\ PureSignal(family, par, s, i, q) = EnsembleTuned(par, s, i, q)
    BY <1>10 DEF PureSignal
  <2>2. par.enterVotes \in Int /\ par.exitVotes \in Int
    BY <1>10 DEF EntersOrLeaves, Stateless
  <2>3. PICK r : /\ \A pos : EnsembleTuned(par, s, i, pos) = EnsembleVote(r, s, i, pos)
                 /\ r.enterVotes = par.enterVotes /\ r.exitVotes = par.exitVotes
    BY DEF EnsembleTuned
  <2>4. ~(EnsembleVote(r, s, i, p) = "Buy" /\ EnsembleVote(r, s, i, q) = "Sell")
    BY <1>8, <2>2, <2>3
  <2> QED BY <2>1, <2>3, <2>4
<1> QED BY <1>3, <1>4, <1>5, <1>6, <1>7, <1>9, <1>10 DEF EntersOrLeaves, Stateless

\* What a gated rule says next to the rule alone, each of its own position.
LEMMA GatedSays ==
    ASSUME TheFamiliesPlay, GatesAreBeforeRules, NEW u \in Setups, u.gate # "none" \/ u.family = "factor_trend",
           NEW s, NEW i, NEW p, NEW q, NEW h, NEW g
    PROVE  LET a == OnBar(u, s, i, p, h).signal
               b == OnBar(Ungated(u), s, i, q, g).signal
           IN  /\ p.in = q.in => HeldBack(a, b)
               /\ ~p.in /\ q.in => ~(a = "Buy" /\ b = "Sell")
<1>1. u.gate \in GateNames /\ SetupFields \subseteq DOMAIN u /\ EntersOrLeaves(u.family, u.p)
  BY DEF GatesAreBeforeRules, GateIsBeforeRule, EntersOrLeaves, Stateless
<1>2. u.family \notin Remembering
  BY <1>1 DEF EntersOrLeaves, Stateless, Remembering
<1>3. PICK x : x = PureSignal(u.family, u.p, s, i, p)
  OBVIOUS
<1>4. PICK y : y = PureSignal(u.family, u.p, s, i, q)
  OBVIOUS
<1>5. (p.in = q.in => x = y) /\ (~p.in /\ q.in => ~(x = "Buy" /\ y = "Sell"))
  BY <1>1, <1>3, <1>4, RulesEnterOrLeave
<1>6. ASSUME NEW v, v.family \notin Remembering, NEW pos, NEW was
      PROVE  OnBar(v, s, i, pos, was).signal
                 = Behind(v.gate, v.g, s, i, PureSignal(v.family, v.p, s, i, pos))
  BY <1>6 DEF TheFamiliesPlay, OnBarOfFamily, Says
<1>7. PICK a : a = OnBar(u, s, i, p, h).signal /\ a = Behind(u.gate, u.g, s, i, x)
  BY <1>2, <1>3, <1>6
<1>8. HeldBack(a, x)
  BY <1>1, <1>7, GateHoldsBack
<1>9. CASE u.family # "factor_trend"
  <2>1. PICK v : v = Ungated(u) /\ v = [u EXCEPT !.gate = "none"]
    BY <1>9 DEF Ungated
  <2>2. v.family = u.family /\ v.p = u.p /\ v.g = u.g /\ v.gate = "none"
    BY <1>1, <2>1 DEF SetupFields
  <2>3. OnBar(v, s, i, q, g).signal = y
    BY <1>2, <1>4, <1>6, <2>2 DEF Behind
  <2> QED BY <1>5, <1>7, <1>8, <2>1, <2>3 DEF HeldBack
<1>10. CASE u.family = "factor_trend"
  <2>1. PICK v : v = Ungated(u) /\ v = [u EXCEPT !.p.confirm = FALSE]
    BY <1>10 DEF Ungated
  <2>2. v.family = u.family /\ v.p = [u.p EXCEPT !.confirm = FALSE] /\ v.g = u.g /\ v.gate = u.gate
    BY <1>1, <2>1 DEF SetupFields
  <2>3. FactorFields \subseteq DOMAIN u.p
    BY <1>10 DEF GatesAreBeforeRules, GateIsBeforeRule
  <2>4. PICK z : z = FactorTrend(v.p, s, s, i)
    OBVIOUS
  <2>5. x = FactorTrend(u.p, s, s, i) /\ \A pos : PureSignal(v.family, v.p, s, i, pos) = z
    BY <1>3, <1>10, <2>2, <2>4 DEF PureSignal
  <2>6. HeldBack(x, z)
    BY <2>2, <2>3, <2>4, <2>5, MarketHoldsBack
  <2>7. PICK b : b = OnBar(v, s, i, q, g).signal /\ b = Behind(u.gate, u.g, s, i, z)
    <3>1. v.family \notin Remembering
      BY <1>2, <2>2
    <3>2. OnBar(v, s, i, q, g).signal
              = Behind(v.gate, v.g, s, i, PureSignal(v.family, v.p, s, i, q))
      BY <1>6, <3>1
    <3>3. OnBar(v, s, i, q, g).signal = Behind(u.gate, u.g, s, i, z)
      BY <2>2, <2>5, <3>2
    <3> QED BY <3>3
  <2>8. HeldBack(a, b)
    BY <1>1, <1>7, <2>6, <2>7, BehindTheSameGate
  <2>9. (p.in = q.in => HeldBack(a, b)) /\ ~(a = "Buy" /\ b = "Sell")
    BY <2>8 DEF HeldBack
  <2> QED BY <1>7, <2>1, <2>7, <2>9
<1> QED BY <1>9, <1>10

\* In a trade only where the other is.
Within(w, v, i) == Held(w.pos, i) /\ Held(v.pos, i) /\ (w.pos.in => v.pos.in)

LEMMA WithinStep ==
    ASSUME TheFamiliesPlay, GatesAreBeforeRules, NEW u \in Setups, u.gate # "none" \/ u.family = "factor_trend",
           NEW s, IsStore(s), NEW i \in 1..Len(s.close), NEW w, NEW v, Within(w, v, i - 1)
    PROVE  Within(Step(u, s, i, w), Step(Ungated(u), s, i, v), i)
<1>1. PICK close \in Int : close = s.close[i]
  <2>1. s["close"] \in Seq(Int)
    BY DEF IsStore, Columns
  <2> QED BY <2>1
<1>2. i \in Nat \ {0}
  BY StoreLength
<1>3. Held(w.pos, i) /\ Held(v.pos, i) /\ (w.pos.in => v.pos.in)
  BY <1>2 DEF Within, Held
<1>4. PICK p \in Positions : p = Observed(w.pos, close) /\ Held(p, i) /\ p.in = w.pos.in
  BY ZenonT(40), <1>2, <1>3, ObservedKeepsPosition DEF Held
<1>5. PICK q \in Positions : q = Observed(v.pos, close) /\ Held(q, i) /\ q.in = v.pos.in
  BY <1>2, <1>3, ObservedKeepsPosition DEF Held
<1>6. PICK a : a = OnBar(u, s, i, p, w.hidden).signal
  OBVIOUS
<1>7. PICK b : b = OnBar(Ungated(u), s, i, q, v.hidden).signal
  OBVIOUS
<1>8. (p.in = q.in => HeldBack(a, b)) /\ (~p.in /\ q.in => ~(a = "Buy" /\ b = "Sell"))
  BY <1>6, <1>7, GatedSays
<1>9. Step(u, s, i, w).pos = Filled(p, a, close, i)
  BY <1>1, <1>4, <1>6 DEF Step
<1>10. Step(Ungated(u), s, i, v).pos = Filled(q, b, close, i)
  BY <1>1, <1>5, <1>7 DEF Step
<1>11. Filled(p, a, close, i).in <=> a = "Buy" \/ (p.in /\ a # "Sell")
  BY FilledIn
<1>12. Filled(q, b, close, i).in <=> b = "Buy" \/ (q.in /\ b # "Sell")
  BY FilledIn
<1>13. p.in \in BOOLEAN /\ q.in \in BOOLEAN /\ (p.in => q.in)
  BY <1>3, <1>4, <1>5 DEF Positions
<1>14. Filled(p, a, close, i).in => Filled(q, b, close, i).in
  <2>1. CASE p.in = q.in
    BY <1>8, <1>11, <1>12, <2>1 DEF HeldBack
  <2>2. CASE p.in # q.in
    BY <1>8, <1>11, <1>12, <1>13, <2>2
  <2> QED BY <2>1, <2>2
<1>15. Held(Filled(p, a, close, i), i) /\ Held(Filled(q, b, close, i), i)
  BY <1>1, <1>2, <1>4, <1>5, FillKeepsPosition
<1> QED BY <1>9, <1>10, <1>14, <1>15 DEF Within

LEMMA StoredGatesKeepOut ==
    ASSUME TheFamiliesPlay, GatesAreBeforeRules, StoreInv
    PROVE  GatesOnlyKeepOut
<1> SUFFICES ASSUME setup.gate # "none" \/ setup.family = "factor_trend",
                    NEW i \in Bars(series.close), WholeReplay(setup, series)[i].pos.in
             PROVE  WholeReplay(Ungated(setup), series)[i].pos.in
  BY DEF GatesOnlyKeepOut
<1>1. setup \in Setups /\ IsStore(series)
  BY DEF StoreInv, Stored
<1>2. PICK n \in Nat : n = Len(series.close) /\ i \in 1..n
  BY <1>1, StoreLength DEF Bars
<1>3. PICK u, v : u = setup /\ v = Ungated(setup)
  OBVIOUS
<1>4. PICK s : s = series
  OBVIOUS
<1>5. PICK f : f = WholeReplay(u, s)
  OBVIOUS
<1>6. PICK g : g = WholeReplay(v, s)
  OBVIOUS
<1>7. /\ f[0].pos = Flat /\ \A k \in 1..n : f[k] = Step(u, s, k, f[k - 1])
      /\ g[0].pos = Flat /\ \A k \in 1..n : g[k] = Step(v, s, k, g[k - 1])
  BY <1>1, <1>2, <1>4, <1>5, <1>6, WholeIs
<1> DEFINE T == {k \in Nat : Within(f[k], g[k], k)}
<1>8. 0 \in T
  <2>1. Held(Flat, 0)
    BY DEF Held, Flat, Positions
  <2>2. ~Flat.in
    BY DEF Flat
  <2>3. Within(f[0], g[0], 0)
    BY <1>7, <2>1, <2>2 DEF Within
  <2> QED BY <2>3
<1>9. ASSUME NEW k \in (0 + 1)..n, k - 1 \in T PROVE k \in T
  <2>1. k \in Nat /\ k \in 1..n /\ k \in 1..Len(s.close)
    BY <1>2, <1>4
  <2>2. PICK w : w = f[k - 1]
    OBVIOUS
  <2>3. PICK x : x = g[k - 1]
    OBVIOUS
  <2>4. Within(w, x, k - 1)
    BY <1>9, <2>2, <2>3
  <2>5. Within(Step(u, s, k, w), Step(Ungated(u), s, k, x), k)
    BY <1>1, <1>3, <1>4, <2>1, <2>4, WithinStep
  <2> QED BY <1>3, <1>7, <2>1, <2>2, <2>3, <2>5
<1> HIDE DEF T
<1>10. \A k \in 0..n : k \in T
  <2>1. 0 \in Nat
    OBVIOUS
  <2> QED BY <1>2, <1>8, <1>9, <2>1, AllFrom
<1>11. i \in 0..n
  BY <1>2
<1> QED BY <1>3, <1>4, <1>5, <1>6, <1>10, <1>11 DEF T, Within

(* Behind any gate of any parameters, or waiting for the market to agree,  *)
(* a rule that ignores its position, or that enters and leaves on          *)
(* different bars, is in a trade only where the rule alone is in one, over *)
(* every history: what a gate of evolution/tournament.h costs is trades    *)
(* not taken, never one taken or kept because of it.                       *)
THEOREM GatesKeepOut ==
    GatesAreBeforeRules /\ TheFamiliesPlay /\ ReplaySpec => []GatesOnlyKeepOut
<1>1. CASE GatesAreBeforeRules /\ TheFamiliesPlay
  <2>1. StoreInv => GatesOnlyKeepOut
    BY <1>1, StoredGatesKeepOut
  <2> QED BY <2>1, StoreInvInit, StoreInvStep, PTL DEF ReplaySpec
<1>2. CASE ~(GatesAreBeforeRules /\ TheFamiliesPlay)
  BY <1>2
<1> QED BY <1>1, <1>2

-----------------------------------------------------------------------------
(* The frame of a trade.  What a chart family remembers is numbers once it *)
(* enters, and while it is in the trade nothing that the chart does after  *)
(* moves them, but for a stop that is raised.                              *)

Reading == Int \cup {NaN}

LEMMA BarNumbers ==
    ASSUME NEW s, IsStore(s), NEW j \in 1..Len(s.close)
    PROVE  s.open[j] \in Int /\ s.high[j] \in Int /\ s.low[j] \in Int /\ s.close[j] \in Int /\ s.volume[j] \in Int
<1>1. \A c \in Columns : s[c] \in Seq(Int) /\ Len(s[c]) = Len(s.close)
  BY DEF IsStore
<1>2. {"open", "high", "low", "close", "volume"} \subseteq Columns
  BY DEF Columns
<1>3. \A c \in Columns : s[c][j] \in Int
  BY <1>1
<1> QED BY <1>2, <1>3

\* A turn that may be called at bar i is one of the bars before.
LEMMA PivotNumbers ==
    ASSUME NEW s, IsStore(s), NEW i \in 1..Len(s.close), NEW k \in Nat, NEW j, j = Confirmed(i, k),
           PivotHigh(s, j, k) \/ PivotLow(s, j, k)
    PROVE  j \in 1..(i - k) /\ s.high[j] \in Int /\ s.low[j] \in Int
<1>1. PICK n \in Nat : n = Len(s.close) /\ i \in 1..n
  BY StoreLength
<1>2. j \in 1..n /\ j = i - k
  BY <1>1 DEF PivotHigh, PivotLow, Inside, Confirmed
<1> QED BY <1>1, <1>2, BarNumbers

LEMMA ExtremesAreNumbers ==
    ASSUME NEW v, NEW a \in Nat, NEW b \in Nat, a <= b, \A k \in a..b : v[k] \in Int
    PROVE  Lowest(Column(v, a..b)) \in Int /\ Highest(Column(v, a..b)) \in Int
<1> DEFINE T == {k \in Nat : k \in a..b => /\ \E m \in a..k : \A y \in a..k : v[m] <= v[y]
                                           /\ \E m \in a..k : \A y \in a..k : v[m] >= v[y]}
<1>1. a \in T
  OBVIOUS
<1>2. ASSUME NEW k \in (a + 1)..b, k - 1 \in T PROVE k \in T
  <2>1. k \in Nat /\ k - 1 \in a..b /\ k \in a..b /\ v[k] \in Int
    OBVIOUS
  <2>2. PICK m \in a..(k - 1) : \A y \in a..(k - 1) : v[m] <= v[y]
    BY <1>2, <2>1
  <2>3. PICK x \in a..(k - 1) : \A y \in a..(k - 1) : v[x] >= v[y]
    BY <1>2, <2>1
  <2>4. \A y \in a..k : y = k \/ y \in a..(k - 1)
    OBVIOUS
  <2>5. m \in a..k /\ x \in a..k /\ v[m] \in Int /\ v[x] \in Int /\ \A y \in a..k : v[y] \in Int
    OBVIOUS
  <2>6. \E r \in a..k : \A y \in a..k : v[r] <= v[y]
    <3>1. CASE v[m] <= v[k]
      BY <2>2, <2>4, <2>5, <3>1
    <3>2. CASE v[k] < v[m]
      <4>1. \A y \in a..(k - 1) : v[y] \in Int
        BY <2>5
      <4>2. \A y \in a..k : v[k] <= v[y]
        BY <2>1, <2>2, <2>4, <2>5, <3>2, <4>1
      <4>3. k \in a..k
        BY <2>1
      <4> QED BY <4>2, <4>3
    <3> QED BY <2>1, <2>5, <3>1, <3>2
  <2>7. \E r \in a..k : \A y \in a..k : v[r] >= v[y]
    <3>1. CASE v[x] >= v[k]
      BY <2>3, <2>4, <2>5, <3>1
    <3>2. CASE v[k] > v[x]
      <4>1. \A y \in a..(k - 1) : v[y] \in Int
        BY <2>5
      <4>2. \A y \in a..k : v[k] >= v[y]
        BY <2>1, <2>3, <2>4, <2>5, <3>2, <4>1
      <4>3. k \in a..k
        BY <2>1
      <4> QED BY <4>2, <4>3
    <3> QED BY <2>1, <2>5, <3>1, <3>2
  <2> QED BY <2>1, <2>6, <2>7
<1> HIDE DEF T
<1>3. b \in T
  <2>1. \A k \in a..b : k \in T
    BY <1>1, <1>2, AllFrom
  <2> QED BY <2>1
<1>4. b \in a..b
  OBVIOUS
<1>5. PICK m \in a..b : \A y \in a..b : v[m] <= v[y]
  BY <1>3, <1>4 DEF T
<1>6. PICK x \in a..b : \A y \in a..b : v[x] >= v[y]
  BY <1>3, <1>4 DEF T
<1>7. PICK S : S = Column(v, a..b)
  OBVIOUS
<1>8. S \in SUBSET Int /\ v[m] \in S /\ v[x] \in S /\ \A z \in S : v[m] <= z /\ z <= v[x]
  BY <1>5, <1>6, <1>7 DEF Column
<1>9. Lowest(S) \in S
  BY <1>8 DEF Lowest
<1>10. Highest(S) \in S
  BY <1>8 DEF Highest
<1> QED BY <1>7, <1>8, <1>9, <1>10

-----------------------------------------------------------------------------
(* What each family remembers.                                             *)

DarvasMemory == [swingLow : Reading, swingHigh : Reading, boxTop : Reading, boxBot : Reading,
                 boxStart : Int, target : Reading, stop : Reading]
DarvasKnows(h) == h \in DarvasMemory /\ (Ok(h.boxTop) => Ok(h.swingHigh) /\ Ok(h.boxBot))
FibMemory == [top : Reading, topIdx : Int, bot : Reading, entryTop : Reading, entryBot : Reading]
\* The turns of bars before bar i.
TurnsBefore(i) == [idx : 1..(i - 1), px : Int, high : BOOLEAN]
PatternMemory(i) == [turns : Seq(TurnsBefore(i)), target : Reading, stop : Reading]
Knows(family, i, h) ==
    /\ family = "darvas" => DarvasKnows(h)
    /\ family = "fib_ichimoku" => h \in FibMemory
    /\ family = "patterns" => h \in PatternMemory(i)

LEMMA PreparedKnows ==
    ASSUME NEW family \in Remembering
    PROVE  Knows(family, 0, PreparedFamily(family))
<1>1. DarvasKnows(DarvasPrepared)
  BY DEF DarvasKnows, DarvasPrepared, DarvasMemory, Reading, Ok
<1>2. FibPrepared \in FibMemory
  BY DEF FibPrepared, FibMemory, Reading
<1>3. PatternPrepared \in PatternMemory(0)
  <2>1. <<>> \in Seq(TurnsBefore(0))
    OBVIOUS
  <2> QED BY <2>1 DEF PatternPrepared, PatternMemory, Reading
<1>4. family = "darvas" => PreparedFamily(family) = DarvasPrepared
  BY DEF PreparedFamily
<1>5. family = "fib_ichimoku" => PreparedFamily(family) = FibPrepared
  BY DEF PreparedFamily
<1>6. family = "patterns" => PreparedFamily(family) = PatternPrepared
  BY DEF PreparedFamily
<1> QED BY <1>1, <1>2, <1>3, <1>4, <1>5, <1>6 DEF Knows

LEMMA KnowsLater ==
    ASSUME NEW family, NEW i \in Nat \ {0}, NEW h, Knows(family, i - 1, h)
    PROVE  Knows(family, i, h)
<1>1. TurnsBefore(i - 1) \subseteq TurnsBefore(i)
  BY DEF TurnsBefore
<1>2. \A turns \in Seq(TurnsBefore(i - 1)) : turns \in Seq(TurnsBefore(i))
  BY <1>1
<1>3. h \in PatternMemory(i - 1) => h \in PatternMemory(i)
  BY <1>2 DEF PatternMemory
<1> QED BY <1>3 DEF Knows

\* The frame of an entry, as what was remembered of it then, still stands.
FrameStands(family, was, h) ==
    /\ family = "darvas" => /\ was.target \in Int /\ was.stop \in Int
                            /\ h.target = was.target /\ h.stop \in Int /\ h.stop >= was.stop
    /\ family = "fib_ichimoku" => /\ Ok(was.entryTop) /\ Ok(was.entryBot)
                                  /\ h.entryTop = was.entryTop /\ h.entryBot = was.entryBot
    /\ family = "patterns" => /\ was.target \in Int /\ was.stop \in Int
                              /\ h.target = was.target /\ h.stop = was.stop
\* The bars a family says nothing at.
Warmup(u) == u.p.pivotWindow + (IF u.family = "patterns" THEN 3 ELSE 2)
\* What a bar adds to what is remembered: an entry leaves a frame, and in a
\* trade that is not over it stands, and the close is inside it.
FrameKept(u, s, i, pos, was, said) ==
    /\ Knows(u.family, i, said.hidden)
    /\ said.signal = "Buy" => ~pos.in
    /\ said.signal = "Buy" => i > Warmup(u) /\ FrameStands(u.family, said.hidden, said.hidden)
    /\ \A at : pos.in /\ i > Warmup(u) /\ said.signal # "Sell" /\ FrameStands(u.family, at, was) =>
           FrameStands(u.family, at, said.hidden) /\ ~FrameLeft(u, at, s.close[i])

\* The box that bar i leaves: the target and the stop are not its to move.
LEMMA BoxKept ==
    ASSUME NEW s, IsStore(s), NEW i \in 1..Len(s.close), NEW p, p.pivotWindow \in Nat \ {0},
           NEW h, DarvasKnows(h)
    PROVE  LET box == DarvasBox(p, s, i, h)
           IN  DarvasKnows(box) /\ box.target = h.target /\ box.stop = h.stop
<1>1. PICK k \in Nat \ {0} : k = p.pivotWindow
  OBVIOUS
<1>2. PICK j : j = Confirmed(i, k)
  OBVIOUS
<1>3. PICK ph, pl \in BOOLEAN : ph = PivotHigh(s, j, k) /\ pl = PivotLow(s, j, k)
  BY DEF PivotHigh, PivotLow
<1>4. ph \/ pl => j \in Int /\ s.high[j] \in Int /\ s.low[j] \in Int
  <2>1. ph \/ pl => j \in 1..(i - k) /\ s.high[j] \in Int /\ s.low[j] \in Int
    BY <1>1, <1>2, <1>3, PivotNumbers
  <2> QED BY <2>1
<1>5. PICK low \in Int : low = s.low[i]
  BY BarNumbers
<1> DEFINE boxOf ==
             LET rises == ph /\ Ok(h.swingLow) /\ (IF Ok(h.swingLow) THEN s.high[j] > h.swingLow ELSE FALSE)
             IN  IF pl
                 THEN [h EXCEPT !.swingLow = s.low[j], !.swingHigh = NaN, !.boxTop = NaN, !.boxBot = NaN]
                 ELSE IF rises
                 THEN [h EXCEPT !.swingHigh = s.high[j], !.boxTop = s.high[j],
                                !.boxBot = s.low[j], !.boxStart = j]
                 ELSE h
<1>6. DarvasKnows(boxOf) /\ boxOf.target = h.target /\ boxOf.stop = h.stop
  <2>1. h \in DarvasMemory
    BY DEF DarvasKnows
  <2>2. CASE pl
    <3>1. s.low[j] \in Int /\ s.low[j] \in Reading /\ NaN \in Reading
      BY <1>4, <2>2 DEF Reading
    <3> QED BY <2>1, <2>2, <3>1 DEF DarvasKnows, DarvasMemory, Ok
  <2>3. CASE ~pl /\ ph /\ Ok(h.swingLow) /\ s.high[j] > h.swingLow
    <3>1. s.low[j] \in Reading /\ s.high[j] \in Reading /\ j \in Int /\ Ok(s.high[j]) /\ Ok(s.low[j])
      BY <1>4, <2>3, NaNAssumption DEF Reading, Ok
    <3> QED BY <2>1, <2>3, <3>1 DEF DarvasKnows, DarvasMemory
  <2>4. CASE ~pl /\ ~(ph /\ Ok(h.swingLow) /\ s.high[j] > h.swingLow)
    BY <2>4
  <2> QED BY <2>2, <2>3, <2>4
<1>7. PICK b : b = boxOf
  OBVIOUS
<1>8. DarvasBox(p, s, i, h) = IF Ok(b.boxTop) THEN [b EXCEPT !.boxBot = Smaller(@, low)] ELSE b
  BY <1>1, <1>2, <1>3, <1>5, <1>7 DEF DarvasBox
<1> HIDE DEF boxOf
<1>9. DarvasKnows(b) /\ b.target = h.target /\ b.stop = h.stop
  BY <1>6, <1>7
<1>10. CASE Ok(b.boxTop)
  <2>1. b \in DarvasMemory /\ b.boxBot \in Int /\ Ok(b.swingHigh)
    BY <1>9, <1>10 DEF DarvasKnows, DarvasMemory, Reading, Ok
  <2>2. Smaller(b.boxBot, low) \in Int /\ Smaller(b.boxBot, low) \in Reading /\ Ok(Smaller(b.boxBot, low))
    BY <2>1, NaNAssumption DEF Smaller, Reading, Ok
  <2>3. PICK l : l = Smaller(b.boxBot, low) /\ l \in Reading /\ Ok(l)
    BY <2>2
  <2>4. DarvasBox(p, s, i, h) = [b EXCEPT !.boxBot = l]
    BY <1>8, <1>10, <2>3
  <2> QED BY <1>9, <1>10, <2>1, <2>3, <2>4 DEF DarvasKnows, DarvasMemory
<1>11. CASE ~Ok(b.boxTop)
  BY <1>8, <1>9, <1>11
<1> QED BY <1>10, <1>11

LEMMA DarvasFramed ==
    ASSUME NEW u, u.family = "darvas", FrameIsNumbers(u), NEW s, IsStore(s), NEW i \in 1..Len(s.close),
           NEW pos, NEW was, DarvasKnows(was)
    PROVE  FrameKept(u, s, i, pos, was, Darvas(u.p, s, i, pos, was))
<1>1. PICK p : p = u.p
  OBVIOUS
<1>2. p.pivotWindow \in Nat \ {0} /\ p.targetLevel \in Int /\ p.stopBelowBox \in Int
  BY <1>1 DEF FrameIsNumbers
<1>3. PICK close \in Int : close = s.close[i]
  BY BarNumbers
<1>4. PICK h : h = DarvasBox(p, s, i, was)
  OBVIOUS
<1>5. DarvasKnows(h) /\ h.target = was.target /\ h.stop = was.stop
  BY <1>2, <1>4, BoxKept
<1> DEFINE done == \/ Ok(h.target) /\ close >= h.target
                   \/ Ok(h.stop) /\ close <= h.stop
           swing == h.swingHigh - h.swingLow
           entry == [h EXCEPT !.target = h.swingHigh + (p.targetLevel * swing) \div Permille,
                              !.stop   = h.boxBot - (p.stopBelowBox * (h.boxTop - h.boxBot)) \div Permille]
           said == IF i <= p.pivotWindow + 2 THEN Says("Hold", was)
                   ELSE IF pos.in THEN (IF done THEN Says("Sell", h) ELSE Says("Hold", Trailed(p, h)))
                   ELSE IF DarvasBreaks(p, s, i, h) THEN Says("Buy", entry)
                   ELSE Says("Hold", h)
<1>6. Darvas(u.p, s, i, pos, was) = said
  BY <1>1, <1>3, <1>4 DEF Darvas
<1>7. Warmup(u) = p.pivotWindow + 2
  BY <1>1 DEF Warmup
<1>8. \A x : DarvasKnows(x) => Knows(u.family, i, x)
  BY DEF Knows
<1>9. CASE i <= p.pivotWindow + 2
  <2>1. said = Says("Hold", was)
    BY <1>9
  <2>2. ~(i > Warmup(u))
    BY <1>2, <1>7, <1>9
  <2> HIDE DEF said
  <2> QED BY <1>6, <1>8, <2>1, <2>2 DEF FrameKept, Says
<1>10. CASE i > p.pivotWindow + 2 /\ pos.in /\ done
  <2>1. said = Says("Sell", h)
    BY <1>2, <1>10
  <2> HIDE DEF said
  <2> QED BY <1>5, <1>6, <1>8, <2>1 DEF FrameKept, Says
<1>11. CASE i > p.pivotWindow + 2 /\ pos.in /\ ~done
  <2>1. PICK x : x = Trailed(p, h)
    OBVIOUS
  <2>2. said = Says("Hold", x)
    BY <1>2, <1>11, <2>1
  <2>3. DarvasKnows(x) /\ x.target = h.target
    BY <1>5, <2>1 DEF Trailed, DarvasKnows, DarvasMemory, Larger, Ok
  <2>4. h.stop \in Int => x.stop \in Int /\ x.stop >= h.stop
    <3>1. h.boxBot \in Reading
      BY <1>5 DEF DarvasKnows, DarvasMemory
    <3>2. h \in DarvasMemory
      BY <1>5 DEF DarvasKnows
    <3>3. x \in {h, [h EXCEPT !.stop = Larger(@, h.boxBot)]}
      BY <2>1 DEF Trailed
    <3>4. CASE x = h
      BY <3>4
    <3>5. CASE x # h
      <4>1. h.boxBot \in Int
        BY <2>1, <3>1, <3>5 DEF Trailed, Reading, Ok
      <4>2. [h EXCEPT !.stop = Larger(@, h.boxBot)].stop = Larger(h.stop, h.boxBot)
        BY <3>2 DEF DarvasMemory
      <4>3. PICK y : y = Larger(h.stop, h.boxBot)
        OBVIOUS
      <4>4. x.stop = y
        BY <3>3, <3>5, <4>2, <4>3
      <4>5. h.stop \in Int => y \in Int /\ y >= h.stop
        BY <4>1, <4>3 DEF Larger
      <4> QED BY <4>4, <4>5
    <3> QED BY <3>4, <3>5
  <2>5. ASSUME NEW at, FrameStands(u.family, at, was)
        PROVE  FrameStands(u.family, at, x) /\ ~FrameLeft(u, at, s.close[i])
    <3>1. /\ at.target \in Int /\ at.stop \in Int /\ h.target = at.target
          /\ h.stop \in Int /\ h.stop >= at.stop
      BY <1>5, <2>5 DEF FrameStands
    <3>2. FrameStands(u.family, at, x)
      BY <2>3, <2>4, <3>1 DEF FrameStands
    <3>3. Ok(h.target) /\ Ok(h.stop)
      BY <3>1, NaNAssumption DEF Ok
    <3>4. ~(close >= at.target) /\ ~(close <= at.stop)
      BY <1>11, <3>1, <3>3
    <3> QED BY <1>3, <3>2, <3>4 DEF FrameLeft
  <2> HIDE DEF said
  <2> QED BY <1>6, <1>8, <2>2, <2>3, <2>5 DEF FrameKept, Says
<1>12. CASE i > p.pivotWindow + 2 /\ ~pos.in /\ DarvasBreaks(p, s, i, h)
  <2>1. said = Says("Buy", entry)
    BY <1>2, <1>12
  <2>2. h \in DarvasMemory /\ Ok(h.boxTop) /\ Ok(h.boxBot) /\ Ok(h.swingLow) /\ Ok(h.swingHigh)
    BY <1>5, <1>12 DEF DarvasKnows, DarvasBreaks
  <2>3. h.boxTop \in Int /\ h.boxBot \in Int /\ h.swingLow \in Int /\ h.swingHigh \in Int
    BY <2>2 DEF DarvasMemory, Reading, Ok
  <2>4. PICK goal \in Int : goal = h.swingHigh + (p.targetLevel * swing) \div Permille
    BY SMTT(30), <1>2, <2>3 DEF Permille
  <2>5. PICK floor \in Int : floor = h.boxBot - (p.stopBelowBox * (h.boxTop - h.boxBot)) \div Permille
    BY <1>2, <2>3 DEF Permille
  <2>6. PICK x : x = [h EXCEPT !.target = goal, !.stop = floor]
    OBVIOUS
  <2>7. DarvasKnows(x) /\ x.target = goal /\ x.stop = floor
    <3>1. goal \in Reading /\ floor \in Reading
      BY DEF Reading
    <3> QED BY <1>5, <2>2, <2>6, <3>1 DEF DarvasKnows, DarvasMemory
  <2>8. entry = x
    BY <2>4, <2>5, <2>6
  <2>9. FrameStands(u.family, x, x)
    BY <2>7 DEF FrameStands
  <2>10. i > Warmup(u) /\ ~pos.in
    BY <1>2, <1>7, <1>12
  <2> HIDE DEF said, entry
  <2> QED BY <1>6, <1>8, <2>1, <2>7, <2>8, <2>9, <2>10 DEF FrameKept, Says
<1>13. CASE i > p.pivotWindow + 2 /\ ~pos.in /\ ~DarvasBreaks(p, s, i, h)
  <2>1. said = Says("Hold", h)
    BY <1>2, <1>13
  <2> HIDE DEF said
  <2> QED BY <1>5, <1>6, <1>8, <1>13, <2>1 DEF FrameKept, Says
<1>14. i <= p.pivotWindow + 2 \/ i > p.pivotWindow + 2
  BY <1>2
<1> HIDE DEF said, done
<1> QED BY <1>9, <1>10, <1>11, <1>12, <1>13, <1>14

LEMMA SwingKept ==
    ASSUME NEW s, IsStore(s), NEW i \in 1..Len(s.close), NEW p, p.pivotWindow \in Nat \ {0},
           NEW h, h \in FibMemory
    PROVE  LET swing == FibSwing(p, s, i, h)
           IN  swing \in FibMemory /\ swing.entryTop = h.entryTop /\ swing.entryBot = h.entryBot
<1>1. PICK k \in Nat \ {0} : k = p.pivotWindow
  OBVIOUS
<1>2. PICK j : j = Confirmed(i, k)
  OBVIOUS
<1>3. PICK ph, pl \in BOOLEAN : ph = PivotHigh(s, j, k) /\ pl = PivotLow(s, j, k)
  BY DEF PivotHigh, PivotLow
<1>4. ph \/ pl => j \in Int /\ s.high[j] \in Reading /\ s.low[j] \in Reading
  <2>1. ph \/ pl => j \in 1..(i - k) /\ s.high[j] \in Int /\ s.low[j] \in Int
    BY <1>1, <1>2, <1>3, PivotNumbers
  <2> QED BY <2>1 DEF Reading
<1>5. FibSwing(p, s, i, h) = IF pl THEN [h EXCEPT !.bot = s.low[j], !.top = NaN]
                             ELSE IF ph /\ Ok(h.bot)
                             THEN (IF s.high[j] > h.bot THEN [h EXCEPT !.top = s.high[j], !.topIdx = j] ELSE h)
                             ELSE h
  BY <1>1, <1>2, <1>3 DEF FibSwing
<1>6. NaN \in Reading
  BY DEF Reading
<1> QED BY <1>4, <1>5, <1>6 DEF FibMemory

LEMMA FibFrameKept ==
    ASSUME NEW u, u.family = "fib_ichimoku", FrameIsNumbers(u), NEW s, IsStore(s), NEW i \in 1..Len(s.close),
           NEW pos, NEW was, was \in FibMemory
    PROVE  FrameKept(u, s, i, pos, was, FibIchimoku(u.p, s, i, pos, was))
<1>1. PICK p : p = u.p
  OBVIOUS
<1>2. p.pivotWindow \in Nat \ {0}
  BY <1>1 DEF FrameIsNumbers
<1>3. PICK close : close = s.close[i]
  OBVIOUS
<1>4. PICK h : h = FibSwing(p, s, i, was)
  OBVIOUS
<1>5. h \in FibMemory /\ h.entryTop = was.entryTop /\ h.entryBot = was.entryBot
  BY <1>2, <1>4, SwingKept
<1> DEFINE reached == Permille * (h.top - s.low[i]) >= p.entryZoneNear * (h.top - h.bot)
           enters == FibClear(p, s, i, h) /\ ~(close <= h.bot) /\ reached /\ IchimokuAgrees(p, s, i)
           said == IF i <= p.pivotWindow + 2 THEN Says("Hold", was)
                   ELSE IF pos.in THEN Says(Leave(FibDone(p, s, i, h)), h)
                   ELSE IF ~FibClear(p, s, i, h) THEN Says("Hold", h)
                   ELSE IF close <= h.bot THEN Says("Hold", [h EXCEPT !.top = NaN])
                   ELSE IF reached /\ IchimokuAgrees(p, s, i)
                   THEN Says("Buy", [h EXCEPT !.entryTop = h.top, !.entryBot = h.bot])
                   ELSE Says("Hold", h)
<1>6. FibIchimoku(u.p, s, i, pos, was) = said
  BY <1>1, <1>3, <1>4 DEF FibIchimoku
<1>7. Warmup(u) = p.pivotWindow + 2
  BY <1>1 DEF Warmup
<1>8. \A x \in FibMemory : Knows(u.family, i, x)
  BY DEF Knows
<1>9. CASE i <= p.pivotWindow + 2
  <2>1. said = Says("Hold", was)
    BY <1>9
  <2>2. ~(i > Warmup(u))
    BY <1>2, <1>7, <1>9
  <2> HIDE DEF said
  <2> QED BY <1>6, <1>8, <2>1, <2>2 DEF FrameKept, Says
<1>10. CASE i > p.pivotWindow + 2 /\ pos.in
  <2>1. said = Says(Leave(FibDone(p, s, i, h)), h)
    BY <1>2, <1>10
  <2>2. PICK x : x = Leave(FibDone(p, s, i, h))
    OBVIOUS
  <2>3. x # "Buy" /\ (x # "Sell" => ~FibDone(p, s, i, h))
    BY <2>2 DEF Leave, Choice
  <2>4. ASSUME NEW at, FrameStands(u.family, at, was), ~FibDone(p, s, i, h)
        PROVE  FrameStands(u.family, at, h) /\ ~FrameLeft(u, at, s.close[i])
    <3>1. Ok(at.entryTop) /\ Ok(at.entryBot) /\ h.entryTop = at.entryTop /\ h.entryBot = at.entryBot
      BY <1>5, <2>4 DEF FrameStands
    <3>2. FrameStands(u.family, at, h)
      BY <3>1 DEF FrameStands
    <3>3. FibFramed(h)
      BY <3>1 DEF FibFramed
    <3>4. ~FrameLeft(u, at, s.close[i])
      BY <1>1, <2>4, <3>1, <3>3 DEF FrameLeft, FibDone
    <3> QED BY <3>2, <3>4
  <2> HIDE DEF said
  <2> QED BY <1>5, <1>6, <1>8, <2>1, <2>2, <2>3, <2>4 DEF FrameKept, Says
<1>11. CASE i > p.pivotWindow + 2 /\ ~pos.in /\ enters
  <2>1. PICK x : x = [h EXCEPT !.entryTop = h.top, !.entryBot = h.bot]
    OBVIOUS
  <2>2. said = Says("Buy", x)
    BY <1>2, <1>11, <2>1
  <2>3. Ok(h.top) /\ Ok(h.bot)
    BY <1>11 DEF FibClear
  <2>4. x \in FibMemory /\ x.entryTop = h.top /\ x.entryBot = h.bot
    BY <1>5, <2>1 DEF FibMemory
  <2>5. FrameStands(u.family, x, x)
    BY <2>3, <2>4 DEF FrameStands
  <2>6. i > Warmup(u)
    BY <1>2, <1>7, <1>11
  <2> HIDE DEF said
  <2> QED BY <1>6, <1>8, <1>11, <2>2, <2>4, <2>5, <2>6 DEF FrameKept, Says
<1>12. CASE i > p.pivotWindow + 2 /\ ~pos.in /\ ~enters
  <2>1. [h EXCEPT !.top = NaN] \in FibMemory
    BY <1>5 DEF FibMemory, Reading
  <2>2. \E x \in FibMemory : said = Says("Hold", x)
    BY <1>2, <1>5, <1>12, <2>1
  <2> HIDE DEF said
  <2> QED BY <1>6, <1>8, <1>12, <2>2 DEF FrameKept, Says
<1>13. i <= p.pivotWindow + 2 \/ i > p.pivotWindow + 2
  BY <1>2
<1> HIDE DEF said, enters
<1> QED BY <1>9, <1>10, <1>11, <1>12, <1>13

LEMMA TurnsKept ==
    ASSUME NEW s, IsStore(s), NEW i \in 1..Len(s.close), NEW p, p.pivotWindow \in Nat \ {0},
           NEW turns \in Seq(TurnsBefore(i))
    PROVE  TurnsAfter(p, s, i, turns) \in Seq(TurnsBefore(i))
<1>1. PICK k \in Nat \ {0} : k = p.pivotWindow
  OBVIOUS
<1>2. PICK j : j = Confirmed(i, k)
  OBVIOUS
<1>3. ASSUME NEW high \in BOOLEAN, PivotHigh(s, j, k) \/ PivotLow(s, j, k)
      PROVE  Pushed(turns, Turn(s, j, high)) \in Seq(TurnsBefore(i))
  <2>1. j \in 1..(i - k) /\ s.high[j] \in Int /\ s.low[j] \in Int
    BY <1>1, <1>2, <1>3, PivotNumbers
  <2>2. i \in Nat
    BY StoreLength
  <2>3. j \in 1..(i - 1)
    BY <1>1, <2>1, <2>2
  <2>4. PICK t \in TurnsBefore(i) : t = Turn(s, j, high)
    BY <2>1, <2>3 DEF Turn, TurnsBefore
  <2>5. PICK S : S = TurnsBefore(i)
    OBVIOUS
  <2>6. PICK n \in Nat : n = Len(turns)
    OBVIOUS
  <2>7. turns \in Seq(S) /\ t \in S
    BY <2>5
  <2>8. Append(turns, t) \in Seq(S) /\ Len(Append(turns, t)) = n + 1
    BY <2>6, <2>7
  <2>9. Tail(Append(turns, t)) \in Seq(S)
    BY <2>6, <2>8
  <2>10. n > 0 => [turns EXCEPT ![n] = t] \in Seq(S)
    BY <2>6, <2>7
  <2>11. Pushed(turns, t) \in Seq(S)
    BY <2>6, <2>7, <2>8, <2>9, <2>10 DEF Pushed
  <2> QED BY <2>4, <2>5, <2>11
<1> QED BY <1>1, <1>2, <1>3 DEF TurnsAfter

LEMMA NewestAre ==
    ASSUME NEW S, NEW turns \in Seq(S), NEW n \in Nat, Len(turns) >= n, NEW k \in 1..n
    PROVE  Newest(turns, n)[k] \in S
<1>1. PICK m \in Nat : m = Len(turns) /\ m >= n
  OBVIOUS
<1>2. m - n + k \in 1..m
  BY <1>1
<1>3. turns[m - n + k] \in S
  BY <1>1, <1>2
<1> QED BY <1>1, <1>3 DEF Newest

\* A match is a level, a low and a height that are numbers.
Numbered(m) == m.level \in Int /\ m.low \in Int /\ m.height \in Int

LEMMA ShapeNumbered ==
    ASSUME NEW level \in Int, NEW low \in Int, NEW height \in Int
    PROVE  Numbered(Shape(level, low, height))
BY DEF Numbered, Shape

LEMMA ShapesNumbered ==
    ASSUME NEW s, IsStore(s), NEW i \in 1..Len(s.close), NEW p, NEW turns \in Seq(TurnsBefore(i))
    PROVE  /\ Ok(DoubleBottom(p, i, turns)) => Numbered(DoubleBottom(p, i, turns))
           /\ Ok(InverseHS(p, i, turns)) => Numbered(InverseHS(p, i, turns))
           /\ Ok(CupHandle(p, s, i, turns)) => Numbered(CupHandle(p, s, i, turns))
           /\ Ok(BullFlag(p, s, i, turns)) => Numbered(BullFlag(p, s, i, turns))
           /\ Ok(AscTriangle(p, i, turns)) => Numbered(AscTriangle(p, i, turns))
           /\ Ok(SymTriangle(p, i, turns)) => Numbered(SymTriangle(p, i, turns))
           /\ Ok(Butterfly(p, i, turns)) => Numbered(Butterfly(p, i, turns))
           /\ Ok(Cypher(p, i, turns)) => Numbered(Cypher(p, i, turns))
<1>1. ASSUME NEW n \in Nat, Len(turns) >= n, NEW k \in 1..n
      PROVE  Newest(turns, n)[k].px \in Int /\ Newest(turns, n)[k].idx \in 1..(i - 1)
  <2>1. Newest(turns, n)[k] \in TurnsBefore(i)
    BY <1>1, NewestAre
  <2> QED BY <2>1 DEF TurnsBefore
<1>2. i \in Nat \ {0}
  BY StoreLength
<1>3. ASSUME NEW from \in 1..(i - 1)
      PROVE  /\ Lowest(Column(s.low, from..(i - 1))) \in Int
             /\ Lowest(Column(s.low, from..(i - 1))) \in Int /\ Highest(Column(s.high, from..(i - 1))) \in Int
  <2>1. from \in Nat /\ i - 1 \in Nat /\ from <= i - 1
    BY <1>2
  <2>2. Len(s.close) \in Nat
    BY StoreLength
  <2>3. \A k \in from..(i - 1) : k \in 1..Len(s.close)
    BY <1>2, <2>1, <2>2
  <2>4. \A k \in from..(i - 1) : s.low[k] \in Int /\ s.high[k] \in Int
    BY <2>3, BarNumbers
  <2>5. PICK lows, highs : lows = s.low /\ highs = s.high
    OBVIOUS
  <2>6. \A k \in from..(i - 1) : lows[k] \in Int /\ highs[k] \in Int
    BY <2>4, <2>5
  <2>7. Lowest(Column(lows, from..(i - 1))) \in Int
    BY <2>1, <2>6, ExtremesAreNumbers
  <2>8. Highest(Column(highs, from..(i - 1))) \in Int
    BY <2>1, <2>6, ExtremesAreNumbers
  <2> QED BY <2>5, <2>7, <2>8
<1>4. /\ Len(<<FALSE, TRUE, FALSE>>) = 3 /\ Len(<<TRUE, FALSE, TRUE>>) = 3 /\ Len(<<FALSE, TRUE>>) = 2
      /\ Len(<<FALSE, TRUE, FALSE, TRUE, FALSE>>) = 5
      /\ Len(<<TRUE, FALSE, TRUE, FALSE>>) = 4 /\ Len(<<FALSE, TRUE, FALSE, TRUE>>) = 4
  OBVIOUS
<1>5. ASSUME Ok(DoubleBottom(p, i, turns)) PROVE Numbered(DoubleBottom(p, i, turns))
  <2>1. Len(turns) >= 3
    BY <1>4, <1>5 DEF DoubleBottom, Where, Ok, Turns
  <2>2. PICK t : t = Newest(turns, 3)
    OBVIOUS
  <2>3. t[1].px \in Int /\ t[2].px \in Int /\ t[3].px \in Int
    BY <1>1, <2>1, <2>2
  <2>4. PICK low \in Int : low = Smaller(t[1].px, t[3].px)
    BY <2>3 DEF Smaller
  <2>5. DoubleBottom(p, i, turns) = Shape(t[2].px, low, t[2].px - low)
    BY <1>5, <2>2, <2>4 DEF DoubleBottom, Where, Ok
  <2>6. t[2].px - low \in Int
    BY <2>3
  <2> QED BY <2>3, <2>5, <2>6, ShapeNumbered
<1>6. ASSUME Ok(InverseHS(p, i, turns)) PROVE Numbered(InverseHS(p, i, turns))
  <2>1. Len(turns) >= 5
    BY <1>4, <1>6 DEF InverseHS, Where, Ok, Turns
  <2>2. PICK t : t = Newest(turns, 5)
    OBVIOUS
  <2>3. t[2].px \in Int /\ t[3].px \in Int /\ t[4].px \in Int
    <3>1. \A k \in 1..5 : t[k].px \in Int
      BY <1>1, <2>1, <2>2
    <3> QED BY <3>1
  <2>4. PICK neck \in Int : neck = Larger(t[2].px, t[4].px)
    BY <2>3 DEF Larger
  <2>5. InverseHS(p, i, turns) = Shape(neck, t[3].px, neck - t[3].px)
    BY <1>6, <2>2, <2>4 DEF InverseHS, Where, Ok
  <2>6. neck - t[3].px \in Int
    BY <2>3
  <2> QED BY <2>3, <2>5, <2>6, ShapeNumbered
<1>7. ASSUME Ok(CupHandle(p, s, i, turns)) PROVE Numbered(CupHandle(p, s, i, turns))
  <2>1. Len(turns) >= 3
    BY <1>4, <1>7 DEF CupHandle, Where, Ok, Turns
  <2>2. PICK t : t = Newest(turns, 3)
    OBVIOUS
  <2>3. t[1].px \in Int /\ t[2].px \in Int /\ t[3].px \in Int /\ t[3].idx \in 1..(i - 1)
    BY <1>1, <2>1, <2>2
  <2>4. PICK low \in Int : low = Lowest(Column(s.low, t[3].idx..(i - 1)))
    BY <1>3, <2>3
  <2>5. PICK rim \in Int, h \in Int : rim = Larger(t[1].px, t[3].px) /\ h = Smaller(t[1].px, t[3].px) - t[2].px
    BY SMTT(30), <2>3 DEF Larger, Smaller
  <2>6. CupHandle(p, s, i, turns) = Shape(rim, low, h)
    BY <1>7, <2>2, <2>4, <2>5 DEF CupHandle, Where, Ok
  <2> QED BY <2>6, ShapeNumbered
<1>8. ASSUME Ok(BullFlag(p, s, i, turns)) PROVE Numbered(BullFlag(p, s, i, turns))
  <2>1. Len(turns) >= 2
    BY <1>4, <1>8 DEF BullFlag, Where, Ok, Turns
  <2>2. PICK t : t = Newest(turns, 2)
    OBVIOUS
  <2>3. t[1].px \in Int /\ t[2].px \in Int /\ t[2].idx \in 1..(i - 1)
    BY <1>1, <2>1, <2>2
  <2>4. PICK lo \in Int : lo = Lowest(Column(s.low, FlagBars(t[2], i)))
    BY <1>3, <2>3 DEF FlagBars
  <2>5. PICK hi \in Int : hi = Highest(Column(s.high, FlagBars(t[2], i)))
    BY <1>3, <2>3 DEF FlagBars
  <2>6. BullFlag(p, s, i, turns) = Shape(hi, lo, t[2].px - t[1].px)
    BY <1>8, <2>2, <2>4, <2>5 DEF BullFlag, Where, Ok
  <2>7. t[2].px - t[1].px \in Int
    BY <2>3
  <2> QED BY <2>6, <2>7, ShapeNumbered
<1>9. ASSUME Len(turns) >= 4
      PROVE  LET q == TriangleOf(turns)
             IN  /\ q.highA \in Int /\ q.highB \in Int /\ q.lowA \in Int /\ q.lowB \in Int
                 /\ Larger(q.highA, q.highB) \in Int
                 /\ Larger(q.highA, q.highB) - Smaller(q.lowA, q.lowB) \in Int
  <2>1. PICK t : t = Newest(turns, 4)
    OBVIOUS
  <2>2. t[1].px \in Int /\ t[2].px \in Int /\ t[3].px \in Int /\ t[4].px \in Int
    BY SMTT(30), <1>1, <1>9, <2>1
  <2>3. PICK q : q = TriangleOf(turns)
    OBVIOUS
  <2>4. q.highA \in {t[1].px, t[1 + 1].px} /\ q.lowA \in {t[1].px, t[1 + 1].px}
    BY <2>1, <2>3 DEF TriangleOf
  <2>5. q.highB \in {t[3].px, t[3 + 1].px} /\ q.lowB \in {t[3].px, t[3 + 1].px}
    BY <2>1, <2>3 DEF TriangleOf
  <2>6. 1 + 1 = 2 /\ 3 + 1 = 4
    OBVIOUS
  <2>7. q.highA \in Int /\ q.highB \in Int /\ q.lowA \in Int /\ q.lowB \in Int
    BY <2>2, <2>4, <2>5, <2>6
  <2> QED BY <2>3, <2>7 DEF Larger, Smaller
<1>10. Converging(p, i, turns) => Len(turns) >= 4
  BY <1>4 DEF Converging, Turns
<1>11. ASSUME Ok(AscTriangle(p, i, turns)) PROVE Numbered(AscTriangle(p, i, turns))
  <2>1. Len(turns) >= 4
    BY <1>10, <1>11 DEF AscTriangle, Where, Ok
  <2>2. PICK q : q = TriangleOf(turns)
    OBVIOUS
  <2>3. PICK top \in Int, h \in Int : top = Larger(q.highA, q.highB)
                                     /\ h = Larger(q.highA, q.highB) - Smaller(q.lowA, q.lowB)
    BY <1>9, <2>1, <2>2
  <2>4. AscTriangle(p, i, turns) = Shape(top, q.lowB, h)
    BY <1>11, <2>2, <2>3 DEF AscTriangle, Where, Ok
  <2>5. q.lowB \in Int
    BY <1>9, <2>1, <2>2
  <2> QED BY <2>4, <2>5, ShapeNumbered
<1>12. ASSUME Ok(SymTriangle(p, i, turns)) PROVE Numbered(SymTriangle(p, i, turns))
  <2>1. Len(turns) >= 4
    BY <1>10, <1>12 DEF SymTriangle, Where, Ok
  <2>2. PICK q : q = TriangleOf(turns)
    OBVIOUS
  <2>3. PICK h \in Int : h = Larger(q.highA, q.highB) - Smaller(q.lowA, q.lowB)
    BY <1>9, <2>1, <2>2
  <2>4. SymTriangle(p, i, turns) = Shape(q.highB, q.lowB, h)
    BY <1>12, <2>2, <2>3 DEF SymTriangle, Where, Ok
  <2>5. q.highB \in Int /\ q.lowB \in Int
    BY <1>9, <2>1, <2>2
  <2> QED BY <2>4, <2>5, ShapeNumbered
<1>13. Legs(p, i, turns) => Len(turns) >= 4
  BY <1>4 DEF Legs, Turns
<1>14. ASSUME Ok(Butterfly(p, i, turns)) PROVE Numbered(Butterfly(p, i, turns))
  <2>1. Len(turns) >= 4
    BY <1>13, <1>14 DEF Butterfly, Where, Ok
  <2>2. PICK t : t = Newest(turns, 4)
    OBVIOUS
  <2>3. t[1].px \in Int /\ t[2].px \in Int /\ t[4].px \in Int
    BY <1>1, <2>1, <2>2
  <2>4. PICK xa \in Int : xa = t[1].px - t[2].px
    BY <2>3
  <2>5. PICK d \in Int : d = t[1].px - (1270 * xa) \div Permille
    BY <2>3 DEF Permille
  <2>6. PICK low \in Int : low = t[1].px - (1618 * xa) \div Permille
    BY <2>3 DEF Permille
  <2>7. Butterfly(p, i, turns) = Shape(d, low, t[4].px - d)
    BY <1>14, <2>2, <2>4, <2>5, <2>6 DEF Butterfly, Where, Ok
  <2>8. t[4].px - d \in Int
    BY <2>3
  <2> QED BY <2>7, <2>8, ShapeNumbered
<1>15. ASSUME Ok(Cypher(p, i, turns)) PROVE Numbered(Cypher(p, i, turns))
  <2>1. Len(turns) >= 4
    BY <1>13, <1>15 DEF Cypher, Where, Ok
  <2>2. PICK t : t = Newest(turns, 4)
    OBVIOUS
  <2>3. t[1].px \in Int /\ t[4].px \in Int
    BY <1>1, <2>1, <2>2
  <2>4. PICK d \in Int : d = t[4].px + (786 * (t[1].px - t[4].px)) \div Permille
    BY SMTT(30), <2>3 DEF Permille
  <2>5. Cypher(p, i, turns) = Shape(d, t[4].px, t[1].px - d)
    BY <1>15, <2>2, <2>4 DEF Cypher, Where, Ok
  <2>6. t[1].px - d \in Int
    BY <2>3
  <2> QED BY <2>3, <2>5, <2>6, ShapeNumbered
<1> QED BY <1>5, <1>6, <1>7, <1>8, <1>11, <1>12, <1>14, <1>15

LEMMA MatchNumbered ==
    ASSUME NEW s, IsStore(s), NEW i \in 1..Len(s.close), NEW p, NEW turns \in Seq(TurnsBefore(i)),
           NEW name, name = FirstMatch(p, s, i, turns), Ok(name)
    PROVE  Numbered(Match(name, p, s, i, turns))
<1> DEFINE hits == { k \in DOMAIN PatternOrder :
                         PatternOrder[k] \in p.use /\ Ok(Match(PatternOrder[k], p, s, i, turns)) }
<1>1. hits # {} /\ name = PatternOrder[Lowest(hits)]
  BY DEF FirstMatch, Ok
<1>2. hits \in SUBSET Nat
  BY DEF PatternOrder
<1>3. DOMAIN PatternOrder = 1..8
  BY DEF PatternOrder
<1>4. Lowest(hits) \in hits
  <2> HIDE DEF hits
  <2>1. PICK m \in hits : \A x \in hits : m <= x
    <3> DEFINE R == OpToRel(<, Nat)
    <3>1. IsWellFoundedOn(R, Nat)
      BY NatLessThanWellFounded
    <3>2. \A x, y \in Nat : x < y => <<x, y>> \in R
      BY DEF OpToRel
    <3> HIDE DEF R
    <3>3. PICK m \in hits : \A x \in Nat : <<x, m>> \in R => x \notin hits
      BY <1>1, <1>2, <3>1, WFMin
    <3>4. ASSUME NEW x \in hits PROVE m <= x
      <4>1. m \in Nat /\ x \in Nat
        BY <1>2
      <4>2. ~(x < m)
        BY <3>2, <3>3, <4>1
      <4> QED BY <4>1, <4>2
    <3> QED BY <3>4
  <2> QED BY <2>1 DEF Lowest
<1>5. Ok(Match(name, p, s, i, turns)) /\ \E k \in 1..8 : name = PatternOrder[k]
  BY <1>1, <1>3, <1>4
<1>6. name \in {"db", "ihs", "cup", "flag", "asc", "sym", "butterfly", "cypher"}
  <2>1. \A k \in 1..8 : k = 1 \/ k = 2 \/ k = 3 \/ k = 4 \/ k = 5 \/ k = 6 \/ k = 7 \/ k = 8
    OBVIOUS
  <2> QED BY <1>5, <2>1 DEF PatternOrder
<1> HIDE DEF hits
<1>7. PICK m : m = Match(name, p, s, i, turns) /\ Ok(m)
  BY <1>5
<1>8. m \in {DoubleBottom(p, i, turns), InverseHS(p, i, turns), CupHandle(p, s, i, turns), BullFlag(p, s, i, turns),
             AscTriangle(p, i, turns), SymTriangle(p, i, turns), Butterfly(p, i, turns), Cypher(p, i, turns)}
  BY <1>6, <1>7 DEF Match
<1>9. Numbered(m)
  BY <1>7, <1>8, ShapesNumbered
<1> QED BY <1>7, <1>9

LEMMA PatternsFramed ==
    ASSUME NEW u, u.family = "patterns", FrameIsNumbers(u), NEW s, IsStore(s), NEW i \in 1..Len(s.close),
           NEW pos, NEW was, was \in PatternMemory(i)
    PROVE  FrameKept(u, s, i, pos, was, Patterns(u.p, s, i, pos, was))
<1>1. PICK p : p = u.p
  OBVIOUS
<1>2. p.pivotWindow \in Nat \ {0} /\ p.targetHeight \in Int /\ p.stopBelowLow \in Int
  BY <1>1 DEF FrameIsNumbers
<1>3. PICK close \in Int : close = s.close[i]
  BY BarNumbers
<1>4. was.turns \in Seq(TurnsBefore(i)) /\ was.target \in Reading /\ was.stop \in Reading
  BY DEF PatternMemory
<1>5. PICK turns \in Seq(TurnsBefore(i)) : turns = TurnsAfter(p, s, i, was.turns)
  BY <1>2, <1>4, TurnsKept
<1>6. PICK h : h = [was EXCEPT !.turns = turns]
  OBVIOUS
<1>7. h \in PatternMemory(i) /\ h.target = was.target /\ h.stop = was.stop
  BY <1>6 DEF PatternMemory
<1>8. PICK a, c : a = Atr(s, p.atrWindow)[i] /\ c = CandleSignals(s)[i]
  OBVIOUS
<1>9. PICK name : name = FirstMatch(p, s, i, turns)
  OBVIOUS
<1>10. PICK m : m = Match(name, p, s, i, turns)
  OBVIOUS
<1> DEFINE done == \/ Ok(h.target) /\ close >= h.target
                   \/ Ok(h.stop) /\ close <= h.stop
                   \/ p.exitOnBearCandle /\ c \cap Bearish # {}
           enters == Ok(a) /\ ~(a <= 0) /\ Ok(name) /\ Confirms(p, s, i, name, m)
           entry == [h EXCEPT !.target = m.level + (p.targetHeight * m.height) \div Permille,
                              !.stop = (m.low * (Permille - p.stopBelowLow)) \div Permille]
           said == IF i <= p.pivotWindow + 3 THEN Says("Hold", was)
                   ELSE IF pos.in THEN Says(Leave(done), h)
                   ELSE IF ~Ok(a) THEN Says("Hold", h)
                   ELSE IF a <= 0 \/ ~Ok(name) THEN Says("Hold", h)
                   ELSE IF Confirms(p, s, i, name, m) THEN Says("Buy", entry)
                   ELSE Says("Hold", h)
<1>11. Patterns(u.p, s, i, pos, was) = said
  BY <1>1, <1>3, <1>5, <1>6, <1>8, <1>9, <1>10 DEF Patterns, TurnsAfter
<1>12. Warmup(u) = p.pivotWindow + 3
  BY <1>1 DEF Warmup
<1>13. \A x \in PatternMemory(i) : Knows(u.family, i, x)
  BY DEF Knows
<1>14. CASE i <= p.pivotWindow + 3
  <2>1. said = Says("Hold", was)
    BY <1>14
  <2>2. ~(i > Warmup(u))
    BY <1>2, <1>12, <1>14
  <2> HIDE DEF said
  <2> QED BY <1>11, <1>13, <2>1, <2>2 DEF FrameKept, Says
<1>15. CASE i > p.pivotWindow + 3 /\ pos.in
  <2>1. said = Says(Leave(done), h)
    <3>1. ~(i <= p.pivotWindow + 3)
      BY <1>2, <1>15
    <3> HIDE DEF done, entry
    <3> QED BY <1>15, <3>1
  <2>2. PICK x : x = Leave(done)
    OBVIOUS
  <2>3. x # "Buy" /\ (x # "Sell" => ~done)
    BY <2>2 DEF Leave, Choice
  <2>4. ASSUME NEW at, FrameStands(u.family, at, was), ~done
        PROVE  FrameStands(u.family, at, h) /\ ~FrameLeft(u, at, s.close[i])
    <3>1. at.target \in Int /\ at.stop \in Int /\ h.target = at.target /\ h.stop = at.stop
      BY <1>7, <2>4 DEF FrameStands
    <3>2. FrameStands(u.family, at, h)
      BY <3>1 DEF FrameStands
    <3>3. Ok(h.target) /\ Ok(h.stop)
      BY <3>1, NaNAssumption DEF Ok
    <3>4. ~(close >= at.target) /\ ~(close <= at.stop)
      BY <2>4, <3>1, <3>3
    <3> QED BY <1>3, <3>2, <3>4 DEF FrameLeft
  <2> HIDE DEF said, done
  <2> QED BY <1>7, <1>11, <1>13, <2>1, <2>2, <2>3, <2>4 DEF FrameKept, Says
<1>16. CASE i > p.pivotWindow + 3 /\ ~pos.in /\ enters
  <2>1. said = Says("Buy", entry)
    BY <1>2, <1>16
  <2>2. m.level \in Int /\ m.low \in Int /\ m.height \in Int
    BY <1>9, <1>10, <1>16, MatchNumbered DEF Numbered
  <2>3. PICK goal \in Int : goal = m.level + (p.targetHeight * m.height) \div Permille
    BY <1>2, <2>2 DEF Permille
  <2>4. PICK floor \in Int : floor = (m.low * (Permille - p.stopBelowLow)) \div Permille
    BY <1>2, <2>2 DEF Permille
  <2>5. PICK x : x = [h EXCEPT !.target = goal, !.stop = floor]
    OBVIOUS
  <2>6. x \in PatternMemory(i) /\ x.target = goal /\ x.stop = floor
    <3>1. goal \in Reading /\ floor \in Reading
      BY DEF Reading
    <3> QED BY <1>7, <2>5, <3>1 DEF PatternMemory
  <2>7. entry = x
    BY <2>3, <2>4, <2>5
  <2>8. FrameStands(u.family, x, x)
    BY <2>6 DEF FrameStands
  <2>9. i > Warmup(u) /\ ~pos.in
    BY <1>2, <1>12, <1>16
  <2> HIDE DEF said, entry
  <2> QED BY <1>11, <1>13, <2>1, <2>6, <2>7, <2>8, <2>9 DEF FrameKept, Says
<1>17. CASE i > p.pivotWindow + 3 /\ ~pos.in /\ ~enters
  <2>1. said = Says("Hold", h)
    BY <1>2, <1>17
  <2> HIDE DEF said, enters
  <2> QED BY <1>7, <1>11, <1>13, <1>17, <2>1 DEF FrameKept, Says
<1>18. i <= p.pivotWindow + 3 \/ i > p.pivotWindow + 3
  BY <1>2
<1> HIDE DEF said, done, enters, entry
<1> QED BY <1>14, <1>15, <1>16, <1>17, <1>18

LEMMA RememberedFramed ==
    ASSUME NEW u, u.family \in Remembering, u.family # "pencil_extrap", FrameIsNumbers(u),
           NEW s, IsStore(s), NEW i \in 1..Len(s.close),
           NEW pos, NEW was, Knows(u.family, i - 1, was)
    PROVE  FrameKept(u, s, i, pos, was, Remembered(u.family, u.p, s, i, pos, was))
<1>1. i \in Nat \ {0}
  BY StoreLength
<1>2. Knows(u.family, i, was)
  BY <1>1, KnowsLater
<1>3. CASE u.family = "darvas"
  <2>1. DarvasKnows(was)
    BY <1>2, <1>3 DEF Knows
  <2>2. FrameKept(u, s, i, pos, was, Darvas(u.p, s, i, pos, was))
    BY <1>3, <2>1, DarvasFramed
  <2> QED BY <1>3, <2>2 DEF Remembered
<1>4. CASE u.family = "fib_ichimoku"
  <2>1. was \in FibMemory
    BY <1>2, <1>4 DEF Knows
  <2>2. FrameKept(u, s, i, pos, was, FibIchimoku(u.p, s, i, pos, was))
    BY <1>4, <2>1, FibFrameKept
  <2> QED BY <1>4, <2>2 DEF Remembered
<1>5. CASE u.family = "patterns"
  <2>1. was \in PatternMemory(i)
    BY <1>2, <1>5 DEF Knows
  <2>2. FrameKept(u, s, i, pos, was, Patterns(u.p, s, i, pos, was))
    BY <1>5, <2>1, PatternsFramed
  <2> QED BY <1>5, <2>2 DEF Remembered
<1> QED BY <1>3, <1>4, <1>5 DEF Remembering

\* In a trade at bar k: it was opened after the warmup, its frame stands, and
\* no close since is past it.
InFrame(u, s, f, k) ==
    f[k].pos.in =>
        LET e == f[k].pos.index
        IN  /\ e > Warmup(u) /\ FrameStands(u.family, f[e].hidden, f[k].hidden)
            /\ e < k => ~FrameLeft(u, f[e].hidden, s.close[k])
Framed(u, s, f, k) == Held(f[k].pos, k) /\ Knows(u.family, k, f[k].hidden) /\ InFrame(u, s, f, k)

LEMMA FramedStep ==
    ASSUME TheFamiliesPlay, NEW u, u.family \in Remembering, u.family # "pencil_extrap", FrameIsNumbers(u),
           NEW s, IsStore(s), NEW i \in 1..Len(s.close),
           NEW f, f[i] = Step(u, s, i, f[i - 1]), Framed(u, s, f, i - 1)
    PROVE  Framed(u, s, f, i)
<1>1. i \in Nat \ {0} /\ i - 1 \in Nat
  BY StoreLength
<1>2. PICK close \in Int : close = s.close[i]
  BY BarNumbers
<1>3. PICK was : was = f[i - 1]
  OBVIOUS
<1>4. Held(was.pos, i - 1) /\ Knows(u.family, i - 1, was.hidden) /\ InFrame(u, s, f, i - 1)
  BY <1>3 DEF Framed
<1>5. Held(was.pos, i)
  BY <1>1, <1>4 DEF Held
<1>6. PICK pos \in Positions : /\ pos = Observed(was.pos, close) /\ Held(pos, i)
                               /\ pos.in = was.pos.in /\ pos.index = was.pos.index
  <2>1. PICK old \in Positions : old = was.pos /\ Held(old, i)
    BY <1>5 DEF Held
  <2>2. PICK pos : pos = Observed(old, close)
    OBVIOUS
  <2>3. Held(pos, i) /\ pos.in = old.in
    BY <1>1, <2>1, <2>2, ObservedKeepsPosition
  <2>4. pos.index = old.index
    BY <2>2 DEF Observed, Positions
  <2>5. pos \in Positions
    BY <2>3 DEF Held
  <2> QED BY <2>1, <2>2, <2>3, <2>4, <2>5
<1>7. PICK rule : rule = Remembered(u.family, u.p, s, i, pos, was.hidden)
  OBVIOUS
<1>8. FrameKept(u, s, i, pos, was.hidden, rule)
  BY <1>4, <1>7, RememberedFramed
<1>9. \E x, y : rule = Says(x, y)
  BY <1>7, RememberedSays
<1>10. PICK said : said = OnBar(u, s, i, pos, was.hidden)
  OBVIOUS
<1>11. said.signal = Behind(u.gate, u.g, s, i, rule.signal) /\ said.hidden = rule.hidden
  <2>1. said = [rule EXCEPT !.signal = Behind(u.gate, u.g, s, i, rule.signal)]
    BY <1>7, <1>10 DEF TheFamiliesPlay, OnBarOfFamily
  <2> QED BY <1>9, <2>1 DEF Says
<1>12. HeldBack(said.signal, rule.signal)
  BY <1>11, GateHoldsBack DEF FrameIsNumbers
<1>13. PICK next : next = Filled(pos, said.signal, close, i)
  OBVIOUS
<1>14. f[i].pos = next /\ f[i].hidden = rule.hidden
  BY <1>2, <1>3, <1>6, <1>10, <1>11, <1>13 DEF Step
<1>15. Held(next, i)
  BY <1>1, <1>2, <1>6, <1>13, FillKeepsPosition
<1>16. Knows(u.family, i, rule.hidden)
  BY <1>8 DEF FrameKept
<1>17. CASE said.signal = "Buy" /\ ~pos.in
  <2>1. next.index = i
    BY <1>13, <1>17 DEF Filled, Opened
  <2>2. rule.signal = "Buy"
    BY <1>12, <1>17 DEF HeldBack
  <2>3. i > Warmup(u) /\ FrameStands(u.family, rule.hidden, rule.hidden)
    BY <1>8, <2>2 DEF FrameKept
  <2>4. InFrame(u, s, f, i)
    BY <1>1, <1>14, <2>1, <2>3 DEF InFrame
  <2> QED BY <1>14, <1>15, <1>16, <2>4 DEF Framed
<1>18. CASE ~(said.signal = "Buy" /\ ~pos.in) /\ next.in
  <2>1. said.signal # "Sell" /\ next = pos /\ pos.in
    BY <1>13, <1>18 DEF Filled, Flat
  <2>2. rule.signal # "Sell"
    BY <1>12, <2>1 DEF HeldBack
  <2>3. was.pos.in
    BY <1>6, <2>1
  <2>4. PICK e \in 1..(i - 1) : e = was.pos.index
    BY SMTT(30), <1>4, <2>3 DEF Held
  <2>5. e > Warmup(u) /\ FrameStands(u.family, f[e].hidden, was.hidden)
    BY <1>3, <1>4, <2>3, <2>4 DEF InFrame
  <2>6. i > Warmup(u)
    <3>1. Warmup(u) \in Int
      <4>1. u.p.pivotWindow \in Nat
        BY DEF FrameIsNumbers, Remembering
      <4> QED BY <4>1 DEF Warmup
    <3> QED BY <1>1, <2>5, <3>1
  <2>7. FrameStands(u.family, f[e].hidden, rule.hidden) /\ ~FrameLeft(u, f[e].hidden, s.close[i])
    BY <1>8, <2>1, <2>2, <2>5, <2>6 DEF FrameKept
  <2>8. f[i].pos.index = e
    BY <1>6, <1>14, <2>1, <2>4
  <2>9. InFrame(u, s, f, i)
    BY <1>14, <2>5, <2>7, <2>8 DEF InFrame
  <2> QED BY <1>14, <1>15, <1>16, <2>9 DEF Framed
<1>19. CASE ~next.in
  <2>1. InFrame(u, s, f, i)
    BY <1>14, <1>19 DEF InFrame
  <2> QED BY <1>14, <1>15, <1>16, <2>1 DEF Framed
<1> QED BY <1>17, <1>18, <1>19

SetupsAreFramed == \A u \in Setups : FrameIsNumbers(u)

LEMMA StoredKeepsFrame ==
    ASSUME TheFamiliesPlay, FamiliesArePrepared, SetupsAreFramed, StoreInv
    PROVE  TradeKeepsItsFrame
<1> SUFFICES ASSUME setup.family \in Remembering, NEW i \in Bars(series.close),
                    WholeReplay(setup, series)[i].pos.in,
                    WholeReplay(setup, series)[i].pos.index < i
             PROVE  LET whole == WholeReplay(setup, series)
                    IN  ~FrameLeft(setup, whole[whole[i].pos.index].hidden, series.close[i])
  BY DEF TradeKeepsItsFrame
<1>1. setup \in Setups /\ IsStore(series)
  BY DEF StoreInv, Stored
<1>2. PICK n \in Nat : n = Len(series.close) /\ i \in 1..n
  BY <1>1, StoreLength DEF Bars
<1>3. PICK u : u = setup
  OBVIOUS
<1>4. PICK s : s = series
  OBVIOUS
<1>5. PICK f : f = WholeReplay(u, s)
  OBVIOUS
<1>6. FrameIsNumbers(u) /\ IsStore(s) /\ u.family \in Remembering
  BY <1>1, <1>3, <1>4 DEF SetupsAreFramed
<1>7. f[0] = FreshFrom(u, Flat) /\ \A k \in 1..n : f[k] = Step(u, s, k, f[k - 1])
  BY <1>1, <1>2, <1>4, <1>5, WholeIs
<1>8. CASE u.family = "pencil_extrap"
  BY SMTT(30), <1>3, <1>8 DEF FrameLeft
<1>9. CASE u.family # "pencil_extrap"
  <2> DEFINE T == {k \in Nat : Framed(u, s, f, k)}
  <2>1. 0 \in T
    <3>1. f[0].pos = Flat /\ f[0].hidden = PreparedFamily(u.family)
      BY <1>7 DEF FreshFrom, FamiliesArePrepared
    <3>2. Held(Flat, 0) /\ ~Flat.in
      BY DEF Held, Flat, Positions
    <3>3. Knows(u.family, 0, f[0].hidden)
      BY <1>6, <3>1, PreparedKnows
    <3>4. InFrame(u, s, f, 0)
      BY <3>1, <3>2 DEF InFrame
    <3>5. Framed(u, s, f, 0)
      BY <3>1, <3>2, <3>3, <3>4 DEF Framed
    <3> QED BY <3>5
  <2>2. ASSUME NEW k \in (0 + 1)..n, k - 1 \in T PROVE k \in T
    <3>1. k \in Nat /\ k \in 1..n /\ k \in 1..Len(s.close)
      BY <1>2, <1>4
    <3>2. f[k] = Step(u, s, k, f[k - 1]) /\ Framed(u, s, f, k - 1)
      BY <1>7, <2>2, <3>1
    <3>3. Framed(u, s, f, k)
      BY <1>6, <1>9, <3>1, <3>2, FramedStep
    <3> QED BY <3>1, <3>3
  <2> HIDE DEF T
  <2>3. \A k \in 0..n : k \in T
    <3>1. 0 \in Nat
      OBVIOUS
    <3> QED BY <1>2, <2>1, <2>2, <3>1, AllFrom
  <2>4. Framed(u, s, f, i)
    <3>1. i \in 0..n
      BY <1>2
    <3> QED BY <2>3, <3>1 DEF T
  <2> QED BY <1>3, <1>4, <1>5, <2>4 DEF Framed, InFrame
<1> QED BY <1>8, <1>9

(* Of darvas, fib_ichimoku and patterns with any parameters, behind any    *)
(* gate, over every history: a trade is over on the first close past the   *)
(* target or at the stop it was opened with.  Whatever turns, boxes and    *)
(* swings form while it is open, the target stands and the stop is at the  *)
(* same price or above it.                                                 *)
THEOREM TradesKeepTheirFrame ==
    SetupsAreFramed /\ TheFamiliesPlay /\ FamiliesArePrepared /\ ReplaySpec => []TradeKeepsItsFrame
<1>1. CASE SetupsAreFramed /\ TheFamiliesPlay /\ FamiliesArePrepared
  <2>1. StoreInv => TradeKeepsItsFrame
    BY <1>1, StoredKeepsFrame
  <2> QED BY <2>1, StoreInvInit, StoreInvStep, PTL DEF ReplaySpec
<1>2. CASE ~(SetupsAreFramed /\ TheFamiliesPlay /\ FamiliesArePrepared)
  BY <1>2
<1> QED BY <1>1, <1>2

-----------------------------------------------------------------------------
(* Windows.  What is carried from bar to bar, a running sum, a running     *)
(* count or a countdown, is what the window holds: by induction over the   *)
(* bars, one enters and one leaves.                                        *)

LEMMA SumNone ==
    ASSUME NEW v, NEW a \in Int
    PROVE  SumOver(v, a, a - 1) = 0
<1>0. PICK e : e = <<v, a>>
  OBVIOUS
<1>1. e = <<v, a>> /\ e[1] = v /\ e[2] = a
  BY <1>0
<1>2. PICK f : f = Sums!Rec(e, a - 1, a - 1)
  OBVIOUS
<1>3. SumOver(v, a, a - 1) = f[a - 1] /\ Sums!LooksBack(e, a - 1, a - 1)
  BY SMTT(30), <1>1, <1>2, SumIs
<1>4. f[a - 1] = SumBody(e, f, a - 1)
  <2>1. a - 1 \in Int /\ a - 1 \in (a - 1)..(a - 1)
    OBVIOUS
  <2>2. \A i \in (a - 1)..(a - 1) : f[i] = SumBody(e, f, i)
    BY <1>2, <1>3, <2>1, Sums!Unfolds
  <2> QED BY <2>1, <2>2
<1> QED BY <1>1, <1>3, <1>4 DEF SumBody

LEMMA SumLast ==
    ASSUME NEW v, NEW a \in Int, NEW b \in Int, a <= b
    PROVE  SumOver(v, a, b) = SumOver(v, a, b - 1) + v[b]
<1>0. PICK e : e = <<v, a>>
  OBVIOUS
<1>1. e = <<v, a>> /\ e[1] = v /\ e[2] = a
  BY <1>0
<1>2. PICK f : f = Sums!Rec(e, a - 1, b)
  OBVIOUS
<1>3. PICK g : g = Sums!Rec(e, a - 1, b - 1)
  OBVIOUS
<1>4. a - 1 \in Int /\ b - 1 \in Int
  OBVIOUS
<1>5. SumOver(v, a, b) = f[b] /\ Sums!LooksBack(e, a - 1, b)
  BY <1>1, <1>2, SumIs
<1>6. SumOver(v, a, b - 1) = g[b - 1] /\ Sums!LooksBack(e, a - 1, b - 1)
  BY <1>1, <1>3, <1>4, SumIs
<1>7. \A i \in (a - 1)..b : f[i] = SumBody(e, f, i)
  BY <1>2, <1>4, <1>5, Sums!Unfolds
<1>8. f[b] = f[b - 1] + v[b]
  BY <1>1, <1>7 DEF SumBody
<1>9. f[b - 1] = g[b - 1]
  <2>1. \A i \in (a - 1)..(b - 1) : \A h : SumBody(e, h, i) = SumBody(e, h, i)
    OBVIOUS
  <2>2. b - 1 <= b /\ b - 1 <= b - 1 /\ b - 1 \in (a - 1)..(b - 1)
    OBVIOUS
  <2>3. \A i \in (a - 1)..(b - 1) : Sums!Rec(e, a - 1, b - 1)[i] = Sums!Rec(e, a - 1, b)[i]
    BY <1>4, <1>5, <1>6, <2>1, <2>2, Sums!Agree
  <2> QED BY <1>2, <1>3, <2>2, <2>3
<1> QED BY <1>5, <1>6, <1>8, <1>9

LEMMA SumIsInt ==
    ASSUME NEW v, NEW a \in Int, NEW b \in Int, \A k \in a..b : v[k] \in Int
    PROVE  a - 1 <= b => SumOver(v, a, b) \in Int
<1> DEFINE T == {k \in Int : SumOver(v, a, k) \in Int}
<1>1. ASSUME NEW k \in (a - 1)..b, \A j \in (a - 1)..(k - 1) : j \in T PROVE k \in T
  <2>1. CASE k = a - 1
    BY <2>1, SumNone
  <2>2. CASE k # a - 1
    <3>1. k \in a..b /\ k - 1 \in (a - 1)..(k - 1) /\ a <= k /\ k \in Int
      BY <2>2
    <3>2. SumOver(v, a, k - 1) \in Int /\ v[k] \in Int
      BY <1>1, <3>1
    <3>3. SumOver(v, a, k) = SumOver(v, a, k - 1) + v[k]
      BY <3>1, SumLast
    <3> QED BY <3>1, <3>2, <3>3
  <2> QED BY <2>1, <2>2
<1> HIDE DEF T
<1>2. a - 1 \in Int
  OBVIOUS
<1>3. \A k \in (a - 1)..b : k \in T
  BY <1>1, <1>2, Sums!Everywhere
<1> QED BY <1>3 DEF T

LEMMA SumFirst ==
    ASSUME NEW v, NEW a \in Int, NEW b \in Int, a <= b, \A k \in a..b : v[k] \in Int
    PROVE  SumOver(v, a, b) = v[a] + SumOver(v, a + 1, b)
<1> DEFINE T == {k \in Int : SumOver(v, a, k) = v[a] + SumOver(v, a + 1, k)}
<1>1. ASSUME NEW k \in a..b, \A j \in a..(k - 1) : j \in T PROVE k \in T
  <2>0. k \in Int /\ a <= k /\ v[k] \in Int /\ v[a] \in Int
    OBVIOUS
  <2>1. SumOver(v, a, k) = SumOver(v, a, k - 1) + v[k]
    BY <2>0, SumLast
  <2>2. CASE k = a
    <3>1. SumOver(v, a, a - 1) = 0
      BY SumNone
    <3>2. SumOver(v, a + 1, (a + 1) - 1) = 0 /\ (a + 1) - 1 = a
      BY SumNone
    <3> QED BY <2>0, <2>1, <2>2, <3>1, <3>2
  <2>3. CASE k # a
    <3>1. k - 1 \in a..(k - 1) /\ a + 1 <= k /\ a + 1 \in Int /\ k - 1 \in Int
      BY <2>3
    <3>2. SumOver(v, a, k - 1) = v[a] + SumOver(v, a + 1, k - 1)
      BY <1>1, <3>1
    <3>3. SumOver(v, a + 1, k) = SumOver(v, a + 1, k - 1) + v[k]
      BY <3>1, <2>0, SumLast
    <3>4. SumOver(v, a + 1, k - 1) \in Int
      <4>1. \A j \in (a + 1)..(k - 1) : v[j] \in Int
        OBVIOUS
      <4>2. (a + 1) - 1 <= k - 1
        BY <3>1
      <4> QED BY <3>1, <4>1, <4>2, SumIsInt
    <3>5. PICK x \in Int : x = SumOver(v, a + 1, k - 1)
      BY <3>4
    <3> QED BY <2>0, <2>1, <3>2, <3>3, <3>5
  <2> QED BY <2>2, <2>3
<1> HIDE DEF T
<1>2. \A k \in a..b : k \in T
  BY <1>1, Sums!Everywhere
<1> QED BY <1>2 DEF T

\* The window moves a bar on: one enters, and one leaves.
LEMMA SumSlides ==
    ASSUME NEW v, NEW a \in Int, NEW b \in Int, a <= b + 1, \A k \in a..(b + 1) : v[k] \in Int
    PROVE  SumOver(v, a + 1, b + 1) = SumOver(v, a, b) + v[b + 1] - v[a]
<1>1. a + 1 \in Int /\ b + 1 \in Int /\ (b + 1) - 1 = b /\ v[a] \in Int /\ v[b + 1] \in Int
  OBVIOUS
<1>2. SumOver(v, a, b + 1) = SumOver(v, a, b) + v[b + 1]
  BY <1>1, SumLast
<1>3. SumOver(v, a, b + 1) = v[a] + SumOver(v, a + 1, b + 1)
  BY <1>1, SumFirst
<1>4. PICK x \in Int : x = SumOver(v, a, b)
  <2>1. \A k \in a..b : v[k] \in Int
    OBVIOUS
  <2>2. a - 1 <= b
    OBVIOUS
  <2> QED BY <2>1, <2>2, SumIsInt
<1>5. PICK y \in Int : y = SumOver(v, a + 1, b + 1)
  <2>1. \A k \in (a + 1)..(b + 1) : v[k] \in Int
    OBVIOUS
  <2>2. (a + 1) - 1 <= b + 1
    OBVIOUS
  <2> QED BY <1>1, <2>1, <2>2, SumIsInt
<1> QED BY <1>1, <1>2, <1>3, <1>4, <1>5

-----------------------------------------------------------------------------
LEMMA SmaExact ==
    ASSUME NEW v, Len(v) \in Nat, \A k \in 1..Len(v) : v[k] \in Int, NEW w \in Nat \ {0}
    PROVE  \A i \in w..Len(v) : Sma(v, w)[i] = SumOver(v, i - w + 1, i) \div w
<1>1. PICK n \in Nat : n = Len(v)
  OBVIOUS
<1>0. PICK e : e = <<v, w>>
  OBVIOUS
<1>2. e = <<v, w>> /\ e[1] = v /\ e[2] = w
  BY <1>0
<1>3. PICK m \in Int : m = Larger(w, n) /\ n <= m
  BY DEF Larger
<1>4. PICK f : f = Smas!Rec(e, w, m)
  OBVIOUS
<1>5. /\ Sma(v, w) = [i \in Bars(v) |-> IF i < w THEN NaN ELSE f[i] \div w]
      /\ Smas!LooksBack(e, w, m)
  <2>1. /\ Sma(v, w) = [i \in Bars(v) |->
                  IF i < w THEN NaN ELSE Smas!Rec(<<v, w>>, w, Larger(w, Len(v)))[i] \div w]
        /\ Smas!LooksBack(<<v, w>>, w, Larger(w, Len(v)))
    BY SmaIs
  <2> QED BY <1>1, <1>2, <1>3, <1>4, <2>1
<1>6. \A i \in w..m : f[i] = SmaBody(e, f, i)
  BY <1>4, <1>5, Smas!Unfolds
<1> DEFINE T == {i \in Int : f[i] = SumOver(v, i - w + 1, i)}
<1>7. ASSUME NEW i \in w..n, \A j \in w..(i - 1) : j \in T PROVE i \in T
  <2>0. i \in w..m /\ i \in Int
    BY <1>3
  <2>1. CASE i = w
    <3>1. f[i] = SumOver(v, 1, w)
      BY <1>2, <1>6, <2>0, <2>1 DEF SmaBody
    <3>2. i - w + 1 = 1
      BY <2>1
    <3> QED BY <2>0, <2>1, <3>1, <3>2
  <2>2. CASE i # w
    <3>1. i - 1 \in w..(i - 1) /\ i - w \in 1..n /\ i \in 1..n
      BY <2>2
    <3>2. f[i] = f[i - 1] + v[i] - v[i - w]
      BY <1>2, <1>6, <2>0, <2>2 DEF SmaBody
    <3>3. f[i - 1] = SumOver(v, i - 1 - w + 1, i - 1)
      BY <1>7, <3>1
    <3>4. i - 1 - w + 1 = i - w /\ (i - 1) + 1 = i
      OBVIOUS
    <3>5. PICK a \in Int, b \in Int : a = i - w /\ b = i - 1 /\ b + 1 = i
      OBVIOUS
    <3>6. a <= b + 1 /\ \A k \in a..(b + 1) : v[k] \in Int
      BY <1>1, <3>1, <3>5
    <3>7. SumOver(v, a + 1, b + 1) = SumOver(v, a, b) + v[b + 1] - v[a]
      BY <3>6, SumSlides
    <3> QED BY <2>0, <3>2, <3>3, <3>4, <3>5, <3>7
  <2> QED BY <2>1, <2>2
<1> HIDE DEF T
<1>8. \A i \in w..n : i \in T
  <2>1. w \in Int /\ n \in Int
    OBVIOUS
  <2>2. \A i \in w..n : (\A j \in w..(i - 1) : j \in T) => i \in T
    BY <1>7
  <2> QED BY <2>1, <2>2, Sums!Everywhere
<1>9. \A i \in w..n : i \in Bars(v) /\ ~(i < w)
  BY <1>1 DEF Bars
<1> QED BY <1>1, <1>5, <1>8, <1>9 DEF T

Moves(c) == [k \in Bars(c) |-> IF k = 1 THEN 0 ELSE Abs(c[k] - c[k - 1])]

LEMMA PathExact ==
    ASSUME NEW c, Len(c) \in Nat, \A k \in 1..Len(c) : c[k] \in Int, NEW w \in Nat \ {0}
    PROVE  \A i \in (w + 1)..Len(c) : PathLength(c, w)[i] = SumOver(Moves(c), i - w + 1, i)
<1>a. PICK moves : moves = Moves(c)
  OBVIOUS
<1>b. \A k \in 1..Len(c) : moves[k] = IF k = 1 THEN 0 ELSE Abs(c[k] - c[k - 1])
  BY <1>a DEF Moves, Bars
<1>1. PICK n \in Nat : n = Len(c)
  OBVIOUS
<1>0. PICK e : e = <<c, w>>
  OBVIOUS
<1>2. e = <<c, w>> /\ e[1] = c /\ e[2] = w
  BY <1>0
<1>3. PICK f : f = Paths!Rec(e, 1, n)
  OBVIOUS
<1>4. PathLength(c, w) = [k \in Bars(c) |-> f[k]] /\ Paths!LooksBack(e, 1, n)
  <2>1. /\ PathLength(c, w) = [k \in Bars(c) |-> Paths!Rec(<<c, w>>, 1, Len(c))[k]]
        /\ Paths!LooksBack(<<c, w>>, 1, Len(c))
    BY PathIs
  <2> QED BY <1>1, <1>2, <1>3, <2>1
<1>5. \A i \in 1..n : f[i] = PathBody(e, f, i)
  BY <1>3, <1>4, Paths!Unfolds
<1>6. \A k \in 1..n : moves[k] \in Int
  <2>1. \A k \in 2..n : c[k] \in Int /\ c[k - 1] \in Int
    BY <1>1
  <2>2. \A k \in 1..n : k = 1 \/ k \in 2..n
    OBVIOUS
  <2> QED BY <1>b, <1>1, <2>1, <2>2 DEF Abs
<1>7. \A k \in 2..n : Move(c, k) = moves[k]
  BY <1>b, <1>1 DEF Move
<1> DEFINE T == {i \in Int : f[i] = SumOver(moves, Larger(2, i - w + 1), i)}
<1>8. ASSUME NEW i \in 1..n, \A j \in 1..(i - 1) : j \in T PROVE i \in T
  <2>1. CASE i = 1
    <3>1. f[i] = 0
      BY <1>5, <2>1 DEF PathBody
    <3>2. Larger(2, i - w + 1) = 2 /\ 2 - 1 = 1
      BY <2>1 DEF Larger
    <3>3. SumOver(moves, 2, 2 - 1) = 0
      BY SumNone
    <3> QED BY <2>1, <3>1, <3>2, <3>3
  <2>2. CASE i # 1
    <3>1. i - 1 \in 1..(i - 1) /\ i \in 2..n /\ i \in Int
      BY <2>2
    <3>2. f[i - 1] = SumOver(moves, Larger(2, i - 1 - w + 1), i - 1)
      BY <1>8, <3>1
    <3>3. f[i] = f[i - 1] + moves[i] - (IF i > w + 1 THEN Move(c, i - w) ELSE 0)
      BY <1>2, <1>5, <1>7, <2>2, <3>1 DEF PathBody
    <3>4. CASE i > w + 1
      <4>1. PICK a \in Int, b \in Int : a = i - w /\ b = i - 1 /\ b + 1 = i
        OBVIOUS
      <4>2. a \in 2..n /\ Larger(2, i - 1 - w + 1) = a /\ Larger(2, i - w + 1) = a + 1
        BY <3>1, <3>4, <4>1 DEF Larger
      <4>3. f[i] = SumOver(moves, a, b) + moves[b + 1] - moves[a]
        BY <1>7, <3>2, <3>3, <3>4, <4>1, <4>2
      <4>4. a <= b + 1 /\ \A k \in a..(b + 1) : moves[k] \in Int
        BY <1>6, <4>1, <4>2
      <4>5. SumOver(moves, a + 1, b + 1) = SumOver(moves, a, b) + moves[b + 1] - moves[a]
        BY <4>4, SumSlides
      <4> QED BY <3>1, <4>1, <4>2, <4>3, <4>5
    <3>5. CASE ~(i > w + 1)
      <4>1. Larger(2, i - 1 - w + 1) = 2 /\ Larger(2, i - w + 1) = 2 /\ 2 <= i
        BY <3>1, <3>5 DEF Larger
      <4>2. SumOver(moves, 2, i) = SumOver(moves, 2, i - 1) + moves[i]
        BY <3>1, <4>1, SumLast
      <4>3. SumOver(moves, 2, i - 1) \in Int
        <5>1. \A k \in 2..(i - 1) : moves[k] \in Int
          BY <1>6
        <5>2. 2 - 1 <= i - 1 /\ i - 1 \in Int
          BY <4>1
        <5> QED BY <5>1, <5>2, SumIsInt
      <4>4. moves[i] \in Int
        BY <1>6
      <4>5. f[i] = f[i - 1] + moves[i] - 0
        BY <3>3, <3>5
      <4>6. f[i - 1] = SumOver(moves, 2, i - 1)
        BY <3>2, <4>1
      <4> QED BY <3>1, <4>1, <4>2, <4>3, <4>4, <4>5, <4>6
    <3> QED BY <3>4, <3>5
  <2> QED BY <2>1, <2>2
<1> HIDE DEF T
<1>9. \A i \in 1..n : i \in T
  <2>1. 1 \in Int /\ n \in Int
    OBVIOUS
  <2>2. \A i \in 1..n : (\A j \in 1..(i - 1) : j \in T) => i \in T
    BY <1>8
  <2> QED BY <2>1, <2>2, Sums!Everywhere
<1>10. \A i \in (w + 1)..n : i \in 1..n /\ i \in Bars(c) /\ Larger(2, i - w + 1) = i - w + 1
  BY <1>1 DEF Bars, Larger
<1> QED BY <1>a, <1>1, <1>4, <1>9, <1>10 DEF T

LEMMA VolumeExact ==
    ASSUME NEW v, Len(v) \in Nat, \A k \in 1..Len(v) : v[k] \in Int, NEW w \in Nat \ {0}
    PROVE  \A i \in (w + 1)..Len(v) :
               RelativeVolume(v, w)[i] = Where(SumOver(v, i - w, i - 1) > 0,
                                               (Permille * w * v[i]) \div SumOver(v, i - w, i - 1))
<1>1. PICK n \in Nat : n = Len(v)
  OBVIOUS
<1>0. PICK e : e = <<v, w>>
  OBVIOUS
<1>2. e = <<v, w>> /\ e[1] = v /\ e[2] = w
  BY <1>0
<1>3. PICK f : f = Befores!Rec(e, 1, n)
  OBVIOUS
<1>4. /\ RelativeVolume(v, w) = [i \in Bars(v) |-> IF i <= w \/ f[i] <= 0 THEN NaN
                                                   ELSE (Permille * w * v[i]) \div f[i]]
      /\ Befores!LooksBack(e, 1, n)
  <2>1. /\ RelativeVolume(v, w) = [i \in Bars(v) |->
                  IF i <= w \/ Befores!Rec(<<v, w>>, 1, Len(v))[i] <= 0 THEN NaN
                  ELSE (Permille * w * v[i]) \div Befores!Rec(<<v, w>>, 1, Len(v))[i]]
        /\ Befores!LooksBack(<<v, w>>, 1, Len(v))
    BY RelativeVolumeIs
  <2> QED BY <1>1, <1>2, <1>3, <2>1
<1>5. \A i \in 1..n : f[i] = BeforeBody(e, f, i)
  BY <1>3, <1>4, Befores!Unfolds
<1> DEFINE T == {i \in Int : f[i] = SumOver(v, Larger(1, i - w), i - 1)}
<1>8. ASSUME NEW i \in 1..n, \A j \in 1..(i - 1) : j \in T PROVE i \in T
  <2>1. CASE i = 1
    <3>1. f[i] = 0
      BY <1>5, <2>1 DEF BeforeBody
    <3>2. Larger(1, i - w) = 1 /\ i - 1 = 1 - 1
      BY <2>1 DEF Larger
    <3>3. SumOver(v, 1, 1 - 1) = 0
      <4>1. PICK one \in Int : one = 1
        OBVIOUS
      <4>2. SumOver(v, one, one - 1) = 0
        BY SumNone
      <4> QED BY <4>1, <4>2
    <3> QED BY <2>1, <3>1, <3>2, <3>3
  <2>2. CASE i # 1
    <3>1. i - 1 \in 1..(i - 1) /\ i - 1 \in 1..n /\ i \in Int /\ i - 1 \in Int
      BY <2>2
    <3>2. f[i - 1] = SumOver(v, Larger(1, i - 1 - w), i - 1 - 1)
      BY <1>8, <3>1
    <3>3. f[i] = f[i - 1] + v[i - 1] - (IF i - 1 > w THEN v[i - 1 - w] ELSE 0)
      BY <1>2, <1>5, <2>2 DEF BeforeBody
    <3>4. CASE i - 1 > w
      <4>1. PICK a \in Int, b \in Int : a = i - 1 - w /\ b = i - 1 - 1 /\ b + 1 = i - 1
        OBVIOUS
      <4>2. a \in 1..n /\ Larger(1, i - 1 - w) = a /\ Larger(1, i - w) = a + 1
        BY <3>1, <3>4, <4>1 DEF Larger
      <4>3. f[i] = SumOver(v, a, b) + v[b + 1] - v[a]
        BY <3>2, <3>3, <3>4, <4>1, <4>2
      <4>4. a <= b + 1 /\ \A k \in a..(b + 1) : v[k] \in Int
        BY <1>1, <3>1, <4>1, <4>2
      <4>5. SumOver(v, a + 1, b + 1) = SumOver(v, a, b) + v[b + 1] - v[a]
        BY <4>4, SumSlides
      <4> QED BY <3>1, <4>1, <4>2, <4>3, <4>5
    <3>5. CASE ~(i - 1 > w)
      <4>1. Larger(1, i - 1 - w) = 1 /\ Larger(1, i - w) = 1 /\ 1 <= i - 1
        BY <3>1, <3>5 DEF Larger
      <4>2. SumOver(v, 1, i - 1) = SumOver(v, 1, i - 1 - 1) + v[i - 1]
        BY <3>1, <4>1, SumLast
      <4>3. SumOver(v, 1, i - 1 - 1) \in Int
        <5>1. \A k \in 1..(i - 1 - 1) : v[k] \in Int
          BY <1>1
        <5>2. 1 - 1 <= i - 1 - 1 /\ i - 1 - 1 \in Int
          BY <4>1
        <5> QED BY <5>1, <5>2, SumIsInt
      <4>4. v[i - 1] \in Int
        BY <1>1, <3>1
      <4>5. f[i] = f[i - 1] + v[i - 1] - 0
        BY <3>3, <3>5
      <4>6. f[i - 1] = SumOver(v, 1, i - 1 - 1)
        BY <3>2, <4>1
      <4> QED BY <3>1, <4>1, <4>2, <4>3, <4>4, <4>5, <4>6
    <3> QED BY <3>4, <3>5
  <2> QED BY <2>1, <2>2
<1> HIDE DEF T
<1>9. \A i \in 1..n : i \in T
  <2>1. 1 \in Int /\ n \in Int
    OBVIOUS
  <2>2. \A i \in 1..n : (\A j \in 1..(i - 1) : j \in T) => i \in T
    BY <1>8
  <2> QED BY <2>1, <2>2, Sums!Everywhere
<1> SUFFICES ASSUME NEW i \in (w + 1)..n
             PROVE  RelativeVolume(v, w)[i] = Where(SumOver(v, i - w, i - 1) > 0,
                                                    (Permille * w * v[i]) \div SumOver(v, i - w, i - 1))
  BY <1>1
<1>10. i \in 1..n /\ i \in Bars(v) /\ Larger(1, i - w) = i - w /\ ~(i <= w) /\ i \in Int
  BY <1>1 DEF Bars, Larger
<1>11. f[i] = SumOver(v, i - w, i - 1)
  BY <1>9, <1>10 DEF T
<1>12. f[i] \in Int
  <2>1. \A k \in (i - w)..(i - 1) : v[k] \in Int
    BY <1>1
  <2>2. i - w \in Int /\ i - 1 \in Int /\ i - w - 1 <= i - 1
    OBVIOUS
  <2>3. SumOver(v, i - w, i - 1) \in Int
    BY <2>1, <2>2, SumIsInt
  <2> QED BY <1>11, <2>3
<1>13. RelativeVolume(v, w)[i] = IF f[i] <= 0 THEN NaN ELSE (Permille * w * v[i]) \div f[i]
  BY <1>4, <1>10
<1>14. f[i] <= 0 <=> ~(f[i] > 0)
  BY <1>12
<1>15. RelativeVolume(v, w)[i] = Where(f[i] > 0, (Permille * w * v[i]) \div f[i])
  BY <1>13, <1>14 DEF Where
<1> QED BY <1>11, <1>15

LEMMA BeforeExact ==
    ASSUME NEW r, Len(r) \in Nat, \A k \in 1..Len(r) : r[k] \in Int, NEW w \in Nat \ {0}
    PROVE  \A i \in (w + 1)..Len(r) :
               /\ Before(r, 1, w)[i].n = w - 1
               /\ Before(r, 1, w)[i].sum = SumOver(r, i - w + 1, i - 1)
<1>1. PICK n \in Nat : n = Len(r)
  OBVIOUS
<1>0. PICK e : e = <<r, 1, w>>
  OBVIOUS
<1>2. e = <<r, 1, w>> /\ e[1] = r /\ e[2] = 1 /\ e[3] = w
  BY <1>0
<1>3. PICK m \in Int : m = Larger(1, n) /\ n <= m
  BY DEF Larger
<1>4. PICK f : f = Pasts!Rec(e, 1, m)
  OBVIOUS
<1>5. /\ Before(r, 1, w) = [k \in Bars(r) |-> IF k < 1 THEN None ELSE f[k]]
      /\ Pasts!LooksBack(e, 1, m)
  <2>0. 1 \in Nat /\ w \in Nat
    OBVIOUS
  <2>1. /\ Before(r, 1, w) = [k \in Bars(r) |->
                  IF k < 1 THEN None ELSE Pasts!Rec(<<r, 1, w>>, 1, Larger(1, Len(r)))[k]]
        /\ Pasts!LooksBack(<<r, 1, w>>, 1, Larger(1, Len(r)))
    BY <2>0, BeforeIs
  <2> QED BY <1>1, <1>2, <1>3, <1>4, <2>1
<1>6. \A i \in 1..m : f[i] = PastBody(e, f, i)
  <2>1. 1 \in Int
    OBVIOUS
  <2> QED BY <1>4, <1>5, <2>1, Pasts!Unfolds
<1> DEFINE T == {i \in Int : /\ f[i].n = Smaller(i - 1, w - 1)
                             /\ f[i].sum = SumOver(r, i - Smaller(i - 1, w - 1), i - 1)}
<1>7. ASSUME NEW i \in 1..n, \A j \in 1..(i - 1) : j \in T PROVE i \in T
  <2>0. i \in 1..m /\ i \in Int
    BY <1>3
  <2>1. CASE i = 1
    <3>1. f[i].n = 0 /\ f[i].sum = 0
      <4>1. PastBody(e, f, i) = None
        BY <1>2, <2>1 DEF PastBody
      <4>2. f[i] = None
        BY <1>6, <2>0, <4>1
      <4> QED BY <4>2 DEF None
    <3>2. Smaller(i - 1, w - 1) = 0
      BY <2>1 DEF Smaller
    <3>3. SumOver(r, i, i - 1) = 0
      BY <2>0, SumNone
    <3>4. i - 0 = i
      BY <2>0
    <3> QED BY <2>0, <3>1, <3>2, <3>3, <3>4
  <2>2. CASE i # 1
    <3>1. i - 1 \in 1..(i - 1) /\ i - 1 \in 1..n /\ i - 1 \in Int
      BY <2>2
    <3>2. PICK was : was = f[i - 1]
      OBVIOUS
    <3>3. was.n = Smaller(i - 2, w - 1) /\ was.sum = SumOver(r, i - 1 - Smaller(i - 2, w - 1), i - 2)
      <4>1. i - 1 - 1 = i - 2
        BY <2>0
      <4> QED BY <1>7, <3>1, <3>2, <4>1
    <3>4. /\ was.n + 1 >= w => f[i].n = was.n + 0 /\ f[i].sum = was.sum + r[i - 1] - r[i - w]
          /\ ~(was.n + 1 >= w) => f[i].n = was.n + 1 /\ f[i].sum = was.sum + r[i - 1] - 0
      <4>1. f[i] = PastBody(e, f, i)
        BY <1>6, <2>0
      <4> DEFINE full == was.n + 1 >= w
                 out == IF full THEN r[i - w] ELSE 0
                 said(x, y) == [n |-> was.n + (IF x THEN 0 ELSE 1), sum |-> was.sum + r[i - 1] - y,
                                squares |-> was.squares + r[i - 1] * r[i - 1] - y * y]
      <4>2. f[i] = said(full, out)
        BY <1>2, <2>2, <3>2, <4>1 DEF PastBody
      <4>3. /\ full => out = r[i - w]
            /\ ~full => out = 0
        OBVIOUS
      <4> HIDE DEF full, out
      <4>4. /\ f[i].n = was.n + (IF full THEN 0 ELSE 1)
            /\ f[i].sum = was.sum + r[i - 1] - out
        BY <4>2
      <4>5. /\ full => f[i].n = was.n + 0 /\ f[i].sum = was.sum + r[i - 1] - r[i - w]
            /\ ~full => f[i].n = was.n + 1 /\ f[i].sum = was.sum + r[i - 1] - 0
        BY <4>3, <4>4
      <4> QED BY <4>5 DEF full
    <3>5. CASE i > w
      <4>1. Smaller(i - 2, w - 1) = w - 1 /\ Smaller(i - 1, w - 1) = w - 1
        BY <2>0, <3>5 DEF Smaller
      <4>2. PICK a \in Int, b \in Int : a = i - w /\ b = i - 2 /\ b + 1 = i - 1
        BY <2>0
      <4>3. was.n = w - 1 /\ w - 1 + 1 >= w /\ w - 1 + 0 = w - 1
        BY <3>3, <4>1
      <4>4. f[i].n = w - 1 /\ f[i].sum = was.sum + r[i - 1] - r[i - w]
        BY <3>4, <4>3
      <4>5. was.sum = SumOver(r, a, b)
        <5>1. i - 1 - (w - 1) = a
          BY <2>0, <4>2
        <5> QED BY <3>3, <4>1, <4>2, <5>1
      <4>6. a <= b + 1 /\ \A k \in a..(b + 1) : r[k] \in Int
        BY <1>1, <2>0, <3>5, <4>2
      <4>7. SumOver(r, a + 1, b + 1) = SumOver(r, a, b) + r[b + 1] - r[a]
        BY <4>6, SumSlides
      <4>8. i - (w - 1) = a + 1
        BY <2>0, <4>2
      <4>9. f[i].sum = SumOver(r, i - (w - 1), i - 1)
        BY <4>2, <4>4, <4>5, <4>7, <4>8
      <4> QED BY <2>0, <4>1, <4>4, <4>9
    <3>6. CASE ~(i > w)
      <4>1. Smaller(i - 2, w - 1) = i - 2 /\ Smaller(i - 1, w - 1) = i - 1
        BY <2>0, <3>6 DEF Smaller
      <4>2. was.n = i - 2 /\ ~(i - 2 + 1 >= w) /\ i - 2 + 1 = i - 1
        BY <2>0, <3>3, <3>6, <4>1
      <4>3. f[i].n = i - 1 /\ f[i].sum = was.sum + r[i - 1] - 0
        BY <3>4, <4>2
      <4>4. was.sum = SumOver(r, 1, i - 2)
        <5>1. i - 1 - (i - 2) = 1
          BY <2>0
        <5> QED BY <3>3, <4>1, <5>1
      <4>5. SumOver(r, 1, i - 1) = SumOver(r, 1, i - 1 - 1) + r[i - 1]
        BY <2>0, <3>1, SumLast
      <4>6. SumOver(r, 1, i - 2) \in Int
        <5>1. \A k \in 1..(i - 2) : r[k] \in Int
          BY <1>1, <2>0
        <5>2. 1 \in Int /\ i - 2 \in Int /\ 1 - 1 <= i - 2
          BY <2>0, <2>2
        <5> QED BY <5>1, <5>2, SumIsInt
      <4>7. i - 1 - 1 = i - 2 /\ i - (i - 1) = 1
        BY <2>0
      <4>8. r[i - 1] \in Int
        BY <1>1, <3>1
      <4>9. f[i].sum = SumOver(r, i - (i - 1), i - 1)
        BY <4>3, <4>4, <4>5, <4>6, <4>7, <4>8
      <4> QED BY <2>0, <4>1, <4>3, <4>9
    <3> QED BY <3>5, <3>6
  <2> QED BY <2>1, <2>2
<1> HIDE DEF T
<1>8. \A i \in 1..n : i \in T
  <2>1. 1 \in Int /\ n \in Int
    OBVIOUS
  <2>2. \A i \in 1..n : (\A j \in 1..(i - 1) : j \in T) => i \in T
    BY <1>7
  <2> QED BY <2>1, <2>2, Sums!Everywhere
<1> SUFFICES ASSUME NEW i \in (w + 1)..n
             PROVE  /\ Before(r, 1, w)[i].n = w - 1
                    /\ Before(r, 1, w)[i].sum = SumOver(r, i - w + 1, i - 1)
  BY <1>1
<1>9. /\ i \in 1..n /\ i \in Bars(r) /\ i \in Int /\ ~(i < 1)
      /\ Smaller(i - 1, w - 1) = w - 1 /\ i - (w - 1) = i - w + 1
  BY <1>1 DEF Bars, Smaller
<1>10. Before(r, 1, w)[i] = f[i]
  BY <1>5, <1>9
<1>11. f[i].n = w - 1 /\ f[i].sum = SumOver(r, i - (w - 1), i - 1)
  BY <1>8, <1>9 DEF T
<1> QED BY <1>9, <1>10, <1>11

WasLow(u, level, w, i) == \E k \in 1..Len(u) : k > i - w /\ k <= i /\ Ok(u[k]) /\ u[k] <= level

LEMMA ArmedExact ==
    ASSUME NEW u, Len(u) \in Nat, OnBars(u, Len(u)), NEW level, NEW w \in Nat \ {0}
    PROVE  \A i \in 1..Len(u) : Armed(u, level, w)[i] = WasLow(u, level, w, i)
<1>1. PICK n \in Nat : n = Len(u)
  OBVIOUS
<1>0. PICK e : e = <<u, level, w>>
  OBVIOUS
<1>2. e = <<u, level, w>> /\ e[1] = u /\ e[2] = level /\ e[3] = w
  BY <1>0
<1>3. PICK f : f = Countdown!Rec(e, 0, n)
  OBVIOUS
<1>4. Armed(u, level, w) = [i \in 1..n |-> f[i] > 0] /\ Countdown!LooksBack(e, 0, n)
  BY <1>1, <1>2, <1>3, ArmedIs
<1>5. \A i \in 0..n : f[i] = ArmedBody(e, f, i)
  <2>1. 0 \in Int /\ n \in Int
    OBVIOUS
  <2> QED BY <1>3, <1>4, <2>1, Countdown!Unfolds
<1> DEFINE low(k) == Ok(u[k]) /\ u[k] <= level
           T == {i \in Int : /\ f[i] \in Nat
                             /\ \A d \in Nat : f[i] > d <=> \E k \in 1..i : k > i - w + d /\ low(k)}
<1>6. /\ f[0] = 0
      /\ \A i \in 1..n : f[i] = IF low(i) THEN w ELSE Larger(0, f[i - 1] - 1)
  <2>1. Larger(1, w) = w
    BY DEF Larger
  <2>2. 0 \in 0..n /\ \A i \in 1..n : i \in 0..n /\ i > 0 /\ i # 0
    OBVIOUS
  <2>3. f[0] = 0
    BY <1>5, <2>2 DEF ArmedBody
  <2>4. ASSUME NEW i \in 1..n PROVE f[i] = IF low(i) THEN w ELSE Larger(0, f[i - 1] - 1)
    <3>1. i > 0 /\ i # 0 /\ f[i] = ArmedBody(e, f, i)
      BY <1>5, <2>2
    <3>2. CASE low(i)
      BY <1>2, <2>1, <3>1, <3>2 DEF ArmedBody
    <3>3. CASE ~low(i)
      BY <1>2, <3>1, <3>3 DEF ArmedBody
    <3> QED BY <3>2, <3>3
  <2> QED BY <2>3, <2>4
<1>7. ASSUME NEW i \in 0..n, \A j \in 0..(i - 1) : j \in T PROVE i \in T
  <2> HIDE DEF low
  <2>1. CASE i = 0
    BY <1>6, <2>1
  <2>2. CASE i # 0 /\ low(i)
    <3>1. i \in 1..i /\ i \in 1..n /\ f[i] = w
      BY <1>6, <2>2
    <3>2. ASSUME NEW d \in Nat PROVE w > d <=> \E k \in 1..i : k > i - w + d /\ low(k)
      <4>1. w > d => i > i - w + d
        OBVIOUS
      <4>2. ASSUME NEW k \in 1..i, k > i - w + d PROVE w > d
        BY <4>2
      <4> QED BY <2>2, <3>1, <4>1, <4>2
    <3> QED BY <3>1, <3>2
  <2>3. CASE i # 0 /\ ~low(i)
    <3>1. i - 1 \in 0..(i - 1) /\ i \in 1..n /\ i - 1 \in T
      BY <1>7, <2>3
    <3>2. PICK x \in Nat : x = f[i - 1]
      BY <3>1
    <3>3. f[i] = Larger(0, x - 1) /\ f[i] \in Nat
      BY <1>6, <2>3, <3>1, <3>2 DEF Larger
    <3>4. ASSUME NEW d \in Nat PROVE f[i] > d <=> \E k \in 1..i : k > i - w + d /\ low(k)
      <4>1. f[i] > d <=> x > d + 1
        BY <3>3 DEF Larger
      <4>2. d + 1 \in Nat
        OBVIOUS
      <4>3. x > d + 1 <=> \E k \in 1..(i - 1) : k > i - 1 - w + (d + 1) /\ low(k)
        BY <3>1, <3>2, <4>2
      <4>4. i - 1 - w + (d + 1) = i - w + d
        OBVIOUS
      <4>5. \A k \in 1..i : low(k) => k \in 1..(i - 1)
        BY <2>3
      <4>6. \A k \in 1..(i - 1) : k \in 1..i
        OBVIOUS
      <4> QED BY <4>1, <4>3, <4>4, <4>5, <4>6
    <3> QED BY <3>3, <3>4
  <2> QED BY <2>1, <2>2, <2>3
<1> HIDE DEF T
<1>8. \A i \in 0..n : i \in T
  <2>1. 0 \in Int /\ n \in Int
    OBVIOUS
  <2>2. \A i \in 0..n : (\A j \in 0..(i - 1) : j \in T) => i \in T
    BY <1>7
  <2> QED BY <2>1, <2>2, Sums!Everywhere
<1> SUFFICES ASSUME NEW i \in 1..n
             PROVE  Armed(u, level, w)[i] = \E k \in 1..n : k > i - w /\ k <= i /\ low(k)
  BY <1>1 DEF WasLow
<1>9. Armed(u, level, w)[i] = (f[i] > 0)
  BY <1>4
<1> HIDE DEF low
<1>10. f[i] > 0 <=> \E k \in 1..i : k > i - w + 0 /\ low(k)
  <2>1. i \in 0..n /\ 0 \in Nat
    OBVIOUS
  <2>2. i \in T
    BY <1>8, <2>1
  <2> QED BY <2>1, <2>2 DEF T
<1>11. (\E k \in 1..i : k > i - w + 0 /\ low(k)) <=> (\E k \in 1..n : k > i - w /\ k <= i /\ low(k))
  <2>1. \A k \in 1..n : k <= i <=> k \in 1..i
    OBVIOUS
  <2>2. \A k \in 1..i : k \in 1..n
    OBVIOUS
  <2>3. i - w + 0 = i - w
    OBVIOUS
  <2> QED BY <2>1, <2>2, <2>3
<1>12. (f[i] > 0) \in BOOLEAN
  BY <1>8 DEF T
<1> QED BY <1>9, <1>10, <1>11, <1>12

\* The bars of the window that have the order o.
Of(c, m, w, k, o) == { j \in m..k : j > k - w /\ Ordinal(c, m, j) = o }

LEMMA OfSlides ==
    ASSUME NEW c, NEW m \in Nat \ {0}, NEW w \in Nat \ {0}, NEW k \in Nat \ {0}, NEW o
    PROVE  LET came == IF k >= m /\ Ordinal(c, m, k) = o THEN 1 ELSE 0
               left == IF k - w >= m /\ Ordinal(c, m, k - w) = o THEN 1 ELSE 0
           IN  /\ Cardinality(Of(c, m, w, k - 1, o)) \in Nat
               /\ Cardinality(Of(c, m, w, k, o)) = Cardinality(Of(c, m, w, k - 1, o)) + came - left
<1> DEFINE was == Of(c, m, w, k - 1, o)
           both == { j \in m..k : j > k - 1 - w /\ Ordinal(c, m, j) = o }
           now == Of(c, m, w, k, o)
           came == k >= m /\ Ordinal(c, m, k) = o
           left == k - w >= m /\ Ordinal(c, m, k - w) = o
<1>1. was \subseteq m..k /\ both \subseteq m..k
  BY DEF Of
<1>2. IsFiniteSet(was) /\ IsFiniteSet(both)
  <2>1. IsFiniteSet(m..k)
    BY FS_Interval
  <2> QED BY <1>1, <2>1, FS_Subset
<1>3. Cardinality(was) \in Nat /\ Cardinality(both) \in Nat
  BY <1>2, FS_CardinalityType
<1>4. k \notin was
  BY DEF Of
<1>5. both = (IF came THEN was \cup {k} ELSE was)
  <2>1. ASSUME NEW j PROVE j \in both <=> j \in was \/ (j = k /\ came)
    BY DEF Of
  <2> HIDE DEF was, both, came
  <2> QED BY <2>1
<1>6. now = (IF left THEN both \ {k - w} ELSE both)
  <2>1. ASSUME NEW j PROVE j \in now <=> j \in both /\ ~(j = k - w /\ left)
    BY DEF Of
  <2> HIDE DEF now, both, left
  <2>2. CASE left
    BY <2>1, <2>2
  <2>3. CASE ~left
    BY <2>1, <2>3
  <2> QED BY <2>2, <2>3
<1>7. left => k - w \in both
  OBVIOUS
<1> HIDE DEF was, both, now, came, left
<1>8. Cardinality(both) = Cardinality(was) + (IF came THEN 1 ELSE 0)
  <2>1. CASE came
    <3>1. both = was \cup {k}
      BY <1>5, <2>1
    <3>2. Cardinality(was \cup {k}) = Cardinality(was) + 1
      BY <1>2, <1>4, FS_AddElement
    <3> QED BY <2>1, <3>1, <3>2
  <2>2. CASE ~came
    BY <1>3, <1>5, <2>2
  <2> QED BY <2>1, <2>2
<1>9. Cardinality(now) = Cardinality(both) - (IF left THEN 1 ELSE 0)
  <2>1. CASE left
    <3>1. now = both \ {k - w}
      BY <1>6, <2>1
    <3>2. Cardinality(both \ {k - w}) = Cardinality(both) - 1
      BY <1>2, <1>7, <2>1, FS_RemoveElement
    <3> QED BY <2>1, <3>1, <3>2
  <2>2. CASE ~left
    BY <1>3, <1>6, <2>2
  <2> QED BY <2>1, <2>2
<1>10. Cardinality(now) = Cardinality(was) + (IF came THEN 1 ELSE 0) - (IF left THEN 1 ELSE 0)
  BY <1>3, <1>8, <1>9
<1> QED BY <1>3, <1>10 DEF was, now, came, left

LEMMA CountsExact ==
    ASSUME NEW c, NEW m \in Nat \ {0}, NEW w \in Nat \ {0}, NEW i \in Nat
    PROVE  \A o \in DOMAIN PatternCounts(c, m, w, i) :
               PatternCounts(c, m, w, i)[o] = Cardinality(Of(c, m, w, i, o))
<1>1. PICK S : S = SeenOrders(c, m, i)
  OBVIOUS
<1>0. PICK e : e = <<c, m, w, S>>
  OBVIOUS
<1>2. e = <<c, m, w, S>> /\ e[1] = c /\ e[2] = m /\ e[3] = w /\ e[4] = S
  BY <1>0
<1>3. PICK f : f = Tallies!Rec(e, 0, i)
  OBVIOUS
<1>4. PatternCounts(c, m, w, i) = f[i] /\ Tallies!LooksBack(e, 0, i)
  BY <1>1, <1>2, <1>3, PatternCountsIs
<1>5. \A k \in 0..i : f[k] = CountBody(e, f, k)
  <2>1. 0 \in Int /\ i \in Int
    OBVIOUS
  <2> QED BY <1>3, <1>4, <2>1, Tallies!Unfolds
<1> DEFINE came(k, o) == IF k >= m /\ Ordinal(c, m, k) = o THEN 1 ELSE 0
           left(k, o) == IF k - w >= m /\ Ordinal(c, m, k - w) = o THEN 1 ELSE 0
<1>6. \A k \in 0..i : f[k] = IF k = 0 THEN [o \in S |-> 0]
                             ELSE [o \in S |-> f[k - 1][o] + came(k, o) - left(k, o)]
  BY <1>2, <1>5 DEF CountBody
<1>7. \A k \in Nat \ {0} : \A o :
          /\ Cardinality(Of(c, m, w, k - 1, o)) \in Nat
          /\ Cardinality(Of(c, m, w, k, o)) = Cardinality(Of(c, m, w, k - 1, o)) + came(k, o) - left(k, o)
  BY OfSlides
<1>8. \A o : Cardinality(Of(c, m, w, 0, o)) = 0
  <2> SUFFICES ASSUME NEW o PROVE Cardinality(Of(c, m, w, 0, o)) = 0
    OBVIOUS
  <2>1. Of(c, m, w, 0, o) = {}
    BY DEF Of
  <2> QED BY <2>1, FS_EmptySet
<1> HIDE DEF came, left
<1> DEFINE T == {k \in Int : DOMAIN f[k] = S /\ \A o \in S : f[k][o] = Cardinality(Of(c, m, w, k, o))}
<1>9. ASSUME NEW k \in 0..i, \A j \in 0..(k - 1) : j \in T PROVE k \in T
  <2>1. CASE k = 0
    <3>1. f[k] = [o \in S |-> 0]
      BY <1>6, <2>1
    <3> QED BY <1>8, <2>1, <3>1
  <2>2. CASE k # 0
    <3>1. k - 1 \in 0..(k - 1) /\ k \in Nat \ {0} /\ k - 1 \in T
      BY <1>9, <2>2
    <3>2. f[k] = [o \in S |-> f[k - 1][o] + came(k, o) - left(k, o)]
      BY <1>6, <2>2
    <3>3. ASSUME NEW o \in S PROVE f[k][o] = Cardinality(Of(c, m, w, k, o))
      <4>1. f[k][o] = f[k - 1][o] + came(k, o) - left(k, o)
        BY <3>2
      <4>2. f[k - 1][o] = Cardinality(Of(c, m, w, k - 1, o))
        BY <3>1
      <4>3. Cardinality(Of(c, m, w, k, o)) = Cardinality(Of(c, m, w, k - 1, o)) + came(k, o) - left(k, o)
        BY <1>7, <3>1
      <4> QED BY <4>1, <4>2, <4>3
    <3>4. DOMAIN f[k] = S
      BY <3>2
    <3> QED BY <3>1, <3>3, <3>4
  <2> QED BY <2>1, <2>2
<1> HIDE DEF T
<1>10. \A k \in 0..i : k \in T
  <2>1. 0 \in Int /\ i \in Int
    OBVIOUS
  <2>2. \A k \in 0..i : (\A j \in 0..(k - 1) : j \in T) => k \in T
    BY <1>9
  <2> QED BY <2>1, <2>2, Sums!Everywhere
<1>11. i \in T
  <2>1. i \in 0..i
    OBVIOUS
  <2> QED BY <1>10, <2>1
<1> QED BY <1>4, <1>11 DEF T

\* What the running forms say on bar i, of a window of w bars.
Windowed(c, v, rank, level, m, w, i) ==
    /\ i >= w => Sma(c, w)[i] = SumOver(c, i - w + 1, i) \div w
    /\ i > w => PathLength(c, w)[i] = SumOver(Moves(c), i - w + 1, i)
    /\ i > w => LET before == SumOver(v, i - w, i - 1)
                IN  RelativeVolume(v, w)[i] = Where(before > 0, (Permille * w * v[i]) \div before)
    /\ i > w => LET b == Before(c, 1, w)[i]
                IN  b.n = w - 1 /\ b.sum = SumOver(c, i - w + 1, i - 1)
    /\ Armed(rank, level, w)[i] =
           \E k \in Bars(c) : k > i - w /\ k <= i /\ Ok(rank[k]) /\ (IF Ok(rank[k]) THEN rank[k] <= level ELSE FALSE)
    /\ i >= m => \A o \in DOMAIN PatternCounts(c, m, w, i) :
           PatternCounts(c, m, w, i)[o] =
               Cardinality({ k \in m..i : k > i - w /\ Ordinal(c, m, k) = o })

(* For prices and volumes of any length, a window of any number of bars,   *)
(* patterns of any order and any level: on every bar sma, path length,     *)
(* relative volume, the returns before a bar, the countdown of the squeeze *)
(* and the counts of the patterns are those of the bars in the window.     *)
THEOREM AnyWindowIsExact ==
    ASSUME NEW c, NEW v, NEW n \in Nat, Len(c) = n, Len(v) = n,
           \A k \in 1..n : c[k] \in Int /\ v[k] \in Int, NEW w \in Nat \ {0}, NEW i \in Bars(c),
           NEW level, NEW m \in Nat \ {0},
           NEW rank, OnBars(rank, n)
    PROVE  Windowed(c, v, rank, level, m, w, i)
<1>0. w \in Nat \ {0} /\ w \in Nat /\ i \in 1..n /\ i \in Nat
  BY DEF Bars
<1>1. i >= w => Sma(c, w)[i] = SumOver(c, i - w + 1, i) \div w
  <2>1. \A j \in w..Len(c) : Sma(c, w)[j] = SumOver(c, j - w + 1, j) \div w
    BY <1>0, SmaExact
  <2> QED BY <1>0, <2>1
<1>2. i > w => PathLength(c, w)[i] = SumOver(Moves(c), i - w + 1, i)
  <2>1. Len(c) \in Nat /\ \A k \in 1..Len(c) : c[k] \in Int
    OBVIOUS
  <2>2. \A j \in (w + 1)..Len(c) : PathLength(c, w)[j] = SumOver(Moves(c), j - w + 1, j)
    BY <1>0, <2>1, PathExact
  <2>3. i > w => i \in (w + 1)..Len(c)
    BY <1>0
  <2> QED BY <2>2, <2>3
<1>3. i > w => RelativeVolume(v, w)[i] = Where(SumOver(v, i - w, i - 1) > 0,
                                               (Permille * w * v[i]) \div SumOver(v, i - w, i - 1))
  <2>1. \A j \in (w + 1)..Len(v) :
            RelativeVolume(v, w)[j] = Where(SumOver(v, j - w, j - 1) > 0,
                                            (Permille * w * v[j]) \div SumOver(v, j - w, j - 1))
    BY <1>0, VolumeExact
  <2> QED BY <1>0, <2>1
<1>4. i > w => Before(c, 1, w)[i].n = w - 1 /\ Before(c, 1, w)[i].sum = SumOver(c, i - w + 1, i - 1)
  <2>1. \A j \in (w + 1)..Len(c) :
            /\ Before(c, 1, w)[j].n = w - 1
            /\ Before(c, 1, w)[j].sum = SumOver(c, j - w + 1, j - 1)
    BY <1>0, BeforeExact
  <2>2. i > w => i \in (w + 1)..Len(c)
    BY <1>0
  <2> QED BY <2>1, <2>2
<1>5. Armed(rank, level, w)[i] =
          \E k \in Bars(c) : k > i - w /\ k <= i /\ Ok(rank[k]) /\ (IF Ok(rank[k]) THEN rank[k] <= level ELSE FALSE)
  <2>1. OnBars(rank, n)
    OBVIOUS
  <2>2. Len(rank) = n /\ OnBars(rank, Len(rank))
    BY <2>1, SeriesIs
  <2>3. Armed(rank, level, w)[i] = WasLow(rank, level, w, i)
    <3>1. Len(rank) \in Nat /\ i \in 1..Len(rank)
      BY <1>0, <2>2
    <3> QED BY <1>0, <2>2, <3>1, ArmedExact
  <2>4. WasLow(rank, level, w, i) =
            \E k \in Bars(c) : k > i - w /\ k <= i /\ Ok(rank[k]) /\ (IF Ok(rank[k]) THEN rank[k] <= level ELSE FALSE)
    BY <2>2 DEF Bars, WasLow
  <2> QED BY <2>3, <2>4
<1>6. \A o \in DOMAIN PatternCounts(c, m, w, i) :
          PatternCounts(c, m, w, i)[o] = Cardinality({ k \in m..i : k > i - w /\ Ordinal(c, m, k) = o })
  <2>1. \A o \in DOMAIN PatternCounts(c, m, w, i) :
            PatternCounts(c, m, w, i)[o] = Cardinality(Of(c, m, w, i, o))
    BY <1>0, CountsExact
  <2> QED BY <2>1 DEF Of
<1> QED BY <1>1, <1>2, <1>3, <1>4, <1>5, <1>6 DEF Windowed

(* And so they are of every store a bot replays, however its bars came:    *)
(* what has left the window is nowhere counted any more, and nothing in it *)
(* is missed.                                                              *)
THEOREM WindowsStayExact == ReplaySpec => []WindowsAreExact
<1>1. StoreInv => WindowsAreExact
  <2> SUFFICES ASSUME StoreInv PROVE WindowsAreExact
    OBVIOUS
  <2> DEFINE c == series.close
             v == series.volume
             rank == PercentileRank(c, 3)
  <2>1. PICK n \in Nat : n = Len(c)
    BY StoreLength DEF StoreInv, Stored
  <2>2. Len(c) = n /\ Len(v) = n /\ c \in Seq(Int) /\ v \in Seq(Int)
    <3>1. \A x \in Columns : series[x] \in Seq(Int) /\ Len(series[x]) = Len(series.close)
      BY DEF StoreInv, Stored, IsStore
    <3>2. "close" \in Columns /\ "volume" \in Columns
      BY DEF Columns
    <3> QED BY <2>1, <3>1, <3>2
  <2>3. \A k \in 1..n : c[k] \in Int /\ v[k] \in Int
    BY <2>2
  <2>4. \A i \in Bars(c) : \A w \in 2..3 : Windowed(c, v, rank, 500, 2, w, i)
    <3>1. PICK d : d = c
      OBVIOUS
    <3>2. PICK u : u = v
      OBVIOUS
    <3>3. PICK r : r = rank
      OBVIOUS
    <3>4. OnBars(r, n)
      <4>1. OnBars(PercentileRank(c, 3), Len(c))
        BY <2>2, RankIs
      <4> QED BY <2>2, <3>3, <4>1
    <3>5. Len(d) = n /\ Len(u) = n /\ \A k \in 1..n : d[k] \in Int /\ u[k] \in Int
      BY <2>2, <2>3, <3>1, <3>2
    <3> HIDE DEF c, v, rank
    <3> SUFFICES ASSUME NEW i \in Bars(d), NEW w \in 2..3
                 PROVE  Windowed(d, u, r, 500, 2, w, i)
      BY <3>1, <3>2, <3>3
    <3>6. 2 \in Nat \ {0} /\ w \in Nat \ {0}
      OBVIOUS
    <3> QED BY SMTT(30), <3>4, <3>5, <3>6, AnyWindowIsExact
  <2> QED BY <2>4, Zenon DEF WindowsAreExact, Windowed, Moves
<1> QED BY <1>1, StoreInvInit, StoreInvStep, PTL DEF ReplaySpec
=============================================================================
