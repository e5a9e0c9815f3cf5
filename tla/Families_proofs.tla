---------------------------- MODULE Families_proofs ----------------------------
(***************************************************************************)
(* No family looks ahead, proved of each of them: for any parameters such  *)
(* as the code has and any gate, what it says of a bar it says of every    *)
(* history that is the same up to that bar.                                *)
(*                                                                         *)
(* From below: an indicator of two series that are the same up to a bar is *)
(* the same up to that bar (its running sums are recursions, see           *)
(* Recursion); then the helpers the strategies share; then every onBar(),  *)
(* and what a strategy precomputes or remembers on its way; then every     *)
(* gate.  A lemma called XIs says what X computes, XSame that two      *)
(* series that are the same give the same.                                 *)
(***************************************************************************)
EXTENDS Replay, Families, WellFoundedInduction, TLAPS

-----------------------------------------------------------------------------
(* Series.                                                                 *)

\* Two series that hold the same up to a bar.
Same(v, w, n) ==
    /\ n \in Nat /\ Len(v) \in Nat /\ Len(w) \in Nat /\ n <= Len(v) /\ n <= Len(w)
    /\ \A k \in 1..n : v[k] = w[k]
\* A function on 1..n.
OnBars(f, n) == f = [k \in 1..n |-> f[k]]

LEMMA SeriesIs ==
    ASSUME NEW n \in Nat, NEW f, OnBars(f, n)
    PROVE  Len(f) = n /\ DOMAIN f = 1..n /\ Computed(f) = f
<1>0. f = [k \in 1..n |-> f[k]]
  BY DEF OnBars
<1>1. PICK S : S = {f[k] : k \in 1..n}
  OBVIOUS
<1>2. f \in [1..n -> S]
  BY <1>0, <1>1
<1>3. f \in Seq(S) /\ Len(f) = n
  BY <1>2
<1>4. SubSeq(f, 1, Len(f)) = f
  BY <1>3
<1> QED BY <1>2, <1>3, <1>4 DEF Computed

LEMMA BarsAreSame ==
    ASSUME NEW v, NEW w, NEW n, Same(v, w, n), NEW f, NEW g,
           OnBars(f, Len(v)), OnBars(g, Len(w)), \A k \in 1..n : f[k] = g[k]
    PROVE  Same(f, g, n)
<1>1. Len(f) = Len(v) /\ Len(g) = Len(w)
  BY SeriesIs DEF Same
<1> QED BY <1>1 DEF Same

LEMMA SameFacts ==
    ASSUME NEW v, NEW w, NEW n, Same(v, w, n)
    PROVE  /\ n \in Nat /\ Len(v) \in Nat /\ Len(w) \in Nat /\ n <= Len(v) /\ n <= Len(w)
           /\ \A i \in 1..n : i \in Nat /\ i \in Bars(v) /\ i \in Bars(w)
           /\ \A i \in 1..n : v[i] = w[i]
           /\ \A S : S \subseteq 1..n => Column(v, S) = Column(w, S)
<1>1. \A i \in 1..n : v[i] = w[i]
  BY DEF Same
<1>2. ASSUME NEW S, S \subseteq 1..n PROVE Column(v, S) = Column(w, S)
  BY <1>1, <1>2 DEF Column
<1> QED BY <1>1, <1>2 DEF Same, Bars

-----------------------------------------------------------------------------
(* Sums over a window.                                                     *)

SumBody(e, f, k) == IF k < e[2] THEN 0 ELSE f[k - 1] + e[1][k]
Sums == INSTANCE Recursion WITH Body <- SumBody

LEMMA SumIs ==
    ASSUME NEW v, NEW a \in Int, NEW b \in Int
    PROVE  /\ SumOver(v, a, b) = Sums!Rec(<<v, a>>, a - 1, b)[b]
           /\ Sums!LooksBack(<<v, a>>, a - 1, b)
<1>1. SumOver(v, a, b) = Sums!Rec(<<v, a>>, a - 1, b)[b]
  BY DEF SumOver, Sums!Rec, Sums!IsRec, SumBody
<1>2. Sums!LooksBack(<<v, a>>, a - 1, b)
  BY DEF Sums!LooksBack, Sums!SameBelow, SumBody
<1> QED BY <1>1, <1>2

LEMMA SumSame ==
    ASSUME NEW v, NEW w, NEW a \in Int, NEW b \in Int, \A k \in a..b : v[k] = w[k]
    PROVE  SumOver(v, a, b) = SumOver(w, a, b)
<1>1. \A i \in (a - 1)..b : \A g : SumBody(<<v, a>>, g, i) = SumBody(<<w, a>>, g, i)
  BY DEF SumBody
<1> QED BY <1>1, SumIs, Sums!Coincide

SquareBody(e, f, k) == IF k < e[2] THEN 0 ELSE f[k - 1] + (e[1][k] - e[3]) * (e[1][k] - e[3])
Squares == INSTANCE Recursion WITH Body <- SquareBody

LEMMA SquaresSame ==
    ASSUME NEW v, NEW w, NEW a \in Int, NEW b \in Int, NEW m, \A k \in a..b : v[k] = w[k]
    PROVE  SquaresAround(v, a, b, m) = SquaresAround(w, a, b, m)
<1>1. ASSUME NEW u
      PROVE  /\ SquaresAround(u, a, b, m) = Squares!Rec(<<u, a, m>>, a - 1, b)[b]
             /\ Squares!LooksBack(<<u, a, m>>, a - 1, b)
  <2>1. SquaresAround(u, a, b, m) = Squares!Rec(<<u, a, m>>, a - 1, b)[b]
    BY DEF SquaresAround, Squares!Rec, Squares!IsRec, SquareBody
  <2>2. Squares!LooksBack(<<u, a, m>>, a - 1, b)
    BY DEF Squares!LooksBack, Squares!SameBelow, SquareBody
  <2> QED BY <2>1, <2>2
<1>2. \A i \in (a - 1)..b : \A g : SquareBody(<<v, a, m>>, g, i) = SquareBody(<<w, a, m>>, g, i)
  BY DEF SquareBody
<1> QED BY <1>1, <1>2, Squares!Coincide

LEMMA MeanSame ==
    ASSUME NEW v, NEW w, NEW a \in Int, NEW b \in Int, \A k \in a..b : v[k] = w[k]
    PROVE  MeanOver(v, a, b) = MeanOver(w, a, b)
BY SumSame DEF MeanOver

-----------------------------------------------------------------------------
(* Averages.                                                               *)

SmaBody(e, f, i) == IF i = e[2] THEN SumOver(e[1], 1, e[2]) ELSE f[i - 1] + e[1][i] - e[1][i - e[2]]
Smas == INSTANCE Recursion WITH Body <- SmaBody

LEMMA Longest ==
    ASSUME NEW v, NEW w, NEW n, Same(v, w, n), NEW p \in Int
    PROVE  /\ Larger(p, Len(v)) \in Int /\ Larger(p, Len(w)) \in Int
           /\ n <= Larger(p, Len(v)) /\ n <= Larger(p, Len(w))
BY DEF Larger, Same

LEMMA SmaIs ==
    ASSUME NEW u, NEW p \in Nat
    PROVE  /\ Sma(u, p) = [i \in Bars(u) |->
                  IF i < p THEN NaN ELSE Smas!Rec(<<u, p>>, p, Larger(p, Len(u)))[i] \div p]
           /\ Smas!LooksBack(<<u, p>>, p, Larger(p, Len(u)))
<1>1. PICK r : r = Smas!Rec(<<u, p>>, p, Larger(p, Len(u)))
  OBVIOUS
<1>2. Sma(u, p) = [i \in Bars(u) |-> IF i < p THEN NaN ELSE r[i] \div p]
  BY <1>1 DEF Sma, Smas!Rec, Smas!IsRec, SmaBody
<1>3. ASSUME Len(u) \in Int PROVE Smas!LooksBack(<<u, p>>, p, Larger(p, Len(u)))
  BY <1>3 DEF Smas!LooksBack, Smas!SameBelow, SmaBody
<1> QED BY <1>1, <1>2, <1>3

LEMMA SmaSame ==
    ASSUME NEW v, NEW w, NEW n, Same(v, w, n), NEW p \in Nat
    PROVE  Same(Sma(v, p), Sma(w, p), n)
<1>0. n \in Int /\ p \in Int /\ Len(v) \in Nat /\ Len(w) \in Nat
  BY DEF Same
<1>1. \A i \in p..n : \A h : SmaBody(<<v, p>>, h, i) = SmaBody(<<w, p>>, h, i)
  <2>1. \A i \in p..n : i # p => i \in 1..n /\ i - p \in 1..n
    BY <1>0
  <2>2. \A i \in p..n : i # p => v[i] = w[i] /\ v[i - p] = w[i - p]
    BY <2>1 DEF Same
  <2>3. p <= n => SumOver(v, 1, p) = SumOver(w, 1, p)
    <3>1. p <= n => \A k \in 1..p : v[k] = w[k]
      BY DEF Same
    <3> QED BY <3>1, SumSame
  <2>4. \A i \in p..n : p <= n
    BY <1>0
  <2> QED BY <2>2, <2>3, <2>4 DEF SmaBody
<1>2. PICK f : f = Smas!Rec(<<v, p>>, p, Larger(p, Len(v)))
  OBVIOUS
<1>3. PICK g : g = Smas!Rec(<<w, p>>, p, Larger(p, Len(w)))
  OBVIOUS
<1>4. \A i \in p..n : f[i] = g[i]
  <2>1. /\ Larger(p, Len(v)) \in Int /\ Larger(p, Len(w)) \in Int
        /\ n <= Larger(p, Len(v)) /\ n <= Larger(p, Len(w))
    BY <1>0, Longest
  <2>2. /\ Smas!LooksBack(<<v, p>>, p, Larger(p, Len(v)))
        /\ Smas!LooksBack(<<w, p>>, p, Larger(p, Len(w)))
    BY SmaIs
  <2> QED BY SMTT(30), <1>0, <1>1, <1>2, <1>3, <2>1, <2>2, Smas!Agree
<1>5. Sma(v, p) = [i \in Bars(v) |-> IF i < p THEN NaN ELSE f[i] \div p]
  BY <1>2, SmaIs
<1>6. Sma(w, p) = [i \in Bars(w) |-> IF i < p THEN NaN ELSE g[i] \div p]
  BY <1>3, SmaIs
<1>7. \A i \in 1..n : i < p \/ f[i] = g[i]
  BY <1>0, <1>4
<1>8. OnBars(Sma(v, p), Len(v)) /\ OnBars(Sma(w, p), Len(w))
  BY <1>5, <1>6 DEF OnBars, Bars
<1>9. \A i \in 1..n : Sma(v, p)[i] = Sma(w, p)[i]
  BY <1>5, <1>6, <1>7, SameFacts
<1> QED BY <1>8, <1>9, BarsAreSame

EmaBody(e, f, i) ==
    IF i = e[2] THEN SumOver(e[1], 1, e[2]) \div e[2]
    ELSE (2 * e[1][i] + (e[2] - 1) * f[i - 1]) \div (e[2] + 1)
Emas == INSTANCE Recursion WITH Body <- EmaBody

LEMMA EmaIs ==
    ASSUME NEW u, NEW p \in Nat
    PROVE  /\ Ema(u, p) = [i \in Bars(u) |->
                  IF i < p THEN NaN ELSE Emas!Rec(<<u, p>>, p, Larger(p, Len(u)))[i]]
           /\ Emas!LooksBack(<<u, p>>, p, Larger(p, Len(u)))
<1>1. PICK r : r = Emas!Rec(<<u, p>>, p, Larger(p, Len(u)))
  OBVIOUS
<1>2. Ema(u, p) = [i \in Bars(u) |-> IF i < p THEN NaN ELSE r[i]]
  BY <1>1 DEF Ema, Emas!Rec, Emas!IsRec, EmaBody
<1>3. Emas!LooksBack(<<u, p>>, p, Larger(p, Len(u)))
  BY DEF Emas!LooksBack, Emas!SameBelow, EmaBody
<1> QED BY <1>1, <1>2, <1>3

LEMMA EmaSame ==
    ASSUME NEW v, NEW w, NEW n, Same(v, w, n), NEW p \in Nat
    PROVE  Same(Ema(v, p), Ema(w, p), n)
<1>0. n \in Int /\ p \in Int /\ Len(v) \in Nat /\ Len(w) \in Nat
  BY DEF Same
<1>1. \A i \in p..n : \A h : EmaBody(<<v, p>>, h, i) = EmaBody(<<w, p>>, h, i)
  <2>1. \A i \in p..n : p <= n /\ (i # p => i \in 1..n)
    BY <1>0
  <2>2. \A i \in p..n : i # p => v[i] = w[i]
    BY <2>1 DEF Same
  <2>3. p <= n => SumOver(v, 1, p) = SumOver(w, 1, p)
    <3>1. p <= n => \A k \in 1..p : v[k] = w[k]
      BY DEF Same
    <3> QED BY <3>1, SumSame
  <2> QED BY <2>1, <2>2, <2>3 DEF EmaBody
<1>2. PICK f : f = Emas!Rec(<<v, p>>, p, Larger(p, Len(v)))
  OBVIOUS
<1>3. PICK g : g = Emas!Rec(<<w, p>>, p, Larger(p, Len(w)))
  OBVIOUS
<1>4. \A i \in p..n : f[i] = g[i]
  <2>1. /\ Larger(p, Len(v)) \in Int /\ Larger(p, Len(w)) \in Int
        /\ n <= Larger(p, Len(v)) /\ n <= Larger(p, Len(w))
    BY <1>0, Longest
  <2>2. /\ Emas!LooksBack(<<v, p>>, p, Larger(p, Len(v)))
        /\ Emas!LooksBack(<<w, p>>, p, Larger(p, Len(w)))
    BY EmaIs
  <2> QED BY <1>0, <1>1, <1>2, <1>3, <2>1, <2>2, Emas!Agree
<1>5. Ema(v, p) = [i \in Bars(v) |-> IF i < p THEN NaN ELSE f[i]]
  BY <1>2, EmaIs
<1>6. Ema(w, p) = [i \in Bars(w) |-> IF i < p THEN NaN ELSE g[i]]
  BY <1>3, EmaIs
<1>7. \A i \in 1..n : i < p \/ f[i] = g[i]
  BY <1>0, <1>4
<1>8. OnBars(Ema(v, p), Len(v)) /\ OnBars(Ema(w, p), Len(w))
  BY <1>5, <1>6 DEF OnBars, Bars
<1>9. \A i \in 1..n : Ema(v, p)[i] = Ema(w, p)[i]
  BY <1>5, <1>6, <1>7, SameFacts
<1> QED BY <1>8, <1>9, BarsAreSame

WilderBody(e, f, i) ==
    IF i = e[2] + e[3] - 1 THEN SumOver(e[1], e[2], i) \div e[3]
    ELSE (f[i - 1] * (e[3] - 1) + e[1][i]) \div e[3]
Wilders == INSTANCE Recursion WITH Body <- WilderBody

LEMMA WilderIs ==
    ASSUME NEW u, NEW first \in Nat, NEW p \in Nat
    PROVE  LET a == first + p - 1
           IN  /\ Wilder(u, first, p) = [i \in Bars(u) |->
                      IF i < a THEN NaN ELSE Wilders!Rec(<<u, first, p>>, a, Larger(a, Len(u)))[i]]
               /\ Wilders!LooksBack(<<u, first, p>>, a, Larger(a, Len(u)))
<1>1. PICK r : r = Wilders!Rec(<<u, first, p>>, first + p - 1, Larger(first + p - 1, Len(u)))
  OBVIOUS
<1>2. Wilder(u, first, p) = [i \in Bars(u) |-> IF i < first + p - 1 THEN NaN ELSE r[i]]
  BY <1>1 DEF Wilder, Wilders!Rec, Wilders!IsRec, WilderBody
<1>3. Wilders!LooksBack(<<u, first, p>>, first + p - 1, Larger(first + p - 1, Len(u)))
  BY DEF Wilders!LooksBack, Wilders!SameBelow, WilderBody
<1> QED BY <1>1, <1>2, <1>3

LEMMA WilderSame ==
    ASSUME NEW v, NEW w, NEW n, Same(v, w, n), NEW first \in Nat, first > 0, NEW p \in Nat
    PROVE  Same(Wilder(v, first, p), Wilder(w, first, p), n)
<1>1. PICK a \in Int : a = first + p - 1
  OBVIOUS
<1>0. n \in Int /\ p \in Int /\ Len(v) \in Nat /\ Len(w) \in Nat
  BY DEF Same
<1>2. \A i \in a..n : \A h : WilderBody(<<v, first, p>>, h, i) = WilderBody(<<w, first, p>>, h, i)
  <2>1. \A i \in a..n : i # a => i \in 1..n
    BY <1>0, <1>1
  <2>2. \A i \in a..n : i # a => v[i] = w[i]
    BY <2>1 DEF Same
  <2>3. a <= n => SumOver(v, first, a) = SumOver(w, first, a)
    <3>1. a <= n => \A k \in first..a : v[k] = w[k]
      BY DEF Same
    <3> QED BY <3>1, SumSame
  <2>4. \A i \in a..n : a <= n
    BY <1>0
  <2> QED BY <1>1, <2>2, <2>3, <2>4 DEF WilderBody
<1>3. PICK f : f = Wilders!Rec(<<v, first, p>>, a, Larger(a, Len(v)))
  OBVIOUS
<1>4. PICK g : g = Wilders!Rec(<<w, first, p>>, a, Larger(a, Len(w)))
  OBVIOUS
<1>5. \A i \in a..n : f[i] = g[i]
  <2>1. /\ Larger(a, Len(v)) \in Int /\ Larger(a, Len(w)) \in Int
        /\ n <= Larger(a, Len(v)) /\ n <= Larger(a, Len(w))
    BY <1>0, Longest
  <2>2. /\ Wilders!LooksBack(<<v, first, p>>, a, Larger(a, Len(v)))
        /\ Wilders!LooksBack(<<w, first, p>>, a, Larger(a, Len(w)))
    BY <1>1, WilderIs
  <2> DEFINE d == <<v, first, p>>
             e == <<w, first, p>>
  <2>3. PICK b \in Int, c \in Int : b = Larger(a, Len(v)) /\ c = Larger(a, Len(w))
    BY <2>1
  <2>4. n \in Int /\ n <= b /\ n <= c /\ Wilders!LooksBack(d, a, b) /\ Wilders!LooksBack(e, a, c)
    BY <1>0, <2>1, <2>2, <2>3
  <2>5. \A i \in a..n : \A h : WilderBody(d, h, i) = WilderBody(e, h, i)
    BY <1>2
  <2> HIDE DEF d, e
  <2>6. \A i \in a..n : Wilders!Rec(d, a, b)[i] = Wilders!Rec(e, a, c)[i]
    BY <2>4, <2>5, Wilders!Agree
  <2> QED BY <1>3, <1>4, <2>3, <2>6 DEF d, e
<1>6. Wilder(v, first, p) = [i \in Bars(v) |-> IF i < a THEN NaN ELSE f[i]]
  BY <1>1, <1>3, WilderIs
<1>7. Wilder(w, first, p) = [i \in Bars(w) |-> IF i < a THEN NaN ELSE g[i]]
  BY <1>1, <1>4, WilderIs
<1>8. \A i \in 1..n : i < a \/ f[i] = g[i]
  BY <1>0, <1>5
<1>9. OnBars(Wilder(v, first, p), Len(v)) /\ OnBars(Wilder(w, first, p), Len(w))
  BY <1>6, <1>7 DEF OnBars, Bars
<1>10. \A i \in 1..n : Wilder(v, first, p)[i] = Wilder(w, first, p)[i]
  BY <1>6, <1>7, <1>8, SameFacts
<1> QED BY <1>9, <1>10, BarsAreSame

SmoothedBody(e, f, i) ==
    IF i = e[2] + 1 THEN SumOver(e[1], 2, i)
    ELSE f[i - 1] - f[i - 1] \div e[2] + e[1][i]
Smootheds == INSTANCE Recursion WITH Body <- SmoothedBody

LEMMA SmoothedIs ==
    ASSUME NEW u, Len(u) \in Nat, NEW p \in Nat
    PROVE  /\ SmoothedSum(u, p) = [i \in Bars(u) |-> IF i < p + 1 THEN NaN
                  ELSE Smootheds!Rec(<<u, p>>, p + 1, Larger(p + 1, Len(u)))[i]]
           /\ Smootheds!LooksBack(<<u, p>>, p + 1, Larger(p + 1, Len(u)))
<1>1. PICK r : r = Smootheds!Rec(<<u, p>>, p + 1, Larger(p + 1, Len(u)))
  OBVIOUS
<1>2. PICK f : f = [i \in Bars(u) |-> IF i < p + 1 THEN NaN ELSE r[i]]
  OBVIOUS
<1>3. SmoothedSum(u, p) = Computed(f)
  BY <1>1, <1>2 DEF SmoothedSum, Smootheds!Rec, Smootheds!IsRec, SmoothedBody
<1>4. Computed(f) = f
  <2>1. OnBars(f, Len(u))
    BY <1>2 DEF OnBars, Bars
  <2> QED BY <2>1, SeriesIs
<1>5. Smootheds!LooksBack(<<u, p>>, p + 1, Larger(p + 1, Len(u)))
  BY DEF Smootheds!LooksBack, Smootheds!SameBelow, SmoothedBody
<1> QED BY <1>1, <1>2, <1>3, <1>4, <1>5

LEMMA SmoothedSame ==
    ASSUME NEW v, NEW w, NEW n, Same(v, w, n), NEW p \in Nat
    PROVE  Same(SmoothedSum(v, p), SmoothedSum(w, p), n)
<1>1. PICK a \in Int : a = p + 1
  OBVIOUS
<1>0. n \in Int /\ p \in Int /\ Len(v) \in Nat /\ Len(w) \in Nat
  BY DEF Same
<1>2. \A i \in a..n : \A h : SmoothedBody(<<v, p>>, h, i) = SmoothedBody(<<w, p>>, h, i)
  <2>1. \A i \in a..n : i \in 1..n /\ a <= n
    BY <1>0, <1>1
  <2>2. \A i \in a..n : v[i] = w[i]
    BY <2>1 DEF Same
  <2>3. a <= n => SumOver(v, 2, a) = SumOver(w, 2, a)
    <3>1. a <= n => \A k \in 2..a : v[k] = w[k]
      BY DEF Same
    <3> QED BY <3>1, SumSame
  <2> QED BY <1>1, <2>1, <2>2, <2>3 DEF SmoothedBody
<1>3. PICK f : f = Smootheds!Rec(<<v, p>>, a, Larger(a, Len(v)))
  OBVIOUS
<1>4. PICK g : g = Smootheds!Rec(<<w, p>>, a, Larger(a, Len(w)))
  OBVIOUS
<1>5. \A i \in a..n : f[i] = g[i]
  <2>1. /\ Larger(a, Len(v)) \in Int /\ Larger(a, Len(w)) \in Int
        /\ n <= Larger(a, Len(v)) /\ n <= Larger(a, Len(w))
    BY <1>0, Longest
  <2>2. /\ Smootheds!LooksBack(<<v, p>>, a, Larger(a, Len(v)))
        /\ Smootheds!LooksBack(<<w, p>>, a, Larger(a, Len(w)))
    BY <1>0, <1>1, SmoothedIs
  <2> QED BY SMTT(30), <1>0, <1>1, <1>2, <1>3, <1>4, <2>1, <2>2, Smootheds!Agree
<1>6. SmoothedSum(v, p) = [i \in Bars(v) |-> IF i < a THEN NaN ELSE f[i]]
  BY <1>0, <1>1, <1>3, SmoothedIs
<1>7. SmoothedSum(w, p) = [i \in Bars(w) |-> IF i < a THEN NaN ELSE g[i]]
  BY <1>0, <1>1, <1>4, SmoothedIs
<1>8. \A i \in 1..n : i < a \/ f[i] = g[i]
  BY <1>0, <1>5
<1>9. OnBars(SmoothedSum(v, p), Len(v)) /\ OnBars(SmoothedSum(w, p), Len(w))
  BY <1>6, <1>7 DEF OnBars, Bars
<1>10. \A i \in 1..n : SmoothedSum(v, p)[i] = SmoothedSum(w, p)[i]
  BY <1>6, <1>7, <1>8, SameFacts
<1> QED BY <1>9, <1>10, BarsAreSame

-----------------------------------------------------------------------------
(* Stores.                                                                 *)

\* Two stores that hold the same bars up to one.
SameBars(s, t, n) ==
    /\ s = [c \in Columns |-> s[c]] /\ t = [c \in Columns |-> t[c]]
    /\ \A c \in Columns : /\ Same(s[c], t[c], n)
                          /\ Len(s[c]) = Len(s.close) /\ Len(t[c]) = Len(t.close)

LEMMA SameStore ==
    ASSUME NEW s, NEW t, NEW n, SameBars(s, t, n)
    PROVE  /\ n \in Nat /\ Len(s.close) \in Nat /\ Len(t.close) \in Nat
           /\ n <= Len(s.close) /\ n <= Len(t.close)
           /\ Same(s.open, t.open, n) /\ Same(s.high, t.high, n) /\ Same(s.low, t.low, n)
           /\ Same(s.close, t.close, n) /\ Same(s.volume, t.volume, n)
           /\ Same(s.timestamp, t.timestamp, n)
           /\ Len(s.open) = Len(s.close) /\ Len(s.high) = Len(s.close) /\ Len(s.low) = Len(s.close)
           /\ Len(s.volume) = Len(s.close) /\ Len(s.timestamp) = Len(s.close)
           /\ Len(t.open) = Len(t.close) /\ Len(t.high) = Len(t.close) /\ Len(t.low) = Len(t.close)
           /\ Len(t.volume) = Len(t.close) /\ Len(t.timestamp) = Len(t.close)
<1>1. \A c \in Columns : Same(s[c], t[c], n) /\ Len(s[c]) = Len(s.close) /\ Len(t[c]) = Len(t.close)
  BY DEF SameBars
<1>2. Same(s["close"], t["close"], n)
  BY <1>1 DEF Columns
<1>3. Same(s["open"], t["open"], n) /\ Same(s["high"], t["high"], n) /\ Same(s["low"], t["low"], n)
  BY <1>1 DEF Columns
<1>4. Same(s["volume"], t["volume"], n) /\ Same(s["timestamp"], t["timestamp"], n)
  BY <1>1 DEF Columns
<1>5. /\ Len(s["open"]) = Len(s.close) /\ Len(s["high"]) = Len(s.close) /\ Len(s["low"]) = Len(s.close)
      /\ Len(s["volume"]) = Len(s.close) /\ Len(s["timestamp"]) = Len(s.close)
  BY <1>1 DEF Columns
<1>6. /\ Len(t["open"]) = Len(t.close) /\ Len(t["high"]) = Len(t.close) /\ Len(t["low"]) = Len(t.close)
      /\ Len(t["volume"]) = Len(t.close) /\ Len(t["timestamp"]) = Len(t.close)
  BY <1>1 DEF Columns
<1>7. /\ n \in Nat /\ Len(s.close) \in Nat /\ Len(t.close) \in Nat
      /\ n <= Len(s.close) /\ n <= Len(t.close)
  BY <1>2 DEF Same
<1> QED BY <1>2, <1>3, <1>4, <1>5, <1>6, <1>7

\* What they hold is the same, of that bar and of the one before.
LEMMA SameBarAt ==
    ASSUME NEW s, NEW t, NEW n, SameBars(s, t, n), NEW i \in 1..n
    PROVE  /\ i \in Nat /\ i \in 1..Len(s.close) /\ i \in 1..Len(t.close)
           /\ i \in Bars(s.close) /\ i \in Bars(t.close)
           /\ i \in Bars(s.high) /\ i \in Bars(t.high) /\ i \in Bars(s.low) /\ i \in Bars(t.low)
           /\ s.open[i] = t.open[i] /\ s.high[i] = t.high[i] /\ s.low[i] = t.low[i]
           /\ s.close[i] = t.close[i] /\ s.volume[i] = t.volume[i] /\ s.timestamp[i] = t.timestamp[i]
<1>1. /\ n \in Nat /\ Len(s.close) \in Nat /\ Len(t.close) \in Nat
      /\ n <= Len(s.close) /\ n <= Len(t.close)
      /\ Len(s.high) = Len(s.close) /\ Len(t.high) = Len(t.close)
      /\ Len(s.low) = Len(s.close) /\ Len(t.low) = Len(t.close)
  BY SameStore
<1>2. \A k \in 1..n : s.open[k] = t.open[k] /\ s.high[k] = t.high[k] /\ s.low[k] = t.low[k]
  BY SameStore DEF Same
<1>3. \A k \in 1..n : s.close[k] = t.close[k] /\ s.volume[k] = t.volume[k] /\ s.timestamp[k] = t.timestamp[k]
  BY SameStore DEF Same
<1>4. i \in Nat /\ i \in 1..Len(s.close) /\ i \in 1..Len(t.close)
  BY <1>1
<1> QED BY <1>1, <1>2, <1>3, <1>4 DEF Bars

\* The same bars up to one are the same up to an earlier one.
LEMMA SameEarlier ==
    ASSUME NEW s, NEW t, NEW n, SameBars(s, t, n), NEW i \in 0..n
    PROVE  SameBars(s, t, i)
<1>1. n \in Nat /\ i \in Nat /\ i <= n /\ \A k \in 1..i : k \in 1..n
  BY SameStore
<1>2. \A c \in Columns : Same(s[c], t[c], i)
  BY <1>1 DEF SameBars, Same
<1> QED BY <1>2 DEF SameBars

-----------------------------------------------------------------------------
(* Strength and range.                                                     *)

LEMMA GainsSame ==
    ASSUME NEW v, NEW w, NEW n, Same(v, w, n)
    PROVE  Same(Gains(v), Gains(w), n) /\ Same(Losses(v), Losses(w), n)
<1>1. \A i \in 1..n : i \in Bars(v) /\ i \in Bars(w) /\ v[i] = w[i] /\ (i # 1 => v[i - 1] = w[i - 1])
  BY DEF Same, Bars
<1>2. \A i \in 1..n : Gains(v)[i] = Gains(w)[i] /\ Losses(v)[i] = Losses(w)[i]
  BY <1>1 DEF Gains, Losses
<1>3. OnBars(Gains(v), Len(v)) /\ OnBars(Gains(w), Len(w))
  BY DEF OnBars, Gains, Bars
<1>4. OnBars(Losses(v), Len(v)) /\ OnBars(Losses(w), Len(w))
  BY DEF OnBars, Losses, Bars
<1> QED BY <1>2, <1>3, <1>4, BarsAreSame

LEMMA RsiSame ==
    ASSUME NEW v, NEW w, NEW n, Same(v, w, n), NEW p \in Nat
    PROVE  Same(Rsi(v, p), Rsi(w, p), n)
<1>1. PICK gv, lv, gw, lw : /\ gv = Wilder(Gains(v), 2, p) /\ lv = Wilder(Losses(v), 2, p)
                            /\ gw = Wilder(Gains(w), 2, p) /\ lw = Wilder(Losses(w), 2, p)
  OBVIOUS
<1>2. \A i \in 1..n : i \in Bars(v) /\ i \in Bars(w)
  BY SameFacts
<1>3. \A i \in 1..n : gv[i] = gw[i] /\ lv[i] = lw[i]
  <2>1. Same(Gains(v), Gains(w), n) /\ Same(Losses(v), Losses(w), n)
    BY GainsSame
  <2>2. Same(gv, gw, n) /\ Same(lv, lw, n)
    BY <1>1, <2>1, WilderSame
  <2> QED BY <2>2 DEF Same
<1> DEFINE value(g, l) == CASE ~Ok(g) -> NaN [] Ok(g) /\ l = 0 -> 100 [] OTHER -> (100 * g) \div (g + l)
<1>4. Rsi(v, p) = [i \in Bars(v) |-> value(gv[i], lv[i])] /\ Rsi(w, p) = [i \in Bars(w) |-> value(gw[i], lw[i])]
  BY <1>1 DEF Rsi
<1> HIDE DEF value
<1>5. \A i \in 1..n : Rsi(v, p)[i] = Rsi(w, p)[i]
  BY <1>2, <1>3, <1>4
<1>6. OnBars(Rsi(v, p), Len(v)) /\ OnBars(Rsi(w, p), Len(w))
  BY <1>4 DEF OnBars, Bars
<1> QED BY <1>5, <1>6, BarsAreSame

LEMMA TrueRangeSame ==
    ASSUME NEW s, NEW t, NEW n, SameBars(s, t, n)
    PROVE  Same(TrueRange(s), TrueRange(t), n)
<1>1. n \in Nat /\ Same(s.close, t.close, n)
  BY SameStore
<1>2. \A i \in 1..n : /\ i \in Bars(s.close) /\ i \in Bars(t.close)
                      /\ s.high[i] = t.high[i] /\ s.low[i] = t.low[i] /\ s.close[i] = t.close[i]
  BY SameBarAt
<1>3. \A i \in 1..n : i # 1 => s.close[i - 1] = t.close[i - 1]
  <2>1. \A i \in 1..n : i # 1 => i - 1 \in 1..n
    BY <1>1
  <2> QED BY <1>2, <2>1
<1>4. \A i \in 1..n : TrueRange(s)[i] = TrueRange(t)[i]
  <2> SUFFICES ASSUME NEW i \in 1..n PROVE TrueRange(s)[i] = TrueRange(t)[i]
    OBVIOUS
  <2>1. CASE i = 1
    BY <1>2, <2>1 DEF TrueRange
  <2>2. CASE i # 1
    <3>1. PICK h, l, c : h = s.high[i] /\ l = s.low[i] /\ c = s.close[i - 1]
      OBVIOUS
    <3>2. h = t.high[i] /\ l = t.low[i] /\ c = t.close[i - 1]
      BY <1>2, <1>3, <2>2, <3>1
    <3>3. TrueRange(s)[i] = Highest({h - l, Abs(h - c), Abs(l - c)})
      BY <1>2, <2>2, <3>1 DEF TrueRange
    <3>4. TrueRange(t)[i] = Highest({h - l, Abs(h - c), Abs(l - c)})
      BY <1>2, <2>2, <3>2 DEF TrueRange
    <3> QED BY <3>3, <3>4
  <2> QED BY <2>1, <2>2
<1>5. OnBars(TrueRange(s), Len(s.close)) /\ OnBars(TrueRange(t), Len(t.close))
  BY DEF OnBars, TrueRange, Bars
<1> QED BY <1>1, <1>4, <1>5, BarsAreSame

LEMMA AtrSame ==
    ASSUME NEW s, NEW t, NEW n, SameBars(s, t, n), NEW p \in Nat
    PROVE  Same(Atr(s, p), Atr(t, p), n)
BY TrueRangeSame, WilderSame DEF Atr

-----------------------------------------------------------------------------
(* Directional movement.                                                   *)

LEMMA MovementSame ==
    ASSUME NEW s, NEW t, NEW n, SameBars(s, t, n)
    PROVE  Same(PlusDM(s), PlusDM(t), n) /\ Same(MinusDM(s), MinusDM(t), n)
<1>1. /\ n \in Nat /\ Same(s.high, t.high, n) /\ Same(s.low, t.low, n)
  BY SameStore
<1>2. \A i \in 1..n : /\ i \in Bars(s.high) /\ i \in Bars(t.high) /\ i \in Bars(s.low) /\ i \in Bars(t.low)
                      /\ s.high[i] = t.high[i] /\ s.low[i] = t.low[i]
  BY SameBarAt
<1>3. \A i \in 1..n : i > 1 => s.high[i - 1] = t.high[i - 1] /\ s.low[i - 1] = t.low[i - 1]
  <2>1. \A i \in 1..n : i > 1 => i - 1 \in 1..n
    BY <1>1
  <2> QED BY <1>2, <2>1
<1>4. \A i \in 1..n : PlusDM(s)[i] = PlusDM(t)[i]
  BY <1>2, <1>3 DEF PlusDM
<1>5. \A i \in 1..n : MinusDM(s)[i] = MinusDM(t)[i]
  BY <1>2, <1>3 DEF MinusDM
<1>6. OnBars(PlusDM(s), Len(s.high)) /\ OnBars(PlusDM(t), Len(t.high))
  BY DEF OnBars, PlusDM, Bars
<1>7. OnBars(MinusDM(s), Len(s.low)) /\ OnBars(MinusDM(t), Len(t.low))
  BY DEF OnBars, MinusDM, Bars
<1> QED BY <1>1, <1>4, <1>5, <1>6, <1>7, BarsAreSame

\* Two series on bars.
Series(v, w, n) == Same(v, w, n) /\ OnBars(v, Len(v)) /\ OnBars(w, Len(w))

LEMMA SeriesFrom ==
    ASSUME NEW v, NEW w, NEW n, Same(v, w, n), NEW f, NEW g,
           OnBars(f, Len(v)), OnBars(g, Len(w)), \A k \in 1..n : f[k] = g[k]
    PROVE  /\ Same(f, g, n) /\ Len(f) = Len(v) /\ Len(g) = Len(w) /\ Series(f, g, n)
           /\ Computed(f) = f /\ Computed(g) = g
           /\ DOMAIN f = Bars(v) /\ DOMAIN g = Bars(w)
<1>1. Len(v) \in Nat /\ Len(w) \in Nat
  BY DEF Same
<1>2. /\ Len(f) = Len(v) /\ DOMAIN f = 1..Len(v) /\ Computed(f) = f
      /\ Len(g) = Len(w) /\ DOMAIN g = 1..Len(w) /\ Computed(g) = g
  BY <1>1, SeriesIs
<1>3. Same(f, g, n)
  BY BarsAreSame
<1> QED BY <1>2, <1>3 DEF Series, Bars

LEMMA SeriesComputed ==
    ASSUME NEW v, NEW w, NEW n, Series(v, w, n)
    PROVE  /\ Computed(v) = v /\ Computed(w) = w /\ Same(v, w, n)
           /\ DOMAIN v = Bars(v) /\ DOMAIN w = Bars(w)
<1>1. Len(v) \in Nat /\ Len(w) \in Nat
  BY DEF Same, Series
<1> QED BY <1>1, SeriesIs DEF Series, Bars

LEMMA SmoothedOn ==
    ASSUME NEW v, NEW w, NEW n, Same(v, w, n), NEW p \in Nat
    PROVE  /\ Series(SmoothedSum(v, p), SmoothedSum(w, p), n)
           /\ Len(SmoothedSum(v, p)) = Len(v) /\ Len(SmoothedSum(w, p)) = Len(w)
<1>0. Len(v) \in Nat /\ Len(w) \in Nat /\ Same(SmoothedSum(v, p), SmoothedSum(w, p), n)
  BY SmoothedSame DEF Same
<1>1. OnBars(SmoothedSum(v, p), Len(v)) /\ OnBars(SmoothedSum(w, p), Len(w))
  <2>1. PICK f : f = Smootheds!Rec(<<v, p>>, p + 1, Larger(p + 1, Len(v)))
    OBVIOUS
  <2>2. PICK g : g = Smootheds!Rec(<<w, p>>, p + 1, Larger(p + 1, Len(w)))
    OBVIOUS
  <2>3. SmoothedSum(v, p) = [i \in Bars(v) |-> IF i < p + 1 THEN NaN ELSE f[i]]
    BY <1>0, <2>1, SmoothedIs
  <2>4. SmoothedSum(w, p) = [i \in Bars(w) |-> IF i < p + 1 THEN NaN ELSE g[i]]
    BY <1>0, <2>2, SmoothedIs
  <2> QED BY <2>3, <2>4 DEF OnBars, Bars
<1>2. Len(SmoothedSum(v, p)) = Len(v) /\ Len(SmoothedSum(w, p)) = Len(w)
  BY <1>0, <1>1, SeriesIs
<1> QED BY <1>0, <1>1, <1>2 DEF Series

LEMMA IndexSame ==
    ASSUME NEW dv, NEW dw, NEW n, Series(dv, dw, n), NEW rv, NEW rw, Same(rv, rw, n)
    PROVE  Series(DirectionalIndex(dv, rv), DirectionalIndex(dw, rw), n)
<1>1. PICK f : f = [i \in 1..Len(dv) |-> IF ~Ok(rv[i]) \/ rv[i] = 0 THEN NaN ELSE (100 * dv[i]) \div rv[i]]
  OBVIOUS
<1>2. PICK g : g = [i \in 1..Len(dw) |-> IF ~Ok(rw[i]) \/ rw[i] = 0 THEN NaN ELSE (100 * dw[i]) \div rw[i]]
  OBVIOUS
<1>3. Same(dv, dw, n) /\ Len(dv) \in Nat /\ Len(dw) \in Nat
  BY DEF Series, Same
<1>4. DOMAIN dv = 1..Len(dv) /\ DOMAIN dw = 1..Len(dw)
  BY <1>3, SeriesIs DEF Series
<1>5. DirectionalIndex(dv, rv) = Computed(f) /\ DirectionalIndex(dw, rw) = Computed(g)
  BY <1>1, <1>2, <1>4 DEF DirectionalIndex
<1>6. OnBars(f, Len(dv)) /\ OnBars(g, Len(dw))
  BY <1>1, <1>2 DEF OnBars
<1>7. \A i \in 1..n : i \in 1..Len(dv) /\ i \in 1..Len(dw) /\ dv[i] = dw[i] /\ rv[i] = rw[i]
  BY <1>3 DEF Same
<1>8. \A i \in 1..n : f[i] = g[i]
  BY <1>1, <1>2, <1>7
<1> QED BY SMTT(30), <1>3, <1>5, <1>6, <1>8, SeriesFrom

LEMMA DxSame ==
    ASSUME NEW v, NEW w, NEW n, Series(v, w, n), NEW mv, NEW mw, Same(mv, mw, n)
    PROVE  Series(Dx(v, mv), Dx(w, mw), n)
<1> DEFINE value(a, b) == CASE ~Ok(a) -> NaN
                            [] Ok(a) /\ a + b = 0 -> 0
                            [] OTHER -> (100 * Abs(a - b)) \div (a + b)
<1>1. PICK f : f = [i \in 1..Len(v) |-> value(v[i], mv[i])]
  OBVIOUS
<1>2. PICK g : g = [i \in 1..Len(w) |-> value(w[i], mw[i])]
  OBVIOUS
<1>3. Same(v, w, n) /\ Len(v) \in Nat /\ Len(w) \in Nat
  BY DEF Series, Same
<1>4. DOMAIN v = 1..Len(v) /\ DOMAIN w = 1..Len(w)
  BY <1>3, SeriesIs DEF Series
<1>5. Dx(v, mv) = Computed(f) /\ Dx(w, mw) = Computed(g)
  BY <1>1, <1>2, <1>4 DEF Dx
<1> HIDE DEF value
<1>6. OnBars(f, Len(v)) /\ OnBars(g, Len(w))
  BY <1>1, <1>2 DEF OnBars
<1>7. \A i \in 1..n : i \in 1..Len(v) /\ i \in 1..Len(w) /\ v[i] = w[i] /\ mv[i] = mw[i]
  BY <1>3 DEF Same
<1>8. \A i \in 1..n : f[i] = g[i]
  BY <1>1, <1>2, <1>7
<1> QED BY <1>3, <1>5, <1>6, <1>8, SeriesFrom

\* The seed of the average, and the index where it is known.
Seed(dx, w) == { k \in (w + 1)..(2 * w) : k \in DOMAIN dx /\ Ok(dx[k]) }
Known(dx, w) == [k \in DOMAIN dx |-> IF k \in Seed(dx, w) THEN dx[k] ELSE 0]
AdxBody(e, f, i) ==
    CASE i = 2 * e[2] -> SumOver(Known(e[1], e[2]), e[2] + 1, i) \div Cardinality(Seed(e[1], e[2]))
      [] i > 2 * e[2] /\ ~Ok(e[1][i]) -> f[i - 1]
      [] OTHER -> (f[i - 1] * (e[2] - 1) + e[1][i]) \div e[2]
Adxs == INSTANCE Recursion WITH Body <- AdxBody

LEMMA AdxIs ==
    ASSUME NEW u, Len(u) \in Nat, OnBars(u, Len(u)), NEW p \in Nat
    PROVE  /\ Adx(u, p) = [i \in 1..Len(u) |-> IF i < 2 * p \/ Seed(u, p) = {} THEN NaN
                  ELSE Adxs!Rec(<<u, p>>, 2 * p, Larger(2 * p, Len(u)))[i]]
           /\ Adxs!LooksBack(<<u, p>>, 2 * p, Larger(2 * p, Len(u)))
<1>1. PICK r : r = Adxs!Rec(<<u, p>>, 2 * p, Larger(2 * p, Len(u)))
  OBVIOUS
<1>2. DOMAIN u = 1..Len(u)
  BY SeriesIs
<1>3. PICK f : f = [i \in DOMAIN u |-> IF i < 2 * p \/ Seed(u, p) = {} THEN NaN ELSE r[i]]
  OBVIOUS
<1>4. Adx(u, p) = Computed(f)
  BY <1>1, <1>3 DEF Adx, Adxs!Rec, Adxs!IsRec, AdxBody, Seed, Known
<1>5. Computed(f) = f
  <2>1. OnBars(f, Len(u))
    BY <1>2, <1>3 DEF OnBars
  <2> QED BY <2>1, SeriesIs
<1>6. Adxs!LooksBack(<<u, p>>, 2 * p, Larger(2 * p, Len(u)))
  <2>1. ASSUME NEW i \in (2 * p)..Larger(2 * p, Len(u)), NEW g, NEW h, \A j \in (2 * p)..(i - 1) : g[j] = h[j]
        PROVE  AdxBody(<<u, p>>, g, i) = AdxBody(<<u, p>>, h, i)
    <3>1. CASE i = 2 * p
      BY <3>1 DEF AdxBody
    <3>2. CASE i > 2 * p
      <4>1. g[i - 1] = h[i - 1]
        BY <2>1, <3>2
      <4> QED BY <3>2, <4>1 DEF AdxBody
    <3> QED BY <3>1, <3>2
  <2> QED BY <2>1 DEF Adxs!LooksBack, Adxs!SameBelow
<1> QED BY <1>1, <1>2, <1>3, <1>4, <1>5, <1>6

LEMMA AdxSame ==
    ASSUME NEW v, NEW w, NEW n, Series(v, w, n), NEW p \in Nat
    PROVE  Same(Adx(v, p), Adx(w, p), n)
<1>1. PICK a \in Int : a = 2 * p
  OBVIOUS
<1>0. /\ Same(v, w, n) /\ n \in Int /\ p \in Int /\ Len(v) \in Nat /\ Len(w) \in Nat
      /\ OnBars(v, Len(v)) /\ OnBars(w, Len(w)) /\ DOMAIN v = 1..Len(v) /\ DOMAIN w = 1..Len(w)
  BY SeriesIs DEF Same, Series
<1>2. \A i \in 1..n : i \in DOMAIN v /\ i \in DOMAIN w /\ v[i] = w[i]
  BY <1>0 DEF Same
<1>3. ASSUME a <= n
      PROVE  /\ Seed(v, p) = Seed(w, p)
             /\ SumOver(Known(v, p), p + 1, a) = SumOver(Known(w, p), p + 1, a)
  <2>1. \A k \in (p + 1)..(2 * p) : k \in 1..n
    BY <1>0, <1>1, <1>3
  <2>2. Seed(v, p) = Seed(w, p)
    BY <1>2, <2>1 DEF Seed
  <2>3. \A k \in (p + 1)..a : Known(v, p)[k] = Known(w, p)[k]
    BY <1>1, <1>2, <2>1, <2>2 DEF Known
  <2> QED BY <2>2, <2>3, SumSame
<1>4. \A i \in a..n : \A h : AdxBody(<<v, p>>, h, i) = AdxBody(<<w, p>>, h, i)
  <2> SUFFICES ASSUME NEW i \in a..n, NEW h PROVE AdxBody(<<v, p>>, h, i) = AdxBody(<<w, p>>, h, i)
    OBVIOUS
  <2>1. a <= n
    BY <1>0
  <2>2. CASE i = a
    BY <1>1, <1>3, <2>1, <2>2 DEF AdxBody
  <2>3. CASE i > a
    <3>1. v[i] = w[i]
      BY <1>0, <1>1, <1>2, <2>3
    <3> QED BY <1>1, <2>3, <3>1 DEF AdxBody
  <2> QED BY <2>2, <2>3
<1>5. PICK f : f = Adxs!Rec(<<v, p>>, a, Larger(a, Len(v)))
  OBVIOUS
<1>6. PICK g : g = Adxs!Rec(<<w, p>>, a, Larger(a, Len(w)))
  OBVIOUS
<1>7. \A i \in a..n : f[i] = g[i]
  <2>1. /\ Larger(a, Len(v)) \in Int /\ Larger(a, Len(w)) \in Int
        /\ n <= Larger(a, Len(v)) /\ n <= Larger(a, Len(w))
    BY <1>0, Longest
  <2>2. /\ Adxs!LooksBack(<<v, p>>, a, Larger(a, Len(v)))
        /\ Adxs!LooksBack(<<w, p>>, a, Larger(a, Len(w)))
    BY <1>0, <1>1, AdxIs
  <2> QED BY SMTT(30), <1>0, <1>1, <1>4, <1>5, <1>6, <2>1, <2>2, Adxs!Agree
<1>8. Adx(v, p) = [i \in 1..Len(v) |-> IF i < a \/ Seed(v, p) = {} THEN NaN ELSE f[i]]
  BY <1>0, <1>1, <1>5, AdxIs
<1>9. Adx(w, p) = [i \in 1..Len(w) |-> IF i < a \/ Seed(w, p) = {} THEN NaN ELSE g[i]]
  BY <1>0, <1>1, <1>6, AdxIs
<1>10. \A i \in 1..n : i < a \/ (f[i] = g[i] /\ Seed(v, p) = Seed(w, p))
  BY <1>0, <1>3, <1>7
<1>11. OnBars(Adx(v, p), Len(v)) /\ OnBars(Adx(w, p), Len(w))
  BY <1>8, <1>9 DEF OnBars
<1>12. \A i \in 1..n : Adx(v, p)[i] = Adx(w, p)[i]
  BY <1>0, <1>2, <1>8, <1>9, <1>10
<1> QED BY <1>0, <1>11, <1>12, BarsAreSame

LEMMA DmiSame ==
    ASSUME NEW s, NEW t, NEW n, SameBars(s, t, n), NEW p \in Nat
    PROVE  /\ Same(Dmi(s, p).plusDI, Dmi(t, p).plusDI, n)
           /\ Same(Dmi(s, p).minusDI, Dmi(t, p).minusDI, n)
           /\ Same(Dmi(s, p).adx, Dmi(t, p).adx, n)
<1>1. PICK rs, rt : rs = SmoothedSum(TrueRange(s), p) /\ rt = SmoothedSum(TrueRange(t), p)
  OBVIOUS
<1>2. PICK ps, pt : /\ ps = DirectionalIndex(SmoothedSum(PlusDM(s), p), rs)
                    /\ pt = DirectionalIndex(SmoothedSum(PlusDM(t), p), rt)
  OBVIOUS
<1>3. PICK ms, mt : /\ ms = DirectionalIndex(SmoothedSum(MinusDM(s), p), rs)
                    /\ mt = DirectionalIndex(SmoothedSum(MinusDM(t), p), rt)
  OBVIOUS
<1>4. /\ Dmi(s, p) = [plusDI |-> ps, minusDI |-> ms, adx |-> Adx(Dx(ps, ms), p)]
      /\ Dmi(t, p) = [plusDI |-> pt, minusDI |-> mt, adx |-> Adx(Dx(pt, mt), p)]
  BY <1>1, <1>2, <1>3 DEF Dmi
<1>5. Same(rs, rt, n)
  BY <1>1, TrueRangeSame, SmoothedSame
<1>6. /\ Series(SmoothedSum(PlusDM(s), p), SmoothedSum(PlusDM(t), p), n)
      /\ Series(SmoothedSum(MinusDM(s), p), SmoothedSum(MinusDM(t), p), n)
  BY MovementSame, SmoothedOn
<1>7. Series(ps, pt, n) /\ Series(ms, mt, n)
  BY <1>2, <1>3, <1>5, <1>6, IndexSame
<1>8. Same(ps, pt, n) /\ Same(ms, mt, n)
  BY <1>7 DEF Series
<1>9. Series(Dx(ps, ms), Dx(pt, mt), n)
  BY <1>7, <1>8, DxSame
<1>10. Same(Adx(Dx(ps, ms), p), Adx(Dx(pt, mt), p), n)
  BY <1>9, AdxSame
<1> QED BY <1>4, <1>8, <1>10

-----------------------------------------------------------------------------
(* Channels and dispersion.                                                *)

LEMMA HighLowMidSame ==
    ASSUME NEW s, NEW t, NEW n, SameBars(s, t, n), NEW p \in Nat
    PROVE  Series(HighLowMid(s, p), HighLowMid(t, p), n)
<1> DEFINE mid(x, i) == (Highest(Column(x.high, (i - p + 1)..i)) + Lowest(Column(x.low, (i - p + 1)..i))) \div 2
<1>1. n \in Nat /\ Same(s.high, t.high, n) /\ Same(s.low, t.low, n)
  BY SameStore
<1>2. \A i \in 1..n : i \in Bars(s.high) /\ i \in Bars(t.high)
  BY SameBarAt
<1>3. ASSUME NEW i \in 1..n, ~(i < p) PROVE mid(s, i) = mid(t, i)
  <2>1. (i - p + 1)..i \subseteq 1..n
    BY <1>1, <1>3
  <2>2. /\ Column(s.high, (i - p + 1)..i) = Column(t.high, (i - p + 1)..i)
        /\ Column(s.low, (i - p + 1)..i) = Column(t.low, (i - p + 1)..i)
    BY SMTT(30), <1>1, <2>1, SameFacts
  <2> QED BY <2>2
<1>4. /\ HighLowMid(s, p) = [i \in Bars(s.high) |-> IF i < p THEN NaN ELSE mid(s, i)]
      /\ HighLowMid(t, p) = [i \in Bars(t.high) |-> IF i < p THEN NaN ELSE mid(t, i)]
  BY DEF HighLowMid
<1> HIDE DEF mid
<1>5. \A i \in 1..n : HighLowMid(s, p)[i] = HighLowMid(t, p)[i]
  BY <1>2, <1>3, <1>4
<1>6. OnBars(HighLowMid(s, p), Len(s.high)) /\ OnBars(HighLowMid(t, p), Len(t.high))
  BY <1>4 DEF OnBars, Bars
<1> QED BY <1>1, <1>5, <1>6, SeriesFrom

LEMMA DisplacedSame ==
    ASSUME NEW v, NEW w, NEW n, Series(v, w, n), NEW shift \in Nat
    PROVE  Same(Displaced(v, shift), Displaced(w, shift), n)
<1>1. /\ Same(v, w, n) /\ n \in Nat /\ DOMAIN v = 1..Len(v) /\ DOMAIN w = 1..Len(w)
      /\ \A i \in 1..n : i \in DOMAIN v /\ i \in DOMAIN w /\ v[i] = w[i]
  BY SeriesIs DEF Same, Series
<1>2. \A i \in 1..n : ~(i <= shift) => i - shift \in 1..n
  BY <1>1
<1>3. \A i \in 1..n : Displaced(v, shift)[i] = Displaced(w, shift)[i]
  BY <1>1, <1>2 DEF Displaced
<1>4. OnBars(Displaced(v, shift), Len(v)) /\ OnBars(Displaced(w, shift), Len(w))
  BY <1>1 DEF OnBars, Displaced
<1> QED BY <1>1, <1>3, <1>4, BarsAreSame

LEMMA IchimokuSame ==
    ASSUME NEW s, NEW t, NEW n, SameBars(s, t, n),
           NEW a \in Nat, NEW b \in Nat, NEW c \in Nat, NEW d \in Nat
    PROVE  /\ Same(Ichimoku(s, a, b, c, d).tenkan, Ichimoku(t, a, b, c, d).tenkan, n)
           /\ Same(Ichimoku(s, a, b, c, d).kijun, Ichimoku(t, a, b, c, d).kijun, n)
           /\ Same(Ichimoku(s, a, b, c, d).spanA, Ichimoku(t, a, b, c, d).spanA, n)
           /\ Same(Ichimoku(s, a, b, c, d).spanB, Ichimoku(t, a, b, c, d).spanB, n)
<1> DEFINE middle(x, y) == [i \in DOMAIN x |-> IF Ok(x[i]) /\ Ok(y[i]) THEN (x[i] + y[i]) \div 2 ELSE NaN]
<1>1. PICK fs, ft, gs, gt : /\ fs = HighLowMid(s, a) /\ ft = HighLowMid(t, a)
                            /\ gs = HighLowMid(s, b) /\ gt = HighLowMid(t, b)
  OBVIOUS
<1>2. PICK ms, mt : ms = middle(fs, gs) /\ mt = middle(ft, gt)
  OBVIOUS
<1>3. /\ Ichimoku(s, a, b, c, d) = [tenkan |-> fs, kijun |-> gs, spanA |-> Displaced(ms, d),
                                    spanB |-> Displaced(HighLowMid(s, c), d)]
      /\ Ichimoku(t, a, b, c, d) = [tenkan |-> ft, kijun |-> gt, spanA |-> Displaced(mt, d),
                                    spanB |-> Displaced(HighLowMid(t, c), d)]
  BY <1>1, <1>2 DEF Ichimoku
<1>4. /\ Series(fs, ft, n) /\ Series(gs, gt, n)
      /\ Series(HighLowMid(s, c), HighLowMid(t, c), n)
  BY <1>1, HighLowMidSame
<1>5. /\ Same(fs, ft, n) /\ Same(gs, gt, n) /\ DOMAIN fs = 1..Len(fs) /\ DOMAIN ft = 1..Len(ft)
      /\ \A i \in 1..n : i \in DOMAIN fs /\ i \in DOMAIN ft /\ fs[i] = ft[i] /\ gs[i] = gt[i]
  BY <1>4, SeriesIs DEF Series, Same
<1>6. Series(ms, mt, n)
  <2>1. \A i \in 1..n : ms[i] = mt[i]
    BY <1>2, <1>5
  <2>2. OnBars(ms, Len(fs)) /\ OnBars(mt, Len(ft))
    BY <1>2, <1>5 DEF OnBars
  <2> QED BY <1>5, <2>1, <2>2, SeriesFrom
<1>7. /\ Same(Displaced(ms, d), Displaced(mt, d), n)
      /\ Same(Displaced(HighLowMid(s, c), d), Displaced(HighLowMid(t, c), d), n)
  BY <1>4, <1>6, DisplacedSame
<1> QED BY <1>3, <1>5, <1>7

LEMMA StdSame ==
    ASSUME NEW v, NEW w, NEW n, Same(v, w, n), NEW p \in Nat
    PROVE  Series(RollingStd(v, p), RollingStd(w, p), n)
<1> DEFINE deviation(x, i) == Root(SquaresAround(x, i - p + 1, i, MeanOver(x, i - p + 1, i)) \div p)
<1>1. n \in Nat /\ \A i \in 1..n : i \in Bars(v) /\ i \in Bars(w) /\ v[i] = w[i]
  BY SameFacts
<1>2. ASSUME NEW i \in 1..n, ~(i < p)
      PROVE  /\ deviation(v, i) = deviation(w, i)
             /\ OkOn(v, i - p + 1, i) <=> OkOn(w, i - p + 1, i)
  <2>1. i - p + 1 \in Int /\ i \in Int /\ \A k \in (i - p + 1)..i : k \in 1..n
    BY <1>1, <1>2
  <2>2. \A k \in (i - p + 1)..i : v[k] = w[k]
    BY <1>1, <2>1
  <2>3. PICK m : m = MeanOver(v, i - p + 1, i) /\ m = MeanOver(w, i - p + 1, i)
    BY <2>1, <2>2, MeanSame
  <2>4. SquaresAround(v, i - p + 1, i, m) = SquaresAround(w, i - p + 1, i, m)
    BY <2>1, <2>2, SquaresSame
  <2>5. OkOn(v, i - p + 1, i) <=> OkOn(w, i - p + 1, i)
    BY <2>2 DEF OkOn
  <2> QED BY <2>3, <2>4, <2>5
<1>3. /\ RollingStd(v, p) = [i \in Bars(v) |-> IF i < p \/ ~OkOn(v, i - p + 1, i) THEN NaN ELSE deviation(v, i)]
      /\ RollingStd(w, p) = [i \in Bars(w) |-> IF i < p \/ ~OkOn(w, i - p + 1, i) THEN NaN ELSE deviation(w, i)]
  BY DEF RollingStd
<1> HIDE DEF deviation
<1>4. \A i \in 1..n : RollingStd(v, p)[i] = RollingStd(w, p)[i]
  BY <1>1, <1>2, <1>3
<1>5. OnBars(RollingStd(v, p), Len(v)) /\ OnBars(RollingStd(w, p), Len(w))
  BY <1>3 DEF OnBars, Bars
<1> QED BY <1>4, <1>5, SeriesFrom

LEMMA BollingerSame ==
    ASSUME NEW v, NEW w, NEW n, Same(v, w, n), NEW p \in Nat, NEW k
    PROVE  Series(Bollinger(v, p, k), Bollinger(w, p, k), n)
<1> DEFINE band(m, d) == [mid |-> m, upper |-> Where(Ok(m), m + k * d), lower |-> Where(Ok(m), m - k * d)]
<1>1. PICK mv, mw, dv, dw : /\ mv = Sma(v, p) /\ mw = Sma(w, p)
                            /\ dv = RollingStd(v, p) /\ dw = RollingStd(w, p)
  OBVIOUS
<1>2. \A i \in 1..n : i \in Bars(v) /\ i \in Bars(w)
  BY SameFacts
<1>3. \A i \in 1..n : mv[i] = mw[i] /\ dv[i] = dw[i]
  <2>1. Same(mv, mw, n) /\ Series(dv, dw, n)
    BY <1>1, SmaSame, StdSame
  <2> QED BY <2>1 DEF Series, Same
<1>4. /\ Bollinger(v, p, k) = [i \in Bars(v) |-> band(mv[i], dv[i])]
      /\ Bollinger(w, p, k) = [i \in Bars(w) |-> band(mw[i], dw[i])]
  BY <1>1 DEF Bollinger
<1> HIDE DEF band
<1>5. \A i \in 1..n : Bollinger(v, p, k)[i] = Bollinger(w, p, k)[i]
  BY <1>2, <1>3, <1>4
<1>6. OnBars(Bollinger(v, p, k), Len(v)) /\ OnBars(Bollinger(w, p, k), Len(w))
  BY <1>4 DEF OnBars, Bars
<1> QED BY <1>5, <1>6, SeriesFrom

LEMMA ReturnsSame ==
    ASSUME NEW v, NEW w, NEW n, Same(v, w, n)
    PROVE  Series(PercentReturns(v), PercentReturns(w), n)
<1>1. \A i \in 1..n : i \in Bars(v) /\ i \in Bars(w) /\ v[i] = w[i] /\ (i # 1 => v[i - 1] = w[i - 1])
  BY DEF Same, Bars
<1>2. \A i \in 1..n : PercentReturns(v)[i] = PercentReturns(w)[i]
  BY <1>1 DEF PercentReturns
<1>3. OnBars(PercentReturns(v), Len(v)) /\ OnBars(PercentReturns(w), Len(w))
  BY DEF OnBars, PercentReturns, Bars
<1> QED BY <1>2, <1>3, SeriesFrom

LEMMA VolatilitySame ==
    ASSUME NEW v, NEW w, NEW n, Same(v, w, n), NEW p \in Nat
    PROVE  Same(RollingVolatility(v, p), RollingVolatility(w, p), n)
<1>1. Series(PercentReturns(v), PercentReturns(w), n)
  BY ReturnsSame
<1>2. Computed(PercentReturns(v)) = PercentReturns(v) /\ Computed(PercentReturns(w)) = PercentReturns(w)
  BY <1>1, SeriesComputed
<1>3. Same(PercentReturns(v), PercentReturns(w), n)
  BY <1>1 DEF Series
<1>4. Series(RollingStd(PercentReturns(v), p), RollingStd(PercentReturns(w), p), n)
  BY <1>3, StdSame
<1> QED BY <1>2, <1>4 DEF RollingVolatility, Series

LEMMA ExtremesSame ==
    ASSUME NEW v, NEW w, NEW n, Same(v, w, n), NEW p \in Nat
    PROVE  /\ Same(RollingMaxExclusive(v, p), RollingMaxExclusive(w, p), n)
           /\ Same(RollingMinExclusive(v, p), RollingMinExclusive(w, p), n)
<1>1. n \in Nat /\ \A i \in 1..n : i \in Bars(v) /\ i \in Bars(w)
  BY SameFacts
<1>2. ASSUME NEW i \in 1..n, ~(i <= p) PROVE Column(v, (i - p)..(i - 1)) = Column(w, (i - p)..(i - 1))
  <2>1. (i - p)..(i - 1) \subseteq 1..n
    BY <1>1, <1>2
  <2> QED BY <2>1, SameFacts
<1>3. \A i \in 1..n : RollingMaxExclusive(v, p)[i] = RollingMaxExclusive(w, p)[i]
  BY <1>1, <1>2 DEF RollingMaxExclusive
<1>4. \A i \in 1..n : RollingMinExclusive(v, p)[i] = RollingMinExclusive(w, p)[i]
  BY <1>1, <1>2 DEF RollingMinExclusive
<1>5. OnBars(RollingMaxExclusive(v, p), Len(v)) /\ OnBars(RollingMaxExclusive(w, p), Len(w))
  BY DEF OnBars, RollingMaxExclusive, Bars
<1>6. OnBars(RollingMinExclusive(v, p), Len(v)) /\ OnBars(RollingMinExclusive(w, p), Len(w))
  BY DEF OnBars, RollingMinExclusive, Bars
<1> QED BY <1>3, <1>4, <1>5, <1>6, BarsAreSame

LEMMA RankSame ==
    ASSUME NEW v, NEW w, NEW n, Same(v, w, n), NEW p \in Nat
    PROVE  Same(PercentileRank(v, p), PercentileRank(w, p), n)
<1> DEFINE valid(x, i) == { k \in (i - p + 1)..i : k \in Bars(x) /\ Ok(x[k]) }
           rank(x, i) == IF i < p \/ ~Ok(x[i]) \/ 2 * Cardinality(valid(x, i)) < p THEN NaN
                         ELSE (Permille * Cardinality({ k \in valid(x, i) : x[k] <= x[i] }))
                              \div Cardinality(valid(x, i))
<1>1. n \in Nat /\ \A i \in 1..n : i \in Bars(v) /\ i \in Bars(w) /\ v[i] = w[i]
  BY SameFacts
<1>2. PICK f : f = [i \in Bars(v) |-> rank(v, i)]
  OBVIOUS
<1>3. PICK g : g = [i \in Bars(w) |-> rank(w, i)]
  OBVIOUS
<1>4. PercentileRank(v, p) = Computed(f) /\ PercentileRank(w, p) = Computed(g)
  BY <1>2, <1>3 DEF PercentileRank
<1>5. ASSUME NEW i \in 1..n PROVE rank(v, i) = rank(w, i)
  <2>1. CASE i < p
    BY <2>1
  <2>2. CASE ~(i < p)
    <3>1. \A k \in (i - p + 1)..i : k \in 1..n
      BY <1>1, <2>2
    <3>2. valid(v, i) = valid(w, i)
      BY <1>1, <3>1
    <3>3. \A k \in valid(v, i) : k \in 1..n
      BY <3>1
    <3>4. { k \in valid(v, i) : v[k] <= v[i] } = { k \in valid(w, i) : w[k] <= w[i] }
      BY <1>1, <3>2, <3>3
    <3>5. Ok(v[i]) <=> Ok(w[i])
      BY <1>1
    <3> HIDE DEF valid
    <3> QED BY <3>2, <3>4, <3>5
  <2> QED BY <2>1, <2>2
<1> HIDE DEF rank
<1>6. \A i \in 1..n : f[i] = g[i]
  BY <1>1, <1>2, <1>3, <1>5
<1>7. OnBars(f, Len(v)) /\ OnBars(g, Len(w))
  BY <1>2, <1>3 DEF OnBars, Bars
<1>8. Same(f, g, n) /\ Computed(f) = f /\ Computed(g) = g
  BY <1>6, <1>7, SeriesFrom
<1> QED BY <1>4, <1>8

LEMMA MeanSkipSame ==
    ASSUME NEW v, NEW w, NEW n, Same(v, w, n), NEW p \in Nat
    PROVE  Same(MeanSkipNaN(v, p), MeanSkipNaN(w, p), n)
<1> DEFINE valid(x, i) == { k \in (i - p + 1)..i : k \in Bars(x) /\ Ok(x[k]) }
           known(x, i) == [k \in Bars(x) |-> IF k \in valid(x, i) THEN x[k] ELSE 0]
           mean(x, i) == IF i < p \/ 2 * Cardinality(valid(x, i)) < p THEN NaN
                         ELSE SumOver(known(x, i), i - p + 1, i) \div Cardinality(valid(x, i))
<1>1. n \in Nat /\ \A i \in 1..n : i \in Bars(v) /\ i \in Bars(w) /\ v[i] = w[i]
  BY SameFacts
<1>2. ASSUME NEW i \in 1..n PROVE mean(v, i) = mean(w, i)
  <2>1. CASE i < p
    BY <2>1
  <2>2. CASE ~(i < p)
    <3>1. i - p + 1 \in Int /\ i \in Int /\ \A k \in (i - p + 1)..i : k \in 1..n
      BY <1>1, <2>2
    <3>2. valid(v, i) = valid(w, i)
      BY <1>1, <3>1
    <3> HIDE DEF valid
    <3>3. \A k \in (i - p + 1)..i : known(v, i)[k] = known(w, i)[k]
      BY <1>1, <3>1, <3>2
    <3>4. PICK x, y : x = known(v, i) /\ y = known(w, i)
      OBVIOUS
    <3>5. SumOver(x, i - p + 1, i) = SumOver(y, i - p + 1, i)
      BY <3>1, <3>3, <3>4, SumSame
    <3> QED BY <3>2, <3>4, <3>5
  <2> QED BY <2>1, <2>2
<1>3. /\ MeanSkipNaN(v, p) = [i \in Bars(v) |-> mean(v, i)]
      /\ MeanSkipNaN(w, p) = [i \in Bars(w) |-> mean(w, i)]
  BY DEF MeanSkipNaN
<1> HIDE DEF mean
<1>4. \A i \in 1..n : MeanSkipNaN(v, p)[i] = MeanSkipNaN(w, p)[i]
  BY <1>1, <1>2, <1>3
<1>5. OnBars(MeanSkipNaN(v, p), Len(v)) /\ OnBars(MeanSkipNaN(w, p), Len(w))
  BY <1>3 DEF OnBars, Bars
<1> QED BY <1>4, <1>5, BarsAreSame

-----------------------------------------------------------------------------
(* Volume and candles.                                                     *)

BeforeBody(e, f, i) ==
    IF i = 1 THEN 0
    ELSE f[i - 1] + e[1][i - 1] - (IF i - 1 > e[2] THEN e[1][i - 1 - e[2]] ELSE 0)
Befores == INSTANCE Recursion WITH Body <- BeforeBody

LEMMA RelativeVolumeIs ==
    ASSUME NEW u, Len(u) \in Nat, NEW p \in Nat
    PROVE  /\ RelativeVolume(u, p) = [i \in Bars(u) |->
                  IF i <= p \/ Befores!Rec(<<u, p>>, 1, Len(u))[i] <= 0 THEN NaN
                  ELSE (Permille * p * u[i]) \div Befores!Rec(<<u, p>>, 1, Len(u))[i]]
           /\ Befores!LooksBack(<<u, p>>, 1, Len(u))
<1>1. PICK r : r = Befores!Rec(<<u, p>>, 1, Len(u))
  OBVIOUS
<1>2. RelativeVolume(u, p) = [i \in Bars(u) |-> IF i <= p \/ r[i] <= 0 THEN NaN
                                                ELSE (Permille * p * u[i]) \div r[i]]
  BY <1>1 DEF RelativeVolume, Befores!Rec, Befores!IsRec, BeforeBody
<1>3. Befores!LooksBack(<<u, p>>, 1, Len(u))
  BY DEF Befores!LooksBack, Befores!SameBelow, BeforeBody
<1> QED BY <1>1, <1>2, <1>3

LEMMA RelativeVolumeSame ==
    ASSUME NEW v, NEW w, NEW n, Same(v, w, n), NEW p \in Nat
    PROVE  Same(RelativeVolume(v, p), RelativeVolume(w, p), n)
<1>0. n \in Int /\ p \in Int /\ Len(v) \in Nat /\ Len(w) \in Nat /\ n <= Len(v) /\ n <= Len(w)
  BY DEF Same
<1>1. \A i \in 1..n : i \in Bars(v) /\ i \in Bars(w) /\ v[i] = w[i]
  BY SameFacts
<1>2. \A i \in 1..n : \A h : BeforeBody(<<v, p>>, h, i) = BeforeBody(<<w, p>>, h, i)
  <2>1. \A i \in 1..n : i # 1 => i - 1 \in 1..n /\ (i - 1 > p => i - 1 - p \in 1..n)
    BY <1>0
  <2>2. \A i \in 1..n : i # 1 => v[i - 1] = w[i - 1] /\ (i - 1 > p => v[i - 1 - p] = w[i - 1 - p])
    BY <1>1, <2>1
  <2> QED BY <2>2 DEF BeforeBody
<1>3. PICK f : f = Befores!Rec(<<v, p>>, 1, Len(v))
  OBVIOUS
<1>4. PICK g : g = Befores!Rec(<<w, p>>, 1, Len(w))
  OBVIOUS
<1>5. \A i \in 1..n : f[i] = g[i]
  <2>1. Befores!LooksBack(<<v, p>>, 1, Len(v)) /\ Befores!LooksBack(<<w, p>>, 1, Len(w))
    BY <1>0, RelativeVolumeIs
  <2> QED BY <1>0, <1>2, <1>3, <1>4, <2>1, Befores!Agree
<1>6. RelativeVolume(v, p) = [i \in Bars(v) |-> IF i <= p \/ f[i] <= 0 THEN NaN
                                                ELSE (Permille * p * v[i]) \div f[i]]
  BY <1>0, <1>3, RelativeVolumeIs
<1>7. RelativeVolume(w, p) = [i \in Bars(w) |-> IF i <= p \/ g[i] <= 0 THEN NaN
                                                ELSE (Permille * p * w[i]) \div g[i]]
  BY <1>0, <1>4, RelativeVolumeIs
<1>8. \A i \in 1..n : RelativeVolume(v, p)[i] = RelativeVolume(w, p)[i]
  BY <1>1, <1>5, <1>6, <1>7
<1>9. OnBars(RelativeVolume(v, p), Len(v)) /\ OnBars(RelativeVolume(w, p), Len(w))
  BY <1>6, <1>7 DEF OnBars, Bars
<1> QED BY <1>8, <1>9, BarsAreSame

ObvBody(e, f, i) == IF i = 1 THEN 0 ELSE f[i - 1] + Sign(e[1][i] - e[1][i - 1]) * e[2][i]
Obvs == INSTANCE Recursion WITH Body <- ObvBody

LEMMA ObvIs ==
    ASSUME NEW c, NEW x, Len(c) \in Nat
    PROVE  /\ OnBalanceVolume(c, x) = [i \in Bars(c) |-> Obvs!Rec(<<c, x>>, 1, Len(c))[i]]
           /\ Obvs!LooksBack(<<c, x>>, 1, Len(c))
<1>1. PICK r : r = Obvs!Rec(<<c, x>>, 1, Len(c))
  OBVIOUS
<1>2. PICK f : f = [i \in Bars(c) |-> r[i]]
  OBVIOUS
<1>3. OnBalanceVolume(c, x) = Computed(f)
  BY <1>1, <1>2 DEF OnBalanceVolume, Obvs!Rec, Obvs!IsRec, ObvBody
<1>4. Computed(f) = f
  <2>1. OnBars(f, Len(c))
    BY <1>2 DEF OnBars, Bars
  <2> QED BY <2>1, SeriesIs
<1>5. Obvs!LooksBack(<<c, x>>, 1, Len(c))
  BY DEF Obvs!LooksBack, Obvs!SameBelow, ObvBody
<1> QED BY <1>1, <1>2, <1>3, <1>4, <1>5

LEMMA ObvSame ==
    ASSUME NEW s, NEW t, NEW n, SameBars(s, t, n)
    PROVE  Same(OnBalanceVolume(s.close, s.volume), OnBalanceVolume(t.close, t.volume), n)
<1>0. /\ n \in Int /\ Len(s.close) \in Nat /\ Len(t.close) \in Nat /\ n <= Len(s.close) /\ n <= Len(t.close)
      /\ Same(s.close, t.close, n)
  BY SameStore
<1>1. \A i \in 1..n : /\ i \in Bars(s.close) /\ i \in Bars(t.close)
                      /\ s.close[i] = t.close[i] /\ s.volume[i] = t.volume[i]
  BY SameBarAt
<1>2. \A i \in 1..n : \A h : ObvBody(<<s.close, s.volume>>, h, i) = ObvBody(<<t.close, t.volume>>, h, i)
  <2>1. \A i \in 1..n : i # 1 => i - 1 \in 1..n
    BY <1>0
  <2>2. \A i \in 1..n : i # 1 => s.close[i - 1] = t.close[i - 1]
    BY <1>1, <2>1
  <2> QED BY <1>1, <2>2 DEF ObvBody
<1>3. PICK f : f = Obvs!Rec(<<s.close, s.volume>>, 1, Len(s.close))
  OBVIOUS
<1>4. PICK g : g = Obvs!Rec(<<t.close, t.volume>>, 1, Len(t.close))
  OBVIOUS
<1>5. \A i \in 1..n : f[i] = g[i]
  <2>1. /\ Obvs!LooksBack(<<s.close, s.volume>>, 1, Len(s.close))
        /\ Obvs!LooksBack(<<t.close, t.volume>>, 1, Len(t.close))
    BY <1>0, ObvIs
  <2> QED BY <1>0, <1>2, <1>3, <1>4, <2>1, Obvs!Agree
<1>6. OnBalanceVolume(s.close, s.volume) = [i \in Bars(s.close) |-> f[i]]
  BY <1>0, <1>3, ObvIs
<1>7. OnBalanceVolume(t.close, t.volume) = [i \in Bars(t.close) |-> g[i]]
  BY <1>0, <1>4, ObvIs
<1>8. \A i \in 1..n : OnBalanceVolume(s.close, s.volume)[i] = OnBalanceVolume(t.close, t.volume)[i]
  BY <1>1, <1>5, <1>6, <1>7
<1>9. /\ OnBars(OnBalanceVolume(s.close, s.volume), Len(s.close))
      /\ OnBars(OnBalanceVolume(t.close, t.volume), Len(t.close))
  BY <1>6, <1>7 DEF OnBars, Bars
<1> QED BY <1>0, <1>8, <1>9, BarsAreSame

LEMMA CandlesSame ==
    ASSUME NEW s, NEW t, NEW n, SameBars(s, t, n)
    PROVE  Same(CandleSignals(s), CandleSignals(t), n)
<1>0. n \in Nat /\ Same(s.close, t.close, n)
  BY SameStore
<1>1. \A i \in 1..n : /\ i \in Bars(s.close) /\ i \in Bars(t.close)
                      /\ s.open[i] = t.open[i] /\ s.high[i] = t.high[i]
                      /\ s.low[i] = t.low[i] /\ s.close[i] = t.close[i]
  BY SameBarAt
<1>2. \A i \in 1..n : ShapesOfOne(s, i) = ShapesOfOne(t, i)
  BY <1>1 DEF ShapesOfOne
<1>3. \A i \in 1..n : i > 1 => ShapesOfTwo(s, i) = ShapesOfTwo(t, i)
  <2>1. \A i \in 1..n : i > 1 => i - 1 \in 1..n
    BY <1>0
  <2>2. \A i \in 1..n : i > 1 => s.open[i - 1] = t.open[i - 1] /\ s.close[i - 1] = t.close[i - 1]
    BY <1>1, <2>1
  <2> QED BY <1>1, <2>2 DEF ShapesOfTwo, Up, Down
<1>4. \A i \in 1..n : i > 2 => ShapesOfThree(s, i) = ShapesOfThree(t, i)
  <2>1. \A i \in 1..n : i > 2 => i - 1 \in 1..n /\ i - 2 \in 1..n
    BY <1>0
  <2>2. \A i \in 1..n : i > 2 =>
            /\ s.open[i - 1] = t.open[i - 1] /\ s.close[i - 1] = t.close[i - 1]
            /\ s.high[i - 1] = t.high[i - 1] /\ s.low[i - 1] = t.low[i - 1]
            /\ s.open[i - 2] = t.open[i - 2] /\ s.close[i - 2] = t.close[i - 2]
            /\ s.high[i - 2] = t.high[i - 2] /\ s.low[i - 2] = t.low[i - 2]
    BY <1>1, <2>1
  <2> QED BY <1>1, <2>2 DEF ShapesOfThree, Up, Down
<1>5. \A i \in 1..n : CandleSignals(s)[i] = CandleSignals(t)[i]
  BY <1>1, <1>2, <1>3, <1>4 DEF CandleSignals
<1>6. OnBars(CandleSignals(s), Len(s.close)) /\ OnBars(CandleSignals(t), Len(t.close))
  BY DEF OnBars, CandleSignals, Bars
<1> QED BY <1>0, <1>5, <1>6, BarsAreSame

LEMMA LogSame ==
    ASSUME NEW v, NEW w, NEW n, Same(v, w, n)
    PROVE  Series(LogOf(v), LogOf(w), n)
<1>1. \A i \in 1..n : i \in Bars(v) /\ i \in Bars(w) /\ v[i] = w[i]
  BY SameFacts
<1>2. \A i \in 1..n : LogOf(v)[i] = LogOf(w)[i]
  BY <1>1 DEF LogOf
<1>3. OnBars(LogOf(v), Len(v)) /\ OnBars(LogOf(w), Len(w))
  BY DEF OnBars, LogOf, Bars
<1> QED BY <1>2, <1>3, SeriesFrom

-----------------------------------------------------------------------------
(* Trend.  From here on a lemma is about a bar: what a family says of it,  *)
(* given two stores that hold the same bars up to it.                      *)

LEMMA TrailingSame ==
    ASSUME NEW v, NEW w, NEW n, Same(v, w, n), NEW p \in Nat
    PROVE  Series(TrailingReturn(v, p), TrailingReturn(w, p), n)
<1>1. n \in Nat /\ \A i \in 1..n : i \in Bars(v) /\ i \in Bars(w) /\ v[i] = w[i]
  BY SameFacts
<1>2. \A i \in 1..n : ~(i <= p) => i - p \in 1..n
  BY <1>1
<1>3. \A i \in 1..n : TrailingReturn(v, p)[i] = TrailingReturn(w, p)[i]
  BY <1>1, <1>2 DEF TrailingReturn
<1>4. OnBars(TrailingReturn(v, p), Len(v)) /\ OnBars(TrailingReturn(w, p), Len(w))
  BY DEF OnBars, TrailingReturn, Bars
<1> QED BY <1>3, <1>4, SeriesFrom

LEMMA SameLast ==
    ASSUME NEW v, NEW w, NEW n \in Nat \ {0}, Same(v, w, n)
    PROVE  v[n] = w[n]
BY DEF Same

\* What an indicator of so many bars shows at the bar.
LEMMA ShownAt ==
    ASSUME NEW s, NEW t, NEW i \in Nat \ {0}, SameBars(s, t, i), NEW p \in Nat
    PROVE  /\ TrailingReturn(s.close, p)[i] = TrailingReturn(t.close, p)[i]
           /\ RollingVolatility(s.close, p)[i] = RollingVolatility(t.close, p)[i]
           /\ Sma(s.close, p)[i] = Sma(t.close, p)[i]
           /\ Ema(s.close, p)[i] = Ema(t.close, p)[i]
           /\ Rsi(s.close, p)[i] = Rsi(t.close, p)[i]
           /\ RollingStd(s.close, p)[i] = RollingStd(t.close, p)[i]
           /\ Atr(s, p)[i] = Atr(t, p)[i]
           /\ RelativeVolume(s.volume, p)[i] = RelativeVolume(t.volume, p)[i]
           /\ RollingMaxExclusive(s.high, p)[i] = RollingMaxExclusive(t.high, p)[i]
           /\ RollingMinExclusive(s.low, p)[i] = RollingMinExclusive(t.low, p)[i]
           /\ RollingMaxExclusive(s.close, p)[i] = RollingMaxExclusive(t.close, p)[i]
<1>1. /\ Same(s.close, t.close, i) /\ Same(s.high, t.high, i) /\ Same(s.low, t.low, i)
      /\ Same(s.volume, t.volume, i)
  BY SameStore
<1>2. /\ Series(TrailingReturn(s.close, p), TrailingReturn(t.close, p), i)
      /\ Series(RollingStd(s.close, p), RollingStd(t.close, p), i)
  BY <1>1, TrailingSame, StdSame
<1>3. /\ Same(TrailingReturn(s.close, p), TrailingReturn(t.close, p), i)
      /\ Same(RollingStd(s.close, p), RollingStd(t.close, p), i)
  BY <1>2 DEF Series
<1>4. /\ Same(RollingVolatility(s.close, p), RollingVolatility(t.close, p), i)
      /\ Same(Sma(s.close, p), Sma(t.close, p), i)
      /\ Same(Ema(s.close, p), Ema(t.close, p), i)
      /\ Same(Rsi(s.close, p), Rsi(t.close, p), i)
  BY <1>1, VolatilitySame, SmaSame, EmaSame, RsiSame
<1>5. /\ Same(Atr(s, p), Atr(t, p), i)
      /\ Same(RelativeVolume(s.volume, p), RelativeVolume(t.volume, p), i)
      /\ Same(RollingMaxExclusive(s.high, p), RollingMaxExclusive(t.high, p), i)
      /\ Same(RollingMinExclusive(s.low, p), RollingMinExclusive(t.low, p), i)
      /\ Same(RollingMaxExclusive(s.close, p), RollingMaxExclusive(t.close, p), i)
  BY <1>1, AtrSame, RelativeVolumeSame, ExtremesSame
<1> QED BY <1>3, <1>4, <1>5, SameLast

LEMMA TsmomSame ==
    ASSUME NEW s, NEW t, NEW i \in Nat \ {0}, SameBars(s, t, i), NEW p, Counts(p, {"lookback", "volWindow"})
    PROVE  Tsmom(p, s, i) = Tsmom(p, t, i)
<1>1. p.lookback \in Nat /\ p.volWindow \in Nat /\ i \in 1..i
  BY DEF Counts
<1>2. PICK r : r = TrailingReturn(s.close, p.lookback)[i] /\ r = TrailingReturn(t.close, p.lookback)[i]
  BY <1>1, ShownAt
<1>3. PICK v : v = RollingVolatility(s.close, p.volWindow)[i] /\ v = RollingVolatility(t.close, p.volWindow)[i]
  BY <1>1, ShownAt
<1> QED BY <1>2, <1>3 DEF Tsmom

LEMMA SmaCrossSame ==
    ASSUME NEW s, NEW t, NEW i \in Nat \ {0}, SameBars(s, t, i), NEW p, Counts(p, {"fast", "slow"})
    PROVE  SmaCross(p, s, i) = SmaCross(p, t, i)
<1>1. p.fast \in Nat /\ p.slow \in Nat
  BY DEF Counts
<1>2. PICK f, g : f = Sma(s.close, p.fast) /\ g = Sma(t.close, p.fast)
  OBVIOUS
<1>3. PICK h, k : h = Sma(s.close, p.slow) /\ k = Sma(t.close, p.slow)
  OBVIOUS
<1>4. Same(f, g, i) /\ Same(h, k, i)
  BY <1>1, <1>2, <1>3, SameStore, SmaSame
<1>5. \A j \in 1..i : f[j] = g[j] /\ h[j] = k[j]
  BY <1>4 DEF Same
<1>6. CASE i = 1
  BY <1>6 DEF SmaCross
<1>7. CASE i # 1
  <2>1. i \in 1..i /\ i - 1 \in 1..i /\ \A j \in (i - 1)..i : j \in 1..i
    BY <1>7
  <2>2. f[i] = g[i] /\ f[i - 1] = g[i - 1] /\ h[i] = k[i] /\ h[i - 1] = k[i - 1]
    BY <1>5, <2>1
  <2>3. (OkOn(f, i - 1, i) <=> OkOn(g, i - 1, i)) /\ (OkOn(h, i - 1, i) <=> OkOn(k, i - 1, i))
    BY <1>5, <2>1 DEF OkOn
  <2> QED BY <1>2, <1>3, <2>2, <2>3 DEF SmaCross
<1> QED BY <1>6, <1>7

LEMMA FaberSame ==
    ASSUME NEW s, NEW t, NEW i \in Nat \ {0}, SameBars(s, t, i), NEW p, Counts(p, {"window"})
    PROVE  FaberMa(p, s, i) = FaberMa(p, t, i)
<1>1. p.window \in Nat /\ i \in 1..i
  BY DEF Counts
<1>2. PICK m : m = Sma(s.close, p.window)[i] /\ m = Sma(t.close, p.window)[i]
  BY <1>1, ShownAt
<1>3. s.close[i] = t.close[i]
  BY <1>1, SameBarAt
<1> QED BY <1>2, <1>3 DEF FaberMa

Move(c, k) == Abs(c[k] - c[k - 1])
PathBody(e, f, k) ==
    IF k = 1 THEN 0
    ELSE f[k - 1] + Move(e[1], k) - (IF k > e[2] + 1 THEN Move(e[1], k - e[2]) ELSE 0)
Paths == INSTANCE Recursion WITH Body <- PathBody

LEMMA PathIs ==
    ASSUME NEW u, Len(u) \in Nat, NEW p \in Nat
    PROVE  /\ PathLength(u, p) = [k \in Bars(u) |-> Paths!Rec(<<u, p>>, 1, Len(u))[k]]
           /\ Paths!LooksBack(<<u, p>>, 1, Len(u))
<1>1. PICK r : r = Paths!Rec(<<u, p>>, 1, Len(u))
  OBVIOUS
<1>2. PICK f : f = [k \in Bars(u) |-> r[k]]
  OBVIOUS
<1>3. PathLength(u, p) = Computed(f)
  BY <1>1, <1>2 DEF PathLength, Paths!Rec, Paths!IsRec, PathBody, Move, Bars
<1>4. Computed(f) = f
  <2>1. OnBars(f, Len(u))
    BY <1>2 DEF OnBars, Bars
  <2> QED BY <2>1, SeriesIs
<1>5. Paths!LooksBack(<<u, p>>, 1, Len(u))
  BY DEF Paths!LooksBack, Paths!SameBelow, PathBody
<1> QED BY <1>1, <1>2, <1>3, <1>4, <1>5

LEMMA PathSame ==
    ASSUME NEW v, NEW w, NEW n, Same(v, w, n), NEW p \in Nat
    PROVE  Series(PathLength(v, p), PathLength(w, p), n)
<1>0. n \in Int /\ p \in Int /\ Len(v) \in Nat /\ Len(w) \in Nat /\ n <= Len(v) /\ n <= Len(w)
  BY DEF Same
<1>1. \A i \in 1..n : i \in Bars(v) /\ i \in Bars(w) /\ v[i] = w[i]
  BY SameFacts
<1>2. \A i \in 1..n : \A h : PathBody(<<v, p>>, h, i) = PathBody(<<w, p>>, h, i)
  <2>1. \A i \in 1..n : i # 1 => /\ i - 1 \in 1..n
                                 /\ i > p + 1 => i - p \in 1..n /\ (i - p) - 1 \in 1..n
    BY <1>0
  <2>2. \A i \in 1..n : i # 1 => /\ Move(v, i) = Move(w, i)
                                 /\ i > p + 1 => Move(v, i - p) = Move(w, i - p)
    BY <1>1, <2>1 DEF Move
  <2> QED BY <2>2 DEF PathBody
<1>3. PICK f : f = Paths!Rec(<<v, p>>, 1, Len(v))
  OBVIOUS
<1>4. PICK g : g = Paths!Rec(<<w, p>>, 1, Len(w))
  OBVIOUS
<1>5. \A i \in 1..n : f[i] = g[i]
  <2>1. Paths!LooksBack(<<v, p>>, 1, Len(v)) /\ Paths!LooksBack(<<w, p>>, 1, Len(w))
    BY <1>0, PathIs
  <2> QED BY <1>0, <1>2, <1>3, <1>4, <2>1, Paths!Agree
<1>6. PathLength(v, p) = [i \in Bars(v) |-> f[i]]
  BY <1>0, <1>3, PathIs
<1>7. PathLength(w, p) = [i \in Bars(w) |-> g[i]]
  BY <1>0, <1>4, PathIs
<1>8. \A i \in 1..n : PathLength(v, p)[i] = PathLength(w, p)[i]
  BY <1>1, <1>5, <1>6, <1>7
<1>9. OnBars(PathLength(v, p), Len(v)) /\ OnBars(PathLength(w, p), Len(w))
  BY <1>6, <1>7 DEF OnBars, Bars
<1> QED BY <1>8, <1>9, SeriesFrom

LEMMA EfficiencySame ==
    ASSUME NEW v, NEW w, NEW n, Same(v, w, n), NEW p \in Nat
    PROVE  Series(Efficiency(v, p), Efficiency(w, p), n)
<1> DEFINE value(k, path, now, then) ==
        CASE k <= p -> NaN
          [] k > p /\ path = 0 -> 0
          [] OTHER -> (Permille * Abs(now - then)) \div path
<1>1. PICK f, g : f = PathLength(v, p) /\ g = PathLength(w, p)
  OBVIOUS
<1>2. n \in Nat /\ \A i \in 1..n : i \in Bars(v) /\ i \in Bars(w) /\ v[i] = w[i]
  BY SameFacts
<1>3. \A i \in 1..n : f[i] = g[i]
  BY SMTT(30), <1>1, PathSame DEF Series, Same
<1>4. /\ Efficiency(v, p) = [k \in Bars(v) |-> value(k, f[k], v[k], v[k - p])]
      /\ Efficiency(w, p) = [k \in Bars(w) |-> value(k, g[k], w[k], w[k - p])]
  BY <1>1 DEF Efficiency
<1>5. \A i \in 1..n : value(i, f[i], v[i], v[i - p]) = value(i, g[i], w[i], w[i - p])
  <2> SUFFICES ASSUME NEW i \in 1..n PROVE value(i, f[i], v[i], v[i - p]) = value(i, g[i], w[i], w[i - p])
    OBVIOUS
  <2>1. CASE i <= p
    BY <2>1
  <2>2. CASE ~(i <= p)
    <3>1. i - p \in 1..n
      BY <1>2, <2>2
    <3>2. v[i - p] = w[i - p] /\ v[i] = w[i] /\ f[i] = g[i]
      BY <1>2, <1>3, <3>1
    <3> QED BY <3>2
  <2> QED BY <2>1, <2>2
<1> HIDE DEF value
<1>6. \A i \in 1..n : Efficiency(v, p)[i] = Efficiency(w, p)[i]
  BY <1>2, <1>4, <1>5
<1>7. OnBars(Efficiency(v, p), Len(v)) /\ OnBars(Efficiency(w, p), Len(w))
  BY <1>4 DEF OnBars, Bars
<1> QED BY <1>6, <1>7, SeriesFrom

KamaSpeed(p, er) ==
    LET fast == (2 * Permille) \div (p.fastPeriod + 1)
        slow == (2 * Permille) \div (p.slowPeriod + 1)
    IN  (er * (fast - slow)) \div Permille + slow
KamaStep(p, from, er, close) ==
    from + (((KamaSpeed(p, er) * KamaSpeed(p, er)) \div Permille) * (close - from)) \div Permille
KamaBody(e, f, k) ==
    KamaStep(e[1], IF k = e[1].erWindow + 1 THEN e[2][1] ELSE f[k - 1],
             Efficiency(e[2], e[1].erWindow)[k], e[2][k])
Kamas == INSTANCE Recursion WITH Body <- KamaBody

LEMMA KamaIs ==
    ASSUME NEW u, Len(u) \in Nat, NEW p, p.erWindow \in Nat
    PROVE  /\ Kama(p, u) = [k \in Bars(u) |-> IF k <= p.erWindow THEN NaN
                  ELSE Kamas!Rec(<<p, u>>, p.erWindow + 1, Len(u))[k]]
           /\ Kamas!LooksBack(<<p, u>>, p.erWindow + 1, Len(u))
<1>1. PICK r : r = Kamas!Rec(<<p, u>>, p.erWindow + 1, Len(u))
  OBVIOUS
<1>2. PICK f : f = [k \in Bars(u) |-> IF k <= p.erWindow THEN NaN ELSE r[k]]
  OBVIOUS
<1>3. Kama(p, u) = Computed(f)
  BY <1>1, <1>2 DEF Kama, Kamas!Rec, Kamas!IsRec, KamaBody, KamaStep, KamaSpeed
<1>4. Computed(f) = f
  <2>1. OnBars(f, Len(u))
    BY <1>2 DEF OnBars, Bars
  <2> QED BY <2>1, SeriesIs
<1>5. Kamas!LooksBack(<<p, u>>, p.erWindow + 1, Len(u))
  BY DEF Kamas!LooksBack, Kamas!SameBelow, KamaBody
<1> QED BY <1>1, <1>2, <1>3, <1>4, <1>5

LEMMA KamaSame ==
    ASSUME NEW v, NEW w, NEW n, Same(v, w, n), NEW p, p.erWindow \in Nat
    PROVE  Same(Kama(p, v), Kama(p, w), n)
<1>1. PICK a \in Int : a = p.erWindow + 1 /\ a > 0
  OBVIOUS
<1>0. n \in Int /\ Len(v) \in Nat /\ Len(w) \in Nat /\ n <= Len(v) /\ n <= Len(w)
  BY DEF Same
<1>2. \A i \in 1..n : i \in Bars(v) /\ i \in Bars(w) /\ v[i] = w[i]
  BY SameFacts
<1>3. \A i \in a..n : \A h : KamaBody(<<p, v>>, h, i) = KamaBody(<<p, w>>, h, i)
  <2>1. \A i \in a..n : i \in 1..n /\ 1 \in 1..n
    BY <1>0, <1>1
  <2>2. \A i \in 1..n : Efficiency(v, p.erWindow)[i] = Efficiency(w, p.erWindow)[i]
    BY SMTT(30), EfficiencySame DEF Series, Same
  <2>3. \A i \in a..n : /\ v[i] = w[i] /\ v[1] = w[1]
                        /\ Efficiency(v, p.erWindow)[i] = Efficiency(w, p.erWindow)[i]
    BY <1>2, <2>1, <2>2
  <2> QED BY <2>3 DEF KamaBody
<1>4. PICK f : f = Kamas!Rec(<<p, v>>, a, Len(v))
  OBVIOUS
<1>5. PICK g : g = Kamas!Rec(<<p, w>>, a, Len(w))
  OBVIOUS
<1>6. \A i \in a..n : f[i] = g[i]
  <2>1. Kamas!LooksBack(<<p, v>>, a, Len(v)) /\ Kamas!LooksBack(<<p, w>>, a, Len(w))
    BY <1>0, <1>1, KamaIs
  <2>2. \A i \in a..n : Kamas!Rec(<<p, v>>, a, Len(v))[i] = Kamas!Rec(<<p, w>>, a, Len(w))[i]
    BY <1>0, <1>3, <2>1, Kamas!Agree
  <2> QED BY <1>4, <1>5, <2>2
<1>7. Kama(p, v) = [i \in Bars(v) |-> IF i <= p.erWindow THEN NaN ELSE f[i]]
  BY <1>0, <1>1, <1>4, KamaIs
<1>8. Kama(p, w) = [i \in Bars(w) |-> IF i <= p.erWindow THEN NaN ELSE g[i]]
  BY <1>0, <1>1, <1>5, KamaIs
<1>9. \A i \in 1..n : i <= p.erWindow \/ f[i] = g[i]
  BY <1>0, <1>1, <1>6
<1>10. \A i \in 1..n : Kama(p, v)[i] = Kama(p, w)[i]
  BY <1>2, <1>7, <1>8, <1>9
<1>11. OnBars(Kama(p, v), Len(v)) /\ OnBars(Kama(p, w), Len(w))
  BY <1>7, <1>8 DEF OnBars, Bars
<1> QED BY <1>10, <1>11, BarsAreSame

LEMMA KamaTrendSame ==
    ASSUME NEW s, NEW t, NEW i \in Nat \ {0}, SameBars(s, t, i), NEW p, Counts(p, {"erWindow"})
    PROVE  KamaTrend(p, s, i) = KamaTrend(p, t, i)
<1>1. p.erWindow \in Nat
  BY DEF Counts
<1>2. PICK f, g : f = Kama(p, s.close) /\ g = Kama(p, t.close)
  OBVIOUS
<1>3. Same(f, g, i)
  BY <1>1, <1>2, SameStore, KamaSame
<1>4. \A j \in 1..i : f[j] = g[j]
  BY <1>3 DEF Same
<1>5. PICK e : e = Efficiency(s.close, p.erWindow)[i] /\ e = Efficiency(t.close, p.erWindow)[i]
  <2>1. Series(Efficiency(s.close, p.erWindow), Efficiency(t.close, p.erWindow), i) /\ i \in 1..i
    BY <1>1, SameStore, EfficiencySame
  <2> QED BY <2>1 DEF Series, Same
<1>6. CASE i = 1
  BY <1>6 DEF KamaTrend
<1>7. CASE i # 1
  <2>1. i \in 1..i /\ i - 1 \in 1..i /\ \A j \in (i - 1)..i : j \in 1..i
    BY <1>7
  <2>2. f[i] = g[i] /\ f[i - 1] = g[i - 1]
    BY <1>4, <2>1
  <2>3. OkOn(f, i - 1, i) <=> OkOn(g, i - 1, i)
    BY <1>4, <2>1 DEF OkOn
  <2>4. s.close[i] = t.close[i]
    BY <2>1, SameBarAt
  <2> QED BY <1>2, <1>5, <2>2, <2>3, <2>4 DEF KamaTrend
<1> QED BY <1>6, <1>7

SmootherBody(e, f, k) ==
    IF k <= 2 THEN e[2][k]
    ELSE (e[1].c1 * ((e[2][k] + e[2][k - 1]) \div 2) + e[1].c2 * f[k - 1] + e[1].c3 * f[k - 2]) \div Permille
Smoothers == INSTANCE Recursion WITH Body <- SmootherBody

LEMMA SmootherIs ==
    ASSUME NEW u, Len(u) \in Nat, NEW p
    PROVE  /\ SuperSmoother(p, u) = [k \in Bars(u) |-> Smoothers!Rec(<<p, u>>, 1, Len(u))[k]]
           /\ Smoothers!LooksBack(<<p, u>>, 1, Len(u))
<1>1. PICK r : r = Smoothers!Rec(<<p, u>>, 1, Len(u))
  OBVIOUS
<1>2. PICK f : f = [k \in Bars(u) |-> r[k]]
  OBVIOUS
<1>3. SuperSmoother(p, u) = Computed(f)
  BY <1>1, <1>2 DEF SuperSmoother, Smoothers!Rec, Smoothers!IsRec, SmootherBody, Bars
<1>4. Computed(f) = f
  <2>1. OnBars(f, Len(u))
    BY <1>2 DEF OnBars, Bars
  <2> QED BY <2>1, SeriesIs
<1>5. Smoothers!LooksBack(<<p, u>>, 1, Len(u))
  <2>1. \A k \in 1..Len(u) : ~(k <= 2) => k - 1 \in 1..(k - 1) /\ k - 2 \in 1..(k - 1)
    OBVIOUS
  <2> QED BY <2>1 DEF Smoothers!LooksBack, Smoothers!SameBelow, SmootherBody
<1> QED BY <1>1, <1>2, <1>3, <1>4, <1>5

LEMMA SmootherSame ==
    ASSUME NEW v, NEW w, NEW n, Same(v, w, n), NEW p
    PROVE  Same(SuperSmoother(p, v), SuperSmoother(p, w), n)
<1>0. n \in Int /\ Len(v) \in Nat /\ Len(w) \in Nat /\ n <= Len(v) /\ n <= Len(w)
  BY DEF Same
<1>1. \A i \in 1..n : i \in Bars(v) /\ i \in Bars(w) /\ v[i] = w[i]
  BY SameFacts
<1>2. \A i \in 1..n : \A h : SmootherBody(<<p, v>>, h, i) = SmootherBody(<<p, w>>, h, i)
  <2>1. \A i \in 1..n : ~(i <= 2) => i - 1 \in 1..n
    BY <1>0
  <2>2. \A i \in 1..n : ~(i <= 2) => v[i - 1] = w[i - 1]
    BY <1>1, <2>1
  <2> QED BY <1>1, <2>2 DEF SmootherBody
<1>3. PICK f : f = Smoothers!Rec(<<p, v>>, 1, Len(v))
  OBVIOUS
<1>4. PICK g : g = Smoothers!Rec(<<p, w>>, 1, Len(w))
  OBVIOUS
<1>5. \A i \in 1..n : f[i] = g[i]
  <2>1. Smoothers!LooksBack(<<p, v>>, 1, Len(v)) /\ Smoothers!LooksBack(<<p, w>>, 1, Len(w))
    BY <1>0, SmootherIs
  <2> QED BY <1>0, <1>2, <1>3, <1>4, <2>1, Smoothers!Agree
<1>6. SuperSmoother(p, v) = [i \in Bars(v) |-> f[i]]
  BY <1>0, <1>3, SmootherIs
<1>7. SuperSmoother(p, w) = [i \in Bars(w) |-> g[i]]
  BY <1>0, <1>4, SmootherIs
<1>8. \A i \in 1..n : SuperSmoother(p, v)[i] = SuperSmoother(p, w)[i]
  BY <1>1, <1>5, <1>6, <1>7
<1>9. OnBars(SuperSmoother(p, v), Len(v)) /\ OnBars(SuperSmoother(p, w), Len(w))
  BY <1>6, <1>7 DEF OnBars, Bars
<1> QED BY <1>8, <1>9, BarsAreSame

LEMMA EhlersSame ==
    ASSUME NEW s, NEW t, NEW i \in Nat \ {0}, SameBars(s, t, i), NEW p, Counts(p, {"volWindow", "slopeLag"})
    PROVE  EhlersTrend(p, s, i) = EhlersTrend(p, t, i)
<1>1. p.volWindow \in Nat /\ p.slopeLag \in Nat /\ i \in 1..i
  BY DEF Counts
<1>2. PICK f, g : f = SuperSmoother(p, s.close) /\ g = SuperSmoother(p, t.close)
  OBVIOUS
<1>3. Same(f, g, i)
  BY <1>2, SameStore, SmootherSame
<1>4. PICK v : v = RollingVolatility(s.close, p.volWindow)[i] /\ v = RollingVolatility(t.close, p.volWindow)[i]
  BY <1>1, ShownAt
<1>5. CASE i <= p.slopeLag
  BY <1>5 DEF EhlersTrend
<1>6. CASE ~(i <= p.slopeLag)
  <2>1. i - p.slopeLag \in 1..i
    BY <1>1, <1>6
  <2>2. f[i] = g[i] /\ f[i - p.slopeLag] = g[i - p.slopeLag]
    BY <1>1, <1>3, <2>1 DEF Same
  <2> QED BY <1>2, <1>4, <2>2 DEF EhlersTrend
<1> QED BY <1>5, <1>6

LEMMA MacdSame ==
    ASSUME NEW s, NEW t, NEW i \in Nat \ {0}, SameBars(s, t, i), NEW p,
           Counts(p, {"short", "long", "priceStdWindow", "signalStdWindow"})
    PROVE  MacdNorm(p, s, i) = MacdNorm(p, t, i)
<1>1. p.short \in Nat /\ p.long \in Nat /\ p.priceStdWindow \in Nat /\ p.signalStdWindow \in Nat /\ i \in 1..i
  BY DEF Counts
<1>0. Same(s.close, t.close, i)
  BY SameStore
<1> DEFINE value(f, g, d) == IF ~(Ok(f) /\ Ok(g) /\ Ok(d)) \/ d = 0 THEN NaN ELSE (Permille * (f - g)) \div d
<1>2. PICK fs, ft, ls, lt, ds, dt : /\ fs = Ema(s.close, p.short) /\ ft = Ema(t.close, p.short)
                                    /\ ls = Ema(s.close, p.long) /\ lt = Ema(t.close, p.long)
                                    /\ ds = RollingStd(s.close, p.priceStdWindow)
                                    /\ dt = RollingStd(t.close, p.priceStdWindow)
  OBVIOUS
<1>3. Same(fs, ft, i) /\ Same(ls, lt, i) /\ Series(ds, dt, i)
  BY <1>0, <1>1, <1>2, EmaSame, StdSame
<1>4. PICK f : f = [k \in Bars(s.close) |-> value(fs[k], ls[k], ds[k])]
  OBVIOUS
<1>5. PICK g : g = [k \in Bars(t.close) |-> value(ft[k], lt[k], dt[k])]
  OBVIOUS
<1>6. Series(f, g, i) /\ Computed(f) = f /\ Computed(g) = g
  <2>1. \A k \in 1..i : k \in Bars(s.close) /\ k \in Bars(t.close)
    BY SameBarAt
  <2>2. \A k \in 1..i : fs[k] = ft[k] /\ ls[k] = lt[k] /\ ds[k] = dt[k]
    BY <1>3 DEF Series, Same
  <2> HIDE DEF value
  <2>3. \A k \in 1..i : f[k] = g[k]
    BY <1>4, <1>5, <2>1, <2>2
  <2>4. OnBars(f, Len(s.close)) /\ OnBars(g, Len(t.close))
    BY <1>4, <1>5 DEF OnBars, Bars
  <2> QED BY <1>0, <2>3, <2>4, SeriesFrom
<1>7. PICK q : q = f[i] /\ q = g[i]
  BY <1>1, <1>6 DEF Series, Same
<1>8. PICK d : d = RollingStd(f, p.signalStdWindow)[i] /\ d = RollingStd(g, p.signalStdWindow)[i]
  <2>1. Same(f, g, i)
    BY <1>6 DEF Series
  <2>2. Series(RollingStd(f, p.signalStdWindow), RollingStd(g, p.signalStdWindow), i)
    <3> HIDE DEF value
    <3>1. PICK q1 \in Nat : q1 = p.signalStdWindow
      BY <1>1
    <3>2. Series(RollingStd(f, q1), RollingStd(g, q1), i)
      BY <2>1, StdSame
    <3> QED BY <3>1, <3>2
  <2> QED BY <1>1, <2>2 DEF Series, Same
<1> DEFINE said(x, y) == IF ~Ok(x) \/ ~Ok(y) \/ y = 0 THEN "Hold" ELSE Above((Permille * x) \div y, p.entryZ)
<1>9. MacdNorm(p, s, i) = said(f[i], RollingStd(f, p.signalStdWindow)[i])
  BY ZenonT(40), <1>2, <1>4, <1>6 DEF MacdNorm
<1>10. MacdNorm(p, t, i) = said(g[i], RollingStd(g, p.signalStdWindow)[i])
  BY ZenonT(40), <1>2, <1>5, <1>6 DEF MacdNorm
<1> HIDE DEF said
<1> QED BY <1>7, <1>8, <1>9, <1>10

-----------------------------------------------------------------------------
(* Reversal.                                                               *)

LEMMA RsiReversalSame ==
    ASSUME NEW s, NEW t, NEW i \in Nat \ {0}, SameBars(s, t, i), NEW pos, NEW p,
           Counts(p, {"rsiWindow", "trendWindow"})
    PROVE  RsiReversal(p, s, i, pos) = RsiReversal(p, t, i, pos)
<1>1. p.rsiWindow \in Nat /\ p.trendWindow \in Nat /\ i \in 1..i
  BY DEF Counts
<1>2. PICK r : r = Rsi(s.close, p.rsiWindow)[i] /\ r = Rsi(t.close, p.rsiWindow)[i]
  BY <1>1, ShownAt
<1>3. PICK m : m = Sma(s.close, p.trendWindow)[i] /\ m = Sma(t.close, p.trendWindow)[i]
  BY <1>1, ShownAt
<1>4. s.close[i] = t.close[i]
  BY <1>1, SameBarAt
<1> QED BY <1>2, <1>3, <1>4 DEF RsiReversal

LEMMA OuStandingSame ==
    ASSUME NEW s, NEW t, NEW i \in Nat \ {0}, SameBars(s, t, i), NEW p, Counts(p, {"detrendWindow", "window"})
    PROVE  OuStanding(p, s, i) = OuStanding(p, t, i)
<1>1. p.detrendWindow \in Nat /\ p.window \in Nat /\ i \in 1..i
  BY DEF Counts
<1>2. PICK ls, lt, ms, mt : /\ ls = LogOf(s.close) /\ lt = LogOf(t.close)
                            /\ ms = Sma(ls, p.detrendWindow) /\ mt = Sma(lt, p.detrendWindow)
  OBVIOUS
<1>3. Same(ls, lt, i)
  BY <1>2, SameStore, LogSame DEF Series
<1>4. Same(ms, mt, i)
  BY <1>1, <1>2, <1>3, SmaSame
<1>5. PICK f, g : /\ f = [k \in Bars(ls) |-> Where(Ok(ms[k]), ls[k] - ms[k])]
                  /\ g = [k \in Bars(lt) |-> Where(Ok(mt[k]), lt[k] - mt[k])]
  OBVIOUS
<1>6. Same(f, g, i)
  <2>1. \A k \in 1..i : k \in Bars(ls) /\ k \in Bars(lt) /\ ls[k] = lt[k]
    BY <1>3, SameFacts
  <2>2. \A k \in 1..i : ms[k] = mt[k]
    BY <1>4 DEF Same
  <2>3. \A k \in 1..i : f[k] = g[k]
    BY <1>5, <2>1, <2>2
  <2>4. OnBars(f, Len(ls)) /\ OnBars(g, Len(lt))
    BY SMTT(30), <1>5 DEF OnBars, Bars
  <2> QED BY <1>3, <2>3, <2>4, BarsAreSame
<1> DEFINE rest(fit, r) ==
      LET m   == (Permille * fit.a) \div (Permille - fit.b)
          dev == Root((1000 * fit.var) \div (Permille - (fit.b * fit.b) \div Permille))
      IN  IF ~Ok(fit) THEN NaN
          ELSE IF ~(fit.b > 0 /\ fit.b <= p.slowestB) \/ dev = 0 THEN NaN
          ELSE (Permille * (r - m)) \div dev
    fitOf(h) == Ols([k \in 1..p.window |-> h[i - p.window + k - 1]],
                    [k \in 1..p.window |-> h[i - p.window + k]], p.window)
    resid(x) == [k \in Bars(LogOf(x.close)) |-> Where(Ok(Sma(LogOf(x.close), p.detrendWindow)[k]),
                                                      LogOf(x.close)[k] - Sma(LogOf(x.close), p.detrendWindow)[k])]
<1>7. \A x : OuStanding(p, x, i) = IF i <= p.window \/ ~OkOn(resid(x), i - p.window, i) THEN NaN
                                   ELSE rest(fitOf(resid(x)), resid(x)[i])
  BY DEF OuStanding
<1>8. resid(s) = f /\ resid(t) = g
  BY <1>2, <1>5
<1> HIDE DEF rest, fitOf, resid
<1>9. CASE i <= p.window
  BY <1>7, <1>8, <1>9
<1>10. CASE ~(i <= p.window)
  <2>1. \A k \in (i - p.window)..i : k \in 1..i
    BY <1>1, <1>10
  <2>2. OkOn(f, i - p.window, i) <=> OkOn(g, i - p.window, i)
    BY <1>6, <2>1 DEF OkOn, Same
  <2>3. f[i] = g[i]
    BY <1>6, SameLast
  <2>4. [k \in 1..p.window |-> f[i - p.window + k]] = [k \in 1..p.window |-> g[i - p.window + k]]
    <3>1. \A k \in 1..p.window : i - p.window + k \in 1..i
      BY <1>1, <1>10
    <3> QED BY <1>6, <3>1 DEF Same
  <2>5. [k \in 1..p.window |-> f[i - p.window + k - 1]] = [k \in 1..p.window |-> g[i - p.window + k - 1]]
    <3>1. \A k \in 1..p.window : i - p.window + k - 1 \in 1..i
      BY <1>1, <1>10
    <3> QED BY <1>6, <3>1 DEF Same
  <2>6. fitOf(f) = fitOf(g)
    BY <2>4, <2>5 DEF fitOf
  <2> QED BY <1>7, <1>8, <2>2, <2>3, <2>6
<1> QED BY <1>9, <1>10

LEMMA OuScoreSame ==
    ASSUME NEW s, NEW t, NEW i \in Nat \ {0}, SameBars(s, t, i), NEW pos, NEW p,
           Counts(p, {"detrendWindow", "window"})
    PROVE  OuScore(p, s, i, pos) = OuScore(p, t, i, pos)
<1>1. PICK z : z = OuStanding(p, s, i) /\ z = OuStanding(p, t, i)
  BY OuStandingSame
<1> QED BY <1>1 DEF OuScore

LEMMA SkewnessSame ==
    ASSUME NEW v, NEW w, NEW i \in Nat \ {0}, Same(v, w, i), NEW p \in Nat
    PROVE  Skewness(v, p, i) = Skewness(w, p, i)
<1>1. PICK f, g : f = PercentReturns(v) /\ g = PercentReturns(w)
  OBVIOUS
<1>2. Same(f, g, i)
  BY <1>1, ReturnsSame DEF Series
<1> DEFINE spread(h) == [k \in 1..p |-> (h[i - p + k] - MeanOver(h, i - p + 1, i)) \div 10]
           rest(d) == LET m2 == SumOver([k \in 1..p |-> d[k] * d[k]], 1, p) \div p
                          m3 == SumOver([k \in 1..p |-> d[k] * d[k] * d[k]], 1, p) \div p
                      IN  IF m2 = 0 THEN NaN ELSE (Permille * m3) \div (m2 * Larger(1, Root(m2)))
<1>3. Skewness(v, p, i) = IF i <= p \/ ~OkOn(f, i - p + 1, i) THEN NaN ELSE rest(spread(f))
  BY <1>1 DEF Skewness
<1>4. Skewness(w, p, i) = IF i <= p \/ ~OkOn(g, i - p + 1, i) THEN NaN ELSE rest(spread(g))
  BY SMTT(30), <1>1 DEF Skewness
<1>5. CASE i <= p
  BY <1>3, <1>4, <1>5
<1>6. CASE ~(i <= p)
  <2>1. \A k \in (i - p + 1)..i : k \in 1..i
    BY <1>6
  <2>2. \A k \in (i - p + 1)..i : f[k] = g[k]
    BY <1>2, <2>1 DEF Same
  <2>3. OkOn(f, i - p + 1, i) <=> OkOn(g, i - p + 1, i)
    BY <2>2 DEF OkOn
  <2>4. MeanOver(f, i - p + 1, i) = MeanOver(g, i - p + 1, i)
    BY <2>2, MeanSame
  <2>5. \A k \in 1..p : i - p + k \in (i - p + 1)..i
    OBVIOUS
  <2>6. spread(f) = spread(g)
    BY <2>2, <2>4, <2>5
  <2> HIDE DEF rest, spread
  <2> QED BY <1>3, <1>4, <2>3, <2>6
<1> QED BY <1>5, <1>6

\* A count of bars is one after std::max.
LEMMA LargerIsCount ==
    ASSUME NEW w \in Int
    PROVE  Larger(1, w) \in Nat \ {0}
BY DEF Larger

LEMMA SkewReversalSame ==
    ASSUME NEW s, NEW t, NEW i \in Nat \ {0}, SameBars(s, t, i), NEW pos, NEW p,
           Counts(p, {"window", "trendWindow"})
    PROVE  SkewReversal(p, s, i, pos) = SkewReversal(p, t, i, pos)
<1>1. p.window \in Nat /\ Larger(1, p.trendWindow) \in Nat /\ i \in 1..i
  BY LargerIsCount DEF Counts
<1>2. PICK z : z = Skewness(s.close, p.window, i) /\ z = Skewness(t.close, p.window, i)
  BY <1>1, SameStore, SkewnessSame
<1>3. PICK m : m = Sma(s.close, Larger(1, p.trendWindow))[i] /\ m = Sma(t.close, Larger(1, p.trendWindow))[i]
  BY <1>1, ShownAt
<1>4. s.close[i] = t.close[i]
  BY <1>1, SameBarAt
<1> QED BY <1>2, <1>3, <1>4 DEF SkewReversal

None == [n |-> 0, sum |-> 0, squares |-> 0]
PastBody(e, f, k) ==
    IF k = e[2] THEN None
    ELSE LET was  == f[k - 1]
             full == was.n + 1 >= e[3]
             out  == IF full THEN e[1][k - e[3]] ELSE 0
         IN  [n |-> was.n + (IF full THEN 0 ELSE 1),
              sum |-> was.sum + e[1][k - 1] - out,
              squares |-> was.squares + e[1][k - 1] * e[1][k - 1] - out * out]
Pasts == INSTANCE Recursion WITH Body <- PastBody

LEMMA BeforeIs ==
    ASSUME NEW u, Len(u) \in Nat, NEW first \in Nat, NEW p \in Nat
    PROVE  /\ Before(u, first, p) = [k \in Bars(u) |->
                  IF k < first THEN None ELSE Pasts!Rec(<<u, first, p>>, first, Larger(first, Len(u)))[k]]
           /\ Pasts!LooksBack(<<u, first, p>>, first, Larger(first, Len(u)))
           /\ Larger(first, Len(u)) \in Int
<1>1. PICK r : r = Pasts!Rec(<<u, first, p>>, first, Larger(first, Len(u)))
  OBVIOUS
<1>2. Before(u, first, p) = [k \in Bars(u) |-> IF k < first THEN None ELSE r[k]]
  BY <1>1 DEF Before, None, Pasts!Rec, Pasts!IsRec, PastBody
<1>3. Pasts!LooksBack(<<u, first, p>>, first, Larger(first, Len(u)))
  <2>1. Larger(first, Len(u)) \in Int
    BY DEF Larger
  <2>2. \A k \in first..Larger(first, Len(u)) : k # first => k - 1 \in first..(k - 1)
    BY <2>1
  <2> QED BY <2>2 DEF Pasts!LooksBack, Pasts!SameBelow, PastBody
<1>4. Larger(first, Len(u)) \in Int
  BY DEF Larger
<1> QED BY <1>1, <1>2, <1>3, <1>4

\* No more bars are counted than there are.
LEMMA PastIsBehind ==
    ASSUME NEW u, NEW first \in Nat, NEW p \in Nat, NEW b \in Int, Pasts!LooksBack(<<u, first, p>>, first, b),
           NEW f, f = Pasts!Rec(<<u, first, p>>, first, b)
    PROVE  \A k \in first..b : f[k].n \in Int /\ f[k].n <= k - first
<1> DEFINE T == {k \in Int : f[k].n \in Int /\ f[k].n <= k - first}
<1>1. PICK e : e = <<u, first, p>> /\ e[1] = u /\ e[2] = first /\ e[3] = p
  OBVIOUS
<1>2. \A k \in first..b : f[k] = PastBody(e, f, k)
  BY <1>1, Pasts!Unfolds
<1>3. ASSUME NEW k \in first..b, \A j \in first..(k - 1) : j \in T
      PROVE  k \in T
  <2>1. CASE k = first
    <3>1. PastBody(e, f, k) = None
      BY <1>1, <2>1 DEF PastBody
    <3>2. f[k].n = 0
      BY <1>2, <3>1 DEF None
    <3> QED BY <2>1, <3>2
  <2>2. CASE k # first
    <3>1. k - 1 \in first..(k - 1) /\ k \in Int
      BY <2>2
    <3>2. k - 1 \in T
      BY <1>3, <3>1
    <3>3. PICK was : was = f[k - 1]
      OBVIOUS
    <3>4. was.n \in Int /\ was.n <= k - 1 - first
      BY <3>2, <3>3
    <3>5. PastBody(e, f, k).n = was.n + (IF was.n + 1 >= p THEN 0 ELSE 1)
      BY <1>1, <2>2, <3>3 DEF PastBody
    <3>6. f[k].n = was.n + (IF was.n + 1 >= p THEN 0 ELSE 1)
      BY <1>2, <3>5
    <3> QED BY <3>1, <3>4, <3>6
  <2> QED BY <2>1, <2>2
<1> HIDE DEF T
<1>4. \A k \in first..b : (\A j \in first..(k - 1) : j \in T) => k \in T
  BY <1>3
<1>5. first \in Int /\ b \in Int
  OBVIOUS
<1>6. \A k \in first..b : k \in T
  BY <1>4, <1>5, Pasts!Everywhere
<1> QED BY <1>6 DEF T

LEMMA BeforeSame ==
    ASSUME NEW v, NEW w, NEW n, Same(v, w, n), NEW first \in Nat \ {0}, NEW p \in Nat
    PROVE  Same(Before(v, first, p), Before(w, first, p), n)
<1>0. n \in Int /\ first \in Int /\ p \in Int /\ Len(v) \in Nat /\ Len(w) \in Nat
  BY DEF Same
<1>1. \A i \in 1..n : i \in Bars(v) /\ i \in Bars(w) /\ v[i] = w[i]
  BY SameFacts
<1>2. PICK b, c : b = Larger(first, Len(v)) /\ c = Larger(first, Len(w))
  OBVIOUS
<1>3. b \in Int /\ c \in Int /\ n <= b /\ n <= c
  BY <1>0, <1>2, Longest
<1>4. PICK f, g : f = Pasts!Rec(<<v, first, p>>, first, b) /\ g = Pasts!Rec(<<w, first, p>>, first, c)
  OBVIOUS
<1>5. Pasts!LooksBack(<<v, first, p>>, first, b) /\ Pasts!LooksBack(<<w, first, p>>, first, c)
  BY <1>0, <1>2, BeforeIs
<1>6. \A k \in first..b : f[k].n \in Int /\ f[k].n <= k - first
  BY <1>3, <1>4, <1>5, PastIsBehind
<1>7. \A k \in first..n : PastBody(<<v, first, p>>, f, k) = PastBody(<<w, first, p>>, f, k)
  <2> SUFFICES ASSUME NEW k \in first..n, k # first
               PROVE  PastBody(<<v, first, p>>, f, k) = PastBody(<<w, first, p>>, f, k)
    BY DEF PastBody
  <2>1. k - 1 \in first..b /\ k - 1 \in 1..n
    BY <1>0, <1>3
  <2>2. PICK m : m = f[k - 1].n
    OBVIOUS
  <2>3. m \in Int /\ m <= k - 1 - first
    BY <1>6, <2>1, <2>2
  <2>4. m + 1 >= p => k - p \in 1..n
    BY <1>0, <2>3
  <2>5. v[k - 1] = w[k - 1] /\ (m + 1 >= p => v[k - p] = w[k - p])
    BY <1>1, <2>1, <2>4
  <2> QED BY <2>2, <2>5 DEF PastBody
<1>8. \A k \in first..n : f[k] = g[k]
  BY SMTT(30), <1>0, <1>3, <1>4, <1>5, <1>7, Pasts!AgreeAlong
<1>9. Before(v, first, p) = [k \in Bars(v) |-> IF k < first THEN None ELSE f[k]]
  BY <1>0, <1>2, <1>4, BeforeIs
<1>10. Before(w, first, p) = [k \in Bars(w) |-> IF k < first THEN None ELSE g[k]]
  BY <1>0, <1>2, <1>4, BeforeIs
<1>11. \A k \in 1..n : k < first \/ f[k] = g[k]
  BY <1>0, <1>8
<1>12. \A k \in 1..n : Before(v, first, p)[k] = Before(w, first, p)[k]
  BY <1>1, <1>9, <1>10, <1>11
<1>13. OnBars(Before(v, first, p), Len(v)) /\ OnBars(Before(w, first, p), Len(w))
  BY <1>9, <1>10 DEF OnBars, Bars
<1> QED BY <1>12, <1>13, BarsAreSame

LEMMA DipReversionSame ==
    ASSUME NEW s, NEW t, NEW i \in Nat \ {0}, SameBars(s, t, i), NEW pos, NEW p,
           Counts(p, {"lookback", "volWindow"})
    PROVE  DipReversion(p, s, i, pos) = DipReversion(p, t, i, pos)
<1>1. p.lookback \in Nat /\ p.volWindow \in Nat /\ i \in 1..i /\ p.lookback + 1 \in Nat \ {0}
  BY DEF Counts
<1>2. PICK f : f = [k \in Bars(s.close) |-> IF k <= p.lookback THEN 0 ELSE TrailingReturn(s.close, p.lookback)[k]]
  OBVIOUS
<1>3. PICK g : g = [k \in Bars(t.close) |-> IF k <= p.lookback THEN 0 ELSE TrailingReturn(t.close, p.lookback)[k]]
  OBVIOUS
<1>4. Same(f, g, i)
  <2>0. Same(s.close, t.close, i)
    BY SameStore
  <2>1. Series(TrailingReturn(s.close, p.lookback), TrailingReturn(t.close, p.lookback), i)
    BY <1>1, <2>0, TrailingSame
  <2>2. \A k \in 1..i : TrailingReturn(s.close, p.lookback)[k] = TrailingReturn(t.close, p.lookback)[k]
    BY <2>1 DEF Series, Same
  <2>3. \A k \in 1..i : k \in Bars(s.close) /\ k \in Bars(t.close)
    BY SameBarAt
  <2>4. \A k \in 1..i : f[k] = g[k]
    BY <1>2, <1>3, <2>2, <2>3
  <2>5. OnBars(f, Len(s.close)) /\ OnBars(g, Len(t.close))
    BY <1>2, <1>3 DEF OnBars, Bars
  <2> QED BY <2>0, <2>4, <2>5, BarsAreSame
<1>5. f[i] = g[i]
  BY <1>4, SameLast
<1>6. PICK b : b = Before(f, p.lookback + 1, p.volWindow)[i] /\ b = Before(g, p.lookback + 1, p.volWindow)[i]
  <2>1. Same(Before(f, p.lookback + 1, p.volWindow), Before(g, p.lookback + 1, p.volWindow), i)
    BY <1>1, <1>4, BeforeSame
  <2> QED BY <2>1, SameLast
<1> DEFINE z(r, past) ==
      LET mean == past.sum \div past.n
          dev  == Root(Larger(0, past.squares \div past.n - mean * mean))
      IN  IF i <= p.lookback \/ past.n < 2 THEN 0
          ELSE IF dev = 0 THEN 0 ELSE (Permille * (r - mean)) \div dev
    said(x) == IF pos.in THEN Leave(HeldFor(i, pos, p.holdBars)) ELSE Enter(x < -p.entrySigmas)
<1>7. DipReversion(p, s, i, pos) = said(z(f[i], Before(f, p.lookback + 1, p.volWindow)[i]))
  BY <1>2 DEF DipReversion
<1>8. DipReversion(p, t, i, pos) = said(z(g[i], Before(g, p.lookback + 1, p.volWindow)[i]))
  BY <1>3 DEF DipReversion
<1> HIDE DEF z, said
<1> QED BY <1>5, <1>6, <1>7, <1>8

-----------------------------------------------------------------------------
(* Breakout.                                                               *)

LEMMA DonchianSame ==
    ASSUME NEW s, NEW t, NEW i \in Nat \ {0}, SameBars(s, t, i), NEW pos, NEW p,
           Counts(p, {"entryWindow", "exitWindow", "atrWindow"})
    PROVE  Donchian(p, s, i, pos) = Donchian(p, t, i, pos)
<1>1. p.entryWindow \in Nat /\ p.exitWindow \in Nat /\ p.atrWindow \in Nat /\ i \in 1..i
  BY DEF Counts
<1>2. PICK u : /\ u = RollingMaxExclusive(s.high, p.entryWindow)[i]
               /\ u = RollingMaxExclusive(t.high, p.entryWindow)[i]
  BY <1>1, ShownAt
<1>3. PICK l : /\ l = RollingMinExclusive(s.low, p.exitWindow)[i]
               /\ l = RollingMinExclusive(t.low, p.exitWindow)[i]
  BY <1>1, ShownAt
<1>4. PICK a : a = Atr(s, p.atrWindow)[i] /\ a = Atr(t, p.atrWindow)[i]
  BY <1>1, ShownAt
<1>5. s.close[i] = t.close[i]
  BY <1>1, SameBarAt
<1> QED BY <1>2, <1>3, <1>4, <1>5 DEF Donchian

LEMMA RankIs ==
    ASSUME NEW u, Len(u) \in Nat, NEW p
    PROVE  OnBars(PercentileRank(u, p), Len(u))
<1> DEFINE valid(i) == { k \in (i - p + 1)..i : k \in Bars(u) /\ Ok(u[k]) }
           rank(i) == IF i < p \/ ~Ok(u[i]) \/ 2 * Cardinality(valid(i)) < p THEN NaN
                      ELSE (Permille * Cardinality({ k \in valid(i) : u[k] <= u[i] }))
                           \div Cardinality(valid(i))
<1>1. PICK f : f = [i \in Bars(u) |-> rank(i)]
  OBVIOUS
<1>2. PercentileRank(u, p) = Computed(f)
  BY <1>1 DEF PercentileRank
<1> HIDE DEF rank
<1>3. OnBars(f, Len(u))
  BY <1>1 DEF OnBars, Bars
<1>4. Computed(f) = f
  BY <1>3, SeriesIs
<1> QED BY <1>2, <1>3, <1>4

LEMMA RankOn ==
    ASSUME NEW v, NEW w, NEW n, Same(v, w, n), NEW p \in Nat
    PROVE  Series(PercentileRank(v, p), PercentileRank(w, p), n)
<1>1. ASSUME NEW u, Len(u) \in Nat PROVE OnBars(PercentileRank(u, p), Len(PercentileRank(u, p)))
  <2>1. OnBars(PercentileRank(u, p), Len(u))
    BY <1>1, RankIs
  <2>2. Len(PercentileRank(u, p)) = Len(u)
    BY <1>1, <2>1, SeriesIs
  <2> QED BY <2>1, <2>2
<1>2. Len(v) \in Nat /\ Len(w) \in Nat
  BY DEF Same
<1>3. Same(PercentileRank(v, p), PercentileRank(w, p), n)
  BY RankSame
<1> QED BY <1>1, <1>2, <1>3 DEF Series

ArmedBody(e, f, i) ==
    CASE i = 0 -> 0
      [] i > 0 /\ Ok(e[1][i]) /\ e[1][i] <= e[2] -> Larger(1, e[3])
      [] OTHER -> Larger(0, f[i - 1] - 1)
Countdown == INSTANCE Recursion WITH Body <- ArmedBody

LEMMA ArmedIs ==
    ASSUME NEW u, Len(u) \in Nat, OnBars(u, Len(u)), NEW level, NEW bars
    PROVE  /\ Armed(u, level, bars) =
                  [i \in 1..Len(u) |-> Countdown!Rec(<<u, level, bars>>, 0, Len(u))[i] > 0]
           /\ Countdown!LooksBack(<<u, level, bars>>, 0, Len(u))
<1>1. PICK r : r = Countdown!Rec(<<u, level, bars>>, 0, Len(u))
  OBVIOUS
<1>2. PICK f : f = [i \in 1..Len(u) |-> r[i] > 0]
  OBVIOUS
<1>3. DOMAIN u = 1..Len(u)
  BY SeriesIs
<1>4. Armed(u, level, bars) = Computed(f)
  BY <1>1, <1>2, <1>3 DEF Armed, Countdown!Rec, Countdown!IsRec, ArmedBody
<1>5. Computed(f) = f
  <2>1. OnBars(f, Len(u))
    BY <1>2 DEF OnBars
  <2> QED BY <2>1, SeriesIs
<1>6. Countdown!LooksBack(<<u, level, bars>>, 0, Len(u))
  <2> SUFFICES ASSUME NEW k \in 0..Len(u), NEW g, NEW h, Countdown!SameBelow(g, h, 0, k)
               PROVE  ArmedBody(<<u, level, bars>>, g, k) = ArmedBody(<<u, level, bars>>, h, k)
    BY DEF Countdown!LooksBack
  <2>1. k = 0 \/ g[k - 1] = h[k - 1]
    BY DEF Countdown!SameBelow
  <2> QED BY <2>1 DEF ArmedBody
<1> QED BY <1>1, <1>2, <1>4, <1>5, <1>6

LEMMA ArmedSame ==
    ASSUME NEW v, NEW w, NEW n, Series(v, w, n), NEW level, NEW bars
    PROVE  Same(Armed(v, level, bars), Armed(w, level, bars), n)
<1>0. /\ Same(v, w, n) /\ n \in Int /\ Len(v) \in Nat /\ Len(w) \in Nat /\ n <= Len(v) /\ n <= Len(w)
      /\ OnBars(v, Len(v)) /\ OnBars(w, Len(w))
  BY DEF Same, Series
<1>1. \A i \in 1..n : v[i] = w[i] /\ i \in 1..Len(v) /\ i \in 1..Len(w)
  BY <1>0, SameFacts DEF Bars
<1>2. \A i \in 0..n : \A h : ArmedBody(<<v, level, bars>>, h, i) = ArmedBody(<<w, level, bars>>, h, i)
  <2> SUFFICES ASSUME NEW i \in 0..n, NEW h
               PROVE  ArmedBody(<<v, level, bars>>, h, i) = ArmedBody(<<w, level, bars>>, h, i)
    OBVIOUS
  <2>1. i = 0 \/ v[i] = w[i]
    BY <1>0, <1>1
  <2>2. i = 0 => ~(i > 0)
    OBVIOUS
  <2> QED BY <2>1, <2>2 DEF ArmedBody
<1>3. PICK f, g : f = Countdown!Rec(<<v, level, bars>>, 0, Len(v)) /\ g = Countdown!Rec(<<w, level, bars>>, 0, Len(w))
  OBVIOUS
<1>4. \A i \in 0..n : f[i] = g[i]
  <2>1. Countdown!LooksBack(<<v, level, bars>>, 0, Len(v)) /\ Countdown!LooksBack(<<w, level, bars>>, 0, Len(w))
    BY <1>0, ArmedIs
  <2> QED BY <1>0, <1>2, <1>3, <2>1, Countdown!Agree
<1>5. \A i \in 1..n : f[i] = g[i]
  BY <1>0, <1>4
<1>6. Armed(v, level, bars) = [i \in 1..Len(v) |-> f[i] > 0]
  BY <1>0, <1>3, ArmedIs
<1>7. Armed(w, level, bars) = [i \in 1..Len(w) |-> g[i] > 0]
  BY <1>0, <1>3, ArmedIs
<1>8. \A i \in 1..n : Armed(v, level, bars)[i] = Armed(w, level, bars)[i]
  BY <1>1, <1>5, <1>6, <1>7
<1>9. OnBars(Armed(v, level, bars), Len(v)) /\ OnBars(Armed(w, level, bars), Len(w))
  BY <1>6, <1>7 DEF OnBars
<1> QED BY <1>0, <1>8, <1>9, BarsAreSame

LEMMA SqueezeRankSame ==
    ASSUME NEW v, NEW w, NEW n, Same(v, w, n), NEW p, Counts(p, {"window", "rankWindow"})
    PROVE  Series(SqueezeRank(p, v), SqueezeRank(p, w), n)
<1>1. p.window \in Nat /\ p.rankWindow \in Nat
  BY DEF Counts
<1>2. PICK a, b : a = Bollinger(v, p.window, p.numSigma) /\ b = Bollinger(w, p.window, p.numSigma)
  OBVIOUS
<1>3. Series(a, b, n)
  BY <1>1, <1>2, BollingerSame
<1>4. Computed(a) = a /\ Computed(b) = b /\ \A k \in 1..n : a[k] = b[k]
  BY <1>3, SeriesComputed DEF Same
<1> DEFINE width(band) == IF ~Ok(band.mid) \/ band.mid <= 0 THEN NaN
                          ELSE (Permille * (band.upper - band.lower)) \div band.mid
<1>5. PICK f, g : f = [k \in Bars(v) |-> width(a[k])] /\ g = [k \in Bars(w) |-> width(b[k])]
  OBVIOUS
<1>6. SqueezeRank(p, v) = PercentileRank(Computed(f), p.rankWindow)
  BY <1>2, <1>4, <1>5 DEF SqueezeRank
<1>7. SqueezeRank(p, w) = PercentileRank(Computed(g), p.rankWindow)
  BY <1>2, <1>4, <1>5 DEF SqueezeRank
<1> HIDE DEF width
<1>8. \A k \in 1..n : k \in Bars(v) /\ k \in Bars(w)
  BY SameFacts
<1>9. \A k \in 1..n : f[k] = g[k]
  BY <1>4, <1>5, <1>8
<1>10. OnBars(f, Len(v)) /\ OnBars(g, Len(w))
  BY <1>5 DEF OnBars, Bars
<1>11. Same(f, g, n) /\ Computed(f) = f /\ Computed(g) = g
  BY <1>9, <1>10, SeriesFrom
<1>12. Series(PercentileRank(f, p.rankWindow), PercentileRank(g, p.rankWindow), n)
  BY <1>1, <1>11, RankOn
<1> QED BY <1>6, <1>7, <1>11, <1>12

LEMMA SqueezeBreakoutSame ==
    ASSUME NEW s, NEW t, NEW i \in Nat \ {0}, SameBars(s, t, i), NEW pos, NEW p,
           Counts(p, {"window", "rankWindow"})
    PROVE  SqueezeBreakout(p, s, i, pos) = SqueezeBreakout(p, t, i, pos)
<1>1. p.window \in Nat /\ i \in 1..i /\ Same(s.close, t.close, i)
  BY SameStore DEF Counts
<1>2. PICK b : b = Bollinger(s.close, p.window, p.numSigma)[i] /\ b = Bollinger(t.close, p.window, p.numSigma)[i]
  <2>1. Series(Bollinger(s.close, p.window, p.numSigma), Bollinger(t.close, p.window, p.numSigma), i)
    BY <1>1, BollingerSame
  <2> QED BY <1>1, <2>1 DEF Series, Same
<1>3. PICK q, r : q = SqueezeRank(p, s.close) /\ r = SqueezeRank(p, t.close)
  OBVIOUS
<1>4. PICK x : x = Armed(q, p.squeezePct, p.armBars)[i] /\ x = Armed(r, p.squeezePct, p.armBars)[i]
  <2>1. Series(q, r, i)
    BY <1>1, <1>3, SqueezeRankSame
  <2>2. Same(Armed(q, p.squeezePct, p.armBars), Armed(r, p.squeezePct, p.armBars), i)
    BY <2>1, ArmedSame
  <2> QED BY <2>2, SameLast
<1>5. s.close[i] = t.close[i]
  BY <1>1, SameBarAt
<1> QED BY <1>2, <1>3, <1>4, <1>5 DEF SqueezeBreakout

LEMMA ConvictionBreakoutSame ==
    ASSUME NEW s, NEW t, NEW i \in Nat \ {0}, SameBars(s, t, i), NEW pos, NEW p,
           Counts(p, {"entryWindow", "exitWindow", "trendWindow", "slopeWindow", "momentumWindow", "atrWindow"})
    PROVE  ConvictionBreakout(p, s, i, pos) = ConvictionBreakout(p, t, i, pos)
<1>1. /\ p.entryWindow \in Nat /\ p.exitWindow \in Nat /\ p.trendWindow \in Nat
      /\ p.slopeWindow \in Nat /\ p.momentumWindow \in Nat /\ p.atrWindow \in Nat /\ i \in 1..i
  BY DEF Counts
<1>2. PICK u : /\ u = RollingMaxExclusive(s.high, p.entryWindow)[i]
               /\ u = RollingMaxExclusive(t.high, p.entryWindow)[i]
  BY <1>1, ShownAt
<1>3. PICK l : /\ l = RollingMinExclusive(s.low, p.exitWindow)[i]
               /\ l = RollingMinExclusive(t.low, p.exitWindow)[i]
  BY SMTT(30), <1>1, ShownAt
<1>4. PICK a : a = Atr(s, p.atrWindow)[i] /\ a = Atr(t, p.atrWindow)[i]
  BY <1>1, ShownAt
<1>5. PICK m : m = TrailingReturn(s.close, p.momentumWindow)[i] /\ m = TrailingReturn(t.close, p.momentumWindow)[i]
  BY SMTT(30), <1>1, ShownAt
<1>6. s.close[i] = t.close[i]
  BY <1>1, SameBarAt
<1>7. PICK f, g : f = Sma(s.close, p.trendWindow) /\ g = Sma(t.close, p.trendWindow)
  OBVIOUS
<1>8. Same(f, g, i)
  BY <1>1, <1>7, SameStore, SmaSame
<1>9. f[i] = g[i]
  BY <1>8, SameLast
<1>10. i > p.slopeWindow => f[i - p.slopeWindow] = g[i - p.slopeWindow]
  BY <1>1, <1>8 DEF Same
<1> DEFINE rises(h) == i > p.slopeWindow /\ Ok(h[i - p.slopeWindow]) /\ h[i] > h[i - p.slopeWindow]
    said(upper, lower, atr, momentum, ma, rising, close) ==
          IF ~(Ok(upper) /\ Ok(ma) /\ Ok(momentum) /\ Ok(atr)) THEN "Hold"
          ELSE IF atr <= 0 THEN "Hold"
          ELSE IF pos.in
          THEN Leave(\/ Ok(lower) /\ close < lower
                     \/ close < ma
                     \/ 1000 * close < 1000 * pos.highest - p.stopAtr * atr)
          ELSE Enter(/\ 1000 * close > 1000 * upper + p.breakoutAtr * atr
                     /\ rising /\ close > ma /\ momentum > p.momentumThreshold)
<1>11. ConvictionBreakout(p, s, i, pos) = said(u, l, a, m, f[i], rises(f), s.close[i])
  BY <1>2, <1>3, <1>4, <1>5, <1>7 DEF ConvictionBreakout
<1>12. ConvictionBreakout(p, t, i, pos) = said(u, l, a, m, g[i], rises(g), t.close[i])
  BY <1>2, <1>3, <1>4, <1>5, <1>7 DEF ConvictionBreakout
<1>13. rises(f) = rises(g)
  BY <1>9, <1>10
<1> HIDE DEF said, rises
<1> QED BY <1>6, <1>9, <1>11, <1>12, <1>13

LEMMA MomoBreakoutSame ==
    ASSUME NEW s, NEW t, NEW i \in Nat \ {0}, SameBars(s, t, i), NEW pos, NEW p,
           Counts(p, {"rangeFast", "rangeSlow", "lookback"})
    PROVE  MomoBreakout(p, s, i, pos) = MomoBreakout(p, t, i, pos)
<1>1. p.rangeFast \in Nat /\ p.rangeSlow \in Nat /\ p.lookback \in Nat /\ i \in 1..i
  BY DEF Counts
<1>2. PICK f, g : /\ f = [k \in Bars(s.high) |-> s.high[k] - s.low[k]]
                  /\ g = [k \in Bars(t.high) |-> t.high[k] - t.low[k]]
  OBVIOUS
<1>3. Same(f, g, i)
  <2>1. Same(s.high, t.high, i)
    BY SameStore
  <2>2. \A k \in 1..i : f[k] = g[k]
    BY <1>2, SameBarAt
  <2>3. OnBars(f, Len(s.high)) /\ OnBars(g, Len(t.high))
    BY <1>2 DEF OnBars, Bars
  <2> QED BY <2>1, <2>2, <2>3, BarsAreSame
<1>4. PICK a : a = Sma(f, p.rangeFast)[i] /\ a = Sma(g, p.rangeFast)[i]
  <2>1. Same(Sma(f, p.rangeFast), Sma(g, p.rangeFast), i)
    BY <1>1, <1>3, SmaSame
  <2> QED BY <2>1, SameLast
<1>5. PICK b : b = Sma(f, p.rangeSlow)[i] /\ b = Sma(g, p.rangeSlow)[i]
  <2>1. Same(Sma(f, p.rangeSlow), Sma(g, p.rangeSlow), i)
    BY <1>1, <1>3, SmaSame
  <2> QED BY <2>1, SameLast
<1>6. PICK c : /\ c = RollingMaxExclusive(s.close, p.lookback)[i]
               /\ c = RollingMaxExclusive(t.close, p.lookback)[i]
  BY <1>1, ShownAt
<1>7. s.close[i] = t.close[i] /\ s.open[i] = t.open[i] /\ Gain(s, i, pos) = Gain(t, i, pos)
  BY <1>1, SameBarAt DEF Gain
<1>8. i > p.lookback => s.close[i - p.lookback] = t.close[i - p.lookback]
  <2>1. i > p.lookback => i - p.lookback \in 1..i
    BY <1>1
  <2> QED BY <2>1, SameBarAt
<1> DEFINE said(gain, fast, slow, prior, close, then, open) ==
      IF pos.in THEN Leave(/\ pos.price > 0
                           /\ gain <= -10 * p.stopPct \/ gain >= 10 * p.tpPct)
      ELSE IF i <= p.lookback \/ ~(Ok(fast) /\ Ok(slow) /\ Ok(prior)) THEN "Hold"
      ELSE Enter(fast > slow /\ close > then /\ close > prior /\ close > open)
<1>9. MomoBreakout(p, s, i, pos) = said(Gain(s, i, pos), a, b, c, s.close[i], s.close[i - p.lookback], s.open[i])
  BY <1>2, <1>4, <1>5, <1>6 DEF MomoBreakout
<1>10. MomoBreakout(p, t, i, pos) = said(Gain(t, i, pos), a, b, c, t.close[i], t.close[i - p.lookback], t.open[i])
  BY <1>2, <1>4, <1>5, <1>6 DEF MomoBreakout
<1>11. CASE i > p.lookback
  <2> HIDE DEF said
  <2> QED BY <1>7, <1>8, <1>9, <1>10, <1>11
<1>12. CASE ~(i > p.lookback)
  <2>1. i <= p.lookback
    BY <1>1, <1>12
  <2> QED BY <1>7, <1>9, <1>10, <2>1
<1> QED BY <1>11, <1>12

-----------------------------------------------------------------------------
(* Clouds, controls and the calendar.                                      *)

\* What a rule asks of a cloud at a bar.
SameCloud(x, y, i) ==
    /\ x.tenkan[i] = y.tenkan[i] /\ x.kijun[i] = y.kijun[i]
    /\ x.spanA[i] = y.spanA[i] /\ x.spanB[i] = y.spanB[i]
    /\ Top(x, i) = Top(y, i) /\ Bottom(x, i) = Bottom(y, i) /\ Formed(x, i) = Formed(y, i)

LEMMA CloudAt ==
    ASSUME NEW s, NEW t, NEW i \in Nat \ {0}, SameBars(s, t, i),
           NEW a \in Nat, NEW b \in Nat, NEW c \in Nat, NEW d \in Nat
    PROVE  SameCloud(Ichimoku(s, a, b, c, d), Ichimoku(t, a, b, c, d), i)
<1>0. PICK x, y : x = Ichimoku(s, a, b, c, d) /\ y = Ichimoku(t, a, b, c, d)
  OBVIOUS
<1>1. /\ Same(x.tenkan, y.tenkan, i) /\ Same(x.kijun, y.kijun, i)
      /\ Same(x.spanA, y.spanA, i) /\ Same(x.spanB, y.spanB, i)
  BY <1>0, IchimokuSame
<1>2. /\ x.tenkan[i] = y.tenkan[i] /\ x.kijun[i] = y.kijun[i]
      /\ x.spanA[i] = y.spanA[i] /\ x.spanB[i] = y.spanB[i]
  BY <1>1, SameLast
<1> QED BY <1>0, <1>2 DEF SameCloud, Top, Bottom, Formed

LEMMA PureIchimokuSame ==
    ASSUME NEW s, NEW t, NEW i \in Nat \ {0}, SameBars(s, t, i), NEW pos, NEW p,
           Counts(p, {"tenkan", "kijun", "spanB"})
    PROVE  PureIchimoku(p, s, i, pos) = PureIchimoku(p, t, i, pos)
<1>1. p.tenkan \in Nat /\ p.kijun \in Nat /\ p.spanB \in Nat /\ i \in 1..i
  BY DEF Counts
<1>2. PICK x, y : /\ x = Ichimoku(s, p.tenkan, p.kijun, p.spanB, p.kijun)
                  /\ y = Ichimoku(t, p.tenkan, p.kijun, p.spanB, p.kijun)
  OBVIOUS
<1>3. /\ x.tenkan[i] = y.tenkan[i] /\ x.kijun[i] = y.kijun[i]
      /\ Top(x, i) = Top(y, i) /\ Bottom(x, i) = Bottom(y, i) /\ Formed(x, i) = Formed(y, i)
  <2>1. SameCloud(x, y, i)
    BY <1>1, <1>2, CloudAt
  <2> QED BY <2>1 DEF SameCloud
<1>4. s.close[i] = t.close[i]
  BY <1>1, SameBarAt
<1> QED BY <1>2, <1>3, <1>4 DEF PureIchimoku

LEMMA IchimokuFullSame ==
    ASSUME NEW s, NEW t, NEW i \in Nat \ {0}, SameBars(s, t, i), NEW pos, NEW p,
           Counts(p, {"tenkan", "kijun", "spanB", "displacement"})
    PROVE  IchimokuFull(p, s, i, pos) = IchimokuFull(p, t, i, pos)
<1>1. p.tenkan \in Nat /\ p.kijun \in Nat /\ p.spanB \in Nat /\ p.displacement \in Nat /\ i \in 1..i
  BY DEF Counts
<1>2. PICK x, y : /\ x = Ichimoku(s, p.tenkan, p.kijun, p.spanB, p.displacement)
                  /\ y = Ichimoku(t, p.tenkan, p.kijun, p.spanB, p.displacement)
  OBVIOUS
<1>3. /\ x.tenkan[i] = y.tenkan[i] /\ x.kijun[i] = y.kijun[i]
      /\ Top(x, i) = Top(y, i) /\ Bottom(x, i) = Bottom(y, i) /\ Formed(x, i) = Formed(y, i)
  <2>1. SameCloud(x, y, i)
    BY <1>1, <1>2, CloudAt
  <2> QED BY <2>1 DEF SameCloud
<1>4. s.close[i] = t.close[i]
  BY <1>1, SameBarAt
<1> DEFINE lags(u) == p.requireChikou => u.close[i] > u.close[i - p.displacement]
           said(u, cloud, chikou) ==
      LET bull  == cloud.tenkan[i] > cloud.kijun[i]
      IN  IF i = 1 \/ ~(Formed(cloud, i) /\ Ok(cloud.tenkan[i]) /\ Ok(cloud.kijun[i])) THEN "Hold"
          ELSE IF p.requireChikou /\ i <= p.displacement THEN "Hold"
          ELSE IF pos.in THEN Leave(u.close[i] < Bottom(cloud, i) \/ ~bull)
          ELSE Enter(u.close[i] > Top(cloud, i) /\ bull /\ chikou)
<1>5. IchimokuFull(p, s, i, pos) = said(s, x, lags(s))
  BY <1>2 DEF IchimokuFull
<1>6. IchimokuFull(p, t, i, pos) = said(t, y, lags(t))
  BY <1>2 DEF IchimokuFull
<1> HIDE DEF lags
<1>7. \A c : said(s, x, c) = said(t, y, c)
  BY <1>3, <1>4
<1>8. CASE p.requireChikou /\ i <= p.displacement
  BY <1>3, <1>5, <1>6, <1>8
<1>9. CASE ~p.requireChikou \/ ~(i <= p.displacement)
  <2>1. ~(i <= p.displacement) => i - p.displacement \in 1..i
    BY <1>1
  <2>2. lags(s) = lags(t)
    BY <1>4, <1>9, <2>1, SameBarAt DEF lags
  <2> HIDE DEF said
  <2> QED BY <1>5, <1>6, <1>7, <2>2
<1> QED BY <1>8, <1>9

LEMMA OdiseoSame ==
    ASSUME NEW s, NEW t, NEW i \in Nat \ {0}, SameBars(s, t, i), NEW pos, NEW p,
           Counts(p, {"tenkan", "kijun", "spanB", "dmiWindow", "atrWindow", "volWindow", "obvWindow"})
    PROVE  Odiseo(p, s, i, pos) = Odiseo(p, t, i, pos)
<1>1. /\ p.tenkan \in Nat /\ p.kijun \in Nat /\ p.spanB \in Nat /\ p.dmiWindow \in Nat
      /\ p.atrWindow \in Nat /\ p.volWindow \in Nat /\ p.obvWindow \in Nat /\ i \in 1..i
  BY DEF Counts
<1>2. PICK x, y : /\ x = Ichimoku(s, p.tenkan, p.kijun, p.spanB, p.kijun)
                  /\ y = Ichimoku(t, p.tenkan, p.kijun, p.spanB, p.kijun)
  OBVIOUS
<1>3. PICK ten, kij, top, bottom, formed :
          /\ ten = x.tenkan[i] /\ ten = y.tenkan[i] /\ kij = x.kijun[i] /\ kij = y.kijun[i]
          /\ top = Top(x, i) /\ top = Top(y, i) /\ bottom = Bottom(x, i) /\ bottom = Bottom(y, i)
          /\ formed = Formed(x, i) /\ formed = Formed(y, i)
  <2>1. SameCloud(x, y, i)
    BY <1>1, <1>2, CloudAt
  <2> QED BY <2>1 DEF SameCloud
<1>4. PICK d, e : d = Dmi(s, p.dmiWindow) /\ e = Dmi(t, p.dmiWindow)
  OBVIOUS
<1>5. PICK adx, plus, minus : /\ adx = d.adx[i] /\ adx = e.adx[i]
                              /\ plus = d.plusDI[i] /\ plus = e.plusDI[i]
                              /\ minus = d.minusDI[i] /\ minus = e.minusDI[i]
  <2>1. Same(d.plusDI, e.plusDI, i) /\ Same(d.minusDI, e.minusDI, i) /\ Same(d.adx, e.adx, i)
    BY <1>1, <1>4, DmiSame
  <2> QED BY <2>1, SameLast
<1>6. PICK a : a = Atr(s, p.atrWindow)[i] /\ a = Atr(t, p.atrWindow)[i]
  BY SMTT(30), <1>1, ShownAt
<1>7. PICK v : v = RelativeVolume(s.volume, p.volWindow)[i] /\ v = RelativeVolume(t.volume, p.volWindow)[i]
  BY SMTT(30), <1>1, ShownAt
<1>8. PICK f, g : f = OnBalanceVolume(s.close, s.volume) /\ g = OnBalanceVolume(t.close, t.volume)
  OBVIOUS
<1>9. Same(f, g, i)
  BY <1>8, ObvSame
<1>10. s.close[i] = t.close[i]
  BY <1>1, SameBarAt
<1> DEFINE hollow(u, h) == LET before == i - p.obvWindow
                           IN  p.volumeMode = "ObvExit" /\ before >= 1
                               /\ u.close[i] >= u.close[before] /\ h[i] < h[before]
<1>11. hollow(s, f) = hollow(t, g)
  <2>1. i - p.obvWindow >= 1 => i - p.obvWindow \in 1..i
    BY <1>1
  <2>2. f[i] = g[i]
    BY <1>9, SameLast
  <2>3. i - p.obvWindow >= 1 => /\ s.close[i - p.obvWindow] = t.close[i - p.obvWindow]
                                /\ f[i - p.obvWindow] = g[i - p.obvWindow]
    <3>1. i - p.obvWindow >= 1 => f[i - p.obvWindow] = g[i - p.obvWindow]
      BY <1>9, <2>1 DEF Same
    <3> QED BY <2>1, <3>1, SameBarAt
  <2> QED BY <1>10, <2>2, <2>3
<1> DEFINE said(close, drained) ==
      LET expanding == p.volumeMode # "None" /\ Ok(v) /\ v >= p.volConfirmMult
          strong == adx > p.adxThreshold \/ (p.volumeMode = "AdxOr" /\ expanding)
          bull   == Ok(plus) /\ plus > minus
          stopped == p.atrStop > 0 /\ 1000 * (pos.highest - close) > p.atrStop * a
          flipped == close < bottom /\ strong /\ ~bull
      IN  IF i = 1 \/ ~(formed /\ Ok(adx) /\ Ok(a)) THEN "Hold"
          ELSE IF pos.in THEN Leave(stopped \/ flipped \/ drained)
          ELSE Enter(/\ close > top /\ strong /\ bull
                     /\ ~p.requireTenkan \/ ten > kij
                     /\ p.volumeMode = "Confirm" => expanding)
<1>12. Odiseo(p, s, i, pos) = said(s.close[i], hollow(s, f))
  BY <1>2, <1>3, <1>4, <1>5, <1>6, <1>7, <1>8 DEF Odiseo
<1>13. Odiseo(p, t, i, pos) = said(t.close[i], hollow(t, g))
  BY <1>2, <1>3, <1>4, <1>5, <1>6, <1>7, <1>8 DEF Odiseo
<1> HIDE DEF said, hollow
<1> QED BY <1>10, <1>11, <1>12, <1>13

LEMMA CoinSame ==
    ASSUME NEW s, NEW t, NEW i \in Nat \ {0}, SameBars(s, t, i), NEW pos, NEW p
    PROVE  /\ RandomEntry(p, s, i, pos) = RandomEntry(p, t, i, pos)
           /\ CalendarRule(p, s, i, pos) = CalendarRule(p, t, i, pos)
<1>1. i \in 1..i
  OBVIOUS
<1>2. s.timestamp[i] = t.timestamp[i]
  BY <1>1, SameBarAt
<1> QED BY <1>2 DEF RandomEntry, CalendarRule

-----------------------------------------------------------------------------
(* Measures of a regime, and the gates that read them.                     *)

LEMMA SquaredMovesSame ==
    ASSUME NEW v, NEW w, NEW i \in Nat \ {0}, Same(v, w, i), NEW p \in Nat, i > p, NEW q \in Nat
    PROVE  SquaredMoves(v, p, q, i) = SquaredMoves(w, p, q, i)
<1> DEFINE mu(x) == (x[i] - x[i - p]) \div p
           d(x, k) == x[i - p + q + k - 1] - x[i - p + k - 1] - q * mu(x)
           squares(x) == [k \in 1..(p - q + 1) |-> d(x, k) * d(x, k)]
<1>1. SquaredMoves(v, p, q, i) = SumOver(squares(v), 1, p - q + 1)
  BY DEF SquaredMoves
<1>2. SquaredMoves(w, p, q, i) = SumOver(squares(w), 1, p - q + 1)
  BY DEF SquaredMoves
<1>3. i \in 1..i /\ i - p \in 1..i
  OBVIOUS
<1>4. mu(v) = mu(w)
  BY <1>3 DEF Same
<1>5. \A k \in 1..(p - q + 1) : i - p + q + k - 1 \in 1..i /\ i - p + k - 1 \in 1..i
  OBVIOUS
<1>6. \A k \in 1..(p - q + 1) : /\ v[i - p + q + k - 1] = w[i - p + q + k - 1]
                                /\ v[i - p + k - 1] = w[i - p + k - 1]
  BY <1>5 DEF Same
<1> HIDE DEF mu
<1>7. \A k \in 1..(p - q + 1) : d(v, k) = d(w, k)
  BY <1>4, <1>6
<1> HIDE DEF d
<1>8. squares(v) = squares(w)
  BY <1>7
<1> QED BY <1>1, <1>2, <1>8

LEMMA VarianceRatioSame ==
    ASSUME NEW v, NEW w, NEW i \in Nat \ {0}, Same(v, w, i), NEW p \in Nat, NEW q \in Nat
    PROVE  VarianceRatio(v, p, q, i) = VarianceRatio(w, p, q, i)
<1>1. PICK x, y : x = LogOf(v) /\ y = LogOf(w)
  OBVIOUS
<1>2. Same(x, y, i)
  BY <1>1, LogSame DEF Series
<1>3. CASE i <= p
  BY <1>3 DEF VarianceRatio
<1>4. CASE ~(i <= p)
  <2>1. \A k \in (i - p)..i : k \in 1..i
    BY <1>4
  <2>2. OkOn(x, i - p, i) <=> OkOn(y, i - p, i)
    BY <1>2, <2>1 DEF OkOn, Same
  <2>3. PICK a : a = SquaredMoves(x, p, 1, i) /\ a = SquaredMoves(y, p, 1, i)
    BY <1>2, <1>4, SquaredMovesSame
  <2>4. PICK b : b = SquaredMoves(x, p, q, i) /\ b = SquaredMoves(y, p, q, i)
    BY <1>2, <1>4, SquaredMovesSame
  <2> QED BY <1>1, <2>2, <2>3, <2>4 DEF VarianceRatio
<1> QED BY <1>3, <1>4

LEMMA OrdinalSame ==
    ASSUME NEW v, NEW w, NEW n, Same(v, w, n), NEW m \in Nat, NEW k \in m..n
    PROVE  Ordinal(v, m, k) = Ordinal(w, m, k)
<1>1. n \in Nat /\ \A a \in 1..m : k - m + a \in 1..n
  BY DEF Same
<1>2. \A a \in 1..m : v[k - m + a] = w[k - m + a]
  BY <1>1 DEF Same
<1> DEFINE below(x, a) == { b \in 1..m : \/ x[k - m + b] < x[k - m + a]
                                         \/ x[k - m + b] = x[k - m + a] /\ b < a }
<1>3. \A a \in 1..m : below(v, a) = below(w, a)
  BY <1>2
<1>4. Ordinal(v, m, k) = [a \in 1..m |-> Cardinality(below(v, a))]
  BY DEF Ordinal
<1>5. Ordinal(w, m, k) = [a \in 1..m |-> Cardinality(below(w, a))]
  BY DEF Ordinal
<1> HIDE DEF below
<1> QED BY <1>3, <1>4, <1>5

CountBody(e, f, k) ==
    IF k = 0 THEN [o \in e[4] |-> 0]
    ELSE [o \in e[4] |-> f[k - 1][o]
              + (IF k >= e[2] /\ Ordinal(e[1], e[2], k) = o THEN 1 ELSE 0)
              - (IF k - e[3] >= e[2] /\ Ordinal(e[1], e[2], k - e[3]) = o THEN 1 ELSE 0)]
Tallies == INSTANCE Recursion WITH Body <- CountBody
SeenOrders(close, m, i) == { Ordinal(close, m, k) : k \in m..i }

LEMMA PatternCountsIs ==
    ASSUME NEW v, NEW m, NEW p, NEW i \in Nat
    PROVE  /\ PatternCounts(v, m, p, i) = Tallies!Rec(<<v, m, p, SeenOrders(v, m, i)>>, 0, i)[i]
           /\ Tallies!LooksBack(<<v, m, p, SeenOrders(v, m, i)>>, 0, i)
<1>1. PICK S : S = SeenOrders(v, m, i)
  OBVIOUS
<1>2. PatternCounts(v, m, p, i) = Tallies!Rec(<<v, m, p, S>>, 0, i)[i]
  BY ZenonT(120), <1>1 DEF PatternCounts, Tallies!Rec, Tallies!IsRec, CountBody, SeenOrders
<1>3. Tallies!LooksBack(<<v, m, p, S>>, 0, i)
  <2> SUFFICES ASSUME NEW k \in 0..i, NEW g, NEW h, Tallies!SameBelow(g, h, 0, k), k # 0
               PROVE  CountBody(<<v, m, p, S>>, g, k) = CountBody(<<v, m, p, S>>, h, k)
    BY DEF Tallies!LooksBack, CountBody
  <2>1. k - 1 \in 0..(k - 1)
    OBVIOUS
  <2>2. g[k - 1] = h[k - 1]
    BY <2>1 DEF Tallies!SameBelow
  <2> QED BY <2>2 DEF CountBody
<1> QED BY <1>1, <1>2, <1>3

LEMMA PatternCountsSame ==
    ASSUME NEW v, NEW w, NEW i \in Nat \ {0}, Same(v, w, i), NEW m \in Nat, NEW p \in Nat
    PROVE  PatternCounts(v, m, p, i) = PatternCounts(w, m, p, i)
<1>1. \A k \in m..i : Ordinal(v, m, k) = Ordinal(w, m, k)
  BY OrdinalSame
<1>2. SeenOrders(v, m, i) = SeenOrders(w, m, i)
  BY <1>1 DEF SeenOrders
<1>3. PICK S : S = SeenOrders(v, m, i)
  OBVIOUS
<1>4. \A k \in 0..i : \A g : CountBody(<<v, m, p, S>>, g, k) = CountBody(<<w, m, p, S>>, g, k)
  <2> SUFFICES ASSUME NEW k \in 0..i, NEW g
               PROVE  CountBody(<<v, m, p, S>>, g, k) = CountBody(<<w, m, p, S>>, g, k)
    OBVIOUS
  <2>1. k >= m => Ordinal(v, m, k) = Ordinal(w, m, k)
    BY <1>1
  <2>2. k - p >= m => Ordinal(v, m, k - p) = Ordinal(w, m, k - p)
    <3>1. k - p >= m => k - p \in m..i
      OBVIOUS
    <3> QED BY <1>1, <3>1
  <2> QED BY <2>1, <2>2 DEF CountBody
<1>5. Tallies!LooksBack(<<v, m, p, S>>, 0, i) /\ Tallies!LooksBack(<<w, m, p, S>>, 0, i)
  BY <1>2, <1>3, PatternCountsIs
<1>6. Tallies!Rec(<<v, m, p, S>>, 0, i) = Tallies!Rec(<<w, m, p, S>>, 0, i)
  BY <1>4, <1>5, Tallies!Coincide
<1> QED BY <1>2, <1>3, <1>6, PatternCountsIs

LEMMA PermutationEntropySame ==
    ASSUME NEW v, NEW w, NEW i \in Nat \ {0}, Same(v, w, i), NEW p, Counts(p, {"order", "window"})
    PROVE  PermutationEntropy(p, v, i) = PermutationEntropy(p, w, i)
<1>1. p.order \in Nat /\ p.window \in Nat
  BY DEF Counts
<1>2. PICK c : c = PatternCounts(v, p.order, p.window, i) /\ c = PatternCounts(w, p.order, p.window, i)
  BY <1>1, PatternCountsSame
<1> QED BY <1>2 DEF PermutationEntropy

\* Of a return and a volatility, and the intensity before them.
HawkesMeasured(e, k) == Ok(e[1][k]) /\ Ok(e[2][k]) /\ (IF Ok(e[2][k]) THEN e[2][k] > 0 ELSE FALSE)
HawkesBody(e, f, k) ==
    IF k = 0 THEN 0
    ELSE (f[k - 1] * e[3].decay) \div Permille
         + (IF HawkesMeasured(e, k) /\ Permille * Abs(e[1][k]) > e[3].jumpSigmas * e[2][k]
            THEN Permille ELSE 0)
Intensities == INSTANCE Recursion WITH Body <- HawkesBody

LEMMA HawkesIs ==
    ASSUME NEW u, Len(u) \in Nat, NEW p, NEW r, r = PercentReturns(u), NEW v, v = RollingVolatility(u, p.volWindow)
    PROVE  /\ HawkesIntensity(p, u) = [k \in Bars(u) |-> Where(HawkesMeasured(<<r, v, p>>, k),
                                           Intensities!Rec(<<r, v, p>>, 0, Len(u))[k])]
           /\ Intensities!LooksBack(<<r, v, p>>, 0, Len(u))
<1>1. PICK f : f = Intensities!Rec(<<r, v, p>>, 0, Len(u))
  OBVIOUS
<1>2. HawkesIntensity(p, u) = [k \in Bars(u) |-> Where(HawkesMeasured(<<r, v, p>>, k), f[k])]
  BY <1>1 DEF HawkesIntensity, HawkesMeasured, Intensities!Rec, Intensities!IsRec, HawkesBody
<1>3. Intensities!LooksBack(<<r, v, p>>, 0, Len(u))
  <2> SUFFICES ASSUME NEW k \in 0..Len(u), NEW g, NEW h, Intensities!SameBelow(g, h, 0, k)
               PROVE  HawkesBody(<<r, v, p>>, g, k) = HawkesBody(<<r, v, p>>, h, k)
    BY DEF Intensities!LooksBack
  <2>1. k = 0 \/ g[k - 1] = h[k - 1]
    BY DEF Intensities!SameBelow
  <2> QED BY <2>1 DEF HawkesBody
<1> QED BY <1>1, <1>2, <1>3

LEMMA HawkesSame ==
    ASSUME NEW v, NEW w, NEW n, Same(v, w, n), NEW p, Counts(p, {"volWindow"})
    PROVE  Same(HawkesIntensity(p, v), HawkesIntensity(p, w), n)
<1>0. n \in Int /\ Len(v) \in Nat /\ Len(w) \in Nat /\ n <= Len(v) /\ n <= Len(w) /\ p.volWindow \in Nat
  BY DEF Same, Counts
<1>1. PICK r, s : r = PercentReturns(v) /\ s = PercentReturns(w)
  OBVIOUS
<1>2. PICK x, y : x = RollingVolatility(v, p.volWindow) /\ y = RollingVolatility(w, p.volWindow)
  OBVIOUS
<1>3. \A k \in 1..n : r[k] = s[k] /\ x[k] = y[k]
  <2>1. Series(r, s, n) /\ Same(x, y, n)
    BY <1>0, <1>1, <1>2, ReturnsSame, VolatilitySame
  <2> QED BY <2>1 DEF Series, Same
<1>4. \A k \in 1..n : HawkesMeasured(<<r, x, p>>, k) = HawkesMeasured(<<s, y, p>>, k)
  BY <1>3 DEF HawkesMeasured
<1>5. \A k \in 0..n : \A h : HawkesBody(<<r, x, p>>, h, k) = HawkesBody(<<s, y, p>>, h, k)
  <2> SUFFICES ASSUME NEW k \in 0..n, NEW h, k # 0
               PROVE  HawkesBody(<<r, x, p>>, h, k) = HawkesBody(<<s, y, p>>, h, k)
    BY DEF HawkesBody
  <2>1. k \in 1..n
    BY <1>0
  <2> QED BY <1>3, <1>4, <2>1 DEF HawkesBody
<1>6. PICK f, g : f = Intensities!Rec(<<r, x, p>>, 0, Len(v)) /\ g = Intensities!Rec(<<s, y, p>>, 0, Len(w))
  OBVIOUS
<1>7. \A k \in 0..n : f[k] = g[k]
  <2>1. Intensities!LooksBack(<<r, x, p>>, 0, Len(v)) /\ Intensities!LooksBack(<<s, y, p>>, 0, Len(w))
    BY <1>0, <1>1, <1>2, HawkesIs
  <2> QED BY <1>0, <1>5, <1>6, <2>1, Intensities!Agree
<1>8. HawkesIntensity(p, v) = [k \in Bars(v) |-> Where(HawkesMeasured(<<r, x, p>>, k), f[k])]
  BY <1>0, <1>1, <1>2, <1>6, HawkesIs
<1>9. HawkesIntensity(p, w) = [k \in Bars(w) |-> Where(HawkesMeasured(<<s, y, p>>, k), g[k])]
  BY <1>0, <1>1, <1>2, <1>6, HawkesIs
<1>10. \A k \in 1..n : k \in Bars(v) /\ k \in Bars(w) /\ f[k] = g[k]
  BY <1>0, <1>7, SameFacts
<1>11. \A k \in 1..n : HawkesIntensity(p, v)[k] = HawkesIntensity(p, w)[k]
  BY <1>4, <1>8, <1>9, <1>10
<1>12. OnBars(HawkesIntensity(p, v), Len(v)) /\ OnBars(HawkesIntensity(p, w), Len(w))
  BY <1>8, <1>9 DEF OnBars, Bars
<1> QED BY <1>11, <1>12, BarsAreSame


LEMMA HurstStructureSame ==
    ASSUME NEW v, NEW w, NEW i \in Nat \ {0}, Same(v, w, i), NEW p, Counts(p, {"window"}), AllCounts(p.lags, 0)
    PROVE  HurstStructure(p, v, i) = HurstStructure(p, w, i)
<1>1. p.window \in Nat
  BY DEF Counts
<1>2. PICK x, y : x = LogOf(v) /\ y = LogOf(w)
  OBVIOUS
<1>3. Same(x, y, i)
  BY <1>2, LogSame DEF Series
<1>4. CASE i < p.window
  BY <1>4 DEF HurstStructure
<1>5. CASE ~(i < p.window)
  <2> DEFINE squares(h, lag) == [k \in 1..(p.window - lag) |->
                 LET d == h[i - p.window + lag + k] - h[i - p.window + k] IN d * d]
             moves(h, lag) == SumOver(squares(h, lag), 1, p.window - lag)
             all(h) == [k \in Bars(p.lags) |-> moves(h, p.lags[k])]
  <2>1. ASSUME NEW lag \in Nat PROVE moves(x, lag) = moves(y, lag)
    <3>1. \A k \in 1..(p.window - lag) : i - p.window + lag + k \in 1..i /\ i - p.window + k \in 1..i
      BY <1>1, <1>5
    <3>2. \A k \in 1..(p.window - lag) : /\ x[i - p.window + lag + k] = y[i - p.window + lag + k]
                                         /\ x[i - p.window + k] = y[i - p.window + k]
      BY <1>3, <3>1 DEF Same
    <3>3. squares(x, lag) = squares(y, lag)
      BY <3>2
    <3> QED BY <3>3
  <2> DEFINE rest(m) ==
        LET size == [k \in Bars(p.lags) |-> Log(Larger(1, m[k] \div (p.window - p.lags[k])))]
            fit  == Ols([k \in Bars(p.lags) |-> Log(p.lags[k])], size, Len(p.lags))
        IN  IF \E k \in Bars(p.lags) : m[k] <= 0 \/ ~Ok(fit) THEN NaN
            ELSE Larger(0, Smaller(Permille, fit.b \div 2))
  <2>2. HurstStructure(p, v, i) = rest(all(x))
    BY ZenonT(40), <1>2, <1>5 DEF HurstStructure
  <2>3. HurstStructure(p, w, i) = rest(all(y))
    BY ZenonT(40), <1>2, <1>5 DEF HurstStructure
  <2> HIDE DEF moves, rest
  <2>4. \A k \in Bars(p.lags) : moves(x, p.lags[k]) = moves(y, p.lags[k])
    BY <2>1 DEF AllCounts
  <2>5. all(x) = all(y)
    BY <2>4
  <2> QED BY <2>2, <2>3, <2>5
<1> QED BY <1>4, <1>5

LEMMA RescaledRangeSame ==
    ASSUME NEW r, NEW s, NEW from \in Int, NEW len \in Nat, \A k \in from..(from + len - 1) : r[k] = s[k]
    PROVE  RescaledRange(r, from, len) = RescaledRange(s, from, len)
<1>1. PICK m : m = MeanOver(r, from, from + len - 1) /\ m = MeanOver(s, from, from + len - 1)
  BY MeanSame
<1>2. PICK q : /\ q = SquaresAround(r, from, from + len - 1, m)
               /\ q = SquaresAround(s, from, from + len - 1, m)
  BY SquaresSame
<1> DEFINE walk(h) == [k \in 0..len |-> IF k = 0 THEN 0 ELSE SumOver(h, from, from + k - 1) - k * m]
<1>3. \A k \in 0..len : SumOver(r, from, from + k - 1) = SumOver(s, from, from + k - 1)
  <2> SUFFICES ASSUME NEW k \in 0..len PROVE SumOver(r, from, from + k - 1) = SumOver(s, from, from + k - 1)
    OBVIOUS
  <2>1. from + k - 1 \in Int /\ \A j \in from..(from + k - 1) : j \in from..(from + len - 1)
    OBVIOUS
  <2> QED BY <2>1, SumSame
<1>4. walk(r) = walk(s)
  BY <1>3
<1> DEFINE said(f) == LET dev == Root(q \div len)
                      IN  IF dev = 0 THEN NaN
                          ELSE (Permille * (Highest(Column(f, 0..len)) - Lowest(Column(f, 0..len)))) \div dev
<1>5. RescaledRange(r, from, len) = said(walk(r))
  BY <1>1, <1>2 DEF RescaledRange
<1>6. RescaledRange(s, from, len) = said(walk(s))
  BY <1>1, <1>2 DEF RescaledRange
<1> HIDE DEF said, walk
<1> QED BY <1>4, <1>5, <1>6

\* As many whole chunks as fit.
LEMMA ChunksFit ==
    ASSUME NEW x \in Int, NEW len \in Nat \ {0}, NEW c \in 1..(x \div len)
    PROVE  c * len <= x /\ (c - 1) * len >= 0 /\ (c - 1) * len + len = c * len /\ (c - 1) * len \in Int
<1>1. PICK q \in Int : q = x \div len /\ q * len <= x
  OBVIOUS
<1>2. c \in Nat /\ c <= q /\ c >= 1
  BY <1>1
<1>3. c * len <= q * len
  BY <1>1, <1>2
<1>4. (c - 1) * len >= 0 /\ (c - 1) * len + len = c * len /\ (c - 1) * len \in Int
  BY <1>2
<1>5. c * len \in Int /\ q * len \in Int
  BY <1>1, <1>2
<1> QED BY <1>1, <1>3, <1>4, <1>5

LEMMA HurstExponentSame ==
    ASSUME NEW v, NEW w, NEW i \in Nat \ {0}, Same(v, w, i), NEW p, Counts(p, {"window"}), AllCounts(p.chunks, 1)
    PROVE  HurstExponent(p, v, i) = HurstExponent(p, w, i)
<1>1. p.window \in Nat
  BY DEF Counts
<1>2. PICK x, y : x = PercentReturns(v) /\ y = PercentReturns(w)
  OBVIOUS
<1>3. Same(x, y, i)
  BY <1>2, ReturnsSame DEF Series
<1>4. PICK start : start = Larger(2, i - p.window + 1)
  OBVIOUS
<1>5. start \in Int /\ start >= 2
  BY SMTT(30), <1>1, <1>4 DEF Larger
<1> DEFINE chunks(from, len) == (i - from + 1) \div len
           ranges(h, from, len) == [c \in 1..chunks(from, len) |-> RescaledRange(h, from + (c - 1) * len, len)]
           mean(rs, from, len) ==
               LET known == { c \in 1..chunks(from, len) : Ok(rs[c]) }
               IN  IF known = {} THEN NaN
                   ELSE SumOver([c \in 1..chunks(from, len) |-> IF c \in known THEN rs[c] ELSE 0], 1, chunks(from, len))
                        \div Cardinality(known)
           measured(h, from) == [k \in Bars(p.chunks) |-> mean(ranges(h, from, p.chunks[k]), from, p.chunks[k])]
           rest(rs) ==
               LET fit == Ols([k \in Bars(rs) |-> Log(p.chunks[k])],
                              [k \in Bars(rs) |-> Log(rs[k]) - WalkRange(p.chunks[k])], Len(rs))
               IN  IF i < p.window + 1 \/ \E k \in Bars(rs) : ~Ok(rs[k]) \/ rs[k] = 0 THEN NaN
                   ELSE IF ~Ok(fit) THEN NaN ELSE Permille \div 2 + fit.b
<1>6. HurstExponent(p, v, i) = rest(measured(PercentReturns(v), Larger(2, i - p.window + 1)))
  BY ZenonT(40) DEF HurstExponent
<1>7. HurstExponent(p, w, i) = rest(measured(PercentReturns(w), Larger(2, i - p.window + 1)))
  BY ZenonT(40) DEF HurstExponent
<1>8. ASSUME NEW len \in Nat \ {0} PROVE ranges(x, start, len) = ranges(y, start, len)
  <2>1. ASSUME NEW c \in 1..chunks(start, len)
        PROVE  RescaledRange(x, start + (c - 1) * len, len) = RescaledRange(y, start + (c - 1) * len, len)
    <3>1. PICK from : from = start + (c - 1) * len
      OBVIOUS
    <3>2. from \in Int /\ from >= 2 /\ from + len - 1 <= i
      <4>1. PICK a : a = (c - 1) * len
        OBVIOUS
      <4>2. i - start + 1 \in Int
        BY <1>5
      <4>3. a \in Int /\ a >= 0 /\ a + len <= i - start + 1
        BY <4>1, <4>2, ChunksFit
      <4> QED BY <1>5, <3>1, <4>1, <4>3
    <3>3. \A k \in from..(from + len - 1) : k \in 1..i
      BY <3>2
    <3>4. \A k \in from..(from + len - 1) : x[k] = y[k]
      BY <1>3, <3>3 DEF Same
    <3> QED BY <3>1, <3>2, <3>4, RescaledRangeSame
  <2> QED BY <2>1
<1> HIDE DEF ranges, mean, rest
<1>9. \A k \in Bars(p.chunks) : p.chunks[k] \in Nat \ {0}
  BY DEF AllCounts
<1>10. \A k \in Bars(p.chunks) : ranges(x, start, p.chunks[k]) = ranges(y, start, p.chunks[k])
  BY <1>8, <1>9
<1>11. measured(x, start) = measured(y, start)
  BY <1>10
<1> HIDE DEF measured
<1> QED BY <1>2, <1>4, <1>6, <1>7, <1>11

LEMMA BehindSame ==
    ASSUME NEW s, NEW t, NEW i \in Nat \ {0}, SameBars(s, t, i), NEW signal,
           NEW gate \in GateNames, NEW g, GateCounts(gate, g)
    PROVE  Behind(gate, g, s, i, signal) = Behind(gate, g, t, i, signal)
<1>1. Same(s.close, t.close, i)
  BY SameStore
<1>2. CASE gate = "none"
  BY <1>2 DEF Behind
<1>3. CASE gate = "pe"
  <2>1. Counts(g, {"order", "window"})
    BY <1>3 DEF GateCounts
  <2>2. PICK e : e = PermutationEntropy(g, s.close, i) /\ e = PermutationEntropy(g, t.close, i)
    BY <1>1, <2>1, PermutationEntropySame
  <2> QED BY <1>3, <2>2 DEF Behind, PermutationEntropyGate
<1>4. CASE gate = "hawkes"
  <2>1. Counts(g, {"volWindow"}) /\ g.rankWindow \in Nat
    BY <1>4 DEF GateCounts, Counts
  <2>2. PICK a, b : a = HawkesIntensity(g, s.close) /\ b = HawkesIntensity(g, t.close)
    OBVIOUS
  <2>3. Same(a, b, i)
    BY <1>1, <2>1, <2>2, HawkesSame
  <2>4. PICK r : r = PercentileRank(a, g.rankWindow)[i] /\ r = PercentileRank(b, g.rankWindow)[i]
    <3>1. Same(PercentileRank(a, g.rankWindow), PercentileRank(b, g.rankWindow), i)
      BY <2>1, <2>3, RankSame
    <3> QED BY <3>1, SameLast
  <2> QED BY <1>4, <2>2, <2>4 DEF Behind, HawkesIntensityGate
<1>5. CASE gate = "vr"
  <2>1. g.window \in Nat /\ g.lag \in Nat
    BY <1>5 DEF GateCounts, Counts
  <2>2. PICK r : r = VarianceRatio(s.close, g.window, g.lag, i) /\ r = VarianceRatio(t.close, g.window, g.lag, i)
    BY <1>1, <2>1, VarianceRatioSame
  <2> QED BY <1>5, <2>2 DEF Behind, VarianceRatioGate
<1>6. CASE gate = "hurst"
  <2>1. Counts(g, {"window"})
    BY <1>6 DEF GateCounts
  <2>2. CASE g.estimator = "StructureFunction"
    <3>1. AllCounts(g.lags, 0)
      BY <1>6, <2>2 DEF GateCounts
    <3>2. PICK h : h = HurstStructure(g, s.close, i) /\ h = HurstStructure(g, t.close, i)
      BY <1>1, <2>1, <3>1, HurstStructureSame
    <3> QED BY <1>6, <2>2, <3>2 DEF Behind, HurstRegimeFilter
  <2>3. CASE g.estimator # "StructureFunction"
    <3>1. AllCounts(g.chunks, 1)
      BY <1>6, <2>3 DEF GateCounts
    <3>2. PICK h : h = HurstExponent(g, s.close, i) /\ h = HurstExponent(g, t.close, i)
      BY <1>1, <2>1, <3>1, HurstExponentSame
    <3> QED BY <1>6, <2>3, <3>2 DEF Behind, HurstRegimeFilter
  <2> QED BY <2>2, <2>3
<1> QED BY <1>2, <1>3, <1>4, <1>5, <1>6 DEF GateNames

-----------------------------------------------------------------------------
(* Families that measure a regime.                                         *)

LEMMA VolManagedSame ==
    ASSUME NEW s, NEW t, NEW i \in Nat \ {0}, SameBars(s, t, i), NEW p,
           Counts(p, {"volWindow", "rankWindow", "trendWindow"})
    PROVE  VolManaged(p, s, i) = VolManaged(p, t, i)
<1>0. p.volWindow \in Nat /\ p.rankWindow \in Nat /\ p.trendWindow \in Nat
  BY DEF Counts
<1>1. /\ p.volWindow \in Nat /\ p.rankWindow \in Nat /\ Larger(1, p.trendWindow) \in Nat /\ i \in 1..i
      /\ Same(s.close, t.close, i)
  <2>1. Larger(1, p.trendWindow) \in Nat
    BY <1>0 DEF Larger
  <2>2. Same(s.close, t.close, i)
    BY SameStore
  <2> QED BY <1>0, <2>1, <2>2
<1>2. PICK a, b : a = RollingVolatility(s.close, p.volWindow) /\ b = RollingVolatility(t.close, p.volWindow)
  OBVIOUS
<1>3. PICK r : r = PercentileRank(a, p.rankWindow)[i] /\ r = PercentileRank(b, p.rankWindow)[i]
  <2>1. Same(a, b, i)
    BY <1>1, <1>2, VolatilitySame
  <2>2. Same(PercentileRank(a, p.rankWindow), PercentileRank(b, p.rankWindow), i)
    BY <1>1, <2>1, RankSame
  <2> QED BY <2>2, SameLast
<1>4. PICK m : m = Sma(s.close, Larger(1, p.trendWindow))[i] /\ m = Sma(t.close, Larger(1, p.trendWindow))[i]
  BY <1>1, ShownAt
<1>5. s.close[i] = t.close[i]
  BY <1>1, SameBarAt
<1> QED BY <1>2, <1>3, <1>4, <1>5 DEF VolManaged

LEMMA VrSwitchSame ==
    ASSUME NEW s, NEW t, NEW i \in Nat \ {0}, SameBars(s, t, i), NEW pos, NEW p,
           Counts(p, {"vrWindow", "vrLag", "trendWindow", "mrWindow"})
    PROVE  VrSwitch(p, s, i, pos) = VrSwitch(p, t, i, pos)
<1>1. /\ p.vrWindow \in Nat /\ p.vrLag \in Nat /\ p.trendWindow \in Nat /\ p.mrWindow \in Nat /\ i \in 1..i
      /\ Same(s.close, t.close, i)
  BY SameStore DEF Counts
<1>2. PICK r : r = VarianceRatio(s.close, p.vrWindow, p.vrLag, i) /\ r = VarianceRatio(t.close, p.vrWindow, p.vrLag, i)
  BY <1>1, VarianceRatioSame
<1>3. PICK m : m = Sma(s.close, p.trendWindow)[i] /\ m = Sma(t.close, p.trendWindow)[i]
  BY <1>1, ShownAt
<1>4. PICK n : n = Sma(s.close, p.mrWindow)[i] /\ n = Sma(t.close, p.mrWindow)[i]
  BY <1>1, ShownAt
<1>5. PICK d : d = RollingStd(s.close, p.mrWindow)[i] /\ d = RollingStd(t.close, p.mrWindow)[i]
  BY <1>1, ShownAt
<1>6. s.close[i] = t.close[i]
  BY <1>1, SameBarAt
<1> QED BY <1>2, <1>3, <1>4, <1>5, <1>6 DEF VrSwitch

LEMMA FracDiffSame ==
    ASSUME NEW s, NEW t, NEW i \in Nat \ {0}, SameBars(s, t, i), NEW pos, NEW p,
           Counts(p, {"zWindow"}), Len(p.weights) \in Nat
    PROVE  FracDiff(p, s, i, pos) = FracDiff(p, t, i, pos)
<1>1. p.zWindow \in Nat /\ i \in 1..i /\ Same(s.close, t.close, i)
  BY SameStore DEF Counts
<1>2. PICK x, y : x = LogOf(s.close) /\ y = LogOf(t.close)
  OBVIOUS
<1>3. Same(x, y, i)
  BY <1>1, <1>2, LogSame DEF Series
<1> DEFINE L == Len(p.weights)
           terms(h, k) == [j \in Bars(p.weights) |-> p.weights[j] * h[k - j + 1]]
           diff(h, k) == IF k < L \/ ~OkOn(h, k - L + 1, k) THEN NaN
                         ELSE SumOver(terms(h, k), 1, L) \div Permille
<1>5. PICK f, g : f = [k \in Bars(x) |-> diff(x, k)] /\ g = [k \in Bars(y) |-> diff(y, k)]
  OBVIOUS
<1> HIDE DEF diff
<1> DEFINE judged(now, mean, dev) ==
             LET z == (Permille * (now - mean)) \div dev
                 v == IF p.momentum THEN z ELSE -z
             IN  IF ~(Ok(now) /\ Ok(mean) /\ Ok(dev)) THEN "Hold"
                 ELSE IF dev = 0 THEN "Hold"
                 ELSE IF pos.in THEN Leave(v < p.exitZ) ELSE Enter(v > p.entryZ)
           said(h) == judged(h[i], MeanSkipNaN(h, p.zWindow)[i], RollingStd(h, p.zWindow)[i])
<1>6. FracDiff(p, s, i, pos) = said(f)
  <2>1. FracDiff(p, s, i, pos) = said([k \in Bars(x) |-> diff(x, k)])
    BY <1>2 DEF FracDiff, diff
  <2> HIDE DEF said
  <2> QED BY <1>5, <2>1
<1>7. FracDiff(p, t, i, pos) = said(g)
  <2>1. FracDiff(p, t, i, pos) = said([k \in Bars(y) |-> diff(y, k)])
    BY <1>2 DEF FracDiff, diff
  <2> HIDE DEF said
  <2> QED BY <1>5, <2>1
<1> HIDE DEF judged
<1>8. ASSUME NEW k \in 1..i PROVE diff(x, k) = diff(y, k)
  <2>1. CASE k < L
    BY <2>1 DEF diff
  <2>2. CASE ~(k < L)
    <3>0. L \in Nat
      OBVIOUS
    <3> HIDE DEF L
    <3>1. \A j \in (k - L + 1)..k : j \in 1..i
      BY <2>2, <3>0
    <3>2. OkOn(x, k - L + 1, k) <=> OkOn(y, k - L + 1, k)
      BY <1>3, <3>1 DEF OkOn, Same
    <3>3. \A j \in Bars(p.weights) : k - j + 1 \in 1..i
      BY <2>2, <3>0 DEF Bars, L
    <3>4. \A j \in Bars(p.weights) : x[k - j + 1] = y[k - j + 1]
      BY <1>3, <3>3 DEF Same
    <3>5. terms(x, k) = terms(y, k)
      BY <3>4
    <3> HIDE DEF terms
    <3> QED BY <3>2, <3>5 DEF diff
  <2> QED BY <2>1, <2>2
<1>9. Same(f, g, i)
  <2>1. \A k \in 1..i : k \in Bars(x) /\ k \in Bars(y)
    BY <1>3, SameFacts
  <2>2. \A k \in 1..i : f[k] = g[k]
    BY <1>5, <1>8, <2>1
  <2>3. OnBars(f, Len(x)) /\ OnBars(g, Len(y))
    BY <1>5 DEF OnBars, Bars
  <2> QED BY <1>3, <2>2, <2>3, BarsAreSame
<1>10. f[i] = g[i]
  BY <1>9, SameLast
<1>11. PICK m : m = MeanSkipNaN(f, p.zWindow)[i] /\ m = MeanSkipNaN(g, p.zWindow)[i]
  <2>1. Same(MeanSkipNaN(f, p.zWindow), MeanSkipNaN(g, p.zWindow), i)
    BY <1>1, <1>9, MeanSkipSame
  <2> QED BY <2>1, SameLast
<1>12. PICK d : d = RollingStd(f, p.zWindow)[i] /\ d = RollingStd(g, p.zWindow)[i]
  <2>1. Same(RollingStd(f, p.zWindow), RollingStd(g, p.zWindow), i)
    BY <1>1, <1>9, StdSame DEF Series
  <2> QED BY <2>1, SameLast
<1> QED BY <1>6, <1>7, <1>10, <1>11, <1>12

\* The sums after a bar, of the sums before it, its return and its volatility.
CusumNext(was, r, vol, sigmas) ==
    LET h    == (sigmas * vol) \div Permille
        up   == Larger(0, was.up + r)
        down == Smaller(0, was.down + r)
        blind == ~(Ok(r) /\ Ok(vol)) \/ vol = 0
    IN  IF blind THEN [was EXCEPT !.event = FALSE]
        ELSE [up |-> IF up > h THEN 0 ELSE up,
              down |-> IF up <= h /\ down < -h THEN 0 ELSE down,
              event |-> up > h]

\* Of the returns, the volatilities and the parameters.
CusumBody(e, f, k) ==
    IF k = 0 THEN [up |-> 0, down |-> 0, event |-> FALSE]
    ELSE CusumNext(f[k - 1], e[1][k], e[2][k], e[3].hSigmas)
Cusums == INSTANCE Recursion WITH Body <- CusumBody

LEMMA CusumIs ==
    ASSUME NEW u, Len(u) \in Nat, NEW p, NEW r, r = PercentReturns(u), NEW v, v = RollingVolatility(u, p.volWindow)
    PROVE  /\ CusumEvents(p, u) = { k \in Bars(u) : Cusums!Rec(<<r, v, p>>, 0, Len(u))[k].event }
           /\ Cusums!LooksBack(<<r, v, p>>, 0, Len(u))
<1>1. PICK f : f = Cusums!Rec(<<r, v, p>>, 0, Len(u))
  OBVIOUS
<1> DEFINE sums == CHOOSE state : state = [k \in 0..Len(u) |->
               IF k = 0 THEN [up |-> 0, down |-> 0, event |-> FALSE]
               ELSE CusumNext(state[k - 1], PercentReturns(u)[k], RollingVolatility(u, p.volWindow)[k], p.hSigmas)]
<1>2. CusumEvents(p, u) = { k \in Bars(u) : f[k].event }
  <2>1. CusumEvents(p, u) = { k \in Bars(u) : sums[k].event }
    BY ZenonT(40) DEF CusumEvents, CusumNext
  <2>2. f = sums
    BY SMTT(30), <1>1 DEF Cusums!Rec, Cusums!IsRec, CusumBody
  <2> HIDE DEF sums
  <2> QED BY <2>1, <2>2
<1>3. Cusums!LooksBack(<<r, v, p>>, 0, Len(u))
  <2> SUFFICES ASSUME NEW k \in 0..Len(u), NEW g, NEW h, Cusums!SameBelow(g, h, 0, k)
               PROVE  CusumBody(<<r, v, p>>, g, k) = CusumBody(<<r, v, p>>, h, k)
    BY DEF Cusums!LooksBack
  <2>1. CASE k = 0
    BY <2>1 DEF CusumBody
  <2>2. CASE k # 0
    <3>1. g[k - 1] = h[k - 1]
      BY <2>2 DEF Cusums!SameBelow
    <3> QED BY <2>2, <3>1 DEF CusumBody
  <2> QED BY <2>1, <2>2
<1> QED BY SMTT(30), <1>1, <1>2, <1>3

LEMMA CusumEventsSame ==
    ASSUME NEW v, NEW w, NEW n \in Nat \ {0}, Same(v, w, n), NEW p, Counts(p, {"volWindow"})
    PROVE  n \in CusumEvents(p, v) <=> n \in CusumEvents(p, w)
<1>0. n \in Int /\ Len(v) \in Nat /\ Len(w) \in Nat /\ n <= Len(v) /\ n <= Len(w) /\ p.volWindow \in Nat
  BY DEF Same, Counts
<1>1. PICK r, s : r = PercentReturns(v) /\ s = PercentReturns(w)
  OBVIOUS
<1>2. PICK x, y : x = RollingVolatility(v, p.volWindow) /\ y = RollingVolatility(w, p.volWindow)
  OBVIOUS
<1>3. \A k \in 1..n : r[k] = s[k] /\ x[k] = y[k]
  <2>1. Series(r, s, n) /\ Same(x, y, n)
    BY <1>0, <1>1, <1>2, ReturnsSame, VolatilitySame
  <2> QED BY <2>1 DEF Series, Same
<1>4. \A k \in 0..n : \A h : CusumBody(<<r, x, p>>, h, k) = CusumBody(<<s, y, p>>, h, k)
  <2> SUFFICES ASSUME NEW k \in 0..n, NEW h, k # 0
               PROVE  CusumBody(<<r, x, p>>, h, k) = CusumBody(<<s, y, p>>, h, k)
    BY ZenonT(40) DEF CusumBody
  <2>1. k \in 1..n
    BY <1>0
  <2>2. r[k] = s[k] /\ x[k] = y[k]
    BY <1>3, <2>1
  <2> QED BY <2>2 DEF CusumBody
<1>5. PICK f, g : f = Cusums!Rec(<<r, x, p>>, 0, Len(v)) /\ g = Cusums!Rec(<<s, y, p>>, 0, Len(w))
  OBVIOUS
<1>6. \A k \in 0..n : f[k] = g[k]
  <2>1. Cusums!LooksBack(<<r, x, p>>, 0, Len(v)) /\ Cusums!LooksBack(<<s, y, p>>, 0, Len(w))
    BY <1>0, <1>1, <1>2, CusumIs
  <2> QED BY SMTT(30), <1>0, <1>4, <1>5, <2>1, Cusums!Agree
<1>7. CusumEvents(p, v) = { k \in Bars(v) : f[k].event }
  BY <1>0, <1>1, <1>2, <1>5, CusumIs
<1>8. CusumEvents(p, w) = { k \in Bars(w) : g[k].event }
  BY <1>0, <1>1, <1>2, <1>5, CusumIs
<1>9. n \in Bars(v) /\ n \in Bars(w) /\ f[n] = g[n]
  BY <1>0, <1>6 DEF Bars
<1> QED BY <1>7, <1>8, <1>9

\* The entry of a position is a bar the rule has been asked about.
LEMMA CusumSame ==
    ASSUME NEW s, NEW t, NEW i \in Nat \ {0}, SameBars(s, t, i), NEW pos, pos.in => pos.index \in 1..i, NEW p,
           Counts(p, {"volWindow"})
    PROVE  CusumTripleBarrier(p, s, i, pos) = CusumTripleBarrier(p, t, i, pos)
<1>1. p.volWindow \in Nat /\ i \in 1..i /\ Same(s.close, t.close, i)
  BY SameStore DEF Counts
<1>2. s.close[i] = t.close[i] /\ Gain(s, i, pos) = Gain(t, i, pos)
  BY <1>1, SameBarAt DEF Gain
<1>3. CASE ~pos.in
  <2>1. PICK e : e = (i \in CusumEvents(p, s.close)) /\ e = (i \in CusumEvents(p, t.close))
    BY <1>1, CusumEventsSame
  <2> QED BY <1>3, <2>1 DEF CusumTripleBarrier
<1>4. CASE pos.in
  <2>1. PICK v : v = RollingVolatility(s.close, p.volWindow)[pos.index] /\ v = RollingVolatility(t.close, p.volWindow)[pos.index]
    <3>1. Same(RollingVolatility(s.close, p.volWindow), RollingVolatility(t.close, p.volWindow), i)
      BY <1>1, VolatilitySame
    <3> QED BY <1>4, <3>1 DEF Same
  <2>2. PICK gain : gain = Gain(s, i, pos) /\ gain = Gain(t, i, pos)
    BY <1>2
  <2> QED BY <1>4, <2>1, <2>2 DEF CusumTripleBarrier
<1> QED BY <1>3, <1>4

LEMMA LastFitIs ==
    ASSUME NEW i \in Int, NEW first \in Int, i >= first, NEW step \in Nat \ {0}
    PROVE  LastFit(i, first, step) \in first..i
<1>1. PICK x \in Nat : x = i - first
  OBVIOUS
<1>2. x % step \in 0..x
  <2>1. x % step \in Int /\ x % step >= 0 /\ x = step * (x \div step) + (x % step)
    OBVIOUS
  <2>2. x \div step \in Int /\ x \div step >= 0
    OBVIOUS
  <2>3. step * (x \div step) \in Int /\ step * (x \div step) >= 0
    BY <2>2
  <2> QED BY <2>1, <2>3
<1> QED BY <1>1, <1>2 DEF LastFit

LEMMA LpplsSame ==
    ASSUME NEW s, NEW t, NEW i \in Nat \ {0}, SameBars(s, t, i), NEW p,
           Counts(p, {"window", "refitEvery", "trendWindow"}), p.refitEvery > 0
    PROVE  LpplsBubble(p, s, i) = LpplsBubble(p, t, i)
<1>1. /\ p.window \in Nat /\ p.refitEvery \in Nat \ {0} /\ p.trendWindow \in Nat /\ i \in 1..i
      /\ Same(s.close, t.close, i)
  BY SameStore DEF Counts
<1>2. PICK x, y : x = LogOf(s.close) /\ y = LogOf(t.close)
  OBVIOUS
<1>3. Same(x, y, i)
  BY <1>1, <1>2, LogSame DEF Series
<1>4. PICK m : m = Sma(s.close, p.trendWindow)[i] /\ m = Sma(t.close, p.trendWindow)[i]
  BY <1>1, ShownAt
<1>5. s.close[i] = t.close[i]
  BY <1>1, SameBarAt
<1> DEFINE fit == LastFit(i, p.window + 1, p.refitEvery)
           conf(h) == IF i <= p.window THEN 0
                      ELSE IF ~OkOn(h, fit - p.window + 1, fit) THEN 0
                      ELSE Bubble(Window(h, fit, p.window))
           said(c, close) == IF ~Ok(m) THEN "Hold" ELSE Choice(c < p.confThreshold /\ close > m, TRUE)
<1>6. LpplsBubble(p, s, i) = said(conf(x), s.close[i])
  BY <1>2, <1>4 DEF LpplsBubble
<1>7. LpplsBubble(p, t, i) = said(conf(y), t.close[i])
  BY <1>2, <1>4 DEF LpplsBubble
<1>8. conf(x) = conf(y)
  <2>1. CASE i <= p.window
    BY <2>1
  <2>2. CASE ~(i <= p.window)
    <3>0. PICK first \in Int : first = p.window + 1 /\ i >= first
      BY <1>1, <2>2
    <3>1. fit \in (p.window + 1)..i
      <4>1. PICK step \in Nat \ {0} : step = p.refitEvery
        BY <1>1
      <4>2. i \in Int /\ i >= first
        BY <3>0
      <4>3. LastFit(i, first, step) \in first..i
        BY <4>2, LastFitIs
      <4> QED BY <3>0, <4>1, <4>3
    <3> HIDE DEF fit
    <3>2. \A k \in (fit - p.window + 1)..fit : k \in 1..i
      BY <1>1, <3>1
    <3>3. OkOn(x, fit - p.window + 1, fit) <=> OkOn(y, fit - p.window + 1, fit)
      BY <1>3, <3>2 DEF OkOn, Same
    <3>4. \A k \in 1..p.window : fit - p.window + k \in 1..i
      BY <1>1, <3>1
    <3>5. Window(x, fit, p.window) = Window(y, fit, p.window)
      BY <1>3, <3>4 DEF Window, Same
    <3> QED BY <3>3, <3>5
  <2> QED BY <2>1, <2>2
<1> HIDE DEF conf, said
<1> QED BY <1>5, <1>6, <1>7, <1>8

-----------------------------------------------------------------------------
(* A rule that reads by timestamp looks at no bar after its own as long as *)
(* time goes on from bar to bar.                                           *)

InOrder(s) ==
    \A j, k \in 1..Len(s.close) :
        s.timestamp[j] \in Int /\ (j < k => s.timestamp[j] < s.timestamp[k])

LEMMA HighestIs ==
    ASSUME NEW n \in Nat, NEW bars \in SUBSET (1..n), bars # {}
    PROVE  Highest(bars) \in bars /\ \A k \in bars : k <= Highest(bars)
<1> DEFINE R == OpToRel(<, Nat)
           ages == {n - k : k \in bars}
<1>1. IsWellFoundedOn(R, Nat)
  BY NatLessThanWellFounded
<1>2. \A s, t \in Nat : s < t => <<s, t>> \in R
  BY DEF OpToRel
<1>3. ages \in SUBSET Nat /\ ages # {}
  <2>1. \A k \in bars : k \in 1..n /\ n - k \in Nat
    OBVIOUS
  <2> QED BY <2>1
<1> HIDE DEF R
<1>4. PICK a \in ages : \A t \in Nat : <<t, a>> \in R => t \notin ages
  BY <1>1, <1>3, WFMin
<1>5. PICK b \in bars : a = n - b
  BY <1>4
<1>6. \A k \in bars : k <= b
  <2> SUFFICES ASSUME NEW k \in bars, ~(k <= b) PROVE FALSE
    OBVIOUS
  <2>1. n - k \in Nat /\ n - b \in Nat /\ n - k < n - b /\ n - k \in ages
    OBVIOUS
  <2> QED BY <1>2, <1>4, <1>5, <2>1
<1> QED BY <1>6 DEF Highest

LEMMA AlignedSame ==
    ASSUME NEW s, NEW t, NEW i \in Nat \ {0}, SameBars(s, t, i), InOrder(s), InOrder(t), NEW lag \in Nat
    PROVE  /\ Aligned(s, s, lag, i) = Aligned(t, t, lag, i)
           /\ Aligned(s, s, lag, i) \in 0..i
<1>1. /\ Len(s.timestamp) = Len(s.close) /\ Len(t.timestamp) = Len(t.close)
      /\ Len(s.close) \in Nat /\ Len(t.close) \in Nat /\ i <= Len(s.close) /\ i <= Len(t.close)
  BY SameStore
<1>2. \A k \in 1..i : s.timestamp[k] = t.timestamp[k]
  BY SameBarAt
<1> DEFINE early(u) == { k \in Bars(u.timestamp) : u.timestamp[k] <= u.timestamp[i] - lag }
<1>3. PICK known : known = { k \in 1..i : s.timestamp[k] <= s.timestamp[i] - lag }
  OBVIOUS
<1>4. ASSUME NEW u \in {s, t}, InOrder(u), Len(u.timestamp) = Len(u.close), Len(u.close) \in Nat, i <= Len(u.close)
      PROVE  early(u) = { k \in 1..i : u.timestamp[k] <= u.timestamp[i] - lag }
  <2>1. \A k \in 1..Len(u.close) : u.timestamp[k] <= u.timestamp[i] - lag => k <= i
    <3> SUFFICES ASSUME NEW k \in 1..Len(u.close), u.timestamp[k] <= u.timestamp[i] - lag, i < k PROVE FALSE
      OBVIOUS
    <3>1. i \in 1..Len(u.close)
      BY <1>4
    <3>2. u.timestamp[i] < u.timestamp[k] /\ u.timestamp[i] \in Int /\ u.timestamp[k] \in Int
      BY <1>4, <3>1 DEF InOrder
    <3> QED BY <3>2
  <2>2. Bars(u.timestamp) = 1..Len(u.close)
    BY <1>4 DEF Bars
  <2>3. \A k : k \in 1..Len(u.close) /\ k <= i <=> k \in 1..i
    BY <1>4
  <2> QED BY <2>1, <2>2, <2>3
<1>5. early(s) = known
  BY <1>1, <1>3, <1>4
<1>6. early(t) = known
  <2>1. i \in 1..i
    OBVIOUS
  <2>2. early(t) = { k \in 1..i : t.timestamp[k] <= t.timestamp[i] - lag }
    BY <1>1, <1>4
  <2> QED BY <1>2, <1>3, <2>1, <2>2
<1>7. /\ Aligned(s, s, lag, i) = IF early(s) = {} THEN 0 ELSE Highest(early(s))
      /\ Aligned(t, t, lag, i) = IF early(t) = {} THEN 0 ELSE Highest(early(t))
  BY DEF Aligned
<1> HIDE DEF early
<1>8. known \in SUBSET (1..i)
  BY <1>3
<1>9. known # {} => Highest(known) \in known
  BY <1>8, HighestIs
<1>10. PICK a : a = IF known = {} THEN 0 ELSE Highest(known)
  OBVIOUS
<1>11. a \in 0..i
  BY <1>8, <1>9, <1>10
<1>12. Aligned(s, s, lag, i) = a /\ Aligned(t, t, lag, i) = a
  BY <1>5, <1>6, <1>7, <1>10
<1> QED BY <1>11, <1>12

LEMMA TrendZSame ==
    ASSUME NEW v, NEW w, NEW n, Same(v, w, n), NEW p, Counts(p, {"lookback", "volWindow"})
    PROVE  Series(TrendZ(p, v), TrendZ(p, w), n)
<1>1. p.lookback \in Nat /\ p.volWindow \in Nat
  BY DEF Counts
<1>2. \A i \in 1..n : i \in Bars(v) /\ i \in Bars(w)
  BY SameFacts
<1>3. PICK r, q : r = TrailingReturn(v, p.lookback) /\ q = TrailingReturn(w, p.lookback)
  OBVIOUS
<1>4. PICK x, y : x = RollingVolatility(v, p.volWindow) /\ y = RollingVolatility(w, p.volWindow)
  OBVIOUS
<1>5. \A i \in 1..n : r[i] = q[i]
  <2>1. Series(r, q, n)
    BY <1>1, <1>3, TrailingSame
  <2> QED BY <2>1 DEF Series, Same
<1>6. \A i \in 1..n : x[i] = y[i]
  <2>1. Same(x, y, n)
    BY <1>1, <1>4, VolatilitySame
  <2> QED BY <2>1 DEF Same
<1>7. \A i \in 1..n : TrendZ(p, v)[i] = TrendZ(p, w)[i]
  BY <1>2, <1>3, <1>4, <1>5, <1>6 DEF TrendZ
<1>8. OnBars(TrendZ(p, v), Len(v)) /\ OnBars(TrendZ(p, w), Len(w))
  BY DEF OnBars, TrendZ, Bars
<1> QED BY <1>7, <1>8, SeriesFrom

LEMMA FactorTrendSame ==
    ASSUME NEW s, NEW t, NEW i \in Nat \ {0}, SameBars(s, t, i), InOrder(s), InOrder(t), NEW p,
           Counts(p, {"lookback", "volWindow", "refLagBars"})
    PROVE  FactorTrend(p, s, s, i) = FactorTrend(p, t, t, i)
<1>0. p.refLagBars \in Nat /\ Counts(p, {"lookback", "volWindow"})
  BY DEF Counts
<1>1. Same(s.close, t.close, i) /\ i \in 1..i
  BY SameStore
<1>2. \A k \in 1..i : TrendZ(p, s.close)[k] = TrendZ(p, t.close)[k]
  <2>1. Series(TrendZ(p, s.close), TrendZ(p, t.close), i)
    BY <1>0, <1>1, TrendZSame
  <2> QED BY <2>1 DEF Series, Same
<1>3. PICK own : own = TrendZ(p, s.close)[i] /\ own = TrendZ(p, t.close)[i]
  BY <1>1, <1>2
<1>4. PICK z : z = FactorZ(p, s, s, i) /\ z = FactorZ(p, t, t, i)
  <2>1. PICK k \in 0..i : k = Aligned(s, s, p.refLagBars, i) /\ k = Aligned(t, t, p.refLagBars, i)
    BY <1>0, AlignedSame
  <2>2. k # 0 => k \in 1..i
    OBVIOUS
  <2> QED BY <1>2, <2>1, <2>2 DEF FactorZ
<1> QED BY <1>3, <1>4 DEF FactorTrend

-----------------------------------------------------------------------------
(* Votes.  A member is replayed with a position of its own.                *)

MemberBody(e, f, k) ==
    IF k = 0 THEN Flat
    ELSE LET pos == Observed(f[k - 1], e[3].close[k])
         IN  Filled(pos, Member(e[1], e[2], e[3], k, pos), e[3].close[k], k)
Replays == INSTANCE Recursion WITH Body <- MemberBody

LEMMA ReplayedIs ==
    ASSUME NEW m, NEW p, NEW s, Len(s.close) \in Nat
    PROVE  /\ Replayed(m, p, s) = [k \in Bars(s.close) |-> Replays!Rec(<<m, p, s>>, 0, Len(s.close))[k]]
           /\ Replays!LooksBack(<<m, p, s>>, 0, Len(s.close))
<1>1. PICK r : r = Replays!Rec(<<m, p, s>>, 0, Len(s.close))
  OBVIOUS
<1>2. Replayed(m, p, s) = [k \in Bars(s.close) |-> r[k]]
  BY <1>1 DEF Replayed, Replays!Rec, Replays!IsRec, MemberBody
<1>3. Replays!LooksBack(<<m, p, s>>, 0, Len(s.close))
  <2> SUFFICES ASSUME NEW k \in 0..Len(s.close), NEW g, NEW h, Replays!SameBelow(g, h, 0, k)
               PROVE  MemberBody(<<m, p, s>>, g, k) = MemberBody(<<m, p, s>>, h, k)
    BY DEF Replays!LooksBack
  <2>1. CASE k = 0
    BY <2>1 DEF MemberBody
  <2>2. CASE k # 0
    <3>1. g[k - 1] = h[k - 1]
      BY <2>2 DEF Replays!SameBelow
    <3> QED BY <2>2, <3>1 DEF MemberBody
  <2> QED BY <2>1, <2>2
<1> QED BY <1>1, <1>2, <1>3

LEMMA MemberSame ==
    ASSUME NEW s, NEW t, NEW i \in Nat \ {0}, SameBars(s, t, i), NEW pos, NEW p, MembersCount(p), NEW m \in Members
    PROVE  Member(m, p, s, i, pos) = Member(m, p, t, i, pos)
<1>0. /\ Counts(p.tsmom, {"lookback", "volWindow"}) /\ Counts(p.faber, {"window"})
      /\ Counts(p.donchian, {"entryWindow", "exitWindow", "atrWindow"})
  BY DEF MembersCount
<1>1. PICK a : a = Tsmom(p.tsmom, s, i) /\ a = Tsmom(p.tsmom, t, i)
  BY <1>0, TsmomSame
<1>2. PICK b : b = FaberMa(p.faber, s, i) /\ b = FaberMa(p.faber, t, i)
  BY <1>0, FaberSame
<1>3. PICK c : c = Donchian(p.donchian, s, i, pos) /\ c = Donchian(p.donchian, t, i, pos)
  BY <1>0, DonchianSame
<1> QED BY <1>1, <1>2, <1>3 DEF Member, Members

LEMMA WantsLongSame ==
    ASSUME NEW s, NEW t, NEW i \in Nat \ {0}, SameBars(s, t, i), NEW p, MembersCount(p), NEW m \in Members
    PROVE  i \in WantsLong(m, p, s) <=> i \in WantsLong(m, p, t)
<1>1. /\ Len(s.close) \in Nat /\ Len(t.close) \in Nat /\ i <= Len(s.close) /\ i <= Len(t.close)
      /\ i \in Bars(s.close) /\ i \in Bars(t.close) /\ i \in Int
  BY SameStore DEF Bars
<1>2. \A k \in 0..i : \A h : MemberBody(<<m, p, s>>, h, k) = MemberBody(<<m, p, t>>, h, k)
  <2> SUFFICES ASSUME NEW k \in 0..i, NEW h PROVE MemberBody(<<m, p, s>>, h, k) = MemberBody(<<m, p, t>>, h, k)
    OBVIOUS
  <2>1. CASE k = 0
    BY <2>1 DEF MemberBody
  <2>2. CASE k # 0
    <3>1. k \in Nat \ {0} /\ k \in 1..i
      BY <2>2
    <3>2. SameBars(s, t, k)
      BY SameEarlier
    <3>3. PICK c : c = s.close[k] /\ c = t.close[k]
      BY <3>1, SameBarAt
    <3>4. PICK said : /\ said = Member(m, p, s, k, Observed(h[k - 1], c))
                      /\ said = Member(m, p, t, k, Observed(h[k - 1], c))
      BY <3>1, <3>2, MemberSame
    <3> QED BY <2>2, <3>3, <3>4 DEF MemberBody
  <2> QED BY <2>1, <2>2
<1>3. PICK f, g : f = Replays!Rec(<<m, p, s>>, 0, Len(s.close)) /\ g = Replays!Rec(<<m, p, t>>, 0, Len(t.close))
  OBVIOUS
<1>4. f[i] = g[i]
  <2>1. Replays!LooksBack(<<m, p, s>>, 0, Len(s.close)) /\ Replays!LooksBack(<<m, p, t>>, 0, Len(t.close))
    BY <1>1, ReplayedIs
  <2>2. \A k \in 0..i : f[k] = g[k]
    BY SMTT(30), <1>1, <1>2, <1>3, <2>1, Replays!Agree
  <2> QED BY <2>2
<1>5. Replayed(m, p, s)[i] = f[i]
  BY <1>1, <1>3, ReplayedIs
<1>6. Replayed(m, p, t)[i] = g[i]
  BY <1>1, <1>3, ReplayedIs
<1> QED BY <1>1, <1>4, <1>5, <1>6 DEF WantsLong

LEMMA VotesSame ==
    ASSUME NEW s, NEW t, NEW i \in Nat \ {0}, SameBars(s, t, i), NEW p, MembersCount(p)
    PROVE  Votes(p, s, i) = Votes(p, t, i)
<1>1. \A m \in Members : i \in WantsLong(m, p, s) <=> i \in WantsLong(m, p, t)
  BY WantsLongSame
<1> QED BY <1>1 DEF Votes

LEMMA EnsembleSame ==
    ASSUME NEW s, NEW t, NEW i \in Nat \ {0}, SameBars(s, t, i), NEW pos, NEW p, MembersCount(p)
    PROVE  /\ EnsembleVote(p, s, i, pos) = EnsembleVote(p, t, i, pos)
           /\ EnsembleRule(p, s, i, pos) = EnsembleRule(p, t, i, pos)
           /\ EnsembleAsym(p, s, i, pos) = EnsembleAsym(p, t, i, pos)
<1>1. PICK v : v = Votes(p, s, i) /\ v = Votes(p, t, i)
  BY VotesSame
<1>2. PICK gain : gain = Gain(s, i, pos) /\ gain = Gain(t, i, pos)
  <2>1. i \in 1..i /\ s.close[i] = t.close[i]
    BY SameBarAt
  <2> QED BY <2>1 DEF Gain
<1>3. EnsembleVote(p, s, i, pos) = EnsembleVote(p, t, i, pos)
  BY <1>1 DEF EnsembleVote
<1>4. EnsembleRule(p, s, i, pos) = EnsembleRule(p, t, i, pos)
  BY <1>1 DEF EnsembleRule
<1>5. EnsembleAsym(p, s, i, pos) = EnsembleAsym(p, t, i, pos)
  BY <1>1, <1>2 DEF EnsembleAsym
<1> QED BY <1>3, <1>4, <1>5

LEMMA EnsembleTunedSame ==
    ASSUME NEW s, NEW t, NEW i \in Nat \ {0}, SameBars(s, t, i), NEW pos, NEW p, TunedCounts(p)
    PROVE  EnsembleTuned(p, s, i, pos) = EnsembleTuned(p, t, i, pos)
<1>1. PICK q : /\ q = [enterVotes |-> p.enterVotes, exitVotes |-> p.exitVotes,
                       tsmom    |-> [p.tsmom EXCEPT !.lookback = p.tsLookback, !.threshold = p.tsThreshold],
                       faber    |-> [p.faber EXCEPT !.window = p.faberWindow],
                       donchian |-> [p.donchian EXCEPT !.entryWindow = p.donEntry, !.exitWindow = p.donExit,
                                                       !.atrStopMult = p.donAtrMult]]
               /\ MembersCount(q)
  BY DEF TunedCounts
<1>2. EnsembleVote(q, s, i, pos) = EnsembleVote(q, t, i, pos)
  BY <1>1, EnsembleSame
<1> QED BY <1>1, <1>2 DEF EnsembleTuned

\* The reciprocals of the same bars are the same bars.
LEMMA ReciprocalSame ==
    ASSUME NEW s, NEW t, NEW i, SameBars(s, t, i)
    PROVE  SameBars(Reciprocal(s), Reciprocal(t), i)
<1> DEFINE over(v) == [k \in Bars(v) |-> IF v[k] > 0 THEN 1000000 \div v[k] ELSE 0]
<1>1. ASSUME NEW v, NEW w, Same(v, w, i) PROVE Same(over(v), over(w), i)
  <2>1. \A k \in 1..i : k \in Bars(v) /\ k \in Bars(w) /\ v[k] = w[k]
    BY <1>1, SameFacts
  <2>2. \A k \in 1..i : over(v)[k] = over(w)[k]
    BY <2>1
  <2>3. OnBars(over(v), Len(v)) /\ OnBars(over(w), Len(w))
    BY DEF OnBars, Bars
  <2> HIDE DEF over
  <2> QED BY <1>1, <2>2, <2>3, BarsAreSame
<1>2. ASSUME NEW v, Len(v) \in Nat PROVE Len(over(v)) = Len(v)
  <2>1. OnBars(over(v), Len(v))
    BY DEF OnBars, Bars
  <2> HIDE DEF over
  <2> QED BY <1>2, <2>1, SeriesIs
<1>3. Same(s.open, t.open, i) /\ Same(s.high, t.high, i) /\ Same(s.low, t.low, i) /\ Same(s.close, t.close, i)
      /\ Same(s.volume, t.volume, i) /\ Same(s.timestamp, t.timestamp, i)
  BY SameStore
<1>4. ASSUME NEW u, u = [c \in Columns |-> u[c]]
      PROVE  /\ Reciprocal(u) = [c \in Columns |-> Reciprocal(u)[c]]
             /\ Reciprocal(u)["open"] = over(u.open) /\ Reciprocal(u)["high"] = over(u.low)
             /\ Reciprocal(u)["low"] = over(u.high) /\ Reciprocal(u)["close"] = over(u.close)
             /\ Reciprocal(u)["volume"] = u.volume /\ Reciprocal(u)["timestamp"] = u.timestamp
  <2> DEFINE o == over(u.open)
             h == over(u.low)
             l == over(u.high)
             c == over(u.close)
  <2>1. Reciprocal(u) = [u EXCEPT !.open = o, !.high = h, !.low = l, !.close = c]
    BY DEF Reciprocal
  <2> HIDE DEF o, h, l, c
  <2>2. DOMAIN u = Columns
    BY <1>4
  <2>3. /\ Reciprocal(u) = [x \in Columns |-> Reciprocal(u)[x]]
        /\ Reciprocal(u)["open"] = o /\ Reciprocal(u)["high"] = h
        /\ Reciprocal(u)["low"] = l /\ Reciprocal(u)["close"] = c
        /\ Reciprocal(u)["volume"] = u.volume /\ Reciprocal(u)["timestamp"] = u.timestamp
    BY <2>1, <2>2 DEF Columns
  <2> QED BY <2>3 DEF o, h, l, c
<1>5. s = [c \in Columns |-> s[c]] /\ t = [c \in Columns |-> t[c]]
  BY DEF SameBars
<1> HIDE DEF over
<1>6. PICK x, y : x = Reciprocal(s) /\ y = Reciprocal(t)
  OBVIOUS
<1>7. /\ x = [c \in Columns |-> x[c]] /\ y = [c \in Columns |-> y[c]]
      /\ x["open"] = over(s.open) /\ x["high"] = over(s.low) /\ x["low"] = over(s.high)
      /\ x["close"] = over(s.close) /\ x["volume"] = s.volume /\ x["timestamp"] = s.timestamp
      /\ y["open"] = over(t.open) /\ y["high"] = over(t.low) /\ y["low"] = over(t.high)
      /\ y["close"] = over(t.close) /\ y["volume"] = t.volume /\ y["timestamp"] = t.timestamp
  BY <1>4, <1>5, <1>6
<1>8. /\ Same(x["open"], y["open"], i) /\ Same(x["high"], y["high"], i) /\ Same(x["low"], y["low"], i)
      /\ Same(x["close"], y["close"], i) /\ Same(x["volume"], y["volume"], i)
      /\ Same(x["timestamp"], y["timestamp"], i)
  BY <1>1, <1>3, <1>7
<1>9. /\ Len(s.close) \in Nat /\ Len(t.close) \in Nat
      /\ Len(s.open) = Len(s.close) /\ Len(s.high) = Len(s.close) /\ Len(s.low) = Len(s.close)
      /\ Len(s.volume) = Len(s.close) /\ Len(s.timestamp) = Len(s.close)
      /\ Len(t.open) = Len(t.close) /\ Len(t.high) = Len(t.close) /\ Len(t.low) = Len(t.close)
      /\ Len(t.volume) = Len(t.close) /\ Len(t.timestamp) = Len(t.close)
  BY SameStore
<1>10. /\ Len(x["open"]) = Len(s.close) /\ Len(x["high"]) = Len(s.close) /\ Len(x["low"]) = Len(s.close)
       /\ Len(x["close"]) = Len(s.close) /\ Len(x["volume"]) = Len(s.close) /\ Len(x["timestamp"]) = Len(s.close)
  BY <1>2, <1>7, <1>9
<1>11. /\ Len(y["open"]) = Len(t.close) /\ Len(y["high"]) = Len(t.close) /\ Len(y["low"]) = Len(t.close)
       /\ Len(y["close"]) = Len(t.close) /\ Len(y["volume"]) = Len(t.close) /\ Len(y["timestamp"]) = Len(t.close)
  BY <1>2, <1>7, <1>9
<1>12. x.close = x["close"] /\ y.close = y["close"]
  OBVIOUS
<1>13. \A c \in Columns : Same(x[c], y[c], i) /\ Len(x[c]) = Len(x.close) /\ Len(y[c]) = Len(y.close)
  BY <1>8, <1>10, <1>11, <1>12 DEF Columns
<1>14. SameBars(x, y, i)
  BY <1>7, <1>13 DEF SameBars
<1> QED BY <1>6, <1>14

LEMMA EnsembleLongShortSame ==
    ASSUME NEW s, NEW t, NEW i \in Nat \ {0}, SameBars(s, t, i), NEW p, MembersCount(p)
    PROVE  EnsembleLongShort(p, s, i) = EnsembleLongShort(p, t, i)
<1>1. PICK v : v = Votes(p, s, i) /\ v = Votes(p, t, i)
  BY VotesSame
<1>2. PICK w : w = Votes(p, Reciprocal(s), i) /\ w = Votes(p, Reciprocal(t), i)
  BY ReciprocalSame, VotesSame
<1> QED BY <1>1, <1>2 DEF EnsembleLongShort

-----------------------------------------------------------------------------
(* Rules a search has written.                                             *)

LEMMA FeatureSame ==
    ASSUME NEW s, NEW t, NEW i \in Nat \ {0}, SameBars(s, t, i), NEW p, EmergentCounts(p), NEW name \in FeatureNames
    PROVE  Feature(p, s, i, name) = Feature(p, t, i, name)
<1>1. /\ p.w \in Nat /\ p.fast \in Nat /\ p.slow \in Nat /\ p.tenkan \in Nat /\ p.kijun \in Nat
      /\ Counts(p, {"window"}) /\ AllCounts(p.chunks, 1)
  BY DEF EmergentCounts, Counts
<1>2. Same(s.close, t.close, i)
  BY SameStore
<1>3. s.close[i] = t.close[i]
  <2>1. i \in 1..i
    OBVIOUS
  <2> QED BY <2>1, SameBarAt
<1>4. PICK x, y : /\ x = Ichimoku(s, p.tenkan, p.kijun, p.kijun, p.kijun)
                  /\ y = Ichimoku(t, p.tenkan, p.kijun, p.kijun, p.kijun)
  OBVIOUS
<1>5. x.tenkan[i] = y.tenkan[i] /\ x.kijun[i] = y.kijun[i]
  <2>1. SameCloud(x, y, i)
    BY <1>1, <1>4, CloudAt
  <2> QED BY <2>1 DEF SameCloud
<1>6. PICK d, e : d = Dmi(s, p.w) /\ e = Dmi(t, p.w)
  OBVIOUS
<1>7. d.adx[i] = e.adx[i] /\ d.plusDI[i] = e.plusDI[i] /\ d.minusDI[i] = e.minusDI[i]
  <2>1. Same(d.adx, e.adx, i) /\ Same(d.plusDI, e.plusDI, i) /\ Same(d.minusDI, e.minusDI, i)
    BY <1>1, <1>6, DmiSame
  <2> QED BY <2>1, SameLast
<1>8. PICK b : b = Bollinger(s.close, p.slow, 2)[i] /\ b = Bollinger(t.close, p.slow, 2)[i]
  <2>1. Series(Bollinger(s.close, p.slow, 2), Bollinger(t.close, p.slow, 2), i)
    BY <1>1, <1>2, BollingerSame
  <2>2. Same(Bollinger(s.close, p.slow, 2), Bollinger(t.close, p.slow, 2), i)
    BY <2>1 DEF Series
  <2> QED BY <2>2, SameLast
<1>9. PICK h : h = HurstExponent(p, s.close, i) /\ h = HurstExponent(p, t.close, i)
  BY <1>1, <1>2, HurstExponentSame
<1>10. PICK r : r = Rsi(s.close, p.w)[i] /\ r = Rsi(t.close, p.w)[i]
  BY <1>1, ShownAt
<1>11. PICK a : a = Atr(s, p.w)[i] /\ a = Atr(t, p.w)[i]
  BY <1>1, ShownAt
<1>12. PICK m : m = Sma(s.close, p.slow)[i] /\ m = Sma(t.close, p.slow)[i]
  BY <1>1, ShownAt
<1>13. PICK n : n = Sma(s.close, p.fast)[i] /\ n = Sma(t.close, p.fast)[i]
  BY <1>1, ShownAt
<1>14. PICK v : v = Ema(s.close, p.slow)[i] /\ v = Ema(t.close, p.slow)[i]
  BY SMTT(30), <1>1, ShownAt
<1>15. PICK w : w = Ema(s.close, p.fast)[i] /\ w = Ema(t.close, p.fast)[i]
  BY <1>1, ShownAt
<1>16. CASE name \in {"rsi", "hurst", "adx", "plusDI", "minusDI"}
  BY <1>6, <1>7, <1>9, <1>10, <1>16 DEF Feature
<1>17. CASE name \in {"close/sma", "sma/sma", "close/ema", "ema/ema"}
  BY <1>3, <1>12, <1>13, <1>14, <1>15, <1>17 DEF Feature
<1>18. CASE name \in {"close/tenkan", "close/kijun"}
  BY <1>3, <1>4, <1>5, <1>18 DEF Feature
<1>19. CASE name \in {"atr/close", "%B"}
  BY <1>3, <1>8, <1>11, <1>19 DEF Feature
<1> QED BY <1>16, <1>17, <1>18, <1>19 DEF FeatureNames

LEMMA EmergentSame ==
    ASSUME NEW s, NEW t, NEW i \in Nat \ {0}, SameBars(s, t, i), NEW p, EmergentCounts(p)
    PROVE  Emergent(p, s, i) = Emergent(p, t, i)
<1> DEFINE fired(u) == [k \in Bars(p.rules) |-> IF Fires(p, u, i, p.rules[k]) THEN p.rules[k].weight ELSE 0]
<1>1. ASSUME NEW k \in Bars(p.rules)
      PROVE  Fires(p, s, i, p.rules[k]) <=> Fires(p, t, i, p.rules[k])
  <2>1. PICK r : /\ r = p.rules[k] /\ r.a \in FeatureNames
                 /\ ~r.useConstant => r.b \in FeatureNames
    BY DEF EmergentCounts
  <2>2. PICK a : a = Feature(p, s, i, r.a) /\ a = Feature(p, t, i, r.a)
    BY <2>1, FeatureSame
  <2>3. CASE r.useConstant
    BY <2>1, <2>2, <2>3 DEF Fires
  <2>4. CASE ~r.useConstant
    <3>1. PICK b : b = Feature(p, s, i, r.b) /\ b = Feature(p, t, i, r.b)
      BY <2>1, <2>4, FeatureSame
    <3> QED BY <2>1, <2>2, <2>4, <3>1 DEF Fires
  <2> QED BY <2>3, <2>4
<1>2. fired(s) = fired(t)
  BY <1>1
<1>3. /\ Emergent(p, s, i) = LET score == SumOver(fired(s), 1, Len(p.rules))
                             IN  Choice(score >= p.buyThreshold, score <= p.sellThreshold)
      /\ Emergent(p, t, i) = LET score == SumOver(fired(t), 1, Len(p.rules))
                             IN  Choice(score >= p.buyThreshold, score <= p.sellThreshold)
  BY DEF Emergent
<1> HIDE DEF fired
<1> QED BY <1>2, <1>3

LEMMA ZScoreSame ==
    ASSUME NEW s, NEW t, NEW i \in Nat \ {0}, SameBars(s, t, i), NEW w \in Nat, NEW n \in Nat
    PROVE  ZScore(s.close, w, n, i) = ZScore(t.close, w, n, i)
<1>1. PICK r : r = TrailingReturn(s.close, w)[i] /\ r = TrailingReturn(t.close, w)[i]
  BY ShownAt
<1>2. PICK v : v = RollingVolatility(s.close, n)[i] /\ v = RollingVolatility(t.close, n)[i]
  BY ShownAt
<1> QED BY <1>1, <1>2 DEF ZScore

LEMMA HeldMemoryOrderSame ==
    ASSUME NEW v, NEW u, NEW i \in Nat \ {0}, Same(v, u, i), NEW w \in Nat, NEW stride \in Nat \ {0}
    PROVE  HeldMemoryOrder(v, w, stride, i) = HeldMemoryOrder(u, w, stride, i)
<1>1. PICK x, y : x = LogOf(v) /\ y = LogOf(u)
  OBVIOUS
<1>2. Same(x, y, i)
  BY <1>1, LogSame DEF Series
<1>3. CASE i <= w
  BY <1>3 DEF HeldMemoryOrder
<1>4. CASE ~(i <= w)
  <2>1. PICK first \in Int : first = w + 1 /\ i >= first /\ i \in Int /\ first >= 1
    BY <1>4
  <2>2. PICK fit : fit = LastFit(i, first, stride) /\ fit \in first..i
    BY <2>1, LastFitIs
  <2>3. \A k \in 1..(w + 1) : fit - (w + 1) + k \in 1..i
    BY <2>1, <2>2
  <2>4. Window(x, fit, w + 1) = Window(y, fit, w + 1)
    BY <1>2, <2>3 DEF Window, Same
  <2> QED BY <1>1, <1>4, <2>1, <2>2, <2>4 DEF HeldMemoryOrder
<1> QED BY <1>3, <1>4

LEMMA LeafValueSame ==
    ASSUME NEW s, NEW t, NEW i \in Nat \ {0}, SameBars(s, t, i), InOrder(s), InOrder(t),
           NEW l, LeafCounts(l), l.type # "atr_trailing_stop"
    PROVE  LeafValue(l, s, s, i) = LeafValue(l, t, t, i)
<1>1. /\ l.window \in Nat /\ l.volWindow \in Nat /\ l.rankWindow \in Nat /\ l.stride \in Nat \ {0}
      /\ l.type \in LeafTypes
  BY DEF LeafCounts, Counts
<1>2. s.close[i] = t.close[i] /\ s.open[i] = t.open[i] /\ s.timestamp[i] = t.timestamp[i]
  <2>1. i \in 1..i
    OBVIOUS
  <2> QED BY <2>1, SameBarAt
<1>3. CASE l.type \in {"close_sma", "close_ema", "return", "rsi"}
  <2>1. PICK m : m = Sma(s.close, l.window)[i] /\ m = Sma(t.close, l.window)[i]
    BY <1>1, ShownAt
  <2>2. PICK e : e = Ema(s.close, l.window)[i] /\ e = Ema(t.close, l.window)[i]
    BY <1>1, ShownAt
  <2>3. PICK r : r = TrailingReturn(s.close, l.window)[i] /\ r = TrailingReturn(t.close, l.window)[i]
    BY <1>1, ShownAt
  <2>4. PICK q : q = Rsi(s.close, l.window)[i] /\ q = Rsi(t.close, l.window)[i]
    BY <1>1, ShownAt
  <2> QED BY <1>2, <1>3, <2>1, <2>2, <2>3, <2>4 DEF LeafValue
<1>4. CASE l.type \in {"breakout", "breakdown", "relative_volume"}
  <2>1. PICK m : m = RollingMaxExclusive(s.high, l.window)[i] /\ m = RollingMaxExclusive(t.high, l.window)[i]
    BY <1>1, ShownAt
  <2>2. PICK e : e = RollingMinExclusive(s.low, l.window)[i] /\ e = RollingMinExclusive(t.low, l.window)[i]
    BY <1>1, ShownAt
  <2>3. PICK r : r = RelativeVolume(s.volume, l.window)[i] /\ r = RelativeVolume(t.volume, l.window)[i]
    BY <1>1, ShownAt
  <2> QED BY <1>2, <1>4, <2>1, <2>2, <2>3 DEF LeafValue
<1>5. CASE l.type \in {"zscore", "market_zscore"}
  <2>1. PICK z : z = ZScore(s.close, l.window, l.volWindow, i) /\ z = ZScore(t.close, l.window, l.volWindow, i)
    BY <1>1, ZScoreSame
  <2>2. PICK k \in 0..i : k = Aligned(s, s, 1, i) /\ k = Aligned(t, t, 1, i)
    BY AlignedSame
  <2>3. CASE k = 0
    BY <1>5, <2>1, <2>2, <2>3 DEF LeafValue
  <2>4. CASE k # 0
    <3>1. k \in Nat \ {0} /\ SameBars(s, t, k)
      BY <2>4, SameEarlier
    <3>2. PICK m : m = ZScore(s.close, l.window, l.volWindow, k) /\ m = ZScore(t.close, l.window, l.volWindow, k)
      BY <1>1, <3>1, ZScoreSame
    <3> QED BY <1>5, <2>1, <2>2, <3>2 DEF LeafValue
  <2> QED BY <2>3, <2>4
<1>6. CASE l.type \in {"vol_rank", "memory_order"}
  <2>1. Same(s.close, t.close, i)
    BY SameStore
  <2>2. PICK a, b : a = RollingVolatility(s.close, l.window) /\ b = RollingVolatility(t.close, l.window)
    OBVIOUS
  <2>3. Same(a, b, i)
    BY <1>1, <2>1, <2>2, VolatilitySame
  <2>4. PICK r : r = PercentileRank(a, l.rankWindow)[i] /\ r = PercentileRank(b, l.rankWindow)[i]
    <3>1. Same(PercentileRank(a, l.rankWindow), PercentileRank(b, l.rankWindow), i)
      BY <1>1, <2>3, RankSame
    <3> QED BY <3>1, SameLast
  <2>5. PICK m : /\ m = HeldMemoryOrder(s.close, l.window, l.stride, i)
                 /\ m = HeldMemoryOrder(t.close, l.window, l.stride, i)
    BY <1>1, <2>1, HeldMemoryOrderSame
  <2> QED BY <1>6, <2>2, <2>4, <2>5 DEF LeafValue
<1>7. CASE l.type \in {"candle", "weekday"}
  BY <1>2, <1>7 DEF LeafValue
<1> QED BY <1>1, <1>3, <1>4, <1>5, <1>6, <1>7 DEF LeafTypes

LEMMA LeafSame ==
    ASSUME NEW s, NEW t, NEW i \in Nat \ {0}, SameBars(s, t, i), InOrder(s), InOrder(t), NEW pos,
           NEW l, LeafCounts(l)
    PROVE  Leaf(l, s, s, i, pos) = Leaf(l, t, t, i, pos)
<1>1. CASE l.type = "atr_trailing_stop"
  <2>1. l.window \in Nat
    BY DEF LeafCounts, Counts
  <2>2. PICK a : a = Atr(s, l.window)[i] /\ a = Atr(t, l.window)[i]
    BY <2>1, ShownAt
  <2>3. i \in 1..i /\ s.close[i] = t.close[i]
    BY SameBarAt
  <2> QED BY <1>1, <2>2, <2>3 DEF Leaf
<1>2. CASE l.type # "atr_trailing_stop"
  <2>1. PICK v : v = LeafValue(l, s, s, i) /\ v = LeafValue(l, t, t, i)
    BY <1>2, LeafValueSame
  <2> QED BY <1>2, <2>1 DEF Leaf
<1> QED BY <1>1, <1>2

LEMMA HoldsSame ==
    ASSUME NEW s, NEW t, NEW i \in Nat \ {0}, SameBars(s, t, i), InOrder(s), InOrder(t), NEW pos,
           NEW tree, TreeCounts(tree)
    PROVE  Holds(tree, s, s, i, pos) = Holds(tree, t, t, i, pos)
<1> DEFINE node(u, f, k) ==
            \/ tree[k].kind = "leaf" /\ Leaf(tree[k].leaf, u, u, i, pos)
            \/ tree[k].kind = "not" /\ \A c \in tree[k].children : ~f[c]
            \/ tree[k].kind = "all" /\ \A c \in tree[k].children : f[c]
            \/ tree[k].kind = "any" /\ \E c \in tree[k].children : f[c]
           nodes(u, f) == [k \in DOMAIN tree |-> node(u, f, k)]
           value(u) == CHOOSE f : f = nodes(u, f)
<1>1. Holds(tree, s, s, i, pos) = value(s)[1] /\ Holds(tree, t, t, i, pos) = value(t)[1]
  BY DEF Holds
<1>2. ASSUME NEW f, NEW k \in DOMAIN tree PROVE node(s, f, k) = node(t, f, k)
  <2>1. CASE tree[k].kind = "leaf"
    <3>1. PICK l : l = tree[k].leaf /\ LeafCounts(l)
      BY <2>1 DEF TreeCounts
    <3>2. PICK v : v = Leaf(l, s, s, i, pos) /\ v = Leaf(l, t, t, i, pos)
      BY <3>1, LeafSame
    <3> QED BY <2>1, <3>1, <3>2
  <2>2. CASE tree[k].kind # "leaf"
    BY <2>2 DEF TreeCounts, NodeKinds
  <2> QED BY <2>1, <2>2
<1> HIDE DEF node
<1>3. \A f : nodes(s, f) = nodes(t, f)
  BY <1>2
<1> HIDE DEF nodes
<1>4. \A f : f = nodes(s, f) <=> f = nodes(t, f)
  BY <1>3
<1>5. value(s) = value(t)
  BY <1>4
<1> HIDE DEF value
<1> QED BY <1>1, <1>5

LEMMA GeneratedSpecSame ==
    ASSUME NEW s, NEW t, NEW i \in Nat \ {0}, SameBars(s, t, i), InOrder(s), InOrder(t), NEW pos,
           NEW p, SpecCounts(p)
    PROVE  GeneratedSpec(p, s, s, i, pos) = GeneratedSpec(p, t, t, i, pos)
<1>1. PICK x : x = Holds(p.exit, s, s, i, pos) /\ x = Holds(p.exit, t, t, i, pos)
  BY HoldsSame DEF SpecCounts
<1>2. PICK e : e = Holds(p.entry, s, s, i, pos) /\ e = Holds(p.entry, t, t, i, pos)
  BY HoldsSame DEF SpecCounts
<1> QED BY <1>1, <1>2 DEF GeneratedSpec

-----------------------------------------------------------------------------
(* Chart families.  They are asked with what they remember.                *)

LEMMA PivotSame ==
    ASSUME NEW s, NEW t, NEW i \in Nat \ {0}, SameBars(s, t, i), NEW k \in Nat,
           NEW j, j = Confirmed(i, k)
    PROVE  /\ PivotHigh(s, j, k) = PivotHigh(t, j, k)
           /\ PivotLow(s, j, k) = PivotLow(t, j, k)
           /\ PivotHigh(s, j, k) \/ PivotLow(s, j, k) =>
                  j \in 1..i /\ s.high[j] = t.high[j] /\ s.low[j] = t.low[j]
<1>1. j \in Int /\ j + k = i
  BY DEF Confirmed
<1>2. /\ Len(s.close) \in Nat /\ Len(t.close) \in Nat /\ i <= Len(s.close) /\ i <= Len(t.close)
  BY SameStore
<1>3. Inside(s, j, k) = (j > k) /\ Inside(t, j, k) = (j > k)
  BY <1>1, <1>2 DEF Inside
<1>4. j > k => j \in 1..i /\ \A m \in Around(j, k) : m \in 1..i
  BY <1>1 DEF Around
<1>5. \A m \in 1..i : s.high[m] = t.high[m] /\ s.low[m] = t.low[m]
  BY SameBarAt
<1> QED BY <1>3, <1>4, <1>5 DEF PivotHigh, PivotLow

LEMMA DarvasBoxSame ==
    ASSUME NEW s, NEW t, NEW i \in Nat \ {0}, SameBars(s, t, i), NEW p, Counts(p, {"pivotWindow"}), NEW h
    PROVE  DarvasBox(p, s, i, h) = DarvasBox(p, t, i, h)
<1>1. PICK k \in Nat : k = p.pivotWindow
  BY DEF Counts
<1>2. PICK j : j = Confirmed(i, k)
  OBVIOUS
<1>3. /\ PivotHigh(s, j, k) = PivotHigh(t, j, k)
      /\ PivotLow(s, j, k) = PivotLow(t, j, k)
      /\ PivotHigh(s, j, k) \/ PivotLow(s, j, k) =>
             j \in 1..i /\ s.high[j] = t.high[j] /\ s.low[j] = t.low[j]
  BY <1>2, PivotSame
<1>4. i \in 1..i /\ s.low[i] = t.low[i]
  BY SameBarAt
<1>5. PICK ph, pl \in BOOLEAN : /\ ph = PivotHigh(s, j, k) /\ ph = PivotHigh(t, j, k)
                                /\ pl = PivotLow(s, j, k) /\ pl = PivotLow(t, j, k)
  BY <1>3 DEF PivotHigh, PivotLow
<1> DEFINE boxed(u, l) ==
             LET rises == ph /\ Ok(h.swingLow) /\ (IF Ok(h.swingLow) THEN u.high[j] > h.swingLow ELSE FALSE)
                 box == IF pl
                        THEN [h EXCEPT !.swingLow = u.low[j], !.swingHigh = NaN, !.boxTop = NaN, !.boxBot = NaN]
                        ELSE IF rises
                        THEN [h EXCEPT !.swingHigh = u.high[j], !.boxTop = u.high[j],
                                       !.boxBot = u.low[j], !.boxStart = j]
                        ELSE h
             IN  IF Ok(box.boxTop) THEN [box EXCEPT !.boxBot = Smaller(@, l)] ELSE box
<1>6. DarvasBox(p, s, i, h) = boxed(s, s.low[i])
  BY <1>1, <1>2, <1>5 DEF DarvasBox
<1>7. DarvasBox(p, t, i, h) = boxed(t, t.low[i])
  BY <1>1, <1>2, <1>5 DEF DarvasBox
<1>8. boxed(s, s.low[i]) = boxed(t, t.low[i])
  <2>1. CASE ph \/ pl
    BY <1>3, <1>4, <1>5, <2>1
  <2>2. CASE ~ph /\ ~pl
    BY <1>4, <2>2
  <2> QED BY <2>1, <2>2
<1> HIDE DEF boxed
<1> QED BY <1>6, <1>7, <1>8

LEMMA DarvasSame ==
    ASSUME NEW s, NEW t, NEW i \in Nat \ {0}, SameBars(s, t, i), NEW pos, NEW p,
           Counts(p, {"pivotWindow", "atrWindow", "volWindow"}), NEW was
    PROVE  Darvas(p, s, i, pos, was) = Darvas(p, t, i, pos, was)
<1>1. p.pivotWindow \in Nat /\ p.atrWindow \in Nat /\ p.volWindow \in Nat /\ i \in 1..i
  BY DEF Counts
<1>2. PICK h : h = DarvasBox(p, s, i, was) /\ h = DarvasBox(p, t, i, was)
  BY <1>1, DarvasBoxSame DEF Counts
<1>3. PICK a : a = Atr(s, p.atrWindow)[i] /\ a = Atr(t, p.atrWindow)[i]
  BY <1>1, ShownAt
<1>4. PICK v : v = RelativeVolume(s.volume, p.volWindow)[i] /\ v = RelativeVolume(t.volume, p.volWindow)[i]
  BY <1>1, ShownAt
<1>5. s.close[i] = t.close[i]
  BY <1>1, SameBarAt
<1>6. DarvasBreaks(p, s, i, h) = DarvasBreaks(p, t, i, h)
  BY <1>3, <1>4, <1>5 DEF DarvasBreaks
<1> QED BY <1>2, <1>5, <1>6 DEF Darvas

LEMMA FibSwingSame ==
    ASSUME NEW s, NEW t, NEW i \in Nat \ {0}, SameBars(s, t, i), NEW p, Counts(p, {"pivotWindow"}), NEW h
    PROVE  FibSwing(p, s, i, h) = FibSwing(p, t, i, h)
<1>1. PICK k \in Nat : k = p.pivotWindow
  BY DEF Counts
<1>2. PICK j : j = Confirmed(i, k)
  OBVIOUS
<1>3. /\ PivotHigh(s, j, k) = PivotHigh(t, j, k)
      /\ PivotLow(s, j, k) = PivotLow(t, j, k)
      /\ PivotHigh(s, j, k) \/ PivotLow(s, j, k) =>
             j \in 1..i /\ s.high[j] = t.high[j] /\ s.low[j] = t.low[j]
  BY <1>2, PivotSame
<1> QED BY <1>1, <1>2, <1>3 DEF FibSwing

LEMMA FibIchimokuSame ==
    ASSUME NEW s, NEW t, NEW i \in Nat \ {0}, SameBars(s, t, i), NEW pos, NEW p,
           Counts(p, {"pivotWindow", "tenkan", "kijun", "spanB", "atrWindow"}), NEW was
    PROVE  FibIchimoku(p, s, i, pos, was) = FibIchimoku(p, t, i, pos, was)
<1>1. /\ p.pivotWindow \in Nat /\ p.tenkan \in Nat /\ p.kijun \in Nat /\ p.spanB \in Nat
      /\ p.atrWindow \in Nat /\ i \in 1..i
  BY DEF Counts
<1>2. PICK h : h = FibSwing(p, s, i, was) /\ h = FibSwing(p, t, i, was)
  BY <1>1, FibSwingSame DEF Counts
<1>3. PICK x, y : x = FibCloud(p, s) /\ y = FibCloud(p, t)
  OBVIOUS
<1>4. /\ x.tenkan[i] = y.tenkan[i] /\ x.kijun[i] = y.kijun[i]
      /\ x.spanA[i] = y.spanA[i] /\ x.spanB[i] = y.spanB[i]
      /\ Bottom(x, i) = Bottom(y, i) /\ Formed(x, i) = Formed(y, i)
  <2>1. SameCloud(x, y, i)
    BY <1>1, <1>3, CloudAt DEF FibCloud
  <2> QED BY <2>1 DEF SameCloud
<1>5. PICK a : a = Atr(s, p.atrWindow)[i] /\ a = Atr(t, p.atrWindow)[i]
  BY <1>1, ShownAt
<1>6. s.close[i] = t.close[i] /\ s.low[i] = t.low[i]
  BY <1>1, SameBarAt
<1>7. i > p.kijun => s.close[i - p.kijun] = t.close[i - p.kijun]
  <2>1. i > p.kijun => i - p.kijun \in 1..i
    BY <1>1
  <2> QED BY <2>1, SameBarAt
<1>8. IchimokuAgrees(p, s, i) = IchimokuAgrees(p, t, i)
  BY <1>3, <1>4, <1>6, <1>7 DEF IchimokuAgrees
<1>9. FibDone(p, s, i, h) = FibDone(p, t, i, h)
  BY <1>3, <1>4, <1>6 DEF FibDone, TrendBroken
<1>10. FibClear(p, s, i, h) = FibClear(p, t, i, h)
  BY <1>5 DEF FibClear
<1> QED BY <1>2, <1>6, <1>8, <1>9, <1>10 DEF FibIchimoku

\* The turns a rule remembers are of bars it has seen.
TurnsKnown(turns) == \E S : turns \in Seq(S) /\ \A t \in S : t.idx \in Nat \ {0}

LEMMA TurnKnown ==
    ASSUME NEW turns, TurnsKnown(turns), NEW n \in Nat \ {0}, Len(turns) >= n
    PROVE  Newest(turns, n)[n].idx \in Nat \ {0}
<1>1. PICK S : turns \in Seq(S) /\ \A t \in S : t.idx \in Nat \ {0}
  BY DEF TurnsKnown
<1>2. Newest(turns, n)[n] = turns[Len(turns)] /\ Len(turns) \in 1..Len(turns)
  BY <1>1 DEF Newest
<1>3. turns[Len(turns)] \in S
  BY <1>1, <1>2
<1> QED BY <1>1, <1>2, <1>3

LEMMA PushedKnown ==
    ASSUME NEW turns, TurnsKnown(turns), NEW t, t.idx \in Nat \ {0}
    PROVE  TurnsKnown(Pushed(turns, t))
<1>1. PICK R : turns \in Seq(R) /\ \A r \in R : r.idx \in Nat \ {0}
  BY DEF TurnsKnown
<1>2. PICK S : S = R \cup {t}
  OBVIOUS
<1>3. turns \in Seq(S) /\ t \in S /\ \A r \in S : r.idx \in Nat \ {0}
  BY <1>1, <1>2
<1>4. PICK n \in Nat : n = Len(turns)
  BY <1>3
<1>5. Append(turns, t) \in Seq(S) /\ Len(Append(turns, t)) = n + 1
  BY <1>3, <1>4
<1>6. Tail(Append(turns, t)) \in Seq(S)
  BY <1>4, <1>5
<1>7. n > 0 => [turns EXCEPT ![n] = t] \in Seq(S)
  BY <1>3, <1>4
<1>8. Pushed(turns, t) \in Seq(S)
  BY <1>3, <1>4, <1>5, <1>6, <1>7 DEF Pushed
<1> QED BY <1>3, <1>8 DEF TurnsKnown

\* The turn that may be confirmed at the bar.
TurnsAfter(p, s, i, turns) ==
    LET j == Confirmed(i, p.pivotWindow)
        k == p.pivotWindow
    IN  IF PivotHigh(s, j, k) THEN Pushed(turns, Turn(s, j, TRUE))
        ELSE IF PivotLow(s, j, k) THEN Pushed(turns, Turn(s, j, FALSE))
        ELSE turns

LEMMA TurnsAfterSame ==
    ASSUME NEW s, NEW t, NEW i \in Nat \ {0}, SameBars(s, t, i), NEW p, Counts(p, {"pivotWindow"}),
           NEW turns, TurnsKnown(turns)
    PROVE  TurnsAfter(p, s, i, turns) = TurnsAfter(p, t, i, turns) /\ TurnsKnown(TurnsAfter(p, s, i, turns))
<1>1. PICK k \in Nat : k = p.pivotWindow
  BY DEF Counts
<1>2. PICK j : j = Confirmed(i, k)
  OBVIOUS
<1>3. /\ PivotHigh(s, j, k) = PivotHigh(t, j, k)
      /\ PivotLow(s, j, k) = PivotLow(t, j, k)
      /\ PivotHigh(s, j, k) \/ PivotLow(s, j, k) =>
             j \in 1..i /\ s.high[j] = t.high[j] /\ s.low[j] = t.low[j]
  BY <1>2, PivotSame
<1>4. TurnsAfter(p, s, i, turns) = TurnsAfter(p, t, i, turns)
  BY <1>1, <1>2, <1>3 DEF TurnsAfter, Turn
<1>5. ASSUME NEW high, j \in 1..i PROVE TurnsKnown(Pushed(turns, Turn(s, j, high)))
  <2>1. PICK r : r = Turn(s, j, high)
    OBVIOUS
  <2>2. r.idx \in Nat \ {0}
    BY <1>5, <2>1 DEF Turn
  <2> QED BY <2>1, <2>2, PushedKnown
<1>6. TurnsKnown(TurnsAfter(p, s, i, turns))
  BY <1>1, <1>2, <1>3, <1>5 DEF TurnsAfter
<1> QED BY <1>4, <1>6

LEMMA MatchSame ==
    ASSUME NEW s, NEW t, NEW i \in Nat \ {0}, SameBars(s, t, i), NEW p,
           NEW turns, TurnsKnown(turns), NEW name
    PROVE  Match(name, p, s, i, turns) = Match(name, p, t, i, turns)
<1>1. ASSUME NEW n \in Nat \ {0}, Len(turns) >= n
      PROVE  LET from == Newest(turns, n)[n].idx
             IN  /\ Column(s.low, from..(i - 1)) = Column(t.low, from..(i - 1))
                 /\ Column(s.high, from..(i - 1)) = Column(t.high, from..(i - 1))
  <2>1. PICK from \in Nat \ {0} : from = Newest(turns, n)[n].idx
    BY <1>1, TurnKnown
  <2>2. from..(i - 1) \subseteq 1..i
    OBVIOUS
  <2>3. Same(s.low, t.low, i) /\ Same(s.high, t.high, i)
    BY SameStore
  <2>4. /\ Column(s.low, from..(i - 1)) = Column(t.low, from..(i - 1))
        /\ Column(s.high, from..(i - 1)) = Column(t.high, from..(i - 1))
    BY SMTT(30), <2>2, <2>3, SameFacts
  <2> QED BY <2>1, <2>4
<1>2. CupHandle(p, s, i, turns) = CupHandle(p, t, i, turns)
  <2>1. CASE Len(turns) >= 3
    <3>1. PICK from : from = Newest(turns, 3)[3].idx
      OBVIOUS
    <3>2. PICK S : S = Column(s.low, from..(i - 1)) /\ S = Column(t.low, from..(i - 1))
      BY <1>1, <2>1, <3>1
    <3> QED BY <3>1, <3>2 DEF CupHandle
  <2>2. CASE ~(Len(turns) >= 3)
    <3>1. Len(<<TRUE, FALSE, TRUE>>) = 3
      OBVIOUS
    <3>2. ~Turns(p, i, turns, <<TRUE, FALSE, TRUE>>)
      BY <2>2, <3>1 DEF Turns
    <3> QED BY <3>2 DEF CupHandle, Where
  <2> QED BY <2>1, <2>2
<1>3. BullFlag(p, s, i, turns) = BullFlag(p, t, i, turns)
  <2>1. CASE Len(turns) >= 2
    <3>1. PICK top : top = Newest(turns, 2)[2]
      OBVIOUS
    <3>2. PICK S : S = Column(s.low, FlagBars(top, i)) /\ S = Column(t.low, FlagBars(top, i))
      BY <1>1, <2>1, <3>1 DEF FlagBars
    <3>3. PICK T : T = Column(s.high, FlagBars(top, i)) /\ T = Column(t.high, FlagBars(top, i))
      BY <1>1, <2>1, <3>1 DEF FlagBars
    <3> QED BY <3>1, <3>2, <3>3 DEF BullFlag
  <2>2. CASE ~(Len(turns) >= 2)
    <3>1. Len(<<FALSE, TRUE>>) = 2
      OBVIOUS
    <3>2. ~Turns(p, i, turns, <<FALSE, TRUE>>)
      BY <2>2, <3>1 DEF Turns
    <3> QED BY <3>2 DEF BullFlag, Where
  <2> QED BY <2>1, <2>2
<1> QED BY <1>2, <1>3 DEF Match

LEMMA PatternsSame ==
    ASSUME NEW s, NEW t, NEW i \in Nat \ {0}, SameBars(s, t, i), NEW pos, NEW p,
           Counts(p, {"pivotWindow", "atrWindow", "volWindow"}), NEW was, TurnsKnown(was.turns)
    PROVE  Patterns(p, s, i, pos, was) = Patterns(p, t, i, pos, was)
<1>1. p.pivotWindow \in Nat /\ p.atrWindow \in Nat /\ p.volWindow \in Nat /\ i \in 1..i
  BY DEF Counts
<1>2. PICK old : old = was.turns
  OBVIOUS
<1>3. PICK turns : turns = TurnsAfter(p, s, i, old) /\ turns = TurnsAfter(p, t, i, old) /\ TurnsKnown(turns)
  BY <1>1, <1>2, TurnsAfterSame DEF Counts
<1>4. PICK a : a = Atr(s, p.atrWindow)[i] /\ a = Atr(t, p.atrWindow)[i]
  BY <1>1, ShownAt
<1>5. PICK v : v = RelativeVolume(s.volume, p.volWindow)[i] /\ v = RelativeVolume(t.volume, p.volWindow)[i]
  BY <1>1, ShownAt
<1>6. s.close[i] = t.close[i] /\ s.low[i] = t.low[i]
  BY <1>1, SameBarAt
<1>7. PICK c : c = CandleSignals(s)[i] /\ c = CandleSignals(t)[i]
  <2>1. PICK x, y : x = CandleSignals(s) /\ y = CandleSignals(t)
    OBVIOUS
  <2>2. Same(x, y, i)
    BY <2>1, CandlesSame
  <2> QED BY <2>1, <2>2, SameLast
<1>8. \A name : Match(name, p, s, i, turns) = Match(name, p, t, i, turns)
  BY <1>3, MatchSame
<1>9. PICK name : name = FirstMatch(p, s, i, turns) /\ name = FirstMatch(p, t, i, turns)
  <2> DEFINE hits(x) == { k \in DOMAIN PatternOrder :
                             PatternOrder[k] \in p.use /\ Ok(Match(PatternOrder[k], p, x, i, turns)) }
  <2>1. hits(s) = hits(t)
    BY <1>8
  <2>2. \A x : FirstMatch(p, x, i, turns) = IF hits(x) = {} THEN NaN ELSE PatternOrder[Lowest(hits(x))]
    BY DEF FirstMatch
  <2> HIDE DEF hits
  <2>3. FirstMatch(p, s, i, turns) = FirstMatch(p, t, i, turns)
    BY <2>1, <2>2
  <2> QED BY <2>3
<1>10. PICK m : m = Match(name, p, s, i, turns) /\ m = Match(name, p, t, i, turns)
  BY <1>8
<1>11. Confirms(p, s, i, name, m) = Confirms(p, t, i, name, m)
  BY SMTT(30), <1>4, <1>5, <1>6, <1>7 DEF Confirms
<1> DEFINE said(close, matched) ==
      LET h == [was EXCEPT !.turns = turns]
          done == \/ Ok(h.target) /\ close >= h.target
                  \/ Ok(h.stop) /\ close <= h.stop
                  \/ p.exitOnBearCandle /\ c \cap Bearish # {}
      IN  IF i <= p.pivotWindow + 3 THEN Says("Hold", was)
          ELSE IF pos.in THEN Says(Leave(done), h)
          ELSE IF ~Ok(a) THEN Says("Hold", h)
          ELSE IF a <= 0 \/ ~Ok(name) THEN Says("Hold", h)
          ELSE IF matched
          THEN Says("Buy", [h EXCEPT !.target = m.level + (p.targetHeight * m.height) \div Permille,
                                     !.stop = (m.low * (Permille - p.stopBelowLow)) \div Permille])
          ELSE Says("Hold", h)
<1>12. Patterns(p, s, i, pos, was) = said(s.close[i], Confirms(p, s, i, name, m))
  BY <1>2, <1>3, <1>4, <1>7, <1>9, <1>10 DEF Patterns, TurnsAfter
<1>13. Patterns(p, t, i, pos, was) = said(t.close[i], Confirms(p, t, i, name, m))
  BY <1>2, <1>3, <1>4, <1>7, <1>9, <1>10 DEF Patterns, TurnsAfter
<1> HIDE DEF said
<1> QED BY <1>6, <1>11, <1>12, <1>13

LEMMA PredictedMoveSame ==
    ASSUME NEW s, NEW t, NEW i \in Nat \ {0}, SameBars(s, t, i), NEW p, Counts(p, {"window"})
    PROVE  PredictedMove(p, s, i) = PredictedMove(p, t, i)
<1>1. p.window \in Nat
  BY DEF Counts
<1>2. PICK x, y : x = LogOf(s.close) /\ y = LogOf(t.close)
  OBVIOUS
<1>3. Same(x, y, i)
  BY <1>2, SameStore, LogSame DEF Series
<1> DEFINE guess(w) ==
      LET line == Ols([k \in 1..p.window |-> k - 1], w, p.window)
          rest == [k \in 1..p.window |-> w[k] - line.a - (line.b * (k - 1)) \div Permille]
          move == IF p.detrend THEN ModesMove(rest) ELSE ModesMove(w)
          total == move + (IF p.detrend THEN (line.b * p.horizon) \div Permille ELSE 0)
      IN  IF ~Ok(move) THEN NaN ELSE Where(Abs(total) <= p.maxPredictedMove, total)
           told(h) == IF i < p.window \/ ~OkOn(h, i - p.window + 1, i) THEN NaN
                      ELSE guess(Window(h, i, p.window))
<1>4. PredictedMove(p, s, i) = told(x)
  BY <1>2 DEF PredictedMove
<1>5. PredictedMove(p, t, i) = told(y)
  BY <1>2 DEF PredictedMove
<1> HIDE DEF guess
<1>6. told(x) = told(y)
  <2>1. CASE i < p.window
    BY <2>1
  <2>2. CASE ~(i < p.window)
    <3>1. \A k \in (i - p.window + 1)..i : k \in 1..i
      BY <1>1, <2>2
    <3>2. OkOn(x, i - p.window + 1, i) <=> OkOn(y, i - p.window + 1, i)
      BY <1>3, <3>1 DEF OkOn, Same
    <3>3. \A k \in 1..p.window : i - p.window + k \in 1..i
      BY <1>1, <2>2
    <3>4. Window(x, i, p.window) = Window(y, i, p.window)
      BY <1>3, <3>3 DEF Window, Same
    <3> QED BY <3>2, <3>4
  <2> QED BY <2>1, <2>2
<1> HIDE DEF told
<1> QED BY <1>4, <1>5, <1>6

LEMMA PencilSame ==
    ASSUME NEW s, NEW t, NEW i \in Nat \ {0}, SameBars(s, t, i), NEW pos, NEW p, Counts(p, {"window"}), NEW was
    PROVE  PencilExtrapolation(p, s, i, pos, was) = PencilExtrapolation(p, t, i, pos, was)
<1>1. PICK m : m = PredictedMove(p, s, i) /\ m = PredictedMove(p, t, i)
  BY PredictedMoveSame
<1> QED BY <1>1 DEF PencilExtrapolation

-----------------------------------------------------------------------------
(* A strategy is a family behind a gate.  Two stores that hold the same    *)
(* bars are, so far, the same store to it.                                 *)

\* Two stores and what a rule may be asked at a bar of both.
AskedAlike(s, t, i, pos) ==
    /\ i \in Nat \ {0} /\ SameBars(s, t, i) /\ InOrder(s) /\ InOrder(t)
    /\ pos.in => pos.index \in 1..i

\* Trends, reversals and breakouts.
FirstFamilies ==
    {"tsmom", "sma_cross", "faber_ma", "kama_trend", "ehlers_trend", "macd_norm",
     "rsi_reversal", "ou_score", "skew_reversal", "dip_reversion", "donchian"}
LEMMA FirstFamiliesSame ==
    ASSUME NEW s, NEW t, NEW i, NEW pos, AskedAlike(s, t, i, pos),
           NEW family \in FirstFamilies, NEW p, FamilyCounts(family, p)
    PROVE  PureSignal(family, p, s, i, pos) = PureSignal(family, p, t, i, pos)
<1>0. i \in Nat \ {0} /\ SameBars(s, t, i) /\ InOrder(s) /\ InOrder(t) /\ (pos.in => pos.index \in 1..i)
  BY DEF AskedAlike
<1>1. CASE family = "tsmom"
  <2>1. Counts(p, {"lookback", "volWindow"})
    BY SMTT(30), <1>1 DEF FamilyCounts
  <2>2. Tsmom(p, s, i) = Tsmom(p, t, i)
    BY SMTT(30), <1>0, <2>1, TsmomSame
  <2> QED BY <1>1, <2>2 DEF PureSignal
<1>2. CASE family = "sma_cross"
  <2>1. Counts(p, {"fast", "slow"})
    BY <1>2 DEF FamilyCounts
  <2>2. SmaCross(p, s, i) = SmaCross(p, t, i)
    BY <1>0, <2>1, SmaCrossSame
  <2> QED BY <1>2, <2>2 DEF PureSignal
<1>3. CASE family = "faber_ma"
  <2>1. Counts(p, {"window"})
    BY <1>3 DEF FamilyCounts
  <2>2. FaberMa(p, s, i) = FaberMa(p, t, i)
    BY <1>0, <2>1, FaberSame
  <2> QED BY <1>3, <2>2 DEF PureSignal
<1>4. CASE family = "kama_trend"
  <2>1. Counts(p, {"erWindow"})
    BY <1>4 DEF FamilyCounts
  <2>2. KamaTrend(p, s, i) = KamaTrend(p, t, i)
    BY <1>0, <2>1, KamaTrendSame
  <2> QED BY <1>4, <2>2 DEF PureSignal
<1>5. CASE family = "ehlers_trend"
  <2>1. Counts(p, {"volWindow", "slopeLag"})
    BY <1>5 DEF FamilyCounts
  <2>2. EhlersTrend(p, s, i) = EhlersTrend(p, t, i)
    BY <1>0, <2>1, EhlersSame
  <2> QED BY <1>5, <2>2 DEF PureSignal
<1>6. CASE family = "macd_norm"
  <2>1. Counts(p, {"short", "long", "priceStdWindow", "signalStdWindow"})
    BY <1>6 DEF FamilyCounts
  <2>2. MacdNorm(p, s, i) = MacdNorm(p, t, i)
    BY <1>0, <2>1, MacdSame
  <2> QED BY <1>6, <2>2 DEF PureSignal
<1>7. CASE family = "rsi_reversal"
  <2>1. Counts(p, {"rsiWindow", "trendWindow"})
    BY <1>7 DEF FamilyCounts
  <2>2. RsiReversal(p, s, i, pos) = RsiReversal(p, t, i, pos)
    BY <1>0, <2>1, RsiReversalSame
  <2> QED BY <1>7, <2>2 DEF PureSignal
<1>8. CASE family = "ou_score"
  <2>1. Counts(p, {"detrendWindow", "window"})
    BY <1>8 DEF FamilyCounts
  <2>2. OuScore(p, s, i, pos) = OuScore(p, t, i, pos)
    BY <1>0, <2>1, OuScoreSame
  <2> QED BY <1>8, <2>2 DEF PureSignal
<1>9. CASE family = "skew_reversal"
  <2>1. Counts(p, {"window", "trendWindow"})
    BY <1>9 DEF FamilyCounts
  <2>2. SkewReversal(p, s, i, pos) = SkewReversal(p, t, i, pos)
    BY <1>0, <2>1, SkewReversalSame
  <2> QED BY <1>9, <2>2 DEF PureSignal
<1>10. CASE family = "dip_reversion"
  <2>1. Counts(p, {"lookback", "volWindow"})
    BY <1>10 DEF FamilyCounts
  <2>2. DipReversion(p, s, i, pos) = DipReversion(p, t, i, pos)
    BY <1>0, <2>1, DipReversionSame
  <2> QED BY <1>10, <2>2 DEF PureSignal
<1>11. CASE family = "donchian"
  <2>1. Counts(p, {"entryWindow", "exitWindow", "atrWindow"})
    BY <1>11 DEF FamilyCounts
  <2>2. Donchian(p, s, i, pos) = Donchian(p, t, i, pos)
    BY <1>0, <2>1, DonchianSame
  <2> QED BY <1>11, <2>2 DEF PureSignal
<1> QED BY <1>1, <1>2, <1>3, <1>4, <1>5, <1>6, <1>7, <1>8, <1>9, <1>10, <1>11 DEF FirstFamilies

\* Breakouts, clouds and regimes.
NextFamilies ==
    {"squeeze_breakout", "conviction_breakout", "momo_breakout", "pure_ichimoku",
     "ichimoku_full", "odiseo", "vol_managed", "vr_switch", "fracdiff", "cusum_tb",
     "lppls_bubble"}
LEMMA NextFamiliesSame ==
    ASSUME NEW s, NEW t, NEW i, NEW pos, AskedAlike(s, t, i, pos),
           NEW family \in NextFamilies, NEW p, FamilyCounts(family, p)
    PROVE  PureSignal(family, p, s, i, pos) = PureSignal(family, p, t, i, pos)
<1>0. i \in Nat \ {0} /\ SameBars(s, t, i) /\ InOrder(s) /\ InOrder(t) /\ (pos.in => pos.index \in 1..i)
  BY DEF AskedAlike
<1>1. CASE family = "squeeze_breakout"
  <2>1. Counts(p, {"window", "rankWindow"})
    BY <1>1 DEF FamilyCounts
  <2>2. SqueezeBreakout(p, s, i, pos) = SqueezeBreakout(p, t, i, pos)
    BY <1>0, <2>1, SqueezeBreakoutSame
  <2> QED BY <1>1, <2>2 DEF PureSignal
<1>2. CASE family = "conviction_breakout"
  <2>1. Counts(p, {"entryWindow", "exitWindow", "trendWindow", "slopeWindow", "momentumWindow", "atrWindow"})
    BY <1>2 DEF FamilyCounts
  <2>2. ConvictionBreakout(p, s, i, pos) = ConvictionBreakout(p, t, i, pos)
    BY <1>0, <2>1, ConvictionBreakoutSame
  <2> QED BY <1>2, <2>2 DEF PureSignal
<1>3. CASE family = "momo_breakout"
  <2>1. Counts(p, {"rangeFast", "rangeSlow", "lookback"})
    BY <1>3 DEF FamilyCounts
  <2>2. MomoBreakout(p, s, i, pos) = MomoBreakout(p, t, i, pos)
    BY <1>0, <2>1, MomoBreakoutSame
  <2> QED BY <1>3, <2>2 DEF PureSignal
<1>4. CASE family = "pure_ichimoku"
  <2>1. Counts(p, {"tenkan", "kijun", "spanB"})
    BY <1>4 DEF FamilyCounts
  <2>2. PureIchimoku(p, s, i, pos) = PureIchimoku(p, t, i, pos)
    BY <1>0, <2>1, PureIchimokuSame
  <2> QED BY <1>4, <2>2 DEF PureSignal
<1>5. CASE family = "ichimoku_full"
  <2>1. Counts(p, {"tenkan", "kijun", "spanB", "displacement"})
    BY <1>5 DEF FamilyCounts
  <2>2. IchimokuFull(p, s, i, pos) = IchimokuFull(p, t, i, pos)
    BY <1>0, <2>1, IchimokuFullSame
  <2> QED BY <1>5, <2>2 DEF PureSignal
<1>6. CASE family = "odiseo"
  <2>1. Counts(p, {"tenkan", "kijun", "spanB", "dmiWindow", "atrWindow", "volWindow", "obvWindow"})
    BY <1>6 DEF FamilyCounts
  <2>2. Odiseo(p, s, i, pos) = Odiseo(p, t, i, pos)
    BY <1>0, <2>1, OdiseoSame
  <2> QED BY <1>6, <2>2 DEF PureSignal
<1>7. CASE family = "vol_managed"
  <2>1. Counts(p, {"volWindow", "rankWindow", "trendWindow"})
    BY <1>7 DEF FamilyCounts
  <2>2. VolManaged(p, s, i) = VolManaged(p, t, i)
    BY <1>0, <2>1, VolManagedSame
  <2> QED BY <1>7, <2>2 DEF PureSignal
<1>8. CASE family = "vr_switch"
  <2>1. Counts(p, {"vrWindow", "vrLag", "trendWindow", "mrWindow"})
    BY <1>8 DEF FamilyCounts
  <2>2. VrSwitch(p, s, i, pos) = VrSwitch(p, t, i, pos)
    BY <1>0, <2>1, VrSwitchSame
  <2> QED BY <1>8, <2>2 DEF PureSignal
<1>9. CASE family = "fracdiff"
  <2>1. Counts(p, {"zWindow"}) /\ Len(p.weights) \in Nat
    BY <1>9 DEF FamilyCounts
  <2>2. FracDiff(p, s, i, pos) = FracDiff(p, t, i, pos)
    BY <1>0, <2>1, FracDiffSame
  <2> QED BY <1>9, <2>2 DEF PureSignal
<1>10. CASE family = "cusum_tb"
  <2>1. Counts(p, {"volWindow"})
    BY <1>10 DEF FamilyCounts
  <2>2. CusumTripleBarrier(p, s, i, pos) = CusumTripleBarrier(p, t, i, pos)
    BY <1>0, <2>1, CusumSame
  <2> QED BY <1>10, <2>2 DEF PureSignal
<1>11. CASE family = "lppls_bubble"
  <2>1. Counts(p, {"window", "refitEvery", "trendWindow"}) /\ p.refitEvery > 0
    BY <1>11 DEF FamilyCounts
  <2>2. LpplsBubble(p, s, i) = LpplsBubble(p, t, i)
    BY <1>0, <2>1, LpplsSame
  <2> QED BY <1>11, <2>2 DEF PureSignal
<1> QED BY <1>1, <1>2, <1>3, <1>4, <1>5, <1>6, <1>7, <1>8, <1>9, <1>10, <1>11 DEF NextFamilies

\* Votes, searched rules and controls.
LastFamilies ==
    {"factor_trend", "ensemble_vote", "ensemble_rule", "ensemble_tuned", "ensemble_asym",
     "ensemble_ls", "emergent", "generated_spec", "calendar_rule", "control_random",
     "control_always_long"}
LEMMA LastFamiliesSame ==
    ASSUME NEW s, NEW t, NEW i, NEW pos, AskedAlike(s, t, i, pos),
           NEW family \in LastFamilies, NEW p, FamilyCounts(family, p)
    PROVE  PureSignal(family, p, s, i, pos) = PureSignal(family, p, t, i, pos)
<1>0. i \in Nat \ {0} /\ SameBars(s, t, i) /\ InOrder(s) /\ InOrder(t) /\ (pos.in => pos.index \in 1..i)
  BY DEF AskedAlike
<1>1. CASE family = "factor_trend"
  <2>1. Counts(p, {"lookback", "volWindow", "refLagBars"})
    BY <1>1 DEF FamilyCounts
  <2>2. FactorTrend(p, s, s, i) = FactorTrend(p, t, t, i)
    BY <1>0, <2>1, FactorTrendSame
  <2> QED BY <1>1, <2>2 DEF PureSignal
<1>2. CASE family = "ensemble_vote"
  <2>1. MembersCount(p)
    BY <1>2 DEF FamilyCounts
  <2>2. EnsembleVote(p, s, i, pos) = EnsembleVote(p, t, i, pos)
    BY <1>0, <2>1, EnsembleSame
  <2> QED BY <1>2, <2>2 DEF PureSignal
<1>3. CASE family = "ensemble_rule"
  <2>1. MembersCount(p)
    BY <1>3 DEF FamilyCounts
  <2>2. EnsembleRule(p, s, i, pos) = EnsembleRule(p, t, i, pos)
    BY <1>0, <2>1, EnsembleSame
  <2> QED BY <1>3, <2>2 DEF PureSignal
<1>4. CASE family = "ensemble_tuned"
  <2>1. TunedCounts(p)
    BY <1>4 DEF FamilyCounts
  <2>2. EnsembleTuned(p, s, i, pos) = EnsembleTuned(p, t, i, pos)
    BY <1>0, <2>1, EnsembleTunedSame
  <2> QED BY <1>4, <2>2 DEF PureSignal
<1>5. CASE family = "ensemble_asym"
  <2>1. MembersCount(p)
    BY <1>5 DEF FamilyCounts
  <2>2. EnsembleAsym(p, s, i, pos) = EnsembleAsym(p, t, i, pos)
    BY <1>0, <2>1, EnsembleSame
  <2> QED BY <1>5, <2>2 DEF PureSignal
<1>6. CASE family = "ensemble_ls"
  <2>1. MembersCount(p)
    BY <1>6 DEF FamilyCounts
  <2>2. EnsembleLongShort(p, s, i) = EnsembleLongShort(p, t, i)
    BY <1>0, <2>1, EnsembleLongShortSame
  <2> QED BY <1>6, <2>2 DEF PureSignal
<1>7. CASE family = "emergent"
  <2>1. EmergentCounts(p)
    BY <1>7 DEF FamilyCounts
  <2>2. Emergent(p, s, i) = Emergent(p, t, i)
    BY <1>0, <2>1, EmergentSame
  <2> QED BY <1>7, <2>2 DEF PureSignal
<1>8. CASE family = "generated_spec"
  <2>1. SpecCounts(p)
    BY <1>8 DEF FamilyCounts
  <2>2. GeneratedSpec(p, s, s, i, pos) = GeneratedSpec(p, t, t, i, pos)
    BY <1>0, <2>1, GeneratedSpecSame
  <2> QED BY <1>8, <2>2 DEF PureSignal
<1>9. CASE family = "calendar_rule"
  <2>1. CalendarRule(p, s, i, pos) = CalendarRule(p, t, i, pos)
    BY <1>0, CoinSame
  <2> QED BY <1>9, <2>1 DEF PureSignal
<1>10. CASE family = "control_random"
  <2>1. RandomEntry(p, s, i, pos) = RandomEntry(p, t, i, pos)
    BY <1>0, CoinSame
  <2> QED BY <1>10, <2>1 DEF PureSignal
<1>11. CASE family = "control_always_long"
  BY <1>11 DEF PureSignal
<1> QED BY <1>1, <1>2, <1>3, <1>4, <1>5, <1>6, <1>7, <1>8, <1>9, <1>10, <1>11 DEF LastFamilies

LEMMA PureSame ==
    ASSUME NEW s, NEW t, NEW i, NEW pos, AskedAlike(s, t, i, pos),
           NEW family, family \notin Remembering, NEW p, FamilyCounts(family, p)
    PROVE  PureSignal(family, p, s, i, pos) = PureSignal(family, p, t, i, pos)
<1>1. family \in FirstFamilies \cup NextFamilies \cup LastFamilies
  BY DEF FamilyCounts, Remembering, FirstFamilies, NextFamilies, LastFamilies
<1>2. CASE family \in FirstFamilies
  BY <1>2, FirstFamiliesSame
<1>3. CASE family \in NextFamilies
  BY <1>3, NextFamiliesSame
<1>4. CASE family \in LastFamilies
  BY <1>4, LastFamiliesSame
<1> QED BY <1>1, <1>2, <1>3, <1>4

\* What patterns carries from bar to bar; of the others' memory nothing is
\* asked.
Remembers(family, h) ==
    family = "patterns" =>
        h = [turns |-> h.turns, target |-> h.target, stop |-> h.stop] /\ TurnsKnown(h.turns)

LEMMA PreparedRemembers ==
    ASSUME NEW family \in Remembering
    PROVE  Remembers(family, PreparedFamily(family))
<1>1. CASE family = "patterns"
  <2>1. PICK h : h = PreparedFamily(family) /\ h = [turns |-> <<>>, target |-> NaN, stop |-> NaN]
    BY <1>1 DEF PreparedFamily, PatternPrepared
  <2>2. h.turns = <<>> /\ h = [turns |-> h.turns, target |-> h.target, stop |-> h.stop]
    BY <2>1
  <2>3. h.turns \in Seq({}) /\ \A t \in {} : t.idx \in Nat \ {0}
    BY <2>2
  <2>4. TurnsKnown(h.turns)
    BY <2>3 DEF TurnsKnown
  <2> QED BY <2>1, <2>2, <2>4 DEF Remembers
<1>2. CASE family # "patterns"
  BY <1>2 DEF Remembers
<1> QED BY <1>1, <1>2

LEMMA PatternsRemember ==
    ASSUME NEW s, NEW i \in Nat \ {0}, SameBars(s, s, i), NEW pos, NEW p, Counts(p, {"pivotWindow"}),
           NEW was, Remembers("patterns", was)
    PROVE  Remembers("patterns", Patterns(p, s, i, pos, was).hidden)
<1>1. was = [turns |-> was.turns, target |-> was.target, stop |-> was.stop] /\ TurnsKnown(was.turns)
  BY DEF Remembers
<1>2. PICK old, low, high : was = [turns |-> old, target |-> high, stop |-> low] /\ TurnsKnown(old)
  BY <1>1
<1>3. PICK turns : turns = TurnsAfter(p, s, i, old) /\ TurnsKnown(turns)
  BY <1>2, TurnsAfterSame
<1> DEFINE turned(x, y) == [turns |-> turns, target |-> x, stop |-> y]
<1>4. [was EXCEPT !.turns = turns] = turned(high, low)
  BY <1>2
<1>5. \A x, y : [turned(high, low) EXCEPT !.target = x, !.stop = y] = turned(x, y)
  <2> SUFFICES ASSUME NEW x, NEW y PROVE [turned(high, low) EXCEPT !.target = x, !.stop = y] = turned(x, y)
    OBVIOUS
  <2>1. [turned(high, low) EXCEPT !.target = x] = turned(x, low)
    OBVIOUS
  <2>2. [turned(x, low) EXCEPT !.stop = y] = turned(x, y)
    OBVIOUS
  <2> QED BY <2>1, <2>2
<1> HIDE DEF turned
<1>6. PICK h : h = [was EXCEPT !.turns = turns] /\ h = turned(high, low) /\ was.turns = old
  BY <1>2, <1>4
<1>7. PICK a, c, name, m : /\ a = Atr(s, p.atrWindow)[i] /\ c = CandleSignals(s)[i]
                           /\ name = FirstMatch(p, s, i, turns) /\ m = Match(name, p, s, i, turns)
  OBVIOUS
<1> DEFINE said(matched) ==
      LET done == \/ Ok(h.target) /\ s.close[i] >= h.target
                  \/ Ok(h.stop) /\ s.close[i] <= h.stop
                  \/ p.exitOnBearCandle /\ c \cap Bearish # {}
      IN  IF i <= p.pivotWindow + 3 THEN Says("Hold", was)
          ELSE IF pos.in THEN Says(Leave(done), h)
          ELSE IF ~Ok(a) THEN Says("Hold", h)
          ELSE IF a <= 0 \/ ~Ok(name) THEN Says("Hold", h)
          ELSE IF matched
          THEN Says("Buy", [h EXCEPT !.target = m.level + (p.targetHeight * m.height) \div Permille,
                                     !.stop = (m.low * (Permille - p.stopBelowLow)) \div Permille])
          ELSE Says("Hold", h)
<1>8. Patterns(p, s, i, pos, was) = said(Confirms(p, s, i, name, m))
  BY <1>3, <1>6, <1>7 DEF Patterns, TurnsAfter
<1>9. \A x, y : [h EXCEPT !.target = x, !.stop = y] = turned(x, y)
  BY <1>5, <1>6
<1>10. \A matched : said(matched).hidden \in {was, h} \/ \E x, y : said(matched).hidden = turned(x, y)
  BY <1>9 DEF Says
<1> HIDE DEF said
<1>11. \A x, y : Remembers("patterns", turned(x, y))
  BY <1>3 DEF Remembers, turned
<1> QED BY <1>6, <1>8, <1>10, <1>11

LEMMA RememberedSays ==
    ASSUME NEW family \in Remembering, NEW p, NEW s, NEW i, NEW pos, NEW h
    PROVE  \E x, y : Remembered(family, p, s, i, pos, h) = Says(x, y)
<1>1. \E x, y : Darvas(p, s, i, pos, h) = Says(x, y)
  BY DEF Darvas
<1>2. \E x, y : FibIchimoku(p, s, i, pos, h) = Says(x, y)
  BY DEF FibIchimoku
<1>3. \E x, y : Patterns(p, s, i, pos, h) = Says(x, y)
  BY DEF Patterns
<1>4. \E x, y : PencilExtrapolation(p, s, i, pos, h) = Says(x, y)
  BY DEF PencilExtrapolation
<1> QED BY <1>1, <1>2, <1>3, <1>4 DEF Remembered, Remembering

\* A family that remembers says the same, and remembers the same after it.
LEMMA RememberedSame ==
    ASSUME NEW s, NEW t, NEW i, NEW pos, AskedAlike(s, t, i, pos),
           NEW family \in Remembering, NEW p, FamilyCounts(family, p), NEW h, Remembers(family, h)
    PROVE  /\ Remembered(family, p, s, i, pos, h) = Remembered(family, p, t, i, pos, h)
           /\ Remembers(family, Remembered(family, p, s, i, pos, h).hidden)
<1>0. i \in Nat \ {0} /\ SameBars(s, t, i)
  BY DEF AskedAlike
<1>1. CASE family = "darvas"
  <2>1. Counts(p, {"pivotWindow", "atrWindow", "volWindow"})
    BY <1>1 DEF FamilyCounts
  <2>2. Darvas(p, s, i, pos, h) = Darvas(p, t, i, pos, h)
    BY <1>0, <2>1, DarvasSame
  <2> QED BY <1>1, <2>2 DEF Remembered, Remembers
<1>2. CASE family = "fib_ichimoku"
  <2>1. Counts(p, {"pivotWindow", "tenkan", "kijun", "spanB", "atrWindow"})
    BY <1>2 DEF FamilyCounts
  <2>2. FibIchimoku(p, s, i, pos, h) = FibIchimoku(p, t, i, pos, h)
    BY <1>0, <2>1, FibIchimokuSame
  <2> QED BY <1>2, <2>2 DEF Remembered, Remembers
<1>3. CASE family = "patterns"
  <2>1. Counts(p, {"pivotWindow", "atrWindow", "volWindow"}) /\ Counts(p, {"pivotWindow"})
    BY <1>3 DEF FamilyCounts, Counts
  <2>2. TurnsKnown(h.turns) /\ Remembers("patterns", h)
    BY <1>3 DEF Remembers
  <2>3. Patterns(p, s, i, pos, h) = Patterns(p, t, i, pos, h)
    BY <1>0, <2>1, <2>2, PatternsSame
  <2>4. SameBars(s, s, i)
    BY <1>0 DEF SameBars, Same
  <2>5. Remembers("patterns", Patterns(p, s, i, pos, h).hidden)
    BY <1>0, <2>1, <2>2, <2>4, PatternsRemember
  <2> QED BY <1>3, <2>3, <2>5 DEF Remembered
<1>4. CASE family = "pencil_extrap"
  <2>1. Counts(p, {"window"})
    BY <1>4 DEF FamilyCounts
  <2>2. PencilExtrapolation(p, s, i, pos, h) = PencilExtrapolation(p, t, i, pos, h)
    BY <1>0, <2>1, PencilSame
  <2> QED BY <1>4, <2>2 DEF Remembered, Remembers
<1> QED BY <1>1, <1>2, <1>3, <1>4 DEF Remembering

(* Every family of the registry, behind every gate: on two stores that     *)
(* hold the same bars up to one, it says the same of that bar, in and out  *)
(* of a position, and remembers the same after it.  None looks ahead, and  *)
(* none depends on how long the store is that prepare() was given.         *)
THEOREM NoFamilyLooksAhead ==
    ASSUME NEW s, NEW t, NEW i, NEW pos, AskedAlike(s, t, i, pos), NEW u, WellFormed(u),
           NEW h, u.family \in Remembering => Remembers(u.family, h)
    PROVE  /\ OnBarOfFamily(u, s, i, pos, h) = OnBarOfFamily(u, t, i, pos, h)
           /\ u.family \in Remembering => Remembers(u.family, OnBarOfFamily(u, s, i, pos, h).hidden)
<1>0. i \in Nat \ {0} /\ SameBars(s, t, i)
  BY DEF AskedAlike
<1>1. FamilyCounts(u.family, u.p) /\ u.gate \in GateNames /\ GateCounts(u.gate, u.g)
  BY DEF WellFormed
<1>2. \A signal : Behind(u.gate, u.g, s, i, signal) = Behind(u.gate, u.g, t, i, signal)
  BY <1>0, <1>1, BehindSame
<1>3. CASE u.family \in Remembering
  <2>1. PICK said : /\ said = Remembered(u.family, u.p, s, i, pos, h)
                    /\ said = Remembered(u.family, u.p, t, i, pos, h)
                    /\ Remembers(u.family, said.hidden)
    BY <1>1, <1>3, RememberedSame
  <2>2. [said EXCEPT !.signal = Behind(u.gate, u.g, s, i, said.signal)].hidden = said.hidden
    <3>1. \E x, y : said = Says(x, y)
      BY <1>3, <2>1, RememberedSays
    <3> QED BY <3>1 DEF Says
  <2> QED BY <1>2, <1>3, <2>1, <2>2 DEF OnBarOfFamily
<1>4. CASE u.family \notin Remembering
  <2>1. PICK said : said = PureSignal(u.family, u.p, s, i, pos) /\ said = PureSignal(u.family, u.p, t, i, pos)
    BY <1>1, <1>4, PureSame
  <2> QED BY <1>2, <1>4, <2>1 DEF OnBarOfFamily
<1> QED BY <1>3, <1>4
=============================================================================
