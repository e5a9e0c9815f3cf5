---------------------------- MODULE Fetch_proofs ----------------------------
(***************************************************************************)
(* What is proved of how bars reach the disk: of CandleStore, for writers  *)
(* that take turns, however many and wherever they are killed; and of      *)
(* HistoryWalk, for every venue whose gaps are shorter than the run of     *)
(* empty windows that counts as the end of history.                        *)
(***************************************************************************)
EXTENDS CandleStore, HistoryWalk, FiniteSetTheorems, WellFoundedInduction, TLAPS

SameBasis(bars) == \A i, j \in DOMAIN bars : bars[i].basis = bars[j].basis

\* The file.
FileFits ==
    /\ recs \in Seq(Bars)
    /\ Gapless
    /\ header # "ok" => recs = <<>>
    /\ OneBasis
    /\ FetchedBarsAreSound

\* A batch joins the store: what is not in it was missed, or is older than its
\* first bar and the last one stored.
BatchFits(w) ==
    /\ batch[w] # <<>>
    /\ Ascending(batch[w])
    /\ SameBasis(batch[w])
    /\ \A t \in 1 .. closed :
          \/ t \in Times(batch[w]) \/ t \in missed
          \/ t <= LastTime /\ \A i \in DOMAIN batch[w] : t < batch[w][i].time
          \/ \A i \in DOMAIN batch[w] : batch[w][i].time < t
    /\ Times(batch[w]) \subseteq 1 .. closed

\* What a writer found out is still so when it writes.
WriterFits(w) ==
    pc[w] # "idle" =>
        /\ BatchFits(w)
        /\ w \in Fetchers /\ pc[w] \in {"inspect", "last", "write"} => ~Disagrees(batch[w])
        /\ pc[w] \in {"compare", "publish"} => w \in Fetchers
        /\ pc[w] = "publish" => /\ Sound(batch[w])
                                /\ recs # <<>> /\ batch[w][1].time <= recs[1].time
        /\ pc[w] \in {"last", "write"} =>
              /\ layout[w].count = Len(recs) /\ layout[w].header = header
              /\ ~tail /\ header # "junk"
        /\ pc[w] = "write" =>
              /\ fresh[w] = NewerThan(LastTime, batch[w])
              /\ fresh[w] # <<>>
              /\ w \in Fetchers => Sound(fresh[w])

OneWriter == \A v, w \in Writers : pc[v] # "idle" /\ pc[w] # "idle" => v = w

StoreInv == TypeOK /\ FileFits /\ OneWriter /\ \A w \in Writers : WriterFits(w)

-----------------------------------------------------------------------------
(* Lemmas about batches and files.                                         *)

\* A set of bars has a least one.
LEMMA LeastOf ==
    ASSUME NEW bars \in SUBSET Nat, bars # {}
    PROVE  Min(bars) \in bars /\ \A t \in bars : Min(bars) <= t
<1> DEFINE R == OpToRel(<, Nat)
<1>1. IsWellFoundedOn(R, Nat)
  BY NatLessThanWellFounded
<1>2. \A s, t \in Nat : s < t => <<s, t>> \in R
  BY DEF OpToRel
<1> HIDE DEF R
<1>3. PICK b \in bars : \A t \in Nat : <<t, b>> \in R => t \notin bars
  BY <1>1, WFMin
<1>4. \A t \in bars : b <= t
  <2> SUFFICES ASSUME NEW t \in bars, ~(b <= t) PROVE FALSE
    OBVIOUS
  <2>1. b \in Nat /\ t \in Nat /\ t < b
    OBVIOUS
  <2> QED BY <1>2, <1>3, <2>1
<1> QED BY <1>4 DEF Min

LEMMA BarIs ==
    ASSUME NEW bars \in Seq(Bars), NEW i \in DOMAIN bars
    PROVE  bars[i] \in Bars /\ bars[i].time \in Nat /\ 1 <= bars[i].time /\ i \in Nat
<1>1. bars[i] \in Bars /\ i \in Nat
  OBVIOUS
<1> QED BY <1>1, OptionsAssumption DEF Bars

LEMMA IsSeq ==
    ASSUME NEW S, NEW n \in Nat, NEW f \in [1 .. n -> S]
    PROVE  f \in Seq(S) /\ Len(f) = n
OBVIOUS

\* fetchHistory() gives closed bars after a time, in order, on one basis.
LEMMA AnswerIs ==
    ASSUME TypeOK, NEW s \in Nat, NEW bars, bars = Served(s) \/ bars \in Partial(s)
    PROVE  /\ bars \in Seq(Bars) /\ Ascending(bars) /\ SameBasis(bars)
           /\ Times(bars) \subseteq s + 1 .. closed
<1>1. closed \in 0 .. MaxBars /\ basis \in 0 .. MaxRebases /\ MaxBars \in Nat
  BY OptionsAssumption DEF TypeOK
<1>2. [time : s + 1 .. closed, basis : {basis}] \subseteq Bars
  BY <1>1 DEF Bars
<1>3. /\ Ascending(bars)
      /\ \E n \in Nat : bars \in [1 .. n -> [time : s + 1 .. closed, basis : {basis}]]
  <2>1. CASE bars = Served(s)
    <3>1. PICK n \in Nat : n = IF s < closed THEN closed - s ELSE 0
      <4>1. (IF s < closed THEN closed - s ELSE 0) \in Nat
        BY <1>1
      <4> QED BY <4>1
    <3>2. \A i \in 1 .. n : s + i \in s + 1 .. closed
      BY <1>1, <3>1
    <3>3. bars = [i \in 1 .. n |-> [time |-> s + i, basis |-> basis]]
      BY <2>1, <3>1 DEF Served
    <3>4. bars \in [1 .. n -> [time : s + 1 .. closed, basis : {basis}]]
      BY <3>2, <3>3
    <3>5. \A i \in 1 .. n : bars[i].time = s + i
      BY <3>3
    <3>6. DOMAIN bars = 1 .. n
      BY <3>3
    <3>7. Ascending(bars)
      BY <3>5, <3>6 DEF Ascending
    <3> QED BY <3>4, <3>7
  <2>2. CASE bars \in Partial(s)
    <3>1. PICK n \in 1 .. closed - s - 1 : bars \in [1 .. n -> [time : s + 1 .. closed, basis : {basis}]]
      BY <2>2 DEF Partial
    <3>2. n \in Nat
      BY <1>1
    <3> QED BY <2>2, <3>1, <3>2 DEF Partial
  <2> QED BY <2>1, <2>2
<1>4. PICK n \in Nat : bars \in [1 .. n -> [time : s + 1 .. closed, basis : {basis}]]
  BY <1>3
<1>5. \A i \in DOMAIN bars : bars[i].time \in s + 1 .. closed /\ bars[i].basis = basis
  BY <1>4
<1>6. bars \in [1 .. n -> Bars]
  BY <1>2, <1>4
<1>7. bars \in Seq(Bars)
  BY <1>6, IsSeq
<1> QED BY <1>3, <1>5, <1>7 DEF SameBasis, Times

LEMMA LeastIndex ==
    ASSUME NEW n \in Nat, NEW late \in SUBSET (1 .. n)
    PROVE  \E k \in 0 .. n : /\ \A i \in 1 .. k : i \notin late
                             /\ k < n => k + 1 \in late
<1>1. CASE late = {}
  BY <1>1
<1>2. CASE late # {}
  <2>1. late \in SUBSET Nat
    OBVIOUS
  <2>2. Min(late) \in late /\ \A i \in late : Min(late) <= i
    BY <1>2, <2>1, LeastOf
  <2>3. PICK m \in 1 .. n : m \in late /\ \A i \in late : m <= i
    BY <2>2
  <2>4. m - 1 \in 0 .. n /\ (m - 1) + 1 \in late
    BY <2>3
  <2>5. \A i \in 1 .. m - 1 : i \notin late
    BY <2>3
  <2> QED BY <2>4, <2>5
<1> QED BY <1>1, <1>2

\* append() keeps a tail of the batch, and all of it that is newer.
LEMMA NewerIs ==
    ASSUME NEW bars \in Seq(Bars), Ascending(bars), NEW t \in Nat
    PROVE  LET new == NewerThan(t, bars)
           IN  /\ new \in Seq(Bars) /\ Ascending(new)
               /\ Times(new) = {u \in Times(bars) : u > t}
               /\ \A i \in DOMAIN new : \E j \in DOMAIN bars : new[i] = bars[j]
<1> DEFINE old == {i \in DOMAIN bars : bars[i].time <= t}
           new == NewerThan(t, bars)
<1>1. PICK n \in Nat : n = Len(bars) /\ DOMAIN bars = 1 .. n
  OBVIOUS
<1>2. \A i \in 1 .. n : bars[i].time \in Nat
  BY <1>1, BarIs
<1>3. PICK k \in 0 .. n : /\ \A i \in 1 .. k : bars[i].time <= t
                          /\ k < n => bars[k + 1].time > t
  <2> DEFINE late == {i \in 1 .. n : bars[i].time > t}
  <2>1. late \in SUBSET (1 .. n)
    OBVIOUS
  <2> HIDE DEF late
  <2>2. PICK k \in 0 .. n : (\A i \in 1 .. k : i \notin late) /\ (k < n => k + 1 \in late)
    BY <2>1, LeastIndex
  <2>3. \A i \in 1 .. n : i \in late \/ bars[i].time <= t
    BY <1>2 DEF late
  <2>4. \A i \in 1 .. k : bars[i].time <= t
    <3>1. \A i \in 1 .. k : i \in 1 .. n
      OBVIOUS
    <3> QED BY <2>2, <2>3, <3>1
  <2>5. k < n => bars[k + 1].time > t
    BY <2>2 DEF late
  <2> QED BY <2>4, <2>5
<1>4. \A i \in k + 1 .. n : bars[i].time > t
  <2> SUFFICES ASSUME NEW i \in k + 1 .. n PROVE bars[i].time > t
    OBVIOUS
  <2>1. k + 1 \in 1 .. n /\ i \in 1 .. n /\ k < n /\ (i = k + 1 \/ k + 1 < i)
    OBVIOUS
  <2>2. i = k + 1 \/ bars[k + 1].time < bars[i].time
    BY <1>1, <2>1 DEF Ascending
  <2> QED BY <1>2, <1>3, <2>1, <2>2
<1>5. old = 1 .. k
  <2>1. \A i \in 1 .. n : i \in 1 .. k \/ i \in k + 1 .. n
    OBVIOUS
  <2>2. \A i \in 1 .. k : i \in 1 .. n
    OBVIOUS
  <2> QED BY <1>1, <1>2, <1>3, <1>4, <2>1, <2>2
<1> HIDE DEF old
<1>6. Cardinality(old) = k
  <2>1. Cardinality(1 .. k) = k
    BY FS_Interval
  <2> QED BY <1>5, <2>1
<1>7. new = SubSeq(bars, k + 1, n)
  BY <1>1, <1>6 DEF NewerThan, old
<1>8. /\ new \in Seq(Bars) /\ Len(new) = n - k /\ DOMAIN new = 1 .. (n - k)
      /\ \A i \in 1 .. (n - k) : new[i] = bars[k + i] /\ k + i \in k + 1 .. n
  BY <1>1, <1>7, SMTT(30)
<1> HIDE DEF new
<1>9. Ascending(new)
  <2> SUFFICES ASSUME NEW i \in 1 .. (n - k), NEW j \in 1 .. (n - k), i < j
               PROVE  new[i].time < new[j].time
    BY <1>8 DEF Ascending
  <2>1. k + i \in 1 .. n /\ k + j \in 1 .. n /\ k + i < k + j
    OBVIOUS
  <2> QED BY <1>1, <1>8, <2>1 DEF Ascending
<1>10. \A i \in k + 1 .. n : \E j \in 1 .. (n - k) : new[j] = bars[i]
  <2> SUFFICES ASSUME NEW i \in k + 1 .. n PROVE \E j \in 1 .. (n - k) : new[j] = bars[i]
    OBVIOUS
  <2>1. i - k \in 1 .. (n - k) /\ k + (i - k) = i
    OBVIOUS
  <2> QED BY <1>8, <2>1
<1>11. \A i \in DOMAIN new : \E j \in k + 1 .. n : new[i] = bars[j]
  BY <1>8
<1>12. \A i \in k + 1 .. n : i \in DOMAIN bars
  BY <1>1
<1>13. \A u \in Times(bars) : u > t => u \in Times(new)
  <2> SUFFICES ASSUME NEW i \in 1 .. n, bars[i].time > t PROVE bars[i].time \in Times(new)
    BY <1>1 DEF Times
  <2>1. i \in 1 .. k \/ i \in k + 1 .. n
    OBVIOUS
  <2>2. i \in k + 1 .. n
    BY <1>2, <1>3, <2>1
  <2> QED BY <1>8, <1>10, <2>2 DEF Times
<1>14. \A u \in Times(new) : u \in Times(bars) /\ u > t
  BY <1>4, <1>11, <1>12 DEF Times
<1>15. Times(new) = {u \in Times(bars) : u > t}
  BY <1>13, <1>14
<1>16. \A i \in DOMAIN new : \E j \in DOMAIN bars : new[i] = bars[j]
  BY <1>11, <1>12
<1> QED BY <1>8, <1>9, <1>15, <1>16 DEF new

LEMMA PrefixIs ==
    ASSUME NEW S, NEW long \in Seq(S), NEW k \in 0 .. Len(long)
    PROVE  /\ SubSeq(long, 1, k) \in Seq(S) /\ Len(SubSeq(long, 1, k)) = k
           /\ \A i \in 1 .. k : SubSeq(long, 1, k)[i] = long[i]
<1>1. k \in Nat /\ \A i \in 1 .. k : i \in 1 .. Len(long) /\ long[i] \in S
  OBVIOUS
<1>2. \A i \in 1 .. k : 1 <= i /\ i <= k /\ 1 + i - 1 = i
  OBVIOUS
<1>3. SubSeq(long, 1, k) = [i \in 1 .. k |-> long[i]]
  BY <1>1, <1>2
<1>4. [i \in 1 .. k |-> long[i]] \in [1 .. k -> S]
  BY <1>1
<1> QED BY <1>1, <1>3, <1>4, IsSeq

\* Writing at the end of the file appends.
LEMMA OverlayIs ==
    ASSUME NEW old \in Seq(Bars), old = recs, NEW new \in Seq(Bars)
    PROVE  /\ Overlay(Len(old), new) \in Seq(Bars)
           /\ Len(Overlay(Len(old), new)) = Len(old) + Len(new)
           /\ \A i \in 1 .. Len(old) : Overlay(Len(old), new)[i] = old[i]
           /\ \A i \in 1 .. Len(new) : Overlay(Len(old), new)[Len(old) + i] = new[i]
<1> DEFINE both == Overlay(Len(old), new)
<1>1. PICK n \in Nat, m \in Nat : n = Len(old) /\ m = Len(new)
  OBVIOUS
<1>2. both = [i \in 1 .. n + m |-> CASE i > n /\ i <= n + m -> new[i - n]
                                     [] i <= n /\ i > n -> Garbled
                                     [] OTHER -> old[i]]
  <2>1. (IF n + m > n THEN n + m ELSE n) = n + m
    BY <1>1
  <2> QED BY <1>1, <2>1 DEF Overlay
<1>3. \A i \in 1 .. n : both[i] = old[i]
  BY <1>2
<1>4. \A i \in n + 1 .. n + m : both[i] = new[i - n]
  BY <1>2
<1>5. DOMAIN both = 1 .. n + m
  BY <1>2
<1>6. both = [i \in 1 .. n + m |-> both[i]]
  BY <1>2
<1> HIDE DEF both
<1>7. \A i \in 1 .. n + m : both[i] \in Bars
  <2>1. \A i \in 1 .. n : old[i] \in Bars
    BY <1>1
  <2>2. \A i \in 1 .. m : new[i] \in Bars
    BY <1>1
  <2>3. \A i \in n + 1 .. n + m : i - n \in 1 .. m
    OBVIOUS
  <2> QED BY <1>3, <1>4, <2>1, <2>2, <2>3
<1>8. both \in Seq(Bars) /\ Len(both) = n + m
  <2>1. PICK o \in Nat : o = n + m
    OBVIOUS
  <2>2. DOMAIN both = 1 .. o /\ both = [i \in 1 .. o |-> both[i]] /\ \A i \in 1 .. o : both[i] \in Bars
    BY <1>5, <1>6, <1>7, <2>1
  <2>3. both \in [1 .. o -> Bars]
    BY <2>2
  <2>4. both \in Seq(Bars) /\ Len(both) = o
    BY <2>3, IsSeq
  <2> QED BY <2>1, <2>4
<1>9. \A i \in 1 .. m : both[n + i] = new[i]
  <2>1. \A i \in 1 .. m : n + i \in n + 1 .. n + m /\ (n + i) - n = i
    OBVIOUS
  <2> QED BY <1>4, <2>1
<1> QED BY <1>1, <1>3, <1>8, <1>9 DEF both

LEMMA LastTimeIs ==
    ASSUME recs \in Seq(Bars), Sorted
    PROVE  /\ Len(recs) \in Nat /\ LastTime \in Nat
           /\ \A i \in DOMAIN recs : recs[i].time <= LastTime
           /\ IF recs = <<>> THEN LastTime = 0 ELSE LastTime \in Times(recs)
<1>1. Len(recs) \in Nat /\ DOMAIN recs = 1 .. Len(recs)
  OBVIOUS
<1>2. CASE recs # <<>>
  <2>1. Len(recs) \in DOMAIN recs /\ Last(recs) = recs[Len(recs)]
    BY <1>1, <1>2 DEF Last
  <2>2. LastTime = recs[Len(recs)].time /\ LastTime \in Nat
    BY <1>2, <2>1, BarIs DEF LastTime
  <2>3. \A i \in DOMAIN recs : recs[i].time <= LastTime
    <3> SUFFICES ASSUME NEW i \in DOMAIN recs PROVE recs[i].time <= LastTime
      OBVIOUS
    <3>1. i = Len(recs) \/ i < Len(recs)
      BY <1>1
    <3>2. recs[i].time \in Nat
      BY BarIs
    <3> QED BY <2>1, <2>2, <3>1, <3>2 DEF Sorted, Ascending
  <2> QED BY <1>1, <1>2, <2>1, <2>2, <2>3 DEF Times
<1>3. CASE recs = <<>>
  BY <1>3 DEF LastTime
<1> QED BY <1>2, <1>3

\* What the file and a batch fit stays true while the file is left alone.
LEMMA FileKept ==
    ASSUME FileFits, UNCHANGED <<header, recs, authors, blind>>, missed \subseteq missed',
           closed \in Nat, closed' \in Nat, closed <= closed'
    PROVE  FileFits'
<1>1. LastTime' = LastTime /\ Times(recs)' = Times(recs)
  BY DEF LastTime, Times
<1>2. Sorted' /\ recs' \in Seq(Bars)
  BY DEF FileFits, Gapless, Sorted, Ascending
<1>3. 1 .. closed \subseteq 1 .. closed'
  OBVIOUS
<1>4. Gapless'
  BY <1>1, <1>2, <1>3 DEF FileFits, Gapless
<1>5. OneBasis' /\ FetchedBarsAreSound'
  BY DEF FileFits, OneBasis, FetchedBarsAreSound, Sound
<1> QED BY <1>2, <1>4, <1>5 DEF FileFits

LEMMA BatchKept ==
    ASSUME NEW w \in Writers, BatchFits(w), batch[w] \in Seq(Bars), batch'[w] = batch[w],
           UNCHANGED recs, missed \subseteq missed',
           closed \in Nat, closed' \in {closed, closed + 1}
    PROVE  BatchFits(w)'
<1>1. LastTime' = LastTime /\ Times(batch[w])' = Times(batch[w])
  BY DEF LastTime, Times
<1>2. \A i \in DOMAIN batch[w] : batch[w][i].time \in 1 .. closed
  BY DEF BatchFits, Times
<1>3. Ascending(batch[w])' /\ SameBasis(batch[w])' /\ batch'[w] # <<>>
  BY DEF BatchFits, Ascending, SameBasis
<1>4. Times(batch[w]) \subseteq 1 .. closed'
  BY DEF BatchFits
<1>5. \A t \in 1 .. closed' :
          \/ t \in Times(batch[w]) \/ t \in missed'
          \/ t <= LastTime /\ \A i \in DOMAIN batch[w] : t < batch[w][i].time
          \/ \A i \in DOMAIN batch[w] : batch[w][i].time < t
  <2> SUFFICES ASSUME NEW t \in 1 .. closed'
               PROVE  \/ t \in Times(batch[w]) \/ t \in missed'
                      \/ t <= LastTime /\ \A i \in DOMAIN batch[w] : t < batch[w][i].time
                      \/ \A i \in DOMAIN batch[w] : batch[w][i].time < t
    OBVIOUS
  <2>1. t \in 1 .. closed \/ t > closed
    OBVIOUS
  <2>2. CASE t > closed
    BY <1>2, <2>2
  <2> QED BY <2>1, <2>2 DEF BatchFits
<1> QED BY <1>1, <1>3, <1>4, <1>5 DEF BatchFits

LEMMA StoreInvInit == Init => StoreInv
<1> SUFFICES ASSUME Init PROVE StoreInv
  OBVIOUS
<1>1. <<>> \in Seq(Bars) /\ <<>> \in Seq(Bars \union {Garbled}) /\ DOMAIN <<>> = {}
  OBVIOUS
<1>2. TypeOK
  <2>1. NoLayout \in Layouts
    BY DEF NoLayout, Layouts
  <2>2. 0 \in 0 .. MaxBars /\ 0 \in 0 .. MaxRebases /\ 0 \in 0 .. MaxKills /\ 0 \in 0 .. MaxCuts
    BY OptionsAssumption
  <2> QED BY <1>1, <2>1, <2>2 DEF Init, TypeOK, PCs
<1>3. FileFits
  <2>1. recs = <<>> /\ LastTime = 0 /\ Times(recs) = {} /\ 1 .. 0 = {}
    BY <1>1 DEF Init, LastTime, Times
  <2>2. Sorted /\ OneBasis /\ FetchedBarsAreSound
    BY <1>1, <2>1 DEF Sorted, Ascending, OneBasis, FetchedBarsAreSound, Sound
  <2> QED BY <1>1, <2>1, <2>2 DEF FileFits, Gapless
<1>4. \A w \in Writers : pc[w] = "idle"
  BY DEF Init
<1> QED BY <1>2, <1>3, <1>4 DEF StoreInv, OneWriter, WriterFits

-----------------------------------------------------------------------------
(* Writers that take turns.                                                *)

\* Only one writer is at work, and it moves.
LEMMA OthersAreIdle ==
    ASSUME TypeOK, NEW w \in Writers, \A v \in Writers \ {w} : pc[v] = "idle",
           NEW p \in PCs, Goto(w, p)
    PROVE  /\ pc' \in [Writers -> PCs] /\ pc'[w] = p
           /\ OneWriter'
           /\ \A v \in Writers \ {w} : WriterFits(v)'
<1>1. pc \in [Writers -> PCs]
  BY DEF TypeOK
<1>2. pc' \in [Writers -> PCs] /\ pc'[w] = p /\ \A v \in Writers \ {w} : pc'[v] = "idle"
  BY <1>1 DEF Goto
<1> QED BY <1>2 DEF OneWriter, WriterFits

\* ... or leaves.
LEMMA LeaveIs ==
    ASSUME TypeOK, NEW w \in Writers, \A v \in Writers \ {w} : pc[v] = "idle", Leave(w)
    PROVE  /\ OneWriter' /\ \A v \in Writers : WriterFits(v)'
           /\ pc' \in [Writers -> PCs] /\ layout' \in [Writers -> Layouts]
           /\ batch' \in [Writers -> Seq(Bars)] /\ fresh' \in [Writers -> Seq(Bars)]
<1>1. pc' \in [Writers -> PCs] /\ \A v \in Writers : pc'[v] = "idle"
  BY DEF TypeOK, Leave, Goto, PCs
<1>2. NoLayout \in Layouts /\ <<>> \in Seq(Bars)
  BY DEF NoLayout, Layouts
<1>3. layout' \in [Writers -> Layouts]
  BY <1>2 DEF TypeOK, Leave
<1>4. batch' \in [Writers -> Seq(Bars)] /\ fresh' \in [Writers -> Seq(Bars)]
  BY <1>2 DEF TypeOK, Leave
<1> QED BY <1>1, <1>3, <1>4 DEF OneWriter, WriterFits

LEMMA AtWorkAlone ==
    ASSUME OneWriter, NEW w \in Writers, pc[w] # "idle"
    PROVE  \A v \in Writers \ {w} : pc[v] = "idle"
BY DEF OneWriter

\* A writer that leaves without a write changes nothing.
LEMMA LeavingKeeps ==
    ASSUME StoreInv, NEW w \in Writers, pc[w] # "idle", Leave(w),
           UNCHANGED <<closed, basis, file, origin, losses>>, kills' \in 0 .. MaxKills
    PROVE  StoreInv'
<1>1. /\ UNCHANGED <<closed, basis, header, recs, tail, authors, blind, missed, cuts>>
      /\ \A v \in Writers \ {w} : pc[v] = "idle"
  BY AtWorkAlone DEF StoreInv, file, origin, losses
<1>2. /\ OneWriter' /\ \A v \in Writers : WriterFits(v)'
      /\ pc' \in [Writers -> PCs] /\ layout' \in [Writers -> Layouts]
      /\ batch' \in [Writers -> Seq(Bars)] /\ fresh' \in [Writers -> Seq(Bars)]
  BY <1>1, LeaveIs DEF StoreInv
<1>3. TypeOK'
  BY <1>1, <1>2 DEF StoreInv, TypeOK
<1>4. FileFits'
  <2>1. closed \in Nat
    BY OptionsAssumption DEF StoreInv, TypeOK
  <2> QED BY <1>1, <2>1, FileKept DEF StoreInv
<1> QED BY <1>2, <1>3, <1>4 DEF StoreInv

LEMMA VenueKeeps ==
    ASSUME StoreInv, CloseBar \/ Rebase \/ UNCHANGED vars
    PROVE  StoreInv'
<1>1. /\ UNCHANGED <<header, recs, tail, pc, batch, layout, fresh, authors, blind, missed, cuts, kills>>
      /\ basis' \in 0 .. MaxRebases
      /\ closed \in Nat /\ closed' \in {closed, closed + 1} /\ closed' \in 0 .. MaxBars
  BY OptionsAssumption
     DEF StoreInv, TypeOK, CloseBar, Rebase, vars, file, locals, origin, losses
<1>2. TypeOK'
  BY <1>1 DEF StoreInv, TypeOK
<1>3. FileFits'
  BY <1>1, FileKept DEF StoreInv
<1>4. OneWriter'
  BY <1>1 DEF StoreInv, OneWriter
<1>5. ASSUME NEW w \in Writers PROVE WriterFits(w)'
  <2>1. batch[w] \in Seq(Bars) /\ WriterFits(w)
    BY DEF StoreInv, TypeOK
  <2>2. BatchFits(w) => BatchFits(w)'
    BY <1>1, <2>1, BatchKept
  <2>3. LastTime' = LastTime /\ (~Disagrees(batch[w]) => ~Disagrees(batch[w])')
    BY <1>1 DEF LastTime, Disagrees
  <2>4. NewerThan(LastTime, batch[w])' = NewerThan(LastTime, batch[w])
    BY <1>1, <2>3 DEF NewerThan
  <2>5. (Sound(batch[w]) => Sound(batch[w])') /\ (Sound(fresh[w]) => Sound(fresh[w])')
    BY <1>1 DEF Sound
  <2> QED BY <1>1, <2>1, <2>2, <2>3, <2>4, <2>5 DEF WriterFits
<1> QED BY <1>2, <1>3, <1>4, <1>5 DEF StoreInv

\* What a fetch gets, or misses, joins what is stored.
LEMMA FetchKeeps ==
    ASSUME TakeTurns, StoreInv, NEW w \in Writers, Fetch(w)
    PROVE  StoreInv'
<1>1. /\ TypeOK /\ FileFits /\ pc[w] = "idle"
      /\ UNCHANGED <<closed, basis, header, recs, tail, layout, fresh, authors, blind, kills>>
      /\ Goto(w, IF w \in Fetchers /\ header # "none" THEN "compare" ELSE "inspect")
      /\ \A v \in Writers \ {w} : pc[v] = "idle"
  BY DEF StoreInv, Fetch, file, origin
<1>2. PICK n \in Nat : n = LastTime
  BY <1>1, LastTimeIs DEF FileFits, Gapless
<1>3. closed \in Nat
  BY <1>1, OptionsAssumption DEF TypeOK
<1>4. PICK s \in Nat : \E bars : /\ s <= n
                                 /\ bars = Served(s) \/ bars \in Partial(s)
                                 /\ Get(w, bars, s) /\ cuts' \in 0 .. MaxCuts
  <2>1. PICK back \in IF w \in Fetchers THEN Overlaps ELSE {0} :
          LET from == IF header # "ok" \/ LastTime < back THEN 0 ELSE LastTime - back
          IN  \/ Get(w, Served(from), from) /\ UNCHANGED cuts
              \/ \E bars \in Partial(from) :
                       Get(w, bars, from) /\ cuts < MaxCuts /\ cuts' = cuts + 1
    BY DEF Fetch
  <2>2. back \in Nat
    BY <2>1, OptionsAssumption
  <2>3. PICK s \in Nat : s = (IF header # "ok" \/ n < back THEN 0 ELSE n - back) /\ s <= n
    BY <2>2
  <2>4. \/ Get(w, Served(s), s) /\ UNCHANGED cuts
        \/ \E bars \in Partial(s) : Get(w, bars, s) /\ cuts < MaxCuts /\ cuts' = cuts + 1
    BY <1>2, <2>1, <2>3
  <2>5. cuts \in 0 .. MaxCuts /\ MaxCuts \in Nat
    BY <1>1, OptionsAssumption DEF TypeOK
  <2> QED BY <2>3, <2>4, <2>5
<1>5. PICK bars : /\ s <= n
                  /\ bars = Served(s) \/ bars \in Partial(s)
                  /\ Get(w, bars, s) /\ cuts' \in 0 .. MaxCuts
  BY <1>4
<1>6. /\ bars \in Seq(Bars) /\ bars # <<>> /\ Ascending(bars) /\ SameBasis(bars)
      /\ Times(bars) \subseteq s + 1 .. closed
      /\ batch' = [batch EXCEPT ![w] = bars]
      /\ missed' = missed \union ((s + 1 .. closed) \ Times(bars))
  BY <1>1, <1>5, AnswerIs DEF Get
<1>7. batch' \in [Writers -> Seq(Bars)] /\ batch'[w] = bars
  BY <1>1, <1>6 DEF TypeOK
<1>8. TypeOK' /\ OneWriter' /\ \A v \in Writers \ {w} : WriterFits(v)'
  <2>1. /\ pc' \in [Writers -> PCs] /\ OneWriter' /\ \A v \in Writers \ {w} : WriterFits(v)'
    BY <1>1, OthersAreIdle DEF PCs
  <2>2. s + 1 .. closed \subseteq 1 .. MaxBars
    BY <1>1, <1>3, OptionsAssumption DEF TypeOK
  <2>3. missed' \subseteq 1 .. MaxBars
    BY <1>1, <1>6, <2>2 DEF TypeOK
  <2>4. TypeOK'
    BY <1>1, <1>5, <1>7, <2>1, <2>3 DEF TypeOK
  <2> QED BY <2>1, <2>4
<1>9. FileFits'
  BY <1>1, <1>3, <1>6, FileKept
<1>10. BatchFits(w)'
  <2>1. Ascending(batch[w])' /\ SameBasis(batch[w])' /\ batch'[w] # <<>>
    BY <1>6, <1>7 DEF Ascending, SameBasis
  <2>2. Times(batch[w])' = Times(bars) /\ LastTime' = n
    BY <1>1, <1>2, <1>7 DEF Times, LastTime
  <2>3. \A i \in DOMAIN bars : bars[i].time \in s + 1 .. closed
    BY <1>6 DEF Times
  <2>4. ASSUME NEW t \in 1 .. closed
        PROVE  \/ t \in Times(bars) \/ t \in missed'
               \/ t <= n /\ \A i \in DOMAIN bars : t < bars[i].time
    <3>1. CASE t <= s
      <4>1. t <= n
        BY <1>5, <3>1
      <4>2. \A i \in DOMAIN bars : t < bars[i].time
        BY <2>3, <3>1
      <4> QED BY <4>1, <4>2
    <3>2. CASE t > s
      <4>1. t \in s + 1 .. closed
        BY <3>2
      <4> QED BY <1>6, <4>1
    <3> QED BY <3>1, <3>2
  <2>5. Times(bars) \subseteq 1 .. closed
    BY <1>3, <1>6
  <2> QED BY <1>1, <1>7, <2>1, <2>2, <2>4, <2>5 DEF BatchFits
<1>11. WriterFits(w)'
  <2>1. pc'[w] = IF w \in Fetchers /\ header # "none" THEN "compare" ELSE "inspect"
    BY <1>1 DEF TypeOK, Goto
  <2>2. w \in Fetchers /\ pc'[w] = "inspect" => recs' = <<>>
    BY <1>1, <2>1 DEF FileFits
  <2>3. w \in Fetchers /\ pc'[w] = "inspect" => ~Disagrees(batch[w])'
    BY <2>2 DEF Disagrees
  <2> QED BY <1>10, <2>1, <2>3 DEF WriterFits
<1> QED BY <1>8, <1>9, <1>11 DEF StoreInv

LEMMA CompareKeeps ==
    ASSUME StoreInv, NEW w \in Writers, Compare(w)
    PROVE  StoreInv'
<1>1. /\ TypeOK /\ FileFits /\ pc[w] = "compare" /\ WriterFits(w)
      /\ UNCHANGED <<closed, basis, header, recs, tail, authors, blind, missed, cuts, kills>>
      /\ \A v \in Writers \ {w} : pc[v] = "idle"
  BY AtWorkAlone DEF StoreInv, Compare, file, origin, losses
<1>2. CASE Leave(w)
  <2>1. UNCHANGED <<closed, basis, file, origin, losses>> /\ kills' \in 0 .. MaxKills /\ pc[w] # "idle"
    BY <1>1 DEF file, origin, losses, TypeOK
  <2> QED BY <1>2, <2>1, LeavingKeeps
<1>3. CASE ~Leave(w)
  <2>1. PICK p \in {"inspect", "publish"} :
            /\ Goto(w, p) /\ UNCHANGED <<batch, layout, fresh>>
            /\ IF p = "inspect" THEN ~Disagrees(batch[w])
               ELSE Disagrees(batch[w]) /\ Sound(batch[w]) /\ batch[w][1].time <= recs[1].time
    BY <1>3 DEF Compare, locals
  <2>2. pc' \in [Writers -> PCs] /\ pc'[w] = p /\ OneWriter' /\ \A v \in Writers \ {w} : WriterFits(v)'
    BY <1>1, <2>1, OthersAreIdle DEF PCs
  <2>3. TypeOK'
    BY <1>1, <2>1, <2>2 DEF TypeOK
  <2>4. closed \in Nat /\ batch[w] \in Seq(Bars)
    BY <1>1, OptionsAssumption DEF TypeOK
  <2>5. FileFits'
    BY <1>1, <2>4, FileKept
  <2>6. BatchFits(w)' /\ w \in Fetchers
    BY <1>1, <2>1, <2>4, BatchKept DEF WriterFits
  <2>7. p = "inspect" => ~Disagrees(batch[w])'
    BY <1>1, <2>1 DEF Disagrees
  <2>8. p = "publish" => Sound(batch[w])' /\ recs' # <<>> /\ batch'[w][1].time <= recs'[1].time
    BY <1>1, <2>1 DEF Disagrees, Sound
  <2>9. WriterFits(w)'
    BY <2>1, <2>2, <2>6, <2>7, <2>8 DEF WriterFits
  <2> QED BY <2>2, <2>3, <2>5, <2>9 DEF StoreInv
<1> QED BY <1>2, <1>3

\* --repair writes a history on one basis that reaches back as far.
LEMMA PublishKeeps ==
    ASSUME StoreInv, NEW w \in Writers, Publish(w)
    PROVE  StoreInv'
<1>1. /\ TypeOK /\ FileFits /\ pc[w] = "publish" /\ WriterFits(w) /\ Leave(w)
      /\ UNCHANGED <<closed, basis, missed, cuts, kills>>
      /\ header' = "ok" /\ recs' = batch[w] /\ tail' = FALSE /\ authors' = {w} /\ blind' = FALSE
      /\ \A v \in Writers \ {w} : pc[v] = "idle"
  BY AtWorkAlone DEF StoreInv, Publish, losses
<1>2. PICK bars \in Seq(Bars) : bars = batch[w]
  BY <1>1 DEF TypeOK
<1>3. BatchFits(w) /\ Sound(bars) /\ recs # <<>> /\ bars[1].time <= recs[1].time
  BY <1>1, <1>2 DEF WriterFits
<1>4. /\ OneWriter' /\ \A v \in Writers : WriterFits(v)'
      /\ pc' \in [Writers -> PCs] /\ layout' \in [Writers -> Layouts]
      /\ batch' \in [Writers -> Seq(Bars)] /\ fresh' \in [Writers -> Seq(Bars)]
  BY <1>1, LeaveIs
<1>5. TypeOK'
  <2>1. bars \in Seq(Bars \union {Garbled})
    OBVIOUS
  <2> QED BY <1>1, <1>2, <1>4, <2>1 DEF TypeOK
<1>6. Sorted' /\ OneBasis' /\ FetchedBarsAreSound'
  BY <1>1, <1>2, <1>3 DEF BatchFits, Ascending, Sorted, OneBasis, FetchedBarsAreSound, SameBasis, Sound
<1>7. Times(recs)' = Times(bars) /\ Times(bars) \subseteq 1 .. closed
  BY <1>1, <1>2, <1>3 DEF BatchFits, Times
<1>8. PICK o \in Nat : o = LastTime' /\ o \in Times(bars)
  <2>1. recs' \in Seq(Bars) /\ recs' # <<>>
    BY <1>1, <1>2, <1>3 DEF BatchFits
  <2>2. LastTime' \in Nat /\ LastTime' \in Times(recs)'
    <3>1. Len(bars) \in DOMAIN bars /\ LastTime' = bars[Len(bars)].time
      BY <1>1, <1>2, <2>1 DEF LastTime, Last
    <3> QED BY <1>7, <3>1, BarIs DEF Times
  <2> QED BY <1>7, <2>2
<1>9. ASSUME NEW t \in 1 .. o PROVE t \in Times(bars) \union missed
  <2>1. /\ recs \in Seq(Bars) /\ Sorted /\ Times(recs) \subseteq 1 .. closed
        /\ 1 .. LastTime \subseteq Times(recs) \union missed
    BY <1>1 DEF FileFits, Gapless
  <2>2. o <= closed /\ closed \in Nat
    BY <1>1, <1>7, <1>8, OptionsAssumption DEF TypeOK
  <2>3. \/ t \in Times(bars) \/ t \in missed
        \/ t <= LastTime /\ \A i \in DOMAIN bars : t < bars[i].time
        \/ \A i \in DOMAIN bars : bars[i].time < t
    BY <1>2, <1>3, <2>2 DEF BatchFits
  <2>4. ~\A i \in DOMAIN bars : bars[i].time < t
    BY <1>8 DEF Times
  <2>5. CASE t <= LastTime /\ \A i \in DOMAIN bars : t < bars[i].time
    <3>1. LastTime \in Nat /\ t \in 1 .. LastTime
      BY <2>1, <2>5, LastTimeIs
    <3>2. 1 \in DOMAIN bars /\ 1 \in DOMAIN recs
      BY <1>2, <1>3, <2>1 DEF BatchFits
    <3>3. recs[1].time \in Nat /\ bars[1].time \in Nat
      BY <2>1, <3>2, BarIs
    <3>4. t < recs[1].time
      BY <1>3, <2>5, <3>2, <3>3
    <3>5. \A i \in DOMAIN recs : recs[1].time <= recs[i].time
      <4> SUFFICES ASSUME NEW i \in DOMAIN recs PROVE recs[1].time <= recs[i].time
        OBVIOUS
      <4>1. recs[i].time \in Nat /\ i \in Nat /\ (i = 1 \/ 1 < i)
        BY <2>1, BarIs
      <4> QED BY <2>1, <3>2, <3>3, <4>1 DEF Sorted, Ascending
    <3>6. t \notin Times(recs)
      <4> SUFFICES ASSUME NEW i \in DOMAIN recs, t = recs[i].time PROVE FALSE
        BY DEF Times
      <4> QED BY <3>3, <3>4, <3>5
    <3> QED BY <2>1, <3>1, <3>6
  <2> QED BY <2>3, <2>4, <2>5
<1>10. Gapless'
  BY <1>1, <1>6, <1>7, <1>8, <1>9 DEF Gapless
<1>11. FileFits'
  BY <1>1, <1>2, <1>6, <1>10 DEF FileFits
<1> QED BY <1>4, <1>5, <1>11 DEF StoreInv

LEMMA InspectKeeps ==
    ASSUME StoreInv, NEW w \in Writers, Inspect(w)
    PROVE  StoreInv'
<1>1. /\ TypeOK /\ FileFits /\ pc[w] = "inspect" /\ WriterFits(w)
      /\ UNCHANGED <<closed, basis, header, recs, tail, authors, blind, missed, cuts, kills>>
      /\ \A v \in Writers \ {w} : pc[v] = "idle"
  BY AtWorkAlone DEF StoreInv, Inspect, file, origin, losses
<1>2. CASE Leave(w)
  <2>1. UNCHANGED <<closed, basis, file, origin, losses>> /\ kills' \in 0 .. MaxKills /\ pc[w] # "idle"
    BY <1>1 DEF file, origin, losses, TypeOK
  <2> QED BY <1>2, <2>1, LeavingKeeps
<1>3. CASE ~Leave(w)
  <2>1. /\ Goto(w, "last") /\ header # "junk" /\ ~tail /\ UNCHANGED <<batch, fresh>>
        /\ layout' = [layout EXCEPT ![w] = [header |-> header, count |-> Len(recs)]]
    BY <1>3 DEF Inspect
  <2>2. pc' \in [Writers -> PCs] /\ pc'[w] = "last" /\ OneWriter' /\ \A v \in Writers \ {w} : WriterFits(v)'
    BY <1>1, <2>1, OthersAreIdle DEF PCs
  <2>3. PICK n \in Nat : n = Len(recs)
    BY <1>1 DEF TypeOK
  <2>4. [header |-> header, count |-> n] \in Layouts
    BY <1>1, <2>1 DEF Layouts, TypeOK
  <2>5. layout' \in [Writers -> Layouts] /\ layout'[w] = [header |-> header, count |-> n]
    BY <1>1, <2>1, <2>3, <2>4 DEF TypeOK
  <2>6. TypeOK'
    BY <1>1, <2>1, <2>2, <2>5 DEF TypeOK
  <2>7. closed \in Nat /\ batch[w] \in Seq(Bars)
    BY <1>1, OptionsAssumption DEF TypeOK
  <2>8. FileFits'
    BY <1>1, <2>7, FileKept
  <2>9. BatchFits(w)'
    BY <1>1, <2>1, <2>7, BatchKept DEF WriterFits
  <2>10. w \in Fetchers => ~Disagrees(batch[w])'
    BY <1>1, <2>1 DEF WriterFits, Disagrees
  <2>11. layout'[w].count = Len(recs)' /\ layout'[w].header = header' /\ ~tail' /\ header' # "junk"
    BY <1>1, <2>1, <2>3, <2>5
  <2>12. WriterFits(w)'
    BY <2>2, <2>9, <2>10, <2>11 DEF WriterFits
  <2> QED BY <2>2, <2>6, <2>8, <2>12 DEF StoreInv
<1> QED BY <1>2, <1>3

\* What is newer than the last record is kept.
LEMMA ReadLastKeeps ==
    ASSUME StoreInv, NEW w \in Writers, ReadLast(w)
    PROVE  StoreInv'
<1>1. /\ TypeOK /\ FileFits /\ pc[w] = "last" /\ WriterFits(w)
      /\ UNCHANGED <<closed, basis, header, recs, tail, authors, blind, missed, cuts, kills>>
      /\ \A v \in Writers \ {w} : pc[v] = "idle"
  BY AtWorkAlone DEF StoreInv, ReadLast, file, origin, losses
<1>2. CASE Leave(w)
  <2>1. UNCHANGED <<closed, basis, file, origin, losses>> /\ kills' \in 0 .. MaxKills /\ pc[w] # "idle"
    BY <1>1 DEF file, origin, losses, TypeOK
  <2> QED BY <1>2, <2>1, LeavingKeeps
<1>3. CASE ~Leave(w)
  <2>1. (IF layout[w].count > 0 THEN LastTime ELSE 0) = LastTime
    <3>1. Len(recs) \in Nat /\ layout[w].count = Len(recs) /\ (recs = <<>> => LastTime = 0)
      BY <1>1, LastTimeIs DEF WriterFits, FileFits, Gapless
    <3>2. recs # <<>> => Len(recs) > 0
      BY <1>1 DEF TypeOK
    <3> QED BY <3>1, <3>2
  <2>2. PICK new : new = NewerThan(LastTime, batch[w])
    OBVIOUS
  <2>3. /\ Goto(w, "write") /\ UNCHANGED <<batch, layout>> /\ fresh' = [fresh EXCEPT ![w] = new]
        /\ new # <<>> /\ (w \in Fetchers => Sound(new))
    BY <1>3, <2>1, <2>2 DEF ReadLast
  <2>4. pc' \in [Writers -> PCs] /\ pc'[w] = "write" /\ OneWriter' /\ \A v \in Writers \ {w} : WriterFits(v)'
    BY <1>1, <2>3, OthersAreIdle DEF PCs
  <2>5. closed \in Nat /\ batch[w] \in Seq(Bars) /\ BatchFits(w)
    BY <1>1, OptionsAssumption DEF TypeOK, WriterFits
  <2>6. new \in Seq(Bars)
    <3>1. LastTime \in Nat
      BY <1>1, LastTimeIs DEF FileFits, Gapless
    <3> QED BY <2>2, <2>5, <3>1, NewerIs DEF BatchFits
  <2>7. fresh' \in [Writers -> Seq(Bars)] /\ fresh'[w] = new
    BY <1>1, <2>3, <2>6 DEF TypeOK
  <2>8. TypeOK'
    BY <1>1, <2>3, <2>4, <2>7 DEF TypeOK
  <2>9. FileFits'
    BY <1>1, <2>5, FileKept
  <2>10. BatchFits(w)'
    BY <1>1, <2>3, <2>5, BatchKept
  <2>11. NewerThan(LastTime, batch[w])' = new
    BY <1>1, <2>2, <2>3 DEF NewerThan, LastTime
  <2>12. /\ w \in Fetchers => ~Disagrees(batch[w])' /\ Sound(fresh[w])'
    BY <1>1, <2>3, <2>7 DEF WriterFits, Disagrees, Sound
  <2>13. layout'[w].count = Len(recs)' /\ layout'[w].header = header' /\ ~tail' /\ header' # "junk"
    BY <1>1, <2>3 DEF WriterFits
  <2>14. WriterFits(w)'
    BY <2>3, <2>4, <2>7, <2>10, <2>11, <2>12, <2>13 DEF WriterFits
  <2> QED BY <2>4, <2>8, <2>9, <2>14 DEF StoreInv
<1> QED BY <1>2, <1>3

\* What is written, all of it or its first bars, follows what is stored; and
\* `fetch` has compared the two, if there was a bar in both.
LEMMA AppendFits ==
    ASSUME StoreInv, NEW w \in Writers, pc[w] = "write",
           NEW k \in 0 .. Len(fresh[w]),
           header' = "ok", recs' = Overlay(layout[w].count, SubSeq(fresh[w], 1, k)),
           Sign(w), closed' = closed, missed' = missed
    PROVE  FileFits' /\ recs' \in Seq(Bars \union {Garbled})
<1>1. /\ TypeOK /\ FileFits /\ BatchFits(w) /\ layout[w].count = Len(recs)
      /\ fresh[w] = NewerThan(LastTime, batch[w])
      /\ w \in Fetchers => Sound(fresh[w]) /\ ~Disagrees(batch[w])
  BY DEF StoreInv, WriterFits
<1>2. PICK old \in Seq(Bars), n \in Nat, last \in Nat :
          old = recs /\ n = Len(old) /\ DOMAIN old = 1 .. n /\ last = LastTime
  BY <1>1, LastTimeIs DEF FileFits, Gapless
<1>3. PICK bars \in Seq(Bars), m \in Nat : bars = fresh[w] /\ m = Len(bars) /\ DOMAIN bars = 1 .. m /\ k <= m
  BY <1>1 DEF TypeOK
<1>4. PICK new \in Seq(Bars) : /\ new = SubSeq(bars, 1, k) /\ Len(new) = k /\ DOMAIN new = 1 .. k
                               /\ \A i \in 1 .. k : new[i] = bars[i]
  <2>1. SubSeq(bars, 1, k) \in Seq(Bars) /\ Len(SubSeq(bars, 1, k)) = k
        /\ \A i \in 1 .. k : SubSeq(bars, 1, k)[i] = bars[i]
    BY <1>3, PrefixIs
  <2>2. PICK new \in Seq(Bars) : new = SubSeq(bars, 1, k)
    BY <2>1
  <2>3. DOMAIN new = 1 .. k
    BY <1>3, <2>1, <2>2
  <2> QED BY <2>1, <2>2, <2>3
<1>5. PICK both \in Seq(Bars) :
          /\ recs' = both /\ Len(both) = n + k
          /\ \A i \in 1 .. n : both[i] = old[i]
          /\ \A i \in 1 .. k : both[n + i] = bars[i]
  <2>1. recs' = Overlay(Len(old), new)
    BY <1>1, <1>2, <1>3, <1>4
  <2>2. /\ Overlay(Len(old), new) \in Seq(Bars)
        /\ Len(Overlay(Len(old), new)) = Len(old) + Len(new)
        /\ \A i \in 1 .. Len(old) : Overlay(Len(old), new)[i] = old[i]
        /\ \A i \in 1 .. Len(new) : Overlay(Len(old), new)[Len(old) + i] = new[i]
    BY <1>2, OverlayIs
  <2>3. PICK both \in Seq(Bars) : both = Overlay(Len(old), new)
    BY <2>2
  <2> QED BY <1>2, <1>4, <2>1, <2>2, <2>3
<1>6. DOMAIN both = 1 .. (n + k)
  BY <1>5
<1>7. \A i \in 1 .. (n + k) : i \in 1 .. n \/ \E j \in 1 .. k : i = n + j
  <2> SUFFICES ASSUME NEW i \in 1 .. (n + k), i \notin 1 .. n PROVE \E j \in 1 .. k : i = n + j
    OBVIOUS
  <2>1. i - n \in 1 .. k /\ i = n + (i - n)
    OBVIOUS
  <2> QED BY <2>1
<1>8. PICK got \in Seq(Bars) : got = batch[w]
  BY <1>1 DEF TypeOK
<1>9. /\ Ascending(bars) /\ Times(bars) = {u \in Times(got) : u > last}
      /\ \A i \in DOMAIN bars : \E j \in DOMAIN got : bars[i] = got[j]
  <2>1. Ascending(got)
    BY <1>1, <1>8 DEF BatchFits
  <2>2. bars = NewerThan(last, got)
    BY <1>1, <1>2, <1>3, <1>8
  <2> QED BY <2>1, <2>2, NewerIs
<1>10. \A i \in 1 .. k : /\ i \in DOMAIN bars /\ bars[i].time \in Times(bars)
                         /\ bars[i].time \in Nat /\ bars[i].time > last
                         /\ bars[i].time \in 1 .. closed
  <2> SUFFICES ASSUME NEW i \in 1 .. k
               PROVE  /\ i \in DOMAIN bars /\ bars[i].time \in Times(bars)
                      /\ bars[i].time \in Nat /\ bars[i].time > last
                      /\ bars[i].time \in 1 .. closed
    OBVIOUS
  <2>1. i \in DOMAIN bars
    BY <1>3
  <2>2. bars[i].time \in Times(bars) /\ bars[i].time \in Nat
    BY <2>1, BarIs DEF Times
  <2>3. bars[i].time > last /\ bars[i].time \in Times(got)
    BY <1>9, <2>2
  <2>4. bars[i].time \in 1 .. closed
    BY <1>1, <1>8, <2>3 DEF BatchFits
  <2> QED BY <2>1, <2>2, <2>3, <2>4
<1>11. \A i \in 1 .. n : /\ i \in DOMAIN recs /\ old[i].time <= last /\ old[i].time \in Nat
                         /\ old[i].time \in Times(recs) /\ old[i].time \in 1 .. closed
  <2> SUFFICES ASSUME NEW i \in 1 .. n
               PROVE  /\ i \in DOMAIN recs /\ old[i].time <= last /\ old[i].time \in Nat
                      /\ old[i].time \in Times(recs) /\ old[i].time \in 1 .. closed
    OBVIOUS
  <2>1. i \in DOMAIN recs /\ recs[i] = old[i]
    BY <1>2
  <2>2. old[i].time <= last /\ old[i].time \in Nat
    BY <1>1, <1>2, <2>1, LastTimeIs, BarIs DEF FileFits, Gapless
  <2>3. old[i].time \in Times(recs)
    BY <2>1 DEF Times
  <2>4. old[i].time \in 1 .. closed
    BY <1>1, <2>3 DEF FileFits, Gapless
  <2> QED BY <2>1, <2>2, <2>3, <2>4
<1>12. Sorted'
  <2> SUFFICES ASSUME NEW i \in 1 .. (n + k), NEW j \in 1 .. (n + k), i < j
               PROVE  both[i].time < both[j].time
    BY <1>5, <1>6 DEF Sorted, Ascending
  <2>1. CASE j \in 1 .. n
    <3>1. i \in 1 .. n
      BY <2>1
    <3>2. old[i].time < old[j].time
      BY <1>1, <1>2, <2>1, <3>1 DEF FileFits, Gapless, Sorted, Ascending
    <3> QED BY <1>5, <2>1, <3>1, <3>2
  <2>2. ASSUME NEW b \in 1 .. k, j = n + b PROVE both[i].time < both[j].time
    <3>1. both[j] = bars[b] /\ bars[b].time \in Nat /\ bars[b].time > last /\ b \in DOMAIN bars
      BY <1>5, <1>10, <2>2
    <3>2. CASE i \in 1 .. n
      <4>1. both[i].time <= last /\ both[i].time \in Nat
        BY <1>5, <1>11, <3>2
      <4>2. both[j].time \in Nat /\ last < both[j].time
        BY <3>1
      <4> QED BY <4>1, <4>2
    <3>3. ASSUME NEW a \in 1 .. k, i = n + a PROVE both[i].time < both[j].time
      <4>1. both[i] = bars[a] /\ a \in DOMAIN bars /\ a < b
        BY <1>5, <1>10, <2>2, <3>3
      <4> QED BY <1>9, <3>1, <4>1 DEF Ascending
    <3> QED BY <1>7, <3>2, <3>3
  <2> QED BY <1>7, <2>1, <2>2
<1>13. Times(both) \subseteq 1 .. closed
  <2> SUFFICES ASSUME NEW i \in 1 .. (n + k) PROVE both[i].time \in 1 .. closed
    BY <1>6 DEF Times
  <2>1. CASE i \in 1 .. n
    BY <1>5, <1>11, <2>1
  <2>2. ASSUME NEW b \in 1 .. k, i = n + b PROVE both[i].time \in 1 .. closed
    BY <1>5, <1>10, <2>2
  <2> QED BY <1>7, <2>1, <2>2
<1>14. Times(recs) \subseteq Times(both)
  <2> SUFFICES ASSUME NEW i \in 1 .. n PROVE old[i].time \in Times(both)
    BY <1>2 DEF Times
  <2>1. i \in 1 .. (n + k) /\ both[i] = old[i]
    BY <1>5
  <2> QED BY <1>6, <2>1 DEF Times
<1>15. \A i \in 1 .. k : bars[i].time \in Times(both)
  <2> SUFFICES ASSUME NEW i \in 1 .. k PROVE bars[i].time \in Times(both)
    OBVIOUS
  <2>1. n + i \in 1 .. (n + k) /\ both[n + i] = bars[i]
    BY <1>5
  <2> QED BY <1>6, <2>1 DEF Times
<1>16. PICK o \in Nat : /\ o = LastTime'
                        /\ IF k > 0 THEN o = bars[k].time ELSE o = last
  <2>1. CASE k = 0
    <3>1. \A i \in 1 .. n : both[i] = old[i]
      BY <1>5
    <3>2. Len(both) = n /\ DOMAIN both = 1 .. n
      BY <1>5, <1>6, <2>1
    <3>3. both = old
      BY <1>2, <3>1, <3>2, SMTT(30)
    <3>4. LastTime' = last
      BY <1>2, <1>5, <3>3 DEF LastTime
    <3> QED BY <2>1, <3>4
  <2>2. CASE k > 0
    <3>1. k \in 1 .. k /\ n + k > 0
      BY <2>2
    <3>2. both # <<>> /\ Last(both) = both[n + k]
      BY <1>5, <3>1 DEF Last
    <3>3. both[n + k] = bars[k] /\ bars[k].time \in Nat
      BY <1>5, <1>10, <3>1
    <3>4. LastTime' = bars[k].time
      BY <1>5, <3>2, <3>3 DEF LastTime
    <3> QED BY <2>2, <3>3, <3>4
  <2> QED BY <2>1, <2>2
<1>17. ASSUME NEW t \in 1 .. o PROVE t \in Times(both) \union missed
  <2>1. CASE t <= last
    <3>1. t \in 1 .. LastTime
      BY <1>2, <2>1
    <3> QED BY <1>1, <1>14, <3>1 DEF FileFits, Gapless
  <2>2. CASE t > last
    <3>1. k \in 1 .. k /\ o = bars[k].time
      BY <1>16, <2>2
    <3>2. k \in DOMAIN bars /\ bars[k].time \in Nat /\ bars[k].time \in 1 .. closed /\ bars[k].time > last
      BY <1>10, <3>1
    <3>3. PICK g \in DOMAIN got : got[g] = bars[k]
      BY <1>9, <3>2
    <3>4. t \in 1 .. closed
      BY <1>1, <3>1, <3>2, OptionsAssumption DEF TypeOK
    <3>5. \/ t \in Times(got) \/ t \in missed
          \/ t <= last /\ \A i \in DOMAIN got : t < got[i].time
          \/ \A i \in DOMAIN got : got[i].time < t
      BY <1>1, <1>2, <1>8, <3>4 DEF BatchFits
    <3>6. ~\A i \in DOMAIN got : got[i].time < t
      BY <3>1, <3>2, <3>3
    <3>7. CASE t \in Times(got)
      <4>1. t \in Times(bars)
        BY <1>9, <2>2, <3>7
      <4>2. PICK i \in 1 .. m : bars[i].time = t
        BY <1>3, <4>1 DEF Times
      <4>3. i <= k
        <5>1. SUFFICES ASSUME k < i PROVE FALSE
          OBVIOUS
        <5>2. bars[k].time < bars[i].time
          BY <1>3, <1>9, <3>2, <4>2, <5>1 DEF Ascending
        <5> QED BY <3>1, <3>2, <4>2, <5>2
      <4>4. i \in 1 .. k
        BY <4>3
      <4> QED BY <1>15, <4>2, <4>4
    <3> QED BY <2>2, <3>5, <3>6, <3>7
  <2> QED BY <2>1, <2>2
<1>18. Gapless'
  <2>1. Times(recs)' = Times(both)
    BY <1>5 DEF Times
  <2> QED BY <1>12, <1>13, <1>16, <1>17, <2>1 DEF Gapless
<1>19. OneBasis'
  <2>1. SUFFICES ASSUME authors' \subseteq Fetchers, ~blind'
                 PROVE  \A i, j \in 1 .. (n + k) : both[i].basis = both[j].basis
    BY <1>5, <1>6 DEF OneBasis
  <2>2. w \in Fetchers /\ authors \subseteq Fetchers /\ ~blind /\ ~Apart(got)
    BY <1>8, <2>1 DEF Sign
  <2>3. PICK b : \A i \in DOMAIN got : got[i].basis = b
    <3>1. \A i \in DOMAIN got : got[i].basis = got[1].basis
      <4>1. 1 \in DOMAIN got
        BY <1>1, <1>8 DEF BatchFits
      <4> QED BY <1>1, <1>8, <4>1 DEF BatchFits, SameBasis
    <3> QED BY <3>1
  <2>4. \A i \in 1 .. n : old[i].basis = b
    <3>1. SUFFICES ASSUME n > 0 PROVE \A i \in 1 .. n : old[i].basis = b
      OBVIOUS
    <3>2. recs # <<>>
      BY <1>2, <3>1
    <3>3. PICK g \in DOMAIN got, r \in DOMAIN recs : got[g].time = recs[r].time
      BY <2>2, <3>2 DEF Apart, Times
    <3>4. recs[r].basis = b
      BY <1>1, <1>8, <2>2, <2>3, <3>3 DEF Disagrees
    <3>5. \A i, j \in DOMAIN recs : recs[i].basis = recs[j].basis
      BY <1>1, <2>2 DEF FileFits, OneBasis
    <3> QED BY <1>2, <3>3, <3>4, <3>5
  <2>5. \A i \in 1 .. k : bars[i].basis = b
    BY <1>9, <1>10, <2>3
  <2>6. \A i \in 1 .. (n + k) : both[i].basis = b
    <3> SUFFICES ASSUME NEW i \in 1 .. (n + k) PROVE both[i].basis = b
      OBVIOUS
    <3>1. CASE i \in 1 .. n
      BY <1>5, <2>4, <3>1
    <3>2. ASSUME NEW c \in 1 .. k, i = n + c PROVE both[i].basis = b
      BY <1>5, <2>5, <3>2
    <3> QED BY <1>7, <3>1, <3>2
  <2> QED BY <2>6
<1>20. FetchedBarsAreSound'
  <2>1. SUFFICES ASSUME authors' \subseteq Fetchers
                 PROVE  \A i \in 1 .. (n + k) : both[i].time \notin BadBars
    BY <1>5, <1>6 DEF FetchedBarsAreSound, Sound
  <2>2. w \in Fetchers /\ authors \subseteq Fetchers
    BY <2>1 DEF Sign
  <2>3. \A i \in 1 .. n : old[i].time \notin BadBars
    BY <1>1, <1>2, <2>2 DEF FileFits, FetchedBarsAreSound, Sound
  <2>4. \A i \in 1 .. k : bars[i].time \notin BadBars
    BY <1>1, <1>3, <1>10, <2>2 DEF Sound
  <2> QED BY <1>5, <1>7, <2>3, <2>4
<1>21. both \in Seq(Bars \union {Garbled})
  OBVIOUS
<1> QED BY <1>5, <1>18, <1>19, <1>20, <1>21 DEF FileFits

LEMMA WriteKeeps ==
    ASSUME StoreInv, NEW w \in Writers, Write(w)
    PROVE  StoreInv'
<1>1. /\ TypeOK /\ pc[w] = "write" /\ Leave(w) /\ Sign(w)
      /\ UNCHANGED <<closed, basis, missed, cuts, kills>>
      /\ header' = "ok" /\ tail' \in BOOLEAN
      /\ recs' = Overlay(layout[w].count, fresh[w])
      /\ \A v \in Writers \ {w} : pc[v] = "idle"
  BY AtWorkAlone DEF StoreInv, Write, losses
<1>2. PICK bars \in Seq(Bars), m \in Nat : bars = fresh[w] /\ m = Len(bars)
  BY <1>1 DEF TypeOK
<1>3. SubSeq(bars, 1, m) = bars /\ m \in 0 .. Len(bars)
  BY <1>2
<1>4. FileFits' /\ recs' \in Seq(Bars \union {Garbled})
  BY <1>1, <1>2, <1>3, AppendFits
<1>5. /\ OneWriter' /\ \A v \in Writers : WriterFits(v)'
      /\ pc' \in [Writers -> PCs] /\ layout' \in [Writers -> Layouts]
      /\ batch' \in [Writers -> Seq(Bars)] /\ fresh' \in [Writers -> Seq(Bars)]
  BY <1>1, LeaveIs
<1>6. authors' \subseteq Writers /\ blind' \in BOOLEAN
  BY <1>1 DEF Sign, TypeOK
<1>7. TypeOK'
  BY <1>1, <1>4, <1>5, <1>6 DEF TypeOK
<1> QED BY <1>4, <1>5, <1>7 DEF StoreInv

\* A writer that is killed leaves the first of its bars, or a file of none.
LEMMA WriteCutKeeps ==
    ASSUME StoreInv, NEW w \in Writers, WriteCut(w)
    PROVE  StoreInv'
<1>1. /\ TypeOK /\ FileFits /\ pc[w] = "write" /\ Leave(w) /\ WriterFits(w) /\ Sign(w)
      /\ UNCHANGED <<closed, basis, missed, cuts>>
      /\ kills < MaxKills /\ kills' = kills + 1
      /\ \A v \in Writers \ {w} : pc[v] = "idle"
  BY AtWorkAlone DEF StoreInv, WriteCut, losses
<1>2. FileFits' /\ recs' \in Seq(Bars \union {Garbled}) /\ header' \in {"none", "ok", "junk"} /\ tail' \in BOOLEAN
  <2>1. CASE header = "none" /\ header' = "junk" /\ UNCHANGED <<recs, tail>>
    <3>1. recs = <<>> /\ DOMAIN <<>> = {} /\ <<>> \in Seq(Bars)
      BY <1>1, <2>1 DEF FileFits
    <3>2. Gapless'
      <4>1. Times(recs)' = Times(recs) /\ LastTime' = LastTime /\ Sorted'
        BY <2>1, <3>1 DEF Times, LastTime, Sorted, Ascending
      <4> QED BY <1>1, <4>1 DEF FileFits, Gapless
    <3>3. OneBasis' /\ FetchedBarsAreSound'
      BY <2>1, <3>1 DEF OneBasis, FetchedBarsAreSound, Sound
    <3> QED BY <1>1, <2>1, <3>1, <3>2, <3>3 DEF TypeOK, FileFits
  <2>2. ASSUME NEW k \in 0 .. Len(fresh[w]) - 1, NEW partial \in BOOLEAN,
               LET at == layout[w].count
                   new == SubSeq(fresh[w], 1, k)
                   hits == at + k < Len(recs)
               IN  /\ header' = "ok"
                   /\ recs' = IF ~partial \/ ~hits \/ recs[at + k + 1] = fresh[w][k + 1]
                              THEN Overlay(at, new)
                              ELSE Overlay(at, Append(new, Garbled))
                   /\ tail' = \/ partial /\ ~hits
                              \/ tail /\ at + k <= Len(recs)
        PROVE  FileFits' /\ recs' \in Seq(Bars \union {Garbled}) /\ header' = "ok" /\ tail' \in BOOLEAN
    <3>1. Len(recs) \in Nat /\ Len(fresh[w]) \in Nat
      BY <1>1 DEF TypeOK
    <3>2. ~(layout[w].count + k < Len(recs)) /\ k \in 0 .. Len(fresh[w])
      BY <1>1, <3>1 DEF WriterFits
    <3>3. recs' = Overlay(layout[w].count, SubSeq(fresh[w], 1, k))
      BY <2>2, <3>2
    <3>4. header' = "ok" /\ tail' \in BOOLEAN
      BY <2>2
    <3> QED BY <1>1, <3>2, <3>3, <3>4, AppendFits
  <2> QED BY <2>1, <2>2 DEF WriteCut
<1>3. kills' \in 0 .. MaxKills
  BY <1>1, OptionsAssumption DEF TypeOK
<1>4. /\ OneWriter' /\ \A v \in Writers : WriterFits(v)'
      /\ pc' \in [Writers -> PCs] /\ layout' \in [Writers -> Layouts]
      /\ batch' \in [Writers -> Seq(Bars)] /\ fresh' \in [Writers -> Seq(Bars)]
  BY <1>1, LeaveIs
<1>5. authors' \subseteq Writers /\ blind' \in BOOLEAN
  BY <1>1 DEF Sign, TypeOK
<1>6. TypeOK'
  BY <1>1, <1>2, <1>3, <1>4, <1>5 DEF TypeOK
<1> QED BY <1>2, <1>4, <1>6 DEF StoreInv

LEMMA KillKeeps ==
    ASSUME StoreInv, NEW w \in Writers, Kill(w)
    PROVE  StoreInv'
<1>1. kills < MaxKills /\ kills' = kills + 1 /\ kills \in 0 .. MaxKills
  BY DEF StoreInv, TypeOK, Kill
<1>2. kills' \in 0 .. MaxKills
  BY <1>1, OptionsAssumption
<1> QED BY <1>2, LeavingKeeps DEF Kill

LEMMA StoreInvStep == TakeTurns /\ StoreInv /\ [Next]_vars => StoreInv'
<1> SUFFICES ASSUME TakeTurns, StoreInv, [Next]_vars PROVE StoreInv'
  OBVIOUS
<1>1. CASE CloseBar \/ Rebase \/ UNCHANGED vars
  BY <1>1, VenueKeeps
<1>3. ASSUME NEW w \in Writers, Step(w) \/ WriteCut(w) \/ Kill(w) PROVE StoreInv'
  <2>1. CASE Fetch(w)
    BY <2>1, FetchKeeps
  <2>2. CASE Compare(w)
    BY <2>2, CompareKeeps
  <2>3. CASE Publish(w)
    BY <2>3, PublishKeeps
  <2>4. CASE Inspect(w)
    BY <2>4, InspectKeeps
  <2>5. CASE ReadLast(w)
    BY <2>5, ReadLastKeeps
  <2>6. CASE Write(w)
    BY <2>6, WriteKeeps
  <2>7. CASE WriteCut(w)
    BY <2>7, WriteCutKeeps
  <2>8. CASE Kill(w)
    BY <2>8, KillKeeps
  <2> QED BY <1>3, <2>1, <2>2, <2>3, <2>4, <2>5, <2>6, <2>7, <2>8 DEF Step
<1> QED BY <1>1, <1>3 DEF Next

\* The inductive invariant of writers that take turns.
LEMMA StoreInvHolds == TakeTurns /\ Spec => []StoreInv
<1>1. Init => StoreInv
  BY StoreInvInit
<1>2. TakeTurns /\ StoreInv /\ [Next]_vars => StoreInv'
  BY StoreInvStep
<1>3. CASE TakeTurns
  <2>1. StoreInv /\ [Next]_vars => StoreInv'
    BY <1>2, <1>3
  <2> QED BY <1>1, <2>1, PTL DEF Spec
<1>4. CASE ~TakeTurns
  BY <1>4
<1> QED BY <1>3, <1>4

\* While the operator keeps the writers apart, nothing is missing from what is
\* stored but bars that some fetch asked for and did not get, and nothing in it
\* is made up (append() and rewrite() of candle_store.cpp): bots and `fetch`,
\* however many, killed anywhere, inside pwrite() included.
THEOREM StoreIsGapless == TakeTurns /\ Spec => []Gapless
<1>1. StoreInv => Gapless
  BY DEF StoreInv, FileFits
<1> QED BY <1>1, StoreInvHolds, PTL

\* ... and two price bases never meet in a file that only `fetch` wrote, however
\* often the venue re-scales its history and whatever bars a walk loses, unless
\* `fetch` once appended a batch without a stored bar in it, which leaves
\* compareOverlap() nothing to look at (main.cpp:1120).
THEOREM StoreHasOneBasis == TakeTurns /\ Spec => []OneBasis
<1>1. StoreInv => OneBasis
  BY DEF StoreInv, FileFits
<1> QED BY <1>1, StoreInvHolds, PTL

-----------------------------------------------------------------------------
(* Lemmas about sets of bars.                                              *)

LEMMA GreatestOf ==
    ASSUME NEW n \in Nat, NEW bars \in SUBSET (0 .. n), bars # {}
    PROVE  Max(bars) \in bars /\ \A t \in bars : t <= Max(bars)
<1> DEFINE ages == {n - t : t \in bars}
<1>1. ages \in SUBSET Nat /\ ages # {}
  <2>1. \A t \in bars : t \in 0 .. n /\ n - t \in Nat
    OBVIOUS
  <2> QED BY <2>1
<1>2. Min(ages) \in ages /\ \A a \in ages : Min(ages) <= a
  BY <1>1, LeastOf
<1>3. PICK b \in bars : Min(ages) = n - b
  BY <1>2
<1>4. \A t \in bars : t <= b
  <2> SUFFICES ASSUME NEW t \in bars PROVE t <= b
    OBVIOUS
  <2>1. n - b <= n - t
    BY <1>2, <1>3
  <2>2. b \in Nat /\ t \in Nat
    OBVIOUS
  <2> QED BY <2>1, <2>2
<1> QED BY <1>4 DEF Max

LEMMA NewestIs ==
    ASSUME NEW n \in Nat, NEW bars \in SUBSET (1 .. n)
    PROVE  /\ Newest(bars) \in 0 .. n
           /\ \A t \in bars : t <= Newest(bars)
           /\ Newest(bars) # 0 => Newest(bars) \in bars
<1>1. bars \in SUBSET (0 .. n)
  OBVIOUS
<1>2. CASE bars = {}
  BY <1>2 DEF Newest
<1>3. CASE bars # {}
  <2>1. Newest(bars) = Max(bars)
    BY <1>3 DEF Newest
  <2>2. Max(bars) \in bars /\ \A t \in bars : t <= Max(bars)
    BY <1>1, <1>3, GreatestOf
  <2>3. PICK b \in bars : b = Newest(bars) /\ \A t \in bars : t <= b
    BY <2>1, <2>2
  <2>4. b \in 0 .. n
    OBVIOUS
  <2> QED BY <2>3, <2>4
<1> QED BY <1>2, <1>3

-----------------------------------------------------------------------------
(* The walk. Its windows are asked for from the newest to the oldest, so   *)
(* what it holds must be everything above the window it asks for next.     *)

\* Everything the venue lists above a bar, up to the start, has been collected.
GivesAll(bottom) == \A t \in listed : bottom < t /\ t <= start => t \in all

WalkFits ==
    /\ since = Newest(stored)
    /\ \A t \in all : t <= start
    /\ emptyWindows < EmptyLimit /\ unusablePages < UnusableLimit
    /\ end + Width * emptyWindows <= start + 1
    /\ ~gaveUp /\ ~silenced => /\ GivesAll(end)
                  /\ \A t \in listed : t > end => t > end + Width * emptyWindows

WalkInv ==
    /\ WalkTypeOK
    /\ GapsAreShort(listed)
    /\ \A t \in stored : t <= now
    /\ HoleHasItsCause
    /\ walkPc = "walk" => WalkFits

\* What every request that is answered, or fails, does to the walk.
Moves ==
    /\ walkPc = "walk"
    /\ UNCHANGED <<listed, now, start, since, cap>>
    /\ pages' \in 0 .. cap /\ end' \in Int /\ end' <= start + 1
    /\ all' \subseteq listed /\ \A t \in all' : t <= start
    /\ emptyPages' \in 0 .. Retries /\ emptyWindows' \in 0 .. EmptyLimit
    /\ unusablePages' \in 0 .. UnusableLimit
    /\ gaveUp' \in BOOLEAN /\ (gaveUp => gaveUp')
    /\ silenced' \in BOOLEAN /\ (silenced => silenced')

LEMMA WalkFacts ==
    ASSUME WalkInv
    PROVE  /\ listed \in SUBSET Nat /\ stored \subseteq listed /\ all \subseteq listed
           /\ start \in Nat /\ since \in Nat /\ since <= start /\ start <= now /\ now \in Nat
           /\ now <= MaxWalkBars /\ MaxWalkBars \in Nat
           /\ end \in Int /\ end <= start + 1
           /\ pages \in Nat /\ cap \in Nat /\ pages <= cap
           /\ emptyPages \in Nat /\ emptyWindows \in Nat /\ unusablePages \in Nat
           /\ Width \in Nat /\ Width > 0 /\ EmptyLimit \in Nat /\ EmptyLimit > 0
           /\ UnusableLimit \in Nat /\ UnusableLimit > 0 /\ Retries \in Nat
<1>1. WalkTypeOK
  BY DEF WalkInv
<1>2. MaxWalkBars \in Nat /\ listed \subseteq 1 .. MaxWalkBars + 1
  BY <1>1, BoundsAssumption DEF WalkTypeOK, WalkBars
<1>3. cap \in Nat
  BY <1>1, LimitsAssumption DEF WalkTypeOK
<1>4. listed \in SUBSET Nat
  BY <1>2
<1> QED BY <1>1, <1>2, <1>3, <1>4, LimitsAssumption DEF WalkTypeOK

\* A walk that gave everything above the last stored bar fills the store up to
\* its newest bar.
LEMMA FinishKeeps ==
    ASSUME WalkInv, Moves, Finish,
           ~gaveUp' /\ ~silenced' => \A t \in listed : since < t /\ t <= start => t \in all'
    PROVE  WalkInv'
<1>1. WalkFits /\ WalkTypeOK /\ HoleHasItsCause
  BY DEF WalkInv, Moves
<1>2. stored \subseteq listed /\ all' \subseteq listed /\ stored' = stored \union {t \in all' : t > since}
  BY <1>1 DEF WalkTypeOK, Moves, Finish
<1>3. PICK m \in Nat : m = MaxWalkBars /\ listed \subseteq 1 .. m + 1
  BY <1>1, BoundsAssumption DEF WalkTypeOK, WalkBars
<1>4. stored' \subseteq listed
  BY <1>2
<1>5. /\ start \in Nat /\ since \in Nat /\ since <= start /\ start <= now /\ now \in Nat
      /\ UNCHANGED <<listed, now, start, since>>
  BY WalkFacts DEF Moves
<1>6. \A t \in stored : t <= since
  <2>1. stored \in SUBSET (1 .. m + 1)
    BY <1>2, <1>3
  <2>2. since = Newest(stored)
    BY <1>1 DEF WalkFits
  <2> QED BY <2>1, <2>2, NewestIs
<1>7. \A t \in stored' : t <= start
  BY <1>2, <1>3, <1>5, <1>6 DEF Moves
<1>8. \A t \in stored' : t <= now'
  BY <1>3, <1>4, <1>5, <1>7
<1>9. HoleHasItsCause'
  <2> SUFFICES ASSUME ~gaveUp', ~silenced', NEW t \in listed, t <= Newest(stored') PROVE t \in stored'
    BY <1>5 DEF HoleHasItsCause, NoHole
  <2>1. t <= start
    <3>1. stored' \in SUBSET (1 .. m + 1)
      BY <1>3, <1>4
    <3>2. PICK n \in Nat : n = Newest(stored') /\ (n # 0 => n \in stored')
      BY <1>3, <3>1, NewestIs
    <3>3. t \in Nat /\ t > 0
      BY <1>3
    <3> QED BY <1>5, <1>7, <3>2, <3>3
  <2>2. CASE t <= since
    <3>1. t \in stored
      BY <1>1, <2>2 DEF HoleHasItsCause, NoHole, WalkFits, Moves
    <3> QED BY <1>2, <3>1
  <2>3. CASE t > since
    BY <1>2, <2>1, <2>3
  <2> QED BY <1>3, <1>5, <2>2, <2>3
<1>10. WalkTypeOK'
  BY <1>1, <1>4 DEF WalkTypeOK, Moves, Finish
<1>11. walkPc' # "walk" /\ GapsAreShort(listed)'
  BY DEF WalkInv, Finish, Moves, GapsAreShort
<1> QED BY <1>8, <1>9, <1>10, <1>11 DEF WalkInv

LEMMA ContinueKeeps ==
    ASSUME WalkInv, Moves, Continue,
           emptyWindows' < EmptyLimit, unusablePages' < UnusableLimit,
           end' + Width * emptyWindows' <= start + 1,
           ~gaveUp' /\ ~silenced' => /\ \A t \in listed : end' < t /\ t <= start => t \in all'
                       /\ \A t \in listed : t > end' => t > end' + Width * emptyWindows'
    PROVE  WalkInv'
<1>1. WalkFits /\ WalkTypeOK /\ HoleHasItsCause
  BY DEF WalkInv, Moves
<1>2. UNCHANGED <<listed, now, start, since, cap, stored>> /\ walkPc' = "walk"
  BY DEF Moves, Continue
<1>3. WalkTypeOK'
  BY <1>1, <1>2 DEF WalkTypeOK, Moves
<1>4. HoleHasItsCause' /\ (\A t \in stored : t <= now)' /\ GapsAreShort(listed)'
  BY <1>1, <1>2 DEF HoleHasItsCause, NoHole, Moves, WalkInv
<1>5. WalkFits'
  <2>1. since' = Newest(stored')
    BY <1>1, <1>2 DEF WalkFits
  <2>2. \A t \in all' : t <= start'
    BY <1>2 DEF Moves
  <2>3. ~gaveUp' /\ ~silenced' => GivesAll(end)' /\ (\A t \in listed : t > end => t > end + Width * emptyWindows)'
    BY <1>2 DEF GivesAll
  <2>4. (end + Width * emptyWindows <= start + 1)'
    BY <1>2
  <2> QED BY <2>1, <2>2, <2>3, <2>4 DEF WalkFits
<1> QED BY <1>3, <1>4, <1>5 DEF WalkInv

LEMMA CappedKeeps == ASSUME WalkInv, Capped \/ RequestFails \/ NotAnArray PROVE WalkInv'
<1>1. Finish /\ (gaveUp' \/ silenced')
  BY DEF Capped, RequestFails, NotAnArray
<1>2. Moves
  <2>1. WalkTypeOK /\ WalkFits
    BY DEF WalkInv, Capped, RequestFails, NotAnArray, Request
  <2>2. CASE Capped
    BY <2>1, <2>2, WalkFacts DEF Capped, Moves, WalkTypeOK, WalkFits
  <2>3. CASE RequestFails
    <3>1. pages' \in 0 .. cap
      BY <2>3, WalkFacts DEF RequestFails, Request
    <3> QED BY <2>1, <2>3, <3>1 DEF RequestFails, Request, Moves, WalkTypeOK, WalkFits
  <2>4. CASE NotAnArray
    <3>1. pages' \in 0 .. cap
      BY <2>4, WalkFacts DEF NotAnArray, Request
    <3> QED BY <2>1, <2>4, <3>1 DEF NotAnArray, Request, Moves, WalkTypeOK, WalkFits
  <2> QED BY <2>2, <2>3, <2>4
<1> QED BY <1>1, <1>2, FinishKeeps

LEMMA EmptyAgainKeeps == ASSUME WalkInv, EmptyAgain PROVE WalkInv'
<1>1. WalkTypeOK /\ WalkFits
  BY DEF WalkInv, EmptyAgain, Request
<1>2. /\ walkPc = "walk" /\ UNCHANGED <<listed, now, start, since, cap, end, all, emptyWindows, unusablePages, gaveUp, silenced>>
      /\ Continue /\ pages' \in 0 .. cap /\ emptyPages' \in 0 .. Retries
  BY WalkFacts DEF EmptyAgain, Request
<1>3. Moves
  BY <1>1, <1>2 DEF Moves, WalkTypeOK, WalkFits
<1> QED BY <1>1, <1>2, <1>3, ContinueKeeps DEF WalkFits, GivesAll

LEMMA OneMore ==
    ASSUME NEW w \in Nat, NEW k \in Nat
    PROVE  w * k \in Nat /\ w * (k + 1) = w * k + w /\ w * 0 = 0
OBVIOUS

\* A run of empty windows is stepped over, and ends the history when no gap is
\* as long.
LEMMA SkipEmptyKeeps == ASSUME WalkInv, SkipEmpty PROVE WalkInv'
<1>1. WalkTypeOK /\ WalkFits /\ walkPc = "walk" /\ GapsAreShort(listed)
  BY DEF WalkInv, SkipEmpty, Request
<1>2. /\ UNCHANGED <<listed, now, start, since, cap, all, unusablePages, silenced>>
      /\ pages' \in 0 .. cap /\ emptyPages' = 0 /\ emptyWindows' = emptyWindows + 1
      /\ gaveUp' = (gaveUp \/ Window # {})
  BY WalkFacts DEF SkipEmpty, Request
<1>3. PICK w \in Nat, k \in Nat, h \in Nat : w = Width /\ k = emptyWindows /\ h = w * k /\ w > 0
  BY WalkFacts, OneMore
<1>4. Width * emptyWindows' = h + w /\ Width * emptyWindows = h
  BY <1>2, <1>3, OneMore
<1>5. PICK l \in Nat, b \in Int, s \in Nat, m \in Nat :
          /\ l = EmptyLimit /\ k < l /\ b = end /\ s = start
          /\ b + h <= s + 1 /\ m = MaxWalkBars /\ s <= m
  BY <1>1, <1>3, <1>4, WalkFacts DEF WalkFits
<1>6. listed \in SUBSET Nat /\ \A t \in listed : t > 0
  BY <1>1, WalkFacts DEF WalkTypeOK, WalkBars
<1>7. emptyWindows' \in 0 .. EmptyLimit
  BY <1>2, <1>3, <1>5
<1>8. ASSUME end' \in Int, end' <= end PROVE Moves
  <2>1. end' <= start + 1
    BY <1>8, WalkFacts
  <2>2. /\ gaveUp' \in BOOLEAN /\ emptyPages' \in 0 .. Retries
    BY <1>1, <1>2, LimitsAssumption DEF WalkTypeOK
  <2> QED BY <1>1, <1>2, <1>7, <1>8, <2>1, <2>2 DEF Moves, WalkTypeOK, WalkFits
\* Nothing listed is in the window, nor in the empty ones before it.
<1>9. ~gaveUp' /\ ~silenced' => \A t \in listed : t <= b - w \/ t > b + h
  <2> SUFFICES ASSUME ~gaveUp', ~silenced', NEW t \in listed, t > b - w PROVE t > b + h
    BY <1>3, <1>5, <1>6
  <2>1. ~gaveUp /\ ~silenced /\ Window = {}
    BY <1>2
  <2>2. ~(t <= b)
    BY <1>3, <1>5, <2>1 DEF Window
  <2>3. t > b
    BY <1>5, <1>6, <2>2
  <2> QED BY <1>1, <1>4, <1>5, <2>1, <2>3 DEF WalkFits
<1>10. ~gaveUp' /\ ~silenced' => \A t \in listed : b - w < t /\ t <= start => t \in all'
  <2> SUFFICES ASSUME ~gaveUp', ~silenced', NEW t \in listed, b - w < t, t <= start PROVE t \in all
    BY <1>2
  <2>1. t > b + h
    BY <1>3, <1>5, <1>6, <1>9
  <2>2. t > end
    BY <1>3, <1>5, <1>6, <2>1
  <2> QED BY <1>1, <1>2, <2>2 DEF WalkFits, GivesAll
<1>11. CASE emptyWindows + 1 >= EmptyLimit
  <2>1. end' = end /\ Finish
    BY <1>11 DEF SkipEmpty
  <2>2. Moves
    BY <1>5, <1>8, <2>1
  <2>3. k + 1 = l
    BY <1>3, <1>5, <1>11
  <2>4. ASSUME ~gaveUp', ~silenced' PROVE \A t \in listed : t > b + h
    <3> SUFFICES ASSUME NEW t \in listed, t <= b + h PROVE FALSE
      BY <1>3, <1>5, <1>6
    <3>1. b + h \in WalkBars
      BY <1>3, <1>5, <1>6 DEF WalkBars
    <3>2. PICK u \in listed : u <= b + h /\ (b + h) - u < Width * EmptyLimit
      BY <1>1, <3>1 DEF GapsAreShort
    <3>3. Width * EmptyLimit = h + w
      BY <1>2, <1>3, <1>4, <1>5, <2>3
    <3>4. u > b - w
      BY <1>3, <1>5, <1>6, <3>2, <3>3
    <3>5. u <= b - w \/ u > b + h
      BY <1>9, <2>4
    <3> QED BY <1>3, <1>5, <1>6, <3>2, <3>4, <3>5
  <2>5. ASSUME ~gaveUp', ~silenced', NEW t \in listed, t <= start PROVE t \in all'
    <3>1. t > b + h
      BY <2>4, <2>5
    <3>2. t > b - w
      BY <1>3, <1>5, <1>6, <3>1
    <3> QED BY <1>10, <2>5, <3>2
  <2> QED BY <2>1, <2>2, <2>5, FinishKeeps
<1>12. CASE ~(emptyWindows + 1 >= EmptyLimit)
  <2>1. end' = b - w /\ IF PastSince(end') THEN Finish ELSE Continue
    BY <1>3, <1>5, <1>12 DEF SkipEmpty
  <2>2. Moves
    BY <1>3, <1>5, <1>8, <2>1
  <2>3. CASE Finish /\ PastSince(end')
    <3>1. ASSUME ~gaveUp', ~silenced', NEW t \in listed, since < t, t <= start PROVE t \in all'
      <4>1. b - w < t
        BY <1>3, <1>5, <1>6, <2>1, <2>3, <3>1, WalkFacts DEF PastSince
      <4> QED BY <1>10, <3>1, <4>1
    <3> QED BY <2>2, <2>3, <3>1, FinishKeeps
  <2>4. CASE Continue
    <3>1. emptyWindows' < EmptyLimit /\ unusablePages' < UnusableLimit
      BY <1>1, <1>2, <1>3, <1>5, <1>12 DEF WalkFits
    <3>2. end' + Width * emptyWindows' <= start + 1
      BY <1>3, <1>4, <1>5, <2>1
    <3>3. ~gaveUp' /\ ~silenced' => \A t \in listed : t > end' => t > end' + Width * emptyWindows'
      <4> SUFFICES ASSUME ~gaveUp', ~silenced', NEW t \in listed, t > end' PROVE t > end' + Width * emptyWindows'
        OBVIOUS
      <4>1. t > b + h
        BY <1>3, <1>5, <1>6, <1>9, <2>1
      <4>2. end' + Width * emptyWindows' = b + h
        BY <1>3, <1>4, <1>5, <2>1
      <4> QED BY <4>1, <4>2
    <3> QED BY <1>10, <2>1, <2>2, <2>4, <3>1, <3>2, <3>3, ContinueKeeps
  <2> QED BY <2>1, <2>3, <2>4
<1> QED BY <1>11, <1>12

\* A page without a lesson is asked for again once, and then it costs bars.
LEMMA UnreadableKeeps == ASSUME WalkInv, Unreadable PROVE WalkInv'
<1>1. WalkTypeOK /\ WalkFits /\ walkPc = "walk"
  BY DEF WalkInv, Unreadable, Request
<1>2. /\ UNCHANGED <<listed, now, start, since, cap, all, silenced>>
      /\ pages' \in 0 .. cap /\ emptyPages' = 0 /\ emptyWindows' = 0
      /\ unusablePages' = unusablePages + 1
      /\ gaveUp' = (gaveUp \/ unusablePages > 0 \/ UnusableLimit = 1)
  BY WalkFacts DEF Unreadable, LearnNothing, Request
<1>3. PICK b \in Int, w \in Nat : b = end /\ w = Width /\ w > 0
  BY WalkFacts
<1>4. PICK u \in Nat, k \in Nat : u = unusablePages /\ k = UnusableLimit /\ u < k
  BY <1>1, WalkFacts DEF WalkFits
<1>5. ASSUME end' \in Int, end' <= end PROVE Moves
  <2>1. end' <= start + 1
    BY <1>5, WalkFacts
  <2>2. /\ gaveUp' \in BOOLEAN /\ emptyPages' \in 0 .. Retries /\ emptyWindows' \in 0 .. EmptyLimit
    BY <1>1, <1>2, LimitsAssumption DEF WalkTypeOK
  <2>3. unusablePages' \in 0 .. UnusableLimit
    BY <1>2, <1>4
  <2> QED BY <1>1, <1>2, <1>5, <2>1, <2>2, <2>3 DEF Moves, WalkTypeOK, WalkFits
<1>6. \/ u + 1 >= k /\ end' = b /\ Finish
      \/ u = 0 /\ k > 1 /\ end' = b /\ Continue
      \/ u > 0 /\ u + 1 < k /\ end' = b - w /\ (Finish \/ Continue)
  BY <1>3, <1>4 DEF Unreadable, LearnNothing
<1>7. CASE u + 1 >= k /\ end' = b /\ Finish
  <2>1. unusablePages > 0 \/ UnusableLimit = 1
    BY <1>4, <1>7
  <2>2. gaveUp'
    BY <1>2, <2>1, Zenon
  <2> QED BY <1>3, <1>5, <1>7, <2>2, FinishKeeps
<1>8. emptyWindows' < EmptyLimit /\ Width * emptyWindows' = 0
  BY <1>2, <1>3, OneMore, WalkFacts
<1>9. CASE u = 0 /\ k > 1 /\ end' = b /\ Continue
  <2>1. end' + Width * emptyWindows' <= start + 1 /\ unusablePages' < UnusableLimit
    BY <1>2, <1>3, <1>4, <1>8, <1>9, WalkFacts
  <2>2. ~gaveUp' /\ ~silenced' => \A t \in listed : end' < t /\ t <= start => t \in all'
    BY <1>1, <1>2, <1>3, <1>9 DEF WalkFits, GivesAll
  <2>3. \A t \in listed : t > end' => t > end' + Width * emptyWindows'
    BY <1>3, <1>8, <1>9
  <2> QED BY <1>3, <1>5, <1>8, <1>9, <2>1, <2>2, <2>3, ContinueKeeps
<1>10. CASE u > 0 /\ u + 1 < k /\ end' = b - w /\ (Finish \/ Continue)
  <2>1. gaveUp' /\ unusablePages' < UnusableLimit
    BY <1>2, <1>4, <1>10
  <2>2. end' + Width * emptyWindows' <= start + 1
    BY <1>3, <1>8, <1>10, WalkFacts
  <2>3. end' \in Int /\ end' <= end
    BY <1>3, <1>10
  <2> QED BY <1>5, <1>8, <1>10, <2>1, <2>2, <2>3, FinishKeeps, ContinueKeeps
<1> QED BY <1>6, <1>7, <1>9, <1>10

\* A page that is read moves the walk below the oldest of its rows.
LEMMA ReadKeeps ==
    ASSUME WalkInv, Request, NEW rows \in SUBSET Window, NEW times \in SUBSET Window, times # {},
           Read(rows, times), gaveUp' \in BOOLEAN, gaveUp => gaveUp',
           ~gaveUp' /\ ~silenced' => rows = Window /\ times = Window
    PROVE  WalkInv'
<1>1. WalkTypeOK /\ WalkFits /\ walkPc = "walk"
  BY DEF WalkInv, Request
<1>2. /\ UNCHANGED <<listed, now, start, since, cap, silenced>>
      /\ pages' \in 0 .. cap /\ emptyPages' = 0 /\ emptyWindows' = 0 /\ unusablePages' = 0
      /\ all' = all \union ClosedOf(rows)
  BY WalkFacts DEF Read, Request
<1>3. PICK b \in Int, w \in Nat, s \in Nat : b = end /\ w = Width /\ s = start /\ b <= s + 1
  BY WalkFacts
<1>4. listed \in SUBSET Nat /\ \A t \in Window : t \in listed /\ b - w < t /\ t <= b
  BY <1>3, WalkFacts DEF Window
<1>5. PICK o \in times : o = Min(times) /\ \A t \in times : o <= t
  <2>1. times \in SUBSET Nat
    BY <1>4
  <2> QED BY <2>1, LeastOf
<1>6. o \in Nat /\ o \in listed /\ o <= b
  BY <1>4
<1>7. ASSUME end' \in Int, end' <= end PROVE Moves
  <2>1. end' <= start + 1
    BY <1>7, WalkFacts
  <2>2. /\ emptyPages' \in 0 .. Retries /\ emptyWindows' \in 0 .. EmptyLimit
        /\ unusablePages' \in 0 .. UnusableLimit /\ silenced' \in BOOLEAN
    BY <1>1, <1>2, WalkFacts DEF WalkTypeOK
  <2>3. all' \subseteq listed /\ \A t \in all' : t <= start
    BY <1>1, <1>2, <1>4 DEF ClosedOf, WalkFits, WalkTypeOK
  <2> QED BY <1>1, <1>2, <1>7, <2>1, <2>2, <2>3 DEF Moves
<1>8. ASSUME ~gaveUp', ~silenced', NEW t \in listed, t >= o, t <= start PROVE t \in all'
  <2>1. ~gaveUp /\ ~silenced /\ rows = Window /\ times = Window
    BY <1>2, <1>8
  <2>2. CASE t > b
    BY <1>1, <1>2, <1>3, <1>8, <2>1, <2>2 DEF WalkFits, GivesAll
  <2>3. CASE t <= b
    <3>1. o > b - w /\ t \in Nat
      BY <1>4
    <3>2. t \in Window
      BY <1>3, <1>6, <1>8, <2>3, <3>1 DEF Window
    <3> QED BY <1>2, <1>8, <2>1, <3>2 DEF ClosedOf
  <2> QED BY <1>3, <1>4, <2>2, <2>3
<1>9. CASE since # 0 /\ o <= since
  <2>1. end' = b /\ Finish
    BY <1>3, <1>5, <1>9 DEF Read
  <2>2. ASSUME ~gaveUp', ~silenced', NEW t \in listed, since < t, t <= start PROVE t \in all'
    <3>1. t >= o
      BY <1>4, <1>6, <1>9, <2>2, WalkFacts
    <3> QED BY <1>8, <2>2, <3>1
  <2> QED BY <1>3, <1>7, <2>1, <2>2, FinishKeeps
<1>10. CASE ~(since # 0 /\ o <= since)
  <2>1. end' = o - 1 /\ Continue
    BY <1>5, <1>10 DEF Read
  <2>2. end' \in Int /\ end' <= end
    BY <1>3, <1>6, <2>1
  <2>3. emptyWindows' < EmptyLimit /\ unusablePages' < UnusableLimit /\ Width * emptyWindows' = 0
    BY <1>2, OneMore, WalkFacts
  <2>4. end' + Width * emptyWindows' <= start + 1
    BY <1>3, <1>6, <2>1, <2>3
  <2>5. ASSUME ~gaveUp', ~silenced', NEW t \in listed, end' < t, t <= start PROVE t \in all'
    <3>1. t >= o
      BY <1>4, <1>6, <2>1, <2>5
    <3> QED BY <1>8, <2>5, <3>1
  <2>6. \A t \in listed : t > end' => t > end' + Width * emptyWindows'
    BY <2>2, <2>3
  <2> QED BY <1>7, <2>1, <2>2, <2>3, <2>4, <2>5, <2>6, ContinueKeeps
<1> QED BY <1>9, <1>10

LEMMA PageKeeps == ASSUME WalkInv, Page \/ PageWithBadRow PROVE WalkInv'
<1>1. gaveUp \in BOOLEAN
  BY DEF WalkInv, WalkTypeOK
<1>2. CASE Page
  BY <1>1, <1>2, ReadKeeps DEF Page
<1>3. CASE PageWithBadRow
  <2>1. Request /\ gaveUp'
    BY <1>3 DEF PageWithBadRow
  <2>2. PICK t \in Window : \/ Read(Window \ {t}, Window)
                            \/ Window # {t} /\ Read(Window \ {t}, Window \ {t})
    BY <1>3 DEF PageWithBadRow
  <2>3. Window # {} /\ (Window # {t} => Window \ {t} # {})
    BY <2>2
  <2> QED BY <2>1, <2>2, <2>3, ReadKeeps
<1> QED BY <1>2, <1>3

LEMMA BeginKeeps == ASSUME WalkInv, Begin PROVE WalkInv'
<1>1. WalkTypeOK /\ HoleHasItsCause /\ GapsAreShort(listed) /\ \A t \in stored : t <= now
  BY DEF WalkInv
<1>2. UNCHANGED <<listed, now, stored, gaveUp, silenced>> /\ walkPc' = "walk"
  BY DEF Begin
<1>3. PICK n \in Nat, m \in Nat : n = now /\ n > 0 /\ m = MaxWalkBars /\ n <= m /\ listed \subseteq 1 .. m + 1
  BY <1>1, BoundsAssumption DEF WalkTypeOK, WalkBars
<1>4. since' \in 0 .. n
  <2>1. \A t \in stored : t \in 1 .. n
    BY <1>1, <1>3 DEF WalkTypeOK
  <2>2. stored \in SUBSET (1 .. n)
    BY <2>1
  <2> QED BY <1>3, <2>2, NewestIs DEF Begin
<1>5. start' = n /\ end' = n + 1 /\ all' = {} /\ pages' = 0 /\ emptyPages' = 0 /\ emptyWindows' = 0 /\ unusablePages' = 0
  BY <1>3 DEF Begin
<1>6. cap' \in {PageCap, MaxPages} /\ cap' \in Nat
  BY LimitsAssumption DEF Begin
<1>7. WalkTypeOK'
  BY <1>1, <1>2, <1>3, <1>4, <1>5, <1>6, LimitsAssumption DEF WalkTypeOK
<1>8. HoleHasItsCause' /\ (\A t \in stored : t <= now)' /\ GapsAreShort(listed)'
  BY <1>1, <1>2 DEF HoleHasItsCause, NoHole
<1>9. WalkFits'
  <2>1. since' = Newest(stored')
    BY <1>2 DEF Begin
  <2>2. Width * emptyWindows' = 0 /\ emptyWindows' < EmptyLimit /\ unusablePages' < UnusableLimit
    BY <1>5, OneMore, WalkFacts
  <2>3. end' + Width * emptyWindows' <= start' + 1
    BY <1>5, <2>2
  <2>4. GivesAll(end)'
    BY <1>2, <1>3, <1>5 DEF GivesAll
  <2>5. \A t \in listed' : t > end' => t > end' + Width * emptyWindows'
    BY <1>5, <2>2
  <2> QED BY <1>5, <2>1, <2>2, <2>3, <2>4, <2>5 DEF WalkFits
<1> QED BY <1>7, <1>8, <1>9 DEF WalkInv

LEMMA WalkBarClosesKeeps == ASSUME WalkInv, WalkBarCloses \/ UNCHANGED walkVars PROVE WalkInv'
<1>1. /\ UNCHANGED <<listed, stored, walkPc, start, since, end, all, cap, pages, emptyPages,
                     emptyWindows, unusablePages, gaveUp, silenced>>
      /\ now' \in 1 .. MaxWalkBars /\ now <= now'
  BY BoundsAssumption DEF WalkInv, WalkTypeOK, WalkBarCloses, walkVars, walk
<1>2. start \in 0 .. now' /\ \A t \in stored : t <= now'
  <2>1. stored \in SUBSET Nat
    BY WalkFacts
  <2> QED BY <1>1, <2>1, WalkFacts DEF WalkInv
<1>3. WalkTypeOK'
  BY <1>1, <1>2 DEF WalkInv, WalkTypeOK
<1>4. HoleHasItsCause' /\ GapsAreShort(listed)' /\ (walkPc = "walk" => WalkFits)'
  BY <1>1 DEF WalkInv, HoleHasItsCause, NoHole, WalkFits, GivesAll
<1> QED BY <1>1, <1>2, <1>3, <1>4 DEF WalkInv

LEMMA WalkInvInit == WalkInit => WalkInv
<1> SUFFICES ASSUME WalkInit PROVE WalkInv
  OBVIOUS
<1>1. listed \subseteq WalkBars /\ GapsAreShort(listed)
  BY DEF WalkInit
<1>2. WalkTypeOK
  <2>1. \A n \in Nat : 0 \in 0 .. n
    OBVIOUS
  <2>2. /\ 0 \in 0 .. now /\ 0 \in 0 .. cap /\ 0 \in 0 .. start
        /\ 0 \in 0 .. Retries /\ 0 \in 0 .. EmptyLimit /\ 0 \in 0 .. UnusableLimit
    BY <2>1, LimitsAssumption, BoundsAssumption DEF WalkInit
  <2>3. 0 \in Int /\ end <= start + 1
    BY DEF WalkInit
  <2>4. listed \subseteq WalkBars /\ now \in 1 .. MaxWalkBars /\ stored = {} /\ walkPc = "idle"
        /\ start = 0 /\ since = 0 /\ end = 0 /\ all = {} /\ cap = PageCap /\ pages = 0
        /\ emptyPages = 0 /\ emptyWindows = 0 /\ unusablePages = 0 /\ gaveUp = FALSE /\ silenced = FALSE
    BY <1>1 DEF WalkInit
  <2> QED BY <2>2, <2>3, <2>4 DEF WalkTypeOK
<1>3. HoleHasItsCause
  <2>1. Newest({}) = 0
    BY DEF Newest
  <2>2. \A t \in listed : ~(t <= 0)
    BY <1>1, BoundsAssumption DEF WalkBars
  <2> QED BY <2>1, <2>2 DEF WalkInit, HoleHasItsCause, NoHole
<1> QED BY <1>1, <1>2, <1>3 DEF WalkInit, WalkInv

LEMMA WalkInvStep == WalkInv /\ [WalkNext]_walkVars => WalkInv'
<1> SUFFICES ASSUME WalkInv, [WalkNext]_walkVars PROVE WalkInv'
  OBVIOUS
<1>1. CASE WalkBarCloses \/ UNCHANGED walkVars
  BY <1>1, WalkBarClosesKeeps
<1>2. CASE Begin
  BY <1>2, BeginKeeps
<1>3. CASE Capped \/ RequestFails \/ NotAnArray
  BY <1>3, CappedKeeps
<1>4. CASE EmptyAgain
  BY <1>4, EmptyAgainKeeps
<1>5. CASE SkipEmpty
  BY <1>5, SkipEmptyKeeps
<1>6. CASE Unreadable
  BY <1>6, UnreadableKeeps
<1>7. CASE Page \/ PageWithBadRow
  BY <1>7, PageKeeps
<1> QED BY <1>1, <1>2, <1>3, <1>4, <1>5, <1>6, <1>7 DEF WalkNext, Walk

LEMMA WalkInvHolds == WalkSpec => []WalkInv
BY WalkInvInit, WalkInvStep, PTL DEF WalkSpec

\* What a walk of fetchHistory() (poloniex_source.cpp) appends leaves no hole in
\* the store unless a failure that it reports, --max-pages, or an answer that is
\* no array (:163, which is not reported) has cost bars: for every width, and all
\* limits and retries, and every venue whose gaps are shorter than the run of
\* empty windows that ends a walk.
THEOREM WalkLeavesNoHole == WalkSpec => []HoleHasItsCause
<1>1. WalkInv => HoleHasItsCause
  BY DEF WalkInv
<1> QED BY <1>1, WalkInvHolds, PTL

-----------------------------------------------------------------------------
(* The brakes of the walk. Its counters are the digits of a number that    *)
(* every request raises: empty answers to a window, empty windows,         *)
(* unusable pages, and the bars below which nothing is left to ask.        *)

Round == EmptyLimit * (Retries + 1)
Effort == UnusableLimit * Round

\* How far down the walk has read.
Depth == IF end >= 0 THEN start + 1 - end ELSE start + 1

Spent ==
    pages <= Depth * Effort + unusablePages * Round + emptyWindows * (Retries + 1) + emptyPages

\* A walk makes no more requests than Effort for each bar it is behind, and
\* for two that the venue may not have.
BehindBound == pages <= (start + 2 - since) * Effort

\* So few bars that not even a page for each, braked to the limit, reaches the cap.
BrakesSuffice == (MaxWalkBars + 2) * Effort < PageCap

SpentInv ==
    /\ WalkInv
    /\ walkPc = "walk" => Spent /\ ~PastSince(end)
    /\ BehindBound

LEMMA Scale ==
    ASSUME NEW c \in Nat, NEW a \in Nat, NEW b \in Nat, a <= b
    PROVE  a * c \in Nat /\ b * c \in Nat /\ a * c <= b * c
<1>1. PICK d \in Nat : b = a + d
  <2>1. b - a \in Nat /\ b = a + (b - a)
    OBVIOUS
  <2> QED BY <2>1
<1>2. (a + d) * c = a * c + d * c /\ a * c \in Nat /\ d * c \in Nat
  OBVIOUS
<1> QED BY <1>1, <1>2

LEMMA NextMultiple ==
    ASSUME NEW c \in Nat, NEW a \in Nat
    PROVE  a * c \in Nat /\ (a + 1) * c = a * c + c
OBVIOUS

LEMMA EffortIs ==
    /\ Retries \in Nat /\ EmptyLimit \in Nat /\ UnusableLimit \in Nat
    /\ Round \in Nat /\ Effort \in Nat
<1>1. Retries \in Nat /\ EmptyLimit \in Nat /\ UnusableLimit \in Nat
  BY LimitsAssumption
<1>2. PICK r \in Nat : r = Retries + 1
  BY <1>1
<1>3. Round \in Nat
  BY <1>1, <1>2, NextMultiple DEF Round
<1>4. Effort \in Nat
  BY <1>1, <1>3, NextMultiple DEF Effort
<1> QED BY <1>1, <1>3, <1>4

\* The lower digits are worth less than one of the next.
LEMMA Carries ==
    ASSUME NEW p \in Nat, p <= Retries, NEW k \in Nat, k < EmptyLimit, NEW u \in Nat, u < UnusableLimit
    PROVE  /\ k * (Retries + 1) \in Nat /\ u * Round \in Nat
           /\ k * (Retries + 1) + p + 1 <= Round
           /\ u * Round + k * (Retries + 1) + p + 1 <= Effort
<1>1. PICK r \in Nat, el \in Nat, ul \in Nat, c \in Nat, e \in Nat :
          /\ r = Retries + 1 /\ p + 1 <= r /\ el = EmptyLimit /\ ul = UnusableLimit
          /\ c = Round /\ e = Effort /\ c = el * r /\ e = ul * c
  <2>1. PICK r \in Nat : r = Retries + 1 /\ p + 1 <= r
    BY EffortIs
  <2> QED BY <2>1, EffortIs DEF Round, Effort
<1>2. k * r \in Nat /\ (k + 1) * r = k * r + r /\ u * c \in Nat /\ (u + 1) * c = u * c + c
  BY NextMultiple
<1>3. (k + 1) * r <= el * r
  BY <1>1, Scale
<1>4. (u + 1) * c <= ul * c
  BY <1>1, Scale
<1>5. k * r + p + 1 <= c
  BY <1>1, <1>2, <1>3
<1>6. u * c + k * r + p + 1 <= e
  BY <1>1, <1>2, <1>4, <1>5
<1> QED BY <1>1, <1>2, <1>5, <1>6

\* The counters of a walk, as naturals.
Counters(d, u, k, p, r, c, e, n) ==
    /\ d = Depth /\ u = unusablePages /\ k = emptyWindows /\ p = emptyPages /\ n = pages
    /\ r = Retries + 1 /\ c = Round /\ e = Effort
    /\ p < r /\ k < EmptyLimit /\ u < UnusableLimit /\ d <= start + 1 - since
    /\ d * e \in Nat /\ u * c \in Nat /\ k * r \in Nat
    /\ n <= d * e + u * c + k * r + p
    /\ k * r + p + 1 <= c /\ u * c + k * r + p + 1 <= e

LEMMA CountersAre ==
    ASSUME SpentInv, walkPc = "walk"
    PROVE  \E d, u, k, p, r, c, e, n \in Nat : Counters(d, u, k, p, r, c, e, n)
<1>1. WalkInv /\ WalkFits /\ WalkTypeOK /\ Spent
  BY DEF SpentInv, WalkInv
<1>2. PICK b \in Int, s \in Nat, q \in Nat :
          b = end /\ s = start /\ b <= s + 1 /\ q = since /\ (q # 0 => b >= q)
  <2>1. ~PastSince(end)
    BY DEF SpentInv
  <2> QED BY <1>1, <2>1, WalkFacts DEF PastSince
<1>3. PICK d \in Nat : d = Depth /\ d <= start + 1 - since
  <2>1. CASE b >= 0
    <3>1. s + 1 - b \in Nat /\ Depth = s + 1 - b
      BY <1>2, <2>1 DEF Depth
    <3>2. s + 1 - b <= s + 1 - q
      BY <1>2, <2>1
    <3> QED BY <1>2, <3>1, <3>2
  <2>2. CASE ~(b >= 0)
    <3>1. Depth = s + 1 /\ q = 0
      BY <1>2, <2>2 DEF Depth
    <3>2. s + 1 - 0 = s + 1
      OBVIOUS
    <3> QED BY <1>2, <3>1, <3>2
  <2> QED BY <2>1, <2>2
<1>4. PICK u \in Nat, k \in Nat, p \in Nat, n \in Nat :
          /\ u = unusablePages /\ k = emptyWindows /\ p = emptyPages /\ n = pages
          /\ p <= Retries /\ k < EmptyLimit /\ u < UnusableLimit
  <2>1. unusablePages \in Nat /\ emptyWindows \in Nat /\ emptyPages \in Nat /\ pages \in Nat
    BY <1>1, WalkFacts
  <2>2. emptyPages <= Retries /\ emptyWindows < EmptyLimit /\ unusablePages < UnusableLimit
    BY <1>1, LimitsAssumption DEF WalkTypeOK, WalkFits
  <2> QED BY <2>1, <2>2
<1>5. PICK r \in Nat, c \in Nat, e \in Nat : r = Retries + 1 /\ p < r /\ c = Round /\ e = Effort
  BY <1>4, EffortIs
<1>6. /\ k * r \in Nat /\ u * c \in Nat
      /\ k * r + p + 1 <= c /\ u * c + k * r + p + 1 <= e
  BY <1>4, <1>5, Carries
<1>7. d * e \in Nat
  BY NextMultiple
<1>8. n <= d * e + u * c + k * r + p
  BY <1>1, <1>3, <1>4, <1>5 DEF Spent
<1>9. Counters(d, u, k, p, r, c, e, n)
  BY <1>3, <1>4, <1>5, <1>6, <1>7, <1>8 DEF Counters
<1> QED BY <1>9

LEMMA RequestsAreFew ==
    ASSUME SpentInv, walkPc = "walk"
    PROVE  pages + 1 <= (start + 2 - since) * Effort
<1>1. PICK d, u, k, p, r, c, e, n \in Nat : Counters(d, u, k, p, r, c, e, n)
  BY CountersAre
<1>2. /\ e = Effort /\ n = pages /\ d <= start + 1 - since
      /\ d * e \in Nat /\ u * c \in Nat /\ k * r \in Nat
      /\ n <= d * e + u * c + k * r + p
      /\ u * c + k * r + p + 1 <= e
  BY <1>1 DEF Counters
<1>3. PICK m \in Nat : m = start + 2 - since /\ d + 1 <= m
  BY <1>2, WalkFacts DEF SpentInv
<1>4. (d + 1) * e = d * e + e
  BY NextMultiple
<1>5. (d + 1) * e <= m * e
  <2>1. PICK g \in Nat : g = d + 1 /\ g <= m
    BY <1>3
  <2> QED BY <2>1, Scale
<1>6. n + 1 <= d * e + e
  BY <1>2
<1>7. n + 1 <= m * e
  BY <1>2, <1>4, <1>5, <1>6, NextMultiple
<1> QED BY <1>2, <1>3, <1>7

LEMMA SpentStep == SpentInv /\ [WalkNext]_walkVars => SpentInv'
<1> SUFFICES ASSUME SpentInv, [WalkNext]_walkVars PROVE SpentInv'
  OBVIOUS
<1>1. WalkInv /\ WalkInv'
  BY WalkInvStep DEF SpentInv
<1>2. PICK most \in Nat : most = (start + 2 - since)' * Effort
  <2>1. PICK m \in Nat : m = (start + 2 - since)'
    <3>1. start' \in Nat /\ since' \in Nat /\ since' <= start'
      BY <1>1, LimitsAssumption DEF WalkInv, WalkTypeOK
    <3>2. \A s \in Nat, q \in Nat : q <= s => s + 2 - q \in Nat
      OBVIOUS
    <3> QED BY <3>1, <3>2, Zenon
  <2> QED BY <2>1, EffortIs, NextMultiple
<1>3. CASE WalkBarCloses \/ UNCHANGED walkVars
  BY <1>1, <1>3 DEF SpentInv, BehindBound, PastSince, Spent, Depth, WalkBarCloses, walkVars, walk
<1>4. CASE Begin
  <2>1. pages' = 0 /\ start' \in Nat /\ end' = start' + 1 /\ walkPc' = "walk"
        /\ unusablePages' = 0 /\ emptyWindows' = 0 /\ emptyPages' = 0
    BY <1>1, <1>4, WalkFacts DEF Begin
  <2>2. Depth' = 0
    <3>1. PICK s \in Nat : s = start'
      BY <2>1
    <3>2. end' = s + 1
      BY <2>1, <3>1
    <3>3. s + 1 >= 0 /\ s + 1 - (s + 1) = 0
      OBVIOUS
    <3> QED BY <3>1, <3>2, <3>3 DEF Depth
  <2>3. \A c \in Nat : 0 * c = 0
    OBVIOUS
  <2>4. Effort \in Nat /\ Round \in Nat /\ Retries + 1 \in Nat
    BY EffortIs
  <2>5. pages' <= 0 * Effort + 0 * Round + 0 * (Retries + 1) + 0
    BY <2>1, <2>3, <2>4
  <2>6. Spent'
    BY <2>1, <2>2, <2>5 DEF Spent
  <2>7. ~PastSince(end)'
    <3>1. since' <= start' /\ since' \in Nat
      BY <1>1 DEF WalkInv, WalkTypeOK
    <3>2. \A s \in Nat, q \in Nat : q <= s => ~(s + 1 < q)
      OBVIOUS
    <3>3. ~(end' < since')
      BY <2>1, <3>1, <3>2, Zenon
    <3> QED BY <3>3, Zenon DEF PastSince
  <2>8. BehindBound'
    BY <1>2, <2>1 DEF BehindBound
  <2> QED BY <1>1, <2>6, <2>7, <2>8 DEF SpentInv
<1>5. CASE Capped \/ RequestFails \/ NotAnArray
  <2>1. /\ walkPc = "walk" /\ walkPc' = "idle" /\ (pages' = pages \/ pages' = pages + 1)
        /\ start' = start /\ since' = since
    BY <1>5 DEF Capped, RequestFails, NotAnArray, Request, Finish
  <2>2. BehindBound'
    BY <2>1, RequestsAreFew DEF SpentInv, BehindBound
  <2> QED BY <1>1, <2>1, <2>2 DEF SpentInv
<1>6. ASSUME Request, walkPc' = "walk" => Spent' /\ ~PastSince(end)' PROVE SpentInv'
  <2>1. BehindBound'
    BY <1>6, RequestsAreFew DEF SpentInv, Request, BehindBound
  <2> QED BY <1>1, <1>6, <2>1 DEF SpentInv
<1>7. ASSUME Request
      PROVE  \E d, u, k, p, r, c, e, n \in Nat :
                Counters(d, u, k, p, r, c, e, n) /\ pages' = n + 1 /\ start' = start /\ start \in Nat
  <2>1. PICK d, u, k, p, r, c, e, n \in Nat : Counters(d, u, k, p, r, c, e, n)
    BY <1>7, CountersAre DEF Request
  <2>2. n = pages
    BY <2>1 DEF Counters
  <2> QED BY <1>1, <1>7, <2>1, <2>2, WalkFacts DEF Request
<1>8. CASE EmptyAgain
  <2>1. PICK d, u, k, p, r, c, e, n \in Nat : Counters(d, u, k, p, r, c, e, n) /\ pages' = n + 1
    BY <1>7, <1>8 DEF EmptyAgain
  <2>2. UNCHANGED <<start, end, emptyWindows, unusablePages>> /\ emptyPages' = p + 1
    BY <1>8, <2>1 DEF EmptyAgain, Request, Counters
  <2>3. Depth' = d /\ emptyWindows' = k /\ unusablePages' = u
    BY <2>1, <2>2 DEF Depth, Counters
  <2>4. n + 1 <= d * e + u * c + k * r + (p + 1)
    BY <2>1 DEF Counters
  <2>5. Spent'
    BY <2>1, <2>2, <2>3, <2>4 DEF Spent, Counters
  <2>6. ~PastSince(end)'
    BY <1>8 DEF EmptyAgain, Request, SpentInv, PastSince
  <2> QED BY <1>6, <1>8, <2>5, <2>6 DEF EmptyAgain
<1>9. \A d \in Nat, f \in Nat : d <= f => d * Effort \in Nat /\ f * Effort \in Nat /\ d * Effort <= f * Effort
  BY EffortIs, Scale
\* The walk never turns back.
<1>10. ASSUME NEW low \in Int, low <= end, end' = low, start' = start
       PROVE  Depth' \in Nat /\ Depth \in Nat /\ Depth <= Depth'
  <2>1. PICK b \in Int, s \in Nat : b = end /\ s = start /\ b <= s + 1
    BY <1>1, WalkFacts
  <2>2. Depth = (IF b >= 0 THEN s + 1 - b ELSE s + 1) /\ Depth' = (IF low >= 0 THEN s + 1 - low ELSE s + 1)
    BY <1>10, <2>1 DEF Depth
  <2>3. CASE low >= 0
    BY <1>10, <2>1, <2>2, <2>3
  <2>4. CASE ~(low >= 0)
    BY <1>10, <2>1, <2>2, <2>4
  <2> QED BY <2>3, <2>4
<1>11. CASE SkipEmpty
  <2>1. PICK d, u, k, p, r, c, e, n \in Nat : Counters(d, u, k, p, r, c, e, n) /\ pages' = n + 1
    BY <1>7, <1>11 DEF SkipEmpty
  <2>2. /\ UNCHANGED <<start, unusablePages>> /\ emptyWindows' = k + 1 /\ emptyPages' = 0
        /\ p + 1 = r
    BY <1>11, <2>1 DEF SkipEmpty, Request, Counters
  <2>3. PICK low \in Int : low = end' /\ low <= end
    BY <1>1, <1>11, WalkFacts DEF SkipEmpty
  <2>4. PICK f \in Nat : f = Depth' /\ d <= f
    BY <1>10, <2>1, <2>2, <2>3 DEF Counters
  <2>5. d * e <= f * e /\ f * e \in Nat /\ d * e \in Nat
    BY <1>9, <2>1, <2>4 DEF Counters
  <2>6. (k + 1) * r = k * r + r /\ k * r \in Nat /\ u * c \in Nat
    BY NextMultiple
  <2>7. n <= d * e + u * c + k * r + p
    BY <2>1 DEF Counters
  <2>8. n + 1 <= f * e + u * c + (k + 1) * r + 0
    BY <2>2, <2>5, <2>6, <2>7
  <2>9. Spent'
    BY <2>1, <2>2, <2>4, <2>8 DEF Spent, Counters
  <2>10. walkPc' = "walk" => ~PastSince(end)'
    BY <1>11 DEF SkipEmpty, Request, PastSince, Finish, Continue
  <2> QED BY <1>6, <1>11, <2>9, <2>10 DEF SkipEmpty
<1>12. CASE Unreadable
  <2>1. PICK d, u, k, p, r, c, e, n \in Nat : Counters(d, u, k, p, r, c, e, n) /\ pages' = n + 1
    BY <1>7, <1>12 DEF Unreadable
  <2>2. UNCHANGED start /\ unusablePages' = u + 1 /\ emptyWindows' = 0 /\ emptyPages' = 0
    BY <1>12, <2>1 DEF Unreadable, LearnNothing, Request, Counters
  <2>3. PICK low \in Int : low = end' /\ low <= end
    BY <1>1, <1>12, WalkFacts DEF Unreadable, LearnNothing
  <2>4. PICK f \in Nat : f = Depth' /\ d <= f
    BY <1>10, <2>1, <2>2, <2>3 DEF Counters
  <2>5. d * e <= f * e /\ f * e \in Nat /\ d * e \in Nat
    BY <1>9, <2>1, <2>4 DEF Counters
  <2>6. (u + 1) * c = u * c + c /\ k * r \in Nat /\ u * c \in Nat /\ 0 * r = 0
    BY NextMultiple
  <2>7. n <= d * e + u * c + k * r + p /\ k * r + p + 1 <= c
    BY <2>1 DEF Counters
  <2>8. n + 1 <= f * e + (u + 1) * c + 0 * r + 0
    BY <2>5, <2>6, <2>7
  <2>9. Spent'
    BY <2>1, <2>2, <2>4, <2>8 DEF Spent, Counters
  <2>10. walkPc' = "walk" => ~PastSince(end)'
    BY <1>12 DEF Unreadable, LearnNothing, Request, SpentInv, PastSince, Finish, Continue
  <2> QED BY <1>6, <1>12, <2>9, <2>10 DEF Unreadable
<1>13. ASSUME Request, NEW rows \in SUBSET Window, NEW times \in SUBSET Window, times # {}, Read(rows, times)
       PROVE  SpentInv'
  <2>1. PICK d, u, k, p, r, c, e, n \in Nat : Counters(d, u, k, p, r, c, e, n) /\ pages' = n + 1 /\ start' = start
    BY <1>7, <1>13
  <2>2. emptyPages' = 0 /\ emptyWindows' = 0 /\ unusablePages' = 0
    BY <1>13 DEF Read
  <2>3. PICK b \in Int, s \in Nat : b = end /\ s = start /\ b <= s + 1
    BY <1>1, WalkFacts
  <2>4. PICK o \in Nat : o = Min(times) /\ 1 <= o /\ o <= b
    <3>1. times \in SUBSET Nat /\ \A t \in times : t \in listed /\ t <= b
      BY <1>1, <1>13, <2>3, WalkFacts DEF Window
    <3>2. \A t \in listed : 1 <= t
      BY <1>1, BoundsAssumption DEF WalkInv, WalkTypeOK, WalkBars
    <3> QED BY <1>13, <3>1, <3>2, LeastOf
  <2>5. CASE walkPc' = "walk"
    <3>1. end' = o - 1
      BY <1>13, <2>4, <2>5 DEF Read, Finish
    <3>2. d = s + 1 - b /\ Depth' = s + 1 - (o - 1) /\ start' = s
      BY <2>1, <2>3, <2>4, <3>1 DEF Depth, Counters
    <3>3. PICK f \in Nat : f = Depth' /\ d + 1 <= f
      BY <2>3, <2>4, <3>2
    <3>4. (d + 1) * e <= f * e /\ f * e \in Nat /\ (d + 1) * e = d * e + e /\ d * e \in Nat
      <4>1. PICK g \in Nat : g = d + 1 /\ g <= f
        BY <3>3
      <4>2. g * e <= f * e /\ f * e \in Nat
        BY <4>1, Scale
      <4>3. (d + 1) * e = d * e + e /\ d * e \in Nat
        BY NextMultiple
      <4> QED BY <4>1, <4>2, <4>3
    <3>5. n <= d * e + u * c + k * r + p /\ u * c + k * r + p + 1 <= e /\ k * r \in Nat /\ u * c \in Nat
      BY <2>1 DEF Counters
    <3>6. n + 1 <= d * e + e
      BY <3>4, <3>5
    <3>7. n + 1 <= f * e
      BY <3>4, <3>6
    <3>8. 0 * c = 0 /\ 0 * r = 0
      OBVIOUS
    <3>9. n + 1 <= f * e + 0 * c + 0 * r + 0
      BY <3>4, <3>7, <3>8
    <3>10. Spent'
      BY <2>1, <2>2, <3>3, <3>9 DEF Spent, Counters
    <3>11. ~PastSince(end)'
      <4>1. PICK q \in Nat : q = since /\ q = since'
        BY <1>1, <1>13, WalkFacts DEF Request
      <4>2. q # 0 => q < o
        BY <1>13, <2>4, <2>5, <4>1 DEF Read, Finish
      <4> QED BY <2>4, <3>1, <4>1, <4>2 DEF PastSince
    <3> QED BY <1>6, <1>13, <3>10, <3>11
  <2> QED BY <1>6, <1>13, <2>5
<1>14. CASE Page
  BY <1>13, <1>14 DEF Page
<1>15. CASE PageWithBadRow
  <2>1. Request
    BY <1>15 DEF PageWithBadRow
  <2>2. PICK t \in Window : \/ Read(Window \ {t}, Window)
                            \/ Window # {t} /\ Read(Window \ {t}, Window \ {t})
    BY <1>15 DEF PageWithBadRow
  <2>3. Window # {} /\ (Window # {t} => Window \ {t} # {})
    BY <2>2
  <2> QED BY <1>13, <2>1, <2>2, <2>3
<1> QED BY <1>3, <1>4, <1>5, <1>8, <1>11, <1>12, <1>14, <1>15 DEF WalkNext, Walk

LEMMA SpentInit == WalkInit => SpentInv
<1> SUFFICES ASSUME WalkInit PROVE SpentInv
  OBVIOUS
<1>1. WalkInv
  BY WalkInvInit
<1>2. pages = 0 /\ start + 2 - since = 2 /\ walkPc = "idle"
  BY DEF WalkInit
<1>3. 2 * Effort \in Nat
  BY EffortIs, NextMultiple
<1> QED BY <1>1, <1>2, <1>3 DEF SpentInv, BehindBound

\* "The old code re-issued byte-identical requests forever": whatever the venue
\* refuses, garbles or omits, and with no cap at all, the requests of a walk of
\* fetchHistory() (poloniex_source.cpp) are bounded by the number of bars
\* between the newest it has and now.
THEOREM WalkIsBounded == WalkSpec => []BehindBound
<1>1. SpentInv => BehindBound
  BY DEF SpentInv
<1> QED BY <1>1, SpentInit, SpentStep, PTL DEF WalkSpec

\* The page cap of fetchHistory() (kSafetyMaxPages of poloniex_source.cpp) is
\* only a backstop: a venue may refuse or garble every page, the brakes end
\* the walk before the cap, unless the history is so long that the cap could
\* not hold a page for each of its bars.
THEOREM BrakesEndTheWalk == BrakesSuffice /\ WalkSpec => []CapIsOnlyABackstop
<1>1. CASE BrakesSuffice
  <2>1. SpentInv => CapIsOnlyABackstop
    <3> SUFFICES ASSUME SpentInv, cap = PageCap PROVE pages < PageCap
      BY DEF CapIsOnlyABackstop
    <3>1. PICK m \in Nat, most \in Nat :
              m = start + 2 - since /\ most = MaxWalkBars + 2 /\ m <= most
      BY WalkFacts DEF SpentInv
    <3>2. m * Effort <= most * Effort /\ m * Effort \in Nat /\ most * Effort \in Nat
      BY <3>1, EffortIs, Scale
    <3>3. pages \in Nat /\ pages <= m * Effort /\ most * Effort < PageCap /\ PageCap \in Nat
      BY <1>1, <3>1, WalkFacts, LimitsAssumption DEF SpentInv, BehindBound, BrakesSuffice
    <3> QED BY <3>2, <3>3
  <2> QED BY <2>1, SpentInit, SpentStep, PTL DEF WalkSpec
<1>2. CASE ~BrakesSuffice
  BY <1>2
<1> QED BY <1>1, <1>2
=============================================================================
