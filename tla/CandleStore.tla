---------------------------- MODULE CandleStore ----------------------------
(***************************************************************************)
(* The .ctc candle store of src/src/core/candle_store.cpp and the two      *)
(* kinds of process that write it: a live bot, which appends without       *)
(* strictness (LiveTrader::cycle), and the `fetch` command, which compares *)
(* an overlap first, appends strictly and can rewrite the file (cmdFetch). *)
(*                                                                         *)
(* Nothing locks a store: the bots of two state directories share one data *)
(* directory, and `fetch` may run at any time. Each access to the file is  *)
(* a step. A writer may be killed at any step, inside pwrite() included.   *)
(* TakeTurns says whether the operator keeps the writers apart.            *)
(***************************************************************************)
EXTENDS Integers, SequencesExt

CONSTANTS
    Bots,       \* `cli_trader run` processes that share the store
    Fetchers,   \* `cli_trader fetch` invocations
    TakeTurns,  \* TRUE: a writer starts only when no other is at work
    MaxBars,    \* bound: bars the venue closes
    BadBars,    \* the bars (times) the venue serves with a broken OHLC
    Overlaps,   \* --overlap, of each fetch anew: stored bars it asks for again
    Repair,     \* --repair
    MaxRebases, \* bound: how often the venue re-scales its whole history
    MaxCuts,    \* bound: fetches that do not get all the bars they ask for
    MaxKills    \* bound: writers killed inside pwrite()

Writers == Bots \union Fetchers

ASSUME WritersAssumption == Bots \intersect Fetchers = {}
ASSUME OptionsAssumption ==
    /\ Overlaps \subseteq Nat /\ Repair \in BOOLEAN /\ TakeTurns \in BOOLEAN
    /\ MaxBars \in Nat /\ MaxRebases \in Nat /\ MaxCuts \in Nat /\ MaxKills \in Nat

VARIABLES
    closed,    \* bars the venue has closed: 1 .. closed
    basis,     \* the basis (split adjustment) it serves all of them on
    header,    \* the file: "none" (or empty), "ok", or "junk"
    recs,      \* ... its whole records
    tail,      \* ... whether a part of a record follows them
    pc,        \* pc[w]: where writer w is
    batch,     \* batch[w]: the bars it fetched
    layout,    \* layout[w]: what inspectStore() told it
    fresh,     \* fresh[w]: the bars it is about to write
    authors,   \* history: who wrote to the file that is there now
    blind,     \* history: `fetch` appended to it with nothing to compare
    missed,    \* history: the bars that some fetch asked for and did not get
    cuts,      \* fetches that missed bars so far
    kills      \* kills inside pwrite() so far

file == <<header, recs, tail>>
locals == <<batch, layout, fresh>>
origin == <<authors, blind>>
losses == <<missed, cuts>>
vars == <<closed, basis, header, recs, tail, pc, batch, layout, fresh, authors, blind,
          missed, cuts, kills>>

-----------------------------------------------------------------------------
\* A candle is its time and the basis its prices are on. A record that two
\* writes have mixed up, or that lies in a hole of the file, is Garbled.
Bars == [time : 1 .. MaxBars, basis : 0 .. MaxRebases]
Garbled == [time |-> 0, basis |-> 0]

Layouts == [header : {"none", "ok"}, count : Nat]
NoLayout == [header |-> "none", count |-> 0]

PCs == {"idle", "compare", "publish", "inspect", "last", "write"}

TypeOK ==
    /\ closed \in 0 .. MaxBars /\ basis \in 0 .. MaxRebases /\ kills \in 0 .. MaxKills
    /\ header \in {"none", "ok", "junk"}
    /\ recs \in Seq(Bars \union {Garbled})
    /\ tail \in BOOLEAN
    /\ pc \in [Writers -> PCs]
    /\ batch \in [Writers -> Seq(Bars)]
    /\ layout \in [Writers -> Layouts]
    /\ fresh \in [Writers -> Seq(Bars)]
    /\ authors \subseteq Writers /\ blind \in BOOLEAN
    /\ missed \subseteq 1 .. MaxBars /\ cuts \in 0 .. MaxCuts

Init ==
    /\ closed = 0
    /\ basis = 0
    /\ header = "none"
    /\ recs = <<>>
    /\ tail = FALSE
    /\ pc = [w \in Writers |-> "idle"]
    /\ batch = [w \in Writers |-> <<>>]
    /\ layout = [w \in Writers |-> NoLayout]
    /\ fresh = [w \in Writers |-> <<>>]
    /\ authors = {} /\ blind = FALSE
    /\ missed = {} /\ cuts = 0
    /\ kills = 0

-----------------------------------------------------------------------------
Times(bars) == {bars[i].time : i \in DOMAIN bars}

Ascending(bars) == \A i, j \in DOMAIN bars : i < j => bars[i].time < bars[j].time

\* lastTimestamp(), 0 when there is none.
LastTime == IF recs = <<>> THEN 0 ELSE Last(recs).time

\* Mistake: the forming bar is not dropped.
ServedForming(since) ==
    [i \in 1 .. (IF since < closed THEN closed + 1 - since ELSE 0) |->
        [time |-> since + i,
         basis |-> IF since + i <= closed THEN basis ELSE MaxRebases + 1]]

\* fetchHistory(since), at its best: the closed bars after it, on today's basis.
Served(since) ==
    [i \in 1 .. (IF since < closed THEN closed - since ELSE 0) |->
        [time |-> since + i, basis |-> basis]]

\* ... but a request that fails, an answer or a row that cannot be used, a
\* window the venue refuses, --max-pages (HistoryWalk), or a --range that does
\* not reach back far enough, leave some of them out.
Partial(since) ==
    {bars \in UNION {[1 .. n -> [time : since + 1 .. closed, basis : {basis}]] :
                     n \in 1 .. closed - since - 1} : Ascending(bars)}

\* validateCandles() finds nothing that is fatal.
Sound(bars) == \A i \in DOMAIN bars : bars[i].time \notin BadBars

\* Mistake: only a batch that starts with the last stored bar is compared.
DisagreesAtLast(bars) ==
    recs # <<>> /\ bars[1].time = Last(recs).time /\ bars[1].basis # Last(recs).basis

\* compareOverlap(): some stored bar is served at another price now.
Disagrees(bars) ==
    \E i \in DOMAIN bars, j \in DOMAIN recs :
        /\ bars[i].time = recs[j].time
        /\ bars[i].basis # recs[j].basis

\* compareOverlap() finds no stored bar in the batch: nothing is compared.
Apart(bars) == recs # <<>> /\ Times(bars) \intersect Times(recs) = {}

\* The records after new ones are written at record position `at`; bytes
\* between the end of the file and that position read as zeros.
Overlay(at, new) ==
    [i \in 1 .. (IF at + Len(new) > Len(recs) THEN at + Len(new) ELSE Len(recs)) |->
        CASE i > at /\ i <= at + Len(new) -> new[i - at]
          [] i <= at /\ i > Len(recs) -> Garbled
          [] OTHER -> recs[i]]

Goto(w, place) == pc' = [pc EXCEPT ![w] = place]

\* The writer is done, or dead: its locals are gone.
Leave(w) ==
    /\ Goto(w, "idle")
    /\ batch' = [batch EXCEPT ![w] = <<>>]
    /\ layout' = [layout EXCEPT ![w] = NoLayout]
    /\ fresh' = [fresh EXCEPT ![w] = <<>>]

-----------------------------------------------------------------------------
\* The venue.
CloseBar ==
    /\ closed < MaxBars
    /\ closed' = closed + 1
    /\ UNCHANGED <<basis, file, pc, locals, origin, losses, kills>>

Rebase ==
    /\ basis < MaxRebases
    /\ basis' = basis + 1
    /\ UNCHANGED <<closed, file, pc, locals, origin, losses, kills>>

\* The answer; without a bar in it there is nothing to do.
Get(w, bars, since) ==
    /\ bars # <<>>
    /\ batch' = [batch EXCEPT ![w] = bars]
    /\ missed' = missed \union ((since + 1 .. closed) \ Times(bars))

\* The bars after the last stored one are fetched; `fetch` asks for a few
\* stored ones again, and looks at the store only if there is one.
Fetch(w) ==
    /\ pc[w] = "idle"
    /\ TakeTurns => \A v \in Writers : pc[v] = "idle"
    /\ \E back \in IF w \in Fetchers THEN Overlaps ELSE {0} :
          LET since == IF header # "ok" \/ LastTime < back THEN 0 ELSE LastTime - back
          IN  /\ \/ Get(w, Served(since), since) /\ UNCHANGED cuts
                 \/ \E bars \in Partial(since) :
                       Get(w, bars, since) /\ cuts < MaxCuts /\ cuts' = cuts + 1
    /\ Goto(w, IF w \in Fetchers /\ header # "none" THEN "compare" ELSE "inspect")
    /\ UNCHANGED <<closed, basis, file, layout, fresh, origin, kills>>

\* fetch: an overlap that disagrees stops it, unless --repair may replace the
\* history with one that is sound and reaches as far back.
Compare(w) ==
    /\ pc[w] = "compare"
    /\ IF ~Disagrees(batch[w]) THEN Goto(w, "inspect") /\ UNCHANGED locals
       ELSE IF Repair /\ Sound(batch[w]) /\ batch[w][1].time <= recs[1].time
            THEN Goto(w, "publish") /\ UNCHANGED locals
            ELSE Leave(w)
    /\ UNCHANGED <<closed, basis, file, origin, losses, kills>>

\* rewrite(): the new file is complete and forced to disk before the rename.
Publish(w) ==
    /\ pc[w] = "publish"
    /\ header' = "ok"
    /\ recs' = batch[w]
    /\ tail' = FALSE
    /\ authors' = {w} /\ blind' = FALSE
    /\ Leave(w)
    /\ UNCHANGED <<closed, basis, losses, kills>>

\* append(): inspectStore(), and refuse a file whose records cannot be told.
Inspect(w) ==
    /\ pc[w] = "inspect"
    /\ IF header = "junk" \/ tail
       THEN Leave(w)
       ELSE /\ Goto(w, "last")
            /\ layout' = [layout EXCEPT ![w] = [header |-> header, count |-> Len(recs)]]
            /\ UNCHANGED <<batch, fresh>>
    /\ UNCHANGED <<closed, basis, file, origin, losses, kills>>

\* The bars of a batch after a time: the tail of it, since fetchHistory() sorts
\* what it returns.
NewerThan(time, bars) ==
    SubSeq(bars, Cardinality({i \in DOMAIN bars : bars[i].time <= time}) + 1, Len(bars))

\* Mistake: off by one, the bar next to the last stored one is skipped.
ReadLastSkipping(w) ==
    LET stored == IF layout[w].count > 0 THEN LastTime ELSE 0
        newer == NewerThan(stored + 1, batch[w])
    IN  /\ pc[w] = "last"
        /\ IF newer = <<>> \/ (w \in Fetchers /\ ~Sound(newer))
           THEN Leave(w)
           ELSE /\ Goto(w, "write")
                /\ fresh' = [fresh EXCEPT ![w] = newer]
                /\ UNCHANGED <<batch, layout>>
        /\ UNCHANGED <<closed, basis, file, origin, losses, kills>>

\* ... the last record is read again, the file opened anew: keep what is newer
\* than it. Strict: one bad bar and nothing is written.
ReadLast(w) ==
    LET stored == IF layout[w].count > 0 THEN LastTime ELSE 0
        newer == NewerThan(stored, batch[w])
    IN  /\ pc[w] = "last"
        /\ IF newer = <<>> \/ (w \in Fetchers /\ ~Sound(newer))
           THEN Leave(w)
           ELSE /\ Goto(w, "write")
                /\ fresh' = [fresh EXCEPT ![w] = newer]
                /\ UNCHANGED <<batch, layout>>
        /\ UNCHANGED <<closed, basis, file, origin, losses, kills>>

\* What the histories say of a write.
Sign(w) ==
    /\ authors' = authors \union {w}
    /\ blind' = (blind \/ (w \in Fetchers /\ Apart(batch[w])))

\* writeAllAndSync(): at the offset that inspectStore() found.
Write(w) ==
    LET at == layout[w].count
    IN  /\ pc[w] = "write"
        /\ header' = "ok"
        /\ recs' = Overlay(at, fresh[w])
        /\ tail' = (tail /\ at + Len(fresh[w]) <= Len(recs))
        /\ Sign(w)
        /\ Leave(w)
        /\ UNCHANGED <<closed, basis, losses, kills>>

\* Killed inside pwrite(): k whole records are in the file, and maybe a part
\* of the next one, which mixes with a record that was already there. A new
\* file may not even have its whole header.
WriteCut(w) ==
    /\ pc[w] = "write"
    /\ kills < MaxKills
    /\ kills' = kills + 1
    /\ Sign(w)
    /\ \/ /\ layout[w].header = "none" /\ header = "none"
          /\ header' = "junk"
          /\ UNCHANGED <<recs, tail>>
       \/ \E k \in 0 .. Len(fresh[w]) - 1, partial \in BOOLEAN :
            LET at == layout[w].count
                new == SubSeq(fresh[w], 1, k)
                hits == at + k < Len(recs)
            IN  /\ header' = "ok"
                /\ recs' = IF ~partial \/ ~hits \/ recs[at + k + 1] = fresh[w][k + 1]
                           THEN Overlay(at, new)
                           ELSE Overlay(at, Append(new, Garbled))
                /\ tail' = \/ partial /\ ~hits
                           \/ tail /\ at + k <= Len(recs)
    /\ Leave(w)
    /\ UNCHANGED <<closed, basis, losses>>

\* Killed anywhere else: nothing has been written, or everything has.
Kill(w) ==
    /\ pc[w] # "idle"
    /\ kills < MaxKills
    /\ kills' = kills + 1
    /\ Leave(w)
    /\ UNCHANGED <<closed, basis, file, origin, losses>>

Step(w) ==
    \/ Fetch(w) \/ Compare(w) \/ Publish(w)
    \/ Inspect(w) \/ ReadLast(w) \/ Write(w)

Next ==
    \/ CloseBar \/ Rebase
    \/ \E w \in Writers : Step(w) \/ WriteCut(w) \/ Kill(w)

Spec == Init /\ [][Next]_vars

\* A poll loop and a timer run every process again and again: one that keeps
\* getting its turn uses it.
FairSpec == Spec /\ \A w \in Writers : SF_vars(Step(w))

-----------------------------------------------------------------------------
\* "Records are guaranteed sorted ascending by timestamp (enforced on append)"
\* (candle_store.h): every search by time, and the replay, rest on it.
Sorted == Ascending(recs)

\* Nothing is missing from what is stored but bars that a fetch did not get,
\* and nothing in it was not a closed bar: an interrupted append leaves a
\* prefix, never a hole or a made-up bar.
Gapless ==
    /\ Sorted
    /\ Times(recs) \subseteq 1 .. closed
    /\ 1 .. LastTime \subseteq Times(recs) \union missed

\* Two price bases never meet in a file that only `fetch` wrote, as long as it
\* had a stored bar to compare each time.
OneBasis ==
    authors \subseteq Fetchers /\ ~blind =>
        \A i, j \in DOMAIN recs : recs[i].basis = recs[j].basis

\* "Re-based history is detected. `fetch` deliberately re-fetches a few stored
\* bars and compares them" (README.md:202): without a condition.
RebaseIsDetected ==
    authors \subseteq Fetchers =>
        \A i, j \in DOMAIN recs : recs[i].basis = recs[j].basis

\* A bar that fails validation is not stored by `fetch`: one bad bar and none
\* of the batch is.
FetchedBarsAreSound == authors \subseteq Fetchers => Sound(recs)

\* ... nor by a bot, says the comment at live_trader.h:332-334 ("the store
\* drops it").
StoredBarsAreSound == Sound(recs)

\* What the venue closed gets stored, however often writers die before their
\* write: no filter and no refusal blocks the appends that follow.
EveryBarIsStored ==
    \A t \in 1 .. MaxBars :
        closed >= t ~> (tail \/ header = "junk" \/ t \in Times(recs) \union missed)

\* What the refusal tells the operator to do: "Rebuild the store (fetch
\* --repair)" (candle_store.cpp:528). A torn store does get rebuilt.
TornIsRepaired == tail \/ header = "junk" ~> ~tail /\ header # "junk"
=============================================================================
