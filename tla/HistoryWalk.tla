---------------------------- MODULE HistoryWalk ----------------------------
(***************************************************************************)
(* PoloniexSource::fetchHistory() of src/src/data/poloniex_source.cpp: the *)
(* walk backward from now, page by page, that brings a store up to date,   *)
(* against a venue that has gaps, refuses windows, and answers with pages  *)
(* that cannot be read. Each request is a step.                            *)
(*                                                                         *)
(* A bar is its number; bar now + 1 is still forming. A window that ends   *)
(* at e holds the bars e - Width + 1 .. e, as far as the venue lists them. *)
(* What the walk gives is appended to the store, by a bot that runs again  *)
(* and again (cycle() of live_trader.h).                                   *)
(***************************************************************************)
EXTENDS Integers, FiniteSetsExt

CONSTANTS
    Width,          \* limit: bars to a page
    Retries,        \* the times an empty window is asked for again
    EmptyLimit,     \* consecutive empty windows that end the walk
    UnusableLimit,  \* kMaxUnusablePages
    PageCap,        \* kSafetyMaxPages
    MaxPages,       \* fetch --max-pages; 0: nobody uses it
    MaxWalkBars,        \* bound: bars that close
    Faults          \* the kinds of failure that happen, as often as they like

\* request: no answer, or one that is not JSON; notArray: JSON, but no array, as
\* an error that came with status 200 would be; refuse: an empty page for a
\* window that is not; unreadable: a page without one startTime; badRow: a row
\* that has no startTime, or no prices.
FaultKinds == {"request", "notArray", "refuse", "unreadable", "badRow"}

ASSUME LimitsAssumption ==
    /\ Width \in Nat \ {0} /\ EmptyLimit \in Nat \ {0} /\ UnusableLimit \in Nat \ {0}
    /\ Retries \in Nat /\ PageCap \in Nat \ {0} /\ MaxPages \in 0 .. PageCap - 1
ASSUME BoundsAssumption == MaxWalkBars \in Nat \ {0} /\ Faults \subseteq FaultKinds

VARIABLES
    listed,     \* the bars the venue has; in the others nothing was traded
    now,        \* bars closed
    stored,     \* the bars in the store
    walkPc,     \* "idle", or "walk"ing
    start,      \* nowSec: the bars closed when the walk began
    since,      \* the last stored bar, 0 for none
    end,        \* endMs: the newest bar of the window asked for next
    all,        \* the bars collected
    cap,        \* pageCap
    pages,      \* requests made
    emptyPages, emptyWindows, unusablePages,
    gaveUp,     \* history: a failure that was reported, or --max-pages, has cost bars
    silenced    \* history: an answer that is no array has ended a walk

walk == <<start, since, end, all, cap, pages, emptyPages, emptyWindows, unusablePages>>
walkVars == <<listed, now, stored, walkPc, start, since, end, all, cap, pages,
          emptyPages, emptyWindows, unusablePages, gaveUp, silenced>>

-----------------------------------------------------------------------------
WalkBars == 1 .. MaxWalkBars + 1

\* No gap is as long as the run of empty windows that counts as the end.
GapsAreShort(list) ==
    \A e \in WalkBars : (\E t \in list : t <= e) => \E t \in list : t <= e /\ e - t < Width * EmptyLimit

WalkTypeOK ==
    /\ listed \subseteq WalkBars /\ now \in 1 .. MaxWalkBars /\ stored \subseteq listed
    /\ walkPc \in {"idle", "walk"}
    /\ start \in 0 .. now /\ since \in 0 .. start
    /\ end \in Int /\ end <= start + 1
    /\ all \subseteq listed
    /\ cap \in {PageCap, MaxPages} /\ pages \in 0 .. cap
    /\ emptyPages \in 0 .. Retries /\ emptyWindows \in 0 .. EmptyLimit
    /\ unusablePages \in 0 .. UnusableLimit
    /\ gaveUp \in BOOLEAN /\ silenced \in BOOLEAN

WalkInit ==
    /\ listed \in {list \in SUBSET WalkBars : GapsAreShort(list)}
    /\ now \in 1 .. MaxWalkBars
    /\ stored = {}
    /\ walkPc = "idle"
    /\ start = 0 /\ since = 0 /\ end = 0
    /\ all = {}
    /\ cap = PageCap /\ pages = 0 /\ emptyPages = 0 /\ emptyWindows = 0 /\ unusablePages = 0
    /\ gaveUp = FALSE /\ silenced = FALSE

-----------------------------------------------------------------------------
\* The bars the venue has in the window that is asked for.
Window == {t \in listed : end - Width < t /\ t <= end}

Newest(bars) == IF bars = {} THEN 0 ELSE Max(bars)

\* What is kept of a page: not the bar that is still forming.
ClosedOf(rows) == {t \in rows : t <= start}

\* Nothing is left to do below this end.
PastSince(e) == since # 0 /\ e < since

\* The walk is over: sorted, without duplicates and without what the store
\* has, its bars are appended.
Finish ==
    /\ walkPc' = "idle"
    /\ stored' = stored \union {t \in all' : t > since}

Continue ==
    /\ walkPc' = "walk"
    /\ UNCHANGED stored

-----------------------------------------------------------------------------
WalkBarCloses ==
    /\ now < MaxWalkBars
    /\ now' = now + 1
    /\ UNCHANGED <<listed, stored, walkPc, walk, gaveUp, silenced>>

\* cycle() or fetch: since = lastTimestamp(), and a walk begins, of a bot or
\* of `fetch --max-pages`.
Begin ==
    /\ walkPc = "idle"
    /\ walkPc' = "walk"
    /\ start' = now
    /\ since' = Newest(stored)
    /\ end' = now + 1
    /\ all' = {}
    /\ cap' \in {PageCap} \union (IF MaxPages > 0 THEN {MaxPages} ELSE {})
    /\ pages' = 0 /\ emptyPages' = 0 /\ emptyWindows' = 0 /\ unusablePages' = 0
    /\ UNCHANGED <<listed, now, stored, gaveUp, silenced>>

\* A request, if the page cap leaves one.
Request ==
    /\ walkPc = "walk"
    /\ pages < cap
    /\ pages' = pages + 1
    /\ UNCHANGED <<listed, now, start, since, cap>>

Capped ==
    /\ walkPc = "walk"
    /\ pages = cap
    /\ UNCHANGED all
    /\ Finish
    /\ gaveUp' = TRUE
    /\ UNCHANGED <<listed, now, start, since, end, cap, pages, emptyPages, emptyWindows,
                   unusablePages, silenced>>

\* No answer, or none that can be parsed: the walk says so, and ends with what
\* it has.
RequestFails ==
    /\ Request
    /\ "request" \in Faults
    /\ UNCHANGED <<end, all, emptyPages, emptyWindows, unusablePages, silenced>>
    /\ Finish
    /\ gaveUp' = TRUE

\* An answer that is no array ends the walk too, and nothing is printed.
NotAnArray ==
    /\ Request
    /\ "notArray" \in Faults
    /\ UNCHANGED <<end, all, emptyPages, emptyWindows, unusablePages, gaveUp>>
    /\ Finish
    /\ silenced' = TRUE

\* The page is empty, rightly or not.
EmptyPage == Window = {} \/ "refuse" \in Faults

\* Ask for the window again ...
EmptyAgain ==
    /\ Request
    /\ emptyPages < Retries
    /\ EmptyPage
    /\ emptyPages' = emptyPages + 1
    /\ UNCHANGED <<end, all, emptyWindows, unusablePages, gaveUp, silenced>>
    /\ Continue

\* Mistake: an empty window ends the history.
SkipEmptyEnds ==
    /\ Request
    /\ emptyPages = Retries
    /\ EmptyPage
    /\ gaveUp' = (gaveUp \/ Window # {})
    /\ emptyPages' = 0
    /\ UNCHANGED <<end, all, emptyWindows, unusablePages, silenced>>
    /\ Finish

\* ... and again, then step over the window; after enough of them in a row
\* history has ended.
SkipEmpty ==
    /\ Request
    /\ emptyPages = Retries
    /\ EmptyPage
    /\ gaveUp' = (gaveUp \/ Window # {})
    /\ emptyPages' = 0
    /\ emptyWindows' = emptyWindows + 1
    /\ UNCHANGED <<all, unusablePages, silenced>>
    /\ IF emptyWindows + 1 >= EmptyLimit
       THEN UNCHANGED end /\ Finish
       ELSE end' = end - Width /\ IF PastSince(end') THEN Finish ELSE Continue

\* The page has rows, but nothing to learn from them. Once: ask again; then
\* step over it, or give up.
LearnNothing ==
    /\ emptyPages' = 0 /\ emptyWindows' = 0
    /\ unusablePages' = unusablePages + 1
    /\ UNCHANGED <<all, silenced>>
    /\ gaveUp' = (gaveUp \/ unusablePages > 0 \/ UnusableLimit = 1)
    /\ CASE unusablePages + 1 >= UnusableLimit -> UNCHANGED end /\ Finish
         [] unusablePages = 0 /\ UnusableLimit > 1 -> UNCHANGED end /\ Continue
         [] OTHER -> end' = end - Width /\ IF PastSince(end') THEN Finish ELSE Continue

\* Mistake: the same window is asked for until it can be read (the old code).
UnreadableRetried ==
    /\ Request
    /\ Window # {}
    /\ "unreadable" \in Faults
    /\ UNCHANGED <<end, all, emptyPages, emptyWindows, unusablePages, gaveUp, silenced>>
    /\ Continue

Unreadable ==
    /\ Request
    /\ Window # {}
    /\ "unreadable" \in Faults
    /\ LearnNothing

\* What a readable page changes: `rows` are its bars with prices, `times`
\* those with a startTime.
Read(rows, times) ==
    /\ emptyPages' = 0 /\ emptyWindows' = 0 /\ unusablePages' = 0
    /\ all' = all \union ClosedOf(rows)
    /\ IF since # 0 /\ Min(times) <= since
       THEN UNCHANGED end /\ Finish
       ELSE end' = Min(times) - 1 /\ Continue
    /\ UNCHANGED silenced

\* Mistake: a page that is not full is the last one (the old code).
PageShortEnds ==
    /\ Request
    /\ Window # {}
    /\ emptyPages' = 0 /\ emptyWindows' = 0 /\ unusablePages' = 0
    /\ all' = all \union ClosedOf(Window)
    /\ IF (since # 0 /\ Min(Window) <= since) \/ Cardinality(Window) < Width
       THEN UNCHANGED end /\ Finish
       ELSE end' = Min(Window) - 1 /\ Continue
    /\ UNCHANGED <<gaveUp, silenced>>

Page ==
    /\ Request
    /\ Window # {}
    /\ Read(Window, Window)
    /\ UNCHANGED gaveUp

\* One row is malformed: its bar is lost, and it may not move the window.
PageWithBadRow ==
    /\ Request
    /\ "badRow" \in Faults
    /\ gaveUp' = TRUE
    /\ \E t \in Window :
          \/ Read(Window \ {t}, Window)
          \/ Window # {t} /\ Read(Window \ {t}, Window \ {t})

Walk ==
    \/ Begin \/ Capped \/ RequestFails \/ NotAnArray
    \/ EmptyAgain \/ SkipEmpty \/ Unreadable
    \/ Page \/ PageWithBadRow

WalkNext == WalkBarCloses \/ Walk

WalkSpec == WalkInit /\ [][WalkNext]_walkVars

\* The poll loop walks again and again; the market goes on.
WalkFairSpec == WalkSpec /\ WF_walkVars(Walk)

-----------------------------------------------------------------------------
\* Up to the newest stored bar, nothing the venue lists is missing.
NoHole == \A t \in listed : t <= Newest(stored) => t \in stored

\* A hole has its cause: a failure that was reported, an operator's
\* --max-pages, or an answer that is no array. Gaps, short pages, refusals and
\* unreadable pages that go away when asked again, and bars that close during a
\* walk, leave none (the two stages of fetchHistory()).
HoleHasItsCause == ~gaveUp /\ ~silenced => NoHole

\* "Fetches all candles [...] up to now", or "gives up loudly with
\* possibly-incomplete history" (poloniex_source.h:29-38).
NoHoleUnreported == ~gaveUp => NoHole

\* Only closed bars are stored.
OnlyClosedBars == \A t \in stored : t <= now

\* The brakes end every walk: the page cap is only a backstop for them, even
\* against a venue that refuses or garbles every page.
CapIsOnlyABackstop == cap = PageCap => pages < PageCap

\* Every listed bar gets stored once it has closed.
EveryBarArrives == \A t \in 1 .. MaxWalkBars : (t \in listed /\ t <= now) ~> (t \in stored \/ gaveUp \/ silenced)
=============================================================================
