----------------------------- MODULE TradeAlerts -----------------------------
(***************************************************************************)
(* The fill alerter of src/scripts/trade_alerts.py: scans that read the    *)
(* sleeves' trade logs from a cursor onwards and send one chat message per *)
(* fill, run by the query bot after every poll and by hand.                *)
(*                                                                         *)
(* The sleeves append while a scan runs; a scan holds a lock and may be    *)
(* killed between sending a message and saving the cursor.                 *)
(***************************************************************************)
EXTENDS Integers, FiniteSets, SequencesExt

CONSTANTS
    NumSleeves,   \* the sleeves 1 .. NumSleeves, in the order of their names
    Dirs,         \* the state directories STATE_DIR can name
    FirstDir,     \* the one it names at first
    NoDir,        \* no cursor file
    Scanners,     \* processes that scan: the query bot, and the operator
    NoScanner,    \* the lock is free
    History,      \* lines each log of FirstDir has when the alerter is installed
    MaxFills,     \* bound: lines a log may get
    MaxFailures,  \* MAX_SEND_FAILURES
    MaxPerScan,   \* MAX_PER_SCAN
    Faults,       \* the kinds of trouble that happen
    MaxFaults     \* bound: how many of them

Sleeves == 1 .. NumSleeves

FaultKinds == {"kill", "killSleeve", "refuse", "lost", "open", "save", "dry",
               "switch", "reset", "loseCursor"}

ASSUME NamesAssumption == FirstDir \in Dirs /\ NoDir \notin Dirs /\ NoScanner \notin Scanners
ASSUME LimitsAssumption ==
    /\ NumSleeves \in Nat \ {0} /\ MaxFills \in Nat /\ History \in 0 .. MaxFills
    /\ MaxFailures \in Nat \ {0} /\ MaxPerScan \in Nat \ {0}
    /\ Faults \subseteq FaultKinds /\ MaxFaults \in Nat

VARIABLES
    dir,       \* STATE_DIR, as bot.env says now
    log,       \* log[d][s]: the lines of a trade log; FALSE is a corrupt one
    tail,      \* tail[d][s]: what follows the last whole line
    cursor,    \* the cursor file
    lock,      \* who holds the lock
    scanPc,        \* scanPc[p]: where scanner p is
    mem,       \* mem[p]: the cursor it works on
    files,     \* files[p]: the sleeves whose logs it found, when it began
    at,        \* at[p]: the sleeve it is at
    count,     \* count[p]: the lines it read there
    sent,      \* sent[p]: messages delivered in this scan
    dry,       \* dry[p]: --dry-run
    chat,      \* history: the messages that arrived, as <<dir, sleeve, line>>
    skipped,   \* history: the fills given up on
    adopted,   \* history: the fills passed over because the sleeve was unknown
    owed,      \* history: the fills written since the cursor knows their sleeve
    printed,   \* history: the fills a dry run printed
    slips,     \* history: kills of a scan, answers lost and saves that failed
    faults     \* trouble so far

logVars == <<log, tail>>
histVars == <<skipped, adopted, owed, printed>>
scanVars == <<scanPc, mem, files, at, count, sent, dry>>
alertsVars == <<dir, log, tail, cursor, lock, scanPc, mem, files, at, count, sent, dry,
          chat, skipped, adopted, owed, printed, slips, faults>>

-----------------------------------------------------------------------------
\* No entry for the sleeve.
Unknown == -1

Cursors == [dir : Dirs \union {NoDir},
            lines : [Sleeves -> (0 .. MaxFills) \union {Unknown}],
            fails : [Sleeves -> 0 .. MaxFailures - 1]]

BlankCursor(d) == [dir |-> d, lines |-> [s \in Sleeves |-> Unknown],
             fails |-> [s \in Sleeves |-> 0]]

Fills == Dirs \X Sleeves \X (1 .. MaxFills)

\* A partial line, by a sleeve still writing it or by one that was killed;
\* "ruined" is a line written after a partial one.
Tails == {"none", "writing", "torn", "ruined"}

AlertsTypeOK ==
    /\ dir \in Dirs
    /\ log \in [Dirs -> [Sleeves -> Seq(BOOLEAN)]]
    /\ tail \in [Dirs -> [Sleeves -> Tails]]
    /\ cursor \in Cursors
    /\ lock \in Scanners \union {NoScanner}
    /\ scanPc \in [Scanners -> {"off", "look", "send", "save"}]
    /\ mem \in [Scanners -> Cursors]
    /\ files \in [Scanners -> SUBSET Sleeves]
    /\ at \in [Scanners -> 1 .. NumSleeves + 1]
    /\ count \in [Scanners -> 0 .. MaxFills]
    /\ sent \in [Scanners -> 0 .. MaxPerScan]
    /\ dry \in [Scanners -> BOOLEAN]
    /\ chat \in Seq(Fills)
    /\ skipped \subseteq Fills /\ adopted \subseteq Fills /\ owed \subseteq Fills
    /\ printed \subseteq Fills
    /\ slips \in 0 .. MaxFaults /\ faults \in 0 .. MaxFaults

AlertsInit ==
    /\ dir = FirstDir
    /\ log = [d \in Dirs |-> [s \in Sleeves |->
                 IF d = FirstDir THEN [i \in 1 .. History |-> TRUE] ELSE <<>>]]
    /\ tail = [d \in Dirs |-> [s \in Sleeves |-> "none"]]
    /\ cursor = BlankCursor(NoDir)
    /\ lock = NoScanner
    /\ scanPc = [p \in Scanners |-> "off"]
    /\ mem = [p \in Scanners |-> BlankCursor(NoDir)]
    /\ files = [p \in Scanners |-> {}]
    /\ at = [p \in Scanners |-> 1]
    /\ count = [p \in Scanners |-> 0]
    /\ sent = [p \in Scanners |-> 0]
    /\ dry = [p \in Scanners |-> FALSE]
    /\ chat = <<>>
    /\ skipped = {} /\ adopted = {} /\ owed = {} /\ printed = {}
    /\ slips = 0 /\ faults = 0

Fault(kind) ==
    /\ kind \in Faults
    /\ faults < MaxFaults
    /\ faults' = faults + 1

-----------------------------------------------------------------------------
(* A sleeve appends one line per fill.                                     *)

StartLine(s) ==
    /\ Len(log[dir][s]) < MaxFills
    /\ tail[dir][s] \in {"none", "torn"}
    /\ tail' = [tail EXCEPT ![dir][s] = IF @ = "none" THEN "writing" ELSE "ruined"]
    /\ UNCHANGED <<dir, log, cursor, lock, scanVars, chat, histVars, slips, faults>>

EndLine(d, s) ==
    /\ tail[d][s] \in {"writing", "ruined"}
    /\ log' = [log EXCEPT ![d][s] = Append(@, tail[d][s] = "writing")]
    /\ tail' = [tail EXCEPT ![d][s] = "none"]
    /\ owed' = IF cursor.dir = d /\ cursor.lines[s] # Unknown /\ tail[d][s] = "writing"
               THEN owed \union {<<d, s, Len(log'[d][s])>>} ELSE owed
    /\ UNCHANGED <<dir, cursor, lock, scanVars, chat, skipped, adopted, printed, slips, faults>>

KillSleeve(d, s) ==
    /\ tail[d][s] \in {"writing", "ruined"}
    /\ Fault("killSleeve")
    /\ tail' = [tail EXCEPT ![d][s] = "torn"]
    /\ UNCHANGED <<dir, log, cursor, lock, scanVars, chat, histVars, slips>>

-----------------------------------------------------------------------------
\* Mistake: reading stops at the first line that does not parse.
ReadableToBadLine(d, s) ==
    LET bad == {i \in DOMAIN log[d][s] : ~log[d][s][i]}
    IN  IF bad = {} THEN Len(log[d][s]) ELSE (CHOOSE i \in bad : \A j \in bad : i <= j) - 1

\* _read_fills(): a last line that does not parse is not counted.
Readable(d, s) ==
    LET n == Len(log[d][s])
    IN  IF n > 0 /\ tail[d][s] = "none" /\ ~log[d][s][n] THEN n - 1 ELSE n

\* A log exists once something was written to it.
Exists(d, s) == log[d][s] # <<>> \/ tail[d][s] # "none"

\* Mistake: counts are reused after a switch of directories.
LoadedAnyway == [cursor EXCEPT !.dir = dir]

\* The cursor of this directory, or a blank one.
CursorLoaded == IF cursor.dir = dir THEN cursor ELSE BlankCursor(dir)

\* Mistake: two scans may run at once.
BeginUnlocked(p) ==
    /\ scanPc[p] = "off"
    /\ lock' = p
    /\ scanPc' = [scanPc EXCEPT ![p] = "look"]
    /\ mem' = [mem EXCEPT ![p] = CursorLoaded]
    /\ files' = [files EXCEPT ![p] = {s \in Sleeves : Exists(dir, s)}]
    /\ at' = [at EXCEPT ![p] = 1]
    /\ sent' = [sent EXCEPT ![p] = 0]
    /\ UNCHANGED <<dir, logVars, cursor, count, dry, chat, histVars, slips, faults>>

\* scan(): without the lock there is no scan.
Begin(p) ==
    /\ scanPc[p] = "off"
    /\ lock = NoScanner
    /\ lock' = p
    /\ \/ dry' = [dry EXCEPT ![p] = FALSE] /\ UNCHANGED faults
       \/ dry' = [dry EXCEPT ![p] = TRUE] /\ Fault("dry")
    /\ scanPc' = [scanPc EXCEPT ![p] = "look"]
    /\ mem' = [mem EXCEPT ![p] = CursorLoaded]
    /\ files' = [files EXCEPT ![p] = {s \in Sleeves : Exists(dir, s)}]
    /\ at' = [at EXCEPT ![p] = 1]
    /\ sent' = [sent EXCEPT ![p] = 0]
    /\ UNCHANGED <<dir, logVars, cursor, count, chat, histVars, slips>>

\* _save_cursor(): atomic, and a failure is only printed.
SaveCursor(c) ==
    \/ /\ cursor' = c
       /\ owed' = {f \in owed : f[1] = c.dir}
       /\ UNCHANGED <<slips, faults>>
    \/ /\ Fault("save")
       /\ slips' = slips + 1
       /\ UNCHANGED <<cursor, owed>>

\* The lines first .. last of the log p is at.
Lines(p, first, last) == {<<mem[p].dir, at[p], i>> : i \in first .. last}

\* _scan_symbol() reads a log. A sleeve without an entry, or whose log is
\* shorter than its entry, is adopted at the length read; a log that cannot be
\* opened reads as an empty one.
Look(p) ==
    LET s == at[p]
        d == mem[p].dir
        prev == mem[p].lines[s]
    IN  /\ scanPc[p] = "look"
        /\ s \in Sleeves
        /\ IF s \notin files[p]
           THEN at' = [at EXCEPT ![p] = s + 1] /\ UNCHANGED <<mem, count, scanPc, adopted, faults>>
           ELSE \E n \in {Readable(d, s), 0} :
                  /\ IF n = Readable(d, s) THEN UNCHANGED faults ELSE Fault("open")
                  /\ count' = [count EXCEPT ![p] = n]
                  /\ IF prev = Unknown \/ prev > n
                     THEN /\ mem' = [mem EXCEPT ![p].lines[s] = n, ![p].fails[s] = 0]
                          /\ adopted' = adopted \union Lines(p, 1, n)
                          /\ at' = [at EXCEPT ![p] = s + 1]
                          /\ UNCHANGED scanPc
                     ELSE scanPc' = [scanPc EXCEPT ![p] = "send"] /\ UNCHANGED <<mem, adopted, at>>
        /\ UNCHANGED <<dir, logVars, cursor, lock, files, sent, dry, chat, skipped, owed, printed, slips>>

\* MAX_PER_SCAN messages: the rest waits for the next scan.
ScanDone(p) == sent[p] = MaxPerScan

\* The line that is next.
Next1(p) == mem[p].lines[at[p]] + 1

Passed(p) == [mem EXCEPT ![p].lines[at[p]] = @ + 1, ![p].fails[at[p]] = 0]

\* No line of this log is left: on to the next sleeve.
NextSleeve(p) ==
    /\ scanPc[p] = "send"
    /\ ~ScanDone(p)
    /\ Next1(p) > count[p]
    /\ at' = [at EXCEPT ![p] = @ + 1]
    /\ scanPc' = [scanPc EXCEPT ![p] = "look"]
    /\ UNCHANGED <<dir, logVars, cursor, lock, mem, files, count, sent, dry, chat, histVars, slips, faults>>

\* There is a line, and time for it.
AtLine(p) ==
    /\ scanPc[p] = "send"
    /\ ~ScanDone(p)
    /\ Next1(p) <= count[p]

Fill(p) == <<mem[p].dir, at[p], Next1(p)>>

\* Blank or corrupt: nothing to say.
PassCorrupt(p) ==
    /\ AtLine(p)
    /\ ~log[mem[p].dir][at[p]][Next1(p)]
    /\ mem' = [mem EXCEPT ![p].lines[at[p]] = @ + 1]
    /\ UNCHANGED <<dir, logVars, cursor, lock, scanPc, at, files, count, sent, dry, chat, histVars, slips, faults>>

\* --dry-run: the message is printed, and counts as sent.
PrintFill(p) ==
    /\ AtLine(p)
    /\ log[mem[p].dir][at[p]][Next1(p)]
    /\ dry[p]
    /\ mem' = [mem EXCEPT ![p].lines[at[p]] = @ + 1]
    /\ printed' = printed \union {Fill(p)}
    /\ sent' = [sent EXCEPT ![p] = @ + 1]
    /\ UNCHANGED <<dir, logVars, cursor, lock, scanPc, at, files, count, dry, chat, skipped, adopted, owed, slips, faults>>

\* n messages about the line arrive, and the answers to l of them are lost.
Arrive(p, n, l) ==
    /\ chat' = chat \o [i \in 1 .. n |-> Fill(p)]
    /\ slips' = slips + l

\* _send(): a message is accepted. The answer to a first attempt may have been
\* lost, so that it is sent, and arrives, once more in plain text.
Delivered(p) ==
    /\ AtLine(p)
    /\ log[mem[p].dir][at[p]][Next1(p)]
    /\ ~dry[p]
    /\ \/ Arrive(p, 1, 0) /\ UNCHANGED faults
       \/ Arrive(p, 2, 1) /\ Fault("lost")
    /\ mem' = Passed(p)
    /\ sent' = [sent EXCEPT ![p] = @ + 1]
    /\ scanPc' = [scanPc EXCEPT ![p] = "save"]
    /\ UNCHANGED <<dir, logVars, cursor, lock, at, files, count, dry, histVars>>

\* Neither attempt is answered: each was refused, or it arrived and its answer
\* was lost.
Unanswered(p) ==
    \E l \in 0 .. 2 :
        /\ l > 0 => "lost" \in Faults
        /\ l < 2 => "refuse" \in Faults
        /\ faults' = faults + (IF l = 0 THEN 1 ELSE 2)
        /\ faults' <= MaxFaults
        /\ Arrive(p, l, l)

\* _send() gives False: the fill keeps its place, until it has failed in
\* MaxFailures scans. Either way this sleeve is done for now, and the whole
\* scan is when sends that hang have used up SCAN_BUDGET.
SendRefused(p) ==
    LET s == at[p]
        n == mem[p].fails[s] + 1
    IN  /\ AtLine(p)
        /\ log[mem[p].dir][s][Next1(p)]
        /\ ~dry[p]
        /\ Unanswered(p)
        /\ IF n < MaxFailures
           THEN mem' = [mem EXCEPT ![p].fails[s] = n] /\ UNCHANGED skipped
           ELSE mem' = Passed(p) /\ skipped' = skipped \union {Fill(p)}
        /\ \E next \in {s + 1, NumSleeves + 1} : at' = [at EXCEPT ![p] = next]
        /\ scanPc' = [scanPc EXCEPT ![p] = "look"]
        /\ UNCHANGED <<dir, logVars, cursor, lock, files, count, sent, dry, adopted, owed, printed>>

\* Mistake: the cursor is saved once, at the end of the scan.
SaveAtEndOnly(p) ==
    /\ scanPc[p] = "save"
    /\ scanPc' = [scanPc EXCEPT ![p] = "send"]
    /\ UNCHANGED <<dir, logVars, cursor, lock, mem, at, files, count, sent, dry, chat, histVars, slips, faults>>

\* ... saved per message, not once at the end. Then the next line, or the end
\* of the scan when SCAN_BUDGET is used up.
Save(p) ==
    /\ scanPc[p] = "save"
    /\ SaveCursor(mem[p])
    /\ \/ scanPc' = [scanPc EXCEPT ![p] = "send"] /\ UNCHANGED at
       \/ scanPc' = [scanPc EXCEPT ![p] = "look"] /\ at' = [at EXCEPT ![p] = NumSleeves + 1]
    /\ UNCHANGED <<dir, logVars, lock, mem, files, count, sent, dry, chat, skipped, adopted, printed>>

\* What a scan knew goes with it, and so does its lock.
Gone(p) ==
    /\ lock' = NoScanner
    /\ scanPc' = [scanPc EXCEPT ![p] = "off"]
    /\ mem' = [mem EXCEPT ![p] = BlankCursor(NoDir)]
    /\ files' = [files EXCEPT ![p] = {}]
    /\ at' = [at EXCEPT ![p] = 1]
    /\ count' = [count EXCEPT ![p] = 0]
    /\ sent' = [sent EXCEPT ![p] = 0]
    /\ dry' = [dry EXCEPT ![p] = FALSE]

\* The end of a scan, dry or not.
Finish(p) ==
    /\ \/ scanPc[p] = "look" /\ at[p] > NumSleeves
       \/ scanPc[p] = "send" /\ ScanDone(p)
    /\ SaveCursor(mem[p])
    /\ Gone(p)
    /\ UNCHANGED <<dir, logVars, chat, skipped, adopted, printed>>

\* A scan is killed; the kernel releases the lock.
KillScanner(p) ==
    /\ scanPc[p] # "off"
    /\ Fault("kill")
    /\ slips' = slips + 1
    /\ Gone(p)
    /\ UNCHANGED <<dir, logVars, cursor, chat, histVars>>

-----------------------------------------------------------------------------
(* The operator.                                                           *)

\* bot.env names another state directory.
Switch(d) ==
    /\ d # dir
    /\ Fault("switch")
    /\ dir' = d
    /\ UNCHANGED <<logVars, cursor, lock, scanVars, chat, histVars, slips>>

\* --reset: adopt every log at its length, under the lock.
Reset ==
    LET lengths == [s \in Sleeves |-> IF Exists(dir, s) THEN Readable(dir, s) ELSE Unknown]
    IN  /\ lock = NoScanner
        /\ Fault("reset")
        /\ cursor' = [BlankCursor(dir) EXCEPT !.lines = lengths]
        /\ adopted' = adopted \union
              {f \in Fills : f[1] = dir /\ f[3] <= lengths[f[2]]}
        /\ owed' = {}
        /\ UNCHANGED <<dir, logVars, lock, scanVars, chat, skipped, printed, slips>>

\* The cursor file is lost with logs_pi/.
LoseCursor ==
    /\ cursor.dir # NoDir
    /\ Fault("loseCursor")
    /\ cursor' = BlankCursor(NoDir)
    /\ owed' = {}
    /\ UNCHANGED <<dir, logVars, lock, scanVars, chat, skipped, adopted, printed, slips>>

Step(p) ==
    \/ Begin(p) \/ Look(p) \/ NextSleeve(p) \/ PassCorrupt(p) \/ PrintFill(p)
    \/ Delivered(p) \/ SendRefused(p) \/ Save(p) \/ Finish(p)

AlertsNext ==
    \/ \E s \in Sleeves : StartLine(s)
    \/ \E d \in Dirs, s \in Sleeves : EndLine(d, s) \/ KillSleeve(d, s)
    \/ \E p \in Scanners : Step(p) \/ KillScanner(p)
    \/ \E d \in Dirs : Switch(d)
    \/ Reset \/ LoseCursor

AlertsSpec == AlertsInit /\ [][AlertsNext]_alertsVars

\* The query bot scans after every poll, and systemd restarts it.
AlertsFairSpec == AlertsSpec /\ WF_alertsVars(\E p \in Scanners : Step(p))

-----------------------------------------------------------------------------
Arrived == ToSet(chat)

\* "The cursor advances past a fill only once Telegram has accepted it"
\* (trade_alerts.py:30-31): what the cursor file has passed was announced, or
\* was there before the sleeve was known, or was given up on, or is no fill,
\* or was shown to the operator by a dry run.
CursorIsEarned ==
    \A s \in Sleeves : \A i \in 1 .. cursor.lines[s] :
        LET f == <<cursor.dir, s, i>>
        IN  \/ f \in Arrived \union skipped \union adopted \union printed
            \/ i \in DOMAIN log[cursor.dir][s] /\ ~log[cursor.dir][s][i]

\* ... a dry run, which "print[s] what would be sent" (:42), leaves every fill
\* to the scans that follow.
DryRunConsumesNothing ==
    \A s \in Sleeves : \A i \in 1 .. cursor.lines[s] :
        <<cursor.dir, s, i>> \in printed => <<cursor.dir, s, i>> \in Arrived

\* "Fills from one sleeve always arrive in the order they happened" (32-33):
\* a scan that was cut short goes back over no more fills than it slipped on.
InOrder ==
    \A i, j \in DOMAIN chat :
        LET lines == log[chat[i][1]][chat[i][2]]
            again == {k \in chat[j][3] .. chat[i][3] : lines[k]}
        IN  i < j /\ chat[i][1] = chat[j][1] /\ chat[i][2] = chat[j][2]
                => Cardinality(again) <= slips

\* A message is repeated only where it cannot be helped: once for each scan
\* that is killed, each answer that is lost and each save that fails, whoever
\* else scans.
RepeatsAreSlips == Len(chat) - Cardinality(Arrived) <= slips

\* Every fill gets its message, or its five failures, while its book is the
\* one watched: no corrupt line, torn line or refused message blocks a log.
EveryFillIsHandled ==
    \A f \in Fills :
        (f \in owed /\ dir = f[1])
            ~> (f \in Arrived \union skipped \union adopted \union printed \/ dir # f[1])
=============================================================================
