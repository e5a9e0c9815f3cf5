-------------------------------- MODULE Notify --------------------------------
(***************************************************************************)
(* What the operator hears of the health of the book: check_pi.py runs     *)
(* from a timer, and by hand, and hands the problems it found to           *)
(* notify.report(), which compares them with the alert state alert, sends   *)
(* at most one message and saves what it sent, whether or not it arrived.  *)
(*                                                                         *)
(* A check is cut at the send and at the save.  Time is counted in hours,  *)
(* and an alert has its age instead of its time: what a check is about to  *)
(* save ages with what is saved.                                           *)
(***************************************************************************)
EXTENDS Naturals, FiniteSets

CONSTANTS
    Problems,     \* what may be wrong with the book
    Aging,        \* those whose text says for how long (a stale poll, a full disk)
    Checkers,     \* the timer's run, and the operator's
    Timer,        \* the one that comes again and again
    RepeatHours   \* REPEAT_HOURS

VARIABLES
    problems,  \* what is wrong with the book
    up,        \* messages get through
    alert,     \* the alert state file, with the hours since its last alert
    check,     \* where each check stands, what it will say, and save
    heard      \* the problems of the last message that arrived; {}: all is well

notifyVars == <<problems, up, alert, check, heard>>

Older == RepeatHours + 1    \* hours past which nobody asks how many
\* What a start without a readable file goes by; the epoch is long ago.
NoAlert == [healthy |-> TRUE, signature |-> {}, hours |-> Older]
Idle == [at |-> "idle", says |-> {}, saves |-> NoAlert]

NotifyInit ==
    /\ problems = {} /\ up = TRUE
    /\ alert = NoAlert
    /\ check = [c \in Checkers |-> Idle]
    /\ heard = {}

\* The world: the book breaks and recovers, the network comes and goes, a
\* power cut tears the file, which is not forced to disk; an hour passes.
BookChanges ==
    /\ \E now \in SUBSET Problems : now # problems /\ problems' = now
    /\ UNCHANGED <<up, alert, check, heard>>
NetworkChanges ==
    /\ up' = ~up
    /\ UNCHANGED <<problems, alert, check, heard>>
FileTorn ==
    /\ alert # NoAlert
    /\ alert' = NoAlert
    /\ UNCHANGED <<problems, up, check, heard>>
Aged(st) == [st EXCEPT !.hours = IF @ = Older THEN @ ELSE @ + 1]
HourPasses ==
    /\ alert' = Aged(alert)
    /\ check' = [c \in Checkers |-> [check[c] EXCEPT !.saves = Aged(@)]]
    /\ UNCHANGED <<problems, up, heard>>

Changed(st, found) == st.healthy \/ st.signature # found
Stale(st) == st.hours > RepeatHours
\* A recovery is announced once; a broken book when it breaks in another way,
\* and again when the last alert is old.
Speaks(st, found) ==
    IF found = {} THEN ~st.healthy ELSE Changed(st, found) \/ Stale(st)
\* Mistake: a check that has nothing to say starts the hours anew.
AlertedNow(st, found) ==
    IF found = {} THEN NoAlert ELSE [healthy |-> FALSE, signature |-> found, hours |-> 0]
\* What is saved, and is not asked whether the message arrived.
Alerted(st, found) ==
    IF found = {} THEN NoAlert
    ELSE [healthy |-> FALSE, signature |-> found,
          hours |-> IF Speaks(st, found) THEN 0 ELSE st.hours]

\* A problem is known to report() by its text.
Text(p, age) == <<p, IF p \in Aging THEN age ELSE 0>>
About(texts) == { t[1] : t \in texts }

\* The checks of the book, then the load of the state.
Check(c) ==
    /\ check[c].at = "idle"
    /\ \E age \in 0..1 :
           LET found == { Text(p, age) : p \in problems }
           IN  check' = [check EXCEPT ![c] =
                   [Idle EXCEPT !.at = IF Speaks(alert, found) THEN "send" ELSE "save",
                                !.says = IF Speaks(alert, found) THEN problems ELSE {},
                                !.saves = Alerted(alert, found)]]
    /\ UNCHANGED <<problems, up, alert, heard>>
SendAlert(c) ==
    /\ check[c].at = "send"
    /\ heard' = IF up THEN check[c].says ELSE heard
    /\ check' = [check EXCEPT ![c].at = "save", ![c].says = {}]
    /\ UNCHANGED <<problems, up, alert>>
\* A write that fails is passed over, and the file stays what it was.  (A
\* check that is killed is one whose message and whose write both failed.)
SaveAlert(c) ==
    /\ check[c].at = "save"
    /\ alert' \in {alert, check[c].saves}
    /\ check' = [check EXCEPT ![c] = Idle]
    /\ UNCHANGED <<problems, up, heard>>

NotifyNext ==
    \/ BookChanges \/ NetworkChanges \/ FileTorn \/ HourPasses
    \/ \E c \in Checkers : Check(c) \/ SendAlert(c) \/ SaveAlert(c)

\* Hours pass, a check that has begun goes on, and the timer begins another.
NotifyFairness ==
    /\ WF_notifyVars(HourPasses)
    /\ WF_notifyVars(Check(Timer))
    /\ \A c \in Checkers : WF_notifyVars(SendAlert(c) \/ SaveAlert(c))
NotifySpec == NotifyInit /\ [][NotifyNext]_notifyVars /\ NotifyFairness

-----------------------------------------------------------------------------
(* A book that stays broken in one way while messages get through is heard *)
(* of in the end, although report() never learns whether one arrived: the  *)
(* reminder makes up for the alert that an outage, a kill, a torn file or   *)
(* a check beside the timer's cost (notify.py:7-8).                        *)
BrokenIsHeardOf ==
    \A p \in SUBSET Problems \ {{}} :
        <>[](problems = p /\ up) => <>[](heard = p)

(* "One message when the book BREAKS [...] and a reminder only every        *)
(* REPEAT_HOURS while it stays broken" (notify.py:7): a check that finds   *)
(* broken what the last alert said is broken keeps quiet until then.       *)
RemindsSparingly ==
    [][\A c \in Checkers :
           /\ check[c].at = "idle" /\ check'[c].at = "send"
           /\ ~alert.healthy /\ problems = About(alert.signature)
           => Stale(alert)]_notifyVars

(* ... and "one when it RECOVERS" (notify.py:7) is heard of as well.       *)
RecoveryIsHeardOf == <>[](problems = {} /\ up) => <>[](heard = {})
=============================================================================
