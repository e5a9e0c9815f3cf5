------------------------------ MODULE MCFiles ------------------------------
(***************************************************************************)
(* The components that must survive a kill through what they wrote:        *)
(* StateFile, SymbolLock, TradeAlerts and Notify. They share no state, so  *)
(* a behaviour is of one of them and the others stay as they started.      *)
(*                                                                         *)
(* StateFile: four saved states, so that the file, its backup and the      *)
(* temporary file can hold three different ones.                           *)
(* SymbolLock: four runs of the bot are a dead owner, the two that race    *)
(* for its file and one that comes after.                                  *)
(* TradeAlerts: the two scanners are the query bot and the operator.       *)
(* Notify: the timer's check and the operator's; one problem whose text    *)
(* changes, which to report() is a book that breaks in another way.        *)
(***************************************************************************)
EXTENDS StateFile, SymbolLock, TradeAlerts, Notify

VARIABLE part    \* the component that runs

FilesInit ==
    /\ part \in {"state", "lock", "alerts", "notify"}
    /\ Init
    /\ LockInit
    /\ AlertsInit
    /\ NotifyInit

FilesNext ==
    \/ part = "state" /\ Next /\ UNCHANGED <<part, lockVars, alertsVars, notifyVars>>
    \/ part = "lock" /\ LockNext /\ UNCHANGED <<part, vars, alertsVars, notifyVars>>
    \/ part = "alerts" /\ AlertsNext /\ UNCHANGED <<part, vars, lockVars, notifyVars>>
    \/ part = "notify" /\ NotifyNext /\ UNCHANGED <<part, vars, lockVars, alertsVars>>

FilesSpec ==
    /\ FilesInit
    /\ [][FilesNext]_<<part, vars, lockVars, alertsVars, notifyVars>>
    /\ WF_alertsVars(part = "alerts" /\ \E p \in Scanners : Step(p))
    /\ WF_notifyVars(part = "notify" /\ HourPasses)
    /\ WF_notifyVars(part = "notify" /\ Check(Timer))
    /\ \A c \in Checkers : WF_notifyVars(part = "notify" /\ (SendAlert(c) \/ SaveAlert(c)))

\* EveryFillIsHandled of TradeAlerts, where TradeAlerts runs.
FillsAreHandled == part = "alerts" => EveryFillIsHandled

\* BrokenIsHeardOf of Notify, where Notify runs.
BreakIsHeardOf == part = "notify" => BrokenIsHeardOf
=============================================================================
