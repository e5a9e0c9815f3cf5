------------------------------ MODULE MCFetch ------------------------------
(***************************************************************************)
(* How bars reach the disk: HistoryWalk, which fetches them page by page,  *)
(* and CandleStore, which the bots and fetch --repair write. Each walk and *)
(* each write is checked on its own: a behaviour is of one of them.        *)
(*                                                                         *)
(* CandleStore: four bars let a batch of two or three meet a history of    *)
(* one or two.                                                             *)
(***************************************************************************)
EXTENDS CandleStore, HistoryWalk

VARIABLE part    \* the component that runs

FetchInit ==
    /\ part \in {"store", "walk"}
    /\ Init
    /\ WalkInit
    /\ part = "store" => listed = WalkBars /\ now = 1

FetchNext ==
    \/ part = "store" /\ Next /\ UNCHANGED <<part, walkVars>>
    \/ part = "walk" /\ WalkNext /\ UNCHANGED <<part, vars>>

FetchSpec ==
    /\ FetchInit
    /\ [][FetchNext]_<<part, vars, walkVars>>
    /\ \A w \in Writers : SF_vars(part = "store" /\ Step(w))
    /\ WF_walkVars(part = "walk" /\ Walk)

\* EveryBarIsStored and EveryBarArrives, where CandleStore and HistoryWalk run.
BarsReachTheDisk ==
    /\ part = "store" => EveryBarIsStored
    /\ part = "walk" => EveryBarArrives
=============================================================================
