------------------------------ MODULE MCSearch ------------------------------
(***************************************************************************)
(* The offline search: Evaluation runs a generation on the thread pool,    *)
(* Tournament selects from it, and Backtest is what an evaluation is made  *)
(* of. A behaviour is of one of the three.                                 *)
(*                                                                         *)
(* Evaluation: with three individuals and two workers one task is always   *)
(* queued while two run, and both workers can hold the same genome.        *)
(* Backtest: every configuration that is not another in disguise (resizes  *)
(* need the long/flat loop, targets and next-open fills).                  *)
(***************************************************************************)
EXTENDS Evaluation, Tournament, Backtest

VARIABLE part    \* the component that runs

MCConfigs ==
    {c \in Config : /\ c.retarget => ~c.allowShort /\ c.nextOpen /\ c.volTarget
                    /\ c.downOnly => c.retarget}

SearchInit ==
    /\ part \in {"evaluation", "tournament", "backtest"}
    /\ EvalInit
    /\ part # "evaluation" => genomes = [i \in Individuals |-> CHOOSE k \in Keys : TRUE]
    /\ Init
    /\ part # "backtest" => config = CHOOSE c \in Configs : TRUE
    /\ \/ part = "tournament" /\ TournamentInit
       \/ /\ part # "tournament"
          /\ population = <<>> /\ survivors = <<>> /\ finalists = <<>>
          /\ gen = 0 /\ best = {} /\ champions = {} /\ pc = "evaluate"

SearchNext ==
    \/ part = "evaluation" /\ EvalNext /\ UNCHANGED <<part, tournamentVars, vars>>
    \/ part = "tournament" /\ TournamentNext /\ UNCHANGED <<part, allVars, vars>>
    \/ part = "backtest" /\ Next /\ UNCHANGED <<part, allVars, tournamentVars>>

SearchSpec ==
    /\ SearchInit
    /\ [][SearchNext]_<<part, allVars, tournamentVars, vars>>
    /\ WF_allVars(part = "evaluation" /\ MainStep)
    /\ \A w \in Workers : WF_allVars(part = "evaluation" /\ WorkerStep(w))

\* RunEnds of Evaluation, where Evaluation runs.
RunsEnd == part = "evaluation" => RunEnds
=============================================================================
