----------------------------- MODULE Evaluation -----------------------------
(***************************************************************************)
(* How a tournament evaluates its generations: run() and                   *)
(* evaluatePopulation() of src/src/evolution/tournament.h on the           *)
(* ThreadPool. The main thread submits one task per individual, waits for  *)
(* the futures in order, and replaces the population. Every task holds a   *)
(* reference to its individual and shares the cache of fitnesses.          *)
(*                                                                         *)
(* run() declares the pool before the population, so that the population   *)
(* is destroyed first: also when a future rethrows what its task threw.    *)
(***************************************************************************)
EXTENDS ThreadPool, FiniteSets

CONSTANTS
    Size,        \* individuals in a population
    Keys,        \* genomes; the fitness of a genome is written as the genome
    Failing,     \* the genomes whose evaluation throws
    EvalGenerations, \* bound: generations
    None,        \* no value yet
    Error        \* an exception

ASSUME SizeAssumption == Size \in Nat \ {0} /\ EvalGenerations \in Nat \ {0}
ASSUME KeysAssumption == Failing \subseteq Keys /\ None \notin Keys /\ Error \notin Keys
ASSUME ValuesAssumption == None # Error

VARIABLES
    genomes,     \* genomes[i]: the genome of individual i of the population
    alive,       \* the vector `population` exists
    fitness,     \* fitness[i]: what the main thread has written to it
    futures,     \* futures[i]: what the task of i has given
    cache,       \* cache_: the genomes it holds
    evaluations, \* totalEvaluations_
    key,         \* key[w]: the genome worker w is working on
    mpc,         \* where the main thread is
    next,        \* the individual it submits or waits for
    generation   \* generations evaluated

evalVars == <<genomes, alive, fitness, futures, cache, evaluations, key>>
mainVars == <<mpc, next, generation>>
allVars == <<tasks, stop, wpc, job, genomes, alive, fitness, futures,
             cache, evaluations, key, mpc, next, generation>>

-----------------------------------------------------------------------------
Individuals == 1 .. Size

WorkerPCs == PoolPCs \union {"evaluate", "insert"}

MainPCs == {"submit", "notify", "get", "breed", "stop", "notifyAll", "join", "end"}

EvalTypeOK ==
    /\ tasks \in Seq(Individuals)
    /\ stop \in BOOLEAN
    /\ wpc \in [Workers -> WorkerPCs]
    /\ job \in [Workers -> Individuals \union {0}]
    /\ genomes \in [Individuals -> Keys]
    /\ alive \in BOOLEAN
    /\ fitness \in [Individuals -> Keys \union {None}]
    /\ futures \in [Individuals -> Keys \union {None, Error}]
    /\ cache \subseteq Keys
    /\ evaluations \in Nat
    /\ key \in [Workers -> Keys \union {None}]
    /\ mpc \in MainPCs
    /\ next \in 1 .. Size + 1
    /\ generation \in 0 .. EvalGenerations

EvalInit ==
    /\ PoolInit
    /\ genomes \in [Individuals -> Keys]
    /\ alive = TRUE
    /\ fitness = [i \in Individuals |-> None]
    /\ futures = [i \in Individuals |-> None]
    /\ cache = {}
    /\ evaluations = 0
    /\ key = [w \in Workers |-> None]
    /\ mpc = "submit"
    /\ next = 1
    /\ generation = 0

-----------------------------------------------------------------------------
\* The main thread.

\* One pool.submit() per individual, then on to the futures.
Submit ==
    /\ mpc = "submit"
    /\ IF next <= Size
       THEN Push(next) /\ mpc' = "notify" /\ UNCHANGED next
       ELSE mpc' = "get" /\ next' = 1 /\ UNCHANGED poolVars
    /\ UNCHANGED <<evalVars, generation>>

SubmitNotifies ==
    /\ mpc = "notify"
    /\ NotifyOne
    /\ mpc' = "submit"
    /\ next' = next + 1
    /\ UNCHANGED <<evalVars, generation>>

\* Mistake: the last future is not waited for.
GetAllButLast ==
    /\ mpc = "get"
    /\ next < Size => futures[next] \in Keys
    /\ IF next = Size
       THEN mpc' = "breed" /\ generation' = generation + 1 /\ UNCHANGED <<next, fitness>>
       ELSE /\ fitness' = [fitness EXCEPT ![next] = futures[next]]
            /\ next' = next + 1
            /\ UNCHANGED <<mpc, generation>>
    /\ UNCHANGED <<poolVars, genomes, alive, futures, cache, evaluations, key>>

\* futures[i].get(), in order.
Get ==
    /\ mpc = "get"
    /\ next <= Size => futures[next] \in Keys
    /\ IF next > Size
       THEN mpc' = "breed" /\ generation' = generation + 1 /\ UNCHANGED <<next, fitness>>
       ELSE /\ fitness' = [fitness EXCEPT ![next] = futures[next]]
            /\ next' = next + 1
            /\ UNCHANGED <<mpc, generation>>
    /\ UNCHANGED <<poolVars, genomes, alive, futures, cache, evaluations, key>>

\* ... a future that rethrows unwinds run().
GetThrows ==
    /\ mpc = "get"
    /\ next <= Size
    /\ futures[next] = Error
    /\ alive' = FALSE
    /\ mpc' = "stop"
    /\ UNCHANGED <<poolVars, genomes, fitness, futures, cache, evaluations, key, next, generation>>

\* The next generation replaces the vector. New genomes and kept ones.
NextGeneration ==
    /\ mpc = "breed"
    /\ generation < EvalGenerations
    /\ genomes' \in [Individuals -> Keys]
    /\ futures' = [i \in Individuals |-> None]
    /\ fitness' = [i \in Individuals |-> None]
    /\ mpc' = "submit"
    /\ next' = 1
    /\ UNCHANGED <<poolVars, alive, cache, evaluations, key, generation>>

\* run() returns: the population goes, then the pool.
Return ==
    /\ mpc = "breed"
    /\ generation = EvalGenerations
    /\ alive' = FALSE
    /\ mpc' = "stop"
    /\ UNCHANGED <<poolVars, genomes, fitness, futures, cache, evaluations, key, next, generation>>

Stop ==
    /\ mpc = "stop"
    /\ RaiseStop
    /\ mpc' = "notifyAll"
    /\ UNCHANGED <<evalVars, next, generation>>

StopNotifies ==
    /\ mpc = "notifyAll"
    /\ NotifyAll
    /\ mpc' = "join"
    /\ UNCHANGED <<evalVars, next, generation>>

Join ==
    /\ mpc = "join"
    /\ Joined
    /\ mpc' = "end"
    /\ UNCHANGED <<poolVars, evalVars, next, generation>>

-----------------------------------------------------------------------------
\* The task that a worker runs.

\* Reading an individual that no longer exists gives anything.
KeyOf(i) == IF alive THEN {genomes[i]} ELSE Keys

\* A task's outcome, in the future of its individual; the worker loops.
Deliver(w, value) ==
    /\ futures' = [futures EXCEPT ![job[w]] = value]
    /\ WorkerGoes(w, "loop")

\* ind.key(), and the first critical section of cacheMutex_.
Lookup(w) ==
    /\ wpc[w] = "job"
    /\ \E k \in KeyOf(job[w]) :
          /\ key' = [key EXCEPT ![w] = k]
          /\ IF k \in cache THEN Deliver(w, k)
                            ELSE WorkerGoes(w, "evaluate") /\ UNCHANGED futures
    /\ UNCHANGED <<tasks, stop, job, genomes, alive, fitness, cache, evaluations, mainVars>>

\* evaluate(ind, false), without a lock.
RunFitness(w) ==
    /\ wpc[w] = "evaluate"
    /\ \E k \in KeyOf(job[w]) :
          IF k \in Failing THEN Deliver(w, Error)
                           ELSE WorkerGoes(w, "insert") /\ UNCHANGED futures
    /\ UNCHANGED <<tasks, stop, job, genomes, alive, fitness, cache, evaluations, key, mainVars>>

\* The second critical section.
Insert(w) ==
    /\ wpc[w] = "insert"
    /\ cache' = cache \union {key[w]}
    /\ evaluations' = evaluations + 1
    /\ Deliver(w, key[w])
    /\ UNCHANGED <<tasks, stop, job, genomes, alive, fitness, key, mainVars>>

MainStep ==
    \/ Submit \/ SubmitNotifies \/ Get \/ GetThrows \/ NextGeneration \/ Return
    \/ Stop \/ StopNotifies \/ Join

WorkerStep(w) ==
    \/ Take(w) /\ UNCHANGED <<evalVars, mainVars>>
    \/ Lookup(w) \/ RunFitness(w) \/ Insert(w)

Spurious == \E w \in Workers : WakeUp(w) /\ UNCHANGED <<evalVars, mainVars>>

Ended == mpc = "end" /\ UNCHANGED allVars

EvalNext == MainStep \/ (\E w \in Workers : WorkerStep(w)) \/ Spurious \/ Ended

EvalSpec == EvalInit /\ [][EvalNext]_allVars

\* Threads are scheduled; nobody is owed a spurious wake-up.
EvalFairSpec == EvalSpec /\ WF_allVars(MainStep) /\ \A w \in Workers : WF_allVars(WorkerStep(w))

-----------------------------------------------------------------------------
\* A generation is ranked by the fitness of its own genomes, all of them:
\* whatever order the workers finish in, and whatever the cache already held.
RankedByOwnFitness == mpc = "breed" => fitness = genomes

\* No task refers to an individual that is gone.
NoTaskDangles ==
    ~alive => tasks = <<>> /\ \A w \in Workers : wpc[w] \notin {"job", "evaluate"}

\* "main thread blocks on futures in order" (docs/ARCHITECTURE.md:80) before it
\* lets go of what the tasks refer to. It does, unless a task throws: then the
\* tasks behind it are left with a population that is gone.
PopulationOutlivesTasks == (\A i \in Individuals : futures[i] # Error) => NoTaskDangles

\* No wake-up is lost and no worker is left behind: every run ends, with all
\* its threads joined.
RunEnds == <>(mpc = "end")
=============================================================================
