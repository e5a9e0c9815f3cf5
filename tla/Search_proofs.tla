---------------------------- MODULE Search_proofs ----------------------------
(***************************************************************************)
(* What is proved of the search, and of the backtests it searches by.      *)
(*                                                                         *)
(* Of Evaluation, for any number of workers, individuals and generations   *)
(* and any set of genomes whose evaluation throws. The argument is an      *)
(* account of the tasks: an individual whose future has no value yet is in *)
(* the queue or with a worker at most once, and one whose future has a     *)
(* value is in neither. The main thread goes on, or goes away, only over   *)
(* futures that have theirs.                                               *)
(*                                                                         *)
(* Of Tournament, for any families, scores and sizes: what is remembered   *)
(* is everything that was evaluated, so that the table begins with the     *)
(* best of it; and while tuning, the families that breed are all of them.  *)
(*                                                                         *)
(* Of Backtest, for every series, strategy, fee, size and configuration:   *)
(* that the long/flat loop never borrows, that the trades explain the      *)
(* cash, that a long/short run is always in, and that holding is the       *)
(* benchmark. Money only moves in Position, Exit, Trim and TopUp, so each  *)
(* of them gets a lemma: it keeps an account Sound, and a long/flat one    *)
(* Solvent.                                                                *)
(***************************************************************************)
EXTENDS Evaluation, Tournament, Backtest, FiniteSetTheorems, WellFoundedInduction, TLAPS

\* Worker w has a task in hand.
Works(w) == wpc[w] \in {"job", "evaluate", "insert"}

\* What the main thread has submitted in this generation.
Submitted(i) ==
    /\ mpc = "submit" => i < next
    /\ mpc = "notify" => i <= next

\* Neither handed out nor given back.
Open(i) == i \in Individuals /\ Submitted(i) /\ futures[i] = None

QueueFits ==
    /\ \A n \in 1 .. Len(tasks) : Open(tasks[n]) /\ \A w \in Workers : Works(w) => job[w] # tasks[n]
    /\ \A m, n \in 1 .. Len(tasks) : tasks[m] = tasks[n] => m = n

HandsFit ==
    /\ \A w \in Workers : Works(w) => Open(job[w])
    /\ \A w, v \in Workers : Works(w) /\ Works(v) /\ job[w] = job[v] => w = v

\* What a task has looked up, or given, is its individual's genome.
ValuesFit ==
    /\ \A w \in Workers : wpc[w] \in {"evaluate", "insert"} => key[w] \in Keys
    /\ alive => \A w \in Workers : wpc[w] \in {"evaluate", "insert"} => key[w] = genomes[job[w]]
    /\ alive => \A i \in Individuals : futures[i] \in {None, Error, genomes[i]}

\* How far the main thread is.
MainFits ==
    /\ alive <=> mpc \in {"submit", "notify", "get", "breed"}
    /\ mpc = "notify" => next <= Size
    /\ mpc \in {"submit", "notify", "get"} => generation < EvalGenerations
    /\ mpc \in {"submit", "notify"} => \A i \in Individuals : futures[i] # None => Submitted(i)
    /\ mpc = "get" => \A i \in Individuals : i < next => fitness[i] = futures[i] /\ futures[i] \in Keys
    /\ mpc = "breed" => \A i \in Individuals : fitness[i] = futures[i] /\ futures[i] \in Keys
    /\ ~alive => \/ \E i \in Individuals : futures[i] = Error
                 \/ \A i \in Individuals : futures[i] # None

EvalInv == EvalTypeOK /\ QueueFits /\ HandsFit /\ ValuesFit /\ MainFits

-----------------------------------------------------------------------------
LEMMA EvalInvInit == EvalInit => EvalInv
<1> SUFFICES ASSUME EvalInit PROVE EvalInv
  OBVIOUS
<1>1. EvalTypeOK
  <2>1. PoolInit /\ Size \in Nat \ {0} /\ EvalGenerations \in Nat \ {0}
    BY SizeAssumption DEF EvalInit
  <2>2. tasks \in Seq(Individuals) /\ stop \in BOOLEAN
    <3>1. <<>> \in Seq(Individuals)
      OBVIOUS
    <3>2. tasks = <<>> /\ stop = FALSE
      BY <2>1 DEF PoolInit
    <3> QED BY <3>1, <3>2
  <2>3. wpc \in [Workers -> WorkerPCs] /\ job \in [Workers -> Individuals \union {0}]
    BY <2>1 DEF PoolInit, WorkerPCs, PoolPCs
  <2>4. /\ genomes \in [Individuals -> Keys] /\ alive \in BOOLEAN /\ cache \subseteq Keys
        /\ fitness \in [Individuals -> Keys \union {None}]
        /\ futures \in [Individuals -> Keys \union {None, Error}]
        /\ key \in [Workers -> Keys \union {None}]
    BY DEF EvalInit
  <2>5. evaluations \in Nat /\ next \in 1 .. Size + 1 /\ generation \in 0 .. EvalGenerations
    BY <2>1 DEF EvalInit
  <2>6. mpc \in MainPCs
    BY DEF EvalInit, MainPCs
  <2> QED BY <2>2, <2>3, <2>4, <2>5, <2>6 DEF EvalTypeOK
<1>2. tasks = <<>> /\ \A w \in Workers : wpc[w] = "loop"
  BY DEF EvalInit, PoolInit
<1>3. QueueFits /\ HandsFit
  BY <1>2 DEF QueueFits, HandsFit, Works
<1>4. ValuesFit /\ MainFits
  BY <1>2, SizeAssumption DEF ValuesFit, MainFits, EvalInit
<1> QED BY <1>1, <1>3, <1>4 DEF EvalInv

\* Where nothing is taken and nothing delivered, no account changes.
LEMMA NothingTaken ==
    ASSUME EvalInv, UNCHANGED <<tasks, job, futures, genomes, key>>, alive' => alive,
           \A w \in Workers : wpc'[w] = wpc[w] \/ (~Works(w) /\ ~Works(w)'),
           \A i \in Individuals : Open(i) => Submitted(i)'
    PROVE  QueueFits' /\ HandsFit' /\ ValuesFit'
<1>1. \A w \in Workers : Works(w)' = Works(w)
  BY DEF Works
<1>2. \A i : Open(i) => Open(i)'
  BY DEF Open
<1>3. QueueFits'
  <2>1. \A n \in 1 .. Len(tasks) : Open(tasks[n])'
    <3> SUFFICES ASSUME NEW n \in 1 .. Len(tasks) PROVE Open(tasks[n])'
      OBVIOUS
    <3>1. PICK i : i = tasks[n] /\ Open(i)
      BY DEF EvalInv, QueueFits
    <3>2. Open(i)' /\ tasks'[n] = i
      BY <1>2, <3>1
    <3> QED BY <3>2 DEF Open, Submitted
  <2> QED BY <1>1, <2>1 DEF EvalInv, QueueFits
<1>4. HandsFit'
  <2>1. ASSUME NEW w \in Workers, Works(w) PROVE Open(job[w])'
    <3>1. PICK i : i = job[w] /\ Open(i)
      BY <2>1 DEF EvalInv, HandsFit
    <3>2. Open(i)' /\ job'[w] = i
      BY <1>2, <3>1
    <3> QED BY <3>2 DEF Open, Submitted
  <2> QED BY <1>1, <2>1 DEF EvalInv, HandsFit
<1>5. ValuesFit'
  <2>1. \A w \in Workers : wpc'[w] \in {"evaluate", "insert"} => wpc'[w] = wpc[w]
    BY DEF Works
  <2> QED BY <2>1 DEF EvalInv, ValuesFit
<1> QED BY <1>3, <1>4, <1>5

\* A worker delivers: its individual leaves the account.
LEMMA Delivers ==
    ASSUME EvalInv, NEW w \in Workers, Works(w), NEW v \in Keys \union {Error}, Deliver(w, v),
           alive => v \in {Error, genomes[job[w]]},
           UNCHANGED <<tasks, job, genomes, alive, fitness, mainVars>>,
           \A u \in Workers : u # w => key'[u] = key[u]
    PROVE  QueueFits' /\ HandsFit' /\ ValuesFit' /\ MainFits'
<1>1. /\ futures \in [Individuals -> Keys \union {None, Error}] /\ wpc \in [Workers -> WorkerPCs]
      /\ wpc' = [wpc EXCEPT ![w] = "loop"]
  BY DEF EvalInv, EvalTypeOK, Deliver, WorkerGoes
<1>2. PICK i : i = job[w] /\ Open(i) /\ i \in Individuals /\ futures[i] = None
  BY DEF EvalInv, HandsFit, Open
<1>3. /\ futures'[i] = v /\ \A j \in Individuals : j # i => futures'[j] = futures[j]
  BY <1>1, <1>2 DEF Deliver
<1>4. /\ ~Works(w)' /\ \A u \in Workers : u # w => wpc'[u] = wpc[u] /\ Works(u)' = Works(u)
  BY <1>1 DEF Works
<1>5. \A j : Open(j) /\ j # i => Open(j)'
  BY <1>3 DEF Open, Submitted, mainVars
<1>6. QueueFits'
  <2>1. \A n \in 1 .. Len(tasks) : Open(tasks[n])'
    <3> SUFFICES ASSUME NEW n \in 1 .. Len(tasks) PROVE Open(tasks[n])'
      OBVIOUS
    <3>1. PICK j : j = tasks[n] /\ Open(j) /\ j # i
      BY <1>2 DEF EvalInv, QueueFits
    <3>2. Open(j)' /\ tasks'[n] = j
      BY <1>5, <3>1
    <3> QED BY <3>2 DEF Open, Submitted
  <2> QED BY <1>4, <2>1 DEF EvalInv, QueueFits
<1>7. HandsFit'
  <2>1. ASSUME NEW u \in Workers, Works(u)' PROVE Open(job[u])' /\ Works(u) /\ u # w
    <3>1. u # w /\ Works(u)
      BY <1>4, <2>1
    <3>2. PICK j : j = job[u] /\ Open(j) /\ j # i
      BY <1>2, <3>1 DEF EvalInv, HandsFit
    <3>3. Open(j)' /\ job'[u] = j
      BY <1>5, <3>2
    <3> QED BY <3>1, <3>3 DEF Open, Submitted
  <2> QED BY <2>1 DEF EvalInv, HandsFit
<1>8. ValuesFit'
  <2>1. \A u \in Workers : wpc'[u] \in {"evaluate", "insert"} => u # w /\ wpc'[u] = wpc[u]
    BY <1>1, <1>4
  <2>2. \A u \in Workers : wpc'[u] \in {"evaluate", "insert"} =>
           key'[u] = key[u] /\ key[u] \in Keys /\ (alive => key[u] = genomes[job[u]])
    BY <2>1 DEF EvalInv, ValuesFit
  <2>3. alive => \A j \in Individuals : futures'[j] \in {None, Error, genomes[j]}
    BY <1>2, <1>3 DEF EvalInv, ValuesFit
  <2> QED BY <2>2, <2>3 DEF ValuesFit
<1>9. MainFits'
  <2>1. \A j \in Individuals : futures[j] # None => futures'[j] = futures[j]
    BY <1>2, <1>3
  <2>2. \A j \in Individuals : futures'[j] # None \/ futures[j] = None
    BY <2>1
  <2>3. \A j \in Individuals : futures[j] = Error => futures'[j] = Error
    BY <2>1, ValuesAssumption
  <2>4. \A j \in Individuals : futures[j] \in Keys => futures'[j] = futures[j]
    BY <2>1, KeysAssumption
  <2>5. mpc \in {"submit", "notify"} => \A j \in Individuals : futures'[j] # None => Submitted(j)
    BY <1>2, <1>3 DEF EvalInv, MainFits, Open
  <2> QED BY <2>2, <2>3, <2>4, <2>5 DEF EvalInv, MainFits, Submitted, mainVars
<1> QED BY <1>6, <1>7, <1>8, <1>9

\* Whatever the order of the threads, the account is kept.
LEMMA EvalInvStep ==
    ASSUME EvalInv, [EvalNext]_allVars
    PROVE  EvalInv'
<1>0. /\ EvalTypeOK /\ QueueFits /\ HandsFit /\ ValuesFit /\ MainFits
      /\ Size \in Nat \ {0} /\ EvalGenerations \in Nat \ {0}
      /\ None \notin Keys /\ Error \notin Keys /\ None # Error
  BY SizeAssumption, KeysAssumption, ValuesAssumption DEF EvalInv
<1> DEFINE Accounts == QueueFits' /\ HandsFit' /\ ValuesFit'
\* The pool is left alone, or a worker goes to wait, or comes from there.
<1>1. ASSUME UNCHANGED <<tasks, job, futures, genomes, key>>, alive' => alive,
             \A w \in Workers : wpc'[w] = wpc[w] \/ (~Works(w) /\ ~Works(w)'),
             \A i \in Individuals : Open(i) => Submitted(i)'
      PROVE  Accounts
  BY <1>1, NothingTaken
<1>2. CASE Submit
  <2>1. CASE next <= Size
    <3>1. /\ mpc = "submit" /\ mpc' = "notify" /\ tasks' = Append(tasks, next)
          /\ UNCHANGED <<stop, wpc, job, evalVars, generation, next>>
      BY <1>2, <2>1 DEF Submit, Push
    <3>2. next \in Individuals /\ tasks \in Seq(Individuals) /\ Len(tasks) \in Nat /\ next \in Int
      BY <1>0, <2>1 DEF EvalTypeOK, Individuals
    <3>3. EvalTypeOK'
      BY <1>0, <3>1, <3>2 DEF EvalTypeOK, evalVars, MainPCs
    <3>4. /\ \A i : Open(i) => Open(i)' /\ i # next
          /\ Open(next)'
      BY <1>0, <3>1, <3>2 DEF Open, Submitted, MainFits, evalVars, Individuals
    <3>5. MainFits'
      BY <1>0, <2>1, <3>1, <3>2 DEF MainFits, Submitted, evalVars, Individuals
    <3>6. QueueFits'
      <4>1. Len(tasks') = Len(tasks) + 1 /\ tasks'[Len(tasks) + 1] = next
            /\ \A n \in 1 .. Len(tasks) : tasks'[n] = tasks[n]
        BY <3>1, <3>2
      <4>2. PICK m \in Nat : m = Len(tasks) /\ Len(tasks') = m + 1
        BY <3>2, <4>1
      <4>3. \A n \in 1 .. m + 1 : n \in 1 .. m \/ n = m + 1
        BY <4>2
      <4>4. \A n \in 1 .. m + 1 :
               Open(tasks[n])' /\ \A w \in Workers : Works(w)' => job'[w] # tasks'[n]
        <5>1. \A n \in 1 .. m : Open(tasks[n])
              /\ \A w \in Workers : Works(w) => job[w] # tasks[n] /\ Open(job[w])
          BY <1>0, <4>2 DEF QueueFits, HandsFit
        <5>2. ASSUME NEW n \in 1 .. m
              PROVE  Open(tasks[n])' /\ \A w \in Workers : Works(w)' => job'[w] # tasks'[n]
          <6>1. PICK i : i = tasks[n] /\ Open(i)
            BY <5>1
          <6>2. Open(i)' /\ tasks'[n] = i
            BY <3>4, <4>1, <4>2, <6>1
          <6> QED BY <3>1, <5>1, <6>1, <6>2 DEF Open, Submitted, Works
        <5>3. Open(tasks[m + 1])' /\ \A w \in Workers : Works(w)' => job'[w] # tasks'[m + 1]
          BY <1>0, <3>1, <3>4, <4>1, <4>2 DEF Open, Submitted, Works, HandsFit
        <5> QED BY <4>3, <5>2, <5>3
      <4>5. \A n \in 1 .. m : tasks[n] # next
        BY <1>0, <3>4, <4>2 DEF QueueFits
      <4>6. \A n, k \in 1 .. m + 1 : tasks'[n] = tasks'[k] => n = k
        BY <1>0, <4>1, <4>2, <4>3, <4>5 DEF QueueFits
      <4> QED BY <4>2, <4>4, <4>6 DEF QueueFits, Open, Submitted
    <3>7. HandsFit'
      <4>1. ASSUME NEW w \in Workers, Works(w) PROVE Open(job[w])'
        <5>1. PICK i : i = job[w] /\ Open(i)
          BY <1>0, <4>1 DEF HandsFit
        <5>2. Open(i)' /\ job'[w] = i
          BY <3>1, <3>4, <5>1
        <5> QED BY <5>2 DEF Open, Submitted
      <4> QED BY <1>0, <3>1, <4>1 DEF HandsFit, Works
    <3>8. ValuesFit'
      BY <1>0, <3>1 DEF ValuesFit, evalVars
    <3> QED BY <3>3, <3>5, <3>6, <3>7, <3>8 DEF EvalInv
  <2>2. CASE next > Size
    <3>1. /\ mpc = "submit" /\ mpc' = "get" /\ next' = 1
          /\ UNCHANGED <<poolVars, evalVars, generation>>
      BY <1>0, <1>2, <2>2 DEF Submit, EvalTypeOK
    <3>2. EvalTypeOK'
      BY <1>0, <3>1 DEF EvalTypeOK, poolVars, evalVars, MainPCs
    <3>3. MainFits'
      BY <1>0, <3>1 DEF MainFits, evalVars, Individuals
    <3>4. Accounts
      BY <1>1, <3>1 DEF poolVars, evalVars, Submitted
    <3> QED BY <3>2, <3>3, <3>4 DEF EvalInv
  <2> QED BY <1>0, <2>1, <2>2 DEF EvalTypeOK
\* A worker is woken, or wakes.
<1>3. ASSUME wpc' = wpc \/ \E w \in Workers : wpc[w] = "wait" /\ WorkerGoes(w, "loop")
      PROVE  /\ wpc' \in [Workers -> WorkerPCs]
             /\ \A w \in Workers : wpc'[w] = wpc[w] \/ (~Works(w) /\ ~Works(w)')
  BY <1>0, <1>3 DEF EvalTypeOK, WorkerGoes, WorkerPCs, PoolPCs, Works
<1>4. CASE SubmitNotifies
  <2>1. /\ mpc = "notify" /\ mpc' = "submit" /\ next' = next + 1 /\ next <= Size
        /\ UNCHANGED <<tasks, stop, job, evalVars, generation>>
        /\ wpc' = wpc \/ \E w \in Workers : wpc[w] = "wait" /\ WorkerGoes(w, "loop")
    BY <1>0, <1>4 DEF SubmitNotifies, NotifyOne, MainFits
  <2>2. EvalTypeOK'
    BY <1>0, <1>3, <2>1 DEF EvalTypeOK, evalVars, MainPCs
  <2>3. \A i \in Individuals : Submitted(i) = Submitted(i)'
    BY <1>0, <2>1 DEF Submitted, EvalTypeOK, Individuals
  <2>4. MainFits'
    BY <1>0, <2>1, <2>3 DEF MainFits, evalVars
  <2>5. Accounts
    BY <1>1, <1>3, <2>1, <2>3 DEF evalVars, Open
  <2> QED BY <2>2, <2>4, <2>5 DEF EvalInv
<1>5. CASE Get
  <2>1. /\ mpc = "get" /\ UNCHANGED <<poolVars, genomes, alive, futures, cache, evaluations, key>>
    BY <1>5 DEF Get
  <2>2. Accounts
    BY <1>1, <1>5, <2>1 DEF poolVars, Get, Submitted
  <2>3. CASE next > Size
    <3>1. mpc' = "breed" /\ generation' = generation + 1 /\ UNCHANGED <<next, fitness>>
      BY <1>0, <1>5, <2>3 DEF Get, EvalTypeOK
    <3>2. EvalTypeOK'
      BY <1>0, <2>1, <3>1 DEF EvalTypeOK, MainFits, poolVars, MainPCs
    <3>3. MainFits'
      BY <1>0, <2>1, <2>3, <3>1 DEF MainFits, EvalTypeOK, Individuals
    <3> QED BY <2>2, <3>2, <3>3 DEF EvalInv
  <2>4. CASE next <= Size
    <3>1. /\ futures[next] \in Keys /\ fitness' = [fitness EXCEPT ![next] = futures[next]]
          /\ next' = next + 1 /\ UNCHANGED <<mpc, generation>>
      BY <1>0, <1>5, <2>4 DEF Get, EvalTypeOK
    <3>2. next \in Individuals /\ next + 1 \in 1 .. Size + 1
      BY <1>0, <2>4 DEF EvalTypeOK, Individuals
    <3>3. EvalTypeOK'
      BY <1>0, <2>1, <3>1, <3>2 DEF EvalTypeOK, poolVars
    <3>4. \A i \in Individuals : i < next + 1 => fitness'[i] = futures[i] /\ futures[i] \in Keys
      BY <1>0, <2>1, <3>1, <3>2 DEF MainFits, EvalTypeOK, Individuals
    <3>5. MainFits'
      BY <1>0, <2>1, <3>1, <3>4 DEF MainFits
    <3> QED BY <2>2, <3>3, <3>5 DEF EvalInv
  <2> QED BY <1>0, <2>3, <2>4 DEF EvalTypeOK
<1>6. CASE GetThrows
  <2>1. /\ mpc = "get" /\ mpc' = "stop" /\ ~alive' /\ futures[next] = Error /\ next <= Size
        /\ UNCHANGED <<poolVars, genomes, fitness, futures, cache, evaluations, key, next, generation>>
    BY <1>6 DEF GetThrows
  <2>2. EvalTypeOK'
    BY <1>0, <2>1, <1>6 DEF EvalTypeOK, poolVars, MainPCs, GetThrows
  <2>3. next \in Individuals
    BY <1>0, <2>1 DEF EvalTypeOK, Individuals
  <2>4. MainFits'
    BY <1>0, <2>1, <2>3 DEF MainFits
  <2>5. Accounts
    BY <1>1, <2>1 DEF poolVars, Submitted
  <2> QED BY <2>2, <2>4, <2>5 DEF EvalInv
\* The population is replaced when no task is left that refers to it.
<1>7. CASE NextGeneration
  <2>1. /\ mpc = "breed" /\ mpc' = "submit" /\ next' = 1 /\ generation < EvalGenerations
        /\ genomes' \in [Individuals -> Keys]
        /\ futures' = [i \in Individuals |-> None] /\ fitness' = [i \in Individuals |-> None]
        /\ UNCHANGED <<poolVars, alive, cache, evaluations, key, generation>>
    BY <1>7 DEF NextGeneration
  <2>2. EvalTypeOK'
    BY <1>0, <2>1 DEF EvalTypeOK, poolVars, MainPCs
  <2>3. \A i \in Individuals : ~Open(i)
    BY <1>0, <2>1 DEF Open, MainFits
  <2>4. Len(tasks) = 0 /\ \A w \in Workers : ~Works(w)
    <3>1. Len(tasks) \in Nat /\ 1 \notin 1 .. Len(tasks)
      BY <1>0, <2>3 DEF QueueFits, EvalTypeOK, Open
    <3> QED BY <1>0, <2>3, <3>1 DEF HandsFit, Open
  <2>5. QueueFits' /\ HandsFit'
    BY <2>1, <2>4 DEF QueueFits, HandsFit, Works, poolVars
  <2>6. ValuesFit'
    BY <2>1, <2>4 DEF ValuesFit, Works, poolVars
  <2>7. MainFits'
    BY <1>0, <2>1 DEF MainFits
  <2> QED BY <2>2, <2>5, <2>6, <2>7 DEF EvalInv
<1>8. CASE Return
  <2>1. /\ mpc = "breed" /\ mpc' = "stop" /\ ~alive' /\ alive' \in BOOLEAN
        /\ UNCHANGED <<poolVars, genomes, fitness, futures, cache, evaluations, key, next, generation>>
    BY <1>8 DEF Return
  <2>2. EvalTypeOK'
    BY <1>0, <2>1 DEF EvalTypeOK, poolVars, MainPCs
  <2>3. MainFits'
    BY <1>0, <2>1 DEF MainFits
  <2>4. Accounts
    BY <1>1, <2>1 DEF poolVars, Submitted
  <2> QED BY <2>2, <2>3, <2>4 DEF EvalInv
<1>9. CASE Stop \/ Join
  <2>1. /\ mpc \in {"stop", "join"} /\ mpc' \in {"notifyAll", "end"} /\ stop' \in BOOLEAN
        /\ UNCHANGED <<tasks, wpc, job, evalVars, next, generation>>
    BY <1>0, <1>9 DEF Stop, Join, RaiseStop, poolVars, EvalTypeOK
  <2>2. EvalTypeOK'
    BY <1>0, <2>1 DEF EvalTypeOK, evalVars, MainPCs
  <2>3. MainFits'
    BY <1>0, <2>1 DEF MainFits, evalVars
  <2>4. Accounts
    BY <1>1, <2>1 DEF evalVars, Submitted
  <2> QED BY <2>2, <2>3, <2>4 DEF EvalInv
<1>10. CASE StopNotifies
  <2>1. /\ mpc = "notifyAll" /\ mpc' = "join" /\ UNCHANGED <<tasks, stop, job, evalVars, next, generation>>
        /\ wpc' = [w \in Workers |-> IF wpc[w] = "wait" THEN "loop" ELSE wpc[w]]
    BY <1>10 DEF StopNotifies, NotifyAll
  <2>2. EvalTypeOK'
    BY <1>0, <2>1 DEF EvalTypeOK, evalVars, MainPCs, WorkerPCs, PoolPCs
  <2>3. MainFits'
    BY <1>0, <2>1 DEF MainFits, evalVars
  <2>4. Accounts
    BY <1>1, <2>1 DEF evalVars, Submitted, Works
  <2> QED BY <2>2, <2>3, <2>4 DEF EvalInv
<1>11. ASSUME NEW w \in Workers, Take(w), UNCHANGED <<evalVars, mainVars>> PROVE EvalInv'
  <2>1. MainFits'
    BY <1>0, <1>11 DEF MainFits, Submitted, evalVars, mainVars
  <2>2. CASE tasks = <<>>
    <3>1. wpc[w] = "loop" /\ wpc' = [wpc EXCEPT ![w] = IF stop THEN "gone" ELSE "wait"]
          /\ UNCHANGED <<tasks, job, stop>>
      BY <1>11, <2>2 DEF Take, WorkerGoes
    <3>2. EvalTypeOK'
      BY <1>0, <1>11, <3>1 DEF EvalTypeOK, evalVars, mainVars, WorkerPCs, PoolPCs
    <3>3. Accounts
      BY <1>0, <1>1, <1>11, <3>1 DEF evalVars, mainVars, Submitted, Works, EvalTypeOK, Open
    <3> QED BY <2>1, <3>2, <3>3 DEF EvalInv
  <2>3. CASE tasks # <<>>
    <3>1. /\ wpc[w] = "loop" /\ wpc' = [wpc EXCEPT ![w] = "job"] /\ tasks' = Tail(tasks)
          /\ job' = [job EXCEPT ![w] = Head(tasks)] /\ stop' = stop
      BY <1>11, <2>3 DEF Take, WorkerGoes
    <3>2. PICK m \in Nat : m + 1 = Len(tasks)
      BY <1>0, <2>3 DEF EvalTypeOK
    <3>3. /\ Len(tasks') = m /\ \A n \in 1 .. m : tasks'[n] = tasks[n + 1]
          /\ Head(tasks) = tasks[1] /\ Tail(tasks) \in Seq(Individuals) /\ tasks[1] \in Individuals
      BY <1>0, <2>3, <3>1, <3>2 DEF EvalTypeOK
    <3>4. EvalTypeOK'
      BY <1>0, <1>11, <3>1, <3>3 DEF EvalTypeOK, evalVars, mainVars, WorkerPCs, PoolPCs
    <3>5. \A i : Open(i)' = Open(i)
      BY <1>11 DEF Open, Submitted, evalVars, mainVars
    <3>6. /\ Works(w)' /\ ~Works(w) /\ job'[w] = tasks[1]
          /\ \A v \in Workers : v # w => Works(v)' = Works(v) /\ job'[v] = job[v]
      BY <1>0, <3>1, <3>3 DEF Works, EvalTypeOK
    <3>7. /\ \A n \in 1 .. m + 1 : Open(tasks[n]) /\ \A v \in Workers : Works(v) => job[v] # tasks[n]
          /\ \A k, n \in 1 .. m + 1 : tasks[k] = tasks[n] => k = n
      BY <1>0, <3>2 DEF QueueFits
    <3>8. QueueFits'
      <4>1. ASSUME NEW n \in 1 .. m
            PROVE  /\ Open(tasks[n + 1]) /\ \A v \in Workers : Works(v)' => job'[v] # tasks[n + 1]
        <5>1. n + 1 \in 1 .. m + 1 /\ 1 \in 1 .. m + 1 /\ n + 1 # 1
          OBVIOUS
        <5> QED BY <3>6, <3>7, <5>1
      <4>2. \A n \in 1 .. m : Open(tasks[n])'
        <5> SUFFICES ASSUME NEW n \in 1 .. m PROVE Open(tasks[n])'
          OBVIOUS
        <5>1. PICK i : i = tasks[n + 1] /\ Open(i)
          BY <4>1
        <5>2. Open(i)' /\ tasks'[n] = i
          BY <3>3, <3>5, <5>1
        <5> QED BY <5>2 DEF Open, Submitted
      <4>3. \A k, n \in 1 .. m : tasks'[k] = tasks'[n] => k = n
        BY <3>3, <3>7
      <4>4. \A n \in 1 .. m, v \in Workers : Works(v)' => job'[v] # tasks'[n]
        BY <3>3, <4>1
      <4>5. Len(tasks') = m
        BY <3>3
      <4> QED BY <4>2, <4>3, <4>4, <4>5 DEF QueueFits, Open, Submitted
    <3>9. HandsFit'
      <4>1. 1 \in 1 .. m + 1
        OBVIOUS
      <4>2. ASSUME NEW v \in Workers, Works(v)' PROVE Open(job[v])'
        <5>1. PICK i : i = job'[v] /\ Open(i)
          BY <1>0, <3>6, <3>7, <4>1, <4>2 DEF HandsFit
        <5>2. Open(i)'
          BY <3>5, <5>1
        <5> QED BY <5>1, <5>2 DEF Open, Submitted
      <4>3. ASSUME NEW v \in Workers, NEW u \in Workers, Works(v)', Works(u)', job'[v] = job'[u]
            PROVE  v = u
        BY <1>0, <3>6, <3>7, <4>1, <4>3 DEF HandsFit
      <4> QED BY <4>2, <4>3 DEF HandsFit, Open, Submitted
    <3>10. ValuesFit'
      <4>1. \A v \in Workers : wpc'[v] \in {"evaluate", "insert"} =>
               wpc'[v] = wpc[v] /\ v # w /\ job'[v] = job[v]
        BY <1>0, <3>1, <3>6 DEF EvalTypeOK
      <4> QED BY <1>0, <1>11, <4>1 DEF ValuesFit, evalVars
    <3> QED BY <2>1, <3>4, <3>8, <3>9, <3>10 DEF EvalInv
  <2> QED BY <2>2, <2>3
\* What a worker does with the task in its hands.
<1>12. ASSUME NEW w \in Workers, Works(w), NEW v \in Keys \union {Error}, Deliver(w, v),
              alive => v \in {Error, genomes[job[w]]},
              UNCHANGED <<tasks, stop, job, genomes, alive, fitness, mainVars>>,
              key' \in [Workers -> Keys \union {None}], \A u \in Workers : u # w => key'[u] = key[u],
              cache' \subseteq Keys, evaluations' \in Nat
       PROVE  EvalInv'
  <2>1. EvalTypeOK'
    BY <1>0, <1>12 DEF EvalTypeOK, Deliver, WorkerGoes, mainVars, WorkerPCs, PoolPCs
  <2> QED BY <1>12, <2>1, Delivers DEF EvalInv
<1>13. ASSUME NEW w \in Workers, Works(w), NEW place \in {"evaluate", "insert"}, WorkerGoes(w, place),
              UNCHANGED <<tasks, stop, job, genomes, alive, fitness, futures, cache, evaluations, mainVars>>,
              key' \in [Workers -> Keys \union {None}], \A u \in Workers : u # w => key'[u] = key[u],
              key'[w] \in Keys, alive => key'[w] = genomes[job[w]]
       PROVE  EvalInv'
  <2>1. EvalTypeOK'
    BY <1>0, <1>13 DEF EvalTypeOK, WorkerGoes, mainVars, WorkerPCs
  <2>2. MainFits'
    BY <1>0, <1>13 DEF MainFits, Submitted, mainVars
  <2>3. /\ \A u \in Workers : Works(u)' = Works(u)
        /\ \A u \in Workers : u # w => wpc'[u] = wpc[u]
    BY <1>0, <1>13 DEF EvalTypeOK, WorkerGoes, Works
  <2>4. QueueFits' /\ HandsFit'
    BY <1>0, <1>13, <2>3 DEF QueueFits, HandsFit, Open, Submitted, mainVars
  <2>5. ValuesFit'
    BY <1>0, <1>13, <2>3 DEF ValuesFit
  <2> QED BY <2>1, <2>2, <2>4, <2>5 DEF EvalInv
<1>14. ASSUME NEW w \in Workers, Works(w)
       PROVE  /\ job[w] \in Individuals /\ KeyOf(job[w]) \subseteq Keys
              /\ alive => KeyOf(job[w]) = {genomes[job[w]]}
  BY <1>0, <1>14 DEF HandsFit, Open, KeyOf, EvalTypeOK
<1>15. ASSUME NEW w \in Workers, Lookup(w) PROVE EvalInv'
  <2>1. Works(w) /\ UNCHANGED <<tasks, stop, job, genomes, alive, fitness, cache, evaluations, mainVars>>
    BY <1>15 DEF Lookup, Works
  <2>2. PICK k \in KeyOf(job[w]) :
          /\ key' = [key EXCEPT ![w] = k]
          /\ IF k \in cache THEN Deliver(w, k) ELSE WorkerGoes(w, "evaluate") /\ UNCHANGED futures
    BY <1>15 DEF Lookup
  <2>3. k \in Keys /\ (alive => k = genomes[job[w]])
    BY <1>14, <2>1
  <2>4. /\ key' \in [Workers -> Keys \union {None}] /\ key'[w] = k
        /\ \A u \in Workers : u # w => key'[u] = key[u]
    BY <1>0, <2>2, <2>3 DEF EvalTypeOK
  <2>5. CASE Deliver(w, k)
    BY <1>0, <1>12, <2>1, <2>3, <2>4, <2>5 DEF EvalTypeOK
  <2>6. CASE WorkerGoes(w, "evaluate") /\ UNCHANGED futures
    BY <1>13, <2>1, <2>3, <2>4, <2>6
  <2> QED BY <2>2, <2>5, <2>6
<1>16. ASSUME NEW w \in Workers, RunFitness(w) PROVE EvalInv'
  <2>1. /\ Works(w) /\ wpc[w] = "evaluate"
        /\ UNCHANGED <<tasks, stop, job, genomes, alive, fitness, cache, evaluations, key, mainVars>>
    BY <1>16 DEF RunFitness, Works
  <2>2. /\ key \in [Workers -> Keys \union {None}] /\ key[w] \in Keys
        /\ alive => key[w] = genomes[job[w]]
    BY <1>0, <2>1 DEF EvalTypeOK, ValuesFit
  <2>3. CASE Deliver(w, Error)
    BY <1>0, <1>12, <2>1, <2>2, <2>3 DEF EvalTypeOK
  <2>4. CASE WorkerGoes(w, "insert") /\ UNCHANGED futures
    BY <1>13, <2>1, <2>2, <2>4
  <2> QED BY <1>16, <2>3, <2>4 DEF RunFitness
<1>17. ASSUME NEW w \in Workers, Insert(w) PROVE EvalInv'
  <2>1. /\ Works(w) /\ wpc[w] = "insert" /\ Deliver(w, key[w])
        /\ cache' = cache \union {key[w]} /\ evaluations' = evaluations + 1
        /\ UNCHANGED <<tasks, stop, job, genomes, alive, fitness, key, mainVars>>
    BY <1>17 DEF Insert, Works
  <2>2. key[w] \in Keys /\ (alive => key[w] = genomes[job[w]])
    BY <1>0, <2>1 DEF ValuesFit
  <2> QED BY <1>0, <1>12, <2>1, <2>2 DEF EvalTypeOK
<1>18. CASE Spurious
  <2>1. /\ UNCHANGED <<tasks, stop, job, evalVars, mainVars>>
        /\ \E w \in Workers : wpc[w] = "wait" /\ WorkerGoes(w, "loop")
    BY <1>18 DEF Spurious, WakeUp
  <2>2. EvalTypeOK'
    BY <1>0, <1>3, <2>1 DEF EvalTypeOK, evalVars, mainVars
  <2>3. MainFits'
    BY <1>0, <2>1 DEF MainFits, Submitted, evalVars, mainVars
  <2>4. Accounts
    BY <1>1, <1>3, <2>1 DEF evalVars, mainVars, Submitted, Open
  <2> QED BY <2>2, <2>3, <2>4 DEF EvalInv
<1>19. CASE UNCHANGED allVars
  BY <1>0, <1>19 DEF allVars, EvalInv, EvalTypeOK, QueueFits, HandsFit, ValuesFit, MainFits,
     Open, Submitted, Works
<1> QED BY <1>2, <1>4, <1>5, <1>6, <1>7, <1>8, <1>9, <1>10, <1>11, <1>15, <1>16, <1>17, <1>18, <1>19
        DEF EvalNext, MainStep, WorkerStep, Ended

\* Every task is in one place, and the main thread goes on over futures that
\* have their values, however the threads are scheduled.
THEOREM EvalTypeCorrect == EvalSpec => []EvalInv
  BY EvalInvInit, EvalInvStep, PTL DEF EvalSpec

\* A generation is ranked by the fitness of its own genomes, with any number
\* of workers and whatever the cache held.
THEOREM RankedRight == EvalSpec => []RankedByOwnFitness
<1>1. EvalInv => RankedByOwnFitness
  <2> SUFFICES ASSUME EvalInv, mpc = "breed" PROVE fitness = genomes
    BY DEF RankedByOwnFitness
  <2>1. alive /\ \A i \in Individuals : fitness[i] \in Keys /\ fitness[i] \in {None, Error, genomes[i]}
    BY DEF EvalInv, MainFits, ValuesFit
  <2>2. \A i \in Individuals : fitness[i] = genomes[i]
    BY <2>1, KeysAssumption
  <2>3. fitness \in [Individuals -> Keys \union {None}] /\ genomes \in [Individuals -> Keys]
    BY DEF EvalInv, EvalTypeOK
  <2> QED BY <2>2, <2>3
<1> QED BY <1>1, EvalTypeCorrect, PTL

\* "main thread blocks on futures in order": unless a task throws, no task is
\* left with a population that is gone.
THEOREM PopulationOutlives == EvalSpec => []PopulationOutlivesTasks
<1>1. EvalInv => PopulationOutlivesTasks
  <2> SUFFICES ASSUME EvalInv, \A i \in Individuals : futures[i] # Error, ~alive
               PROVE  tasks = <<>> /\ \A w \in Workers : wpc[w] \notin {"job", "evaluate"}
    BY DEF PopulationOutlivesTasks, NoTaskDangles
  <2>1. \A i : ~Open(i)
    BY DEF EvalInv, MainFits, Open
  <2>2. tasks \in Seq(Individuals) /\ 1 \notin 1 .. Len(tasks)
    BY <2>1 DEF EvalInv, QueueFits, EvalTypeOK
  <2>3. tasks = <<>>
    BY <2>2
  <2> QED BY <2>1, <2>3 DEF EvalInv, HandsFit, Works
<1> QED BY <1>1, EvalTypeCorrect, PTL

-----------------------------------------------------------------------------
(* Counting.  The rank of a member of a finite set of numbers tells it     *)
(* from every other, which is what makes Nth, and so Picked, mean what     *)
(* they say.                                                               *)

UpTo(S, i) == {j \in S : j <= i}
RankOf(S) == [i \in S |-> Cardinality(UpTo(S, i))]

LEMMA RanksAre ==
    ASSUME NEW S \in SUBSET Int, IsFiniteSet(S)
    PROVE  /\ Cardinality(S) \in Nat
           /\ RankOf(S) \in Bijection(S, 1 .. Cardinality(S))
<1> DEFINE n == Cardinality(S)
           rank == RankOf(S)
<1>1. n \in Nat
  BY FS_CardinalityType
<1>2. ASSUME NEW i \in S
      PROVE  IsFiniteSet(UpTo(S, i)) /\ rank[i] = Cardinality(UpTo(S, i)) /\ rank[i] \in 1 .. n
  <2>1. UpTo(S, i) \in SUBSET S /\ i \in UpTo(S, i)
    BY DEF UpTo
  <2>2. IsFiniteSet(UpTo(S, i)) /\ Cardinality(UpTo(S, i)) <= n
    BY <2>1, FS_Subset
  <2>3. Cardinality(UpTo(S, i)) \in Nat
    BY <2>2, FS_CardinalityType
  <2>4. Cardinality(UpTo(S, i)) # 0
    BY <2>1, <2>2, FS_EmptySet
  <2> QED BY <1>1, <2>2, <2>3, <2>4 DEF RankOf
<1>3. ASSUME NEW i \in S, NEW j \in S, rank[i] = rank[j], i < j
      PROVE  FALSE
  <2>1. UpTo(S, i) \in SUBSET UpTo(S, j) /\ j \in UpTo(S, j) /\ j \notin UpTo(S, i)
    <3>1. i \in Int /\ j \in Int /\ \A x \in S : x \in Int
      BY <1>3
    <3>2. \A x \in S : x <= i => x <= j
      BY <1>3, <3>1
    <3>3. j <= j /\ ~(j <= i)
      BY <1>3, <3>1
    <3> QED BY <1>3, <3>2, <3>3, Zenon DEF UpTo
  <2>2. UpTo(S, j) = UpTo(S, i)
    BY <1>2, <1>3, <2>1, FS_Subset
  <2> QED BY <2>1, <2>2
<1>4. \A i, j \in S : rank[i] = rank[j] => i = j
  <2> SUFFICES ASSUME NEW i \in S, NEW j \in S, rank[i] = rank[j] PROVE i = j
    OBVIOUS
  <2>1. ~(i < j) /\ ~(j < i)
    BY <1>3
  <2> QED BY <2>1
<1>5. rank \in [S -> 1 .. n] /\ DOMAIN rank = S
  BY <1>2 DEF RankOf
<1>6. rank \in Injection(S, 1 .. n)
  BY <1>4, <1>5 DEF Injection, IsInjective
<1>7. IsFiniteSet(1 .. n) /\ Cardinality(1 .. n) = n
  BY <1>1, FS_Interval
<1>8. rank \in Surjection(S, 1 .. n)
  BY <1>6, <1>7, FS_Injection
<1> QED BY <1>1, <1>6, <1>8 DEF Bijection

LEMMA NthIs ==
    ASSUME NEW S \in SUBSET Int, IsFiniteSet(S), NEW k \in 1 .. Cardinality(S)
    PROVE  Nth(S, k) \in S /\ RankOf(S)[Nth(S, k)] = k
<1>1. \E i \in S : RankOf(S)[i] = k
  BY RanksAre DEF Bijection, Surjection
<1>2. \E i \in S : Cardinality({j \in S : j <= i}) = k
  BY <1>1 DEF RankOf, UpTo
<1>3. Nth(S, k) \in S /\ Cardinality({j \in S : j <= Nth(S, k)}) = k
  BY <1>2 DEF Nth
<1> QED BY <1>3 DEF RankOf, UpTo

\* Every member is the one of its rank.
LEMMA EachIsAnNth ==
    ASSUME NEW S \in SUBSET Int, IsFiniteSet(S), NEW i \in S
    PROVE  RankOf(S)[i] \in 1 .. Cardinality(S) /\ Nth(S, RankOf(S)[i]) = i
<1>1. RankOf(S)[i] \in 1 .. Cardinality(S)
  BY RanksAre DEF Bijection, Injection
<1>2. Nth(S, RankOf(S)[i]) \in S /\ RankOf(S)[Nth(S, RankOf(S)[i])] = RankOf(S)[i]
  BY <1>1, NthIs
<1>3. \A x, y \in S : RankOf(S)[x] = RankOf(S)[y] => x = y
  BY RanksAre DEF Bijection, Injection, IsInjective
<1> QED BY <1>1, <1>2, <1>3

\* No more than m members are among the first m.
LEMMA AtMostSoMany ==
    ASSUME NEW S \in SUBSET Int, IsFiniteSet(S), NEW m \in Nat,
           NEW T \in SUBSET S, \A i \in T : Cardinality({j \in S : j <= i}) <= m
    PROVE  IsFiniteSet(T) /\ Cardinality(T) <= m
<1> DEFINE rank == [i \in T |-> RankOf(S)[i]]
<1>1. IsFiniteSet(T)
  BY FS_Subset
<1>2. \A i \in S : RankOf(S)[i] \in 1 .. Cardinality(S)
  BY EachIsAnNth
<1>3. \A i \in T : rank[i] \in 1 .. m
  <2> SUFFICES ASSUME NEW i \in T PROVE rank[i] \in 1 .. m
    OBVIOUS
  <2>1. rank[i] = Cardinality({j \in S : j <= i})
    BY DEF RankOf, UpTo
  <2> QED BY <1>2, <2>1, RanksAre
<1>4. \A i, j \in T : rank[i] = rank[j] => i = j
  BY RanksAre DEF Bijection, Injection, IsInjective
<1>5. rank \in Injection(T, 1 .. m)
  BY <1>3, <1>4 DEF Injection, IsInjective
<1>6. IsFiniteSet(1 .. m) /\ Cardinality(1 .. m) = m
  BY FS_Interval
<1> QED BY <1>1, <1>5, <1>6, FS_Injection

LEMMA PickedIs ==
    ASSUME NEW X, NEW s \in Seq(X), NEW places \in SUBSET DOMAIN s
    PROVE  /\ IsFiniteSet(places) /\ places \in SUBSET Int
           /\ Picked(s, places) \in Seq(X) /\ Len(Picked(s, places)) = Cardinality(places)
           /\ \A k \in 1 .. Cardinality(places) : Nth(places, k) \in places /\ Picked(s, places)[k] = s[Nth(places, k)]
           /\ \A i \in places : \E k \in DOMAIN Picked(s, places) : Picked(s, places)[k] = s[i]
<1>1. places \in SUBSET Int /\ IsFiniteSet(places)
  BY FS_Interval, FS_Subset
<1>2. Cardinality(places) \in Nat
  BY <1>1, RanksAre
<1>3. \A k \in 1 .. Cardinality(places) : Nth(places, k) \in places
  BY <1>1, NthIs
<1>4. \A k \in 1 .. Cardinality(places) : s[Nth(places, k)] \in X
  BY <1>3
<1>5. Picked(s, places) = [k \in 1 .. Cardinality(places) |-> s[Nth(places, k)]]
  BY DEF Picked
<1>6. Picked(s, places) \in Seq(X) /\ Len(Picked(s, places)) = Cardinality(places)
  BY <1>2, <1>4, <1>5
<1>7. \A i \in places : \E k \in 1 .. Cardinality(places) : Nth(places, k) = i
  BY <1>1, EachIsAnNth
<1> QED BY <1>1, <1>2, <1>3, <1>5, <1>6, <1>7

-----------------------------------------------------------------------------
(* The best of some genomes.                                               *)

LEMMA ScoreIsInt == \A g \in Genomes : g.score \in Int
BY ScoresAssumption DEF Genomes

LEMMA BestIs ==
    ASSUME NEW S \in SUBSET Genomes, IsFiniteSet(S), S # {}
    PROVE  \E b \in S : \A g \in S : g.score <= b.score
<1> DEFINE scores == {g.score : g \in S}
           score == [g \in S |-> g.score]
<1>1. scores \in SUBSET Int /\ scores # {}
  BY ScoresAssumption DEF Genomes
<1>2. score \in Surjection(S, scores)
  BY DEF Surjection
<1>3. IsFiniteSet(scores)
  BY <1>2, FS_Surjection
<1>4. PICK n \in Nat : n = Cardinality(scores) /\ n # 0
  BY <1>3, FS_CardinalityType, FS_EmptySet, <1>1
<1> HIDE DEF scores
<1>5. PICK top \in scores : RankOf(scores)[top] = n
  <2>1. n \in 1 .. Cardinality(scores)
    BY <1>4
  <2> QED BY <1>1, <1>3, <2>1, NthIs
<1>6. UpTo(scores, top) \in SUBSET scores /\ Cardinality(UpTo(scores, top)) = n
  BY <1>5 DEF RankOf, UpTo
<1>7. UpTo(scores, top) = scores
  BY <1>3, <1>4, <1>6, FS_Subset
<1>8. \A x \in scores : x <= top
  BY <1>7 DEF UpTo
<1> USE DEF scores
<1>9. PICK b \in S : b.score = top
  BY <1>5
<1> QED BY <1>8, <1>9

LEMMA EnumerationIsWhole ==
    ASSUME NEW S, IsFiniteSet(S), NEW t \in SetToSeqs(S)
    PROVE  t \in Seq(S) /\ Len(t) = Cardinality(S) /\ \A g \in S : \E k \in DOMAIN t : t[k] = g
<1> DEFINE n == Cardinality(S)
<1>1. n \in Nat /\ IsFiniteSet(1 .. n) /\ Cardinality(1 .. n) = n
  BY FS_CardinalityType, FS_Interval
<1>2. t \in [1 .. n -> S] /\ \A i, j \in 1 .. n : i # j => t[i] # t[j]
  BY DEF SetToSeqs
<1>3. t \in Injection(1 .. n, S)
  BY <1>2 DEF Injection, IsInjective
<1>4. t \in Surjection(1 .. n, S)
  BY <1>1, <1>3, FS_Injection
<1> QED BY <1>1, <1>2, <1>4 DEF Surjection

LEMMA FirstOf ==
    ASSUME NEW X, NEW t \in Seq(X), NEW m \in 1 .. Len(t)
    PROVE  /\ SubSeq(t, 1, m) \in Seq(X) /\ Len(SubSeq(t, 1, m)) = m
           /\ SubSeq(t, 1, m)[1] = t[1]
OBVIOUS

LEMMA SmallerOf ==
    ASSUME NEW m \in Int, NEW n \in Int
    PROVE  Min({m, n}) = IF m <= n THEN m ELSE n
<1>1. CASE m <= n
  BY <1>1 DEF Min
<1>2. CASE ~(m <= n)
  BY <1>2 DEF Min
<1> QED BY <1>1, <1>2

\* The table begins with the best there is, whoever else is on it.
LEMMA TableBeginsWithTheBest ==
    ASSUME NEW pool \in SUBSET Genomes, IsFiniteSet(pool), pool # {},
           NEW s \in Finalists(pool)
    PROVE  /\ s \in Seq(pool) /\ s # <<>> /\ Len(s) <= Want + 1
           /\ \A g \in pool : g.score <= s[1].score
<1> DEFINE tops == {g \in pool : \A h \in pool : h.family = g.family => h.score <= g.score}
           Cut(t) == SubSeq(t, 1, Min({Want, Len(t)}))
<1>1. PICK b \in pool : \A g \in pool : g.score <= b.score
  BY BestIs
<1>2. b \in tops /\ IsFiniteSet(tops) /\ tops \in SUBSET pool
  BY <1>1, FS_Subset
<1>3. \E t \in SetToSeqs(tops) :
        /\ Ranked(t)
        /\ \/ s = Cut(t)
           \/ \E c \in pool : s = Append(Cut(t), c)
  BY DEF Finalists
<1> HIDE DEF tops
<1>4. PICK t \in SetToSeqs(tops) :
        /\ Ranked(t)
        /\ \/ s = Cut(t)
           \/ \E c \in pool : s = Append(Cut(t), c)
  BY <1>3
<1>5. t \in Seq(pool) /\ \E k \in DOMAIN t : t[k] = b
  BY <1>2, EnumerationIsWhole
<1>6. Len(t) \in Nat \ {0} /\ Want \in Nat \ {0}
  BY <1>5, SizesAssumption
<1>7. PICK m \in 1 .. Len(t) : m = Min({Want, Len(t)}) /\ m <= Want
  BY <1>6, SmallerOf
<1>8. Cut(t) \in Seq(pool) /\ Len(Cut(t)) = m /\ Cut(t)[1] = t[1]
  <2>1. Cut(t) = SubSeq(t, 1, m)
    BY <1>7
  <2>2. SubSeq(t, 1, m) \in Seq(pool) /\ Len(SubSeq(t, 1, m)) = m /\ SubSeq(t, 1, m)[1] = t[1]
    <3>1. t \in Seq(pool)
      BY <1>5
    <3> QED BY <3>1, FirstOf
  <2> QED BY <2>1, <2>2
<1>9. t[1].score >= b.score
  <2>1. PICK k \in 1 .. Len(t) : t[k] = b
    BY <1>5
  <2>2. t[1].score \in Int /\ b.score \in Int
    BY <1>5, <1>6, ScoreIsInt
  <2>3. CASE k = 1
    BY <2>1, <2>2, <2>3
  <2>4. CASE 1 < k
    BY <1>4, <1>5, <1>6, <2>1, <2>2, <2>4 DEF Ranked
  <2> QED BY <2>3, <2>4
<1> HIDE DEF Cut
<1>10. /\ s \in Seq(pool) /\ s # <<>> /\ Len(s) <= Want + 1
       /\ s[1] = t[1]
  <2>1. CASE s = Cut(t)
    BY <1>6, <1>7, <1>8, <2>1
  <2>2. ASSUME NEW c \in pool, s = Append(Cut(t), c) PROVE <1>10!:
    BY <1>6, <1>7, <1>8, <2>2
  <2> QED BY <1>4, <2>1, <2>2
<1>11. ASSUME NEW g \in pool PROVE g.score <= s[1].score
  <2>1. g.score \in Int /\ b.score \in Int /\ t[1].score \in Int
    <3>1. t[1] \in pool
      BY <1>5, <1>6
    <3> QED BY <3>1, ScoreIsInt
  <2> QED BY <1>1, <1>9, <1>10, <2>1
<1> QED BY <1>10, <1>11

-----------------------------------------------------------------------------
(* The memory.  What makes NobodyIsForgotten inductive: the history is     *)
(* finite and holds the champions, and when the search is over the table   *)
(* was made from all of it.                                                *)

TableHolds ==
    pc = "done" => finalists # <<>> /\ \A g \in best : g.score <= finalists[1].score

SearchInv ==
    /\ population # <<>>
    /\ IsFiniteSet(best)
    /\ TournamentTypeOK
    /\ pc = "breed" => gen + 1 < Generations
    /\ TableHolds

LEMMA RangeIs ==
    ASSUME NEW X, NEW s \in Seq(X)
    PROVE  /\ IsFiniteSet(Range(s)) /\ Range(s) \in SUBSET X /\ s \in Seq(Range(s))
           /\ \A i \in DOMAIN s : s[i] \in Range(s)
           /\ s # <<>> => Range(s) # {}
<1>1. s \in Surjection(DOMAIN s, Range(s)) /\ IsFiniteSet(DOMAIN s)
  BY FS_Interval DEF Surjection, Range
<1>2. IsFiniteSet(Range(s))
  BY <1>1, FS_Surjection
<1>3. Range(s) \in SUBSET X /\ \A i \in DOMAIN s : s[i] \in Range(s)
  BY DEF Range
<1>4. s \in Seq(Range(s))
  <2>1. s = [i \in 1 .. Len(s) |-> s[i]] /\ \A i \in 1 .. Len(s) : s[i] \in Range(s)
    BY <1>3
  <2> QED BY <2>1
<1>5. s # <<>> => 1 \in DOMAIN s
  OBVIOUS
<1> QED BY <1>2, <1>3, <1>4, <1>5

\* A function on 1 .. n is a sequence.
LEMMA IsSeq ==
    ASSUME NEW X, NEW n \in Nat, NEW f \in [1 .. n -> X]
    PROVE  f \in Seq(X) /\ Len(f) = n /\ DOMAIN f = 1 .. n
OBVIOUS

\* A ranking has the genomes that are ranked.
LEMMA RankingIs ==
    ASSUME NEW s \in Seq(Genomes), NEW q \in Rankings(s)
    PROVE  q \in Seq(Genomes) /\ Len(q) = Len(s) /\ Range(q) = Range(s)
<1>1. /\ q \in [1 .. Len(s) -> Range(s)] /\ Len(s) \in Nat
      /\ \A g \in Range(s) : Cardinality({i \in DOMAIN q : q[i] = g})
                           = Cardinality({i \in DOMAIN s : s[i] = g})
  BY DEF Rankings
<1>2. q \in Seq(Range(s)) /\ Len(q) = Len(s) /\ DOMAIN q = 1 .. Len(s)
  BY <1>1, IsSeq
<1>3. ASSUME NEW g \in Range(s) PROVE g \in Range(q)
  <2> DEFINE of == {i \in DOMAIN q : q[i] = g}
             was == {i \in DOMAIN s : s[i] = g}
  <2>1. IsFiniteSet(of) /\ IsFiniteSet(was)
    <3>1. of \in SUBSET (1 .. Len(s)) /\ was \in SUBSET (1 .. Len(s)) /\ IsFiniteSet(1 .. Len(s))
      <4>1. DOMAIN q = 1 .. Len(s) /\ DOMAIN s = 1 .. Len(s)
        BY <1>2
      <4>2. IsFiniteSet(1 .. Len(s))
        BY <1>1, FS_Interval
      <4> QED BY <4>1, <4>2
    <3> QED BY <3>1, FS_Subset
  <2>2. was # {}
    BY DEF Range
  <2>3. Cardinality(of) # 0
    BY <1>1, <2>1, <2>2, FS_EmptySet
  <2>4. of # {}
    BY <2>3, FS_EmptySet
  <2> QED BY <2>4 DEF Range
<1>4. Range(q) \in SUBSET Range(s) /\ Range(s) \in SUBSET Genomes
  BY <1>1 DEF Range
<1>5. \A i \in 1 .. Len(s) : q[i] \in Genomes
  BY <1>1, <1>4
<1> QED BY <1>1, <1>2, <1>3, <1>4, <1>5, IsSeq

LEMMA SurvivorsAre ==
    ASSUME NEW places \in SUBSET DOMAIN population, population \in Seq(Genomes)
    PROVE  /\ Picked(population, places) \in Seq(Genomes)
           /\ Range(Picked(population, places)) \subseteq Range(population)
<1>1. population \in Seq(Range(population)) /\ Range(population) \in SUBSET Genomes
  BY RangeIs
<1>2. Picked(population, places) \in Seq(Range(population))
  BY <1>1, PickedIs
<1>3. Picked(population, places) \in Seq(Genomes)
  BY PickedIs
<1> QED BY <1>2, <1>3, RangeIs

\* Nobody is beaten by one of its family, so each family has one champion.
LEMMA ChampionsAre ==
    ASSUME champions \subseteq Genomes, population \in Seq(Genomes)
    PROVE  /\ Crowned \subseteq champions \union Range(population)
           /\ \A f \in Families : Cardinality({g \in Crowned : g.family = f}) <= 1
<1>1. Crowned \subseteq champions \union Range(population)
  BY DEF Crowned
<1>2. champions \union Range(population) \in SUBSET Genomes
  BY RangeIs
<1>3. ASSUME NEW f \in Families PROVE Cardinality({g \in Crowned : g.family = f}) <= 1
  <2> DEFINE C == {g \in Crowned : g.family = f}
  <2>1. ASSUME NEW g \in C, NEW h \in C PROVE g = h
    <3>1. g \in Genomes /\ h \in Genomes /\ g.family = h.family
      BY <1>1, <1>2
    <3>2. ~(h.score > g.score) /\ ~(g.score > h.score)
      BY <1>1, <3>1 DEF Crowned
    <3>3. g.score = h.score
      BY <3>1, <3>2, ScoreIsInt
    <3> QED BY <3>1, <3>3 DEF Genomes
  <2> HIDE DEF C
  <2>2. CASE C = {}
    <3>1. Cardinality(C) = 0
      BY <2>2, FS_EmptySet
    <3> QED BY <3>1 DEF C
  <2>3. CASE C # {}
    <3>1. PICK g : C = {g}
      BY SMTT(30), <2>1, <2>3
    <3>2. Cardinality(C) = 1
      BY <3>1, FS_Singleton
    <3> QED BY <3>2 DEF C
  <2> QED BY <2>2, <2>3
<1> QED BY <1>1, <1>3

LEMMA FillerIs ==
    ASSUME NEW n \in Nat, NEW rest \in Filler(n)
    PROVE  rest \in Seq(Genomes) /\ Len(rest) = IF n < Population THEN Population - n ELSE 0
<1>1. PICK m \in Nat : m = IF n < Population THEN Population - n ELSE 0
  BY SizesAssumption
<1>2. rest \in [1 .. m -> Genomes]
  BY <1>1 DEF Filler
<1> QED BY <1>1, <1>2, IsSeq

LEMMA JoinedIs ==
    ASSUME NEW X, NEW a \in Seq(X), NEW b \in Seq(X)
    PROVE  /\ a \o b \in Seq(X) /\ Len(a \o b) = Len(a) + Len(b)
           /\ \A i \in 1 .. Len(a) : (a \o b)[i] = a[i]
           /\ \A i \in 1 .. Len(b) : (a \o b)[Len(a) + i] = b[i]
OBVIOUS

LEMMA FamiliesAre ==
    /\ NumFamilies \in Nat \ {0}
    /\ \A g \in Genomes : g.family \in 1 .. NumFamilies
    /\ \A f \in 1 .. NumFamilies, x \in Scores : [family |-> f, score |-> x] \in Genomes
BY FamiliesAssumption DEF Genomes, Families

LEMMA ElitesAre ==
    ASSUME survivors \in Seq(Genomes)
    PROVE  /\ Elites \in Seq(Genomes) /\ Slots \in Int
           /\ Speciate => Len(Elites) <= EliteKeep * 3
           /\ Slots = Population - Len(Elites) - Immigrants
<1> DEFINE top == {i \in DOMAIN survivors : RankInFamily(survivors, i) <= EliteKeepPerFamily}
           first == {i \in top : Cardinality({j \in top : j <= i}) <= EliteKeep * 3}
<1>1. IF Speciate THEN Elites = Picked(survivors, first)
                  ELSE Elites = Picked(survivors, {i \in DOMAIN survivors : i <= EliteKeep})
  BY DEF Elites
<1>2. first \in SUBSET DOMAIN survivors /\ top \in SUBSET DOMAIN survivors
  OBVIOUS
<1>3. Elites \in Seq(Genomes)
  <2>1. \A places \in SUBSET DOMAIN survivors : Picked(survivors, places) \in Seq(Genomes)
    BY PickedIs
  <2> QED BY <1>1, <1>2, <2>1
<1>4. ASSUME Speciate PROVE Len(Elites) <= EliteKeep * 3
  <2>1. PICK m \in Nat : m = EliteKeep * 3
    BY SizesAssumption
  <2>2. top \in SUBSET Int /\ IsFiniteSet(top)
    BY <1>2, PickedIs
  <2>3. first \in SUBSET top /\ \A i \in first : Cardinality({j \in top : j <= i}) <= m
    BY <2>1
  <2> HIDE DEF top, first
  <2>4. Cardinality(first) <= m
    BY <2>2, <2>3, AtMostSoMany
  <2>5. Len(Elites) = Cardinality(first)
    BY <1>1, <1>2, <1>4, PickedIs
  <2> QED BY <2>1, <2>4, <2>5
<1>5. Slots = Population - Len(Elites) - Immigrants
  BY DEF Slots
<1>6. Slots \in Int
  BY <1>3, <1>5, SizesAssumption
<1> QED BY <1>3, <1>4, <1>5, <1>6

Parents == {g.family : g \in Range(survivors)}

LEMMA ParentsAre ==
    ASSUME survivors \in Seq(Genomes), survivors # <<>>
    PROVE  /\ Parents \in SUBSET (1 .. NumFamilies) /\ Parents \in SUBSET Int
           /\ IsFiniteSet(Parents) /\ Cardinality(Parents) \in Nat \ {0}
           /\ \A k \in Nat \ {0} :
                 /\ ((k - 1) % Cardinality(Parents)) + 1 \in 1 .. Cardinality(Parents)
                 /\ Nth(Parents, ((k - 1) % Cardinality(Parents)) + 1) \in Parents
<1>1. Range(survivors) \in SUBSET Genomes /\ Range(survivors) # {}
  BY RangeIs
<1>2. Parents \in SUBSET (1 .. NumFamilies) /\ Parents # {}
  BY <1>1, FamiliesAre DEF Parents
<1>3. IsFiniteSet(Parents) /\ Parents \in SUBSET Int
  <2>1. IsFiniteSet(1 .. NumFamilies)
    BY FamiliesAre, FS_Interval
  <2>2. IsFiniteSet(Parents)
    BY <1>2, <2>1, FS_Subset
  <2> QED BY <1>2, <2>2
<1>4. PICK n \in Nat \ {0} : n = Cardinality(Parents)
  BY <1>2, <1>3, FS_CardinalityType, FS_EmptySet
<1>5. ASSUME NEW k \in Nat \ {0} PROVE ((k - 1) % n) + 1 \in 1 .. n
  <2>1. k - 1 \in Nat
    OBVIOUS
  <2>2. (k - 1) % n \in 0 .. n - 1
    BY <2>1
  <2> QED BY <2>2
<1> QED BY <1>2, <1>3, <1>4, <1>5, NthIs

\* Each is of a family of the survivors, and has some score.
LEMMA OffspringAre ==
    ASSUME survivors \in Seq(Genomes), NEW children \in Offspring
    PROVE  /\ children \in Seq(Genomes)
           /\ survivors = <<>> \/ Slots <= 0 => children = <<>>
           /\ ~(survivors = <<>> \/ Slots <= 0) =>
                 /\ Len(children) = Slots
                 /\ \E families \in ParentFamilies :
                       \A k \in 1 .. Slots : children[k].family = families[k]
<1> DEFINE none == survivors = <<>> \/ Slots <= 0
<1>1. CASE none
  <2>1. children = <<>>
    BY <1>1 DEF Offspring
  <2> QED BY <1>1, <2>1
<1>2. CASE ~none
  <2>1. PICK families \in ParentFamilies, scores \in [1 .. Slots -> Scores] :
            children = [k \in 1 .. Slots |-> [family |-> families[k], score |-> scores[k]]]
    BY <1>2 DEF Offspring
  <2>2. PICK n : n = Slots
    OBVIOUS
  <2>3. n \in Nat
    BY <1>2, <2>2, ElitesAre
  <2>4. \A k \in 1 .. n : families[k] \in Parents
    <3>1. CASE Speciate
      <4>1. \A k \in 1 .. n : families[k] = Nth(Parents, ((k - 1) % Cardinality(Parents)) + 1)
        BY <2>2, <3>1 DEF ParentFamilies, Parents
      <4> QED BY <1>2, <2>3, <4>1, ParentsAre
    <3>2. CASE ~Speciate
      BY <2>2, <3>2 DEF ParentFamilies, Parents
    <3> QED BY <3>1, <3>2
  <2>5. \A k \in 1 .. n : families[k] \in 1 .. NumFamilies
    BY <1>2, <2>4, ParentsAre
  <2>6. \A k \in 1 .. n : children[k] \in Genomes /\ children[k].family = families[k]
    BY <2>1, <2>2, <2>5, FamiliesAre
  <2>7. children \in Seq(Genomes) /\ Len(children) = n
    BY <2>1, <2>2, <2>3, <2>6, IsSeq
  <2> QED BY <1>2, <2>1, <2>2, <2>6, <2>7
<1> QED BY <1>1, <1>2

\* What breed() makes: its elites, its children, and others until it is full.
LEMMA BredIs ==
    ASSUME survivors \in Seq(Genomes), NEW children \in Offspring,
           NEW rest \in Filler(Len(Elites \o children))
    PROVE  /\ Elites \o children \o rest \in Seq(Genomes)
           /\ Elites \o children \o rest # <<>>
           /\ \A i \in 1 .. Len(children) :
                 (Elites \o children \o rest)[Len(Elites) + i] = children[i]
           /\ SubSeq(Elites \o children \o rest, Len(Elites) + 1, Len(Elites) + Len(children)) = children
<1>1. PICK e \in Seq(Genomes) : e = Elites
  BY ElitesAre
<1>2. PICK c \in Seq(Genomes) : c = children
  BY OffspringAre
<1>3. e \o c \in Seq(Genomes) /\ Len(e \o c) = Len(e) + Len(c)
  BY JoinedIs
<1>4. rest \in Seq(Genomes)
      /\ Len(rest) = IF Len(e \o c) < Population THEN Population - Len(e \o c) ELSE 0
  BY <1>1, <1>2, <1>3, FillerIs
<1>5. PICK r \in Seq(Genomes) : r = rest
  BY <1>4
<1>6. e \o c \o r \in Seq(Genomes) /\ Len(e \o c \o r) = Len(e) + Len(c) + Len(r)
  BY <1>3, JoinedIs
<1>7. e \o c \o r # <<>>
  <2>1. Len(e \o c \o r) > 0
    BY SMTT(30), <1>3, <1>4, <1>5, <1>6, SizesAssumption
  <2> QED BY <2>1
<1>8. ASSUME NEW i \in 1 .. Len(c) PROVE (e \o c \o r)[Len(e) + i] = c[i]
  <2>1. Len(e) + i \in 1 .. Len(e \o c) /\ (e \o c)[Len(e) + i] = c[i]
    BY <1>3, JoinedIs
  <2>2. \A k \in 1 .. Len(e \o c) : ((e \o c) \o r)[k] = (e \o c)[k]
    BY <1>3, JoinedIs
  <2> QED BY <2>1, <2>2
<1>9. SubSeq(e \o c \o r, Len(e) + 1, Len(e) + Len(c)) = c
  <2>1. PICK b \in Seq(Genomes) : b = e \o c \o r
    BY <1>6
  <2>2. PICK m \in Nat, n \in Nat : m = Len(e) /\ n = Len(c)
    OBVIOUS
  <2>3. SubSeq(b, m + 1, m + n) = [k \in 1 .. n |-> b[m + k]]
    BY <2>1, <2>2
  <2>4. c = [k \in 1 .. n |-> c[k]]
    BY <2>2
  <2>5. \A k \in 1 .. n : b[m + k] = c[k]
    BY <1>8, <2>1, <2>2
  <2> QED BY <2>1, <2>2, <2>3, <2>4, <2>5
<1> QED BY <1>1, <1>2, <1>5, <1>6, <1>7, <1>8, <1>9

LEMMA SearchInvInit == TournamentInit => SearchInv
<1> SUFFICES ASSUME TournamentInit PROVE SearchInv
  OBVIOUS
<1>1. PICK n \in Nat \ {0} : n = NumFamilies * (1 + SeedsPerFamily)
  BY FamiliesAre, SizesAssumption
<1>2. PICK seeds \in [1 .. n -> Genomes] :
          \E rest \in Filler(Len(seeds)) : population = seeds \o rest
  BY <1>1 DEF TournamentInit
<1>3. seeds \in Seq(Genomes) /\ Len(seeds) = n
  BY IsSeq
<1>4. PICK rest \in Seq(Genomes) : population = seeds \o rest
  BY <1>2, <1>3, FillerIs
<1>5. population \in Seq(Genomes) /\ population # <<>>
  <2>1. population \in Seq(Genomes) /\ Len(population) = n + Len(rest) /\ Len(rest) \in Nat
    <3>1. PICK s \in Seq(Genomes) : s = seeds
      BY <1>3
    <3>2. s \o rest \in Seq(Genomes) /\ Len(s \o rest) = Len(s) + Len(rest)
      BY JoinedIs
    <3> QED BY <1>3, <1>4, <3>1, <3>2
  <2> QED BY <2>1
<1>6. IsFiniteSet({}) /\ \A f \in Families : Cardinality({g \in {} : g.family = f}) <= 1
  <2>1. \A f \in Families : {g \in {} : g.family = f} = {}
    OBVIOUS
  <2> QED BY <2>1, FS_EmptySet
<1>7. 0 \in 0 .. Generations - 1
  BY SizesAssumption
<1>8. /\ survivors = <<>> /\ gen = 0 /\ best = {} /\ champions = {}
      /\ finalists = <<>> /\ pc = "evaluate"
  BY DEF TournamentInit
<1>9. <<>> \in Seq(Genomes) /\ <<>> \in Seq(best) /\ Len(<<>>) = 0
  OBVIOUS
<1>10. TournamentTypeOK
  BY <1>5, <1>6, <1>7, <1>8, <1>9, SizesAssumption DEF TournamentTypeOK
<1> QED BY <1>5, <1>6, <1>8, <1>10 DEF SearchInv, TableHolds

LEMMA SelectKeeps ==
    ASSUME SearchInv, Select
    PROVE  SearchInv'
<1>1. population \in Seq(Genomes) /\ population # <<>> /\ IsFiniteSet(best) /\ best \in SUBSET Genomes
      /\ champions \subseteq best /\ pc = "select" /\ gen \in 0 .. Generations - 1
      /\ finalists \in Seq(best) /\ Len(finalists) <= Want + 1
  BY DEF SearchInv, TournamentTypeOK, Select
<1>2. /\ IsFiniteSet(Range(population)) /\ Range(population) \in SUBSET Genomes
      /\ Range(population) # {}
  BY <1>1, RangeIs
<1>3. /\ survivors' = Surviving /\ best' = best \union Range(population) /\ champions' = Crowned
      /\ UNCHANGED <<population, gen>>
  BY DEF Select, Remembered
<1>4. /\ IsFiniteSet(best') /\ best' \in SUBSET Genomes /\ best' # {} /\ best \subseteq best'
  <2>1. IsFiniteSet(best \union Range(population))
    BY <1>1, <1>2, FS_Union
  <2> QED BY <1>1, <1>2, <1>3, <2>1
<1>5. survivors' \in Seq(Genomes) /\ Range(survivors') \subseteq Range(population')
  <2> DEFINE places == {i \in DOMAIN population :
                           IF gen < TuneGenerations THEN RankInFamily(population, i) <= TuneKeepPerFamily
                                                ELSE population[i].score >= Threshold}
  <2>1. survivors' = Picked(population, places)
    BY <1>3 DEF Surviving
  <2>2. places \in SUBSET DOMAIN population
    OBVIOUS
  <2> HIDE DEF places
  <2> QED BY <1>1, <1>3, <2>1, <2>2, SurvivorsAre
<1>6. /\ champions' \subseteq best'
      /\ \A f \in Families : Cardinality({g \in champions' : g.family = f}) <= 1
  <2>1. champions \subseteq Genomes
    BY <1>1
  <2> QED BY <1>1, <1>3, <2>1, ChampionsAre
<1>7. /\ finalists' \in Seq(best') /\ Len(finalists') <= Want + 1
      /\ pc' \in {"breed", "done"} /\ TableHolds'
      /\ pc' = "breed" => gen + 1 < Generations
  <2>1. CASE gen + 1 >= Generations
    <3>1. pc' = "done" /\ finalists' \in Finalists(best')
      BY <2>1 DEF Select
    <3>2. PICK pool : pool = best'
      OBVIOUS
    <3>3. PICK table : table = finalists'
      OBVIOUS
    <3>4. /\ table \in Seq(pool) /\ table # <<>> /\ Len(table) <= Want + 1
          /\ \A g \in pool : g.score <= table[1].score
      BY <1>4, <3>1, <3>2, <3>3, TableBeginsWithTheBest
    <3> QED BY <3>1, <3>2, <3>3, <3>4 DEF TableHolds
  <2>2. CASE ~(gen + 1 >= Generations)
    <3>1. pc' = "breed" /\ finalists' = finalists
      BY <2>2 DEF Select
    <3>2. finalists \in Seq(best')
      BY <1>1, <1>4
    <3>3. gen + 1 < Generations
      BY <1>1, <2>2, SizesAssumption
    <3> QED BY <1>1, <3>1, <3>2, <3>3 DEF TableHolds
  <2> QED BY <2>1, <2>2
<1>8. TournamentTypeOK'
  BY <1>1, <1>3, <1>4, <1>5, <1>6, <1>7 DEF TournamentTypeOK
<1> QED BY <1>1, <1>3, <1>4, <1>7, <1>8 DEF SearchInv

LEMMA SearchInvStep == SearchInv /\ [TournamentNext]_tournamentVars => SearchInv'
<1> SUFFICES ASSUME SearchInv, [TournamentNext]_tournamentVars PROVE SearchInv'
  OBVIOUS
<1>1. CASE Evaluate
  <2>1. population' \in Rankings(population) /\ pc' = "select"
        /\ UNCHANGED <<survivors, gen, best, champions, finalists>>
    BY <1>1 DEF Evaluate
  <2>2. population \in Seq(Genomes) /\ population # <<>>
    BY DEF SearchInv, TournamentTypeOK
  <2>3. PICK q : q = population'
    OBVIOUS
  <2>4. q \in Seq(Genomes) /\ Len(q) = Len(population)
    BY <2>1, <2>2, <2>3, RankingIs
  <2>5. population' \in Seq(Genomes) /\ population' # <<>>
    <3>1. Len(population) # 0
      BY <2>2
    <3>2. q # <<>>
      BY <2>4, <3>1
    <3> QED BY <2>3, <2>4, <3>2
  <2> QED BY <2>1, <2>5 DEF SearchInv, TournamentTypeOK, TableHolds
<1>2. CASE Select
  BY <1>2, SelectKeeps
<1>3. CASE Breed
  <2>1. survivors \in Seq(Genomes) /\ gen \in 0 .. Generations - 1
    BY DEF SearchInv, TournamentTypeOK
  <2>2. population' \in Seq(Genomes) /\ population' # <<>>
    BY <1>3, <2>1, BredIs DEF Breed
  <2>3. /\ gen' = gen + 1 /\ pc' = "evaluate"
        /\ UNCHANGED <<survivors, best, champions, finalists>>
    BY <1>3 DEF Breed
  <2>4. gen' \in 0 .. Generations - 1
    BY <1>3, <2>1, <2>3, SizesAssumption DEF Breed, SearchInv
  <2> QED BY <2>2, <2>3, <2>4 DEF SearchInv, TournamentTypeOK, TableHolds
<1>4. CASE Done \/ UNCHANGED tournamentVars
  BY <1>4 DEF Done, tournamentVars, SearchInv, TournamentTypeOK, TableHolds
<1> QED BY <1>1, <1>2, <1>3, <1>4 DEF TournamentNext

\* The types hold, however the generations go.
THEOREM TournamentTypeCorrect == TournamentSpec => []TournamentTypeOK
<1>1. SearchInv => TournamentTypeOK
  BY DEF SearchInv
<1> QED BY <1>1, SearchInvInit, SearchInvStep, PTL DEF TournamentSpec

(* The first finalist is at least as good as every champion of every       *)
(* family, for any families, scores, sizes and seeds: nobody who was ever  *)
(* evaluated is lost between the history and the table.                    *)
THEOREM NobodyForgotten == TournamentSpec => []NobodyIsForgotten
<1>1. SearchInv => NobodyIsForgotten
  BY DEF SearchInv, TableHolds, TournamentTypeOK, NobodyIsForgotten
<1> QED BY <1>1, SearchInvInit, SearchInvStep, PTL DEF TournamentSpec

-----------------------------------------------------------------------------
(* The dealing of slots in turn: n slots over m families.                  *)

LEMMA Remainder ==
    ASSUME NEW m \in Nat \ {0}, NEW a \in Int, NEW s \in 0 .. m - 1
    PROVE  (a * m + s) % m = s
<1>1. PICK x \in Int : x = a * m + s
  OBVIOUS
<1>2. PICK b \in Int, t \in 0 .. m - 1 : x = m * b + t /\ x % m = t
  <2>1. x = m * (x \div m) + (x % m) /\ x \div m \in Int /\ x % m \in 0 .. m - 1
    OBVIOUS
  <2> QED BY <2>1
<1>3. PICK e \in Int : e = a - b
  OBVIOUS
<1>4. e * m = t - s
  <2>1. e * m = a * m - m * b
    BY <1>3
  <2> QED BY <1>1, <1>2, <2>1
<1>5. ~(e >= 1)
  <2> SUFFICES ASSUME e >= 1 PROVE FALSE
    OBVIOUS
  <2>1. e * m >= m
    OBVIOUS
  <2> QED BY <1>4, <2>1
<1>6. ~(e <= -1)
  <2> SUFFICES ASSUME e <= -1 PROVE FALSE
    OBVIOUS
  <2>1. e * m <= -m
    OBVIOUS
  <2> QED BY <1>4, <2>1
<1>7. e = 0
  BY <1>5, <1>6
<1>8. t = s
  <2>1. e * m = 0
    BY <1>7
  <2> QED BY <1>4, <2>1
<1> QED BY <1>1, <1>2, <1>8

Dealt(n, m, r) == {i \in 1 .. n : ((i - 1) % m) + 1 = r}

LEMMA DealtEvenly ==
    ASSUME NEW n \in Nat, NEW m \in 1 .. n, NEW r \in 1 .. m, NEW q \in 1 .. m
    PROVE  /\ r \in Dealt(n, m, r) /\ Cardinality(Dealt(n, m, r)) >= 1
           /\ Cardinality(Dealt(n, m, q)) <= Cardinality(Dealt(n, m, r)) + 1
<1>1. \A k \in 1 .. m : k \in Dealt(n, m, k)
  <2> SUFFICES ASSUME NEW k \in 1 .. m PROVE k \in Dealt(n, m, k)
    OBVIOUS
  <2>1. (0 * m + (k - 1)) % m = k - 1
    BY Remainder
  <2>2. 0 * m + (k - 1) = k - 1 /\ k \in 1 .. n
    OBVIOUS
  <2>3. (k - 1) % m = k - 1
    BY <2>1, <2>2
  <2> QED BY <2>2, <2>3 DEF Dealt
<1>2. \A k \in 1 .. m : IsFiniteSet(Dealt(n, m, k)) /\ Cardinality(Dealt(n, m, k)) \in Nat
  <2> SUFFICES ASSUME NEW k \in 1 .. m
               PROVE  IsFiniteSet(Dealt(n, m, k)) /\ Cardinality(Dealt(n, m, k)) \in Nat
    OBVIOUS
  <2>1. IsFiniteSet(1 .. n)
    BY FS_Interval
  <2>2. Dealt(n, m, k) \in SUBSET (1 .. n)
    BY DEF Dealt
  <2>3. IsFiniteSet(Dealt(n, m, k))
    BY <2>1, <2>2, FS_Subset
  <2> QED BY <2>3, FS_CardinalityType
<1>3. Cardinality(Dealt(n, m, r)) >= 1
  <2>1. Cardinality(Dealt(n, m, r)) # 0
    BY <1>1, <1>2, FS_EmptySet
  <2> QED BY <1>2, <2>1
<1> DEFINE later == Dealt(n, m, q) \ {q}
<1>4. IsFiniteSet(later) /\ Cardinality(later) = Cardinality(Dealt(n, m, q)) - 1
  BY <1>1, <1>2, FS_RemoveElement
<1>5. PICK d \in 0 .. m - 1 : IF q >= r THEN d = q - r ELSE d = q - r + m
  <2>1. CASE q >= r
    BY <2>1
  <2>2. CASE ~(q >= r)
    BY <2>2
  <2> QED BY <2>1, <2>2
<1>6. ASSUME NEW i \in later PROVE i \in Int /\ i - d \in Dealt(n, m, r)
  <2>1. i \in 1 .. n /\ (i - 1) % m = q - 1 /\ i # q
    BY DEF Dealt
  <2>2. PICK a \in Int : i - 1 = m * a + (q - 1)
    <3>1. i - 1 = m * ((i - 1) \div m) + ((i - 1) % m) /\ (i - 1) \div m \in Int
      BY <2>1
    <3> QED BY <2>1, <3>1
  <2>3. a >= 1
    <3>1. ~(a <= -1)
      <4> SUFFICES ASSUME a <= -1 PROVE FALSE
        OBVIOUS
      <4>1. m * a <= -m
        OBVIOUS
      <4> QED BY <2>1, <2>2, <4>1
    <3>2. a # 0
      <4> SUFFICES ASSUME a = 0 PROVE FALSE
        OBVIOUS
      <4>1. m * a = 0
        OBVIOUS
      <4> QED BY <2>1, <2>2, <4>1
    <3> QED BY <3>1, <3>2
  <2>4. m * a >= m
    BY <2>3
  <2>5. i - d \in 1 .. n
    BY <1>5, <2>1, <2>2, <2>4
  <2>6. PICK c \in Int : i - d - 1 = c * m + (r - 1)
    <3>1. CASE q >= r
      <4>1. i - d - 1 = a * m + (r - 1)
        BY <1>5, <2>1, <2>2, <3>1
      <4> QED BY <4>1
    <3>2. CASE ~(q >= r)
      <4>1. (a - 1) * m = a * m - m
        OBVIOUS
      <4>2. i - d - 1 = (a - 1) * m + (r - 1)
        BY <1>5, <2>1, <2>2, <3>2, <4>1
      <4>3. PICK e \in Int : e = a - 1
        OBVIOUS
      <4>4. i - d - 1 = e * m + (r - 1)
        BY <4>2, <4>3
      <4> QED BY <4>4
    <3> QED BY <3>1, <3>2
  <2>7. (c * m + (r - 1)) % m = r - 1
    <3>1. m \in Nat \ {0} /\ r - 1 \in 0 .. m - 1
      OBVIOUS
    <3> QED BY <3>1, Remainder
  <2> QED BY <2>1, <2>5, <2>6, <2>7 DEF Dealt
<1> DEFINE back == [i \in later |-> i - d]
<1>7. back \in Injection(later, Dealt(n, m, r))
  <2> HIDE DEF later
  <2>1. back \in [later -> Dealt(n, m, r)]
    BY <1>6
  <2>2. \A i, j \in later : back[i] = back[j] => i = j
    BY <1>6
  <2> QED BY <2>1, <2>2 DEF Injection, IsInjective
<1>8. Cardinality(later) <= Cardinality(Dealt(n, m, r))
  BY <1>2, <1>7, FS_Injection
<1>9. Cardinality(Dealt(n, m, q)) <= Cardinality(Dealt(n, m, r)) + 1
  <2>1. PICK x \in Nat : x = Cardinality(Dealt(n, m, q))
    BY <1>2
  <2>2. PICK y \in Nat : y = Cardinality(Dealt(n, m, r))
    BY <1>2
  <2>3. x - 1 <= y
    BY <1>4, <1>8, <2>1, <2>2
  <2> QED BY <2>1, <2>2, <2>3
<1> QED BY <1>1, <1>3, <1>9

-----------------------------------------------------------------------------
(* Tuning.  Every family breeds because every family survives, and every   *)
(* family survives because the generation before it bred them all: that,   *)
(* and not the dealing, is what has to be carried along.                   *)

\* Families have a place and the elites leave them one: 120 individuals, of
\* which at most 30 are elites and 18 are immigrants, as the program is
\* configured by default, leave 72.
TuningHasRoom ==
    /\ Speciate /\ TuneKeepPerFamily >= 1
    /\ NumFamilies <= Population - EliteKeep * 3 - Immigrants

FamiliesIn(s) == {g.family : g \in Range(s)}

AllFamiliesLive ==
    gen < TuneGenerations =>
        /\ pc \in {"evaluate", "select"} => FamiliesIn(population) = Families
        /\ pc = "breed" => FamiliesIn(survivors) = Families

LEMMA FamiliesTyped ==
    ASSUME NEW s \in Seq(Genomes)
    PROVE  FamiliesIn(s) \subseteq Families
<1>1. Range(s) \in SUBSET Genomes
  BY RangeIs
<1> QED BY <1>1 DEF FamiliesIn, Genomes

\* The first of a family, in the order of the ranks, survives the tuning.
LEMMA FirstOfFamilySurvives ==
    ASSUME population \in Seq(Genomes), gen < TuneGenerations, TuneKeepPerFamily >= 1,
           NEW f \in FamiliesIn(population)
    PROVE  f \in FamiliesIn(Surviving)
<1> DEFINE kin == {i \in DOMAIN population : population[i].family = f}
           places == {i \in DOMAIN population : RankInFamily(population, i) <= TuneKeepPerFamily}
<1>1. kin \in SUBSET Int /\ IsFiniteSet(kin) /\ kin # {}
  <2>1. kin \in SUBSET DOMAIN population
    OBVIOUS
  <2>2. kin \in SUBSET Int /\ IsFiniteSet(kin)
    BY <2>1, PickedIs
  <2>3. kin # {}
    BY DEF FamiliesIn, Range
  <2> QED BY <2>2, <2>3
<1> HIDE DEF kin
<1>2. 1 \in 1 .. Cardinality(kin)
  <2>1. Cardinality(kin) \in Nat /\ Cardinality(kin) # 0
    BY <1>1, FS_CardinalityType, FS_EmptySet
  <2> QED BY <2>1
<1>3. PICK i \in kin : Cardinality(UpTo(kin, i)) = 1
  BY <1>1, <1>2, NthIs DEF RankOf
<1>4. RankInFamily(population, i) = 1
  <2>1. {j \in 1 .. i : population[j].family = population[i].family} = UpTo(kin, i)
    BY <1>3 DEF UpTo, kin
  <2> QED BY <1>3, <2>1 DEF RankInFamily
<1>5. i \in places /\ population[i].family = f
  BY <1>4, SizesAssumption DEF kin
<1>6. Surviving = Picked(population, places)
  BY DEF Surviving
<1>7. places \in SUBSET DOMAIN population
  OBVIOUS
<1> HIDE DEF places
<1>8. PICK k \in DOMAIN Picked(population, places) : Picked(population, places)[k] = population[i]
  BY <1>5, <1>7, PickedIs
<1> QED BY <1>5, <1>6, <1>8 DEF FamiliesIn, Range

\* The children of a tuning phase: dealt over all families in turn.
LEMMA ChildrenAreDealt ==
    ASSUME TuningHasRoom, survivors \in Seq(Genomes), FamiliesIn(survivors) = Families,
           NEW children \in Offspring
    PROVE  /\ Len(children) = Slots /\ Slots \in Nat /\ NumFamilies \in 1 .. Slots
           /\ \A f \in Families :
                 /\ RankOf(Families)[f] \in 1 .. NumFamilies
                 /\ {i \in 1 .. Slots : children[i].family = f}
                        = Dealt(Slots, NumFamilies, RankOf(Families)[f])
<1>1. NumFamilies \in Nat \ {0} /\ IsFiniteSet(Families) /\ Families \in SUBSET Int
      /\ Cardinality(Families) = NumFamilies
  BY FamiliesAre, FS_Interval DEF Families
<1>2. survivors # <<>>
  <2>1. CASE survivors = <<>>
    <3>1. FamiliesIn(survivors) = {}
      BY <2>1 DEF FamiliesIn, Range
    <3>2. 1 \in Families
      BY <1>1 DEF Families
    <3> QED BY <3>1, <3>2
  <2> QED BY <2>1
<1>3. PICK n \in Nat : n = Slots /\ NumFamilies \in 1 .. n
  <2>1. Len(Elites) \in Nat /\ Len(Elites) <= EliteKeep * 3 /\ Slots \in Int
        /\ Slots = Population - Len(Elites) - Immigrants
    BY ElitesAre DEF TuningHasRoom
  <2>2. NumFamilies <= Slots
    <3>1. NumFamilies \in Int /\ NumFamilies <= Population - EliteKeep * 3 - Immigrants
      BY <1>1 DEF TuningHasRoom
    <3>2. Population \in Int /\ EliteKeep \in Int /\ Immigrants \in Int
      BY SizesAssumption
    <3> QED BY <2>1, <3>1, <3>2
  <2> QED BY <1>1, <2>1, <2>2
<1>4. PICK families \in ParentFamilies : \A k \in 1 .. Slots : children[k].family = families[k]
  BY <1>2, <1>3, OffspringAre
<1>5. Len(children) = n
  BY <1>2, <1>3, OffspringAre
<1>6. Families = {g.family : g \in Range(survivors)}
  BY DEF FamiliesIn
<1>7. families = [k \in 1 .. n |-> Nth(Families, ((k - 1) % NumFamilies) + 1)]
  BY <1>1, <1>3, <1>6 DEF ParentFamilies, TuningHasRoom
<1>8. \A i \in 1 .. n : ((i - 1) % NumFamilies) + 1 \in 1 .. NumFamilies
  <2> SUFFICES ASSUME NEW i \in 1 .. n PROVE ((i - 1) % NumFamilies) + 1 \in 1 .. NumFamilies
    OBVIOUS
  <2>1. i - 1 \in Nat
    OBVIOUS
  <2>2. (i - 1) % NumFamilies \in 0 .. NumFamilies - 1
    BY <1>1, <2>1
  <2> QED BY <1>1, <2>2
<1>9. ASSUME NEW f \in Families
      PROVE  /\ RankOf(Families)[f] \in 1 .. NumFamilies
             /\ {i \in 1 .. n : children[i].family = f}
                    = Dealt(n, NumFamilies, RankOf(Families)[f])
  <2>1. RankOf(Families)[f] \in 1 .. NumFamilies /\ Nth(Families, RankOf(Families)[f]) = f
    BY <1>1, EachIsAnNth
  <2>2. ASSUME NEW i \in 1 .. n
        PROVE  children[i].family = f
                  <=> ((i - 1) % NumFamilies) + 1 = RankOf(Families)[f]
    <3>1. PICK k \in 1 .. NumFamilies : k = ((i - 1) % NumFamilies) + 1
      BY <1>8
    <3>2. children[i].family = Nth(Families, k)
      BY <1>3, <1>4, <1>7, <3>1
    <3>3. RankOf(Families)[Nth(Families, k)] = k
      BY <1>1, NthIs
    <3> QED BY <2>1, <3>1, <3>2, <3>3
  <2> QED BY <2>1, <2>2 DEF Dealt
<1> QED BY <1>3, <1>5, <1>9

LEMMA AllFamiliesInit == TournamentInit /\ SearchInv => AllFamiliesLive
<1> SUFFICES ASSUME TournamentInit, SearchInv PROVE AllFamiliesLive
  OBVIOUS
<1>1. PICK m \in Nat : m = NumFamilies * SeedsPerFamily
  BY FamiliesAre, SizesAssumption
<1>2. PICK n \in Nat \ {0} : n = NumFamilies * (1 + SeedsPerFamily) /\ NumFamilies \in 1 .. n
  <2>1. NumFamilies * (1 + SeedsPerFamily) = NumFamilies + m
    BY <1>1, FamiliesAre, SizesAssumption
  <2> QED BY <1>1, <2>1, FamiliesAre
<1>3. PICK seeds \in [1 .. n -> Genomes] :
          /\ \A i \in 1 .. NumFamilies : seeds[i].family = i
          /\ \E rest \in Filler(Len(seeds)) : population = seeds \o rest
  <2>1. PICK seeds \in [1 .. n -> Genomes] :
          /\ \A i \in DOMAIN seeds :
                IF i <= NumFamilies THEN seeds[i].family = i
                ELSE seeds[i].family = ((i - NumFamilies - 1) \div SeedsPerFamily) + 1
          /\ \E rest \in Filler(Len(seeds)) : population = seeds \o rest
    BY <1>2 DEF TournamentInit
  <2>2. \A i \in 1 .. NumFamilies : i \in DOMAIN seeds /\ i <= NumFamilies
    BY <1>2
  <2> QED BY <2>1, <2>2
<1>4. seeds \in Seq(Genomes) /\ Len(seeds) = n
  BY IsSeq
<1>5. PICK rest \in Seq(Genomes) : population = seeds \o rest
  BY <1>3, <1>4, FillerIs
<1>6. ASSUME NEW f \in Families PROVE f \in FamiliesIn(population)
  <2>1. f \in 1 .. n /\ seeds[f].family = f
    BY <1>2, <1>3 DEF Families
  <2>2. PICK s \in Seq(Genomes) : s = seeds
    BY <1>4
  <2>3. f \in 1 .. Len(s \o rest) /\ (s \o rest)[f] = s[f]
    <3>1. Len(s \o rest) = Len(s) + Len(rest) /\ \A i \in 1 .. Len(s) : (s \o rest)[i] = s[i]
      BY JoinedIs
    <3> QED BY <1>4, <2>1, <2>2, <3>1
  <2>4. f \in DOMAIN population /\ population[f].family = f
    BY <1>5, <2>1, <2>2, <2>3
  <2> QED BY <2>4 DEF FamiliesIn, Range
<1>7. population \in Seq(Genomes)
  BY DEF SearchInv, TournamentTypeOK
<1>8. FamiliesIn(population) = Families
  BY <1>6, <1>7, FamiliesTyped
<1> QED BY <1>8 DEF AllFamiliesLive, TournamentInit

LEMMA AllFamiliesStep ==
    TuningHasRoom /\ SearchInv /\ AllFamiliesLive /\ [TournamentNext]_tournamentVars
        => AllFamiliesLive'
<1> SUFFICES ASSUME TuningHasRoom, SearchInv, AllFamiliesLive, [TournamentNext]_tournamentVars
             PROVE  AllFamiliesLive'
  OBVIOUS
<1>0. population \in Seq(Genomes) /\ survivors \in Seq(Genomes) /\ gen \in Nat
  BY DEF SearchInv, TournamentTypeOK
<1>1. CASE Evaluate
  <2>1. population' \in Rankings(population) /\ pc' = "select" /\ pc = "evaluate" /\ gen' = gen
    BY <1>1 DEF Evaluate
  <2>2. PICK q : q = population'
    OBVIOUS
  <2>3. Range(q) = Range(population)
    BY <1>0, <2>1, <2>2, RankingIs
  <2>4. FamiliesIn(q) = FamiliesIn(population)
    BY <2>3 DEF FamiliesIn
  <2>5. FamiliesIn(population') = FamiliesIn(population)
    BY <2>2, <2>4
  <2> QED BY <2>1, <2>5 DEF AllFamiliesLive
<1>2. CASE Select
  <2>1. survivors' = Surviving /\ gen' = gen /\ pc = "select" /\ population' = population
        /\ pc' \in {"breed", "done"}
    BY <1>2 DEF Select
  <2>2. survivors' \in Seq(Genomes)
    BY <1>2, SelectKeeps DEF SearchInv, TournamentTypeOK
  <2>3. ASSUME gen < TuneGenerations PROVE FamiliesIn(Surviving) = Families
    <3>1. FamiliesIn(population) = Families
      BY <2>1, <2>3 DEF AllFamiliesLive
    <3>2. Families \subseteq FamiliesIn(Surviving)
      BY <1>0, <2>3, <3>1, FirstOfFamilySurvives DEF TuningHasRoom
    <3>3. FamiliesIn(Surviving) \subseteq Families
      BY <2>1, <2>2, FamiliesTyped
    <3> QED BY <3>2, <3>3
  <2>4. FamiliesIn(survivors') = FamiliesIn(Surviving)
    BY <2>1
  <2> QED BY <2>1, <2>3, <2>4 DEF AllFamiliesLive
<1>3. CASE Breed
  <2>1. pc = "breed" /\ gen' = gen + 1 /\ pc' = "evaluate"
    BY <1>3 DEF Breed
  <2>2. ASSUME gen + 1 < TuneGenerations PROVE FamiliesIn(population') = Families
    <3>1. FamiliesIn(survivors) = Families
      BY <1>0, <2>1, <2>2, SizesAssumption DEF AllFamiliesLive
    <3>2. PICK children \in Offspring : \E rest \in Filler(Len(Elites \o children)) :
              population' = Elites \o children \o rest
      BY <1>3 DEF Breed
    <3>3. PICK rest \in Filler(Len(Elites \o children)) : population' = Elites \o children \o rest
      BY <3>2
    <3>4. PICK bred : bred = Elites \o children \o rest
      OBVIOUS
    <3>5. /\ bred \in Seq(Genomes)
          /\ \A i \in 1 .. Len(children) : bred[Len(Elites) + i] = children[i]
      BY <1>0, <3>4, BredIs
    <3>6. ASSUME NEW f \in Families PROVE f \in FamiliesIn(bred)
      <4>1. PICK i \in 1 .. Slots : children[i].family = f
        <5>1. PICK r \in 1 .. NumFamilies :
                  {i \in 1 .. Slots : children[i].family = f} = Dealt(Slots, NumFamilies, r)
          BY <1>0, <3>1, ChildrenAreDealt
        <5>2. Slots \in Nat /\ NumFamilies \in 1 .. Slots
          BY <1>0, <3>1, ChildrenAreDealt
        <5>3. r \in Dealt(Slots, NumFamilies, r)
          BY <5>2, DealtEvenly
        <5> QED BY <5>1, <5>3
      <4>2. Len(children) = Slots
        BY <1>0, <3>1, ChildrenAreDealt
      <4>3. bred[Len(Elites) + i].family = f
        BY <3>5, <4>1, <4>2
      <4>4. Len(Elites) + i \in DOMAIN bred
        <5>1. PICK e \in Seq(Genomes) : e = Elites
          BY <1>0, ElitesAre
        <5>2. PICK c \in Seq(Genomes) : c = children
          BY <1>0, OffspringAre
        <5>3. PICK g \in Seq(Genomes) : g = rest
          BY <5>1, <5>2, JoinedIs, FillerIs
        <5>4. Len(e \o c \o g) = Len(e) + Len(c) + Len(g)
          BY JoinedIs
        <5>5. Len(e) \in Nat /\ Len(g) \in Nat /\ i \in 1 .. Len(c)
          BY <4>1, <4>2, <5>2
        <5>6. Len(e) + i \in 1 .. Len(e \o c \o g)
          BY <5>4, <5>5
        <5>7. bred = e \o c \o g
          BY <3>4, <5>1, <5>2, <5>3
        <5> QED BY <3>5, <5>1, <5>6, <5>7
      <4> QED BY <4>3, <4>4 DEF FamiliesIn, Range
    <3>7. FamiliesIn(bred) = Families
      BY <3>5, <3>6, FamiliesTyped
    <3> QED BY <3>3, <3>4, <3>7
  <2> QED BY <2>1, <2>2 DEF AllFamiliesLive
<1>4. CASE Done \/ UNCHANGED tournamentVars
  BY <1>4 DEF Done, tournamentVars, AllFamiliesLive
<1> QED BY <1>1, <1>2, <1>3, <1>4 DEF TournamentNext

(* "Every idea gets the same budget": in every generation of the tuning    *)
(* phase every family ever seen breeds, and any two get as many children   *)
(* as each other or one more, for any number of families that have room.   *)
THEOREM TuningDealsFairly == TuningHasRoom /\ TournamentSpec => TuningIsFair
<1>1. CASE TuningHasRoom
  <2>1. TournamentInit => SearchInv /\ AllFamiliesLive
    BY SearchInvInit, AllFamiliesInit
  <2>2. (SearchInv /\ AllFamiliesLive) /\ [TournamentNext]_tournamentVars
            => (SearchInv /\ AllFamiliesLive)'
    BY <1>1, SearchInvStep, AllFamiliesStep
  <2>3. (SearchInv /\ AllFamiliesLive) /\ [TournamentNext]_tournamentVars =>
          [pc = "breed" /\ gen < TuneGenerations =>
            LET born == SubSeq(population', Len(Elites) + 1, Len(Elites) + Slots)
                OfFamily(f) == Cardinality({i \in DOMAIN born : born[i].family = f})
                seen == {g.family : g \in best}
            IN  \A f, h \in seen : OfFamily(f) >= 1 /\ OfFamily(h) <= OfFamily(f) + 1]_tournamentVars
    <3> SUFFICES ASSUME SearchInv, AllFamiliesLive, TournamentNext, pc = "breed", gen < TuneGenerations,
                        NEW f \in {g.family : g \in best}, NEW h \in {g.family : g \in best}
                 PROVE  LET born == SubSeq(population', Len(Elites) + 1, Len(Elites) + Slots)
                            OfFamily(x) == Cardinality({i \in DOMAIN born : born[i].family = x})
                        IN  OfFamily(f) >= 1 /\ OfFamily(h) <= OfFamily(f) + 1
      BY Zenon
    <3>1. survivors \in Seq(Genomes) /\ best \subseteq Genomes
      BY DEF SearchInv, TournamentTypeOK
    <3>2. FamiliesIn(survivors) = Families
      BY DEF AllFamiliesLive
    <3>3. Breed
      BY DEF TournamentNext, Evaluate, Select, Done
    <3>4. PICK children \in Offspring : \E rest \in Filler(Len(Elites \o children)) :
              population' = Elites \o children \o rest
      BY <3>3 DEF Breed
    <3>5. Len(children) = Slots /\ Slots \in Nat /\ NumFamilies \in 1 .. Slots
      BY <1>1, <3>1, <3>2, ChildrenAreDealt
    <3>6. SubSeq(population', Len(Elites) + 1, Len(Elites) + Slots) = children
      BY <3>1, <3>4, <3>5, BredIs
    <3>7. DOMAIN children = 1 .. Slots
      BY <3>1, <3>5, OffspringAre
    <3>8. f \in Families /\ h \in Families
      BY <3>1 DEF Genomes
    <3>9. PICK r \in 1 .. NumFamilies :
            {i \in 1 .. Slots : children[i].family = f} = Dealt(Slots, NumFamilies, r)
      BY <1>1, <3>1, <3>2, <3>8, ChildrenAreDealt
    <3>10. PICK q \in 1 .. NumFamilies :
            {i \in 1 .. Slots : children[i].family = h} = Dealt(Slots, NumFamilies, q)
      BY <1>1, <3>1, <3>2, <3>8, ChildrenAreDealt
    <3>11. /\ Cardinality(Dealt(Slots, NumFamilies, r)) >= 1
           /\ Cardinality(Dealt(Slots, NumFamilies, q)) <= Cardinality(Dealt(Slots, NumFamilies, r)) + 1
      BY <3>5, DealtEvenly
    <3> QED BY <3>6, <3>7, <3>9, <3>10, <3>11
  <2> QED BY <2>1, <2>2, <2>3, PTL DEF TournamentSpec, TuningIsFair
<1>2. CASE ~TuningHasRoom
  BY <1>2
<1> QED BY <1>1, <1>2

-----------------------------------------------------------------------------
(* The backtest.                                                           *)

USE BacktestAssumption DEF BacktestAssumption

(* What a division of naturals yields.                                     *)
LEMMA Division ==
    ASSUME NEW x \in Nat, NEW d \in Nat \ {0}
    PROVE  /\ x \div d \in Nat
           /\ (x \div d) * d <= x
  <1>1. /\ x = d * (x \div d) + (x % d)
        /\ x % d \in 0..(d - 1)
        /\ x \div d \in Int
    OBVIOUS
  <1>2. x \div d \in Nat
    OBVIOUS
  <1> QED BY <1>1, <1>2

(* A fee is part of the amount it is charged on.                           *)
LEMMA FeeIsPart ==
    ASSUME NEW x \in Nat
    PROVE  Fee(x) \in Nat /\ Fee(x) <= x /\ Fee(x) * 100 <= x * FeePct
  <1> DEFINE y == x * FeePct
  <1>1. y \in Nat /\ y <= x * 100
    OBVIOUS
  <1>2. y \div 100 \in Nat /\ (y \div 100) * 100 <= y
    <2> HIDE DEF y
    <2> QED BY <1>1, Division
  <1>3. Fee(x) = y \div 100
    BY DEF Fee
  <1> HIDE DEF y
  <1>4. Fee(x) <= x
    BY <1>1, <1>2, <1>3
  <1> QED BY <1>2, <1>3, <1>4 DEF y

(* A purchase and its fee fit into the budget.                             *)
LEMMA BudgetCovers ==
    ASSUME NEW b \in Nat
    PROVE  Gross(b) \in Nat /\ Gross(b) + Fee(Gross(b)) <= b
  <1> DEFINE g == Gross(b)
  <1>1. b * 100 \in Nat /\ 100 + FeePct \in Nat \ {0}
    OBVIOUS
  <1>2. g \in Nat /\ g * (100 + FeePct) <= b * 100
    BY <1>1, Division DEF Gross
  <1>3. g * (100 + FeePct) = g * 100 + g * FeePct
    BY <1>2
  <1>4. Fee(g) \in Nat /\ Fee(g) * 100 <= g * FeePct
    BY <1>2, FeeIsPart
  <1>5. g * FeePct \in Nat
    BY <1>2
  <1> HIDE DEF g
  <1>6. g + Fee(g) <= b
    BY <1>2, <1>3, <1>4, <1>5
  <1> QED BY <1>2, <1>6 DEF g

(* Slippage leaves a price.                                                *)
LEMMA FillsArePrices ==
    ASSUME NEW price \in Prices
    PROVE  BuyFill(price) \in Nat \ {0} /\ SellFill(price) \in Nat \ {0}
  <1> DEFINE y == price * SlippagePct
  <1>1. price \in Nat \ {0} /\ y \in Nat /\ y < price * 100
    OBVIOUS
  <1>2. y \div 100 \in Nat /\ (y \div 100) * 100 <= y
    <2> HIDE DEF y
    <2> QED BY <1>1, Division
  <1>3. BuyFill(price) = price + y \div 100 /\ SellFill(price) = price - y \div 100
    BY DEF BuyFill, SellFill
  <1> HIDE DEF y
  <1> QED BY <1>1, <1>2, <1>3
-----------------------------------------------------------------------------
(* The books of an account with this much funding charged to it.           *)

Explained(a, funding) ==
    a.resizes = 0 =>
        /\ a.cash + a.side * a.outlay = StartingEquity + a.pnl - funding
        /\ a.totalFees = a.tradeFees + a.fee

Sound(a, funding) ==
    /\ a \in Account
    /\ a.side = 0 => a.fee = 0
    /\ Explained(a, funding)

Solvent(a) == a.side \in {0, 1} /\ a.cash >= 0

(* An account is one whatever is written to its fields.                    *)
LEMMA Updated ==
    ASSUME NEW a \in Account, NEW b,
           b.cash \in Int, b.units \in Nat, b.side \in {-1, 0, 1},
           b.outlay \in Int, b.fee \in Int, b.totalFees \in Int,
           \/ b = [a EXCEPT !.cash = b.cash, !.units = b.units, !.side = b.side,
                            !.outlay = b.outlay, !.fee = b.fee,
                            !.totalFees = b.totalFees]
           \/ /\ b = [a EXCEPT !.cash = b.cash, !.units = b.units, !.side = b.side,
                               !.outlay = b.outlay, !.fee = b.fee, !.pnl = b.pnl,
                               !.tradeFees = b.tradeFees,
                               !.totalFees = b.totalFees, !.resizes = b.resizes]
              /\ b.pnl \in Int /\ b.tradeFees \in Int /\ b.resizes \in Nat
    PROVE  b \in Account
  BY DEF Account

(* An entry ties up what it takes from the cash, with its fee.             *)
LEMMA PositionSound ==
    ASSUME NEW a, NEW funding \in Int, Sound(a, funding), a.side = 0,
           NEW want \in {-1, 1}, NEW price \in Prices, NEW f \in 0..MaxPosition,
           CanEnter(a, want, price, f)
    PROVE  /\ Sound(Position(a, want, price, f), funding)
           /\ Solvent(a) /\ want = 1 => Solvent(Position(a, want, price, f))
  <1> DEFINE budget == Least(a.cash, (a.cash * f) \div 100)
             gross == IF want > 0 THEN Gross(budget) ELSE budget
             fee == Fee(gross)
             b == Position(a, want, price, f)
  <1>1. a \in Account /\ a.cash \in Int /\ a.totalFees \in Int
    BY DEF Sound, Account
  <1>2. budget \in Int /\ gross \in Int /\ fee \in Int
    <2>1. (a.cash * f) \in Int
      BY <1>1
    <2>2. budget \in Int
      BY <1>1, <2>1 DEF Least
    <2> HIDE DEF budget
    <2>3. Gross(budget) \in Int
      BY <2>2 DEF Gross
    <2>4. gross \in Int
      BY <2>2, <2>3
    <2> HIDE DEF gross
    <2>5. fee \in Int
      BY <2>4 DEF Fee
    <2> QED BY <2>2, <2>4, <2>5
  <1>3. /\ b = [a EXCEPT !.cash = @ - want * (gross + want * fee),
                         !.units = gross \div (IF want > 0 THEN BuyFill(price)
                                                           ELSE SellFill(price)),
                         !.side = want,
                         !.outlay = gross + want * fee,
                         !.fee = fee,
                         !.totalFees = @ + fee]
        /\ b.units > 0
    BY DEF Position, CanEnter
  <1>4. Solvent(a) /\ want = 1 => gross + fee <= a.cash
    <2> SUFFICES ASSUME Solvent(a), want = 1
                 PROVE  gross + fee <= a.cash
      OBVIOUS
    <2>1. a.cash \in Nat /\ a.cash * f \in Nat
      BY <1>1 DEF Solvent
    <2>2. budget \in Nat /\ budget <= a.cash
      BY <2>1, Division DEF Least
    <2> HIDE DEF budget
    <2>3. gross = Gross(budget)
      OBVIOUS
    <2>4. Gross(budget) + Fee(Gross(budget)) <= budget /\ budget \in Nat
      BY <2>2, BudgetCovers
    <2> HIDE DEF gross
    <2>5. gross + fee <= budget
      BY <2>3, <2>4
    <2> HIDE DEF fee
    <2> QED BY <1>1, <1>2, <2>2, <2>5
  <1> HIDE DEF gross, fee, budget
  <1>5. b.units \in Nat
    <2>1. gross \div (IF want > 0 THEN BuyFill(price) ELSE SellFill(price)) \in Int
      BY <1>2, FillsArePrices
    <2> QED BY <1>1, <1>3, <2>1 DEF Account
  <1>6. want * (gross + want * fee) \in Int /\ gross + want * fee \in Int
    BY <1>2
  <1>8. /\ b.cash = a.cash - want * (gross + want * fee)
        /\ b.side = want /\ b.outlay = gross + want * fee
        /\ b.fee = fee /\ b.totalFees = a.totalFees + fee
        /\ b.pnl = a.pnl /\ b.tradeFees = a.tradeFees /\ b.resizes = a.resizes
    <2>1. b.cash = a.cash - want * (gross + want * fee) /\ b.side = want
      BY <1>1, <1>3 DEF Account
    <2>2. b.outlay = gross + want * fee /\ b.fee = fee /\ b.totalFees = a.totalFees + fee
      BY <1>1, <1>3 DEF Account
    <2>3. b.pnl = a.pnl /\ b.tradeFees = a.tradeFees /\ b.resizes = a.resizes
      BY SMTT(30), <1>1, <1>3 DEF Account
    <2> QED BY <2>1, <2>2, <2>3
  <1>7. b \in Account
    <2>1. b = [a EXCEPT !.cash = b.cash, !.units = b.units, !.side = b.side,
                        !.outlay = b.outlay, !.fee = b.fee,
                        !.totalFees = b.totalFees]
      BY <1>1, <1>3 DEF Account
    <2>2. b.cash \in Int /\ b.outlay \in Int /\ b.fee \in Int /\ b.totalFees \in Int
      BY <1>1, <1>2, <1>6, <1>8 DEF Account
    <2> HIDE DEF b
    <2> QED BY <1>1, <1>5, <1>8, <2>1, <2>2, Updated
  <1> HIDE DEF b
  <1>9. Explained(b, funding)
    <2>1. CASE want = 1
      BY <1>1, <1>2, <1>8, <2>1 DEF Sound, Explained, Account
    <2>2. CASE want = -1
      BY <1>1, <1>2, <1>8, <2>2 DEF Sound, Explained, Account
    <2> QED BY <2>1, <2>2
  <1>10. Solvent(a) /\ want = 1 => Solvent(b)
    BY <1>1, <1>2, <1>4, <1>8 DEF Solvent
  <1> QED BY <1>7, <1>8, <1>9, <1>10 DEF Sound, b

(* An exit records what the account gained or lost by the trade.           *)
LEMMA ExitSound ==
    ASSUME NEW a, NEW funding \in Int, Sound(a, funding), NEW price \in Prices
    PROVE  /\ Sound(Exit(a, price), funding)
           /\ Exit(a, price).side = 0
           /\ Solvent(a) => Solvent(Exit(a, price))
  <1> DEFINE fill == IF a.side > 0 THEN SellFill(price) ELSE BuyFill(price)
             amount == a.units * fill
             fee == Fee(amount)
             b == Exit(a, price)
  <1>1. a \in Account
    BY DEF Sound
  <1>2. amount \in Nat
    BY <1>1, FillsArePrices DEF Account
  <1>3. b = IF a.side = 0 THEN a
            ELSE [a EXCEPT !.cash = @ + (a.side * amount - fee),
                           !.units = 0, !.side = 0, !.outlay = 0, !.fee = 0,
                           !.pnl = @ + (a.side * amount - fee) - a.side * a.outlay,
                           !.tradeFees = @ + a.fee + fee,
                           !.totalFees = @ + fee]
    BY <1>1 DEF Exit, Account
  <1> HIDE DEF amount
  <1>4. fee \in Nat /\ fee <= amount
    BY <1>2, FeeIsPart
  <1> HIDE DEF fee
  <1>5. CASE a.side = 0
    BY <1>3, <1>5
  <1>6. CASE a.side # 0
    <2>1. /\ b.cash = a.cash + (a.side * amount - fee)
          /\ b.units = 0 /\ b.side = 0 /\ b.outlay = 0 /\ b.fee = 0
          /\ b.pnl = a.pnl + (a.side * amount - fee) - a.side * a.outlay
          /\ b.tradeFees = a.tradeFees + a.fee + fee
          /\ b.totalFees = a.totalFees + fee /\ b.resizes = a.resizes
      <3>1. b.cash = a.cash + (a.side * amount - fee) /\ b.units = 0 /\ b.side = 0
        BY <1>1, <1>3, <1>6 DEF Account
      <3>2. b.outlay = 0 /\ b.fee = 0 /\ b.pnl = a.pnl + (a.side * amount - fee) - a.side * a.outlay
        BY <1>1, <1>3, <1>6 DEF Account
      <3>3. /\ b.tradeFees = a.tradeFees + a.fee + fee
            /\ b.totalFees = a.totalFees + fee /\ b.resizes = a.resizes
        BY <1>1, <1>3, <1>6 DEF Account
      <3> QED BY <3>1, <3>2, <3>3
    <2>2. a.side * amount \in Int /\ a.side * a.outlay \in Int
      BY SMTT(30), <1>1, <1>2 DEF Account
    <2>3. b \in Account
      <3>1. b = [a EXCEPT !.cash = b.cash, !.units = b.units, !.side = b.side,
                          !.outlay = b.outlay, !.fee = b.fee, !.pnl = b.pnl,
                          !.tradeFees = b.tradeFees, !.totalFees = b.totalFees,
                          !.resizes = b.resizes]
        BY <1>1, <1>3, <1>6 DEF Account
      <3>2. /\ b.cash \in Int /\ b.pnl \in Int /\ b.tradeFees \in Int
            /\ b.totalFees \in Int /\ b.resizes \in Nat
            /\ b.units \in Nat /\ b.side \in {-1, 0, 1}
            /\ b.outlay \in Int /\ b.fee \in Int
        BY <1>1, <1>2, <1>4, <2>1, <2>2 DEF Account
      <3> HIDE DEF b
      <3> QED BY <1>1, <3>1, <3>2, Updated
    <2> HIDE DEF b
    <2>4. Explained(b, funding)
      BY <1>1, <1>4, <2>1, <2>2 DEF Sound, Explained, Account
    <2>5. Solvent(a) => Solvent(b)
      BY <1>1, <1>2, <1>4, <1>6, <2>1 DEF Solvent, Account
    <2> QED BY <2>1, <2>3, <2>4, <2>5 DEF Sound, b
  <1> QED BY <1>5, <1>6

LEMMA EnterSound ==
    ASSUME NEW a, NEW funding \in Int, Sound(a, funding),
           NEW want \in {-1, 1}, NEW price \in Prices, NEW f \in 0..MaxPosition
    PROVE  /\ Sound(Enter(a, want, price, f), funding)
           /\ Solvent(a) /\ want = 1 => Solvent(Enter(a, want, price, f))
  <1>1. CASE a.side = 0 /\ CanEnter(a, want, price, f)
    BY <1>1, PositionSound DEF Enter
  <1>2. CASE ~(a.side = 0 /\ CanEnter(a, want, price, f))
    BY <1>2 DEF Enter
  <1> QED BY <1>1, <1>2

(* A signal, executed.                                                     *)
LEMMA ExecuteSound ==
    ASSUME NEW funding \in Int, Sound(account, funding), config \in Config,
           NEW signal \in Signals, NEW price \in Prices, NEW f \in 0..MaxPosition
    PROVE  /\ Sound(Execute(signal, price, f), funding)
           /\ Solvent(account) /\ ~config.allowShort
                => Solvent(Execute(signal, price, f))
  <1> DEFINE b == Execute(signal, price, f)
  <1>1. CASE signal = "Hold"
    BY <1>1 DEF Execute
  <1>2. CASE signal # "Hold" /\ config.allowShort
    <2>1. Side(signal) \in {-1, 1}
      BY DEF Side
    <2>2. b = Turn(account, Side(signal), price, f)
      BY <1>2 DEF Execute, Signals
    <2> HIDE DEF b
    <2> DEFINE c == Exit(account, price)
    <2>3. Sound(c, funding)
      BY ExitSound
    <2> HIDE DEF c
    <2>4. Sound(Enter(c, Side(signal), price, f), funding)
      BY <2>1, <2>3, EnterSound
    <2>5. Sound(b, funding)
      BY <2>2, <2>4 DEF Turn, c
    <2> QED BY <1>2, <2>5 DEF b
  <1>3. CASE signal = "Buy" /\ ~config.allowShort
    <2>1. b = Enter(account, 1, price, f)
      BY <1>3 DEF Execute
    <2> HIDE DEF b
    <2>2. /\ Sound(b, funding)
          /\ Solvent(account) => Solvent(b)
      BY <2>1, EnterSound
    <2> QED BY <2>2 DEF b
  <1>4. CASE signal = "Sell" /\ ~config.allowShort
    <2>1. b = Exit(account, price)
      BY <1>4 DEF Execute
    <2> HIDE DEF b
    <2>2. /\ Sound(b, funding)
          /\ Solvent(account) => Solvent(b)
      BY <2>1, ExitSound
    <2> QED BY <2>2 DEF b
  <1> QED BY <1>1, <1>2, <1>3, <1>4 DEF Signals

(* Selling a slice of an open long.                                        *)
LEMMA TrimSound ==
    ASSUME NEW a \in Account, Solvent(a), a.side = 1, NEW price \in Prices,
           NEW n \in Nat \ {0}, n <= a.units
    PROVE  /\ Trim(a, n, price) \in Account
           /\ Solvent(Trim(a, n, price))
           /\ Trim(a, n, price).side = 1
           /\ Trim(a, n, price).resizes > 0
  <1> DEFINE amount == n * SellFill(price)
             fee == Fee(amount)
             outlay == (a.outlay * (a.units - n)) \div a.units
             left == (a.fee * (a.units - n)) \div a.units
             b == Trim(a, n, price)
  <1>1. amount \in Nat
    BY FillsArePrices
  <1>2. outlay \in Int /\ left \in Int
    <2>1. a.units \in Nat \ {0} /\ a.outlay \in Int /\ a.fee \in Int
      BY DEF Account
    <2>2. a.outlay * (a.units - n) \in Int /\ a.fee * (a.units - n) \in Int
      BY <2>1
    <2> QED BY <2>1, <2>2
  <1>3. b = [a EXCEPT !.cash = @ + amount - fee, !.units = @ - n,
                      !.outlay = outlay, !.fee = left,
                      !.totalFees = @ + fee, !.resizes = @ + 1]
    BY DEF Trim, Account
  <1> HIDE DEF outlay, left
  <1>4. fee \in Nat /\ fee <= amount
    <2> HIDE DEF amount
    <2> QED BY <1>1, FeeIsPart
  <1> HIDE DEF amount, fee, b
  <1>5. /\ b.cash = a.cash + amount - fee /\ b.units = a.units - n
        /\ b.outlay = outlay /\ b.fee = left
        /\ b.totalFees = a.totalFees + fee /\ b.resizes = a.resizes + 1
        /\ b.side = 1 /\ b.pnl = a.pnl /\ b.tradeFees = a.tradeFees
    BY <1>3 DEF Account
  <1>6. b = [a EXCEPT !.cash = b.cash, !.units = b.units, !.side = b.side,
                        !.outlay = b.outlay, !.fee = b.fee, !.pnl = b.pnl,
                        !.tradeFees = b.tradeFees, !.totalFees = b.totalFees,
                        !.resizes = b.resizes]
    BY ZenonT(60), <1>3, <1>5 DEF Account
  <1>7. /\ b.cash \in Int /\ b.cash >= 0 /\ b.units \in Nat
        /\ b.outlay \in Int /\ b.fee \in Int /\ b.totalFees \in Int
        /\ b.resizes \in Nat /\ b.resizes > 0
        /\ b.pnl \in Int /\ b.tradeFees \in Int /\ b.side \in {-1, 0, 1}
    BY <1>1, <1>2, <1>4, <1>5 DEF Account, Solvent
  <1>8. b \in Account
    BY <1>6, <1>7, Updated
  <1> QED BY <1>5, <1>7, <1>8 DEF Solvent, b

(* Buying for part of the cash.                                            *)
LEMMA TopUpSound ==
    ASSUME NEW a \in Account, Solvent(a), a.side = 1, NEW price \in Prices,
           NEW budget \in Int, budget <= a.cash, Gross(budget) > 0
    PROVE  /\ TopUp(a, budget, price) \in Account
           /\ Solvent(TopUp(a, budget, price))
           /\ TopUp(a, budget, price).side = 1
           /\ TopUp(a, budget, price).resizes > 0
  <1> DEFINE gross == Gross(budget)
             fee == Fee(gross)
             bought == gross \div BuyFill(price)
             b == TopUp(a, budget, price)
  <1>1. budget \in Nat
    <2> SUFFICES ASSUME budget < 0 PROVE FALSE
      OBVIOUS
    <2>1. Gross(budget) <= 0
      BY DEF Gross
    <2>2. Gross(budget) \in Int
      BY DEF Gross
    <2> QED BY <2>1, <2>2
  <1>2. gross \in Nat /\ fee \in Nat /\ gross + fee <= budget
    BY <1>1, BudgetCovers, FeeIsPart
  <1>3. b = [a EXCEPT !.cash = @ - gross - fee, !.units = @ + bought,
                      !.outlay = @ + gross + fee, !.fee = @ + fee,
                      !.totalFees = @ + fee, !.resizes = @ + 1]
    BY DEF TopUp, Account
  <1> HIDE DEF gross
  <1>4. bought \in Nat
    BY <1>2, FillsArePrices, Division
  <1> HIDE DEF fee, bought, b
  <1>5. /\ b.cash = a.cash - gross - fee /\ b.units = a.units + bought
        /\ b.outlay = a.outlay + gross + fee /\ b.fee = a.fee + fee
        /\ b.totalFees = a.totalFees + fee /\ b.resizes = a.resizes + 1
        /\ b.side = 1 /\ b.pnl = a.pnl /\ b.tradeFees = a.tradeFees
    BY <1>3 DEF Account
  <1>6. b = [a EXCEPT !.cash = b.cash, !.units = b.units, !.side = b.side,
                        !.outlay = b.outlay, !.fee = b.fee, !.pnl = b.pnl,
                        !.tradeFees = b.tradeFees, !.totalFees = b.totalFees,
                        !.resizes = b.resizes]
    BY ZenonT(60), <1>3, <1>5 DEF Account
  <1>7. /\ b.cash \in Int /\ b.cash >= 0 /\ b.units \in Nat
        /\ b.outlay \in Int /\ b.fee \in Int /\ b.totalFees \in Int
        /\ b.resizes \in Nat /\ b.resizes > 0
        /\ b.pnl \in Int /\ b.tradeFees \in Int /\ b.side \in {-1, 0, 1}
    BY <1>2, <1>4, <1>5 DEF Account, Solvent
  <1>8. b \in Account
    BY <1>6, <1>7, Updated
  <1> QED BY <1>5, <1>7, <1>8 DEF Solvent, b

(* A resize keeps a long/flat account, whatever the open.                  *)
LEMMA ResizeSound ==
    ASSUME NEW funding \in Int, Sound(account, funding), Solvent(account),
           resize.target \in 0..MaxPosition, NEW price \in Prices
    PROVE  /\ Sound(Resize(account, price), funding)
           /\ Solvent(Resize(account, price))
  <1> DEFINE value == account.units * price
             target == (resize.target * (account.cash + value)) \div 100
             excess == (value - target) \div price
             budget == Least(account.cash, target - value)
  <1>1. account \in Account /\ value \in Nat /\ price \in Nat \ {0}
    BY DEF Sound, Account
  <1>2. target \in Nat
    <2>1. account.cash + value \in Nat
      BY <1>1 DEF Solvent, Account
    <2>2. resize.target * (account.cash + value) \in Nat
      BY <2>1
    <2> QED BY <2>2, Division
  <1>3. value > target => excess \in Nat /\ excess <= account.units
    <2> SUFFICES ASSUME value > target
                 PROVE  excess \in Nat /\ excess <= account.units
      OBVIOUS
    <2>1. excess \in Nat /\ excess * price <= value - target
      <3>1. value - target \in Nat
        BY <1>1, <1>2
      <3> HIDE DEF value, target
      <3> QED BY <1>1, <3>1, Division
    <2> HIDE DEF excess, target
    <2>2. excess * price <= account.units * price
      BY <1>1, <1>2, <2>1
    <2>3. account.units \in Nat
      BY <1>1 DEF Account
    <2> QED BY <1>1, <2>1, <2>2, <2>3
  <1>4. budget \in Int /\ budget <= account.cash
    <2> HIDE DEF target, value
    <2> QED BY <1>1, <1>2 DEF Least, Account
  <1>5. Resize(account, price) =
          IF account.side = 0 \/ resize.sellDown # (value > target) THEN account
          ELSE IF value > target
          THEN IF excess > 0 THEN Trim(account, excess, price) ELSE account
          ELSE IF Gross(budget) > 0 THEN TopUp(account, budget, price) ELSE account
    BY DEF Resize
  <1> HIDE DEF value, target, excess, budget
  <1>6. CASE account.side = 1 /\ value > target /\ excess > 0
    <2>1. excess \in Nat \ {0} /\ excess <= account.units
      BY <1>3, <1>6
    <2> DEFINE b == Trim(account, excess, price)
    <2>2. b \in Account /\ Solvent(b) /\ b.side = 1 /\ b.resizes > 0
      BY <1>1, <1>6, <2>1, TrimSound
    <2>3. Resize(account, price) \in {account, b}
      BY <1>5, <1>6
    <2> HIDE DEF b
    <2> QED BY <2>2, <2>3 DEF Sound, Explained
  <1>7. CASE account.side = 1 /\ ~(value > target) /\ Gross(budget) > 0
    <2> DEFINE b == TopUp(account, budget, price)
    <2>2. b \in Account /\ Solvent(b) /\ b.side = 1 /\ b.resizes > 0
      BY <1>1, <1>4, <1>7, TopUpSound
    <2>3. Resize(account, price) \in {account, b}
      BY <1>5, <1>7
    <2> HIDE DEF b
    <2> QED BY <2>2, <2>3 DEF Sound, Explained
  <1>8. CASE ~(account.side = 1 /\ value > target /\ excess > 0)
             /\ ~(account.side = 1 /\ ~(value > target) /\ Gross(budget) > 0)
    <2>1. Resize(account, price) = account
      BY <1>5, <1>8 DEF Solvent
    <2> QED BY <2>1
  <1> QED BY <1>6, <1>7, <1>8

-----------------------------------------------------------------------------
(* The inductive invariant.  A resize is only ever queued in the long/flat *)
(* loop, where the account is solvent; both are needed for it to be one.   *)

Inv ==
    /\ TypeOK
    /\ Sound(account, history.funding)
    /\ ~config.allowShort => Solvent(account)
    /\ resize.pending => ~config.allowShort

LEMMA InitInv == Init => Inv
  BY DEF Init, Inv, TypeOK, Sound, Explained, Solvent, Account, Unfunded, NoResize,
         Signals, Config

(* The benchmark's account is made of integers.                            *)
LEMMA BenchTypes ==
    ASSUME NEW price \in Prices
    PROVE  /\ Hold(price) \in [cash : Int, units : Nat]
           /\ \A b \in [cash : Int, units : Nat] :
                 Liquidate(b, price) \in [cash : Int, units : Nat]
  <1>1. Gross(StartingEquity) \in Nat /\ Fee(Gross(StartingEquity)) \in Nat
    BY BudgetCovers, FeeIsPart
  <1>2. Gross(StartingEquity) \div BuyFill(price) \in Nat
    BY <1>1, FillsArePrices, Division
  <1>3. ASSUME NEW b \in [cash : Int, units : Nat]
        PROVE  Liquidate(b, price) \in [cash : Int, units : Nat]
    <2> DEFINE proceeds == b.units * SellFill(price)
    <2>1. proceeds \in Nat
      BY FillsArePrices
    <2>2. Fee(proceeds) \in Nat
      BY <2>1, FeeIsPart
    <2>3. Liquidate(b, price) = [cash |-> b.cash + proceeds - Fee(proceeds), units |-> 0]
      BY DEF Liquidate
    <2> HIDE DEF proceeds
    <2> QED BY <2>1, <2>2, <2>3
  <1> QED BY <1>1, <1>2, <1>3 DEF Hold

LEMMA OpenInv ==
    ASSUME Inv, NEW price \in Prices, AtOpen(price)
    PROVE  Inv'
  <1>1. history.funding \in Int /\ config \in Config /\ size \in 0..MaxPosition
    BY DEF Inv, TypeOK
  <1>2. history' \in [held : BOOLEAN, funding : Int, wanted : Signals, blind : BOOLEAN]
        /\ history'.funding = history.funding
    <2> DEFINE blind == /\ account.side # Side(pending)
                        /\ ~CanEnter(Exit(account, price), Side(pending), price, size)
    <2>1. blind \in BOOLEAN
      OBVIOUS
    <2>2. history' = IF pending = "Hold" THEN history
                     ELSE [history EXCEPT !.wanted = pending, !.blind = blind]
      BY DEF AtOpen, Noted
    <2> HIDE DEF blind
    <2> QED BY <2>1, <2>2 DEF Inv, TypeOK
  <1>3. /\ Sound(account', history.funding)
        /\ ~config.allowShort => Solvent(account')
    <2>1. CASE resize.pending
      <3>1. account' = Resize(account, price)
        BY <2>1 DEF AtOpen
      <3>2. Solvent(account) /\ resize.target \in 0..MaxPosition
        BY <2>1 DEF Inv, TypeOK
      <3>3. /\ Sound(Resize(account, price), history.funding)
            /\ Solvent(Resize(account, price))
        BY <1>1, <3>2, ResizeSound DEF Inv
      <3> QED BY <3>1, <3>3
    <2>2. CASE ~resize.pending
      <3>1. account' = Execute(pending, price, size)
        BY <2>2 DEF AtOpen
      <3>2. pending \in Signals
        BY DEF Inv, TypeOK
      <3>3. /\ Sound(Execute(pending, price, size), history.funding)
            /\ Solvent(account) /\ ~config.allowShort
                 => Solvent(Execute(pending, price, size))
        BY <1>1, <3>2, ExecuteSound DEF Inv
      <3> QED BY <3>1, <3>3 DEF Inv
    <2> QED BY <2>1, <2>2
  <1>4. bench' \in [cash : Int, units : Nat]
    BY BenchTypes DEF AtOpen, Inv, TypeOK
  <1>5. TypeOK'
    BY <1>2, <1>3, <1>4 DEF AtOpen, Inv, TypeOK, Sound, Signals, NoResize
  <1> QED BY <1>2, <1>3, <1>5 DEF Inv, AtOpen, NoResize

LEMMA CloseInv ==
    ASSUME Inv, NEW signal \in Signals, NEW price \in Prices,
           NEW f \in Sizes \union {MaxPosition}, AtClose(signal, price, f)
    PROVE  Inv'
  <1> DEFINE traded == IF config.nextOpen THEN account ELSE Execute(signal, price, f)
             cost   == Funding(traded, price)
             after  == [traded EXCEPT !.cash = @ - cost]
             held   == IF ~config.nextOpen /\ bar = 1 THEN Hold(price) ELSE bench
             total  == history.funding + cost
  <1>1. history.funding \in Int /\ config \in Config /\ f \in 0..MaxPosition
    BY DEF Inv, TypeOK
  <1>2. /\ Sound(traded, history.funding)
        /\ ~config.allowShort => Solvent(traded)
    <2>1. CASE config.nextOpen
      BY <2>1 DEF Inv
    <2>2. CASE ~config.nextOpen
      <3>1. traded = Execute(signal, price, f)
        BY <2>2
      <3>2. /\ Sound(Execute(signal, price, f), history.funding)
            /\ Solvent(account) /\ ~config.allowShort
                 => Solvent(Execute(signal, price, f))
        BY <1>1, ExecuteSound DEF Inv
      <3> HIDE DEF traded
      <3> QED BY <3>1, <3>2 DEF Inv
    <2> QED BY <2>1, <2>2
  <1>3. account' = IF bar = NumBars THEN Exit(after, price) ELSE after
    BY DEF AtClose
  <1>4. history'.funding = total
        /\ history' \in [held : BOOLEAN, funding : Int, wanted : Signals, blind : BOOLEAN]
        /\ cost \in Int
    <2>1. cost \in Int
      <3>1. traded \in Account
        BY <1>2 DEF Sound
      <3> HIDE DEF traded
      <3>2. traded.units * price \in Int
        BY <3>1 DEF Account
      <3>3. traded.units * price * (IF traded.side > 0 THEN LongCost ELSE ShortCost) \in Int
        BY <3>2
      <3> QED BY <3>3 DEF Funding
    <2> DEFINE blind == /\ account.side # Side(signal)
                        /\ ~CanEnter(Exit(account, price), Side(signal), price, f)
               noted == IF signal = "Hold" THEN history
                        ELSE [history EXCEPT !.wanted = signal, !.blind = blind]
               keep == history.held /\ signal # "Sell" /\ (bar = 1 => signal = "Buy")
    <2>2. blind \in BOOLEAN /\ keep \in BOOLEAN
      BY DEF Inv, TypeOK
    <2>3. history' = [(IF config.nextOpen THEN history ELSE noted) EXCEPT
                        !.funding = @ + cost,
                        !.held = @ /\ signal # "Sell" /\ (bar = 1 => signal = "Buy")]
      BY DEF AtClose, Noted
    <2>4. noted \in [held : BOOLEAN, funding : Int, wanted : Signals, blind : BOOLEAN]
          /\ noted.funding = history.funding /\ noted.held = history.held
      <3> HIDE DEF blind
      <3> QED BY <2>2 DEF Inv, TypeOK
    <2>5. history' = [(IF config.nextOpen THEN history ELSE noted) EXCEPT
                        !.funding = total, !.held = keep]
      <3> HIDE DEF cost, blind
      <3> QED BY <2>3, <2>4 DEF Inv, TypeOK
    <2> HIDE DEF noted, blind, cost, keep
    <2>6. total \in Int
      BY <1>1, <2>1
    <2> HIDE DEF total
    <2> QED BY <2>1, <2>2, <2>4, <2>5, <2>6 DEF Inv, TypeOK
  <1>5. ~config.allowShort => cost = 0
    BY DEF Funding
  <1> HIDE DEF traded, cost
  <1>6. /\ Sound(after, total)
        /\ ~config.allowShort => Solvent(after)
    <2>1. traded \in Account /\ traded.cash - cost \in Int
      BY <1>2, <1>4 DEF Sound, Account
    <2>2. /\ after \in Account /\ after.cash = traded.cash - cost
          /\ after.side = traded.side /\ after.outlay = traded.outlay
          /\ after.fee = traded.fee /\ after.pnl = traded.pnl
          /\ after.tradeFees = traded.tradeFees
          /\ after.totalFees = traded.totalFees /\ after.resizes = traded.resizes
      BY <2>1 DEF Account
    <2> HIDE DEF after
    <2>3. Explained(after, total)
      BY <1>1, <1>2, <1>4, <2>1, <2>2 DEF Sound, Explained, Account
    <2> QED BY <1>2, <1>5, <2>1, <2>2, <2>3 DEF Sound, Solvent, Account
  <1> HIDE DEF after
  <1>7. total \in Int
    BY <1>1, <1>4
  <1> HIDE DEF total
  <1>8. /\ Sound(account', total)
        /\ ~config.allowShort => Solvent(account')
    BY <1>3, <1>6, <1>7, ExitSound
  <1>9. resize' \in [pending : BOOLEAN, target : 0..MaxPosition, sellDown : BOOLEAN]
        /\ (resize'.pending => ~config.allowShort)
    <2>1. CASE MayResize(f) /\ ~Changes(signal)
      <3>1. resize' = Drift(price, f)
        BY <2>1 DEF AtClose
      <3>2. Drift(price, f) \in
              [pending : BOOLEAN, target : 0..MaxPosition, sellDown : BOOLEAN]
        BY <1>1 DEF Drift
      <3> QED BY <2>1, <3>1, <3>2 DEF MayResize
    <2>2. CASE ~(MayResize(f) /\ ~Changes(signal))
      BY <2>2 DEF AtClose, NoResize
    <2> QED BY <2>1, <2>2
  <1>10. bench' \in [cash : Int, units : Nat]
    <2>1. held \in [cash : Int, units : Nat]
      BY BenchTypes DEF Inv, TypeOK
    <2>2. bench' = IF bar = NumBars THEN Liquidate(held, price) ELSE held
      BY DEF AtClose
    <2> HIDE DEF held
    <2> QED BY <2>1, <2>2, BenchTypes
  <1>11. /\ config' = config /\ size' \in 0..MaxPosition /\ pending' \in Signals
         /\ bar' \in 1..NumBars /\ at' \in {"open", "close", "done"}
    BY <1>1 DEF AtClose, Signals, Inv, TypeOK
  <1>12. TypeOK'
    BY <1>4, <1>8, <1>9, <1>10, <1>11 DEF TypeOK, Sound, Inv
  <1> QED BY <1>4, <1>8, <1>9, <1>11, <1>12 DEF Inv

LEMMA Invariance == Spec => []Inv
  <1>1. Inv /\ [Next]_vars => Inv'
    <2> SUFFICES ASSUME Inv, [Next]_vars PROVE Inv'
      OBVIOUS
    <2>1. ASSUME NEW price \in Prices, AtOpen(price) PROVE Inv'
      BY <2>1, OpenInv
    <2>2. ASSUME NEW signal \in Signals, NEW price \in Prices,
                 NEW f \in Sizes \union {MaxPosition}, AtClose(signal, price, f)
          PROVE  Inv'
      BY <2>2, CloseInv
    <2>3. CASE UNCHANGED vars
      BY <2>3 DEF vars, Inv, TypeOK, Sound, Explained, Solvent
    <2> QED BY <2>1, <2>2, <2>3 DEF Next
  <1> QED BY <1>1, InitInv, PTL DEF Spec

(* The types.                                                              *)
THEOREM TypeCorrect == Spec => []TypeOK
  <1>1. Inv => TypeOK
    BY DEF Inv
  <1> QED BY <1>1, Invariance, PTL

(* The long/flat engine never borrows, whatever the signals, prices, sizes *)
(* and resizes: executeBuy() and executeResize() spend what there is.      *)
THEOREM NoLeverage == Spec => []NeverBorrows
  <1>1. Inv => NeverBorrows
    BY DEF Inv, NeverBorrows, Solvent
  <1> QED BY <1>1, Invariance, PTL

(* As long as there was no resize, the trade records and the open position *)
(* account for all of the cash and all of the fees, on both sides and for  *)
(* funding of either sign.                                                 *)
THEOREM BooksBalance == Spec => []TradesExplainCash
  <1>1. Inv => TradesExplainCash
    BY DEF Inv, TradesExplainCash, Sound, Explained
  <1> QED BY <1>1, Invariance, PTL

-----------------------------------------------------------------------------
(* What an order leaves the account on.                                    *)

LEMMA EntrySides ==
    ASSUME NEW a \in Account, a.side = 0, NEW want \in {-1, 1}, NEW price \in Prices,
           NEW f \in 0..MaxPosition
    PROVE  Enter(a, want, price, f).side = IF CanEnter(a, want, price, f) THEN want ELSE 0
  <1>1. CASE CanEnter(a, want, price, f)
    <2>1. Enter(a, want, price, f) = Position(a, want, price, f)
      BY <1>1 DEF Enter
    <2>2. Position(a, want, price, f).side = want
      BY DEF Position, Account
    <2> QED BY <1>1, <2>1, <2>2
  <1>2. CASE ~CanEnter(a, want, price, f)
    BY <1>2 DEF Enter
  <1> QED BY <1>1, <1>2

\* An executed order in long/short mode, and what is noted of it.
LEMMA TurnSides ==
    ASSUME Inv, config.allowShort, NEW signal \in {"Buy", "Sell"}, NEW price \in Prices,
           NEW f \in 0..MaxPosition
    PROVE  /\ Noted(signal, price, f).wanted = signal
           /\ Execute(signal, price, f).side
                = IF Noted(signal, price, f).blind THEN 0 ELSE Side(signal)
  <1> DEFINE want == Side(signal)
             c == Exit(account, price)
             able == CanEnter(c, want, price, f)
             noted == Noted(signal, price, f)
  <1>1. want \in {-1, 1}
    BY DEF Side
  <1>2. account \in Account /\ c \in Account /\ c.side = 0
    BY ExitSound DEF Inv, Sound, TypeOK
  <1>3. Execute(signal, price, f) = Turn(account, want, price, f)
    BY DEF Execute
  <1>4. noted = [history EXCEPT !.wanted = signal, !.blind = account.side # want /\ ~able]
    BY DEF Noted
  <1>5. noted.wanted = signal /\ noted.blind = (account.side # want /\ ~able)
    <2> DEFINE b == account.side # want /\ ~able
    <2>1. PICK blind \in BOOLEAN : blind = b
      OBVIOUS
    <2>2. noted = [history EXCEPT !.wanted = signal, !.blind = blind]
      BY <1>4, <2>1
    <2> HIDE DEF noted, b
    <2>3. noted.wanted = signal /\ noted.blind = blind
      BY <2>2 DEF Inv, TypeOK
    <2> QED BY <2>1, <2>3 DEF b
  <1>6. CASE account.side = want
    BY <1>3, <1>5, <1>6 DEF Turn
  <1>7. CASE account.side # want
    <2>1. Turn(account, want, price, f) = Enter(c, want, price, f)
      BY <1>7 DEF Turn
    <2> HIDE DEF c, want, noted
    <2>2. Enter(c, want, price, f).side = IF able THEN want ELSE 0
      BY <1>1, <1>2, EntrySides
    <2> QED BY <1>3, <1>5, <1>7, <2>1, <2>2 DEF want, noted, c
  <1> QED BY <1>5, <1>6, <1>7

\* Where the account stands after what was executed, and what is noted of it.
OnItsSide(a, h) == h.wanted # "Hold" => a.side = IF h.blind THEN 0 ELSE Side(h.wanted)

LEMMA ExecuteKeepsSide ==
    ASSUME Inv, config.allowShort, OnItsSide(account, history),
           NEW signal \in Signals, NEW price \in Prices, NEW f \in 0..MaxPosition
    PROVE  OnItsSide(Execute(signal, price, f), Noted(signal, price, f))
  <1>1. CASE signal = "Hold"
    BY <1>1 DEF Execute, Noted
  <1>2. CASE signal # "Hold"
    <2>1. signal \in {"Buy", "Sell"}
      BY <1>2 DEF Signals
    <2> QED BY <2>1, TurnSides DEF OnItsSide
  <1> QED BY <1>1, <1>2

LEMMA AlwaysInStep == Inv /\ AlwaysIn /\ [Next]_vars => AlwaysIn'
  <1> SUFFICES ASSUME Inv, AlwaysIn, [Next]_vars PROVE AlwaysIn'
    OBVIOUS
  <1>0. config' = config
    <2>1. ASSUME NEW price \in Prices, AtOpen(price) PROVE config' = config
      BY <2>1 DEF AtOpen
    <2>2. ASSUME NEW signal \in Signals, NEW price \in Prices,
                 NEW f \in Sizes \union {MaxPosition}, AtClose(signal, price, f)
          PROVE  config' = config
      BY <2>2 DEF AtClose
    <2>3. CASE UNCHANGED vars
      BY <2>3 DEF vars
    <2> QED BY <2>1, <2>2, <2>3 DEF Next
  <1> SUFFICES ASSUME config.allowShort, at' # "done" PROVE OnItsSide(account, history)'
    BY <1>0 DEF AlwaysIn, OnItsSide
  <1>1. ASSUME NEW price \in Prices, AtOpen(price) PROVE OnItsSide(account, history)'
    <2>1. ~resize.pending /\ size \in 0..MaxPosition /\ pending \in Signals
      BY DEF Inv, TypeOK
    <2>2. OnItsSide(account, history)
      BY <1>1 DEF AtOpen, AlwaysIn, OnItsSide
    <2>3. account' = Execute(pending, price, size) /\ history' = Noted(pending, price, size)
      BY <1>1, <2>1 DEF AtOpen
    <2>4. OnItsSide(Execute(pending, price, size), Noted(pending, price, size))
      BY <2>1, <2>2, ExecuteKeepsSide
    <2> QED BY <2>3, <2>4 DEF OnItsSide
  <1>2. ASSUME NEW signal \in Signals, NEW price \in Prices,
               NEW f \in Sizes \union {MaxPosition}, AtClose(signal, price, f)
        PROVE  OnItsSide(account, history)'
    <2> DEFINE traded == IF config.nextOpen THEN account ELSE Execute(signal, price, f)
               noted  == IF config.nextOpen THEN history ELSE Noted(signal, price, f)
               cost   == Funding(traded, price)
    <2>1. f \in 0..MaxPosition /\ OnItsSide(account, history)
      BY <1>2 DEF AtClose, AlwaysIn, OnItsSide
    <2>2. OnItsSide(traded, noted)
      BY <2>1, ExecuteKeepsSide
    <2>3. traded \in Account
      <3>1. history.funding \in Int /\ config \in Config
        BY DEF Inv, TypeOK
      <3> QED BY <2>1, <3>1, ExecuteSound DEF Inv, Sound
    <2>4. DOMAIN noted = DOMAIN history
      BY DEF Noted
    <2>5. account' = [traded EXCEPT !.cash = @ - cost]
      BY <1>2 DEF AtClose
    <2>6. /\ history' = [noted EXCEPT !.funding = @ + cost,
                            !.held = @ /\ signal # "Sell" /\ (bar = 1 => signal = "Buy")]
          /\ DOMAIN history = {"held", "funding", "wanted", "blind"}
      BY <1>2 DEF AtClose, Inv, TypeOK
    <2> HIDE DEF traded, noted, cost
    <2>7. account'.side = traded.side
      BY <2>3, <2>5 DEF Account
    <2>8. history'.wanted = noted.wanted /\ history'.blind = noted.blind
      BY <2>4, <2>6
    <2> QED BY <2>2, <2>7, <2>8 DEF OnItsSide
  <1>3. CASE UNCHANGED vars
    BY <1>3 DEF vars, AlwaysIn, OnItsSide
  <1> QED BY <1>1, <1>2, <1>3 DEF Next

(* In long/short mode, for every series, cost and sequence of signals: the *)
(* account is on the side its last executed signal asked for, and flat     *)
(* only if that entry had no measurable size or no money.                  *)
THEOREM InAfterItsFirstSignal == Spec => []AlwaysIn
  <1>1. Init => AlwaysIn
    BY DEF Init, AlwaysIn
  <1> QED BY <1>1, AlwaysInStep, Invariance, PTL DEF Spec

-----------------------------------------------------------------------------
(* A strategy that buys at once and holds, next to the benchmark.  The     *)
(* benchmark of a run too poor for one unit pays for nothing and the run   *)
(* does not enter: a rounding of the model, for the code's units are       *)
(* doubles and any budget buys some.                                       *)

AffordsAUnit == \A price \in Prices : Gross(StartingEquity) >= BuyFill(price)

AllIn == ~config.volTarget /\ MaxPosition = 100
Untouched == account = Unfunded /\ bench = [cash |-> StartingEquity, units |-> 0]
\* Until the first fill nobody has anything; from then on both have the same.
Abreast ==
    /\ ~resize.pending
    /\ bar = 1 /\ at # "done" => Untouched /\ history.funding = 0 /\ pending = "Hold"
    /\ bar # 1 => size = MaxPosition
    /\ bar = 2 /\ at = "open" /\ config.nextOpen =>
           Untouched /\ history.funding = 0 /\ pending = "Buy"
    /\ bar # 1 /\ ~(bar = 2 /\ at = "open" /\ config.nextOpen) /\ at # "done" =>
           /\ account.side = 1 /\ account.units = bench.units /\ pending = "Hold"
           /\ account.cash + history.funding = bench.cash
    /\ at = "done" => bar # 1 /\ account.cash + history.funding = bench.cash
HoldInv == AllIn /\ history.held => Abreast

LEMMA HoldInit == Init => HoldInv
  BY DEF Init, HoldInv, Abreast, Untouched, NoResize

\* The first entry buys what the benchmark buys.
LEMMA FirstEntry ==
    ASSUME AffordsAUnit, MaxPosition = 100, account = Unfunded, config \in Config,
           NEW price \in Prices
    PROVE  LET b == Execute("Buy", price, MaxPosition)
           IN  b.side = 1 /\ b.cash = Hold(price).cash /\ b.units = Hold(price).units
  <1> DEFINE gross == Gross(StartingEquity)
             fee == Fee(gross)
             units == gross \div BuyFill(price)
             p == Position(Unfunded, 1, price, 100)
  <1>1. Least(StartingEquity, (StartingEquity * 100) \div 100) = StartingEquity
    <2>1. (StartingEquity * 100) \div 100 = StartingEquity
      OBVIOUS
    <2> QED BY <2>1 DEF Least
  <1>2. /\ Unfunded \in Account /\ Unfunded.cash = StartingEquity /\ Unfunded.side = 0
    BY DEF Unfunded, Account
  <1>3. p = [Unfunded EXCEPT !.cash = @ - 1 * (gross + 1 * fee), !.units = units, !.side = 1,
                             !.outlay = gross + 1 * fee, !.fee = fee, !.totalFees = @ + fee]
    <2> DEFINE budget == Least(Unfunded.cash, (Unfunded.cash * 100) \div 100)
               spent == IF 1 > 0 THEN Gross(budget) ELSE budget
               fill == IF 1 > 0 THEN BuyFill(price) ELSE SellFill(price)
    <2>1. p = [Unfunded EXCEPT !.cash = @ - 1 * (spent + 1 * Fee(spent)),
                               !.units = spent \div fill, !.side = 1,
                               !.outlay = spent + 1 * Fee(spent), !.fee = Fee(spent),
                               !.totalFees = @ + Fee(spent)]
      BY DEF Position
    <2>2. spent = gross /\ fill = BuyFill(price)
      BY <1>1, <1>2
    <2> HIDE DEF p, spent, fill
    <2> QED BY <2>1, <2>2
  <1>4. gross \in Nat /\ fee \in Nat
    BY BudgetCovers, FeeIsPart
  <1>5. units \in Nat /\ units > 0
    <2>1. gross >= BuyFill(price) /\ BuyFill(price) \in Nat \ {0}
      BY FillsArePrices DEF AffordsAUnit
    <2> HIDE DEF gross
    <2>2. units \in Nat
      BY <1>4, <2>1, Division
    <2>3. PICK d \in Nat \ {0} : d = BuyFill(price)
      BY <2>1
    <2>4. gross = d * (gross \div d) + (gross % d) /\ gross % d \in 0..(d - 1) /\ gross \div d \in Int
      BY <1>4
    <2>5. gross \div d # 0
      BY <2>1, <2>3, <2>4
    <2> QED BY <2>2, <2>3, <2>5
  <1>6. /\ p.cash = StartingEquity - (gross + fee) /\ p.units = units /\ p.side = 1
    <2> HIDE DEF gross, fee, units
    <2>1. 1 * (gross + 1 * fee) = gross + fee
      BY <1>4
    <2> HIDE DEF p
    <2> QED BY <1>2, <1>3, <1>4, <2>1 DEF Account
  <1>7. CanEnter(Unfunded, 1, price, 100)
    BY <1>5, <1>6 DEF CanEnter
  <1>8. Enter(Unfunded, 1, price, 100) = p
    BY <1>2, <1>7 DEF Enter
  <1>9. Execute("Buy", price, 100) = p
    <2>1. Exit(Unfunded, price) = Unfunded
      BY <1>2 DEF Exit
    <2>2. Turn(Unfunded, 1, price, 100) = p
      BY <1>2, <1>8, <2>1 DEF Turn
    <2>3. Side("Buy") = 1
      BY DEF Side
    <2> HIDE DEF p
    <2>4. CASE config.allowShort
      BY <2>2, <2>3, <2>4 DEF Execute
    <2>5. CASE ~config.allowShort
      BY <1>8, <2>5 DEF Execute
    <2> QED BY <2>4, <2>5
  <1>10. Hold(price).cash = StartingEquity - gross - fee /\ Hold(price).units = units
    BY DEF Hold
  <1>11. p.cash = Hold(price).cash
    <2> HIDE DEF gross, fee, p, units
    <2> QED BY <1>4, <1>6, <1>10
  <1> QED BY <1>6, <1>9, <1>10, <1>11

\* Once in, an order to buy does nothing.
LEMMA InStaysIn ==
    ASSUME account.side = 1, config \in Config, NEW signal \in {"Hold", "Buy"},
           NEW price, NEW f
    PROVE  Execute(signal, price, f) = account
  <1>1. Side("Buy") = 1
    BY DEF Side
  <1>2. CASE signal = "Hold"
    BY <1>2 DEF Execute
  <1>3. CASE signal = "Buy" /\ config.allowShort
    BY <1>1, <1>3 DEF Execute, Turn
  <1>4. CASE signal = "Buy" /\ ~config.allowShort
    BY <1>4 DEF Execute, Enter
  <1> QED BY <1>2, <1>3, <1>4

LEMMA HoldOpen ==
    ASSUME Inv, HoldInv, AffordsAUnit, NEW price \in Prices, AtOpen(price)
    PROVE  HoldInv'
  <1> SUFFICES ASSUME AllIn, history'.held PROVE Abreast'
    <2>1. AllIn' <=> AllIn
      BY DEF AtOpen, AllIn
    <2> QED BY <2>1 DEF HoldInv
  <1>1. history'.held = history.held /\ history'.funding = history.funding
    BY DEF AtOpen, Noted, Inv, TypeOK
  <1>2. Abreast /\ ~resize.pending
    BY <1>1 DEF HoldInv, Abreast
  <1>3. /\ at = "open" /\ at' = "close" /\ pending' = "Hold" /\ bar' = bar /\ size' = size
        /\ config' = config
        /\ account' = Execute(pending, price, size)
        /\ bench' = IF config.nextOpen /\ bar = 2 THEN Hold(price) ELSE bench
        /\ ~resize'.pending
    BY <1>2 DEF AtOpen, NoResize
  <1>4. config \in Config /\ account \in Account /\ bar \in 1..NumBars
    BY DEF Inv, TypeOK
  <1>5. CASE bar = 1
    <2>1. account' = account /\ bench' = bench
      BY <1>2, <1>3, <1>5 DEF Abreast, Execute
    <2> QED BY <1>1, <1>2, <1>3, <1>5, <2>1 DEF Abreast, Untouched
  <1>6. CASE bar = 2 /\ config.nextOpen
    <2>1. /\ account = Unfunded /\ pending = "Buy" /\ size = MaxPosition
          /\ history.funding = 0 /\ MaxPosition = 100
      BY <1>2, <1>3, <1>6 DEF Abreast, Untouched, AllIn
    <2>2. account' = Execute("Buy", price, MaxPosition) /\ bench' = Hold(price)
      BY <1>3, <1>6, <2>1
    <2>3. PICK b : b = Execute("Buy", price, MaxPosition)
      OBVIOUS
    <2>4. b.side = 1 /\ b.cash = Hold(price).cash /\ b.units = Hold(price).units
      BY <1>4, <2>1, <2>3, FirstEntry
    <2>5. PICK h \in [cash : Int, units : Nat] : h = Hold(price)
      BY BenchTypes
    <2>6. account' = b /\ bench' = h /\ b.side = 1 /\ b.units = h.units /\ b.cash = h.cash
      BY <2>2, <2>3, <2>4, <2>5
    <2>7. b.cash + history.funding = h.cash
      BY <2>1, <2>5, <2>6
    <2> QED BY <1>1, <1>3, <1>6, <2>1, <2>6, <2>7 DEF Abreast
  <1>7. CASE bar # 1 /\ ~(bar = 2 /\ config.nextOpen)
    <2>1. /\ account.side = 1 /\ account.units = bench.units /\ pending = "Hold"
          /\ account.cash + history.funding = bench.cash /\ size = MaxPosition
      BY <1>2, <1>3, <1>7 DEF Abreast
    <2>2. account' = account /\ bench' = bench
      BY <1>3, <1>7, <2>1 DEF Execute
    <2> QED BY <1>1, <1>3, <1>7, <2>1, <2>2 DEF Abreast
  <1> QED BY <1>5, <1>6, <1>7

\* What is charged, and what the last close brings, is the same for the two.
LEMMA HoldClose ==
    ASSUME Inv, HoldInv, AffordsAUnit, NEW signal \in Signals, NEW price \in Prices,
           NEW f \in Sizes \union {MaxPosition}, AtClose(signal, price, f)
    PROVE  HoldInv'
  <1> SUFFICES ASSUME AllIn, history'.held PROVE Abreast'
    <2>1. AllIn' <=> AllIn
      BY DEF AtClose, AllIn
    <2> QED BY <2>1 DEF HoldInv
  <1> DEFINE traded == IF config.nextOpen THEN account ELSE Execute(signal, price, f)
             noted  == IF config.nextOpen THEN history ELSE Noted(signal, price, f)
             cost   == Funding(traded, price)
             after  == [traded EXCEPT !.cash = @ - cost]
             held   == IF ~config.nextOpen /\ bar = 1 THEN Hold(price) ELSE bench
  <1>1. config \in Config /\ account \in Account /\ bar \in 1..NumBars /\ f \in 0..MaxPosition
        /\ history.funding \in Int /\ bench \in [cash : Int, units : Nat] /\ bar \in Nat
    BY DEF Inv, TypeOK
  <1>2. /\ at = "close" /\ f = MaxPosition /\ size' = f /\ config' = config
        /\ pending' = IF config.nextOpen /\ Changes(signal) THEN signal ELSE "Hold"
        /\ account' = IF bar = NumBars THEN Exit(after, price) ELSE after
        /\ bench' = IF bar = NumBars THEN Liquidate(held, price) ELSE held
        /\ bar' = IF bar = NumBars THEN bar ELSE bar + 1
        /\ at' = IF bar = NumBars THEN "done" ELSE "open"
    BY DEF AtClose, AllIn
  <1>3. ~resize'.pending
    BY DEF AtClose, MayResize, AllIn, NoResize
  <1>4. noted \in [held : BOOLEAN, funding : Int, wanted : Signals, blind : BOOLEAN]
        /\ noted.funding = history.funding /\ noted.held = history.held
    <2> DEFINE b == /\ account.side # Side(signal)
                    /\ ~CanEnter(Exit(account, price), Side(signal), price, f)
    <2>1. PICK blind \in BOOLEAN : blind = b
      OBVIOUS
    <2>2. Noted(signal, price, f) = IF signal = "Hold" THEN history
              ELSE [history EXCEPT !.wanted = signal, !.blind = blind]
      BY <2>1 DEF Noted
    <2> HIDE DEF b
    <2> QED BY ZenonT(40), <2>2 DEF Inv, TypeOK
  <1>5. /\ history'.funding = history.funding + cost
        /\ history.held /\ signal # "Sell" /\ (bar = 1 => signal = "Buy")
    <2>1. history' = [noted EXCEPT !.funding = @ + cost,
                            !.held = @ /\ signal # "Sell" /\ (bar = 1 => signal = "Buy")]
      BY DEF AtClose
    <2>2. PICK keep \in BOOLEAN :
            keep = (noted.held /\ signal # "Sell" /\ (bar = 1 => signal = "Buy"))
      OBVIOUS
    <2> HIDE DEF noted, cost
    <2>3. history' = [noted EXCEPT !.funding = @ + cost, !.held = keep]
      BY <1>4, <2>1, <2>2
    <2>4. history'.funding = noted.funding + cost /\ history'.held = keep
      BY <1>4, <2>3
    <2> QED BY <1>4, <2>2, <2>4
  <1>6. Abreast /\ signal \in {"Hold", "Buy"}
    BY <1>5 DEF HoldInv, Signals
  <1>7. /\ traded \in Account /\ cost \in Int
    <2>1. traded \in Account
      BY <1>1, ExecuteSound DEF Inv, Sound
    <2> HIDE DEF traded
    <2>2. traded.units * price \in Int
      BY <2>1 DEF Account
    <2>3. traded.units * price * (IF traded.side > 0 THEN LongCost ELSE ShortCost) \in Int
      BY <2>2
    <2> QED BY <2>1, <2>3 DEF Funding
  <1>8. CASE bar = 1 /\ config.nextOpen
    <2>1. account = Unfunded /\ bench = [cash |-> StartingEquity, units |-> 0]
          /\ signal = "Buy" /\ traded = account /\ held = bench /\ history.funding = 0
      BY <1>2, <1>5, <1>6, <1>8 DEF Abreast, Untouched
    <2>2. account.side = 0 /\ cost = 0
      BY <2>1 DEF Unfunded, Funding
    <2>3. after = account
      BY <1>1, <2>1, <2>2 DEF Account
    <2>4. Changes(signal)
      BY <2>1, <2>2 DEF Changes
    <2>5. bar # NumBars /\ bar' = 2 /\ at' = "open" /\ account' = account /\ bench' = bench
          /\ pending' = "Buy"
      BY <1>2, <1>8, <2>1, <2>3, <2>4
    <2>6. history'.funding = 0
      BY <1>5, <2>1, <2>2
    <2> QED BY <1>2, <1>3, <1>8, <2>1, <2>5, <2>6 DEF Abreast, Untouched
  <1>9. CASE ~(bar = 1 /\ config.nextOpen)
    <2>1. /\ traded.side = 1 /\ traded.units = held.units
          /\ traded.cash + history.funding = held.cash
          /\ held \in [cash : Int, units : Nat]
      <3>1. CASE bar = 1
        <4>1. ~config.nextOpen /\ signal = "Buy" /\ account = Unfunded /\ history.funding = 0
              /\ MaxPosition = 100
          BY <1>2, <1>5, <1>6, <1>9, <3>1 DEF Abreast, Untouched, AllIn
        <4>2. PICK b : b = Execute("Buy", price, MaxPosition)
          OBVIOUS
        <4>3. b.side = 1 /\ b.cash = Hold(price).cash /\ b.units = Hold(price).units
          BY <1>1, <4>1, <4>2, FirstEntry
        <4>4. PICK h \in [cash : Int, units : Nat] : h = Hold(price)
          BY BenchTypes
        <4>5. traded = b /\ held = h
          BY <1>2, <3>1, <4>1, <4>2, <4>4
        <4>6. b.cash + history.funding = h.cash
          BY <4>1, <4>3, <4>4
        <4> QED BY <4>3, <4>4, <4>5, <4>6
      <3>2. CASE bar # 1
        <4>1. /\ account.side = 1 /\ account.units = bench.units
              /\ account.cash + history.funding = bench.cash
          BY <1>2, <1>6, <3>2 DEF Abreast
        <4>2. Execute(signal, price, f) = account
          BY <1>1, <1>6, <4>1, InStaysIn
        <4>3. traded = account /\ held = bench
          BY <3>2, <4>2
        <4> QED BY <1>1, <4>1, <4>3
      <3> QED BY <3>1, <3>2
    <2> HIDE DEF traded, cost, held
    <2>2. /\ after \in Account /\ after.side = 1 /\ after.units = held.units
          /\ after.cash = traded.cash - cost
      BY <1>7, <2>1 DEF Account
    <2> HIDE DEF after
    <2>3. after.cash + (history.funding + cost) = held.cash
      BY <1>1, <1>7, <2>1, <2>2 DEF Account
    <2>4. bar' # 1 /\ ~(bar' = 2 /\ at' = "open" /\ config.nextOpen) /\ size' = MaxPosition
      BY <1>1, <1>2, <1>9
    <2>5. CASE bar # NumBars
      <3>1. account' = after /\ bench' = held /\ at' = "open"
        BY <1>2, <2>5
      <3>2. pending' = "Hold"
        <4>1. config.nextOpen => bar # 1
          BY <1>9
        <4>2. config.nextOpen => account.side = 1
          BY <1>2, <1>6, <4>1 DEF Abreast
        <4>3. config.nextOpen => ~Changes(signal)
          BY <1>6, <4>2 DEF Changes
        <4> QED BY <1>2, <4>3
      <3>3. account'.cash + history'.funding = bench'.cash
        BY <1>5, <2>3, <3>1
      <3> QED BY <1>2, <1>3, <2>2, <2>4, <3>1, <3>2, <3>3 DEF Abreast
    <2>6. CASE bar = NumBars
      <3>1. account' = Exit(after, price) /\ bench' = Liquidate(held, price) /\ at' = "done"
        BY <1>2, <2>6
      <3> DEFINE amount == after.units * SellFill(price)
      <3>2. Exit(after, price).cash = after.cash + (1 * amount - Fee(amount))
        BY <2>2 DEF Exit, Account
      <3>3. Liquidate(held, price).cash = held.cash + amount - Fee(amount)
        BY <2>2 DEF Liquidate
      <3>4. amount \in Nat
        BY <2>2, FillsArePrices DEF Account
      <3> HIDE DEF amount
      <3>5. Fee(amount) \in Nat
        BY <3>4, FeeIsPart
      <3>6. account'.cash + history'.funding = bench'.cash
        BY <1>1, <1>5, <1>7, <2>1, <2>2, <2>3, <3>1, <3>2, <3>3, <3>4, <3>5 DEF Account
      <3> QED BY <1>3, <2>4, <3>1, <3>6 DEF Abreast
    <2> QED BY <2>5, <2>6
  <1> QED BY <1>8, <1>9

LEMMA HoldStep == Inv /\ HoldInv /\ AffordsAUnit /\ [Next]_vars => HoldInv'
  <1> SUFFICES ASSUME Inv, HoldInv, AffordsAUnit, [Next]_vars PROVE HoldInv'
    OBVIOUS
  <1>1. ASSUME NEW price \in Prices, AtOpen(price) PROVE HoldInv'
    BY <1>1, HoldOpen
  <1>2. ASSUME NEW signal \in Signals, NEW price \in Prices,
               NEW f \in Sizes \union {MaxPosition}, AtClose(signal, price, f)
        PROVE  HoldInv'
    BY <1>2, HoldClose
  <1>3. CASE UNCHANGED vars
    BY <1>3 DEF vars, HoldInv, AllIn, Abreast, Untouched
  <1> QED BY <1>1, <1>2, <1>3 DEF Next

(* For every series, fee, slippage, fill timing and mode: a run that buys  *)
(* at the first close with all of the account, never sells and was charged *)
(* no funding ends with what the benchmark ends with, to the cent.         *)
THEOREM HoldersGetTheBenchmark == AffordsAUnit /\ Spec => []HoldingIsTheBenchmark
  <1>1. Inv /\ HoldInv => HoldingIsTheBenchmark
    <2> SUFFICES ASSUME Inv, HoldInv, at = "done", history.held, ~config.volTarget,
                        MaxPosition = 100, history.funding = 0
                 PROVE  account.cash = bench.cash
      BY DEF HoldingIsTheBenchmark
    <2>1. account.cash + history.funding = bench.cash /\ account.cash \in Int
      BY DEF Inv, TypeOK, Account, HoldInv, AllIn, Abreast
    <2> QED BY <2>1
  <1>2. CASE AffordsAUnit
    <2>1. Inv /\ HoldInv /\ [Next]_vars => HoldInv'
      BY <1>2, HoldStep
    <2> QED BY <1>1, <2>1, HoldInit, Invariance, PTL DEF Spec
  <1>3. CASE ~AffordsAUnit
    BY <1>3
  <1> QED BY <1>2, <1>3
=============================================================================
