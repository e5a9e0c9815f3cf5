----------------------------- MODULE ThreadPool -----------------------------
(***************************************************************************)
(* The pool of src/src/concurrency/thread_pool.h. A step is a critical     *)
(* section of mutex_, or a notification, which the code sends after it has *)
(* released the mutex. What a job does is left to the module that uses the *)
(* pool: it moves a worker out of "job", and back to "loop" at its end.    *)
(***************************************************************************)
EXTENDS Naturals, Sequences

CONSTANT Workers     \* the threads

VARIABLES
    tasks,     \* tasks_
    stop,      \* stop_
    wpc,       \* wpc[w]: where worker w is
    job        \* job[w]: the task it took last, 0 for none

poolVars == <<tasks, stop, wpc, job>>

\* loop: about to lock mutex_; wait: blocked in cv_.wait(); gone: returned.
PoolPCs == {"loop", "wait", "job", "gone"}

PoolInit ==
    /\ tasks = <<>>
    /\ stop = FALSE
    /\ wpc = [w \in Workers |-> "loop"]
    /\ job = [w \in Workers |-> 0]

WorkerGoes(w, place) == wpc' = [wpc EXCEPT ![w] = place]

-----------------------------------------------------------------------------
\* submit(): the task is pushed ...
Push(task) ==
    /\ tasks' = Append(tasks, task)
    /\ UNCHANGED <<stop, wpc, job>>

\* ... and one waiting worker, if there is any, is woken.
NotifyOne ==
    /\ IF \E w \in Workers : wpc[w] = "wait"
       THEN \E w \in Workers : wpc[w] = "wait" /\ WorkerGoes(w, "loop")
       ELSE UNCHANGED wpc
    /\ UNCHANGED <<tasks, stop, job>>

\* ~ThreadPool(): the flag is raised ...
RaiseStop ==
    /\ stop' = TRUE
    /\ UNCHANGED <<tasks, wpc, job>>

\* Mistake: the destructor wakes one worker.
NotifyAllOne == NotifyOne

\* ... and all of them are woken, to be joined.
NotifyAll ==
    /\ wpc' = [w \in Workers |-> IF wpc[w] = "wait" THEN "loop" ELSE wpc[w]]
    /\ UNCHANGED <<tasks, stop, job>>

Joined == \A w \in Workers : wpc[w] = "gone"

\* workerLoop() up to job(): take the oldest task; without one wait, or return
\* when the pool stops. The queue is emptied before anybody returns.
Take(w) ==
    /\ wpc[w] = "loop"
    /\ IF tasks # <<>>
       THEN tasks' = Tail(tasks) /\ job' = [job EXCEPT ![w] = Head(tasks)] /\ WorkerGoes(w, "job")
       ELSE UNCHANGED <<tasks, job>> /\ WorkerGoes(w, IF stop THEN "gone" ELSE "wait")
    /\ UNCHANGED stop

\* A condition variable may wake for no reason.
WakeUp(w) ==
    /\ wpc[w] = "wait"
    /\ WorkerGoes(w, "loop")
    /\ UNCHANGED <<tasks, stop, job>>
=============================================================================
