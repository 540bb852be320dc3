----------------------------- MODULE IoExecutor -----------------------------
(***************************************************************************)
(* utils/io_executor.py: every blocking call of the AI service goes        *)
(* through one thread pool.  A semaphore admits a call before it is        *)
(* submitted; the executor's own queue is unbounded, and a caller may be   *)
(* cancelled while its call waits or runs.                                 *)
(***************************************************************************)
EXTENDS Naturals, FiniteSets, Sequences, Functions

CONSTANTS
  Calls,       \* calls of run_blocking
  MaxWorkers,  \* io_executor_max_workers
  MaxPending   \* io_executor_max_pending

ASSUME IoExecutorAssumption ==
  /\ IsFiniteSet(Calls)
  /\ MaxWorkers \in Nat \ {0} /\ MaxPending \in Nat

VARIABLES
  call,     \* where each call is
  callers,  \* the calls whose caller still waits
  jobs,     \* the executor's queue, the cancelled work items included
  permits   \* the admission semaphore

ioVars == <<call, callers, jobs, permits>>

Admission == MaxWorkers + MaxPending
States == {"new", "refused", "queued", "cancelled", "running", "returned"}
In(s) == {c \in Calls : call[c] = s}

IOTypeOK ==
  /\ call \in [Calls -> States]
  /\ callers \subseteq Calls
  /\ jobs \in Seq(Calls)
  /\ permits \in 0..Admission

IOInit ==
  /\ call = [c \in Calls |-> "new"]
  /\ callers = {} /\ jobs = <<>> /\ permits = Admission

\* run_blocking: acquire(blocking=False), then submit.
RunBlocking(c) ==
  /\ call[c] = "new" /\ permits > 0
  /\ permits' = permits - 1
  /\ jobs' = Append(jobs, c)
  /\ call' = [call EXCEPT ![c] = "queued"]
  /\ callers' = callers \cup {c}

RefuseCall(c) ==
  /\ call[c] = "new" /\ permits = 0
  /\ call' = [call EXCEPT ![c] = "refused"]
  /\ UNCHANGED <<callers, jobs, permits>>

ReleasesAlways(c) ==
  /\ c \in callers /\ call[c] \in {"queued", "running"}
  /\ callers' = callers \ {c}
  /\ permits' = permits + 1
  /\ call' = IF call[c] = "queued" THEN [call EXCEPT ![c] = "cancelled"] ELSE call
  /\ UNCHANGED jobs

\* The awaiting task is cancelled.  A future that no thread has taken is
\* cancelled with it, and its done callback releases the permit; the work item
\* stays in the queue.  A running call goes on and keeps its permit.
CancelCaller(c) ==
  /\ c \in callers /\ call[c] \in {"queued", "running"}
  /\ callers' = callers \ {c}
  /\ IF call[c] = "queued"
       THEN permits' = permits + 1 /\ call' = [call EXCEPT ![c] = "cancelled"]
       ELSE UNCHANGED <<permits, call>>
  /\ UNCHANGED jobs

\* A thread takes the oldest work item; it drops one that was cancelled.
TakeJob ==
  /\ jobs # <<>> /\ Cardinality(In("running")) < MaxWorkers
  /\ jobs' = Tail(jobs)
  /\ call' = IF call[Head(jobs)] = "queued"
               THEN [call EXCEPT ![Head(jobs)] = "running"] ELSE call
  /\ UNCHANGED <<callers, permits>>

\* The database or the network answers, and the done callback runs.
CallReturns(c) ==
  /\ call[c] = "running"
  /\ call' = [call EXCEPT ![c] = "returned"]
  /\ callers' = callers \ {c}
  /\ permits' = permits + 1
  /\ UNCHANGED jobs

IONext ==
  \/ \E c \in Calls : RunBlocking(c) \/ RefuseCall(c) \/ CancelCaller(c) \/ CallReturns(c)
  \/ TakeJob

IOSpec == IOInit /\ [][IONext]_ioVars

-----------------------------------------------------------------------------
\* The semaphore counts exactly the calls that a thread runs or will run: a
\* cancelled caller neither leaks a permit nor gives it back while its call
\* still runs (utils/io_executor.py:77-85).
PermitsMatchCalls ==
  permits + Cardinality(In("queued") \cup In("running")) = Admission
=============================================================================
