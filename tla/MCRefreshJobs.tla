---------------------------- MODULE MCRefreshJobs ----------------------------
(***************************************************************************)
(* The two queues of jobs in PostgreSQL, refreshes of the index and          *)
(* evaluations of turns, each with its leases and workers.  They share no    *)
(* state and are checked in one run: `part` is chosen in the first state and *)
(* the other does not move.                                                  *)
(***************************************************************************)
EXTENDS RefreshJobs, Evaluation, TLC
CONSTANTS t1, t2
VARIABLE part
queueVars == <<part, vars, evVars>>

\* A policy answer with its sources, one that states an amount without, and one
\* of a specialist that failed, too long to be kept.
Sourced == {"policy", "sources", "sampled"}
Unsourced == {"policy", "amount"}
Failing == {"policy", "sources", "failed", "truncated"}
MCAnswers == (t1 :> {Sourced, Unsourced}) @@ (t2 :> {Failing})

QueueInit == part \in {"jobs", "evaluation"} /\ Init /\ EVInit
QueueNext ==
  /\ UNCHANGED part
  /\ \/ part = "jobs" /\ Next /\ UNCHANGED evVars
     \/ part = "evaluation" /\ EVNext /\ UNCHANGED vars

\* The fairness of FairSpec and EVFairness, asked of the part that moves.
QueueFairness ==
  /\ \A w \in Workers : WF_vars(part = "jobs" /\ Works(w)) /\ SF_vars(part = "jobs" /\ Claim(w))
  /\ \A j \in Jobs :
       WF_vars(part = "jobs" /\ LeaseExpires(j)) /\ WF_vars(part = "jobs" /\ RetryFallsDue(j))
  /\ \A w \in Evaluators : WF_evVars(part = "evaluation" /\ Step(w))
  /\ \A r \in Turns : WF_evVars(part = "evaluation" /\ RunExpires(r))

QueueSpec == QueueInit /\ [][QueueNext]_queueVars /\ QueueFairness
=============================================================================
