----------------------------- MODULE StepLedger -----------------------------
(***************************************************************************)
(* What the public plan of a turn promises of each step, whatever workers  *)
(* crash, are cancelled or take over: a step starts once it is registered, *)
(* an end is final, and only a cancelled step is reopened, once.           *)
(***************************************************************************)
EXTENDS Naturals

CONSTANT Ids
VARIABLE step      \* step[i].status and step[i].attempts

Endings == {"completed", "partial", "needs_input", "failed", "skipped", "cancelled"}
Statuses == {"none", "pending", "running"} \cup Endings

Allowed(s) ==
  CASE s = "none"    -> {"pending"}
    [] s = "pending" -> {"running", "skipped", "cancelled", "failed"}
    [] s = "running" -> {"completed", "partial", "needs_input", "failed", "cancelled"}
    [] OTHER         -> {}

\* A step keeps its number of attempts but for the one reopening.
Moved(old, new) ==
  \/ new = old
  \/ new.status \in Allowed(old.status) /\ new.attempts = old.attempts
  \/ old.status = "cancelled" /\ old.attempts = 1
     /\ new.status = "pending" /\ new.attempts = 2
  \/ old.status = "cancelled" /\ old.attempts = 2
     /\ new.status = "failed" /\ new.attempts = 2

Init == step = [i \in Ids |-> [status |-> "none", attempts |-> 1]]

Next == /\ step' \in [Ids -> [status : Statuses, attempts : 1..2]]
        /\ \A i \in Ids : Moved(step[i], step'[i])

Spec == Init /\ [][Next]_step
=============================================================================
