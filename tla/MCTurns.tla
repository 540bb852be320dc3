------------------------------- MODULE MCTurns -------------------------------
(***************************************************************************)
(* A turn from without and from within: the scopes that admit it, with     *)
(* their locks and leases, and the plan it executes.  They share no state  *)
(* and are checked in one run: `part` is chosen in the first state and the *)
(* other does not move.                                                    *)
(***************************************************************************)
EXTENDS MCTurnPlan, SessionCoordination
VARIABLE part
turnVars == <<part, vars, scVars>>

TurnsInit ==
  /\ part \in {"scopes", "plan"} /\ Init /\ SCInit
  /\ part = "scopes" => mode = "form" /\ ~profile
TurnsNext ==
  /\ UNCHANGED part
  /\ \/ part = "scopes" /\ SCNext /\ UNCHANGED vars
     \/ part = "plan" /\ Next /\ UNCHANGED scVars

\* The fairness of FairSpec and SCFairSpec, asked of the part that moves.
TurnsFairness ==
  /\ WF_vars(part = "plan" /\ Segment) /\ WF_vars(part = "plan" /\ Replies)
  /\ WF_scVars(part = "scopes" /\ Tick)
  /\ \A p \in Scopes :
       /\ WF_scVars(part = "scopes" /\ Goes(p))
       /\ WF_scVars(part = "scopes" /\ Beats(p))

TurnsSpec == TurnsInit /\ [][TurnsNext]_turnVars /\ TurnsFairness
=============================================================================
