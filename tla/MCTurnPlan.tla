----------------------------- MODULE MCTurnPlan -----------------------------
EXTENDS TurnPlan, TLC
CONSTANTS trip1, policy, travel
MCRole == (trip1 :> "trip_context") @@ (policy :> "policy_rag") @@ (travel :> "travel_info")
MCNeeds == (trip1 :> {}) @@ (policy :> {}) @@ (travel :> {policy})
MCRoute == (trip1 :> 3) @@ (policy :> 1) @@ (travel :> 2)
=============================================================================
