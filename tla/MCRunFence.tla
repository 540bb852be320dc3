----------------------------- MODULE MCRunFence -----------------------------
(* Small instances of RunFence. *)
EXTENDS RunLedger, TLC
CONSTANTS x1, x2, f1
OneUpdate == (x1 :> "update")
OnePreference == (x1 :> "preferences")
OneCancel == (x1 :> "cancel")
NewAndUpdate == (x1 :> "new") @@ (x2 :> "update")

OneFact == [x \in Ops |-> f1]

Symmetry == Permutations(Owners) \union Permutations(Requests)
=============================================================================
