------------------------------ MODULE RunLedger ------------------------------
(* RunFence implements TripLedger. *)
EXTENDS RunFence

\* The request that may commit changes in session s.
Writers(s) == {r \in Requests : /\ Running(r) /\ ~runs[r].cancelled
                                /\ runs[r].session = s}

Writer == [s \in Sessions |-> IF Writers(s) = {} THEN None
                              ELSE CHOOSE r \in Writers(s) : TRUE]

Ledger == INSTANCE TripLedger WITH
    writer <- Writer,
    done   <- {r \in Requests : runs[r].status = "completed"},
    ledger <- {<<e.req, e.op>> : e \in receipts},
    fenced <- [s \in Sessions |-> deleting[s].seen],
    late   <- {attempts[p.owner].session : p \in applying} \ open

\* The runs with all their attempts behave as one ledger of changes.
ImplementsLedger == Ledger!Spec
=============================================================================
