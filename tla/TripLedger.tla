----------------------------- MODULE TripLedger -----------------------------
(***************************************************************************)
(* What the runs of a user promise about the trips of the user's sessions, *)
(* with attempts, retries, crashes and messages hidden: in each session at *)
(* most one request at a time may write, it makes each of its changes at   *)
(* most once, and a request that was answered writes no more.  A deleted   *)
(* session takes one more change at most, of a request begun meanwhile.    *)
(***************************************************************************)
CONSTANTS Sessions, Requests, Ops, Kind, Fact, None

VARIABLES
    writer,     \* the request that may change a session's trip, if any
    done,       \* requests that were answered
    ledger,     \* the changes made: pairs of request and operation
    trips,      \* the active trip of each session
    open,       \* sessions not deleted
    fenced,     \* the requests that the deletion of a session has found
    late        \* deleted sessions with a change that is still being made

vars == <<writer, done, ledger, trips, open, fenced, late>>
session == <<open, fenced, late>>

Merged(x, t) ==
    CASE Kind[x] = "update" -> t \union {Fact[x]}
      [] Kind[x] = "new"    -> {Fact[x]}
      [] Kind[x] = "cancel" -> {}
      [] OTHER              -> t

Init ==
    /\ writer = [s \in Sessions |-> None]
    /\ done = {}
    /\ ledger = {}
    /\ trips = [s \in Sessions |-> {}]
    /\ open = Sessions
    /\ fenced = [s \in Sessions |-> {}]
    /\ late = {}

\* The records of some requests are past their retention.
WithoutForgotten(F) == [s \in Sessions |-> IF writer[s] \in F THEN None ELSE writer[s]]

\* A request that was not answered becomes the writer of its session.
Grant(s, r, F) ==
    /\ r \notin done \ F
    /\ writer' = [WithoutForgotten(F) EXCEPT ![s] = r]
    /\ done' = done \ F
    /\ UNCHANGED <<ledger, trips, session>>

\* An answer is given again.
Recall(F) ==
    /\ writer' = WithoutForgotten(F)
    /\ done' = done \ F
    /\ UNCHANGED <<ledger, trips, session>>

\* The writer is cancelled or stops.
Release(s) ==
    /\ writer[s] # None
    /\ writer' = [writer EXCEPT ![s] = None]
    /\ UNCHANGED <<done, ledger, trips, session>>

\* The writer answers.
Answer(s) ==
    /\ writer[s] # None
    /\ done' = done \union {writer[s]}
    /\ writer' = [writer EXCEPT ![s] = None]
    /\ UNCHANGED <<ledger, trips, session>>

\* The writer makes one of its changes, unless a deletion has found it.
Change(s, x) ==
    /\ s \in open \union late
    /\ writer[s] \notin fenced[s] \union {None}
    /\ <<writer[s], x>> \notin ledger
    /\ ledger' = ledger \union {<<writer[s], x>>}
    /\ trips' = [trips EXCEPT ![s] = Merged(x, @)]
    /\ late' = late \ {s}
    /\ UNCHANGED <<writer, done, open, fenced>>

\* The user deletes a session: first its requests are found, the writer among them.
Fence(s, found) ==
    /\ s \in open
    /\ writer[s] \in found \union {None}
    /\ fenced' = [fenced EXCEPT ![s] = found]
    /\ UNCHANGED <<writer, done, ledger, trips, open, late>>

\* Then the session is closed.  A writer that was granted in between stays, and
\* one change of it that is being made may still end.
Close(s) ==
    /\ s \in open
    /\ open' = open \ {s}
    /\ trips' \in {trips, [trips EXCEPT ![s] = {}]}
    /\ writer' = [writer EXCEPT ![s] = IF @ \in fenced[s] THEN None ELSE @]
    /\ late' \in {late, late \union {s}}
    /\ UNCHANGED <<done, ledger, fenced>>

\* The late change is refused.
Drop(s) ==
    /\ s \in late
    /\ late' = late \ {s}
    /\ UNCHANGED <<writer, done, ledger, trips, open, fenced>>

Next ==
    \/ \E s \in Sessions, r \in Requests, F \in SUBSET Requests : Grant(s, r, F)
    \/ \E F \in SUBSET Requests : Recall(F)
    \/ \E s \in Sessions : Release(s) \/ Answer(s) \/ Close(s) \/ Drop(s)
    \/ \E s \in Sessions, found \in SUBSET Requests : Fence(s, found)
    \/ \E s \in Sessions, x \in Ops : Change(s, x)

Spec == Init /\ [][Next]_vars
=============================================================================
