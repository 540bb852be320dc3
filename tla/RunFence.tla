------------------------------ MODULE RunFence ------------------------------
(***************************************************************************)
(* The durable run of one user's requests: the table supervisor_runs of    *)
(* agent_runtime/store.py, the attempts of agent_runtime/engine.py that    *)
(* execute a run, and the business transaction of MutationService.java     *)
(* that commits their changes.                                             *)
(*                                                                         *)
(* An attempt is named by its owner, the uuid4 that _begin writes into the *)
(* row.  Nothing here assumes that attempts exclude one another: a lease   *)
(* of the coordination layer may expire under a worker that still runs, a  *)
(* cancelled task leaves its database thread running, and a mutation POST  *)
(* may be sent twice and arrive late.  Only the row of the run stops them. *)
(*                                                                         *)
(* The transactions of the business service are read-committed.  A change  *)
(* and the deletion of a session take several steps each, between the      *)
(* statements whose order matters, and hold the rows they have locked.     *)
(*                                                                         *)
(* A trip is the set of facts merged into it, and its version is the trip   *)
(* itself: trip_version is a content hash (the random id of a new trip     *)
(* makes versions differ more often in the code than here).                *)
(***************************************************************************)
EXTENDS Naturals, FiniteSets

CONSTANTS
    Sessions,   \* chat sessions of the user
    Requests,   \* request ids chosen by the client
    Hashes,     \* fingerprints of a request's input
    Owners,     \* uuid4 values, one for each attempt (bounds the attempts)
    Ops,        \* results that propose a change, each its own operation id
    Kind,       \* what each operation does to the trip
    Facts,      \* facts a trip may hold
    Fact,       \* the fact an operation proposes; several may propose the same
    Copies,     \* how often BusinessClient.call may send one mutation
    MaxSaves,   \* bound: saves of one attempt in flight, abandoned ones included
    Aging,      \* may the 14 days of retention pass?
    Deletable,  \* bound: sessions the user may delete
    None        \* no owner, no session

ASSUME FenceAssumption ==
    /\ Kind \in [Ops -> {"update", "new", "cancel", "preferences"}]
    /\ Fact \in [Ops -> Facts]
    /\ None \notin Owners \union Sessions \union Requests \union Hashes
    /\ Copies \in Nat
    /\ MaxSaves \in Nat
    /\ Aging \in BOOLEAN
    /\ Deletable \subseteq Sessions

VARIABLES
    runs,       \* supervisor_runs, by request id
    clock,      \* counts inserted rows and receipts: NOW() behind created_at
    expired,    \* rows whose retention_until has passed
    open,       \* sessions neither deleted nor cleared
    trips,      \* active_trip_contexts, by session
    receipts,   \* business_operation_receipts
    used,       \* result ids given out: each is a fresh uuid4
    attempts,   \* the Turn object of each attempt
    writes,     \* UPDATEs of supervisor_runs on their way to the database
    posts,      \* mutation requests on their way to the business service
    applying,   \* the mutation whose transaction has passed the fence, if any
    deleting    \* the deletion of each session

vars == <<runs, clock, expired, open, trips, receipts, used, attempts, writes, posts,
          applying, deleting>>
transactions == <<applying, deleting>>
businessVars == <<open, trips, receipts, transactions>>

-----------------------------------------------------------------------------
Trips == SUBSET Facts

\* The trip after operation x was merged into trip t.
Effect(x, t) ==
    CASE Kind[x] = "update" -> t \union {Fact[x]}
      [] Kind[x] = "new"    -> {Fact[x]}
      [] Kind[x] = "cancel" -> {}
      [] OTHER              -> t

(* Turn.state, and the checkpoint column that stores it.  "plan_only" is   *)
(* the state that holds nothing but a public_plan.                         *)
Snapshots == [form: {"empty", "plan_only", "full"}, version: Trips,
              made: SUBSET Ops, base: [Ops -> Trips], applied: SUBSET Ops]

EmptySnapshot == [form |-> "empty", version |-> {}, made |-> {},
                  base |-> [x \in Ops |-> {}], applied |-> {}]

\* "stopped" stands for the statuses interrupted and failed, which only the
\* displayed plan tells apart.
Rows == [session: Sessions \union {None}, hash: Hashes \union {None},
         owner: Owners \union {None}, cancelled: BOOLEAN, born: Nat,
         status: {"absent", "running", "completed", "stopped"},
         checkpoint: Snapshots]

NoRow == [session |-> None, hash |-> None, owner |-> None, cancelled |-> FALSE,
          born |-> 0, status |-> "absent", checkpoint |-> EmptySnapshot]

Attempts == [pc: {"new", "begun", "working", "finishing", "stopping", "gone", "answered"},
             req: Requests \union {None}, session: Sessions \union {None}, born: Nat,
             state: Snapshots, durable: SUBSET Ops, call: SUBSET Ops]

NewAttempt == [pc |-> "new", req |-> None, session |-> None, born |-> 0,
               state |-> EmptySnapshot, durable |-> {}, call |-> {}]

Writes == [owner: Owners, snapshot: Snapshots,
           status: {"running", "completed", "stopped"}]
Posts == [owner: Owners, op: Ops, expected: Trips, copy: 1..Copies]
Receipts == [req: Requests, op: Ops, expected: Trips, version: Trips, created: Nat]

\* seen: the runs its UPDATE stops; gone: whether its DELETE finds a trip.
Deletions == [pc: {"none", "runs", "trip", "closed"}, seen: SUBSET Requests, gone: BOOLEAN]
NoDeletion == [pc |-> "none", seen |-> {}, gone |-> FALSE]

Exists(r) == runs[r].status # "absent"

\* SessionRepository.require, which every business operation of a turn calls.
Required(s) == s \in open

-----------------------------------------------------------------------------
(* Row locks: who writes a row waits for the transaction that holds it.    *)

UnderWay(s) == deleting[s].pc \in {"runs", "trip"}

HeldByMutation(r) == \E p \in applying : attempts[p.owner].req = r

Held(r) == HeldByMutation(r) \/ \E s \in Sessions : UnderWay(s) /\ r \in deleting[s].seen

\* A trip that does not exist cannot be locked; a cancelled one counts as none.
TripHeld(s) == deleting[s].pc = "trip" /\ deleting[s].gone

-----------------------------------------------------------------------------
(* Turn: an attempt issues writes; what is in flight survives the task that *)
(* issued it, because run_blocking cannot cancel a thread.                  *)

WriteOf(o, status) ==
    [owner |-> o, status |-> status, snapshot |-> attempts[o].state]

\* What a stop persists: taking the public snapshot turns the empty state of
\* an attempt that never loaded its context into a plan-only one.
StopWriteOf(o) ==
    [owner |-> o, status |-> "stopped",
     snapshot |-> IF attempts[o].state.form = "empty"
                  THEN [EmptySnapshot EXCEPT !.form = "plan_only"]
                  ELSE attempts[o].state]

\* The Turn object of an attempt that stops is of no more use.
Forgotten(a, pc) == [NewAttempt EXCEPT !.pc = pc, !.req = a.req, !.session = a.session,
                                       !.born = a.born]

\* RuntimeStopped, a cancelled task or an exception: the attempt records its stop.
Stopping(o) ==
    /\ writes' = writes \union {StopWriteOf(o)}
    /\ attempts' = [attempts EXCEPT ![o] = Forgotten(@, "stopping")]

\* Saves of one attempt follow one another, except that a save whose caller
\* was cancelled (a child's timeout) is still on its way when the next is sent.
CanSave(o) ==
    Cardinality({w \in writes : w.owner = o /\ w.status = "running"}) < MaxSaves

-----------------------------------------------------------------------------
(* RunStore._begin *)

\* The table after the DELETE of the rows past their retention.
Kept(q) == IF q \in expired THEN NoRow ELSE runs[q]

Inserted(r, s, h, o) ==
    [NoRow EXCEPT !.session = s, !.hash = h, !.owner = o,
                  !.status = "running", !.born = clock + 1]

\* The row SELECT ... FOR UPDATE returns, after INSERT ... ON CONFLICT DO NOTHING.
Selected(r, s, h, o) ==
    IF Kept(r).status = "absent" THEN Inserted(r, s, h, o) ELSE Kept(r)

\* Only an open session inserts; a request id stays with its session and input.
Admitted(r, s, h, o) ==
    /\ Kept(r).status = "absent" => s \in open
    /\ Selected(r, s, h, o).session = s
    /\ Selected(r, s, h, o).hash = h

Superseded(r, s, born) ==
    \E q \in Requests : /\ Kept(q).status # "absent"
                        /\ Kept(q).session = s
                        /\ Kept(q).born > born

NotInterrupted(row) == row

\* What becomes of the other running runs of the session.
Interrupted(row) == [row EXCEPT !.status = "stopped", !.cancelled = TRUE]

\* The statements up to FOR UPDATE lock the rows past retention and the request's.
Selectable(r) == \A q \in expired \union {r} : ~Held(q)

\* A completed run answers the retry from its stored response.
Replay(o, r, s, h) ==
    /\ attempts[o].pc = "new" /\ Selectable(r)
    /\ Admitted(r, s, h, o)
    /\ Kept(r).status = "completed"
    /\ runs' = [q \in Requests |-> Kept(q)]
    /\ expired' = {}
    /\ attempts' = [attempts EXCEPT ![o] =
            [NewAttempt EXCEPT !.pc = "answered", !.req = r, !.session = s,
                               !.born = Kept(r).born, !.state = Kept(r).checkpoint]]
    /\ UNCHANGED <<clock, writes, posts, businessVars, used>>

Begin(o, r, s, h) ==
    LET row == Selected(r, s, h, o) IN
    /\ attempts[o].pc = "new" /\ Selectable(r)
    /\ Admitted(r, s, h, o)
    /\ Kept(r).status # "completed"
    /\ ~Superseded(r, s, row.born)
    /\ \A q \in Requests : Kept(q).session = s /\ Kept(q).status = "running" => ~Held(q)
    /\ runs' = [q \in Requests |->
            IF q = r THEN [row EXCEPT !.owner = o, !.status = "running", !.cancelled = FALSE]
            ELSE IF Kept(q).session = s /\ Kept(q).status = "running"
                 THEN Interrupted(Kept(q))
                 ELSE Kept(q)]
    /\ clock' = IF Kept(r).status = "absent" THEN clock + 1 ELSE clock
    /\ expired' = {}
    /\ attempts' = [attempts EXCEPT ![o] =
            [NewAttempt EXCEPT !.pc = "begun", !.req = r, !.session = s,
                               !.born = row.born, !.state = row.checkpoint]]
    /\ UNCHANGED <<writes, posts, businessVars, used>>

-----------------------------------------------------------------------------
(* Turn.execute: load the state of the attempt. *)

\* RunStore._previous: the youngest other run of the session.
Previous(r, s) ==
    {q \in Requests \ {r} : /\ Exists(q) /\ runs[q].session = s /\ q \notin expired
                            /\ \A p \in Requests \ {r} :
                                (Exists(p) /\ runs[p].session = s /\ p \notin expired)
                                    => runs[p].born <= runs[q].born}

\* A fresh request reads the trip and inherits the earlier results.
FreshState(r, s) ==
    LET before == {runs[q].checkpoint : q \in Previous(r, s)}
        none == {EmptySnapshot}
        old == CHOOSE c \in (IF before = {} THEN none ELSE before) : TRUE
    IN  [form |-> "full", version |-> trips[s], made |-> old.made,
         base |-> old.base, applied |-> old.applied]

\* services.context refuses a closed session; a saved plan has no transcript.
LoadContext(o) ==
    LET a == attempts[o] IN
    /\ a.pc = "begun" /\ CanSave(o)
    /\ Required(a.session)
    /\ a.state.form # "plan_only"
    /\ \E state \in {IF a.state.form = "empty" THEN FreshState(a.req, a.session) ELSE a.state} :
        /\ attempts' = [attempts EXCEPT ![o].pc = "working", ![o].state = state]
        /\ writes' = writes \union {[owner |-> o, status |-> "running", snapshot |-> state]}
    /\ UNCHANGED <<runs, clock, expired, posts, businessVars, used>>

\* The context call fails or is cancelled, or the checkpoint has no transcript.
LoadFails(o) ==
    /\ attempts[o].pc = "begun"
    /\ Stopping(o)
    /\ UNCHANGED <<runs, clock, expired, posts, businessVars, used>>

-----------------------------------------------------------------------------
(* Turn.loop: work on the loaded state. *)

\* A specialist task is registered under a fresh id at the current version, and
\* checkpointed before it runs.
Produce(o, x) ==
    LET a == attempts[o]
        state == [a.state EXCEPT !.made = @ \union {x}, !.base[x] = a.state.version] IN
    /\ a.pc = "working" /\ a.call = {} /\ CanSave(o)
    /\ x \notin used
    /\ used' = used \union {x}
    /\ attempts' = [attempts EXCEPT ![o].state = state]
    /\ writes' = writes \union {[owner |-> o, status |-> "running", snapshot |-> state]}
    /\ UNCHANGED <<runs, clock, expired, posts, businessVars>>

\* Any later checkpoint, from a parallel task or the end of a round.
Save(o) ==
    /\ attempts[o].pc = "working" /\ CanSave(o)
    /\ WriteOf(o, "running") \notin writes
    /\ writes' = writes \union {WriteOf(o, "running")}
    /\ UNCHANGED <<runs, clock, expired, attempts, posts, businessVars, used>>

CommittableAtAnyVersion(a, x) == x \in a.durable \ a.state.applied

\* Turn.results: only a result of the current trip version may be committed.
Committable(a, x) ==
    /\ x \in a.durable
    /\ x \notin a.state.applied
    /\ a.state.base[x] = a.state.version

ReuseUnseen(o, x) ==
    LET a == attempts[o] IN
    /\ a.pc = "working" /\ a.call = {}
    /\ Committable(a, x)
    /\ Kind[x] = "update"
    /\ attempts' = [attempts EXCEPT ![o].state.applied = @ \union {x}]
    /\ UNCHANGED <<runs, clock, expired, writes, posts, businessVars, used>>

\* apply_changes of a change that is in the trip already writes nothing.
Reuse(o, x) ==
    LET a == attempts[o] IN
    /\ a.pc = "working" /\ a.call = {}
    /\ Committable(a, x)
    /\ Kind[x] = "update" /\ Fact[x] \in a.state.version
    /\ attempts' = [attempts EXCEPT ![o].state.applied = @ \union {x}]
    /\ UNCHANGED <<runs, clock, expired, writes, posts, businessVars, used>>

Sent(o, x) ==
    {[owner |-> o, op |-> x, expected |-> attempts[o].state.version, copy |-> c] :
        c \in 1..Copies}

\* apply_changes posts the mutation; the client may send it Copies times.
Submit(o, x) ==
    LET a == attempts[o] IN
    /\ a.pc = "working" /\ a.call = {}
    /\ Committable(a, x)
    /\ ~(Kind[x] = "update" /\ Fact[x] \in a.state.version)
    /\ attempts' = [attempts EXCEPT ![o].call = {x}]
    /\ posts' = posts \union Sent(o, x)
    /\ UNCHANGED <<runs, clock, expired, writes, businessVars, used>>

OwnedInAnyStatus(o) ==
    runs[attempts[o].req].owner = o /\ runs[attempts[o].req].session = attempts[o].session

\* The row is this attempt's and runs.
Owned(o) ==
    LET row == runs[attempts[o].req] IN
    /\ row.owner = o
    /\ row.session = attempts[o].session
    /\ row.status = "running"

\* The monitor, or the check before a round, finds the run taken or cancelled.
Fenced(o) == ~(Owned(o) /\ ~runs[attempts[o].req].cancelled)

Check(o) ==
    /\ attempts[o].pc = "working"
    /\ Fenced(o)
    /\ Stopping(o)
    /\ UNCHANGED <<runs, clock, expired, posts, businessVars, used>>

\* The loop returns, or a timeout, a limit or an upstream failure makes it
\* fall back: a response is rendered and saved with status completed.
Finish(o) ==
    /\ attempts[o].pc = "working"
    /\ attempts' = [attempts EXCEPT ![o].pc = "finishing", ![o].call = {}, ![o].durable = {}]
    /\ writes' = writes \union {WriteOf(o, "completed")}
    /\ UNCHANGED <<runs, clock, expired, posts, businessVars, used>>

\* The task is cancelled (lost lease, client gone, request timeout), or the
\* last save raises; what is in flight stays in flight.
Abort(o) ==
    /\ attempts[o].pc \in {"working", "finishing"}
    /\ Stopping(o)
    /\ UNCHANGED <<runs, clock, expired, posts, businessVars, used>>

\* The process dies.  What it had sent may still arrive.
Crash(o) ==
    /\ attempts[o].pc \in {"begun", "working", "finishing", "stopping"}
    /\ attempts' = [attempts EXCEPT ![o] = Forgotten(@, "gone")]
    /\ UNCHANGED <<runs, clock, expired, writes, posts, businessVars, used>>

-----------------------------------------------------------------------------
(* RunStore._save and RunStore._stop, when the database executes them. *)

Stops(w) == w.status = "stopped"

\* A save is fenced by owner, status and the cancel flag; a stop by the first two.
Accepted(w) == Owned(w.owner) /\ (Stops(w) \/ ~runs[attempts[w.owner].req].cancelled)

Land(w) ==
    LET o == w.owner IN
    /\ w \in writes
    /\ Accepted(w) /\ ~Held(attempts[o].req)
    /\ writes' = writes \ {w}
    /\ runs' = [runs EXCEPT ![attempts[o].req].checkpoint = w.snapshot,
                            ![attempts[o].req].status = w.status]
    /\ attempts' =
        CASE w.status = "running" /\ attempts[o].pc = "working" ->
                [attempts EXCEPT ![o].durable = @ \union w.snapshot.made]
          [] w.status = "completed" /\ attempts[o].pc = "finishing" ->
                [attempts EXCEPT ![o].pc = "answered"]
          [] Stops(w) /\ attempts[o].pc = "stopping" ->
                [attempts EXCEPT ![o] = Forgotten(@, "gone")]
          [] OTHER -> attempts
    /\ UNCHANGED <<clock, expired, posts, businessVars, used>>

\* The UPDATE matches no row.  A save raises RuntimeStopped in the attempt that
\* waits for it, a stop is silently over; a refusal nobody waits for is no step,
\* no more than a write that never arrives.
RefuseSave(w) ==
    /\ \/ w.status = "completed" /\ attempts[w.owner].pc = "finishing"
       \/ w.status = "running" /\ attempts[w.owner].pc = "working"
    /\ writes' = (writes \ {w}) \union {StopWriteOf(w.owner)}
    /\ attempts' = [attempts EXCEPT ![w.owner] = Forgotten(@, "stopping")]

RefuseStop(w) ==
    /\ Stops(w) /\ attempts[w.owner].pc = "stopping"
    /\ writes' = writes \ {w}
    /\ attempts' = [attempts EXCEPT ![w.owner] = Forgotten(@, "gone")]

Refuse(w) ==
    /\ w \in writes
    /\ ~Accepted(w)
    /\ RefuseSave(w) \/ RefuseStop(w)
    /\ UNCHANGED <<runs, clock, expired, posts, businessVars, used>>

-----------------------------------------------------------------------------
(* MutationService.apply: one transaction at a time, for it begins with the *)
(* user's advisory lock, and then locks the row of the run and the trip.    *)
(* One that is rolled back leaves nothing, and is no step.                  *)

Taken(p) == p \in posts /\ applying = {} /\ ~Held(attempts[p.owner].req)

ReceiptFor(p) ==
    {e \in receipts : e.req = attempts[p.owner].req /\ e.op = p.op}

OwnedPost(p) ==
    /\ runs[attempts[p.owner].req].owner = p.owner
    /\ runs[attempts[p.owner].req].session = attempts[p.owner].session

NotStopped(r) == runs[r].status = "running"

\* The run may still change the trip.
Live(r) == runs[r].status = "running" /\ ~runs[r].cancelled

\* The attempt waits for this operation.  A response it does not hear is no
\* step unless the transaction changed something.
Waiting(p) == attempts[p.owner].pc = "working" /\ p.op \in attempts[p.owner].call

\* The state after a receipt: the trip of the turn moves to its version.
WithReceipt(state, x, version) ==
    [state EXCEPT !.version = version, !.base[x] = version, !.applied = @ \union {x}]

Hear(p, version) ==
    /\ Waiting(p)
    /\ attempts' = [attempts EXCEPT ![p.owner].call = {},
                                    ![p.owner].state = WithReceipt(@, p.op, version)]

\* The fence is good: the run is this attempt's and live, its session is open.
Enter(p) ==
    /\ Taken(p)
    /\ OwnedPost(p)
    /\ ReceiptFor(p) = {}
    /\ Live(attempts[p.owner].req)
    /\ Required(attempts[p.owner].session)
    /\ applying' = {p}
    /\ UNCHANGED <<runs, clock, expired, open, trips, receipts, used, attempts, writes, posts,
                   deleting>>

\* The version is good: trip and receipt commit together.
Commit(p) ==
    LET a == attempts[p.owner]
        after == Effect(p.op, trips[a.session]) IN
    /\ p \in applying
    /\ ~TripHeld(a.session)
    /\ trips[a.session] = p.expected
    /\ trips' = [trips EXCEPT ![a.session] = after]
    /\ receipts' = receipts \union
            {[req |-> a.req, op |-> p.op, expected |-> p.expected, version |-> after,
              created |-> clock + 1]}
    /\ clock' = clock + 1
    /\ Hear(p, after) \/ UNCHANGED attempts
    /\ posts' = posts \ {p} /\ applying' = {}
    /\ UNCHANGED <<runs, expired, open, used, writes, deleting>>

\* The operation was committed before with the same payload: its receipt is
\* returned, whatever became of the run's status since.
ReturnReceipt(p) ==
    /\ Taken(p)
    /\ OwnedPost(p)
    /\ \E e \in ReceiptFor(p) : e.expected = p.expected /\ Hear(p, e.version)
    /\ posts' = posts \ {p}
    /\ UNCHANGED <<runs, clock, expired, businessVars, used, writes>>

\* RUN_STOPPED reaches the attempt as RuntimeStopped.
RejectStopped(p) ==
    /\ Taken(p)
    /\ ~OwnedPost(p) \/ (ReceiptFor(p) = {} /\ ~Live(attempts[p.owner].req))
    /\ Waiting(p) /\ Stopping(p.owner)
    /\ posts' = posts \ {p}
    /\ UNCHANGED <<runs, clock, expired, businessVars, used>>

\* The attempt goes on without the change.
Unheard(o) == [attempts EXCEPT ![o].call = {}]

\* OPERATION_CONFLICT and SESSION_NOT_FOUND change nothing.
RejectConflict(p) ==
    /\ Taken(p)
    /\ OwnedPost(p)
    /\ \/ \E e \in ReceiptFor(p) : e.expected # p.expected
       \/ /\ ReceiptFor(p) = {}
          /\ Live(attempts[p.owner].req) /\ ~Required(attempts[p.owner].session)
    /\ Waiting(p) /\ attempts' = Unheard(p.owner)
    /\ posts' = posts \ {p}
    /\ UNCHANGED <<runs, clock, expired, businessVars, used, writes>>

\* Nor does TRIP_CONFLICT, after the trip was locked and read.
RejectVersion(p) ==
    LET s == attempts[p.owner].session IN
    /\ p \in applying
    /\ ~TripHeld(s) /\ trips[s] # p.expected
    /\ Waiting(p) /\ attempts' = Unheard(p.owner)
    /\ posts' = posts \ {p} /\ applying' = {}
    /\ UNCHANGED <<runs, clock, expired, open, trips, receipts, used, writes, deleting>>

-----------------------------------------------------------------------------
\* RunStore._cancel: the user interrupts the request.
Cancel(r) ==
    /\ runs[r].status = "running" /\ ~runs[r].cancelled /\ ~Held(r)
    /\ runs' = [runs EXCEPT ![r].cancelled = TRUE]
    /\ UNCHANGED <<clock, expired, attempts, writes, posts, businessVars, used>>

-----------------------------------------------------------------------------
(* SessionRepository.delete: what its statements write is seen when it      *)
(* commits, and the rows they found are held until then.                    *)

\* What becomes of a run the deletion has found.
StoppedRun(row) ==
    [row EXCEPT !.cancelled = TRUE, !.status = IF @ = "running" THEN "stopped" ELSE @]

RunsOf(s) == {r \in Requests : Exists(r) /\ runs[r].session = s}

\* The session is open, and the UPDATE of supervisor_runs finds its runs.
DeleteRuns(s) ==
    /\ s \in open \intersect Deletable /\ ~UnderWay(s)
    /\ \A r \in RunsOf(s) : ~Held(r)
    /\ deleting' = [deleting EXCEPT ![s] = [pc |-> "runs", seen |-> RunsOf(s), gone |-> FALSE]]
    /\ UNCHANGED <<runs, clock, expired, open, trips, receipts, used, attempts, writes, posts,
                   applying>>

\* The DELETE of active_trip_contexts, which waits for a transaction that holds
\* the trip and does not see one that this transaction is about to insert.
DeleteTrip(s) ==
    /\ deleting[s].pc = "runs"
    /\ trips[s] # {} => \A p \in applying : attempts[p.owner].session # s
    /\ deleting' = [deleting EXCEPT ![s].pc = "trip", ![s].gone = trips[s] # {}]
    /\ UNCHANGED <<runs, clock, expired, open, trips, receipts, used, attempts, writes, posts,
                   applying>>

CommitDelete(s) ==
    /\ deleting[s].pc = "trip"
    /\ deleting' = [deleting EXCEPT ![s].pc = "closed"]
    /\ open' = open \ {s}
    /\ trips' = IF deleting[s].gone THEN [trips EXCEPT ![s] = {}] ELSE trips
    /\ runs' = [r \in Requests |->
            IF r \in deleting[s].seen THEN StoppedRun(runs[r]) ELSE runs[r]]
    /\ UNCHANGED <<clock, expired, receipts, used, attempts, writes, posts, applying>>

\* Fourteen days pass for a row; older rows are past them already.
RetentionElapses(r) ==
    /\ Aging
    /\ Exists(r) /\ r \notin expired
    /\ \A q \in Requests : (Exists(q) /\ runs[q].born < runs[r].born) => q \in expired
    /\ expired' = expired \union {r}
    /\ UNCHANGED <<runs, clock, attempts, writes, posts, businessVars, used>>

-----------------------------------------------------------------------------
Init ==
    /\ runs = [r \in Requests |-> NoRow]
    /\ clock = 0
    /\ expired = {}
    /\ open = Sessions
    /\ trips = [s \in Sessions |-> {}]
    /\ receipts = {}
    /\ used = {}
    /\ attempts = [o \in Owners |-> NewAttempt]
    /\ writes = {}
    /\ posts = {}
    /\ applying = {}
    /\ deleting = [s \in Sessions |-> NoDeletion]

StoreNext ==
    \/ \E o \in Owners, r \in Requests, s \in Sessions, h \in Hashes :
            Begin(o, r, s, h) \/ Replay(o, r, s, h)
    \/ \E w \in writes : Land(w) \/ Refuse(w)
    \/ \E r \in Requests : Cancel(r) \/ RetentionElapses(r)

TurnNext(o) ==
    \/ LoadContext(o) \/ LoadFails(o)
    \/ \E x \in Ops : Produce(o, x) \/ Reuse(o, x) \/ Submit(o, x)
    \/ Save(o) \/ Check(o) \/ Finish(o) \/ Abort(o) \/ Crash(o)

BusinessNext ==
    \/ \E p \in posts : \/ Enter(p) \/ ReturnReceipt(p) \/ RejectStopped(p) \/ RejectConflict(p)
                       \/ Commit(p) \/ RejectVersion(p)
    \/ \E s \in Sessions : DeleteRuns(s) \/ DeleteTrip(s) \/ CommitDelete(s)

Next == StoreNext \/ (\E o \in Owners : TurnNext(o)) \/ BusinessNext

Spec == Init /\ [][Next]_vars

-----------------------------------------------------------------------------
(* Properties *)

TypeOK ==
    /\ runs \in [Requests -> Rows]
    /\ clock \in Nat
    /\ expired \subseteq Requests
    /\ open \subseteq Sessions
    /\ trips \in [Sessions -> Trips]
    /\ receipts \subseteq Receipts
    /\ used \subseteq Ops
    /\ attempts \in [Owners -> Attempts]
    /\ writes \subseteq Writes
    /\ posts \subseteq Posts
    /\ applying \subseteq Posts
    /\ deleting \in [Sessions -> Deletions]

Running(r) == runs[r].status = "running"

\* A run that is running is younger than every other run of its session, so
\* that a session never has two: _begin interrupts the others and refuses a
\* request a later message has replaced.
OnlyNewestRuns ==
    \A r, q \in Requests :
        /\ Running(r) /\ Exists(q) /\ q # r /\ runs[q].session = runs[r].session
        => runs[q].born < runs[r].born

\* A request commits one operation at most once, over all its attempts, the
\* second sends of its POSTs and its retries (the receipts of
\* MutationService.apply).
OneReceipt ==
    \A d, e \in receipts : d.req = e.req /\ d.op = e.op => d = e

\* One run of a session at a time, and one receipt of an operation (store.py:66-94,
\* MutationService.java:54-96).
RunsAreSound == OnlyNewestRuns /\ OneReceipt

\* A transaction committed the change that x proposes, or a new trip that has it.
Committed(x) ==
    \E e \in receipts : /\ Fact[e.op] = Fact[x]
                        /\ Kind[e.op] = Kind[x] \/ (Kind[e.op] = "new" /\ Kind[x] = "update")

\* What an attempt, a checkpoint or a stored answer says is saved was committed
\* by a transaction: no crash, resumption or lost response makes applied_results
\* run ahead of the receipts.
ClaimsAreCommitted ==
    /\ \A r \in Requests : \A x \in runs[r].checkpoint.applied : Committed(x)
    /\ \A o \in Owners : \A x \in attempts[o].state.applied : Committed(x)

\* However many attempts of a request answer its client (the one that
\* completes it and every replay), they give the same answer.
OneAnswer ==
    \A o, n \in Owners :
        /\ attempts[o].pc = "answered" /\ attempts[n].pc = "answered"
        /\ attempts[o].req = attempts[n].req /\ attempts[o].born = attempts[n].born
        => attempts[o].state = attempts[n].state

\* "会话删除/清空同步清理派生检查点、计划记录和活动行程" (the deletion of a session clears
\* its active trip, docs/plans/2026-09-08-supervisor-implementation-and-rollback.md:69).
\* A run begun after the deletion's UPDATE of the runs inserts the trip after its
\* DELETE (SessionRepository.java:128, 143; MutationService.java:97-110).
ClosedHasNoTrip == \A s \in Sessions \ open : trips[s] = {}

\* A mutation the current owner sends again is the one its receipt was written
\* for: the attempt is never told OPERATION_CONFLICT about its own change.
ReplayMatches ==
    \A p \in posts : OwnedPost(p) => \A e \in ReceiptFor(p) : e.expected = p.expected

\* A run that completed keeps its answer, and no late POST of one of its
\* attempts commits anything any more.
CompletedIsFinal ==
    [][\A r \in Requests :
        runs[r].status = "completed" /\ runs'[r].born = runs[r].born =>
            /\ runs'[r].status = "completed"
            /\ runs'[r].checkpoint = runs[r].checkpoint
            /\ {e \in receipts' : e.req = r} = {e \in receipts : e.req = r}]_vars

\* Whatever is committed is committed for the newest request of its session: a
\* superseded or cancelled turn changes no trip, nor does a turn that a deletion of
\* the session has found, whichever statements of the two transactions came between
\* its fence and its write.  Only a turn begun during the deletion may still commit.
NewestCommits ==
    [][\A e \in receipts' \ receipts :
        LET s == runs[e.req].session IN
        /\ ~runs[e.req].cancelled
        /\ e.req \notin deleting[s].seen
        /\ \A q \in Requests : Exists(q) /\ runs[q].session = s
                                => runs[q].born <= runs[e.req].born]_vars

\* A request that failed with a retryable error can be retried: the checkpoint
\* it left is empty or holds a transcript to go on from.
RetryFindsTranscript ==
    \A r \in Requests : runs[r].checkpoint.form # "plan_only"
=============================================================================
