---------------------------- MODULE SessionTables ----------------------------
(***************************************************************************)
(* The transactions on the tables of a session, statement by statement,     *)
(* under READ COMMITTED:                                                    *)
(*   src/backend/.../session/SessionRepository.java  append, delete         *)
(*   src/agent_runtime/store.py                      _begin, _save          *)
(*   src/backend/.../agent/MutationService.java      apply                  *)
(*   src/webui_new/manager.py                        the order of a turn    *)
(* A statement reads what is committed when it starts, waits for the rows   *)
(* it locks and then checks its WHERE clause again.  What a transaction     *)
(* wrote is visible from its commit on; until then the rows are locked.     *)
(***************************************************************************)
EXTENDS Integers, FiniteSets

CONSTANTS
    Turns,        \* workers that serve a message, one at a time
    Deleters,     \* requests that delete a session
    Requests,
    Sessions,
    SessionOf,    \* the session of each request
    MaxBegins,    \* bound: how many turns begin in a behaviour
    None

ASSUME TablesAssumption ==
    /\ SessionOf \in [Requests -> Sessions]
    /\ Turns \intersect Deleters = {} /\ None \notin Turns \union Deleters
    /\ MaxBegins \in Nat

VARIABLES
    sessions,     \* conversation_sessions
    messages,     \* conversation_messages
    runs,         \* supervisor_runs
    trips,        \* sessions that have a row in active_trip_contexts
    locks,        \* who holds a row lock
    actors,       \* the transaction and the statement each actor is at
    clock         \* NOW() of the youngest begin

tables == <<sessions, messages, runs, trips>>
vars == <<tables, locks, actors, clock>>

-----------------------------------------------------------------------------
Actors == Turns \union Deleters
Rows == ({"session", "trip"} \X Sessions) \union ({"run"} \X Requests)

Message == [req: Requests, role: {"user", "assistant"}, seq: Nat, deleted: BOOLEAN]
Run == [status: {"absent", "running", "completed", "interrupted"},
        cancelled: BOOLEAN, born: Nat, owner: Nat]

Actor == [pc: {"idle", "lock", "write", "insert", "select", "newer", "others", "interrupt",
               "working", "require", "trip", "save",
               "check", "rows", "locking", "stopping", "trips", "deleted"},
          req: Requests \union {None}, role: {"user", "assistant"},
          owner: Nat, inserted: BOOLEAN, session: Sessions \union {None},
          todo: SUBSET Requests, touched: SUBSET Requests]

Idle == [pc |-> "idle", req |-> None, role |-> "user", owner |-> 0, inserted |-> FALSE,
         session |-> None, todo |-> {}, touched |-> {}]

At(a, pc) == actors[a].pc = pc
Exists(r) == runs[r].status # "absent"
RunsOf(s) == {r \in Requests : SessionOf[r] = s /\ Exists(r)}

LockedByRequest(row, a) == [locks EXCEPT ![row] = actors[a].req]
Locked(row, a) == [locks EXCEPT ![row] = a]
Available(row, a) == locks[row] \in {None, a}
Released(a) == [row \in Rows |-> IF locks[row] = a THEN None ELSE locks[row]]

Goto(a, pc) ==
    /\ actors' = [actors EXCEPT ![a].pc = pc]
    /\ UNCHANGED <<tables, locks, clock>>

Take(a, row, pc) ==
    /\ Available(row, a)
    /\ locks' = Locked(row, a)
    /\ actors' = [actors EXCEPT ![a].pc = pc]
    /\ UNCHANGED <<tables, clock>>

\* A transaction is over; its turn goes on with the next.
Onward(t, pc, role) ==
    /\ actors' = [actors EXCEPT ![t] = [Idle EXCEPT
            !.pc = pc, !.req = actors[t].req, !.session = actors[t].session,
            !.owner = actors[t].owner, !.role = role]]
    /\ locks' = Released(t)

\* The last transaction of an actor is over.
Leave(a) ==
    /\ actors' = [actors EXCEPT ![a] = Idle]
    /\ locks' = Released(a)

\* A transaction is rolled back, and its actor gives up.
Rollback(a) == Leave(a) /\ UNCHANGED <<tables, clock>>

MyRun(t) == <<"run", actors[t].req>>
MySession(a) == <<"session", actors[a].session>>
MyTrip(a) == <<"trip", actors[a].session>>
Closed(a) == sessions[actors[a].session].closed

-----------------------------------------------------------------------------
(* A turn stores the user's message, begins its run, works, completes the   *)
(* run and stores the answer.                                               *)

Ask(t, r) ==
    /\ At(t, "idle")
    /\ actors' = [actors EXCEPT ![t] =
            [Idle EXCEPT !.pc = "lock", !.req = r, !.session = SessionOf[r]]]
    /\ UNCHANGED <<tables, locks, clock>>

AppendUnlocked(t) == At(t, "lock") /\ Goto(t, "write")

\* append: requireSession, and SELECT ... WHERE status='active' FOR UPDATE.
LockSession(t) ==
    /\ At(t, "lock")
    /\ IF Closed(t) THEN Rollback(t) ELSE Take(t, MySession(t), "write")

Stored(t) == \E m \in messages : m.req = actors[t].req /\ m.role = actors[t].role

CountedAgain(t) == 1
Counted(t) == IF Stored(t) THEN 0 ELSE 1

\* append: the message is there already, or takes the next number; then the commit.
Write(t) ==
    LET s == actors[t].session IN
    /\ At(t, "write")
    /\ sessions' = [sessions EXCEPT ![s].last = @ + Counted(t)]
    /\ messages' = IF Stored(t) THEN messages ELSE messages \union
            {[req |-> actors[t].req, role |-> actors[t].role,
              seq |-> sessions'[s].last, deleted |-> FALSE]}
    /\ IF actors[t].role = "user" THEN Onward(t, "insert", "user") ELSE Leave(t)
    /\ UNCHANGED <<runs, trips, clock>>

-----------------------------------------------------------------------------
(* RunStore._begin *)

Beginning(t) == actors[t].pc \in {"select", "newer", "others", "interrupt"}

\* "Called only while the ... lease is held": no two begins in a session at once.
Leased(t) == \A u \in Turns \ {t} :
    Beginning(u) => actors[u].session # actors[t].session

\* INSERT ... SELECT from an open session, ON CONFLICT DO NOTHING.
Insert(t) ==
    LET new == ~Closed(t) /\ ~Exists(actors[t].req) IN
    /\ At(t, "insert") /\ Leased(t) /\ clock < MaxBegins
    /\ new => Available(MyRun(t), t)
    /\ clock' = clock + 1
    /\ locks' = IF new THEN Locked(MyRun(t), t) ELSE locks
    /\ actors' = [actors EXCEPT ![t].pc = "select", ![t].owner = clock + 1, ![t].inserted = new]
    /\ UNCHANGED tables

Answered(t) == runs[actors[t].req].status = "completed"

\* SELECT ... FOR UPDATE: no row is a refusal, a completed run is replayed.
Select(t) ==
    /\ At(t, "select") /\ Available(MyRun(t), t)
    /\ CASE ~Exists(actors[t].req) /\ ~actors[t].inserted -> Rollback(t)
         [] Answered(t) -> Onward(t, "lock", "assistant") /\ UNCHANGED <<tables, clock>>
         [] OTHER -> Take(t, MyRun(t), "newer")

Born(t) == IF actors[t].inserted THEN actors[t].owner ELSE runs[actors[t].req].born

NeverReplaced(t) == FALSE
Replaced(t) == \E q \in RunsOf(actors[t].session) : runs[q].born > Born(t)

Newer(t) ==
    /\ At(t, "newer")
    /\ IF Replaced(t) THEN Rollback(t) ELSE Goto(t, "others")

Others(t) == {q \in RunsOf(actors[t].session) : q # actors[t].req /\ runs[q].status = "running"}

\* UPDATE of the other running runs, row by row.
FindOthers(t) ==
    /\ At(t, "others")
    /\ actors' = [actors EXCEPT ![t].pc = "interrupt", ![t].todo = Others(t)]
    /\ UNCHANGED <<tables, locks, clock>>

LockOther(t, q) ==
    LET found == {q} \intersect Others(t) IN
    /\ At(t, "interrupt") /\ q \in actors[t].todo /\ Available(<<"run", q>>, t)
    /\ locks' = IF found = {} THEN locks ELSE Locked(<<"run", q>>, t)
    /\ actors' = [actors EXCEPT ![t].todo = @ \ {q}, ![t].touched = @ \union found]
    /\ UNCHANGED <<tables, clock>>

Interrupted(a, q) ==
    IF q \notin actors[a].touched THEN runs[q]
    ELSE [runs[q] EXCEPT !.cancelled = TRUE,
                         !.status = IF @ = "running" THEN "interrupted" ELSE @]

\* The new owner, and the commit.
TakeOver(t) ==
    /\ At(t, "interrupt") /\ actors[t].todo = {}
    /\ runs' = [q \in Requests |->
            IF q # actors[t].req THEN Interrupted(t, q)
            ELSE [status |-> "running", cancelled |-> FALSE, born |-> Born(t),
                  owner |-> actors[t].owner]]
    /\ Onward(t, "working", "user")
    /\ UNCHANGED <<sessions, messages, trips, clock>>

-----------------------------------------------------------------------------
(* MutationService.apply and the completing _save *)

Fenced(t) ==
    LET row == runs[actors[t].req] IN
    row.owner = actors[t].owner /\ row.status = "running" /\ ~row.cancelled

Apply(t) ==
    /\ At(t, "working") /\ Available(MyRun(t), t)
    /\ IF Fenced(t) THEN Take(t, MyRun(t), "require") ELSE Rollback(t)

RequireOpen(t) ==
    /\ At(t, "require")
    /\ IF Closed(t) THEN Rollback(t) ELSE Goto(t, "trip")

LockTrip(t) == At(t, "trip") /\ Take(t, MyTrip(t), "save")

SaveTrip(t) ==
    /\ At(t, "save")
    /\ trips' = trips \union {actors[t].session}
    /\ Onward(t, "working", "user")
    /\ UNCHANGED <<sessions, messages, runs, clock>>

Complete(t) ==
    /\ At(t, "working") /\ Available(MyRun(t), t)
    /\ IF ~Fenced(t) THEN Rollback(t)
       ELSE /\ runs' = [runs EXCEPT ![actors[t].req].status = "completed"]
            /\ Onward(t, "lock", "assistant")
            /\ UNCHANGED <<sessions, messages, trips, clock>>

-----------------------------------------------------------------------------
(* SessionRepository.delete *)

Delete(d, s) ==
    /\ At(d, "idle")
    /\ actors' = [actors EXCEPT ![d] = [Idle EXCEPT !.pc = "check", !.session = s]]
    /\ UNCHANGED <<tables, locks, clock>>

\* A mutant of Check: the trip is locked before the runs.
TripFirst(d) ==
    /\ At(d, "check")
    /\ IF Closed(d) THEN Rollback(d) ELSE Take(d, MyTrip(d), "rows")
Check(d) ==
    /\ At(d, "check")
    /\ IF Closed(d) THEN Rollback(d) ELSE Goto(d, "rows")

\* SELECT ... FOR UPDATE of the runs there are.
FindRuns(d) ==
    /\ At(d, "rows")
    /\ actors' = [actors EXCEPT ![d].pc = "locking", ![d].todo = RunsOf(actors[d].session)]
    /\ UNCHANGED <<tables, locks, clock>>

LockRun(d, q) ==
    /\ At(d, "locking") \/ At(d, "stopping")
    /\ q \in actors[d].todo /\ Available(<<"run", q>>, d)
    /\ locks' = Locked(<<"run", q>>, d)
    /\ actors' = [actors EXCEPT ![d].todo = @ \ {q}, ![d].touched = @ \union {q}]
    /\ UNCHANGED <<tables, clock>>

\* UPDATE supervisor_runs, which finds what was begun since as well.
StopRuns(d) ==
    /\ At(d, "locking") /\ actors[d].todo = {}
    /\ actors' = [actors EXCEPT ![d].pc = "stopping",
                                ![d].todo = RunsOf(actors[d].session) \ actors[d].touched]
    /\ UNCHANGED <<tables, locks, clock>>

\* UPDATE conversation_sessions; nobody appends to a locked session.
Close(d) == At(d, "stopping") /\ actors[d].todo = {} /\ Take(d, MySession(d), "trips")

\* DELETE FROM active_trip_contexts, which sees no trip before its commit.
DeleteTrip(d) ==
    /\ At(d, "trips")
    /\ IF actors[d].session \in trips THEN Take(d, MyTrip(d), "deleted") ELSE Goto(d, "deleted")

CommitDelete(d) ==
    LET s == actors[d].session IN
    /\ At(d, "deleted")
    /\ sessions' = [sessions EXCEPT ![s].closed = TRUE]
    /\ messages' = {[m EXCEPT !.deleted = @ \/ SessionOf[m.req] = s] : m \in messages}
    /\ runs' = [q \in Requests |-> Interrupted(d, q)]
    /\ trips' = IF locks[MyTrip(d)] = d THEN trips \ {s} ELSE trips
    /\ Leave(d)
    /\ UNCHANGED clock

-----------------------------------------------------------------------------
\* A process dies, a call times out: the open transaction is rolled back.
Abort(a) == ~At(a, "idle") /\ Rollback(a)

Init ==
    /\ sessions = [s \in Sessions |-> [closed |-> FALSE, last |-> 0]]
    /\ messages = {}
    /\ runs = [r \in Requests |->
            [status |-> "absent", cancelled |-> FALSE, born |-> 0, owner |-> 0]]
    /\ trips = {}
    /\ locks = [row \in Rows |-> None]
    /\ actors = [a \in Actors |-> Idle]
    /\ clock = 0

Serves(t) ==
    \/ \E r \in Requests : Ask(t, r)
    \/ LockSession(t) \/ Write(t)
    \/ Insert(t) \/ Select(t) \/ Newer(t) \/ FindOthers(t) \/ TakeOver(t)
    \/ \E q \in Requests : LockOther(t, q)
    \/ Apply(t) \/ RequireOpen(t) \/ LockTrip(t) \/ SaveTrip(t) \/ Complete(t)

Deletes(d) ==
    \/ \E s \in Sessions : Delete(d, s)
    \/ Check(d) \/ FindRuns(d) \/ StopRuns(d) \/ Close(d) \/ DeleteTrip(d) \/ CommitDelete(d)
    \/ \E q \in Requests : LockRun(d, q)

Next ==
    \/ \E t \in Turns : Serves(t)
    \/ \E d \in Deleters : Deletes(d)
    \/ \E a \in Actors : Abort(a)

Spec == Init /\ [][Next]_vars

-----------------------------------------------------------------------------
(* Properties *)

TypeOK ==
    /\ sessions \in [Sessions -> [closed: BOOLEAN, last: Nat]]
    /\ messages \subseteq Message
    /\ runs \in [Requests -> Run]
    /\ trips \subseteq Sessions
    /\ locks \in [Rows -> Actors \union {None}]
    /\ actors \in [Actors -> Actor]
    /\ clock \in 0..MaxBegins

\* No two requests of a session run at once, although the transactions that
\* begin, complete and stop them overlap.
OneRunning == \A q, r \in Requests :
    q # r /\ SessionOf[q] = SessionOf[r] =>
        ~(runs[q].status = "running" /\ runs[r].status = "running")

\* The messages of a session are numbered 1, 2, 3, ... without a gap or a repeat, and
\* a request has at most one of each role, however often it is sent.
TranscriptIsDense ==
    /\ \A s \in Sessions :
        {m.seq : m \in {n \in messages : SessionOf[n.req] = s}} = 1..sessions[s].last
    /\ \A m, n \in messages :
        \/ m.req = n.req /\ m.role = n.role
        \/ SessionOf[m.req] = SessionOf[n.req] /\ m.seq = n.seq
        => m = n

\* No message survives its session: an append either comes before the deletion, which
\* then deletes its message, or is refused.
DeletedIsSilent == \A m \in messages : sessions[SessionOf[m.req]].closed => m.deleted

\* An answer in the transcript follows its question and is that of a completed run.
AnswersAreReal == \A m \in messages : m.role = "assistant" =>
    /\ runs[m.req].status = "completed"
    /\ \E q \in messages : q.req = m.req /\ q.role = "user" /\ q.seq < m.seq

\* However the transactions of turns and deletions interleave: one request of a
\* session runs, deleted sessions are silent, and answers are those of completed
\* runs (store.py:66-111, SessionRepository.java:120-245).
RequestsAreSound == OneRunning /\ DeletedIsSilent /\ AnswersAreReal

\* The rows a statement has still to lock; in every other step an actor can go on.
Wanted(a) == {row \in Rows :
    \/ At(a, "lock") /\ row = MySession(a)
    \/ actors[a].pc \in {"insert", "select", "working"} /\ row = MyRun(a)
    \/ At(a, "trip") /\ row = MyTrip(a)
    \/ row \in {"run"} \X actors[a].todo
    \/ At(a, "stopping") /\ actors[a].todo = {} /\ row = MySession(a)
    \/ At(a, "trips") /\ actors[a].session \in trips /\ row = MyTrip(a)}

\* Who waits for a row that somebody else has locked.
Waiting == {a \in Actors : \E row \in Wanted(a) : ~Available(row, a)}

\* Two deletions of one session that both have runs of it left to lock.
Overlap(d, e) ==
    /\ d # e /\ actors[d].session = actors[e].session
    /\ actors[d].todo # {} /\ actors[e].todo # {}

\* Transactions wait for one another in a circle only where two deletions of one
\* session lock its runs at the same time: each may come to them in an order of its
\* own (SessionRepository.java:123 has no ORDER BY), and PostgreSQL then aborts one.
\* Turns never wait in a circle, with each other or with one deletion, in whichever
\* order a statement comes to its rows.
OnlyDeletionsDeadlock == \A group \in (SUBSET Waiting) \ {{}} :
    \/ \E a \in group : \A row \in Wanted(a) : locks[row] \notin group \ {a}
    \/ \E d, e \in group \intersect Deleters : Overlap(d, e)
=============================================================================
