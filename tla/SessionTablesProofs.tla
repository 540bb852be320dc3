------------------------- MODULE SessionTablesProofs -------------------------
(***************************************************************************)
(* Proofs about SessionTables, for every number of turns, deletions,        *)
(* requests and sessions, and about Profile.  A step is one of one actor    *)
(* (Acts); what it leaves to the others and what it does to the tables is   *)
(* stated once, and the invariants follow from that.                        *)
(***************************************************************************)
EXTENDS SessionTables, Profile, TLAPS

Acts(a) ==
    \/ a \in Turns /\ Serves(a)
    \/ a \in Deleters /\ Deletes(a)
    \/ Abort(a)

\* Where a turn that serves r, or a deletion of s, is at work.
Sited(a) ==
    /\ a \in Turns => actors[a].req \in Requests /\ actors[a].session = SessionOf[actors[a].req]
    /\ a \in Deleters => actors[a].session \in Sessions

Serving == \A a \in Actors : ~At(a, "idle") => Sited(a)

-----------------------------------------------------------------------------
(* What a step does to the actors. *)

Moves(a) ==
    /\ actors' \in [Actors -> Actor]
    /\ \A b \in Actors \ {a} : actors'[b] = actors[b]
    /\ ~At(a, "idle")' => Sited(a)'

LEMMA Going ==
    ASSUME TypeOK, Serving, NEW a \in Actors, ~At(a, "idle"),
           \E pc \in {"write", "newer", "others", "require", "trip", "save",
                      "rows", "trips", "deleted"} : actors' = [actors EXCEPT ![a].pc = pc]
    PROVE  Moves(a)
<1>1. PICK pc \in {"write", "newer", "others", "require", "trip", "save",
                  "rows", "trips", "deleted"} : actors' = [actors EXCEPT ![a].pc = pc]
    OBVIOUS
<1>2. [actors[a] EXCEPT !.pc = pc] \in Actor
    BY DEF TypeOK, Actor
<1>3. /\ actors' = [actors EXCEPT ![a] = [actors[a] EXCEPT !.pc = pc]]
      /\ actors \in [Actors -> Actor]
    BY <1>1 DEF TypeOK
<1>4. actors'[a] = [actors[a] EXCEPT !.pc = pc] /\ actors'[a].req = actors[a].req
      /\ actors'[a].session = actors[a].session
    BY <1>2, <1>3 DEF Actor
<1> QED
    BY <1>2, <1>3, <1>4, TablesAssumption DEF Serving, Sited, Moves, At

LEMMA Leaving ==
    ASSUME TypeOK, NEW a \in Actors, actors' = [actors EXCEPT ![a] = Idle]
    PROVE  Moves(a)
BY DEF TypeOK, Moves, At, Actor, Idle

LEMMA GoingOnward ==
    ASSUME TypeOK, Serving, NEW a \in Actors, ~At(a, "idle"),
           NEW role \in {"user", "assistant"}, NEW pc \in {"insert", "lock", "working"},
           Onward(a, pc, role)
    PROVE  Moves(a)
BY TablesAssumption DEF TypeOK, Serving, Sited, Moves, At, Actor, Idle, Onward

LEMMA ActorMoves ==
    ASSUME TypeOK, Serving, NEW a \in Actors, Acts(a)
    PROVE  Moves(a)
<1>1. ASSUME NEW r \in Requests, Ask(a, r), a \in Turns
      PROVE  Moves(a)
    BY <1>1, TablesAssumption DEF Ask, TypeOK, Moves, Sited, At, Actor, Idle
<1>2. CASE LockSession(a) \/ Newer(a) \/ Apply(a) \/ RequireOpen(a) \/ LockTrip(a)
        \/ Check(a) \/ Close(a) \/ DeleteTrip(a) \/ Abort(a)
    BY <1>2, Going, Leaving DEF LockSession, Newer, Apply, RequireOpen, LockTrip, Check, Close,
       DeleteTrip, Abort, Take, Goto, Rollback, Leave, At
<1>3. CASE Write(a) \/ Select(a) \/ TakeOver(a) \/ SaveTrip(a) \/ Complete(a)
    BY <1>3, Going, Leaving, GoingOnward DEF Write, Select, TakeOver, SaveTrip, Complete,
       Take, Rollback, Leave, At
<1>4. CASE a \in Turns /\ Insert(a)
  <2> DEFINE new == ~Closed(a) /\ ~Exists(actors[a].req)
             then == [actors[a] EXCEPT !.pc = "select", !.owner = clock + 1, !.inserted = new]
  <2>1. new \in BOOLEAN /\ clock + 1 \in Nat /\ actors \in [Actors -> Actor]
      BY TablesAssumption DEF TypeOK
  <2>2. actors' = [actors EXCEPT ![a] = then]
      BY <1>4, <2>1 DEF Insert
  <2>3. then \in Actor /\ then.req = actors[a].req /\ then.session = actors[a].session
      BY <2>1 DEF Actor
  <2> QED
      BY <1>4, <2>1, <2>2, <2>3 DEF Insert, Serving, Moves, Sited, At
<1>5. CASE FindOthers(a) \/ FindRuns(a) \/ StopRuns(a)
    BY <1>5 DEF FindOthers, Others, FindRuns, StopRuns, RunsOf, TypeOK, Serving, Moves, Sited, At, Actor
<1>6. ASSUME NEW q \in Requests, LockOther(a, q) \/ LockRun(a, q)
      PROVE  Moves(a)
  <2>1. PICK found \in SUBSET Requests :
          actors' = [actors EXCEPT ![a].todo = @ \ {q}, ![a].touched = @ \union found]
      BY <1>6 DEF LockOther, LockRun
  <2> DEFINE then == [actors[a] EXCEPT !.todo = @ \ {q}, !.touched = @ \union found]
  <2>2. actors' = [actors EXCEPT ![a] = then] /\ actors \in [Actors -> Actor]
      BY <2>1 DEF TypeOK
  <2>3. then \in Actor /\ then.req = actors[a].req /\ then.session = actors[a].session
      BY <2>2 DEF Actor
  <2> QED
      BY <1>6, <2>2, <2>3 DEF LockOther, LockRun, Serving, Moves, Sited, At
<1>7. ASSUME NEW s \in Sessions, Delete(a, s), a \in Deleters
      PROVE  Moves(a)
    BY <1>7, TablesAssumption DEF Delete, TypeOK, Moves, Sited, At, Actor, Idle
<1>8. CASE CommitDelete(a)
    BY <1>8, Leaving DEF CommitDelete, Leave
<1> QED
    BY <1>1, <1>2, <1>3, <1>4, <1>5, <1>6, <1>7, <1>8 DEF Acts, Serves, Deletes

-----------------------------------------------------------------------------
(* What a step does to the locks. *)

Locks(a) ==
    \/ locks' = locks
    \/ locks' = Released(a)
    \/ \E row \in Rows : Available(row, a) /\ locks' = Locked(row, a)

LEMMA OwnRows ==
    ASSUME Serving, NEW a \in Actors, ~At(a, "idle")
    PROVE  /\ MySession(a) \in Rows /\ MyTrip(a) \in Rows
           /\ a \in Turns => MyRun(a) \in Rows
BY TablesAssumption DEF Serving, Sited, Rows, MySession, MyTrip, MyRun, Actors

LEMMA LocksStep ==
    ASSUME TypeOK, Serving, NEW a \in Actors, Acts(a)
    PROVE  Locks(a)
<1> USE DEF Locks
<1>1. ASSUME NEW row \in Rows, NEW pc, Take(a, row, pc)
      PROVE  Locks(a)
    BY <1>1 DEF Take
<1>2. CASE Abort(a)
    BY <1>2 DEF Abort, Rollback, Leave
<1>3. CASE a \in Turns /\ Serves(a)
  <2>1. CASE LockSession(a) \/ Select(a) \/ Apply(a) \/ LockTrip(a)
      BY <1>1, <1>3, <2>1, OwnRows DEF LockSession, Select, Apply, LockTrip, Rollback, Leave, Onward, At
  <2>2. CASE Insert(a)
      BY <1>3, <2>2, OwnRows DEF Insert, At
  <2>3. CASE Write(a) \/ TakeOver(a) \/ SaveTrip(a) \/ Complete(a) \/ Newer(a) \/ RequireOpen(a)
          \/ FindOthers(a) \/ \E r \in Requests : Ask(a, r)
      BY <2>3 DEF Write, TakeOver, SaveTrip, Complete, Newer, RequireOpen, FindOthers, Ask,
         Rollback, Leave, Onward, Goto
  <2>4. ASSUME NEW q \in Requests, LockOther(a, q)
        PROVE  Locks(a)
      BY <2>4 DEF LockOther, Rows
  <2> QED  BY <1>3, <2>1, <2>2, <2>3, <2>4 DEF Serves
<1>4. CASE a \in Deleters /\ Deletes(a)
  <2>1. CASE Close(a) \/ DeleteTrip(a)
      BY <1>1, <1>4, <2>1, OwnRows DEF Close, DeleteTrip, Goto, At
  <2>2. CASE Check(a) \/ FindRuns(a) \/ StopRuns(a) \/ CommitDelete(a)
          \/ \E s \in Sessions : Delete(a, s)
      BY <2>2 DEF Check, FindRuns, StopRuns, CommitDelete, Delete, Rollback, Leave, Goto
  <2>3. ASSUME NEW q \in Requests, LockRun(a, q)
        PROVE  Locks(a)
      BY <2>3 DEF LockRun, Rows
  <2> QED  BY <1>4, <2>1, <2>2, <2>3 DEF Deletes
<1> QED  BY <1>2, <1>3, <1>4 DEF Acts

\* Nobody takes a lock from its holder.
LEMMA LocksKept ==
    ASSUME TypeOK, NEW a \in Actors, Locks(a)
    PROVE  /\ locks' \in [Rows -> Actors \union {None}]
           /\ \A b \in Actors \ {a} : \A row \in Rows : locks[row] = b => locks'[row] = b
BY TablesAssumption DEF TypeOK, Locks, Released, Locked, Available, Actors

-----------------------------------------------------------------------------
(* What a step does to the tables. *)

LEMMA SessionsStep ==
    ASSUME NEW a \in Actors, Acts(a)
    PROVE  \/ UNCHANGED <<sessions, messages>>
           \/ a \in Turns /\ Write(a)
           \/ a \in Deleters /\ CommitDelete(a)
BY DEF Acts, Serves, Deletes, Abort, Ask, LockSession, Insert, Select, Newer, FindOthers, LockOther,
   TakeOver, Apply, RequireOpen, LockTrip, SaveTrip, Complete, Delete, Check, FindRuns, LockRun,
   StopRuns, Close, DeleteTrip, Rollback, Take, Goto, tables

LEMMA RunsStep ==
    ASSUME NEW a \in Actors, Acts(a)
    PROVE  \/ runs' = runs
           \/ a \in Turns /\ TakeOver(a)
           \/ a \in Turns /\ Complete(a) /\ Fenced(a)
           \/ a \in Deleters /\ CommitDelete(a)
BY DEF Acts, Serves, Deletes, Abort, Ask, LockSession, Write, Insert, Select, Newer, FindOthers,
   LockOther, TakeOver, Apply, RequireOpen, LockTrip, SaveTrip, Complete, Delete, Check, FindRuns,
   LockRun, StopRuns, Close, DeleteTrip, Rollback, Take, Goto, tables

LEMMA TripsAndClockStep ==
    ASSUME TypeOK, Serving, NEW a \in Actors, Acts(a)
    PROVE  trips' \subseteq Sessions /\ clock' \in 0..MaxBegins
<1>1. CASE UNCHANGED <<trips, clock>>
    BY <1>1 DEF TypeOK
<1>2. CASE a \in Turns /\ SaveTrip(a)
    BY <1>2, TablesAssumption DEF SaveTrip, Serving, Sited, At, TypeOK
<1>3. CASE a \in Turns /\ Insert(a)
    BY <1>3, TablesAssumption DEF Insert, TypeOK, tables
<1>4. CASE CommitDelete(a)
    BY <1>4 DEF CommitDelete, TypeOK
<1> QED
    BY <1>1, <1>2, <1>3, <1>4 DEF Acts, Serves, Deletes, Abort, Ask, LockSession, Write, Select, Newer,
       FindOthers, LockOther, TakeOver, Apply, RequireOpen, LockTrip, Complete, Delete, Check,
       FindRuns, LockRun, StopRuns, Close, DeleteTrip, Rollback, Take, Goto, tables

LEMMA WrittenType ==
    ASSUME TypeOK, Serving, NEW t \in Turns, Write(t)
    PROVE  sessions' \in [Sessions -> [closed: BOOLEAN, last: Nat]] /\ messages' \subseteq Message
<1> DEFINE s == actors[t].session
           r == actors[t].req
<1>1. s \in Sessions /\ r \in Requests
    BY TablesAssumption DEF Write, Serving, Sited, Actors, At
<1>2. sessions' = [sessions EXCEPT ![s].last = @ + Counted(t)]
    BY DEF Write
<1>3. Counted(t) \in Nat /\ sessions[s] \in [closed: BOOLEAN, last: Nat]
    BY <1>1 DEF Counted, TypeOK
<1>4. sessions' \in [Sessions -> [closed: BOOLEAN, last: Nat]]
    BY <1>1, <1>2, <1>3 DEF TypeOK
<1>5. actors[t].role \in {"user", "assistant"}
    BY DEF TypeOK, Actor, Actors
<1>6. [req |-> r, role |-> actors[t].role, seq |-> sessions'[s].last, deleted |-> FALSE] \in Message
    BY <1>1, <1>4, <1>5 DEF Message
<1> QED
    BY <1>4, <1>6 DEF Write, TypeOK

LEMMA DeletedType ==
    ASSUME TypeOK, Serving, NEW d \in Deleters, CommitDelete(d)
    PROVE  /\ sessions' \in [Sessions -> [closed: BOOLEAN, last: Nat]] /\ messages' \subseteq Message
           /\ runs' \in [Requests -> Run]
<1>1. actors[d].session \in Sessions
    BY DEF CommitDelete, Serving, Sited, Actors, At
<1>2. \A m \in messages : [m EXCEPT !.deleted = @ \/ SessionOf[m.req] = actors[d].session] \in Message
    BY DEF TypeOK, Message
<1>3. \A q \in Requests : Interrupted(d, q) \in Run
    BY DEF TypeOK, Interrupted, Run
<1> QED
    BY <1>1, <1>2, <1>3 DEF CommitDelete, TypeOK

LEMMA TakenType ==
    ASSUME TypeOK, Serving, NEW t \in Turns, TakeOver(t)
    PROVE  runs' \in [Requests -> Run]
<1>1. \A q \in Requests : Interrupted(t, q) \in Run
    BY DEF TypeOK, Interrupted, Run
<1>2. Born(t) \in Nat /\ actors[t].owner \in Nat
    BY DEF TakeOver, Serving, Sited, At, Born, TypeOK, Actor, Actors, Run
<1> QED
    BY <1>1, <1>2 DEF TakeOver, Run

LEMMA TypeStep ==
    ASSUME TypeOK, Serving, NEW a \in Actors, Acts(a)
    PROVE  TypeOK' /\ Serving'
<1>1. Moves(a) /\ Serving'
    BY ActorMoves, TablesAssumption DEF Moves, Serving, Sited, At, Actors
<1>2. locks' \in [Rows -> Actors \union {None}]
    BY LocksStep, LocksKept
<1>3. sessions' \in [Sessions -> [closed: BOOLEAN, last: Nat]] /\ messages' \subseteq Message
    BY SessionsStep, WrittenType, DeletedType DEF TypeOK
<1>4. ASSUME NEW t \in Turns, Complete(t), Fenced(t)
      PROVE  runs' \in [Requests -> Run]
  <2> DEFINE r == actors[t].req
  <2>1. [runs[r] EXCEPT !.status = "completed"] \in Run \/ r \notin Requests
      BY DEF TypeOK, Run
  <2>2. runs' = [runs EXCEPT ![r] = [runs[r] EXCEPT !.status = "completed"]]
      BY <1>4 DEF Complete, TypeOK
  <2> QED  BY <2>1, <2>2 DEF TypeOK
<1>5. runs' \in [Requests -> Run]
    BY <1>4, RunsStep, TakenType, DeletedType DEF TypeOK
<1> QED
    BY <1>1, <1>2, <1>3, <1>5, TripsAndClockStep DEF TypeOK, Moves

LEMMA TypeInit == Init => TypeOK /\ Serving
BY TablesAssumption DEF Init, TypeOK, Serving, At, Run, Actor, Idle, Message

LEMMA NextActs == Next => \E a \in Actors : Acts(a)
BY DEF Next, Acts, Actors

\* Every variable keeps its type.
THEOREM TypeCorrect == Spec => []TypeOK
<1>1. ASSUME TypeOK /\ Serving, [Next]_vars
      PROVE  (TypeOK /\ Serving)'
  <2>1. CASE UNCHANGED vars
      BY <1>1, <2>1 DEF vars, tables, TypeOK, Serving, Sited, At
  <2> QED  BY <1>1, <2>1, NextActs, TypeStep
<1> QED  BY <1>1, TypeInit, PTL DEF Spec

-----------------------------------------------------------------------------
(* Who writes, and who deletes, has the session to itself. *)

Writing == \A t \in Turns : At(t, "write") => locks[MySession(t)] = t /\ ~Closed(t)

Closing == \A d \in Deleters :
    actors[d].pc \in {"trips", "deleted"} => locks[MySession(d)] = d

Alone == Writing /\ Closing

\* Where the building blocks of the actions bring an actor.
LEMMA GoesTo ==
    ASSUME TypeOK, NEW a \in Actors, NEW pc, actors' = [actors EXCEPT ![a].pc = pc]
    PROVE  actors'[a] = [actors[a] EXCEPT !.pc = pc] /\ actors'[a].pc = pc
BY DEF TypeOK, Actor

LEMMA Takes ==
    ASSUME TypeOK, NEW a \in Actors, NEW row, NEW pc, Take(a, row, pc)
    PROVE  actors'[a].pc = pc
BY GoesTo DEF Take

LEMMA GoesOnward ==
    ASSUME TypeOK, NEW a \in Actors, NEW pc, NEW role, Onward(a, pc, role)
    PROVE  actors'[a].pc = pc /\ actors'[a].role = role
BY DEF TypeOK, Onward, Idle

LEMMA Leaves ==
    ASSUME TypeOK, NEW a \in Actors, Leave(a) \/ Rollback(a)
    PROVE  actors'[a] = Idle /\ actors'[a].pc = "idle"
<1>1. actors \in [Actors -> Actor] /\ actors' = [actors EXCEPT ![a] = Idle]
    BY DEF TypeOK, Leave, Rollback
<1> QED  BY <1>1 DEF Idle

LEMMA Touches ==
    ASSUME TypeOK, NEW a \in Actors, NEW todo, NEW touched,
           actors' = [actors EXCEPT ![a].todo = todo, ![a].touched = touched]
    PROVE  actors'[a] = [actors[a] EXCEPT !.todo = todo, !.touched = touched]
           /\ actors'[a].pc = actors[a].pc
BY DEF TypeOK, Actor

\* The statement a transaction comes to, by action.
Landing(a) ==
    /\ Abort(a) => At(a, "idle")'
    /\ (\E r \in Requests : Ask(a, r)) => (At(a, "lock")' /\ actors'[a].role = "user")
    /\ LockSession(a) => At(a, "idle")' \/ (~Closed(a) /\ Take(a, MySession(a), "write"))
    /\ Write(a) => actors'[a].pc \in {"insert", "idle"}
    /\ Insert(a) => At(a, "select")'
    /\ Select(a) => At(a, "idle")' \/ (At(a, "lock")' /\ Answered(a))
                   \/ (~Answered(a) /\ Take(a, MyRun(a), "newer"))
    /\ Newer(a) => At(a, "idle")' \/ Goto(a, "others")
    /\ FindOthers(a) \/ (\E q \in Requests : LockOther(a, q)) => At(a, "interrupt")'
    /\ TakeOver(a) \/ SaveTrip(a) => At(a, "working")'
    /\ Apply(a) => actors'[a].pc \in {"require", "idle"}
    /\ RequireOpen(a) => actors'[a].pc \in {"trip", "idle"}
    /\ LockTrip(a) => At(a, "save")'
    /\ Complete(a) => At(a, "idle")' \/ (At(a, "lock")' /\ Fenced(a))

LEMMA TurnLands ==
    ASSUME TypeOK, NEW t \in Turns
    PROVE  Landing(t)
<1> USE DEF At
<1>1. t \in Actors /\ actors \in [Actors -> Actor]
    BY DEF TypeOK, Actors
<1>2. Abort(t) => At(t, "idle")'
    BY <1>1, Leaves DEF Abort
<1>3. (\E r \in Requests : Ask(t, r)) => (At(t, "lock")' /\ actors'[t].role = "user")
    BY <1>1 DEF Ask, Idle
<1>4. ASSUME LockSession(t)
      PROVE  At(t, "idle")' \/ (~Closed(t) /\ Take(t, MySession(t), "write"))
  <2>1. CASE Closed(t)
      BY <1>1, <1>4, <2>1, Leaves DEF LockSession
  <2>2. CASE ~Closed(t)
      BY <1>4, <2>2 DEF LockSession
  <2> QED  BY <2>1, <2>2
<1>5. Write(t) => actors'[t].pc \in {"insert", "idle"}
    BY <1>1, Leaves, GoesOnward DEF Write
<1>6. Insert(t) => At(t, "select")'
    BY <1>1 DEF Insert, Actor
<1>7. ASSUME Select(t)
      PROVE  At(t, "idle")' \/ (At(t, "lock")' /\ Answered(t))
                \/ (~Answered(t) /\ Take(t, MyRun(t), "newer"))
  <2> DEFINE missing == ~Exists(actors[t].req) /\ ~actors[t].inserted
  <2>1. CASE missing
    <3>1. Rollback(t)
        BY <1>7, <2>1 DEF Select, Exists, Answered
    <3> QED  BY <1>1, <3>1, Leaves
  <2>2. CASE ~missing /\ Answered(t)
      BY <1>1, <1>7, <2>2, GoesOnward DEF Select
  <2>3. CASE ~missing /\ ~Answered(t)
      BY <1>7, <2>3 DEF Select
  <2> QED  BY <2>1, <2>2, <2>3
<1>8. Newer(t) => At(t, "idle")' \/ Goto(t, "others")
    BY <1>1, Leaves DEF Newer
<1>9. FindOthers(t) => At(t, "interrupt")'
    BY <1>1 DEF FindOthers, Actor
<1>10. ASSUME NEW q \in Requests, LockOther(t, q)
       PROVE  At(t, "interrupt")'
  <2>1. PICK touched :
          actors' = [actors EXCEPT ![t].todo = actors[t].todo \ {q}, ![t].touched = touched]
      BY <1>10 DEF LockOther
  <2>2. actors'[t].pc = actors[t].pc
      BY <1>1, <2>1, Touches
  <2> QED  BY <1>10, <2>2 DEF LockOther
<1>11. TakeOver(t) \/ SaveTrip(t) => At(t, "working")'
    BY <1>1, GoesOnward DEF TakeOver, SaveTrip
<1>12. Apply(t) => actors'[t].pc \in {"require", "idle"}
    BY <1>1, Leaves, Takes DEF Apply
<1>13. RequireOpen(t) => actors'[t].pc \in {"trip", "idle"}
    BY <1>1, Leaves, GoesTo DEF RequireOpen, Goto
<1>14. LockTrip(t) => At(t, "save")'
    BY <1>1, Takes DEF LockTrip
<1>15. ASSUME Complete(t)
       PROVE  At(t, "idle")' \/ (At(t, "lock")' /\ Fenced(t))
  <2>1. CASE Fenced(t)
      BY <1>1, <1>15, <2>1, GoesOnward DEF Complete
  <2>2. CASE ~Fenced(t)
      BY <1>1, <1>15, <2>2, Leaves DEF Complete
  <2> QED  BY <2>1, <2>2
<1> QED
    BY <1>2, <1>3, <1>4, <1>5, <1>6, <1>7, <1>8, <1>9, <1>10, <1>11, <1>12, <1>13, <1>14, <1>15
    DEF Landing

LEMMA ArrivesAtWrite ==
    ASSUME TypeOK, NEW t \in Turns, Acts(t), At(t, "write")'
    PROVE  ~At(t, "idle") /\ ~Closed(t) /\ Take(t, MySession(t), "write")
<1>1. t \notin Deleters /\ Landing(t) /\ actors'[t].pc = "write"
    BY TurnLands, TablesAssumption DEF At
<1>2. t \in Actors
    BY DEF Actors
<1>3. ~Take(t, MyRun(t), "newer") /\ ~Goto(t, "others")
    BY <1>1, <1>2, Takes, GoesTo DEF Goto
<1>4. LockSession(t)
    BY <1>1, <1>3 DEF Landing, Acts, Serves, At
<1> QED  BY <1>1, <1>4 DEF Landing, LockSession, At

LEMMA ArrivesAtTrips ==
    ASSUME TypeOK, NEW d \in Deleters, Acts(d), actors'[d].pc \in {"trips", "deleted"}
    PROVE  /\ ~At(d, "idle") /\ actors'[d].session = actors[d].session
           /\ \/ Take(d, MySession(d), "trips")
              \/ (At(d, "trips") /\ \A row \in Rows : locks[row] = d => locks'[row] = d)
<1>1. d \in Actors /\ d \notin Turns
    BY TablesAssumption DEF Actors
<1>2. actors \in [Actors -> Actor] /\ locks \in [Rows -> Actors \union {None}]
    BY DEF TypeOK
<1>3. ~Abort(d) /\ ~CommitDelete(d)
    BY <1>1, Leaves DEF Abort, CommitDelete
<1>4. ~Check(d)
    BY <1>1, Leaves, GoesTo DEF Check, Goto
<1>5. ~\E s \in Sessions : Delete(d, s)
    BY <1>2, <1>1 DEF Delete, Idle
<1>6. ~FindRuns(d) /\ ~StopRuns(d)
    BY <1>1, <1>2 DEF FindRuns, StopRuns, Actor
<1>7. ASSUME NEW q \in Requests, LockRun(d, q)
      PROVE  FALSE
  <2>1. actors' = [actors EXCEPT ![d].todo = actors[d].todo \ {q},
                                 ![d].touched = actors[d].touched \union {q}]
      BY <1>7 DEF LockRun
  <2>2. actors'[d].pc = actors[d].pc
      BY <1>1, <2>1, Touches
  <2> QED  BY <1>7, <2>2 DEF LockRun, At
<1>8. ASSUME Close(d)
      PROVE  /\ At(d, "stopping") /\ Take(d, MySession(d), "trips")
             /\ actors'[d].session = actors[d].session
    BY <1>1, <1>2, <1>8, GoesTo DEF Close, Take, Actor
<1>9. ASSUME DeleteTrip(d)
      PROVE  At(d, "trips") /\ actors'[d].session = actors[d].session
             /\ \A row \in Rows : locks[row] = d => locks'[row] = d
  <2>1. CASE Take(d, MyTrip(d), "deleted")
      BY <1>1, <1>2, <1>9, <2>1, GoesTo DEF DeleteTrip, Take, Locked, Actor
  <2>2. CASE Goto(d, "deleted")
      BY <1>1, <1>2, <1>9, <2>2, GoesTo DEF DeleteTrip, Goto, Actor
  <2> QED  BY <1>9, <2>1, <2>2 DEF DeleteTrip
<1> QED
    BY <1>1, <1>3, <1>4, <1>5, <1>6, <1>7, <1>8, <1>9 DEF Acts, Deletes, At

LEMMA AloneStep ==
    ASSUME TypeOK, Serving, Alone, NEW a \in Actors, Acts(a)
    PROVE  Alone'
<1>1. Moves(a) /\ Locks(a)
    BY ActorMoves, LocksStep
<1>2. ASSUME NEW t \in Turns, At(t, "write")'
      PROVE  (locks[MySession(t)] = t /\ ~Closed(t))'
  <2>1. CASE t = a
    <3>1. MySession(t) \in Rows /\ MySession(t)' = MySession(t)
      <4>1. t \in Actors /\ ~At(t, "idle") /\ actors' = [actors EXCEPT ![t].pc = "write"]
          BY <1>2, <2>1, ArrivesAtWrite DEF Take, Actors
      <4>2. actors'[t].session = actors[t].session
          BY <4>1 DEF TypeOK, Actor
      <4> QED  BY <4>1, <4>2, OwnRows DEF MySession
    <3>2. locks'[MySession(t)] = t /\ UNCHANGED sessions
        BY <1>2, <2>1, <3>1, ArrivesAtWrite DEF Take, Locked, TypeOK, tables
    <3> QED  BY <1>2, <2>1, <3>1, <3>2, ArrivesAtWrite DEF Closed, Take, TypeOK, Actor
  <2>2. CASE t # a
    <3>1. t \in Actors /\ actors'[t] = actors[t] /\ MySession(t) \in Rows
        BY <1>1, <1>2, <2>2, OwnRows DEF Moves, Actors, At
    <3>2. locks[MySession(t)] = t /\ ~Closed(t) /\ locks'[MySession(t)] = t
        BY <1>1, <1>2, <2>2, <3>1, LocksKept DEF Alone, Writing, At
    <3>3. Closed(t)' = Closed(t)
      <4>1. CASE a \in Turns /\ Write(a)
          BY <3>1, <4>1 DEF Write, Closed, TypeOK
      <4>2. CASE a \in Deleters /\ CommitDelete(a)
        <5>1. locks[MySession(a)] = a
            BY <4>2 DEF CommitDelete, Alone, Closing, At
        <5>2. actors[a].session # actors[t].session
            BY <2>2, <3>2, <5>1 DEF MySession
        <5>3. actors[a].session \in Sessions /\ actors[t].session \in Sessions
            BY <1>2, <3>1, <4>2, TablesAssumption DEF CommitDelete, Serving, Sited, At
        <5> QED  BY <3>1, <4>2, <5>2, <5>3 DEF CommitDelete, Closed, TypeOK
      <4> QED  BY <3>1, <4>1, <4>2, SessionsStep DEF Closed
    <3> QED  BY <3>1, <3>2, <3>3 DEF MySession
  <2> QED  BY <2>1, <2>2
<1>3. ASSUME NEW d \in Deleters, (actors[d].pc \in {"trips", "deleted"})'
      PROVE  (locks[MySession(d)] = d)'
  <2>1. CASE d = a
    <3>1. MySession(d) \in Rows /\ MySession(d)' = MySession(d)
        BY <1>3, <2>1, ArrivesAtTrips, OwnRows DEF MySession
    <3> QED  BY <1>3, <2>1, <3>1, ArrivesAtTrips DEF Take, Locked, TypeOK, Alone, Closing, At
  <2>2. CASE d # a
      BY <1>1, <1>3, <2>2, LocksKept, OwnRows DEF Moves, Actors, Alone, Closing, MySession, At
  <2> QED  BY <2>1, <2>2
<1> QED  BY <1>2, <1>3 DEF Alone, Writing, Closing

-----------------------------------------------------------------------------
(* No message survives its session. *)

IAlone == TypeOK /\ Serving /\ Alone

LEMMA AloneInit == Init => Alone
BY TablesAssumption DEF Init, Alone, Writing, Closing, Idle, At, Actors

LEMMA AloneNext == IAlone /\ [Next]_vars => IAlone'
<1>1. CASE UNCHANGED vars
    BY <1>1 DEF vars, tables, IAlone, TypeOK, Serving, Sited, At, Alone, Writing, Closing, Closed,
       MySession
<1> QED  BY <1>1, NextActs, TypeStep, AloneStep DEF IAlone

LEMMA SilentStep ==
    ASSUME IAlone, DeletedIsSilent, NEW a \in Actors, Acts(a)
    PROVE  DeletedIsSilent'
<1> USE DEF IAlone
<1>1. CASE UNCHANGED <<sessions, messages>>
    BY <1>1 DEF DeletedIsSilent
<1>2. CASE a \in Turns /\ Write(a)
  <2> DEFINE s == actors[a].session
             r == actors[a].req
  <2>1. r \in Requests /\ s = SessionOf[r] /\ s \in Sessions
      BY <1>2, TablesAssumption DEF Write, Serving, Sited, Actors, At
  <2>2. \A u \in Sessions : sessions'[u].closed = sessions[u].closed
      BY <1>2, <2>1 DEF Write, TypeOK
  <2>3. ~sessions[s].closed
      BY <1>2 DEF Write, Alone, Writing, Closed
  <2>4. \A m \in messages' : m \in messages \/ m.req = r
      BY <1>2 DEF Write
  <2>5. \A m \in messages : SessionOf[m.req] \in Sessions
      BY TablesAssumption DEF TypeOK, Message
  <2> QED
      BY <2>1, <2>2, <2>3, <2>4, <2>5 DEF DeletedIsSilent
<1>3. CASE a \in Deleters /\ CommitDelete(a)
  <2> DEFINE s == actors[a].session
  <2>1. SUFFICES ASSUME NEW m \in messages', sessions'[SessionOf[m.req]].closed
                 PROVE  m.deleted
      BY DEF DeletedIsSilent
  <2>2. PICK n \in messages : m = [n EXCEPT !.deleted = @ \/ SessionOf[n.req] = s]
      BY <1>3 DEF CommitDelete
  <2>3. n \in Message
      BY DEF TypeOK
  <2>4. m.req = n.req /\ (SessionOf[n.req] = s => m.deleted) /\ (n.deleted => m.deleted)
      BY <2>2, <2>3 DEF Message
  <2>5. SessionOf[n.req] \in Sessions
      BY <2>3, TablesAssumption DEF Message
  <2>6. SessionOf[n.req] # s => sessions[SessionOf[n.req]].closed
      BY <1>3, <2>1, <2>4, <2>5 DEF CommitDelete, TypeOK
  <2> QED
      BY <2>4, <2>6 DEF DeletedIsSilent
<1> QED  BY <1>1, <1>2, <1>3, SessionsStep

\* A message is added by who holds the row of an open session; a deletion holds the
\* same row from its UPDATE to its commit, and deletes what it then finds.
THEOREM DeletedSessionsAreSilent == Spec => []DeletedIsSilent
<1>1. Init => IAlone /\ DeletedIsSilent
    BY TypeInit, AloneInit DEF IAlone, DeletedIsSilent, Init
<1>2. ASSUME IAlone /\ DeletedIsSilent, [Next]_vars
      PROVE  (IAlone /\ DeletedIsSilent)'
  <2>1. CASE UNCHANGED vars
      BY <1>2, <2>1, AloneNext DEF vars, tables, DeletedIsSilent
  <2> QED  BY <1>2, <2>1, AloneNext, NextActs, SilentStep
<1> QED  BY <1>1, <1>2, PTL DEF Spec

-----------------------------------------------------------------------------
(* One request of a session runs. *)

\* Begins of a session do not overlap.
OneBegins == \A t, u \in Turns :
    t # u /\ Beginning(t) /\ Beginning(u) => actors[t].session # actors[u].session

\* Whatever else runs when a turn takes over, the turn has locked or is going to.
Accounted == \A t \in Turns : At(t, "interrupt") =>
    \A q \in Others(t) : q \in actors[t].todo \union actors[t].touched

IRunning == TypeOK /\ Serving /\ OneBegins /\ Accounted /\ OneRunning

LEMMA LocksOther ==
    ASSUME TypeOK, NEW t \in Turns, NEW p \in Requests, LockOther(t, p)
    PROVE  /\ At(t, "interrupt") /\ At(t, "interrupt")' /\ runs' = runs
           /\ actors'[t].session = actors[t].session /\ actors'[t].req = actors[t].req
           /\ actors'[t].todo = actors[t].todo \ {p}
           /\ actors'[t].touched = actors[t].touched \union ({p} \intersect Others(t))
<1>1. t \in Actors /\ actors \in [Actors -> Actor]
    BY DEF TypeOK, Actors
<1>2. actors' = [actors EXCEPT ![t].todo = actors[t].todo \ {p},
                               ![t].touched = actors[t].touched \union ({p} \intersect Others(t))]
    BY <1>1 DEF LockOther, Actor
<1>3. actors'[t] = [actors[t] EXCEPT !.todo = actors[t].todo \ {p},
                        !.touched = actors[t].touched \union ({p} \intersect Others(t))]
    BY <1>1, <1>2, Touches
<1> QED  BY <1>1, <1>3 DEF LockOther, At, Actor, tables

LEMMA ArrivesAtBegin ==
    ASSUME TypeOK, NEW t \in Turns, Acts(t), Beginning(t)'
    PROVE  /\ ~At(t, "idle") /\ (Beginning(t) \/ Leased(t))
           /\ actors'[t].session = actors[t].session /\ actors'[t].req = actors[t].req
<1>1. t \in Actors /\ t \notin Deleters /\ actors \in [Actors -> Actor] /\ Landing(t)
    BY TurnLands, TablesAssumption DEF TypeOK, Actors
<1>2. actors'[t].pc \in {"select", "newer", "others", "interrupt"}
    BY DEF Beginning
<1>3. ~Take(t, MySession(t), "write")
    BY <1>1, <1>2, Takes
<1>4. Insert(t) \/ (Select(t) /\ Take(t, MyRun(t), "newer")) \/ (Newer(t) /\ Goto(t, "others"))
        \/ FindOthers(t) \/ \E q \in Requests : LockOther(t, q)
    BY <1>1, <1>2, <1>3 DEF Landing, Acts, Serves, At
<1>5. CASE Insert(t) \/ FindOthers(t)
    BY <1>1, <1>5 DEF Insert, FindOthers, Beginning, At, Actor
<1>6. CASE (Select(t) /\ Take(t, MyRun(t), "newer")) \/ (Newer(t) /\ Goto(t, "others"))
    BY <1>1, <1>6, GoesTo DEF Select, Newer, Take, Goto, Beginning, At, Actor
<1>7. ASSUME NEW q \in Requests, LockOther(t, q)
      PROVE  /\ ~At(t, "idle") /\ Beginning(t)
             /\ actors'[t].session = actors[t].session /\ actors'[t].req = actors[t].req
    BY <1>7, LocksOther DEF Beginning, At
<1> QED  BY <1>4, <1>5, <1>6, <1>7

LEMMA ArrivesAtInterrupt ==
    ASSUME TypeOK, NEW t \in Turns, Acts(t), At(t, "interrupt")'
    PROVE  FindOthers(t) \/ \E q \in Requests : LockOther(t, q)
<1>1. t \in Actors /\ t \notin Deleters /\ Landing(t)
    BY TurnLands, TablesAssumption DEF Actors
<1>2. /\ ~Take(t, MySession(t), "write") /\ ~Take(t, MyRun(t), "newer")
      /\ ~Goto(t, "others")
    BY <1>1, Takes, GoesTo DEF At, Goto
<1> QED  BY <1>1, <1>2 DEF Landing, Acts, Serves, At

\* Only a take-over makes a run run.
LEMMA RunningStep ==
    ASSUME TypeOK, NEW a \in Actors, Acts(a), NEW q \in Requests, runs'[q].status = "running"
    PROVE  \/ runs[q].status = "running"
           \/ a \in Turns /\ TakeOver(a) /\ q = actors[a].req
<1>1. CASE a \in Turns /\ TakeOver(a)
    BY <1>1 DEF TakeOver, Interrupted, TypeOK, Run
<1>2. CASE Complete(a) /\ Fenced(a)
    BY <1>2 DEF Complete, TypeOK, Run
<1>3. CASE CommitDelete(a)
    BY <1>3 DEF CommitDelete, Interrupted, TypeOK, Run
<1> QED  BY <1>1, <1>2, <1>3, RunsStep

LEMMA OneBeginsStep ==
    ASSUME TypeOK, Serving, OneBegins, NEW a \in Actors, Acts(a)
    PROVE  OneBegins'
<1>1. Moves(a)
    BY ActorMoves
<1>2. SUFFICES ASSUME NEW t \in Turns, NEW u \in Turns, t # u, Beginning(t)', Beginning(u)', u # a
               PROVE  actors'[t].session # actors'[u].session
    BY DEF OneBegins
<1>3. actors'[u] = actors[u] /\ Beginning(u)
    BY <1>1, <1>2 DEF Moves, Beginning, Actors
<1>4. CASE t = a
    BY <1>2, <1>3, <1>4, ArrivesAtBegin DEF OneBegins, Leased
<1>5. CASE t # a
    BY <1>1, <1>2, <1>3, <1>5 DEF Moves, Beginning, OneBegins, Actors
<1> QED  BY <1>4, <1>5

LEMMA AccountedStep ==
    ASSUME TypeOK, Serving, OneBegins, Accounted, NEW a \in Actors, Acts(a)
    PROVE  Accounted'
<1>1. Moves(a)
    BY ActorMoves
<1>2. SUFFICES ASSUME NEW t \in Turns, At(t, "interrupt")', NEW q \in Others(t)'
               PROVE  q \in actors'[t].todo \union actors'[t].touched
    BY DEF Accounted
<1>3. CASE t = a
  <2>1. CASE FindOthers(t)
    <3>1. t \in Actors /\ actors \in [Actors -> Actor] /\ runs' = runs
        BY <2>1 DEF FindOthers, TypeOK, Actors, tables
    <3>2. actors'[t].todo = Others(t) /\ Others(t)' = Others(t)
        BY <2>1, <3>1 DEF FindOthers, Others, RunsOf, Exists, Actor
    <3> QED  BY <1>2, <3>2
  <2>2. ASSUME NEW p \in Requests, LockOther(t, p)
        PROVE  q \in actors'[t].todo \union actors'[t].touched
    <3>1. q \in Others(t)
        BY <1>2, <2>2, LocksOther DEF Others, RunsOf, Exists
    <3>2. q \in actors[t].todo \union actors[t].touched
        BY <2>2, <3>1, LocksOther DEF Accounted
    <3> QED  BY <2>2, <3>1, <3>2, LocksOther
  <2> QED  BY <1>2, <1>3, <2>1, <2>2, ArrivesAtInterrupt
<1>4. CASE t # a
  <2>1. actors'[t] = actors[t] /\ At(t, "interrupt")
      BY <1>1, <1>2, <1>4 DEF Moves, Actors, At
  <2>2. q \in Requests /\ SessionOf[q] = actors[t].session /\ q # actors[t].req
        /\ runs'[q].status = "running"
      BY <1>2, <2>1 DEF Others, RunsOf
  <2>3. runs[q].status = "running"
    <3>1. ASSUME a \in Turns, TakeOver(a), q = actors[a].req
          PROVE  FALSE
      <4>1. Beginning(a) /\ Beginning(t) /\ actors[a].session = SessionOf[q]
          BY <2>1, <3>1 DEF TakeOver, Beginning, At, Serving, Sited, Actors
      <4> QED  BY <1>4, <2>2, <3>1, <4>1 DEF OneBegins
    <3> QED  BY <2>2, <3>1, RunningStep
  <2>4. q \in Others(t)
      BY <2>2, <2>3 DEF Others, RunsOf, Exists
  <2> QED  BY <2>1, <2>4 DEF Accounted
<1> QED  BY <1>3, <1>4

LEMMA OneRunningStep ==
    ASSUME IRunning, NEW a \in Actors, Acts(a)
    PROVE  OneRunning'
<1> USE DEF IRunning
<1>1. SUFFICES ASSUME NEW q \in Requests, NEW r \in Requests, q # r, SessionOf[q] = SessionOf[r],
                      runs'[q].status = "running", runs'[r].status = "running",
                      runs[q].status = "running"
               PROVE  FALSE
  <2>1. ASSUME NEW q \in Requests, NEW r \in Requests, q # r,
               runs'[q].status = "running", runs'[r].status = "running"
        PROVE  runs[q].status = "running" \/ runs[r].status = "running"
      BY <2>1, RunningStep
  <2> QED  BY <2>1 DEF OneRunning
<1>2. a \in Turns /\ TakeOver(a) /\ r = actors[a].req
    BY <1>1, RunningStep DEF OneRunning
<1>3. At(a, "interrupt") /\ actors[a].todo = {} /\ actors[a].session = SessionOf[q]
    BY <1>1, <1>2 DEF TakeOver, Serving, Sited, At
<1>4. q \in actors[a].touched
    BY <1>1, <1>2, <1>3 DEF Accounted, Others, RunsOf, Exists
<1>5. runs'[q] = Interrupted(a, q)
    BY <1>1, <1>2 DEF TakeOver
<1> QED
    BY <1>1, <1>4, <1>5 DEF Interrupted, TypeOK, Run

\* Whoever takes over has locked the rows of all runs that run, because no other begin
\* of the session can add one; its commit interrupts them.
THEOREM OneRequestRuns == Spec => []OneRunning
<1>1. Init => IRunning
    BY TypeInit DEF Init, IRunning, OneBegins, Beginning, Accounted, OneRunning, At, Idle, Actors
<1>2. ASSUME IRunning, [Next]_vars
      PROVE  IRunning'
  <2>1. CASE UNCHANGED vars
      BY <1>2, <2>1 DEF IRunning, vars, tables, TypeOK, Serving, Sited, At, OneBegins, Beginning,
         Accounted, Others, RunsOf, Exists, OneRunning
  <2>2. ASSUME NEW a \in Actors, Acts(a)
        PROVE  IRunning'
      BY <1>2, <2>2, TypeStep, OneBeginsStep, AccountedStep, OneRunningStep DEF IRunning
  <2> QED  BY <1>2, <2>1, <2>2, NextActs
<1> QED  BY <1>1, <1>2, PTL DEF Spec, IRunning

-----------------------------------------------------------------------------
(* An answer in the transcript is that of a completed run. *)

\* A turn between its SELECT and its commit holds a run that is not completed.
Holding == \A t \in Turns : actors[t].pc \in {"newer", "others", "interrupt"} =>
    locks[MyRun(t)] = t /\ ~Answered(t)

\* Who stores an answer has completed the run, or found it completed.
Answering == \A t \in Turns :
    actors[t].pc \in {"lock", "write"} /\ actors[t].role = "assistant" => Answered(t)

\* Once the user's message is stored, it is there.
HasQuestion(r) == \E m \in messages : m.req = r /\ m.role = "user"

Asking(t) == actors[t].pc \in {"lock", "write"} /\ actors[t].role = "user"

Asked == \A t \in Turns : ~At(t, "idle") /\ ~Asking(t) => HasQuestion(actors[t].req)

Numbered == \A m \in messages : m.seq <= sessions[SessionOf[m.req]].last

IAnswers == TypeOK /\ Serving /\ Holding /\ Answering /\ Asked /\ Numbered /\ AnswersAreReal

LEMMA HoldingStep ==
    ASSUME TypeOK, Serving, Holding, NEW a \in Actors, Acts(a)
    PROVE  Holding'
<1>1. Moves(a) /\ Locks(a)
    BY ActorMoves, LocksStep
<1>2. SUFFICES ASSUME NEW t \in Turns, actors'[t].pc \in {"newer", "others", "interrupt"}
               PROVE  (locks[MyRun(t)] = t /\ ~Answered(t))'
    BY DEF Holding
<1>3. CASE t = a
  <2>1. /\ t \in Actors /\ t \notin Deleters /\ Landing(t) /\ MyRun(t) \in Rows
        /\ ~At(t, "idle") /\ actors'[t].req = actors[t].req
      BY <1>2, <1>3, TurnLands, OwnRows, ArrivesAtBegin, TablesAssumption DEF Beginning, Actors
  <2>2. ~Take(t, MySession(t), "write")
      BY <1>2, <2>1, Takes
  <2>3. \/ ~Answered(t) /\ Take(t, MyRun(t), "newer")
        \/ Newer(t) /\ Goto(t, "others")
        \/ FindOthers(t)
        \/ \E q \in Requests : LockOther(t, q)
      BY <1>2, <1>3, <2>1, <2>2 DEF Landing, Acts, Serves, At
  <2>4. CASE ~Answered(t) /\ Take(t, MyRun(t), "newer")
      BY <2>1, <2>4 DEF Take, Locked, MyRun, Answered, TypeOK, tables
  <2>5. CASE (Newer(t) /\ Goto(t, "others")) \/ FindOthers(t)
      BY <2>1, <2>5 DEF Newer, Goto, FindOthers, Holding, At, MyRun, Answered, tables
  <2>6. ASSUME NEW q \in Requests, LockOther(t, q)
        PROVE  (locks[MyRun(t)] = t /\ ~Answered(t))'
    <3>1. locks[MyRun(t)] = t /\ ~Answered(t)
        BY <2>6 DEF LockOther, Holding, At
    <3>2. locks'[MyRun(t)] = t
        BY <2>1, <2>6, <3>1 DEF LockOther, Locked, TypeOK
    <3> QED  BY <2>1, <2>6, <3>1, <3>2 DEF LockOther, MyRun, Answered, tables
  <2> QED  BY <2>3, <2>4, <2>5, <2>6
<1>4. CASE t # a
  <2>1. t \in Actors /\ actors'[t] = actors[t] /\ ~At(t, "idle")
      BY <1>1, <1>2, <1>4 DEF Moves, Actors, At
  <2>2. MyRun(t) \in Rows /\ locks[MyRun(t)] = t /\ ~Answered(t)
      BY <1>2, <2>1, OwnRows DEF Holding
  <2>3. locks'[MyRun(t)] = t
      BY <1>1, <1>4, <2>1, <2>2, LocksKept
  <2>4. actors[t].req \in Requests
      BY <2>1 DEF Serving, Sited
  <2>5. runs'[actors[t].req].status # "completed"
    <3>1. CASE a \in Turns /\ TakeOver(a)
        BY <2>2, <2>4, <3>1 DEF TakeOver, Interrupted, Answered, TypeOK, Run
    <3>2. CASE a \in Turns /\ Complete(a) /\ Fenced(a)
      <4>1. actors[a].req # actors[t].req
          BY <1>4, <2>2, <3>2, TablesAssumption DEF Complete, Available, MyRun, Actors
      <4> QED  BY <2>2, <2>4, <3>2, <4>1 DEF Complete, Answered, TypeOK
    <3>3. CASE a \in Deleters /\ CommitDelete(a)
        BY <2>2, <2>4, <3>3 DEF CommitDelete, Interrupted, Answered, TypeOK, Run
    <3> QED  BY <2>2, <3>1, <3>2, <3>3, RunsStep DEF Answered
  <2> QED  BY <2>1, <2>3, <2>5 DEF MyRun, Answered
<1> QED  BY <1>3, <1>4

\* A completed run stays completed.
LEMMA CompletedStays ==
    ASSUME TypeOK, Serving, Holding, NEW a \in Actors, Acts(a),
           NEW q \in Requests, runs[q].status = "completed"
    PROVE  runs'[q].status = "completed"
<1>1. CASE a \in Turns /\ TakeOver(a)
  <2>1. q # actors[a].req
      BY <1>1 DEF TakeOver, Holding, Answered, At
  <2> QED  BY <1>1, <2>1 DEF TakeOver, Interrupted, TypeOK, Run
<1>2. CASE Complete(a) /\ Fenced(a)
    BY <1>2 DEF Complete, TypeOK, Run
<1>3. CASE CommitDelete(a)
    BY <1>3 DEF CommitDelete, Interrupted, TypeOK, Run
<1> QED  BY <1>1, <1>2, <1>3, RunsStep

\* A turn keeps its request until it is idle, and its role while it appends.
LEMMA RequestKept ==
    ASSUME TypeOK, NEW t \in Turns, Acts(t), ~At(t, "idle"), ~At(t, "idle")'
    PROVE  /\ actors'[t].req = actors[t].req
           /\ At(t, "write")' => At(t, "lock") /\ actors'[t].role = actors[t].role
<1>1. t \in Actors /\ t \notin Deleters /\ actors \in [Actors -> Actor]
    BY TablesAssumption DEF TypeOK, Actors
<1>2. ASSUME NEW pc, actors' = [actors EXCEPT ![t].pc = pc]
      PROVE  actors'[t].req = actors[t].req /\ actors'[t].role = actors[t].role
    BY <1>1, <1>2 DEF Actor
<1>3. ASSUME NEW pc, NEW role, Onward(t, pc, role)
      PROVE  actors'[t].req = actors[t].req
    BY <1>1, <1>3 DEF Onward, Idle
<1>4. ~Rollback(t) /\ ~Leave(t)
    BY <1>1, Leaves DEF At
<1>5. At(t, "write")' => At(t, "lock") /\ actors'[t].role = actors[t].role
  <2>1. ASSUME At(t, "write")'
        PROVE  LockSession(t) /\ Take(t, MySession(t), "write")
    <3>1. ~Take(t, MyRun(t), "newer") /\ ~Goto(t, "others")
        BY <1>1, <2>1, Takes, GoesTo DEF Goto, At
    <3> QED  BY <1>1, <1>4, <2>1, <3>1, TurnLands, ArrivesAtWrite DEF Landing, Acts, Serves, At
  <2> QED  BY <1>2, <2>1 DEF LockSession, Take
<1>6. CASE Write(t) \/ Select(t) \/ TakeOver(t) \/ SaveTrip(t) \/ Complete(t)
  <2>1. CASE Write(t) \/ TakeOver(t) \/ SaveTrip(t)
      BY <1>3, <1>4, <1>5, <2>1 DEF Write, TakeOver, SaveTrip
  <2>2. CASE Select(t)
      BY <1>2, <1>3, <1>4, <1>5, <2>2 DEF Select, Take
  <2>3. CASE Complete(t)
      BY <1>3, <1>4, <1>5, <2>3 DEF Complete
  <2> QED  BY <1>6, <2>1, <2>2, <2>3
<1>7. CASE LockSession(t) \/ Newer(t) \/ Apply(t) \/ RequireOpen(t) \/ LockTrip(t)
    BY <1>2, <1>4, <1>5, <1>7 DEF LockSession, Newer, Apply, RequireOpen, LockTrip, Take, Goto
<1>8. CASE Insert(t) \/ FindOthers(t)
    BY <1>1, <1>5, <1>8 DEF Insert, FindOthers, Actor
<1>9. QED
    BY <1>1, <1>4, <1>5, <1>6, <1>7, <1>8, LocksOther DEF Acts, Serves, Abort, Ask

\* How a turn comes to store an answer.
LEMMA ArrivesWithAnswer ==
    ASSUME TypeOK, NEW t \in Turns, Acts(t),
           actors'[t].pc = "lock", actors'[t].role = "assistant"
    PROVE  Answered(t) \/ (Complete(t) /\ Fenced(t))
<1>1. t \in Actors /\ t \notin Deleters /\ Landing(t)
    BY TurnLands, TablesAssumption DEF Actors
<1>2. /\ ~Take(t, MySession(t), "write") /\ ~Take(t, MyRun(t), "newer")
      /\ ~Goto(t, "others")
    BY <1>1, Takes, GoesTo DEF Goto
<1> QED  BY <1>1, <1>2 DEF Landing, Acts, Serves, At

LEMMA AnsweringStep ==
    ASSUME TypeOK, Serving, Holding, Answering, NEW a \in Actors, Acts(a)
    PROVE  Answering'
<1>1. Moves(a) /\ Serving'
    BY ActorMoves, TypeStep
<1>2. SUFFICES ASSUME NEW t \in Turns, actors'[t].pc \in {"lock", "write"},
                      actors'[t].role = "assistant"
               PROVE  runs'[actors'[t].req].status = "completed"
    BY DEF Answering, Answered
<1>3. t \in Actors /\ actors'[t].req \in Requests
    BY <1>1, <1>2 DEF Serving, Sited, At, Actors
<1>4. CASE t # a
    BY <1>1, <1>2, <1>3, <1>4, CompletedStays DEF Moves, Answering, Answered
<1>5. CASE t = a /\ actors'[t].pc = "write"
  <2>1. /\ At(t, "lock") /\ actors[t].role = "assistant" /\ actors'[t].req = actors[t].req
      BY <1>2, <1>5, ArrivesAtWrite, RequestKept DEF At
  <2> QED  BY <1>3, <1>5, <2>1, CompletedStays DEF Answering, Answered, At
<1>6. CASE t = a /\ actors'[t].pc = "lock"
  <2>1. ~At(t, "idle")
    <3>1. CASE At(t, "idle")
      <4>1. \E r \in Requests : Ask(t, r)
          BY <1>6, <3>1, TablesAssumption DEF Acts, Serves, Abort, LockSession, Write, Insert, Select,
             Newer, FindOthers, TakeOver, LockOther, Apply, RequireOpen, LockTrip, SaveTrip, Complete, At
      <4> QED  BY <1>2, <4>1, TurnLands DEF Landing
    <3> QED  BY <3>1
  <2>2. actors'[t].req = actors[t].req
      BY <1>6, <2>1, RequestKept DEF At
  <2>3. CASE Answered(t)
      BY <1>3, <1>6, <2>2, <2>3, CompletedStays DEF Answered
  <2>4. CASE Complete(t) /\ Fenced(t)
      BY <1>3, <2>2, <2>4 DEF Complete, TypeOK, Run
  <2> QED  BY <1>2, <1>6, <2>3, <2>4, ArrivesWithAnswer
<1> QED  BY <1>2, <1>4, <1>5, <1>6

\* What a step adds to the messages, and what it keeps of them.
Written(t) == [req |-> actors[t].req, role |-> actors[t].role,
               seq |-> sessions[actors[t].session].last + 1, deleted |-> FALSE]

LEMMA MessagesWritten ==
    ASSUME TypeOK, Serving, NEW t \in Turns, Write(t)
    PROVE  /\ messages' = IF Stored(t) THEN messages ELSE messages \union {Written(t)}
           /\ \A s \in Sessions : sessions'[s].last =
                sessions[s].last + (IF s = actors[t].session THEN Counted(t) ELSE 0)
           /\ actors[t].req \in Requests /\ actors[t].session = SessionOf[actors[t].req]
           /\ actors[t].session \in Sessions
<1> DEFINE s == actors[t].session
<1>1. actors[t].req \in Requests /\ s = SessionOf[actors[t].req] /\ s \in Sessions
    BY TablesAssumption DEF Write, Serving, Sited, Actors, At
<1>2. sessions' = [sessions EXCEPT ![s].last = @ + Counted(t)]
      /\ sessions \in [Sessions -> [closed: BOOLEAN, last: Nat]] /\ Counted(t) \in Nat
    BY DEF Write, TypeOK, Counted
<1>3. \A u \in Sessions : sessions'[u].last = sessions[u].last + (IF u = s THEN Counted(t) ELSE 0)
    BY <1>1, <1>2
<1>4. ~Stored(t) => sessions'[s].last = sessions[s].last + 1
    BY <1>1, <1>3 DEF Counted
<1> QED  BY <1>1, <1>3, <1>4 DEF Write, Written

LEMMA MessagesKept ==
    ASSUME TypeOK, NEW a \in Actors, Acts(a), NEW m \in messages
    PROVE  \E n \in messages' : n.req = m.req /\ n.role = m.role /\ n.seq = m.seq
<1>1. CASE UNCHANGED messages
    BY <1>1
<1>2. CASE Write(a)
    BY <1>2 DEF Write
<1>3. CASE CommitDelete(a)
  <2>1. [m EXCEPT !.deleted = @ \/ SessionOf[m.req] = actors[a].session] \in messages'
      BY <1>3 DEF CommitDelete
  <2> QED  BY <2>1 DEF TypeOK, Message
<1> QED  BY <1>1, <1>2, <1>3, SessionsStep

LEMMA AskedStep ==
    ASSUME TypeOK, Serving, Asked, NEW a \in Actors, Acts(a)
    PROVE  Asked'
<1>1. SUFFICES ASSUME NEW t \in Turns, ~At(t, "idle")', ~Asking(t)'
               PROVE  HasQuestion(actors[t].req)'
    BY DEF Asked
<1>2. \A r \in Requests : HasQuestion(r) => HasQuestion(r)'
    BY MessagesKept DEF HasQuestion
<1>3. CASE t # a
    BY <1>1, <1>2, <1>3, ActorMoves DEF Moves, Asked, Asking, At, Serving, Sited, Actors
<1>4. CASE t = a
  <2>1. ~At(t, "idle")
    <3>1. CASE At(t, "idle")
      <4>1. \E r \in Requests : Ask(t, r)
          BY <1>4, <3>1, TablesAssumption DEF Acts, Serves, Abort, LockSession, Write, Insert, Select,
             Newer, FindOthers, TakeOver, LockOther, Apply, RequireOpen, LockTrip, SaveTrip, Complete, At
      <4> QED  BY <1>1, <4>1, TurnLands DEF Landing, Asking, At
    <3> QED  BY <3>1
  <2>2. actors'[t].req = actors[t].req /\ actors[t].req \in Requests
      BY <1>1, <1>4, <2>1, RequestKept DEF Serving, Sited, Actors
  <2>3. CASE ~Asking(t)
      BY <1>2, <2>1, <2>2, <2>3 DEF Asked
  <2>4. CASE Asking(t) /\ At(t, "write")
    <3>1. Write(t)
        BY <1>1, <1>4, <2>4, TurnLands, TablesAssumption DEF Acts, Serves, Abort, Ask, LockSession,
           Insert, Select, Newer, FindOthers, TakeOver, LockOther, Apply, RequireOpen, LockTrip,
           SaveTrip, Complete, At, Landing
    <3>2. \E m \in messages' : m.req = actors[t].req /\ m.role = "user"
      <4>1. CASE Stored(t)
          BY <2>4, <3>1, <4>1, MessagesWritten DEF Stored, Asking
      <4>2. CASE ~Stored(t)
        <5>1. Written(t) \in messages'
            BY <3>1, <4>2, MessagesWritten
        <5> QED  BY <2>4, <5>1 DEF Written, Asking
      <4> QED  BY <4>1, <4>2
    <3> QED  BY <2>2, <3>2 DEF HasQuestion
  <2>5. CASE Asking(t) /\ At(t, "lock")
    <3>1. LockSession(t)
        BY <1>1, <1>4, <2>5, TurnLands, TablesAssumption DEF Acts, Serves, Abort, Ask, Write,
           Insert, Select, Newer, FindOthers, TakeOver, LockOther, Apply, RequireOpen, LockTrip,
           SaveTrip, Complete, At, Landing
    <3>2. At(t, "write")'
        BY <1>1, <3>1, TurnLands, Takes DEF Landing, Actors, At
    <3>3. actors'[t].role = "user"
        BY <1>4, <2>1, <2>5, <3>2, RequestKept DEF Asking, At
    <3> QED  BY <1>1, <3>2, <3>3 DEF Asking, At
  <2> QED  BY <2>3, <2>4, <2>5 DEF Asking, At
<1> QED  BY <1>3, <1>4

LEMMA NumberedStep ==
    ASSUME TypeOK, Serving, Numbered, NEW a \in Actors, Acts(a)
    PROVE  Numbered'
<1>1. CASE UNCHANGED <<sessions, messages>>
    BY <1>1 DEF Numbered
<1>2. CASE a \in Turns /\ Write(a)
  <2>1. \A m \in messages' : m \in messages \/ (m = Written(a) /\ ~Stored(a))
      BY <1>2, MessagesWritten
  <2>2. \A m \in messages : SessionOf[m.req] \in Sessions /\ m.seq \in Nat
      BY TablesAssumption DEF TypeOK, Message
  <2>3. \A s \in Sessions : sessions[s].last \in Nat /\ sessions[s].last <= sessions'[s].last
      BY <1>2, MessagesWritten DEF TypeOK, Counted
  <2>4. ~Stored(a) => Written(a).seq = sessions'[SessionOf[Written(a).req]].last
      BY <1>2, <2>3, MessagesWritten DEF Written, Counted
  <2>5. ASSUME NEW m \in messages
        PROVE  m.seq <= sessions'[SessionOf[m.req]].last
      BY <1>2, <2>2, <2>3, MessagesWritten DEF Numbered, Counted
  <2>6. ~Stored(a) => Written(a).seq \in Nat
      BY <1>2, <2>3, MessagesWritten DEF Written
  <2> QED  BY <2>1, <2>4, <2>5, <2>6 DEF Numbered
<1>3. CASE a \in Deleters /\ CommitDelete(a)
  <2>1. \A m \in messages' : \E n \in messages : m.req = n.req /\ m.seq = n.seq
    <3>1. SUFFICES ASSUME NEW m \in messages'
                   PROVE  \E n \in messages : m.req = n.req /\ m.seq = n.seq
        OBVIOUS
    <3>2. PICK n \in messages : m = [n EXCEPT !.deleted = @ \/ SessionOf[n.req] = actors[a].session]
        BY <1>3 DEF CommitDelete
    <3> QED  BY <3>2 DEF TypeOK, Message
  <2>2. \A s \in Sessions : sessions'[s].last = sessions[s].last
      BY <1>3 DEF CommitDelete, TypeOK
  <2>3. \A n \in messages : SessionOf[n.req] \in Sessions
      BY TablesAssumption DEF TypeOK, Message
  <2> QED  BY <2>1, <2>2, <2>3 DEF Numbered
<1> QED  BY <1>1, <1>2, <1>3, SessionsStep

LEMMA AnswersStep ==
    ASSUME IAnswers, NEW a \in Actors, Acts(a)
    PROVE  AnswersAreReal'
<1> USE DEF IAnswers
<1>1. SUFFICES ASSUME NEW m \in messages', m.role = "assistant"
               PROVE  /\ runs'[m.req].status = "completed"
                      /\ \E q \in messages' : q.req = m.req /\ q.role = "user" /\ q.seq < m.seq
    BY DEF AnswersAreReal
<1>2. ASSUME NEW n \in messages, n.req = m.req, n.role = m.role, n.seq = m.seq
      PROVE  /\ runs'[m.req].status = "completed"
             /\ \E q \in messages' : q.req = m.req /\ q.role = "user" /\ q.seq < m.seq
  <2>1. n.req \in Requests
      BY DEF TypeOK, Message
  <2>2. PICK q \in messages : q.req = n.req /\ q.role = "user" /\ q.seq < n.seq
      BY <1>1, <1>2 DEF AnswersAreReal
  <2> QED  BY <1>1, <1>2, <2>1, <2>2, CompletedStays, MessagesKept DEF AnswersAreReal
<1>3. CASE UNCHANGED messages
    BY <1>2, <1>3
<1>4. CASE a \in Turns /\ Write(a)
  <2>1. CASE m \in messages
      BY <1>2, <2>1
  <2>2. CASE m = Written(a)
    <3>1. actors[a].role = "assistant" /\ m.req = actors[a].req /\ m.req \in Requests
          /\ m.seq = sessions[SessionOf[m.req]].last + 1
        BY <1>1, <1>4, <2>2, MessagesWritten DEF Written
    <3>2. runs[m.req].status = "completed" /\ HasQuestion(m.req)
        BY <1>4, <3>1 DEF Write, Answering, Answered, Asked, Asking, At
    <3>3. PICK q \in messages : q.req = m.req /\ q.role = "user"
        BY <3>2 DEF HasQuestion
    <3>4. q.seq < m.seq
      <4>1. q.seq \in Nat /\ SessionOf[m.req] \in Sessions
          BY <3>1, TablesAssumption DEF TypeOK, Message
      <4>2. q.seq <= sessions[SessionOf[m.req]].last /\ sessions[SessionOf[m.req]].last \in Nat
          BY <3>3, <4>1 DEF Numbered, TypeOK
      <4> QED  BY <3>1, <4>1, <4>2
    <3>5. \E p \in messages' : p.req = q.req /\ p.role = q.role /\ p.seq = q.seq
        BY MessagesKept
    <3> QED  BY <3>1, <3>2, <3>3, <3>4, <3>5, CompletedStays
  <2> QED  BY <1>4, <2>1, <2>2, MessagesWritten
<1>5. CASE a \in Deleters /\ CommitDelete(a)
  <2>1. PICK n \in messages : m = [n EXCEPT !.deleted = @ \/ SessionOf[n.req] = actors[a].session]
      BY <1>5 DEF CommitDelete
  <2>2. n.req = m.req /\ n.role = m.role /\ n.seq = m.seq
      BY <2>1 DEF TypeOK, Message
  <2> QED  BY <1>2, <2>2
<1> QED  BY <1>3, <1>4, <1>5, SessionsStep

\* Who stores an answer has found its run completed under the lock of its row, or has
\* completed it; a completed run is never begun again.
THEOREM AnswersAreThoseOfRuns == Spec => []AnswersAreReal
<1>1. Init => IAnswers
    BY TypeInit DEF Init, IAnswers, Holding, Answering, Asked, Asking, Numbered, AnswersAreReal, At,
       Idle, Actors
<1>2. ASSUME IAnswers, [Next]_vars
      PROVE  IAnswers'
  <2>1. CASE UNCHANGED vars
      BY <1>2, <2>1 DEF IAnswers, vars, tables, TypeOK, Serving, Sited, At, Holding, MyRun, Answered,
         Answering, Asked, Asking, HasQuestion, Numbered, AnswersAreReal
  <2>2. ASSUME NEW a \in Actors, Acts(a)
        PROVE  IAnswers'
      BY <1>2, <2>2, TypeStep, HoldingStep, AnsweringStep, AskedStep, NumberedStep, AnswersStep
      DEF IAnswers
  <2> QED  BY <1>2, <2>1, <2>2, NextActs
<1> QED  BY <1>1, <1>2, PTL DEF Spec, IAnswers

\* The requests of a session exclude each other, its answers are real, and its
\* deletion is final.
THEOREM RequestsStaySound == Spec => []RequestsAreSound
  BY OneRequestRuns, DeletedSessionsAreSilent, AnswersAreThoseOfRuns, PTL DEF RequestsAreSound

-----------------------------------------------------------------------------
(* The messages of a session are numbered one after the other. *)

LEMMA DenseStep ==
    ASSUME TypeOK, Serving, TranscriptIsDense, NEW a \in Actors, Acts(a)
    PROVE  TranscriptIsDense'
<1> DEFINE Seqs(all, s) == {m.seq : m \in {n \in all : SessionOf[n.req] = s}}
           Alike(m, n) == \/ m.req = n.req /\ m.role = n.role
                          \/ SessionOf[m.req] = SessionOf[n.req] /\ m.seq = n.seq
<1>1. /\ \A s \in Sessions : Seqs(messages, s) = 1..sessions[s].last
      /\ \A m, n \in messages : Alike(m, n) => m = n
    BY DEF TranscriptIsDense
<1>2. SUFFICES /\ \A s \in Sessions : Seqs(messages', s) = 1..sessions'[s].last
               /\ \A m, n \in messages' : Alike(m, n) => m = n
    BY DEF TranscriptIsDense
<1>3. CASE UNCHANGED <<sessions, messages>>
    BY <1>1, <1>3
<1>4. CASE a \in Turns /\ Write(a)
  <2> DEFINE w == Written(a)
             u == actors[a].session
  <2>1. /\ \A s \in Sessions : sessions[s].last \in Nat
        /\ \A m \in messages : SessionOf[m.req] \in Sessions
      BY TablesAssumption DEF TypeOK, Message
  <2>2. /\ messages' = IF Stored(a) THEN messages ELSE messages \union {w}
        /\ \A s \in Sessions : sessions'[s].last =
             sessions[s].last + (IF s = u THEN Counted(a) ELSE 0)
        /\ u = SessionOf[actors[a].req] /\ u \in Sessions
      BY <1>4, MessagesWritten
  <2>3. CASE Stored(a)
    <3>1. \A s \in Sessions : sessions'[s].last = sessions[s].last
        BY <2>1, <2>2, <2>3 DEF Counted
    <3> QED  BY <1>1, <2>2, <2>3, <3>1
  <2>4. CASE ~Stored(a)
    <3>1. w.req = actors[a].req /\ w.role = actors[a].role /\ w.seq = sessions[u].last + 1
        BY DEF Written
    <3>2. \A s \in Sessions : sessions'[s].last = sessions[s].last + (IF s = u THEN 1 ELSE 0)
        BY <2>2, <2>4 DEF Counted
    <3>3. messages' = messages \union {w}
        BY <2>2, <2>4
    <3>4. ASSUME NEW s \in Sessions
          PROVE  Seqs(messages', s) = 1..sessions'[s].last
      <4>1. Seqs(messages', s) = Seqs(messages, s) \union (IF s = u THEN {w.seq} ELSE {})
          BY <2>2, <3>1, <3>3
      <4>2. 1..sessions'[s].last = 1..sessions[s].last \union (IF s = u THEN {w.seq} ELSE {})
          BY <2>1, <3>1, <3>2
      <4> QED  BY <1>1, <4>1, <4>2
    <3>5. \A m \in messages : ~Alike(m, w)
      <4>1. ASSUME NEW m \in messages, SessionOf[m.req] = u, m.seq = w.seq
            PROVE  FALSE
        <5>1. m.seq \in Seqs(messages, u)
            BY <4>1
        <5>2. m.seq \in 1..sessions[u].last
            BY <1>1, <2>2, <5>1
        <5> QED  BY <2>1, <2>2, <3>1, <4>1, <5>2
      <4>2. ASSUME NEW m \in messages
            PROVE  ~(m.req = w.req /\ m.role = w.role)
          BY <2>4, <3>1, <4>2 DEF Stored
      <4> QED  BY <2>2, <3>1, <4>1, <4>2
    <3>6. \A m \in messages : ~Alike(w, m)
        BY <3>5
    <3> QED  BY <1>1, <3>3, <3>4, <3>5, <3>6
  <2> QED  BY <2>3, <2>4
<1>5. CASE a \in Deleters /\ CommitDelete(a)
  <2> DEFINE marked(m) == [m EXCEPT !.deleted = @ \/ SessionOf[m.req] = actors[a].session]
  <2>1. messages' = {marked(m) : m \in messages}
        /\ \A s \in Sessions : sessions'[s].last = sessions[s].last
      BY <1>5 DEF CommitDelete, TypeOK
  <2>2. \A m \in messages : marked(m).req = m.req /\ marked(m).role = m.role /\ marked(m).seq = m.seq
      BY DEF TypeOK, Message
  <2> HIDE DEF marked
  <2>3. \A s \in Sessions : Seqs(messages', s) = Seqs(messages, s)
      BY <2>1, <2>2
  <2>4. ASSUME NEW m \in messages', NEW n \in messages', Alike(m, n)
        PROVE  m = n
    <3>1. PICK x \in messages, y \in messages : m = marked(x) /\ n = marked(y)
        BY <2>1
    <3>2. Alike(x, y)
        BY <2>2, <2>4, <3>1
    <3> QED  BY <1>1, <3>1, <3>2
  <2> QED  BY <1>1, <2>1, <2>3, <2>4
<1> QED  BY <1>3, <1>4, <1>5, SessionsStep

\* A message takes the next number of its session in the transaction that stores it, and
\* is not stored again however often its request is sent.
THEOREM TranscriptsStayDense == Spec => []TranscriptIsDense
<1> DEFINE I == TypeOK /\ Serving /\ TranscriptIsDense
<1>1. Init => I
    BY TypeInit DEF Init, TranscriptIsDense
<1>2. ASSUME I, [Next]_vars
      PROVE  I'
  <2>1. CASE UNCHANGED vars
      BY <1>2, <2>1 DEF vars, tables, TypeOK, Serving, Sited, At, TranscriptIsDense
  <2> QED  BY <1>2, <2>1, NextActs, TypeStep, DenseStep
<1> QED  BY <1>1, <1>2, PTL DEF Spec

-----------------------------------------------------------------------------
(* The transactions never wait for one another in a circle. *)

\* The runs of a session were born one after the other, and the one that runs last.
Ages ==
    /\ \A q \in Requests : runs[q].born <= clock
    /\ \A q, r \in Requests : SessionOf[q] = SessionOf[r] /\ Exists(q) /\ Exists(r) =>
         /\ q # r => runs[q].born # runs[r].born
         /\ runs[q].status = "running" => runs[r].born <= runs[q].born

\* The rows a turn can have locked where it is.
TurnRows(t) ==
    /\ \A s \in Sessions : locks[<<"session", s>>] = t => At(t, "write")
    /\ \A s \in Sessions : locks[<<"trip", s>>] = t => At(t, "save")
    /\ \A q \in Requests : locks[<<"run", q>>] = t =>
         \/ /\ q = actors[t].req
            /\ \/ actors[t].pc \in {"newer", "others", "interrupt", "require", "trip", "save"}
               \/ At(t, "select") /\ actors[t].inserted
         \/ At(t, "interrupt") /\ q \in actors[t].touched

\* A begin holds the row it has inserted, which nobody sees yet and which is to be
\* the youngest; what it found to interrupt is one run, and then its own is new.
Begins(t) ==
    /\ Beginning(t) => actors[t].owner <= clock
    /\ Beginning(t) /\ actors[t].inserted =>
         /\ locks[MyRun(t)] = t /\ ~Exists(actors[t].req)
         /\ \A q \in RunsOf(actors[t].session) : runs[q].born < actors[t].owner
    /\ Beginning(t) /\ ~At(t, "select") /\ ~actors[t].inserted => Exists(actors[t].req)
    /\ actors[t].pc \in {"others", "interrupt"} => ~Replaced(t)
    /\ actors[t].touched # {} => At(t, "interrupt")
    /\ actors[t].todo # {} =>
         /\ At(t, "interrupt") /\ actors[t].touched = {} /\ ~Exists(actors[t].req)
         /\ \A q \in actors[t].todo : Exists(q) /\ SessionOf[q] = actors[t].session
         /\ \A p, q \in actors[t].todo : p = q

\* The rows a deletion can have locked where it is, and those it is going to lock.
DeleterRows(d) ==
    /\ actors[d].pc \in {"idle", "check", "rows", "locking", "stopping", "trips", "deleted"}
    /\ \A s \in Sessions : locks[<<"session", s>>] = d => actors[d].pc \in {"trips", "deleted"}
    /\ \A s \in Sessions : locks[<<"trip", s>>] = d => At(d, "deleted")
    /\ \A q \in Requests : locks[<<"run", q>>] = d =>
         /\ SessionOf[q] = actors[d].session
         /\ actors[d].pc \in {"locking", "stopping", "trips", "deleted"}
    /\ actors[d].todo # {} => actors[d].pc \in {"locking", "stopping"}
    /\ \A q \in actors[d].todo : Exists(q) /\ SessionOf[q] = actors[d].session

Rowed == (\A t \in Turns : TurnRows(t) /\ Begins(t)) /\ (\A d \in Deleters : DeleterRows(d))

IOrder == IRunning /\ Ages /\ Rowed

\* A step gives and takes locks of its own actor only.
LEMMA LocksOfOthers ==
    ASSUME TypeOK, NEW a \in Actors, Locks(a), NEW b \in Actors \ {a}, NEW row \in Rows
    PROVE  locks'[row] = b <=> locks[row] = b
BY TablesAssumption DEF TypeOK, Locks, Released, Locked, Available, Actors

\* What a step does to the rows of runs: only a begin makes one or changes its birth.
LEMMA BirthsStep ==
    ASSUME TypeOK, Serving, NEW a \in Actors, Acts(a), NEW q \in Requests
    PROVE  \/ runs'[q].born = runs[q].born /\ (Exists(q)' <=> Exists(q))
           \/ a \in Turns /\ TakeOver(a) /\ q = actors[a].req
<1> USE DEF Exists
<1>1. CASE runs' = runs
    BY <1>1
<1>2. CASE a \in Turns /\ TakeOver(a)
    BY <1>2 DEF TakeOver, Interrupted, TypeOK, Run
<1>3. CASE a \in Turns /\ Complete(a) /\ Fenced(a)
    BY <1>3 DEF Complete, Fenced, TypeOK, Run
<1>4. CASE a \in Deleters /\ CommitDelete(a)
    BY <1>4 DEF CommitDelete, Interrupted, TypeOK, Run
<1> QED  BY <1>1, <1>2, <1>3, <1>4, RunsStep

LEMMA ClockStep ==
    ASSUME TypeOK, NEW a \in Actors, Acts(a)
    PROVE  clock \in Nat /\ clock' \in Nat /\ clock <= clock'
<1>1. clock \in Nat
    BY TablesAssumption DEF TypeOK
<1>2. CASE UNCHANGED clock
    BY <1>1, <1>2
<1>3. CASE Insert(a)
    BY <1>1, <1>3 DEF Insert
<1> QED
    BY <1>2, <1>3 DEF Acts, Serves, Deletes, Abort, Ask, LockSession, Write, Select, Newer, FindOthers,
       LockOther, TakeOver, Apply, RequireOpen, LockTrip, SaveTrip, Complete, Delete, Check, FindRuns,
       LockRun, StopRuns, Close, DeleteTrip, CommitDelete, Rollback, Take, Goto, tables

\* A begin that takes over has the session to itself.
LEMMA TakesAlone ==
    ASSUME TypeOK, Serving, OneBegins, NEW a \in Turns, TakeOver(a), NEW t \in Turns \ {a}, Beginning(t)
    PROVE  /\ actors[a].req \in Requests /\ actors[t].req \in Requests
           /\ actors[a].session = SessionOf[actors[a].req]
           /\ actors[t].session = SessionOf[actors[t].req]
           /\ actors[a].session # actors[t].session
BY DEF TakeOver, OneBegins, Beginning, Serving, Sited, At, Actors

LEMMA AgesStep ==
    ASSUME IOrder, NEW a \in Actors, Acts(a)
    PROVE  Ages'
<1>1. TypeOK /\ Serving /\ OneBegins /\ OneRunning' /\ Ages /\ Rowed
    BY OneRunningStep DEF IOrder, IRunning
<1>2. clock \in Nat /\ clock' \in Nat /\ clock <= clock'
    BY <1>1, ClockStep
<1>3. \A q \in Requests : runs[q].born \in Nat /\ runs[q].status \in {"absent", "running", "completed", "interrupted"}
    BY <1>1 DEF TypeOK, Run
<1>4. CASE a \in Turns /\ TakeOver(a)
  <2> DEFINE r == actors[a].req
  <2>1. r \in Requests /\ actors[a].session = SessionOf[r] /\ At(a, "interrupt") /\ Beginning(a)
      BY <1>1, <1>4 DEF TakeOver, Serving, Sited, At, Actors, Beginning
  <2>2. runs'[r].born = Born(a) /\ runs'[r].status = "running"
      BY <1>4, <2>1 DEF TakeOver
  <2>3. Begins(a) /\ ~Replaced(a)
      BY <1>1, <1>4, <2>1 DEF Rowed, Begins, At
  <2>4. Born(a) \in Nat /\ Born(a) <= clock
    <3>1. actors[a].owner \in Nat /\ actors[a].owner <= clock
        BY <1>1, <1>4, <2>1, <2>3 DEF Begins, TypeOK, Actor, Actors
    <3> QED  BY <1>1, <1>3, <2>1, <3>1 DEF Born, Ages
  <2>5. \A q \in Requests \ {r} : runs'[q].born = runs[q].born /\ (Exists(q)' <=> Exists(q))
      BY <1>1, BirthsStep
  <2>6. \A q \in Requests \ {r} : SessionOf[q] = SessionOf[r] /\ Exists(q) =>
          runs[q].born < Born(a)
    <3>1. SUFFICES ASSUME NEW q \in Requests \ {r}, SessionOf[q] = SessionOf[r], Exists(q)
                   PROVE  runs[q].born < Born(a)
        OBVIOUS
    <3>2. CASE actors[a].inserted
        BY <2>1, <2>3, <3>1, <3>2 DEF Begins, Born, RunsOf
    <3>3. CASE ~actors[a].inserted
      <4>1. Exists(r)
          BY <2>1, <2>3, <3>3 DEF Begins, At
      <4>2. runs[q].born # runs[r].born
          BY <1>1, <2>1, <3>1, <4>1 DEF Ages
      <4>3. ~(runs[q].born > Born(a))
          BY <2>1, <2>3, <3>1 DEF Replaced, RunsOf
      <4> QED  BY <1>3, <2>1, <3>3, <4>2, <4>3 DEF Born
    <3> QED  BY <3>2, <3>3
  <2>7. \A q \in Requests : runs'[q].born <= clock'
      BY <1>1, <1>2, <1>3, <2>2, <2>4, <2>5 DEF Ages
  <2>8. ASSUME NEW q \in Requests, NEW p \in Requests, SessionOf[q] = SessionOf[p], Exists(q)', Exists(p)'
        PROVE  /\ q # p => runs'[q].born # runs'[p].born
               /\ runs'[q].status = "running" => runs'[p].born <= runs'[q].born
    <3>1. CASE q = r /\ p = r
        BY <2>2, <2>4, <3>1
    <3>2. CASE q = r /\ p # r
        BY <1>3, <2>1, <2>2, <2>4, <2>5, <2>6, <2>8, <3>2
    <3>3. CASE q # r /\ p = r
      <4>1. runs'[q].status # "running"
          BY <1>1, <2>1, <2>2, <2>8, <3>3 DEF OneRunning
      <4> QED  BY <1>3, <2>1, <2>2, <2>4, <2>5, <2>6, <2>8, <3>3, <4>1
    <3>4. CASE q # r /\ p # r
      <4>1. runs'[q].status = "running" => runs[q].status = "running"
          BY <1>1, <3>4, RunningStep
      <4> QED  BY <1>1, <2>5, <2>8, <3>4, <4>1 DEF Ages
    <3> QED  BY <3>1, <3>2, <3>3, <3>4
  <2> QED  BY <2>7, <2>8 DEF Ages
<1>5. CASE ~(a \in Turns /\ TakeOver(a))
  <2>1. \A q \in Requests : runs'[q].born = runs[q].born /\ (Exists(q)' <=> Exists(q))
      BY <1>1, <1>5, BirthsStep
  <2>2. \A q \in Requests : runs'[q].status = "running" => runs[q].status = "running"
      BY <1>1, <1>5, RunningStep
  <2>3. \A q \in Requests : runs'[q].born <= clock'
      BY <1>1, <1>2, <1>3, <2>1 DEF Ages
  <2> QED  BY <1>1, <2>1, <2>2, <2>3 DEF Ages
<1> QED  BY <1>4, <1>5

\* What the steps of others leave of where a turn is, and of a deletion.
LEMMA OthersRowed ==
    ASSUME IOrder, NEW a \in Actors, Acts(a)
    PROVE  /\ \A t \in Turns \ {a} : (TurnRows(t) /\ Begins(t))'
           /\ \A d \in Deleters \ {a} : DeleterRows(d)'
<1>1. TypeOK /\ Serving /\ OneBegins /\ Rowed /\ Moves(a) /\ Locks(a)
    BY ActorMoves, LocksStep DEF IOrder, IRunning
<1>2. clock \in Nat /\ clock' \in Nat /\ clock <= clock'
    BY <1>1, ClockStep
<1>3. \A b \in Actors \ {a} : actors'[b] = actors[b] /\ \A row \in Rows : locks'[row] = b <=> locks[row] = b
    BY <1>1, LocksOfOthers DEF Moves
<1>4. \A q \in Requests : Exists(q) => Exists(q)'
  <2>1. ASSUME a \in Turns, TakeOver(a), NEW q \in Requests, q = actors[a].req
        PROVE  Exists(q)'
      BY <2>1 DEF TakeOver, Exists
  <2> QED  BY <1>1, <2>1, BirthsStep
<1>5. ASSUME NEW t \in Turns \ {a}
      PROVE  (TurnRows(t) /\ Begins(t))'
  <2>1. t \in Actors /\ actors'[t] = actors[t]
      BY <1>3 DEF Actors
  <2>2. TurnRows(t) /\ Begins(t)
      BY <1>1 DEF Rowed
  <2>3. /\ \A s \in Sessions : locks'[<<"session", s>>] = t <=> locks[<<"session", s>>] = t
        /\ \A s \in Sessions : locks'[<<"trip", s>>] = t <=> locks[<<"trip", s>>] = t
        /\ \A q \in Requests : locks'[<<"run", q>>] = t <=> locks[<<"run", q>>] = t
      BY <1>3, <2>1 DEF Rows
  <2>4. TurnRows(t)'
      BY <2>1, <2>2, <2>3 DEF TurnRows, At
  <2>5. CASE ~Beginning(t)
    <3>1. actors[t].todo = {} /\ actors[t].touched = {} /\ actors[t].pc \notin {"others", "interrupt"}
        BY <2>2, <2>5 DEF Begins, Beginning, At
    <3> QED  BY <2>1, <2>4, <2>5, <3>1 DEF Begins, Beginning, At
  <2>6. CASE Beginning(t)
    <3>1. actors[t].req \in Requests /\ actors[t].session = SessionOf[actors[t].req]
        BY <1>1, <2>1, <2>6 DEF Serving, Sited, Beginning, At
    <3>2. \A q \in Requests : SessionOf[q] = actors[t].session =>
            runs'[q].born = runs[q].born /\ (Exists(q)' <=> Exists(q))
        BY <1>1, <2>6, BirthsStep, TakesAlone
    <3>3. RunsOf(actors[t].session)' = RunsOf(actors[t].session)
        BY <2>1, <3>2 DEF RunsOf
    <3>4. Born(t)' = Born(t) /\ Replaced(t)' = Replaced(t)
      <4>1. Born(t)' = Born(t)
          BY <2>1, <3>1, <3>2 DEF Born
      <4>2. \A q \in RunsOf(actors[t].session) : runs'[q].born = runs[q].born
          BY <3>2 DEF RunsOf
      <4> QED  BY <2>1, <3>3, <4>1, <4>2 DEF Replaced
    <3>5. Exists(actors[t].req)' <=> Exists(actors[t].req)
        BY <2>1, <3>1, <3>2 DEF Exists
    <3>6. actors[t].owner \in Nat
        BY <1>1, <2>1 DEF TypeOK, Actor
    <3>7. actors'[t].owner <= clock'
        BY <1>2, <2>1, <2>2, <2>6, <3>6 DEF Begins
    <3>8. (Beginning(t) /\ actors[t].inserted =>
            /\ locks[MyRun(t)] = t /\ ~Exists(actors[t].req)
            /\ \A q \in RunsOf(actors[t].session) : runs[q].born < actors[t].owner)'
      <4>1. actors[t].inserted => locks'[<<"run", actors[t].req>>] = t
          BY <2>2, <2>3, <2>6, <3>1 DEF Begins, MyRun
      <4>2. actors[t].inserted => \A q \in RunsOf(actors[t].session) : runs[q].born < actors[t].owner
          BY <2>2, <2>6 DEF Begins
      <4>3. \A q \in RunsOf(actors[t].session) : runs'[q].born = runs[q].born
          BY <3>2 DEF RunsOf
      <4>4. actors[t].inserted => ~Exists(actors[t].req)
          BY <2>2, <2>6 DEF Begins
      <4> QED  BY <2>1, <3>3, <3>5, <4>1, <4>2, <4>3, <4>4 DEF MyRun
    <3>9. (actors[t].todo # {} =>
            /\ At(t, "interrupt") /\ actors[t].touched = {} /\ ~Exists(actors[t].req)
            /\ \A q \in actors[t].todo : Exists(q) /\ SessionOf[q] = actors[t].session
            /\ \A p, q \in actors[t].todo : p = q)'
      <4>1. actors[t].todo \subseteq Requests
          BY <1>1, <2>1 DEF TypeOK, Actor
      <4> QED  BY <1>4, <2>1, <2>2, <3>5, <4>1 DEF Begins, At
    <3> QED  BY <2>1, <2>2, <2>4, <2>6, <3>4, <3>5, <3>7, <3>8, <3>9 DEF Begins, Beginning, At
  <2> QED  BY <2>5, <2>6
<1>6. ASSUME NEW d \in Deleters \ {a}
      PROVE  DeleterRows(d)'
  <2>1. d \in Actors /\ actors'[d] = actors[d]
      BY <1>3 DEF Actors
  <2>2. DeleterRows(d) /\ actors[d].todo \subseteq Requests
      BY <1>1, <2>1 DEF Rowed, TypeOK, Actor
  <2>3. /\ \A s \in Sessions : locks'[<<"session", s>>] = d <=> locks[<<"session", s>>] = d
        /\ \A s \in Sessions : locks'[<<"trip", s>>] = d <=> locks[<<"trip", s>>] = d
        /\ \A q \in Requests : locks'[<<"run", q>>] = d <=> locks[<<"run", q>>] = d
      BY <1>3, <2>1 DEF Rows
  <2> QED  BY <1>4, <2>1, <2>2, <2>3 DEF DeleterRows, At
<1> QED  BY <1>5, <1>6

\* What an actor keeps of itself when it goes on, and when a transaction ends.
LEMMA KeepsItself ==
    ASSUME TypeOK, NEW a \in Actors, NEW pc, actors' = [actors EXCEPT ![a].pc = pc]
    PROVE  /\ actors'[a].pc = pc
           /\ actors'[a].req = actors[a].req /\ actors'[a].session = actors[a].session
           /\ actors'[a].owner = actors[a].owner /\ actors'[a].inserted = actors[a].inserted
           /\ actors'[a].todo = actors[a].todo /\ actors'[a].touched = actors[a].touched
<1>1. actors[a] \in Actor /\ actors'[a] = [actors[a] EXCEPT !.pc = pc]
    BY GoesTo DEF TypeOK
<1> QED  BY <1>1 DEF Actor

LEMMA GivesUp ==
    ASSUME TypeOK, NEW a \in Actors,
           \/ Leave(a)
           \/ \E pc \in {"insert", "lock", "working"}, role \in {"user", "assistant"} : Onward(a, pc, role)
    PROVE  /\ actors'[a].pc \in {"idle", "insert", "lock", "working"}
           /\ actors'[a].todo = {} /\ actors'[a].touched = {}
           /\ \A row \in Rows : locks'[row] # a
<1>1. locks' = Released(a) /\ a # None
    BY TablesAssumption DEF Leave, Onward, Actors
<1>2. \A row \in Rows : locks'[row] # a
    BY <1>1 DEF Released
<1>3. CASE Leave(a)
    BY <1>2, <1>3, Leaves DEF Idle
<1>4. ASSUME NEW pc \in {"insert", "lock", "working"}, NEW role \in {"user", "assistant"}, Onward(a, pc, role)
      PROVE  /\ actors'[a].pc \in {"idle", "insert", "lock", "working"}
             /\ actors'[a].todo = {} /\ actors'[a].touched = {}
    BY <1>4 DEF TypeOK, Onward, Idle
<1> QED  BY <1>2, <1>3, <1>4

\* With no lock and nothing found, everything is in order.
LEMMA GaveUp ==
    ASSUME NEW a \in Actors, actors'[a].pc \in {"idle", "insert", "lock", "working"},
           actors'[a].todo = {}, actors'[a].touched = {}, \A row \in Rows : locks'[row] # a
    PROVE  (TurnRows(a) /\ Begins(a))' /\ (At(a, "idle")' => DeleterRows(a)')
<1>1. /\ \A s \in Sessions : locks'[<<"session", s>>] # a /\ locks'[<<"trip", s>>] # a
      /\ \A q \in Requests : locks'[<<"run", q>>] # a
    BY DEF Rows
<1> QED  BY <1>1 DEF TurnRows, Begins, DeleterRows, Beginning, At

LEMMA Locking ==
    ASSUME TypeOK, NEW a \in Actors, NEW row \in Rows, locks' = Locked(row, a)
    PROVE  \A other \in Rows : locks'[other] = a <=> other = row \/ locks[other] = a
BY DEF TypeOK, Locked

\* The steps of a turn.
LEMMA TurnRowed ==
    ASSUME IOrder, NEW t \in Turns, Serves(t) \/ Abort(t)
    PROVE  (TurnRows(t) /\ Begins(t))'
<1>1. TypeOK /\ Serving /\ OneBegins /\ OneRunning /\ Ages /\ TurnRows(t) /\ Begins(t)
    BY DEF IOrder, IRunning, Rowed
<1>2. t \in Actors /\ actors \in [Actors -> Actor] /\ actors[t] \in Actor /\ clock \in Nat
    BY <1>1, TablesAssumption DEF TypeOK, Actors
<1>3. ASSUME \/ Leave(t)
             \/ \E pc \in {"insert", "lock", "working"}, role \in {"user", "assistant"} : Onward(t, pc, role)
      PROVE  (TurnRows(t) /\ Begins(t))'
    BY <1>1, <1>2, <1>3, GivesUp, GaveUp
<1>4. CASE Abort(t) \/ Write(t) \/ SaveTrip(t) \/ TakeOver(t) \/ Complete(t)
    BY <1>3, <1>4 DEF Abort, Rollback, Write, SaveTrip, TakeOver, Complete
<1>5. ASSUME ~At(t, "idle")
      PROVE  /\ actors[t].req \in Requests /\ actors[t].session = SessionOf[actors[t].req]
             /\ actors[t].session \in Sessions
             /\ MySession(t) \in Rows /\ MyTrip(t) \in Rows /\ MyRun(t) \in Rows
    BY <1>1, <1>2, <1>5, OwnRows, TablesAssumption DEF Serving, Sited
\* A row of one kind is no row of another.
<1>6. ASSUME NEW kind \in {"session", "trip", "run"}, NEW x, <<kind, x>> \in Rows,
             locks' = Locked(<<kind, x>>, t)
      PROVE  /\ \A s \in Sessions : locks'[<<"session", s>>] = t <=>
                  locks[<<"session", s>>] = t \/ (kind = "session" /\ s = x)
             /\ \A s \in Sessions : locks'[<<"trip", s>>] = t <=>
                  locks[<<"trip", s>>] = t \/ (kind = "trip" /\ s = x)
             /\ \A q \in Requests : locks'[<<"run", q>>] = t <=>
                  locks[<<"run", q>>] = t \/ (kind = "run" /\ q = x)
    BY <1>1, <1>2, <1>6, Locking DEF Rows
<1>7. ASSUME NEW r \in Requests, Ask(t, r)
      PROVE  (TurnRows(t) /\ Begins(t))'
  <2>1. locks' = locks /\ At(t, "idle") /\ actors'[t].pc = "lock" /\ actors'[t].todo = {} /\ actors'[t].touched = {}
      BY <1>2, <1>7 DEF Ask, Idle
  <2>2. \A row \in Rows : locks'[row] # t
      BY <1>1, <2>1 DEF TurnRows, Rows, At
  <2> QED  BY <1>2, <2>1, <2>2, GaveUp
<1>8. CASE LockSession(t)
  <2>1. CASE Rollback(t)
      BY <1>3, <2>1 DEF Rollback
  <2>2. CASE Take(t, MySession(t), "write")
    <3>1. At(t, "lock")
        BY <1>8 DEF LockSession
    <3>2. actors'[t].pc = "write" /\ actors'[t].todo = actors[t].todo /\ actors'[t].touched = actors[t].touched
        BY <1>1, <1>2, <2>2, KeepsItself DEF Take
    <3>3. /\ \A s \in Sessions : locks'[<<"trip", s>>] = t <=> locks[<<"trip", s>>] = t
          /\ \A q \in Requests : locks'[<<"run", q>>] = t <=> locks[<<"run", q>>] = t
        BY <1>5, <1>6, <2>2, <3>1 DEF Take, MySession, At
    <3> QED  BY <1>1, <3>1, <3>2, <3>3 DEF TurnRows, Begins, Beginning, At
  <2> QED  BY <1>8, <2>1, <2>2 DEF LockSession
<1>9. CASE Insert(t)
  <2> DEFINE new == ~Closed(t) /\ ~Exists(actors[t].req)
  <2>1. At(t, "insert") /\ clock' = clock + 1 /\ tables' = tables /\ (new => Available(MyRun(t), t))
        /\ locks' = IF new THEN Locked(MyRun(t), t) ELSE locks
      BY <1>9 DEF Insert
  <2>2. PICK y \in BOOLEAN : y = new
      OBVIOUS
  <2>3. actors' = [actors EXCEPT ![t].pc = "select", ![t].owner = clock + 1, ![t].inserted = y]
      BY <1>9, <2>2 DEF Insert
  <2>4. /\ actors'[t].pc = "select" /\ actors'[t].owner = clock + 1 /\ actors'[t].inserted = y
        /\ actors'[t].req = actors[t].req /\ actors'[t].session = actors[t].session
        /\ actors'[t].todo = actors[t].todo /\ actors'[t].touched = actors[t].touched
      BY <1>2, <2>3 DEF Actor
  <2>5. actors[t].todo = {} /\ actors[t].touched = {} /\ ~At(t, "idle")
      BY <1>1, <2>1 DEF Begins, At
  <2>6. /\ \A s \in Sessions : locks'[<<"session", s>>] # t /\ locks'[<<"trip", s>>] # t
        /\ \A q \in Requests : locks'[<<"run", q>>] = t => y /\ q = actors[t].req
    <3>1. /\ \A s \in Sessions : locks[<<"session", s>>] # t /\ locks[<<"trip", s>>] # t
          /\ \A q \in Requests : locks[<<"run", q>>] # t
        BY <1>1, <2>1 DEF TurnRows, At
    <3>2. CASE new
      <4>1. locks' = Locked(<<"run", actors[t].req>>, t) /\ <<"run", actors[t].req>> \in Rows
          BY <1>5, <2>1, <2>5, <3>2 DEF MyRun
      <4>2. /\ \A s \in Sessions : locks'[<<"session", s>>] = t <=> locks[<<"session", s>>] = t
            /\ \A s \in Sessions : locks'[<<"trip", s>>] = t <=> locks[<<"trip", s>>] = t
            /\ \A q \in Requests : locks'[<<"run", q>>] = t <=> locks[<<"run", q>>] = t \/ q = actors[t].req
          BY <1>6, <4>1
      <4> QED  BY <2>2, <3>1, <3>2, <4>2
    <3>3. CASE ~new
        BY <2>1, <3>1, <3>3
    <3> QED  BY <3>2, <3>3
  <2>7. TurnRows(t)'
      BY <2>4, <2>6 DEF TurnRows, At
  <2>8. runs' = runs
      BY <2>1 DEF tables
  <2>9. \A q \in RunsOf(actors[t].session) : runs[q].born < clock + 1
    <3>1. \A q \in Requests : runs[q].born \in Nat /\ runs[q].born <= clock
        BY <1>1 DEF Ages, TypeOK, Run
    <3> QED  BY <1>2, <3>1 DEF RunsOf
  <2>10. y => ~Exists(actors[t].req)
      BY <2>2
  <2>11. RunsOf(actors[t].session)' = RunsOf(actors[t].session) /\ Exists(actors[t].req)' = Exists(actors[t].req)
      BY <2>4, <2>8 DEF RunsOf, Exists
  <2>13. y => locks'[MyRun(t)'] = t
    <3>1. MyRun(t)' = MyRun(t) /\ MyRun(t) \in Rows
        BY <1>5, <2>4, <2>5 DEF MyRun
    <3> QED  BY <1>1, <1>2, <2>1, <2>2, <3>1, Locking
  <2>12. Begins(t)'
      BY <1>2, <2>1, <2>4, <2>5, <2>8, <2>9, <2>10, <2>11, <2>13 DEF Begins, Beginning, At
  <2> QED  BY <2>7, <2>12
<1>10. CASE Select(t)
  <2>1. CASE Rollback(t) \/ Onward(t, "lock", "assistant")
      BY <1>3, <2>1 DEF Rollback
  <2>2. CASE Take(t, MyRun(t), "newer") /\ (Exists(actors[t].req) \/ actors[t].inserted)
    <3>1. At(t, "select") /\ Beginning(t) /\ ~At(t, "idle")
        BY <1>10 DEF Select, Beginning, At
    <3>2. /\ actors'[t].pc = "newer" /\ actors'[t].req = actors[t].req /\ actors'[t].session = actors[t].session
          /\ actors'[t].owner = actors[t].owner /\ actors'[t].inserted = actors[t].inserted
          /\ actors'[t].todo = actors[t].todo /\ actors'[t].touched = actors[t].touched
        BY <1>1, <1>2, <2>2, KeepsItself DEF Take
    <3>3. actors[t].todo = {} /\ actors[t].touched = {}
        BY <1>1, <3>1 DEF Begins, At
    <3>4. /\ \A s \in Sessions : locks'[<<"session", s>>] = t <=> locks[<<"session", s>>] = t
          /\ \A s \in Sessions : locks'[<<"trip", s>>] = t <=> locks[<<"trip", s>>] = t
          /\ \A q \in Requests : locks'[<<"run", q>>] = t => locks[<<"run", q>>] = t \/ q = actors[t].req
        BY <1>5, <1>6, <2>2, <3>1 DEF Take, MyRun
    <3>5. TurnRows(t)'
        BY <1>1, <3>1, <3>2, <3>4 DEF TurnRows, At
    <3>6. runs' = runs /\ clock' = clock
        BY <2>2 DEF Take, tables
    <3>7. RunsOf(actors[t].session)' = RunsOf(actors[t].session) /\ Exists(actors[t].req)' = Exists(actors[t].req)
        BY <3>2, <3>6 DEF RunsOf, Exists
    <3>9. locks'[MyRun(t)'] = t
      <4>1. MyRun(t)' = MyRun(t) /\ MyRun(t) \in Rows /\ locks' = Locked(MyRun(t), t)
          BY <1>5, <2>2, <3>1, <3>2 DEF MyRun, Take
      <4> QED  BY <1>1, <1>2, <4>1, Locking
    <3>8. Begins(t)'
        BY <1>1, <2>2, <3>1, <3>2, <3>3, <3>6, <3>7, <3>9 DEF Begins, Beginning, At
    <3> QED  BY <3>5, <3>8
  <2>3. CASE ~Exists(actors[t].req) /\ ~actors[t].inserted
    <3>1. Rollback(t)
        BY <1>10, <2>3 DEF Select, Exists, Answered
    <3> QED  BY <2>1, <3>1
  <2>4. CASE (Exists(actors[t].req) \/ actors[t].inserted) /\ Answered(t)
      BY <1>10, <2>1, <2>4 DEF Select
  <2>5. CASE (Exists(actors[t].req) \/ actors[t].inserted) /\ ~Answered(t)
      BY <1>10, <2>2, <2>5 DEF Select
  <2> QED  BY <2>3, <2>4, <2>5
<1>11. CASE Newer(t)
  <2>1. CASE Rollback(t)
      BY <1>3, <2>1 DEF Rollback
  <2>2. CASE ~Replaced(t) /\ Goto(t, "others")
    <3>1. At(t, "newer") /\ Beginning(t)
        BY <1>11 DEF Newer, Beginning, At
    <3>2. /\ actors'[t].pc = "others" /\ actors'[t].req = actors[t].req /\ actors'[t].session = actors[t].session
          /\ actors'[t].owner = actors[t].owner /\ actors'[t].inserted = actors[t].inserted
          /\ actors'[t].todo = actors[t].todo /\ actors'[t].touched = actors[t].touched
        BY <1>1, <1>2, <2>2, KeepsItself DEF Goto
    <3>3. actors[t].todo = {} /\ actors[t].touched = {}
        BY <1>1, <3>1 DEF Begins, At
    <3>4. locks' = locks /\ runs' = runs /\ clock' = clock
        BY <2>2 DEF Goto, tables
    <3>5. TurnRows(t)'
        BY <1>1, <3>1, <3>2, <3>4 DEF TurnRows, At
    <3>6. RunsOf(actors[t].session)' = RunsOf(actors[t].session) /\ Exists(actors[t].req)' = Exists(actors[t].req)
        BY <3>2, <3>4 DEF RunsOf, Exists
    <3>7. Replaced(t)' = Replaced(t)
        BY <3>2, <3>4, <3>6 DEF Replaced, Born
    <3>8. Begins(t)'
        BY <1>1, <2>2, <3>1, <3>2, <3>3, <3>4, <3>6, <3>7 DEF Begins, Beginning, At, MyRun
    <3> QED  BY <3>5, <3>8
  <2> QED  BY <1>11, <2>1, <2>2 DEF Newer
<1>12. CASE FindOthers(t)
  <2>1. At(t, "others") /\ Beginning(t) /\ locks' = locks /\ runs' = runs /\ clock' = clock /\ ~At(t, "idle")
      BY <1>12 DEF FindOthers, tables, Beginning, At
  <2>2. PICK found \in SUBSET Requests : found = Others(t)
      BY DEF Others, RunsOf
  <2>3. actors' = [actors EXCEPT ![t].pc = "interrupt", ![t].todo = found]
      BY <1>12, <2>2 DEF FindOthers
  <2>4. /\ actors'[t].pc = "interrupt" /\ actors'[t].todo = found
        /\ actors'[t].req = actors[t].req /\ actors'[t].session = actors[t].session
        /\ actors'[t].owner = actors[t].owner /\ actors'[t].inserted = actors[t].inserted
        /\ actors'[t].touched = actors[t].touched
      BY <1>2, <2>3 DEF Actor
  <2>5. actors[t].touched = {}
      BY <1>1, <2>1 DEF Begins, At
  <2>6. TurnRows(t)'
      BY <1>1, <2>1, <2>4 DEF TurnRows, At
  <2>7. RunsOf(actors[t].session)' = RunsOf(actors[t].session) /\ Exists(actors[t].req)' = Exists(actors[t].req)
      BY <2>1, <2>4 DEF RunsOf, Exists
  <2>8. Replaced(t)' = Replaced(t)
      BY <2>1, <2>4, <2>7 DEF Replaced, Born
  \* A run that is in the table already is not the older one.
  <2>9. ASSUME NEW q \in found
        PROVE  /\ q \in Requests /\ Exists(q) /\ SessionOf[q] = actors[t].session /\ q # actors[t].req
               /\ runs[q].status = "running" /\ ~Exists(actors[t].req)
    <3>1. q \in Requests /\ Exists(q) /\ SessionOf[q] = actors[t].session /\ q # actors[t].req
          /\ runs[q].status = "running"
        BY <2>2, <2>9 DEF Others, RunsOf
    <3>2. ASSUME Exists(actors[t].req)
          PROVE  FALSE
      <4>1. actors[t].req \in Requests /\ SessionOf[actors[t].req] = SessionOf[q]
          BY <1>5, <2>1, <3>1
      <4>2. runs[actors[t].req].born # runs[q].born /\ runs[actors[t].req].born <= runs[q].born
          BY <1>1, <3>1, <3>2, <4>1 DEF Ages
      <4>3. Born(t) = runs[actors[t].req].born
          BY <1>1, <2>1, <3>2 DEF Begins, Born
      <4>4. runs[q].born \in Nat /\ runs[actors[t].req].born \in Nat
          BY <1>1, <3>1, <4>1 DEF TypeOK, Run
      <4>5. ~(runs[q].born > Born(t))
          BY <1>1, <2>1, <3>1 DEF Begins, Replaced, RunsOf, At
      <4> QED  BY <4>2, <4>3, <4>4, <4>5
    <3> QED  BY <3>1, <3>2
  <2>10. \A p, q \in found : p = q
      BY <1>1, <2>9 DEF OneRunning
  <2>11. \A q \in found : Exists(q)'
      BY <2>1, <2>9 DEF Exists
  <2>12. Begins(t)'
      BY <1>1, <2>1, <2>4, <2>5, <2>7, <2>8, <2>9, <2>10, <2>11 DEF Begins, Beginning, At, MyRun
  <2> QED  BY <2>6, <2>12
<1>13. ASSUME NEW q \in Requests, LockOther(t, q)
       PROVE  (TurnRows(t) /\ Begins(t))'
  <2>1. At(t, "interrupt") /\ Beginning(t) /\ q \in actors[t].todo /\ runs' = runs /\ clock' = clock
      BY <1>13 DEF LockOther, tables, Beginning, At
  <2>2. PICK found \in SUBSET {q} : found = {q} \intersect Others(t)
      OBVIOUS
  <2>3. actors' = [actors EXCEPT ![t].todo = actors[t].todo \ {q}, ![t].touched = actors[t].touched \union found]
      BY <1>2, <1>13, <2>2 DEF LockOther, Actor
  <2>4. /\ actors'[t].pc = "interrupt" /\ actors'[t].todo = actors[t].todo \ {q}
        /\ actors'[t].req = actors[t].req /\ actors'[t].session = actors[t].session
        /\ actors'[t].owner = actors[t].owner /\ actors'[t].inserted = actors[t].inserted
        /\ actors'[t].touched = actors[t].touched \union found
      BY <1>2, <2>1, <2>3 DEF Actor, At
  <2>5. actors'[t].todo = {}
      BY <1>1, <2>1, <2>4 DEF Begins
  <2>6. locks' = IF found = {} THEN locks ELSE Locked(<<"run", q>>, t)
      BY <1>13, <2>2 DEF LockOther
  <2>7. /\ \A s \in Sessions : locks'[<<"session", s>>] = t <=> locks[<<"session", s>>] = t
        /\ \A s \in Sessions : locks'[<<"trip", s>>] = t <=> locks[<<"trip", s>>] = t
        /\ \A p \in Requests : locks'[<<"run", p>>] = t => locks[<<"run", p>>] = t \/ (p = q /\ found # {})
    <3>1. CASE found = {}
        BY <2>6, <3>1
    <3>2. CASE found # {}
      <4>1. <<"run", q>> \in Rows
          BY DEF Rows
      <4> QED  BY <1>6, <2>6, <3>2, <4>1
    <3> QED  BY <3>1, <3>2
  <2>8. TurnRows(t)'
    <3>1. found # {} => q \in actors'[t].touched
        BY <2>4
    <3> QED  BY <1>1, <2>1, <2>4, <2>7, <3>1 DEF TurnRows, At
  <2>9. RunsOf(actors[t].session)' = RunsOf(actors[t].session) /\ Exists(actors[t].req)' = Exists(actors[t].req)
      BY <2>1, <2>4 DEF RunsOf, Exists
  <2>10. Replaced(t)' = Replaced(t)
      BY <2>1, <2>4, <2>9 DEF Replaced, Born
  <2>12. actors[t].inserted => locks'[MyRun(t)'] = t
    <3>1. MyRun(t)' = MyRun(t) /\ MyRun(t) \in Rows /\ <<"run", q>> \in Rows
        BY <1>5, <2>1, <2>4 DEF MyRun, Rows, At
    <3>2. actors[t].inserted => locks[MyRun(t)] = t
        BY <1>1, <2>1 DEF Begins
    <3> QED  BY <1>1, <1>2, <2>6, <3>1, <3>2, Locking
  <2>11. Begins(t)'
      BY <1>1, <2>1, <2>4, <2>5, <2>9, <2>10, <2>12 DEF Begins, Beginning, At
  <2> QED  BY <2>8, <2>11
<1>14. CASE Apply(t) \/ RequireOpen(t) \/ LockTrip(t)
  <2>1. CASE Rollback(t)
      BY <1>3, <2>1 DEF Rollback
  <2>2. CASE ~Rollback(t)
    <3>1. actors[t].pc \in {"working", "require", "trip"} /\ ~At(t, "idle")
        BY <1>14 DEF Apply, RequireOpen, LockTrip, At
    <3>2. \/ At(t, "working") /\ Take(t, MyRun(t), "require")
          \/ At(t, "require") /\ Goto(t, "trip")
          \/ At(t, "trip") /\ Take(t, MyTrip(t), "save")
        BY <1>14, <2>2 DEF Apply, RequireOpen, LockTrip
    <3>3. PICK pc \in {"require", "trip", "save"} : actors' = [actors EXCEPT ![t].pc = pc]
        BY <3>2 DEF Take, Goto
    <3>4. /\ actors'[t].pc = pc /\ actors'[t].req = actors[t].req
          /\ actors'[t].todo = actors[t].todo /\ actors'[t].touched = actors[t].touched
        BY <1>1, <1>2, <3>3, KeepsItself
    <3>5. Begins(t)'
        BY <1>1, <3>1, <3>3, <3>4 DEF Begins, Beginning, At
    <3>6. CASE At(t, "working") /\ Take(t, MyRun(t), "require")
      <4>1. /\ \A s \in Sessions : locks'[<<"session", s>>] = t <=> locks[<<"session", s>>] = t
            /\ \A s \in Sessions : locks'[<<"trip", s>>] = t <=> locks[<<"trip", s>>] = t
            /\ \A q \in Requests : locks'[<<"run", q>>] = t => locks[<<"run", q>>] = t \/ q = actors[t].req
        <5>1. locks' = Locked(<<"run", actors[t].req>>, t) /\ <<"run", actors[t].req>> \in Rows
            BY <1>5, <3>1, <3>6 DEF Take, MyRun
        <5> QED  BY <1>6, <5>1
      <4>2. actors'[t].pc = "require"
          BY <1>1, <1>2, <3>6, Takes
      <4> QED  BY <1>1, <3>4, <3>5, <3>6, <4>1, <4>2 DEF TurnRows, At
    <3>7. CASE At(t, "require") /\ Goto(t, "trip")
      <4>1. locks' = locks /\ actors'[t].pc = "trip"
          BY <1>1, <1>2, <3>7, KeepsItself DEF Goto
      <4> QED  BY <1>1, <3>4, <3>5, <3>7, <4>1 DEF TurnRows, At
    <3>8. CASE At(t, "trip") /\ Take(t, MyTrip(t), "save")
      <4>1. /\ \A s \in Sessions : locks'[<<"session", s>>] = t <=> locks[<<"session", s>>] = t
            /\ \A q \in Requests : locks'[<<"run", q>>] = t <=> locks[<<"run", q>>] = t
          BY <1>5, <1>6, <3>1, <3>8 DEF Take, MyTrip
      <4>2. actors'[t].pc = "save"
          BY <1>1, <1>2, <3>8, Takes
      <4> QED  BY <1>1, <3>4, <3>5, <3>8, <4>1, <4>2 DEF TurnRows, At
    <3> QED  BY <3>2, <3>6, <3>7, <3>8
  <2> QED  BY <2>1, <2>2
<1> QED
    BY <1>4, <1>7, <1>8, <1>9, <1>10, <1>11, <1>12, <1>13, <1>14 DEF Serves

\* The steps of a deletion.
LEMMA DeleterRowed ==
    ASSUME IOrder, NEW d \in Deleters, Deletes(d) \/ Abort(d)
    PROVE  DeleterRows(d)'
<1>1. TypeOK /\ Serving /\ DeleterRows(d)
    BY DEF IOrder, IRunning, Rowed
<1>2. d \in Actors /\ actors \in [Actors -> Actor] /\ actors[d] \in Actor
    BY <1>1 DEF TypeOK, Actors
<1>3. ASSUME Leave(d)
      PROVE  DeleterRows(d)'
    BY <1>1, <1>2, <1>3, GivesUp, GaveUp, Leaves DEF At
<1>4. CASE Abort(d) \/ CommitDelete(d)
    BY <1>3, <1>4 DEF Abort, Rollback, CommitDelete
<1>5. ASSUME ~At(d, "idle")
      PROVE  actors[d].session \in Sessions /\ MySession(d) \in Rows /\ MyTrip(d) \in Rows
    BY <1>1, <1>2, <1>5, OwnRows DEF Serving, Sited
<1>6. ASSUME NEW kind \in {"session", "trip", "run"}, NEW x, <<kind, x>> \in Rows,
             locks' = Locked(<<kind, x>>, d)
      PROVE  /\ \A s \in Sessions : locks'[<<"session", s>>] = d <=>
                  locks[<<"session", s>>] = d \/ (kind = "session" /\ s = x)
             /\ \A s \in Sessions : locks'[<<"trip", s>>] = d <=>
                  locks[<<"trip", s>>] = d \/ (kind = "trip" /\ s = x)
             /\ \A q \in Requests : locks'[<<"run", q>>] = d <=>
                  locks[<<"run", q>>] = d \/ (kind = "run" /\ q = x)
    BY <1>1, <1>2, <1>6, Locking DEF Rows
<1>7. ASSUME NEW s \in Sessions, Delete(d, s)
      PROVE  DeleterRows(d)'
  <2>1. At(d, "idle") /\ locks' = locks /\ actors'[d].pc = "check" /\ actors'[d].todo = {}
      BY <1>2, <1>7 DEF Delete, Idle
  <2> QED  BY <1>1, <2>1 DEF DeleterRows, At
<1>8. CASE Check(d)
  <2>1. CASE Rollback(d)
      BY <1>3, <2>1 DEF Rollback
  <2>2. CASE Goto(d, "rows")
    <3>1. At(d, "check") /\ locks' = locks /\ actors'[d].pc = "rows" /\ actors'[d].todo = actors[d].todo
        BY <1>1, <1>2, <1>8, <2>2, KeepsItself DEF Check, Goto
    <3> QED  BY <1>1, <3>1 DEF DeleterRows, At
  <2> QED  BY <1>8, <2>1, <2>2 DEF Check
<1>9. CASE FindRuns(d) \/ StopRuns(d)
  <2>1. PICK pc \in {"locking", "stopping"}, todo \in SUBSET RunsOf(actors[d].session) :
          actors' = [actors EXCEPT ![d].pc = pc, ![d].todo = todo]
      BY <1>9 DEF FindRuns, StopRuns
  <2>2. /\ actors'[d].pc = pc /\ actors'[d].todo = todo /\ actors'[d].session = actors[d].session
      BY <1>2, <2>1 DEF Actor
  <2>3. locks' = locks /\ runs' = runs /\ actors[d].pc \in {"rows", "locking"}
      BY <1>9 DEF FindRuns, StopRuns, At, tables
  <2>4. \A q \in todo : Exists(q)' /\ SessionOf[q] = actors'[d].session
      BY <2>2, <2>3 DEF RunsOf, Exists
  <2> QED  BY <1>1, <2>2, <2>3, <2>4 DEF DeleterRows, At
<1>10. ASSUME NEW q \in Requests, LockRun(d, q)
       PROVE  DeleterRows(d)'
  <2>1. /\ actors' = [actors EXCEPT ![d].todo = actors[d].todo \ {q}, ![d].touched = actors[d].touched \union {q}]
        /\ locks' = Locked(<<"run", q>>, d) /\ runs' = runs
        /\ actors[d].pc \in {"locking", "stopping"} /\ q \in actors[d].todo
      BY <1>2, <1>10 DEF LockRun, At, tables, Actor
  <2>2. /\ actors'[d].pc = actors[d].pc /\ actors'[d].todo = actors[d].todo \ {q}
        /\ actors'[d].session = actors[d].session
      BY <1>2, <2>1 DEF Actor
  <2>3. <<"run", q>> \in Rows
      BY DEF Rows
  <2>4. /\ \A s \in Sessions : locks'[<<"session", s>>] = d <=> locks[<<"session", s>>] = d
        /\ \A s \in Sessions : locks'[<<"trip", s>>] = d <=> locks[<<"trip", s>>] = d
        /\ \A p \in Requests : locks'[<<"run", p>>] = d <=> locks[<<"run", p>>] = d \/ p = q
      BY <1>6, <2>1, <2>3
  <2>5. \A p \in actors'[d].todo : Exists(p)' /\ SessionOf[p] = actors'[d].session
      BY <1>1, <2>1, <2>2 DEF DeleterRows, Exists
  <2> QED  BY <1>1, <2>1, <2>2, <2>4, <2>5 DEF DeleterRows, At
<1>11. CASE Close(d)
  <2>1. /\ At(d, "stopping") /\ actors[d].todo = {} /\ ~At(d, "idle")
        /\ Take(d, MySession(d), "trips")
      BY <1>11 DEF Close, At
  <2>2. actors'[d].pc = "trips" /\ actors'[d].todo = {} /\ actors'[d].session = actors[d].session
      BY <1>1, <1>2, <2>1, KeepsItself DEF Take
  <2>3. locks' = Locked(<<"session", actors[d].session>>, d) /\ <<"session", actors[d].session>> \in Rows
      BY <1>5, <2>1 DEF Take, MySession
  <2>4. /\ \A s \in Sessions : locks'[<<"trip", s>>] = d <=> locks[<<"trip", s>>] = d
        /\ \A q \in Requests : locks'[<<"run", q>>] = d <=> locks[<<"run", q>>] = d
      BY <1>6, <2>3
  <2> QED  BY <1>1, <2>1, <2>2, <2>4 DEF DeleterRows, At
<1>12. CASE DeleteTrip(d)
  <2>1. At(d, "trips") /\ ~At(d, "idle") /\ (Take(d, MyTrip(d), "deleted") \/ Goto(d, "deleted"))
      BY <1>12 DEF DeleteTrip, At
  <2>2. /\ actors'[d].pc = "deleted" /\ actors'[d].todo = actors[d].todo
        /\ actors'[d].session = actors[d].session
      BY <1>1, <1>2, <2>1, KeepsItself DEF Take, Goto
  <2>3. actors[d].todo = {}
      BY <1>1, <2>1 DEF DeleterRows, At
  <2>4. \A q \in Requests : locks'[<<"run", q>>] = d <=> locks[<<"run", q>>] = d
    <3>1. CASE Take(d, MyTrip(d), "deleted")
      <4>1. locks' = Locked(<<"trip", actors[d].session>>, d) /\ <<"trip", actors[d].session>> \in Rows
          BY <1>5, <2>1, <3>1 DEF Take, MyTrip
      <4> QED  BY <1>6, <4>1
    <3>2. CASE Goto(d, "deleted")
        BY <3>2 DEF Goto
    <3> QED  BY <2>1, <3>1, <3>2
  <2> QED  BY <1>1, <2>1, <2>2, <2>3, <2>4 DEF DeleterRows, At
<1> QED
    BY <1>4, <1>7, <1>8, <1>9, <1>10, <1>11, <1>12 DEF Deletes

LEMMA OrderStep ==
    ASSUME IOrder, NEW a \in Actors, Acts(a)
    PROVE  IOrder'
<1>1. IRunning'
    BY TypeStep, OneBeginsStep, AccountedStep, OneRunningStep DEF IOrder, IRunning
<1>2. CASE a \in Turns
  <2>1. a \notin Deleters
      BY <1>2, TablesAssumption
  <2>2. (TurnRows(a) /\ Begins(a))'
      BY <1>2, <2>1, TurnRowed DEF Acts
  <2>3. Rowed'
      BY <2>1, <2>2, OthersRowed DEF Rowed
  <2> QED  BY <1>1, <2>3, AgesStep DEF IOrder
<1>3. CASE a \in Deleters
  <2>1. a \notin Turns
      BY <1>3, TablesAssumption
  <2>2. DeleterRows(a)'
      BY <1>3, <2>1, DeleterRowed DEF Acts
  <2>3. Rowed'
      BY <2>1, <2>2, OthersRowed DEF Rowed
  <2> QED  BY <1>1, <2>3, AgesStep DEF IOrder
<1> QED  BY <1>2, <1>3 DEF Actors

LEMMA OrderInvariant == Spec => []IOrder
<1>1. Init => IOrder
  <2> SUFFICES ASSUME Init PROVE IOrder
      OBVIOUS
  <2>1. IRunning
      BY TypeInit DEF Init, IRunning, OneBegins, Beginning, Accounted, OneRunning, At, Idle, Actors
  <2>2. Ages
      BY TablesAssumption DEF Init, Ages, Exists
  <2>3. /\ \A a \in Actors : actors[a] = Idle /\ \A row \in Rows : locks[row] # a
        /\ Turns \subseteq Actors /\ Deleters \subseteq Actors
      BY TablesAssumption DEF Init, Actors
  <2>4. Rowed
      BY <2>3 DEF Rowed, TurnRows, Begins, DeleterRows, Beginning, Rows, Idle, At
  <2> QED  BY <2>1, <2>2, <2>4 DEF IOrder
<1>2. ASSUME IOrder, [Next]_vars
      PROVE  IOrder'
  <2>1. CASE UNCHANGED vars
      BY <1>2, <2>1 DEF IOrder, IRunning, vars, tables, TypeOK, Serving, Sited, At, OneBegins, Beginning,
         Accounted, Others, RunsOf, Exists, OneRunning, Ages, Rowed, TurnRows, Begins, DeleterRows,
         Replaced, Born, MyRun
  <2> QED  BY <1>2, <2>1, NextActs, OrderStep
<1> QED  BY <1>1, <1>2, PTL DEF Spec

\* How far an actor is from a step that waits for nobody: who waits does so for an actor
\* that is nearer.
Distance(a) ==
    IF actors[a].pc \in {"insert", "working"} \/ (At(a, "select") /\ ~actors[a].inserted) THEN 5
    ELSE IF actors[a].todo # {} THEN IF a \in Turns THEN 4 ELSE 3
    ELSE IF actors[a].pc \in {"lock", "stopping"} THEN 2
    ELSE IF actors[a].pc \in {"trip", "trips"} THEN 1
    ELSE 0

LEMMA WaitsForNearer ==
    ASSUME IOrder, NEW a \in Actors, NEW b \in Actors, a # b,
           NEW row \in Wanted(a), locks[row] = b,
           ~(a \in Deleters /\ b \in Deleters /\ Overlap(a, b))
    PROVE  Distance(b) < Distance(a)
<1>1. TypeOK /\ Serving /\ OneBegins /\ Rowed
    BY DEF IOrder, IRunning
<1>2. row \in Rows /\ actors[a] \in Actor /\ actors[b] \in Actor
    BY <1>1 DEF Wanted, TypeOK
\* What is known of the holder, by the kind of the row.
<1>3. ASSUME NEW s \in Sessions, row = <<"session", s>>
      PROVE  Distance(b) <= 1
  <2>1. actors[b].pc \in {"write", "trips", "deleted"}
      BY <1>1, <1>3 DEF Rowed, TurnRows, DeleterRows, At, Actors
  <2>2. actors[b].todo = {}
      BY <1>1, <2>1 DEF Rowed, Begins, DeleterRows, At, Actors
  <2> QED  BY <2>1, <2>2 DEF Distance, At
<1>4. ASSUME NEW s \in Sessions, row = <<"trip", s>>
      PROVE  Distance(b) = 0
  <2>1. actors[b].pc \in {"save", "deleted"}
      BY <1>1, <1>4 DEF Rowed, TurnRows, DeleterRows, At, Actors
  <2>2. actors[b].todo = {}
      BY <1>1, <2>1 DEF Rowed, Begins, DeleterRows, At, Actors
  <2> QED  BY <2>1, <2>2 DEF Distance, At
<1>5. ASSUME NEW q \in Requests, row = <<"run", q>>, b \in Deleters
      PROVE  /\ Distance(b) <= 3 /\ SessionOf[q] = actors[b].session /\ ~At(b, "idle")
    BY <1>1, <1>5, TablesAssumption DEF Rowed, DeleterRows, Distance, At
<1>6. ASSUME NEW q \in Requests, row = <<"run", q>>, b \in Turns, Distance(b) > 1
      PROVE  Beginning(b) /\ actors[b].session = SessionOf[q] /\ ~Exists(q) /\ Distance(b) <= 4
  <2>1. TurnRows(b) /\ Begins(b)
      BY <1>1, <1>6 DEF Rowed
  <2>2. \/ /\ q = actors[b].req
           /\ \/ actors[b].pc \in {"newer", "others", "interrupt", "require", "trip", "save"}
              \/ At(b, "select") /\ actors[b].inserted
        \/ At(b, "interrupt") /\ q \in actors[b].touched
      BY <1>6, <2>1 DEF TurnRows
  <2>3. actors[b].pc \in {"newer", "others", "interrupt", "require", "trip", "save"}
          \/ (At(b, "select") /\ actors[b].inserted)
      BY <2>2 DEF At
  <2>4. actors[b].todo # {} /\ Distance(b) = 4
      BY <1>6, <2>3 DEF Distance, At
  <2>5. At(b, "interrupt") /\ actors[b].touched = {} /\ ~Exists(actors[b].req)
      BY <2>1, <2>4 DEF Begins
  <2>6. q = actors[b].req
      BY <2>2, <2>5
  <2>7. actors[b].session = SessionOf[q]
      BY <1>1, <1>6, <2>5, <2>6 DEF Serving, Sited, At
  <2> QED  BY <2>4, <2>5, <2>6, <2>7 DEF Beginning, At
<1>7. actors[a].todo # {} =>
        /\ a \in Turns => At(a, "interrupt")
        /\ a \in Deleters => actors[a].pc \in {"locking", "stopping"}
    BY <1>1 DEF Rowed, Begins, DeleterRows
<1>8. CASE row \in {"run"} \X actors[a].todo
  <2>1. PICK q \in Requests : q \in actors[a].todo /\ row = <<"run", q>>
      BY <1>2, <1>8 DEF Actor
  <2>2. CASE a \in Turns
    <3>1. At(a, "interrupt") /\ Beginning(a) /\ SessionOf[q] = actors[a].session
        BY <1>1, <1>7, <2>1, <2>2 DEF Rowed, Begins, Beginning, At
    <3>2. Distance(a) = 4
        BY <2>1, <2>2, <3>1 DEF Distance, At
    <3>3. CASE b \in Deleters
        BY <1>5, <2>1, <3>2, <3>3 DEF Distance
    <3>4. CASE b \in Turns
      <4>1. Distance(b) <= 1
          BY <1>1, <1>6, <2>1, <2>2, <3>1, <3>4 DEF OneBegins, Distance
      <4> QED  BY <3>2, <4>1 DEF Distance
    <3> QED  BY <3>3, <3>4 DEF Actors
  <2>3. CASE a \in Deleters
    <3>1. actors[a].pc \in {"locking", "stopping"} /\ Exists(q) /\ SessionOf[q] = actors[a].session
        BY <1>1, <1>7, <2>1, <2>3 DEF Rowed, DeleterRows
    <3>2. Distance(a) = 3
        BY <2>1, <2>3, <3>1, TablesAssumption DEF Distance, At
    <3>3. CASE b \in Deleters
      <4>1. actors[b].session = actors[a].session
          BY <1>5, <2>1, <3>1, <3>3
      <4>2. actors[b].todo = {}
          BY <2>1, <2>3, <3>3, <4>1 DEF Overlap
      <4>3. ~(actors[b].pc \in {"insert", "working", "select"})
          BY <1>1, <3>3 DEF Rowed, DeleterRows
      <4> QED  BY <3>2, <4>2, <4>3 DEF Distance, At
    <3>4. CASE b \in Turns
      <4>1. Distance(b) <= 1
          BY <1>6, <2>1, <3>1, <3>4 DEF Distance
      <4> QED  BY <3>2, <4>1 DEF Distance
    <3> QED  BY <3>3, <3>4 DEF Actors
  <2> QED  BY <2>2, <2>3 DEF Actors
<1>9. CASE /\ row = MySession(a)
           /\ At(a, "lock") \/ (At(a, "stopping") /\ actors[a].todo = {})
  <2>1. actors[a].session \in Sessions /\ row = <<"session", actors[a].session>>
      BY <1>2, <1>9 DEF MySession, Rows
  <2>2. actors[a].todo = {}
      BY <1>7, <1>9 DEF At, Actors
  <2>3. Distance(a) = 2 /\ Distance(b) <= 1
      BY <1>3, <1>9, <2>1, <2>2 DEF Distance, At
  <2> QED  BY <2>3 DEF Distance
<1>10. CASE /\ row = MyTrip(a)
            /\ At(a, "trip") \/ At(a, "trips")
  <2>1. actors[a].session \in Sessions /\ row = <<"trip", actors[a].session>>
      BY <1>2, <1>10 DEF MyTrip, Rows
  <2>2. actors[a].todo = {}
      BY <1>7, <1>10 DEF At, Actors
  <2>3. Distance(a) = 1 /\ Distance(b) = 0
      BY <1>4, <1>10, <2>1, <2>2 DEF Distance, At
  <2> QED  BY <2>3
<1>11. CASE row = MyRun(a) /\ actors[a].pc \in {"insert", "select", "working"}
  <2>1. actors[a].req \in Requests /\ row = <<"run", actors[a].req>>
      BY <1>2, <1>11 DEF MyRun, Rows
  <2>2. Distance(b) <= 4
    <3>1. CASE b \in Deleters
        BY <1>5, <2>1, <3>1 DEF Distance
    <3>2. CASE b \in Turns
        BY <1>6, <2>1, <3>2 DEF Distance
    <3> QED  BY <3>1, <3>2 DEF Actors
  <2>3. Distance(a) = 5
    <3>1. CASE ~(At(a, "select") /\ actors[a].inserted)
        BY <1>11, <3>1 DEF Distance, At
    <3>2. a \in Turns
        BY <1>1, <1>11 DEF Rowed, DeleterRows, Actors
    <3>3. ~(At(a, "select") /\ actors[a].inserted)
        BY <1>1, <1>11, <3>2 DEF Rowed, Begins, Beginning, At
    <3> QED  BY <3>1, <3>3
  <2> QED  BY <2>2, <2>3 DEF Distance
<1> QED  BY <1>8, <1>9, <1>10, <1>11 DEF Wanted

\* Every circle of waiting transactions has two deletions of one session that both
\* lock its runs, for any turns and deletions, however many overlap.  Besides: who
\* has runs of others to lock is about to make the youngest run of its session,
\* which nobody can have come to yet.
THEOREM WaitingEnds == Spec => []OnlyDeletionsDeadlock
<1>1. ASSUME IOrder
      PROVE  OnlyDeletionsDeadlock
  <2>1. SUFFICES ASSUME NEW group \in (SUBSET Actors) \ {{}},
                        \A a \in group : \E row \in Wanted(a) : locks[row] \in group \ {a},
                        \A d, e \in group \intersect Deleters : ~Overlap(d, e)
                 PROVE  FALSE
      BY DEF OnlyDeletionsDeadlock, Waiting
  <2>2. ASSUME NEW a \in group PROVE \E b \in group : Distance(b) < Distance(a)
    <3>1. PICK row \in Wanted(a) : locks[row] \in group \ {a}
        BY <2>1
    <3>2. PICK b \in group : b = locks[row] /\ b # a
        BY <3>1
    <3>3. ~(a \in Deleters /\ b \in Deleters /\ Overlap(a, b))
        BY <2>1
    <3> QED  BY <1>1, <3>2, <3>3, WaitsForNearer
  <2>3. \A a \in group : Distance(a) \in 0..5
      BY DEF Distance
  <2>4. \A a \in group : Distance(a) >= 1
      BY <2>2, <2>3
  <2>5. \A a \in group : Distance(a) >= 2
      BY <2>2, <2>3, <2>4
  <2>6. \A a \in group : Distance(a) >= 3
      BY <2>2, <2>3, <2>5
  <2>7. \A a \in group : Distance(a) >= 4
      BY <2>2, <2>3, <2>6
  <2>8. \A a \in group : Distance(a) >= 5
      BY <2>2, <2>3, <2>7
  <2>11. group # {}
      OBVIOUS
  <2>9. PICK a \in group : TRUE
      BY <2>11
  <2>10. PICK b \in group : Distance(b) < Distance(a)
      BY <2>2, <2>9
  <2> QED  BY <2>3, <2>8, <2>9, <2>10
<1> QED  BY <1>1, OrderInvariant, PTL

-----------------------------------------------------------------------------
(* Profile.                                                                *)

\* The types the proof needs.
PFKinds ==
  /\ DOMAIN writing = Writers /\ saved.revision \in Nat
  /\ DOMAIN page = ProfilePages /\ \A g \in ProfilePages : page[g].revision \in Nat

\* While every answer kept its lease and no turn has written, who is inside holds
\* the lease, and what was read is what there is.
Serialised ==
  lapsed = {} /\ (\A t \in BrandTurns : writing[t].at # "done") =>
    \A a \in OnboardingAnswers :
      /\ writing[a].at \in {"in", "read"} => userLease = {a}
      /\ writing[a].at = "read" => writing[a].seen = brands

\* A page of the last revision shows the last text.
Shown ==
  \A g \in ProfilePages :
    /\ page[g].revision <= saved.revision
    /\ page[g].revision = saved.revision => page[g].text = saved.text

PFInv == PFKinds /\ Serialised /\ Shown

LEMMA PFStarts == PFInit => PFInv
<1> SUFFICES ASSUME PFInit PROVE PFInv
  OBVIOUS
<1>1. PFKinds
  BY DEF PFInit, PFKinds, NoProfile, Texts
<1>2. \A a \in OnboardingAnswers : writing[a].at = "new"
  BY DEF PFInit, Writers
<1>3. Serialised
  BY <1>2 DEF Serialised
<1>4. Shown
  BY DEF PFInit, Shown, NoProfile
<1>5. QED  BY <1>1, <1>3, <1>4 DEF PFInv

\* Where a step moves one answer or turn, the others are where they were.
LEMMA Moved ==
  ASSUME PFKinds, NEW w \in Writers, NEW at, NEW seen, Go(w, at, seen)
  PROVE  /\ writing'[w].at = at /\ writing'[w].seen = seen
         /\ \A v \in Writers : v # w => writing'[v] = writing[v]
  BY DEF PFKinds, Go

LEMMA AnswersAreWriters == \A a \in OnboardingAnswers : a \in Writers /\ a \notin BrandTurns
  BY ProfileAssumption DEF Writers

\* An answer: it reads and writes with the lease in its hand.
LEMMA ProfileAnswerStep ==
  ASSUME PFInv, NEW a \in OnboardingAnswers,
         \/ AnswerComes(a) \/ AnswerEnters(a) \/ AnswerTimesOut(a) \/ AnswerReads(a)
         \/ AnswerWrites(a) \/ AnswerFails(a) \/ LeaseLapses(a)
  PROVE  PFInv'
<1>0. a \in Writers /\ UNCHANGED <<saved, page>>
  BY AnswersAreWriters DEF AnswerComes, AnswerEnters, AnswerTimesOut, AnswerReads, AnswerWrites,
     AnswerFails, LeaseLapses, SavedProfile
<1>1. Shown'
  BY <1>0 DEF PFInv, Shown
<1>2. PFKinds'
  BY <1>0 DEF PFInv, PFKinds, AnswerComes, AnswerEnters, AnswerTimesOut, AnswerReads, AnswerWrites,
     AnswerFails, LeaseLapses, Go
<1>3. \A t \in BrandTurns : writing[t] = writing'[t]
  <2>1. \A t \in BrandTurns : t \in Writers /\ t # a
    BY AnswersAreWriters DEF Writers
  <2>2. QED  BY <1>0, <2>1, Moved DEF PFInv, AnswerComes, AnswerEnters, AnswerTimesOut, AnswerReads, AnswerWrites,
     AnswerFails, LeaseLapses
<1>4. \A b \in OnboardingAnswers : b \in Writers
  BY AnswersAreWriters
<1>5. Serialised'
  <2> SUFFICES ASSUME lapsed' = {}, \A t \in BrandTurns : writing'[t].at # "done", NEW b \in OnboardingAnswers
               PROVE  /\ writing'[b].at \in {"in", "read"} => userLease' = {b}
                      /\ writing'[b].at = "read" => writing'[b].seen = brands'
    BY DEF Serialised
  <2>0. ~LeaseLapses(a)
    BY DEF LeaseLapses
  <2>1. lapsed = {}
    BY <2>0 DEF AnswerComes, AnswerEnters, AnswerTimesOut, AnswerReads, AnswerWrites, AnswerFails
  <2>2. \A c \in OnboardingAnswers :
          /\ writing[c].at \in {"in", "read"} => userLease = {c}
          /\ writing[c].at = "read" => writing[c].seen = brands
    BY <1>3, <2>1 DEF PFInv, Serialised
  <2>3. CASE AnswerComes(a)
    BY <1>0, <1>4, <2>2, <2>3, Moved DEF AnswerComes, PFInv
  <2>4. CASE AnswerEnters(a)
    BY <1>0, <1>4, <2>2, <2>4, Moved DEF AnswerEnters, LeaseFree, PFInv
  <2>5. CASE AnswerTimesOut(a)
    BY <1>0, <1>4, <2>2, <2>5, Moved DEF AnswerTimesOut, PFInv
  <2>6. CASE AnswerReads(a)
    BY <1>0, <1>4, <2>2, <2>6, Moved DEF AnswerReads, IsAt, PFInv
  <2>7. CASE AnswerWrites(a)
    BY <1>0, <1>4, <2>2, <2>7, Moved DEF AnswerWrites, IsAt, PFInv
  <2>8. CASE AnswerFails(a)
    BY <1>0, <1>4, <2>2, <2>8, Moved DEF AnswerFails, PFInv
  <2>9. QED  BY <2>0, <2>3, <2>4, <2>5, <2>6, <2>7, <2>8
<1>6. QED  BY <1>1, <1>2, <1>5 DEF PFInv

\* A turn reads, and ends what is known of the answers when it writes.
LEMMA ProfileTurnStep ==
  ASSUME PFInv, NEW t \in BrandTurns, TurnStarts(t) \/ TurnReadsProfile(t) \/ TurnReadsBrands(t) \/ TurnWrites(t)
  PROVE  PFInv' /\ (brands' = brands \/ writing'[t].at = "done")
<1>0. t \in Writers /\ UNCHANGED <<saved, page, userLease, lapsed>>
  BY DEF Writers, TurnStarts, TurnReadsProfile, TurnReadsBrands, TurnWrites, SavedProfile
<1>1. PFKinds' /\ Shown'
  BY <1>0 DEF PFInv, PFKinds, Shown, TurnStarts, TurnReadsProfile, TurnReadsBrands, TurnWrites, Go
<1>2. brands' = brands \/ writing'[t].at = "done"
  BY <1>0, Moved DEF PFInv, TurnStarts, TurnReadsProfile, TurnReadsBrands, TurnWrites
<1>3. \A a \in OnboardingAnswers : writing'[a] = writing[a]
  <2>1. \A a \in OnboardingAnswers : a \in Writers /\ a # t
    BY AnswersAreWriters
  <2>2. QED  BY <1>0, <2>1, Moved DEF PFInv, TurnStarts, TurnReadsProfile, TurnReadsBrands, TurnWrites
<1>4. \A u \in BrandTurns : writing[u].at = "done" => writing'[u].at = "done"
  <2>1. writing[t].at # "done"
    BY DEF TurnStarts, TurnReadsProfile, TurnReadsBrands, TurnWrites, IsAt
  <2>2. \A u \in BrandTurns : u # t => writing'[u] = writing[u]
    BY <1>0, Moved DEF PFInv, TurnStarts, TurnReadsProfile, TurnReadsBrands, TurnWrites, Writers
  <2>3. QED  BY <2>1, <2>2
<1>5. Serialised'
  BY <1>0, <1>2, <1>3, <1>4 DEF PFInv, Serialised
<1>6. QED  BY <1>1, <1>2, <1>5 DEF PFInv

\* A page is written from when it is that of the last revision.
LEMMA ProfilePageStep ==
  ASSUME PFInv, NEW g \in ProfilePages, OpenPage(g) \/ WriteProfile(g)
  PROVE  /\ PFInv' /\ brands' = brands
         /\ saved'.text # saved.text => page[saved'.text].text = saved.text
<1>0. UNCHANGED <<brands, userLease, writing, lapsed>>
  BY DEF OpenPage, WriteProfile
<1>1. Serialised'
  BY <1>0 DEF PFInv, Serialised
<1>2. CASE OpenPage(g)
  BY <1>0, <1>1, <1>2 DEF OpenPage, PFInv, PFKinds, Shown
<1>3. CASE WriteProfile(g)
  <2>0. PICK new \in {[text |-> g, status |-> "completed"], [text |-> saved.text, status |-> "skipped"]} :
          saved' = [text |-> new.text, status |-> new.status, revision |-> saved.revision + 1]
    BY <1>3 DEF WriteProfile
  <2>1. PICK text \in {g, saved.text}, status \in {"completed", "skipped"} : saved' = [text |-> text, status |-> status, revision |-> saved.revision + 1]
    <3>1. new.text \in {g, saved.text}
      BY <2>0
    <3>2. new.status \in {"completed", "skipped"}
      BY <2>0
    <3>3. QED  BY <2>0, <3>1, <3>2
  <2>2. saved'.revision = saved.revision + 1 /\ saved'.text = text /\ page[g].revision = saved.revision
        /\ page' \in {page, [page EXCEPT ![g] = saved']}
    BY <1>3, <2>1 DEF WriteProfile, IsCurrent
  <2>3. PFKinds' /\ Shown'
    BY <1>0, <2>2 DEF PFInv, PFKinds, Shown
  <2>4. QED  BY <1>0, <1>1, <2>1, <2>2, <2>3 DEF PFInv, Shown
<1>4. QED  BY <1>2, <1>3

LEMMA PFStutters == PFInv /\ UNCHANGED pfVars => PFInv'
  BY DEF PFInv, PFKinds, Serialised, Shown, pfVars

\* An answer with the lease adds its brand to those there are.
LEMMA AnswersOnlyAdd ==
  ASSUME PFInv, NEW a \in OnboardingAnswers,
         \/ AnswerComes(a) \/ AnswerEnters(a) \/ AnswerTimesOut(a) \/ AnswerReads(a)
         \/ AnswerWrites(a) \/ AnswerFails(a) \/ LeaseLapses(a)
  PROVE  brands \subseteq brands' \/ lapsed # {} \/ \E t \in BrandTurns : writing'[t].at = "done"
<1>1. CASE ~AnswerWrites(a)
  BY <1>1 DEF AnswerComes, AnswerEnters, AnswerTimesOut, AnswerReads, AnswerFails, LeaseLapses
<1>2. CASE AnswerWrites(a)
  <2>1. \A t \in BrandTurns : writing'[t] = writing[t]
    <3>1. a \in Writers /\ \A t \in BrandTurns : t \in Writers /\ t # a
      BY AnswersAreWriters DEF Writers
    <3>2. QED  BY <1>2, <3>1, Moved DEF PFInv, AnswerWrites
  <2>2. brands' = writing[a].seen \cup {a} /\ writing[a].at = "read"
    BY <1>2 DEF AnswerWrites, IsAt
  <2>3. QED  BY <2>1, <2>2 DEF PFInv, Serialised
<1>3. QED  BY <1>1, <1>2

\* No brand disappears before an answer lost its lease or a turn wrote a list, and
\* the text of a profile is only replaced from a page that shows it
\* (manager.py:684, user_profile_repository.py:44).
THEOREM SavesKeep == PFSpec => SavesKeepOthers
<1> DEFINE Keeps == /\ brands \subseteq brands' \/ lapsed # {} \/ \E t \in BrandTurns : writing'[t].at = "done"
                    /\ saved'.text # saved.text => page[saved'.text].text = saved.text
<1>1. PFInv /\ PFNext => PFInv' /\ Keeps
  <2> SUFFICES ASSUME PFInv, PFNext PROVE PFInv' /\ Keeps
    OBVIOUS
  <2>1. ASSUME NEW a \in OnboardingAnswers,
               \/ AnswerComes(a) \/ AnswerEnters(a) \/ AnswerTimesOut(a) \/ AnswerReads(a)
               \/ AnswerWrites(a) \/ AnswerFails(a) \/ LeaseLapses(a)
        PROVE  PFInv' /\ Keeps
    <3>1. saved' = saved
      BY <2>1 DEF AnswerComes, AnswerEnters, AnswerTimesOut, AnswerReads, AnswerWrites,
         AnswerFails, LeaseLapses, SavedProfile
    <3>2. PFInv'
      BY <2>1, ProfileAnswerStep
    <3>3. brands \subseteq brands' \/ lapsed # {} \/ \E t \in BrandTurns : writing'[t].at = "done"
      BY <2>1, AnswersOnlyAdd
    <3>4. QED  BY <3>1, <3>2, <3>3
  <2>2. ASSUME NEW t \in BrandTurns, TurnStarts(t) \/ TurnReadsProfile(t) \/ TurnReadsBrands(t) \/ TurnWrites(t)
        PROVE  PFInv' /\ Keeps
    <3>1. saved' = saved
      BY <2>2 DEF TurnStarts, TurnReadsProfile, TurnReadsBrands, TurnWrites, SavedProfile
    <3>2. QED  BY <2>2, <3>1, ProfileTurnStep
  <2>3. ASSUME NEW g \in ProfilePages, OpenPage(g) \/ WriteProfile(g) PROVE PFInv' /\ Keeps
    BY <2>3, ProfilePageStep
  <2>4. QED  BY <2>1, <2>2, <2>3 DEF PFNext
<1>2. PFInv /\ [PFNext]_pfVars => PFInv'
  BY <1>1, PFStutters
<1>3. PFInv /\ [PFNext]_pfVars => [Keeps]_pfVars
  BY <1>1
<1>4. QED  BY PFStarts, <1>2, <1>3, PTL DEF PFSpec, SavesKeepOthers
=============================================================================
