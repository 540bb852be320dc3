--------------------------- MODULE RunFenceProofs ---------------------------
(***************************************************************************)
(* Proofs about RunFence, for every number of sessions, requests, attempts *)
(* and operations.  The inductive invariant IInv adds to the properties    *)
(* that an attempt with anything in flight knows its request and session,  *)
(* that created_at orders the rows of the table strictly, and that what a  *)
(* transaction has found stays so while it holds the rows: the fence of a  *)
(* change, and the runs that a deletion is to stop.                        *)
(***************************************************************************)
EXTENDS RunLedger, TLAPS

Assigned ==
    \A o \in Owners : attempts[o].pc # "new" =>
        attempts[o].req \in Requests /\ attempts[o].session \in Sessions

InFlight ==
    /\ \A w \in writes : attempts[w.owner].pc # "new"
    /\ \A p \in posts : attempts[p.owner].pc # "new"

Ordered ==
    /\ \A r \in Requests : Exists(r) => runs[r].born \in 1..clock
    /\ \A r, q \in Requests :
            r # q /\ Exists(r) /\ Exists(q) => runs[r].born # runs[q].born

\* The fence of a mutation still holds when it comes to write, and no deletion has
\* found its run.
Entered(p) ==
    LET a == attempts[p.owner] IN
    /\ p \in posts /\ OwnedPost(p) /\ ReceiptFor(p) = {} /\ Live(a.req)
    /\ a.req \notin deleting[a.session].seen

\* The runs a deletion has found are the session's until it commits.
Deleting(s) ==
    /\ UnderWay(s) => s \in open /\ \A r \in deleting[s].seen : Exists(r) /\ runs[r].session = s
    /\ s \in open /\ ~UnderWay(s) => deleting[s].seen = {}

Fences ==
    /\ \A p, q \in applying : p = q
    /\ \A p \in applying : Entered(p)
    /\ \A s \in Sessions : Deleting(s)

IInv == TypeOK /\ Assigned /\ InFlight /\ Ordered /\ OnlyNewestRuns /\ Fences

-----------------------------------------------------------------------------
(* The operators stay within their types. *)

\* The state of a Turn that loaded nothing, a request without a row and an
\* attempt not begun are well typed.
LEMMA EmptyTypes ==
    EmptySnapshot \in Snapshots /\ NoRow \in Rows /\ NewAttempt \in Attempts
<1>1. EmptySnapshot \in Snapshots
    BY DEF EmptySnapshot, Snapshots, Trips
<1>2. NoRow \in Rows
    BY <1>1 DEF NoRow, Rows
<1>3. NewAttempt \in Attempts
    BY <1>1 DEF NewAttempt, Attempts
<1>4. QED  BY <1>1, <1>2, <1>3

\* Merging an operation into a trip gives a trip.
LEMMA EffectType ==
    ASSUME NEW x \in Ops, NEW t \in Trips
    PROVE  Effect(x, t) \in Trips
BY FenceAssumption DEF Effect, Trips

\* What _begin reads, deletes and inserts are rows of the table.
LEMMA RowTypes ==
    ASSUME TypeOK, NEW r \in Requests, NEW s \in Sessions, NEW h \in Hashes, NEW o \in Owners
    PROVE  /\ Kept(r) \in Rows
           /\ Inserted(r, s, h, o) \in Rows
           /\ Selected(r, s, h, o) \in Rows
<1>1. Kept(r) \in Rows
    BY EmptyTypes DEF Kept, TypeOK
<1>2. Inserted(r, s, h, o) \in Rows
  <2>1. clock + 1 \in Nat
    BY DEF TypeOK
  <2>2. QED  BY <2>1, EmptyTypes DEF Inserted, Rows
<1>3. QED  BY <1>1, <1>2 DEF Selected

\* The state a fresh request builds from the trip and the previous run.
LEMMA FreshType ==
    ASSUME TypeOK, NEW r \in Requests, NEW s \in Sessions
    PROVE  FreshState(r, s) \in Snapshots
<1> DEFINE before == {runs[q].checkpoint : q \in Previous(r, s)}
           choices == IF before = {} THEN {EmptySnapshot} ELSE before
           old == CHOOSE c \in choices : TRUE
<1>1. choices # {} /\ choices \subseteq Snapshots
  <2>1. \A q \in Requests : runs[q].checkpoint \in Snapshots
    BY DEF TypeOK, Rows
  <2>2. Previous(r, s) \subseteq Requests
    BY DEF Previous
  <2>3. before \subseteq Snapshots
    BY <2>1, <2>2
  <2> HIDE DEF before
  <2>4. QED  BY <2>3, EmptyTypes
<1>2. old \in Snapshots
    BY <1>1
<1>3. trips[s] \in Trips
    BY DEF TypeOK
<1> HIDE DEF old
<1>4. [form |-> "full", version |-> trips[s], made |-> old.made,
       base |-> old.base, applied |-> old.applied] \in Snapshots
    BY <1>2, <1>3 DEF Snapshots
<1>5. QED  BY <1>4 DEF FreshState, old, choices, before

\* What an attempt sends to the database is well typed.
LEMMA WriteTypes ==
    ASSUME TypeOK, NEW o \in Owners, NEW st \in {"running", "completed", "stopped"}
    PROVE  WriteOf(o, st) \in Writes /\ StopWriteOf(o) \in Writes
<1>1. attempts[o].state \in Snapshots
    BY DEF TypeOK, Attempts
<1>2. [EmptySnapshot EXCEPT !.form = "plan_only"] \in Snapshots
    BY EmptyTypes DEF Snapshots, EmptySnapshot
<1>3. QED  BY <1>1, <1>2 DEF WriteOf, StopWriteOf, Writes

\* An attempt that forgets its state keeps its request and session.
LEMMA ForgottenType ==
    ASSUME NEW a \in Attempts, NEW pc \in {"stopping", "gone"}
    PROVE  /\ Forgotten(a, pc) \in Attempts
           /\ Forgotten(a, pc).pc = pc
           /\ Forgotten(a, pc).req = a.req
           /\ Forgotten(a, pc).session = a.session
BY EmptyTypes DEF Forgotten, NewAttempt, Attempts

\* Replacing parts of one attempt keeps the attempts well typed.
LEMMA AttemptTypes ==
    ASSUME TypeOK, NEW o \in Owners, NEW a \in Attempts
    PROVE  [attempts EXCEPT ![o] = a] \in [Owners -> Attempts]
BY DEF TypeOK

-----------------------------------------------------------------------------
(* TypeOK, with the parts of IInv it needs. *)

\* The steps of a Turn keep the types.
LEMMA TurnType ==
    ASSUME TypeOK, Assigned, NEW o \in Owners, TurnNext(o)
    PROVE  TypeOK'
<1> DEFINE a == attempts[o]
<1>1. a \in Attempts /\ a.state \in Snapshots
    BY DEF TypeOK, Attempts
<1>2. ASSUME Stopping(o), UNCHANGED <<runs, clock, expired, posts, businessVars, used>>
      PROVE  TypeOK'
  <2>1. writes' \subseteq Writes
    BY <1>2, WriteTypes DEF Stopping, TypeOK
  <2>2. Forgotten(a, "stopping") \in Attempts
    BY <1>1, ForgottenType
  <2>3. attempts' = [attempts EXCEPT ![o] = Forgotten(a, "stopping")]
    BY <1>2 DEF Stopping
  <2>4. QED  BY <1>2, <2>1, <2>2, <2>3, AttemptTypes DEF TypeOK, businessVars, transactions
<1>3. CASE LoadContext(o)
  <2>1. PICK state \in {IF a.state.form = "empty" THEN FreshState(a.req, a.session) ELSE a.state} :
        /\ attempts' = [attempts EXCEPT ![o].pc = "working", ![o].state = state]
        /\ writes' = writes \union {[owner |-> o, status |-> "running", snapshot |-> state]}
    BY <1>3 DEF LoadContext
  <2>2. a.req \in Requests /\ a.session \in Sessions
    BY <1>3 DEF LoadContext, Assigned
  <2>3. state \in Snapshots
    BY <1>1, <2>1, <2>2, FreshType
  <2>4. [a EXCEPT !.pc = "working", !.state = state] \in Attempts
    BY <1>1, <2>3 DEF Attempts
  <2>5. attempts' = [attempts EXCEPT ![o] = [a EXCEPT !.pc = "working", !.state = state]]
    BY <2>1 DEF TypeOK
  <2>6. writes' \subseteq Writes
    BY <2>1, <2>3 DEF TypeOK, Writes
  <2>7. QED  BY <1>3, <2>4, <2>5, <2>6, AttemptTypes DEF LoadContext, TypeOK, businessVars, transactions
<1>4. CASE LoadFails(o)
    BY <1>2, <1>4 DEF LoadFails
<1>5. ASSUME NEW x \in Ops, Produce(o, x)
      PROVE  TypeOK'
  <2> DEFINE state == [a.state EXCEPT !.made = @ \union {x}, !.base[x] = a.state.version]
  <2>1. state \in Snapshots
    BY <1>1 DEF Snapshots
  <2>2. [a EXCEPT !.state = state] \in Attempts
    BY <1>1, <2>1 DEF Attempts
  <2>3. attempts' = [attempts EXCEPT ![o] = [a EXCEPT !.state = state]]
    BY <1>5 DEF Produce, TypeOK
  <2>4. writes' = writes \union {[owner |-> o, status |-> "running", snapshot |-> state]}
    BY <1>5 DEF Produce
  <2> HIDE DEF state
  <2>5. writes' \subseteq Writes
    BY <2>1, <2>4 DEF TypeOK, Writes
  <2>6. QED  BY <1>5, <2>2, <2>3, <2>5, AttemptTypes DEF Produce, TypeOK, businessVars, transactions
<1>6. ASSUME NEW x \in Ops, Reuse(o, x)
      PROVE  TypeOK'
  <2>1. [a.state EXCEPT !.applied = @ \union {x}] \in Snapshots
    BY <1>1 DEF Snapshots
  <2>2. [a EXCEPT !.state = [a.state EXCEPT !.applied = @ \union {x}]] \in Attempts
    BY <1>1, <2>1 DEF Attempts
  <2>3. attempts' = [attempts EXCEPT ![o] = [a EXCEPT !.state = [a.state EXCEPT !.applied = @ \union {x}]]]
    BY <1>6 DEF Reuse, TypeOK
  <2>4. QED  BY <1>6, <2>2, <2>3, AttemptTypes DEF Reuse, TypeOK, businessVars, transactions
<1>7. ASSUME NEW x \in Ops, Submit(o, x)
      PROVE  TypeOK'
  <2>1. [a EXCEPT !.call = {x}] \in Attempts
    BY <1>1 DEF Attempts
  <2>2. attempts' = [attempts EXCEPT ![o] = [a EXCEPT !.call = {x}]]
    BY <1>7 DEF Submit, TypeOK
  <2>3. a.state.version \in Trips
    BY <1>1 DEF Snapshots
  <2>4. Sent(o, x) \subseteq Posts
    BY <2>3 DEF Sent, Posts
  <2>5. posts' \subseteq Posts
    BY <1>7, <2>4 DEF Submit, TypeOK
  <2>6. QED  BY <1>7, <2>1, <2>2, <2>5, AttemptTypes DEF Submit, TypeOK, businessVars, transactions
<1>8. CASE Save(o)
    BY <1>8, WriteTypes DEF Save, TypeOK, businessVars, transactions
<1>9. CASE Check(o)
    BY <1>2, <1>9 DEF Check
<1>10. CASE Finish(o)
  <2>1. [a EXCEPT !.pc = "finishing", !.call = {}, !.durable = {}] \in Attempts
    BY <1>1 DEF Attempts
  <2>2. attempts' = [attempts EXCEPT ![o] = [a EXCEPT !.pc = "finishing", !.call = {}, !.durable = {}]]
    BY <1>10 DEF Finish, TypeOK
  <2>3. writes' \subseteq Writes
    BY <1>10, WriteTypes DEF Finish, TypeOK
  <2>4. QED  BY <1>10, <2>1, <2>2, <2>3, AttemptTypes DEF Finish, TypeOK, businessVars, transactions
<1>11. CASE Abort(o)
    BY <1>2, <1>11 DEF Abort
<1>12. CASE Crash(o)
  <2>1. Forgotten(a, "gone") \in Attempts
    BY <1>1, ForgottenType
  <2>2. attempts' = [attempts EXCEPT ![o] = Forgotten(a, "gone")]
    BY <1>12 DEF Crash
  <2>3. QED  BY <1>12, <2>1, <2>2, AttemptTypes DEF Crash, TypeOK, businessVars, transactions
<1>13. QED
    BY <1>3, <1>4, <1>5, <1>6, <1>7, <1>8, <1>9, <1>10, <1>11, <1>12 DEF TurnNext

\* The statements of the run store keep the types.
LEMMA StoreType ==
    ASSUME TypeOK, Assigned, InFlight, StoreNext
    PROVE  TypeOK'
<1>1. ASSUME NEW o \in Owners, NEW r \in Requests, NEW s \in Sessions, NEW h \in Hashes,
             Replay(o, r, s, h)
      PROVE  TypeOK'
  <2> DEFINE new == [NewAttempt EXCEPT !.pc = "answered", !.req = r, !.session = s,
                                       !.born = Kept(r).born, !.state = Kept(r).checkpoint]
  <2>1. Kept(r) \in Rows
    BY RowTypes
  <2>2. new \in Attempts
    BY <2>1, EmptyTypes DEF Attempts, Rows
  <2>3. attempts' = [attempts EXCEPT ![o] = new]
    BY <1>1 DEF Replay
  <2> HIDE DEF new
  <2>4. runs' \in [Requests -> Rows]
    BY <1>1, RowTypes DEF Replay
  <2>5. QED  BY <1>1, <2>2, <2>3, <2>4, AttemptTypes DEF Replay, TypeOK, businessVars, transactions
<1>2. ASSUME NEW o \in Owners, NEW r \in Requests, NEW s \in Sessions, NEW h \in Hashes,
             Begin(o, r, s, h)
      PROVE  TypeOK'
  <2> DEFINE row == Selected(r, s, h, o)
             new == [NewAttempt EXCEPT !.pc = "begun", !.req = r, !.session = s,
                                       !.born = row.born, !.state = row.checkpoint]
  <2>1. row \in Rows
    BY RowTypes
  <2>2. new \in Attempts
    BY <2>1, EmptyTypes DEF Attempts, Rows
  <2>3. attempts' = [attempts EXCEPT ![o] = new]
    BY <1>2 DEF Begin
  <2>4. [row EXCEPT !.owner = o, !.status = "running", !.cancelled = FALSE] \in Rows
    BY <2>1 DEF Rows
  <2>5. \A q \in Requests : Kept(q) \in Rows /\ Interrupted(Kept(q)) \in Rows
    <3>1. \A q \in Requests : Kept(q) \in Rows
      BY RowTypes
    <3>2. \A q \in Requests : Interrupted(Kept(q)) \in Rows
      BY <3>1 DEF Interrupted, Rows
    <3>3. QED  BY <3>1, <3>2
  <2>6. runs' = [q \in Requests |->
            IF q = r THEN [row EXCEPT !.owner = o, !.status = "running", !.cancelled = FALSE]
            ELSE IF Kept(q).session = s /\ Kept(q).status = "running"
                 THEN Interrupted(Kept(q)) ELSE Kept(q)]
    BY <1>2 DEF Begin
  <2> HIDE DEF new, row
  <2>7. runs' \in [Requests -> Rows]
    BY <2>4, <2>5, <2>6
  <2>8. clock' \in Nat
    BY <1>2 DEF Begin, TypeOK
  <2>9. QED  BY <1>2, <2>2, <2>3, <2>7, <2>8, AttemptTypes DEF Begin, TypeOK, businessVars, transactions
<1>3. ASSUME NEW w \in writes, Land(w)
      PROVE  TypeOK'
  <2> DEFINE o == w.owner
             a == attempts[o]
  <2>1. o \in Owners /\ w.snapshot \in Snapshots /\ w.status \in {"running", "completed", "stopped"}
    BY DEF TypeOK, Writes
  <2>2. a \in Attempts /\ a.req \in Requests
    BY <2>1 DEF TypeOK, Assigned, InFlight
  <2>3. runs' \in [Requests -> Rows]
    <3>1. [runs[a.req] EXCEPT !.checkpoint = w.snapshot, !.status = w.status] \in Rows
      <4>1. runs[a.req] \in Rows
        BY <2>2 DEF TypeOK
      <4>2. QED  BY <2>1, <4>1 DEF Rows
    <3>2. runs' = [runs EXCEPT ![a.req] =
                       [runs[a.req] EXCEPT !.checkpoint = w.snapshot, !.status = w.status]]
      BY <1>3, <2>2 DEF Land, TypeOK
    <3>3. QED  BY <3>1, <3>2 DEF TypeOK
  <2>4. attempts' \in [Owners -> Attempts]
    <3>1. [a EXCEPT !.durable = @ \union w.snapshot.made] \in Attempts
      BY <2>1, <2>2 DEF Attempts, Snapshots
    <3>2. [a EXCEPT !.pc = "answered"] \in Attempts
      BY <2>2 DEF Attempts
    <3>3. Forgotten(a, "gone") \in Attempts
      BY <2>2, ForgottenType
    <3>4. \/ attempts' = [attempts EXCEPT ![o].durable = @ \union w.snapshot.made]
          \/ attempts' = [attempts EXCEPT ![o].pc = "answered"]
          \/ attempts' = [attempts EXCEPT ![o] = Forgotten(@, "gone")]
          \/ attempts' = attempts
      BY <1>3 DEF Land
    <3>5. QED  BY <2>1, <3>1, <3>2, <3>3, <3>4 DEF TypeOK
  <2>5. QED  BY <1>3, <2>3, <2>4 DEF Land, TypeOK, businessVars, transactions
<1>4. ASSUME NEW w \in writes, Refuse(w)
      PROVE  TypeOK'
  <2>1. w.owner \in Owners /\ attempts[w.owner] \in Attempts
    BY DEF TypeOK, Writes
  <2>2. Forgotten(attempts[w.owner], "stopping") \in Attempts
        /\ Forgotten(attempts[w.owner], "gone") \in Attempts
    BY <2>1, ForgottenType
  <2>3. attempts' \in [Owners -> Attempts]
    BY <1>4, <2>1, <2>2 DEF Refuse, RefuseSave, RefuseStop, TypeOK
  <2>4. writes' \subseteq Writes
    BY <1>4, <2>1, WriteTypes DEF Refuse, RefuseSave, RefuseStop, TypeOK
  <2>5. QED  BY <1>4, <2>3, <2>4 DEF Refuse, TypeOK, businessVars, transactions
<1>5. ASSUME NEW r \in Requests, Cancel(r)
      PROVE  TypeOK'
  <2>1. [runs[r] EXCEPT !.cancelled = TRUE] \in Rows
    BY DEF TypeOK, Rows
  <2>2. runs' = [runs EXCEPT ![r] = [runs[r] EXCEPT !.cancelled = TRUE]]
    BY <1>5 DEF Cancel, TypeOK
  <2>3. QED  BY <1>5, <2>1, <2>2 DEF Cancel, TypeOK, businessVars, transactions
<1>6. ASSUME NEW r \in Requests, RetentionElapses(r)
      PROVE  TypeOK'
    BY <1>6 DEF RetentionElapses, TypeOK, businessVars, transactions
<1>7. QED  BY <1>1, <1>2, <1>3, <1>4, <1>5, <1>6 DEF StoreNext

\* The transactions of the business service keep the types.
LEMMA BusinessType ==
    ASSUME TypeOK, Assigned, InFlight, BusinessNext
    PROVE  TypeOK'
<1> USE DEF businessVars, transactions
<1>1. ASSUME NEW p \in posts
      PROVE  /\ p.owner \in Owners /\ p.op \in Ops /\ p.expected \in Trips
             /\ attempts[p.owner] \in Attempts
             /\ attempts[p.owner].req \in Requests /\ attempts[p.owner].session \in Sessions
    BY <1>1 DEF TypeOK, Posts, Assigned, InFlight
<1>2. ASSUME NEW p \in posts, NEW v \in Trips, Hear(p, v)
      PROVE  attempts' \in [Owners -> Attempts]
  <2> DEFINE a == attempts[p.owner]
             state == WithReceipt(a.state, p.op, v)
  <2>1. a.state \in Snapshots
    BY <1>1 DEF Attempts
  <2>2. state \in Snapshots
    BY <1>1, <2>1 DEF Snapshots, WithReceipt
  <2>3. attempts' = [attempts EXCEPT ![p.owner] = [a EXCEPT !.call = {}, !.state = state]]
    BY <1>1, <1>2 DEF Hear, TypeOK
  <2> HIDE DEF state
  <2>4. [a EXCEPT !.call = {}, !.state = state] \in Attempts
    BY <1>1, <2>2 DEF Attempts
  <2>5. QED  BY <1>1, <2>3, <2>4, AttemptTypes
<1>3. ASSUME NEW p \in posts, Commit(p)
      PROVE  TypeOK'
  <2> DEFINE a == attempts[p.owner]
             after == Effect(p.op, trips[a.session])
  <2>1. after \in Trips
    BY <1>1, EffectType DEF TypeOK
  <2>2. attempts' \in [Owners -> Attempts]
    BY <1>2, <1>3, <2>1 DEF Commit, TypeOK
  <2>3. receipts' = receipts \union
            {[req |-> a.req, op |-> p.op, expected |-> p.expected, version |-> after,
              created |-> clock + 1]}
        /\ trips' = [trips EXCEPT ![a.session] = after]
    BY <1>3 DEF Commit
  <2> HIDE DEF after
  <2>4. receipts' \subseteq Receipts /\ trips' \in [Sessions -> Trips]
    BY <1>1, <2>1, <2>3 DEF Receipts, TypeOK
  <2>5. QED  BY <1>3, <2>2, <2>4 DEF Commit, TypeOK
<1>4. ASSUME NEW p \in posts, ReturnReceipt(p)
      PROVE  TypeOK'
  <2>1. PICK e \in receipts : Hear(p, e.version)
    BY <1>4 DEF ReturnReceipt, ReceiptFor
  <2>2. e.version \in Trips
    BY DEF TypeOK, Receipts
  <2>3. attempts' \in [Owners -> Attempts]
    BY <1>2, <2>1, <2>2
  <2>4. QED  BY <1>4, <2>3 DEF ReturnReceipt, TypeOK
<1>5. ASSUME NEW p \in posts, RejectStopped(p)
      PROVE  TypeOK'
  <2>1. Forgotten(attempts[p.owner], "stopping") \in Attempts
    BY <1>1, ForgottenType
  <2>2. attempts' \in [Owners -> Attempts]
    BY <1>1, <1>5, <2>1 DEF RejectStopped, Stopping, TypeOK
  <2>3. writes' \subseteq Writes
    BY <1>1, <1>5, WriteTypes DEF RejectStopped, Stopping, TypeOK
  <2>4. QED  BY <1>5, <2>2, <2>3 DEF RejectStopped, TypeOK
<1>6. ASSUME NEW p \in posts, RejectConflict(p)
      PROVE  TypeOK'
  <2>1. [attempts[p.owner] EXCEPT !.call = {}] \in Attempts
    BY <1>1 DEF Attempts
  <2>2. attempts' = [attempts EXCEPT ![p.owner] = [attempts[p.owner] EXCEPT !.call = {}]]
    BY <1>1, <1>6 DEF RejectConflict, Unheard, TypeOK
  <2>3. QED  BY <1>1, <1>6, <2>1, <2>2, AttemptTypes DEF RejectConflict, TypeOK
<1>7. ASSUME NEW p \in posts, RejectVersion(p)
      PROVE  TypeOK'
  <2>1. [attempts[p.owner] EXCEPT !.call = {}] \in Attempts
    BY <1>1 DEF Attempts
  <2>2. attempts' = [attempts EXCEPT ![p.owner] = [attempts[p.owner] EXCEPT !.call = {}]]
    BY <1>1, <1>7 DEF RejectVersion, Unheard, TypeOK
  <2>3. QED  BY <1>1, <1>7, <2>1, <2>2, AttemptTypes DEF RejectVersion, TypeOK
<1>8. ASSUME NEW p \in posts, Enter(p)
      PROVE  TypeOK'
    BY <1>8 DEF Enter, TypeOK
<1>9. ASSUME NEW s \in Sessions, DeleteRuns(s) \/ DeleteTrip(s)
      PROVE  TypeOK'
  <2>1. deleting[s] \in Deletions /\ RunsOf(s) \subseteq Requests
    BY DEF TypeOK, RunsOf
  <2>2. [pc |-> "runs", seen |-> RunsOf(s), gone |-> FALSE] \in Deletions
    BY <2>1 DEF Deletions
  <2>3. [deleting[s] EXCEPT !.pc = "trip", !.gone = trips[s] # {}] \in Deletions
    BY <2>1 DEF Deletions
  <2>4. deleting' = [deleting EXCEPT ![s] = [pc |-> "runs", seen |-> RunsOf(s), gone |-> FALSE]]
        \/ deleting' = [deleting EXCEPT ![s] = [deleting[s] EXCEPT !.pc = "trip", !.gone = trips[s] # {}]]
    BY <1>9 DEF DeleteRuns, DeleteTrip, TypeOK
  <2>5. deleting' \in [Sessions -> Deletions]
    BY <2>2, <2>3, <2>4 DEF TypeOK
  <2>6. QED  BY <1>9, <2>5 DEF DeleteRuns, DeleteTrip, TypeOK
<1>10. ASSUME NEW s \in Sessions, CommitDelete(s)
       PROVE  TypeOK'
  <2>1. \A r \in Requests : StoppedRun(runs[r]) \in Rows
    BY DEF StoppedRun, TypeOK, Rows
  <2>2. runs' \in [Requests -> Rows]
    BY <1>10, <2>1 DEF CommitDelete, TypeOK
  <2>3. trips' \in [Sessions -> Trips]
    BY <1>10 DEF CommitDelete, TypeOK, Trips
  <2>4. [deleting[s] EXCEPT !.pc = "closed"] \in Deletions
    BY DEF TypeOK, Deletions
  <2>5. deleting' = [deleting EXCEPT ![s] = [deleting[s] EXCEPT !.pc = "closed"]]
    BY <1>10 DEF CommitDelete, TypeOK
  <2>6. deleting' \in [Sessions -> Deletions]
    BY <2>4, <2>5 DEF TypeOK
  <2>7. QED  BY <1>10, <2>2, <2>3, <2>6 DEF CommitDelete, TypeOK
<1>11. QED
    BY <1>3, <1>4, <1>5, <1>6, <1>7, <1>8, <1>9, <1>10 DEF BusinessNext

-----------------------------------------------------------------------------
(* What is in flight belongs to an attempt that was begun. *)

\* An attempt never returns to "new" nor changes its request and session.
Kin(o) ==
    /\ attempts'[o].pc # "new"
    /\ attempts'[o].req = attempts[o].req
    /\ attempts'[o].session = attempts[o].session

Kinship == \A n \in Owners : attempts[n].pc # "new" => Kin(n)

\* No step of a Turn begins an attempt, and what it sends is its own.
LEMMA TurnAssigned ==
    ASSUME TypeOK, Assigned, InFlight, NEW o \in Owners, TurnNext(o)
    PROVE  Assigned' /\ InFlight' /\ Kinship
<1>1. attempts[o] \in Attempts
    BY DEF TypeOK
<1>2. /\ attempts[o].pc # "new" /\ Kin(o)
      /\ \A n \in Owners \ {o} : attempts'[n] = attempts[n]
  <2>1. Stopping(o) => Kin(o) /\ \A n \in Owners \ {o} : attempts'[n] = attempts[n]
    BY <1>1, ForgottenType DEF Stopping, Kin, TypeOK
  <2>2. Crash(o) => Kin(o) /\ \A n \in Owners \ {o} : attempts'[n] = attempts[n]
    BY <1>1, ForgottenType DEF Crash, Kin, TypeOK
  <2>3. LoadContext(o) => Kin(o) /\ \A n \in Owners \ {o} : attempts'[n] = attempts[n]
    BY <1>1 DEF LoadContext, Kin, TypeOK, Attempts
  <2>4. ASSUME NEW x \in Ops, Produce(o, x) \/ Reuse(o, x) \/ Submit(o, x)
        PROVE  Kin(o) /\ \A n \in Owners \ {o} : attempts'[n] = attempts[n]
    BY <1>1, <2>4 DEF Produce, Reuse, Submit, Kin, TypeOK, Attempts
  <2>5. Save(o) \/ Finish(o) => Kin(o) /\ \A n \in Owners \ {o} : attempts'[n] = attempts[n]
    BY <1>1 DEF Save, Finish, Kin, TypeOK, Attempts
  <2>6. attempts[o].pc # "new"
    BY DEF TurnNext, LoadContext, LoadFails, Produce, Reuse, Submit, Save, Check, Finish, Abort, Crash
  <2>7. QED
    BY <2>1, <2>2, <2>3, <2>4, <2>5, <2>6 DEF TurnNext, LoadFails, Check, Abort
<1>3. Assigned'
    BY <1>2 DEF Assigned, Kin
<1>4. \A w \in writes' : w \in writes \/ w.owner = o
  <2>1. Stopping(o) => \A w \in writes' : w \in writes \/ w.owner = o
    BY DEF Stopping, StopWriteOf
  <2>2. LoadContext(o) => \A w \in writes' : w \in writes \/ w.owner = o
    BY DEF LoadContext
  <2>3. ASSUME NEW x \in Ops, Produce(o, x) \/ Reuse(o, x) \/ Submit(o, x)
        PROVE  \A w \in writes' : w \in writes \/ w.owner = o
    BY <2>3 DEF Produce, Reuse, Submit
  <2>4. Save(o) \/ Finish(o) \/ Crash(o) => \A w \in writes' : w \in writes \/ w.owner = o
    BY DEF Save, Finish, Crash, WriteOf
  <2>5. QED  BY <2>1, <2>2, <2>3, <2>4 DEF TurnNext, LoadFails, Check, Abort
<1>5. \A p \in posts' : p \in posts \/ p.owner = o
  <2>1. LoadContext(o) \/ LoadFails(o) \/ Save(o) \/ Check(o) \/ Finish(o) \/ Abort(o) \/ Crash(o)
        => posts' = posts
    BY DEF LoadContext, LoadFails, Save, Check, Finish, Abort, Crash
  <2>2. ASSUME NEW x \in Ops, Produce(o, x) \/ Reuse(o, x)
        PROVE  posts' = posts
    BY <2>2 DEF Produce, Reuse
  <2>3. ASSUME NEW x \in Ops, Submit(o, x)
        PROVE  \A p \in posts' : p \in posts \/ p.owner = o
    BY <2>3 DEF Submit, Sent
  <2>4. QED  BY <2>1, <2>2, <2>3 DEF TurnNext
<1>6. InFlight'
  <2>1. (\A w \in writes : w.owner \in Owners) /\ (\A p \in posts : p.owner \in Owners)
    BY DEF TypeOK, Writes, Posts
  <2>2. QED  BY <1>2, <1>4, <1>5, <2>1 DEF InFlight, Kin
<1>7. Kinship
    BY <1>2 DEF Kinship, Kin
<1>8. QED  BY <1>3, <1>6, <1>7

\* Whoever begins or replays is assigned its request; the rest is as before.
LEMMA StoreAssigned ==
    ASSUME TypeOK, Assigned, InFlight, StoreNext
    PROVE  Assigned' /\ InFlight' /\ Kinship
<1> USE DEF Assigned, InFlight, Kinship
<1>1. (\A w \in writes : w.owner \in Owners) /\ (\A p \in posts : p.owner \in Owners)
    BY DEF TypeOK, Writes, Posts
<1>2. ASSUME NEW o \in Owners, NEW r \in Requests, NEW s \in Sessions, NEW h \in Hashes,
             Begin(o, r, s, h) \/ Replay(o, r, s, h)
      PROVE  Assigned' /\ InFlight' /\ Kinship
  <2>1. /\ attempts'[o].pc # "new" /\ attempts'[o].req = r /\ attempts'[o].session = s
        /\ \A n \in Owners \ {o} : attempts'[n] = attempts[n]
    <3>1. \E pc \in {"begun", "answered"} : \E b, st : attempts' = [attempts EXCEPT ![o] =
            [NewAttempt EXCEPT !.pc = pc, !.req = r, !.session = s, !.born = b, !.state = st]]
      BY <1>2 DEF Begin, Replay
    <3>2. QED  BY <3>1, EmptyTypes DEF TypeOK, Attempts
  <2>2. UNCHANGED <<writes, posts>>
    BY <1>2 DEF Begin, Replay
  <2>3. attempts[o].pc = "new"
    BY <1>2 DEF Begin, Replay
  <2>4. QED  BY <1>1, <2>1, <2>2, <2>3 DEF Kin
<1>3. ASSUME NEW w \in writes, Land(w) \/ Refuse(w)
      PROVE  Assigned' /\ InFlight' /\ Kinship
  <2>1. w.owner \in Owners /\ attempts[w.owner] \in Attempts
    BY DEF TypeOK, Writes
  <2>2. Kin(w.owner) /\ \A n \in Owners \ {w.owner} : attempts'[n] = attempts[n]
    <3>1. CASE Land(w)
      <4>1. \/ attempts' = [attempts EXCEPT ![w.owner].durable = @ \union w.snapshot.made]
            \/ attempts' = [attempts EXCEPT ![w.owner].pc = "answered"]
            \/ attempts' = [attempts EXCEPT ![w.owner] = Forgotten(@, "gone")]
            \/ attempts' = attempts
        BY <3>1 DEF Land
      <4>2. QED  BY <2>1, <4>1, ForgottenType DEF Kin, TypeOK, Attempts
    <3>2. CASE Refuse(w)
      BY <2>1, <3>2, ForgottenType DEF Refuse, RefuseSave, RefuseStop, Kin, TypeOK
    <3>3. QED  BY <1>3, <3>1, <3>2
  <2>3. (\A u \in writes' : u \in writes \/ u.owner = w.owner) /\ posts' = posts
    BY <1>3 DEF Land, Refuse, RefuseSave, RefuseStop, StopWriteOf
  <2>4. QED  BY <1>1, <2>1, <2>2, <2>3 DEF Kin
<1>4. ASSUME NEW r \in Requests, Cancel(r) \/ RetentionElapses(r)
      PROVE  Assigned' /\ InFlight' /\ Kinship
    BY <1>4 DEF Cancel, RetentionElapses, Kin
<1>5. QED  BY <1>2, <1>3, <1>4 DEF StoreNext

\* A response changes only the attempt that waits for it.
LEMMA BusinessAssigned ==
    ASSUME TypeOK, Assigned, InFlight, BusinessNext
    PROVE  Assigned' /\ InFlight' /\ Kinship
<1> USE DEF Assigned, InFlight, Kinship
<1>1. (\A w \in writes : w.owner \in Owners) /\ (\A p \in posts : p.owner \in Owners)
    BY DEF TypeOK, Writes, Posts
<1>2. ASSUME NEW p \in posts,
             \/ Commit(p) \/ ReturnReceipt(p) \/ RejectStopped(p) \/ RejectConflict(p)
             \/ RejectVersion(p)
      PROVE  Assigned' /\ InFlight' /\ Kinship
  <2>1. p.owner \in Owners /\ attempts[p.owner] \in Attempts
    BY DEF TypeOK, Posts
  <2>2. Kin(p.owner) /\ \A n \in Owners \ {p.owner} : attempts'[n] = attempts[n]
    <3>1. ASSUME NEW v, Hear(p, v)
          PROVE  Kin(p.owner) /\ \A n \in Owners \ {p.owner} : attempts'[n] = attempts[n]
      BY <2>1, <3>1 DEF Hear, Kin, TypeOK, Attempts
    <3>2. Commit(p) => Kin(p.owner) /\ \A n \in Owners \ {p.owner} : attempts'[n] = attempts[n]
      BY <3>1 DEF Commit, Kin
    <3>3. ReturnReceipt(p) => Kin(p.owner) /\ \A n \in Owners \ {p.owner} : attempts'[n] = attempts[n]
      BY <3>1 DEF ReturnReceipt
    <3>4. RejectStopped(p) => Kin(p.owner) /\ \A n \in Owners \ {p.owner} : attempts'[n] = attempts[n]
      BY <2>1, ForgottenType DEF RejectStopped, Stopping, Kin, TypeOK
    <3>5. RejectConflict(p) => Kin(p.owner) /\ \A n \in Owners \ {p.owner} : attempts'[n] = attempts[n]
      BY <2>1 DEF RejectConflict, Unheard, Kin, TypeOK, Attempts
    <3>6. RejectVersion(p) => Kin(p.owner) /\ \A n \in Owners \ {p.owner} : attempts'[n] = attempts[n]
      BY <2>1 DEF RejectVersion, Unheard, Kin, TypeOK, Attempts
    <3>7. QED  BY <1>2, <3>2, <3>3, <3>4, <3>5, <3>6
  <2>3. (\A u \in writes' : u \in writes \/ u.owner = p.owner) /\ posts' = posts \ {p}
    BY <1>2 DEF Commit, ReturnReceipt, RejectStopped, RejectConflict, RejectVersion, Stopping,
                StopWriteOf
  <2>4. QED  BY <1>1, <2>1, <2>2, <2>3 DEF Kin
<1>3. ASSUME UNCHANGED <<attempts, writes, posts>>
      PROVE  Assigned' /\ InFlight' /\ Kinship
    BY <1>3 DEF Kin
<1>4. ASSUME NEW s \in Sessions, DeleteRuns(s) \/ DeleteTrip(s) \/ CommitDelete(s)
      PROVE  UNCHANGED <<attempts, writes, posts>>
    BY <1>4 DEF DeleteRuns, DeleteTrip, CommitDelete
<1>5. QED  BY <1>2, <1>3, <1>4 DEF BusinessNext, Enter

-----------------------------------------------------------------------------
(* The order of the rows. *)

\* Every step but Begin leaves a part of the table, and starts no run.
Shrinks ==
    /\ clock' \in Nat /\ clock' >= clock
    /\ \A r \in Requests : Exists(r)' =>
            /\ Exists(r)
            /\ runs'[r].born = runs[r].born /\ runs'[r].session = runs[r].session
            /\ Running(r)' => Running(r)

\* A step that starts no run keeps the rows ordered and the running ones newest.
LEMMA ShrinkingKeepsOrder ==
    ASSUME TypeOK, Ordered, OnlyNewestRuns, Shrinks
    PROVE  Ordered' /\ OnlyNewestRuns'
<1>1. Ordered'
  <2>1. \A r \in Requests : Exists(r)' => runs'[r].born \in 1..clock'
    BY DEF Ordered, Shrinks, TypeOK
  <2>2. \A r, q \in Requests : r # q /\ Exists(r)' /\ Exists(q)' => runs'[r].born # runs'[q].born
    BY DEF Ordered, Shrinks
  <2>3. QED  BY <2>1, <2>2 DEF Ordered, Exists
<1>2. \A r, q \in Requests :
        Running(r)' /\ Exists(q)' /\ q # r /\ runs'[q].session = runs'[r].session
            => runs'[q].born < runs'[r].born
  <2>1. \A r \in Requests : Running(r)' => Exists(r)'
    BY DEF Running, Exists
  <2>2. QED  BY <2>1 DEF OnlyNewestRuns, Shrinks
<1>3. QED  BY <1>1, <1>2 DEF OnlyNewestRuns, Exists, Running

\* What _begin leaves after the deletion of the expired rows is as it was.
LEMMA KeptRow ==
    ASSUME NEW q \in Requests, Kept(q).status # "absent"
    PROVE  Kept(q) = runs[q] /\ Exists(q)
BY DEF Kept, NoRow, Exists

\* _begin makes its request the only running one of the session, and the
\* youngest one.
LEMMA BeginKeepsOrder ==
    ASSUME TypeOK, Ordered, OnlyNewestRuns,
           NEW o \in Owners, NEW r \in Requests, NEW s \in Sessions, NEW h \in Hashes,
           Begin(o, r, s, h)
    PROVE  Ordered' /\ OnlyNewestRuns'
<1> DEFINE row == Selected(r, s, h, o)
<1>1. row \in Rows /\ row.session = s
    BY RowTypes DEF Begin, Admitted
<1>2. runs'[r].session = s /\ runs'[r].born = row.born /\ runs'[r].status = "running"
    BY <1>1 DEF Begin, Rows
<1>3. ASSUME NEW q \in Requests \ {r}, Exists(q)'
      PROVE  /\ Exists(q) /\ Kept(q) = runs[q]
             /\ runs'[q].born = runs[q].born /\ runs'[q].session = runs[q].session
             /\ Running(q)' => Running(q) /\ runs[q].session # s
  <2>1. Kept(q) \in Rows
    BY RowTypes
  <2>2. runs'[q] = IF Kept(q).session = s /\ Kept(q).status = "running"
                   THEN Interrupted(Kept(q)) ELSE Kept(q)
    BY DEF Begin
  <2>3. Kept(q).status # "absent"
    BY <1>3, <2>2 DEF Exists
  <2>4. Kept(q) = runs[q] /\ Exists(q)
    BY <2>3, KeptRow
  <2>5. Interrupted(Kept(q)).born = Kept(q).born /\ Interrupted(Kept(q)).session = Kept(q).session
        /\ Interrupted(Kept(q)).status = "stopped"
    BY <2>1 DEF Interrupted, Rows
  <2>6. QED  BY <2>2, <2>4, <2>5 DEF Running
<1>4. /\ clock' \in Nat /\ clock' >= clock
      /\ row.born \in 1..clock'
      /\ \/ row.born = clock' /\ clock' > clock
         \/ row.born = runs[r].born /\ Exists(r)
  <2>1. CASE Kept(r).status = "absent"
    <3>1. row.born = clock + 1
      BY <2>1, EmptyTypes DEF Selected, Inserted, Rows
    <3>2. clock' = clock + 1
      BY <2>1 DEF Begin
    <3>3. QED  BY <3>1, <3>2 DEF TypeOK
  <2>2. CASE Kept(r).status # "absent"
    <3>1. row = runs[r] /\ Exists(r)
      BY <2>2, KeptRow DEF Selected
    <3>2. clock' = clock
      BY <2>2 DEF Begin
    <3>3. QED  BY <3>1, <3>2 DEF TypeOK, Ordered
  <2>3. QED  BY <2>1, <2>2
<1>5. \A q \in Requests \ {r} : Exists(q)' => runs[q].born # row.born /\ runs[q].born \in 1..clock
    BY <1>3, <1>4 DEF Ordered, TypeOK
<1>6. \A q \in Requests \ {r} : Exists(q)' /\ runs[q].session = s => runs[q].born < row.born
  <2> SUFFICES ASSUME NEW q \in Requests \ {r}, Exists(q)', runs[q].session = s
               PROVE  runs[q].born < row.born
    OBVIOUS
  <2>1. ~ (runs[q].born > row.born)
    BY <1>3 DEF Begin, Superseded, Exists
  <2>2. row.born \in Nat /\ runs[q].born \in Nat
    BY <1>1 DEF Rows, TypeOK
  <2>3. QED  BY <1>5, <2>1, <2>2
<1> HIDE DEF row
<1>7. Ordered'
  <2>1. \A q \in Requests : Exists(q)' => runs'[q].born \in 1..clock'
    BY <1>2, <1>3, <1>4, <1>5 DEF TypeOK
  <2>2. \A p, q \in Requests : p # q /\ Exists(p)' /\ Exists(q)' => runs'[p].born # runs'[q].born
    BY <1>2, <1>3, <1>5 DEF Ordered
  <2>3. QED  BY <2>1, <2>2 DEF Ordered, Exists
<1>8. \A p, q \in Requests :
        Running(p)' /\ Exists(q)' /\ q # p /\ runs'[q].session = runs'[p].session
            => runs'[q].born < runs'[p].born
  <2>1. \A p \in Requests : Running(p)' => Exists(p)'
    BY DEF Running, Exists
  <2> SUFFICES ASSUME NEW p \in Requests, NEW q \in Requests,
                      Running(p)', Exists(q)', q # p, runs'[q].session = runs'[p].session
               PROVE  runs'[q].born < runs'[p].born
    OBVIOUS
  <2>2. CASE p = r
    BY <1>2, <1>3, <1>6, <2>2
  <2>3. CASE p # r
    BY <1>2, <1>3, <2>1, <2>3 DEF OnlyNewestRuns
  <2>4. QED  BY <2>2, <2>3
<1>9. QED  BY <1>7, <1>8 DEF OnlyNewestRuns, Exists, Running

\* Every other step starts no run.
LEMMA OthersShrink ==
    ASSUME TypeOK, Assigned, InFlight, Next,
           \A o \in Owners, r \in Requests, s \in Sessions, h \in Hashes : ~Begin(o, r, s, h)
    PROVE  Shrinks
<1>1. clock \in Nat /\ \A r \in Requests : runs[r] \in Rows
    BY DEF TypeOK
<1>2. ASSUME runs' = runs, clock' = clock \/ clock' = clock + 1
      PROVE  Shrinks
    BY <1>1, <1>2 DEF Shrinks, Exists, Running
<1>3. ASSUME NEW o \in Owners, TurnNext(o)
      PROVE  runs' = runs /\ clock' = clock
    BY <1>3 DEF TurnNext, LoadContext, LoadFails, Produce, Reuse, Submit, Save, Check,
                Finish, Abort, Crash
<1>4. ASSUME NEW o \in Owners, NEW r \in Requests, NEW s \in Sessions, NEW h \in Hashes,
             Replay(o, r, s, h)
      PROVE  Shrinks
  <2>1. clock' = clock /\ \A q \in Requests : runs'[q] = Kept(q)
    BY <1>4 DEF Replay
  <2>2. QED  BY <1>1, <2>1, KeptRow DEF Shrinks, Exists, Running
<1>5. ASSUME NEW w \in writes, Land(w)
      PROVE  Shrinks
  <2> DEFINE r == attempts[w.owner].req
  <2>1. r \in Requests /\ w.status \in {"running", "completed", "stopped"}
    BY DEF TypeOK, Writes, Assigned, InFlight
  <2>2. Running(r)
    BY <1>5 DEF Land, Accepted, Owned, Running
  <2>3. clock' = clock /\ runs' = [runs EXCEPT ![r].checkpoint = w.snapshot, ![r].status = w.status]
    BY <1>5 DEF Land
  <2>4. QED  BY <1>1, <2>1, <2>2, <2>3 DEF Shrinks, Exists, Running, TypeOK, Rows
<1>6. ASSUME NEW w \in writes, Refuse(w)
      PROVE  runs' = runs /\ clock' = clock
    BY <1>6 DEF Refuse
<1>7. ASSUME NEW r \in Requests, Cancel(r)
      PROVE  Shrinks
  <2>1. clock' = clock /\ runs' = [runs EXCEPT ![r].cancelled = TRUE]
    BY <1>7 DEF Cancel
  <2>2. QED  BY <1>1, <2>1 DEF Shrinks, Exists, Running, TypeOK, Rows
<1>8. ASSUME NEW r \in Requests, RetentionElapses(r)
      PROVE  runs' = runs /\ clock' = clock
    BY <1>8 DEF RetentionElapses
<1>9. ASSUME BusinessNext, \A s \in Sessions : ~CommitDelete(s)
      PROVE  runs' = runs /\ (clock' = clock \/ clock' = clock + 1)
    BY <1>9 DEF BusinessNext, Enter, Commit, ReturnReceipt, RejectStopped, RejectConflict,
                RejectVersion, DeleteRuns, DeleteTrip
<1>10. ASSUME NEW s \in Sessions, CommitDelete(s)
       PROVE  Shrinks
  <2>1. \A r \in Requests : runs'[r] \in {runs[r], StoppedRun(runs[r])}
    BY <1>10 DEF CommitDelete
  <2>2. \A r \in Requests :
            /\ runs'[r].born = runs[r].born /\ runs'[r].session = runs[r].session
            /\ runs'[r].status \in {runs[r].status, "stopped"}
            /\ runs[r].status = "absent" => runs'[r].status = "absent"
    BY <1>1, <2>1 DEF StoppedRun, Rows
  <2>3. \A r \in Requests : (Exists(r)' => Exists(r)) /\ (Running(r)' => Running(r))
    BY <2>2 DEF Exists, Running
  <2>4. clock' = clock
    BY <1>10 DEF CommitDelete
  <2>5. clock' \in Nat /\ clock' >= clock
    BY <1>1, <2>4
  <2>6. QED  BY <2>2, <2>3, <2>5 DEF Shrinks
<1>11. QED
    BY <1>2, <1>3, <1>4, <1>5, <1>6, <1>7, <1>8, <1>9, <1>10 DEF Next, StoreNext

-----------------------------------------------------------------------------
(* What a transaction has found stays so. *)

\* A step that leaves the rows that are held, and the transactions, keeps the fences.
LEMMA HeldRowsStay ==
    ASSUME TypeOK, Assigned, InFlight, Fences, Kinship, applying \subseteq posts',
           UNCHANGED <<open, receipts, applying, deleting>>,
           \A r \in Requests : Held(r) => runs'[r] = runs[r]
    PROVE  Fences'
<1>1. ASSUME NEW p \in applying
      PROVE  Entered(p)'
  <2> DEFINE r == attempts[p.owner].req
             s == attempts[p.owner].session
  <2>1. p.owner \in Owners /\ p \in posts /\ r \in Requests /\ s \in Sessions
    BY DEF TypeOK, Posts, Fences, Entered, InFlight, Assigned
  <2>2. attempts'[p.owner].req = r /\ attempts'[p.owner].session = s
    BY <2>1 DEF Kinship, Kin, InFlight
  <2>3. runs'[r] = runs[r]
    BY <2>1 DEF Held, HeldByMutation
  <2>4. OwnedPost(p) /\ ReceiptFor(p) = {} /\ Live(r) /\ r \notin deleting[s].seen
    BY DEF Fences, Entered
  <2>5. QED  BY <2>2, <2>3, <2>4 DEF Entered, OwnedPost, ReceiptFor, Live
<1>2. ASSUME NEW s \in Sessions
      PROVE  Deleting(s)'
  <2>1. UnderWay(s) => \A r \in deleting[s].seen : r \in Requests /\ runs'[r] = runs[r]
    BY DEF TypeOK, Deletions, Held
  <2>2. Deleting(s)
    BY DEF Fences
  <2>3. QED  BY <2>1, <2>2 DEF Deleting, UnderWay, Exists
<1>3. QED  BY <1>1, <1>2 DEF Fences

\* The run store writes no row that is held.
LEMMA StoreLeavesHeld ==
    ASSUME TypeOK, StoreNext, NEW r \in Requests, Held(r)
    PROVE  runs'[r] = runs[r]
<1>1. ASSUME NEW o \in Owners, NEW q \in Requests, NEW s \in Sessions, NEW h \in Hashes,
             Begin(o, q, s, h) \/ Replay(o, q, s, h)
      PROVE  runs'[r] = runs[r]
  <2>1. r # q /\ Kept(r) = runs[r]
    BY <1>1 DEF Begin, Replay, Selectable, Kept
  <2>2. CASE Begin(o, q, s, h)
    BY <2>1, <2>2 DEF Begin
  <2>3. CASE Replay(o, q, s, h)
    BY <2>1, <2>3 DEF Replay
  <2>4. QED  BY <1>1, <2>2, <2>3
<1>2. ASSUME NEW w \in writes, Land(w)
      PROVE  runs'[r] = runs[r]
    BY <1>2 DEF Land, TypeOK
<1>3. ASSUME NEW w \in writes, Refuse(w)
      PROVE  runs'[r] = runs[r]
    BY <1>3 DEF Refuse
<1>4. ASSUME NEW q \in Requests, Cancel(q)
      PROVE  runs'[r] = runs[r]
    BY <1>4 DEF Cancel, TypeOK
<1>5. ASSUME NEW q \in Requests, RetentionElapses(q)
      PROVE  runs'[r] = runs[r]
    BY <1>5 DEF RetentionElapses
<1>6. QED  BY <1>1, <1>2, <1>3, <1>4, <1>5 DEF StoreNext

\* Neither the run store nor a Turn takes part in a transaction of the business service.
LEMMA OthersTransactNot ==
    ASSUME StoreNext \/ \E o \in Owners : TurnNext(o)
    PROVE  UNCHANGED businessVars /\ posts \subseteq posts'
<1>1. ASSUME NEW o \in Owners, TurnNext(o)
      PROVE  UNCHANGED businessVars /\ posts \subseteq posts'
    BY <1>1 DEF TurnNext, LoadContext, LoadFails, Produce, Reuse, Submit, Save, Check,
                Finish, Abort, Crash
<1>2. ASSUME NEW o \in Owners, NEW r \in Requests, NEW s \in Sessions, NEW h \in Hashes,
             Begin(o, r, s, h) \/ Replay(o, r, s, h)
      PROVE  UNCHANGED businessVars /\ posts \subseteq posts'
    BY <1>2 DEF Begin, Replay
<1>3. ASSUME NEW w \in writes, Land(w) \/ Refuse(w)
      PROVE  UNCHANGED businessVars /\ posts \subseteq posts'
    BY <1>3 DEF Land, Refuse
<1>4. ASSUME NEW r \in Requests, Cancel(r) \/ RetentionElapses(r)
      PROVE  UNCHANGED businessVars /\ posts \subseteq posts'
    BY <1>4 DEF Cancel, RetentionElapses
<1>5. QED  BY <1>1, <1>2, <1>3, <1>4 DEF StoreNext

\* A change enters when no deletion has its run, and one leaves before the next enters.
LEMMA MutationFences ==
    ASSUME TypeOK, Assigned, InFlight, Fences, Kinship, NEW p \in posts,
           \/ Enter(p) \/ ReturnReceipt(p) \/ RejectStopped(p) \/ RejectConflict(p)
           \/ Commit(p) \/ RejectVersion(p)
    PROVE  Fences'
<1>1. CASE ReturnReceipt(p) \/ RejectStopped(p) \/ RejectConflict(p)
  <2>1. applying = {} /\ runs' = runs /\ UNCHANGED <<open, receipts, applying, deleting>>
    BY <1>1 DEF ReturnReceipt, RejectStopped, RejectConflict, Taken, businessVars, transactions
  <2>2. QED  BY <2>1, HeldRowsStay
<1>2. CASE Commit(p) \/ RejectVersion(p)
  <2>1. applying' = {} /\ UNCHANGED <<runs, open, deleting>>
    BY <1>2 DEF Commit, RejectVersion
  <2>2. QED  BY <2>1 DEF Fences, Deleting, UnderWay, Exists
<1>3. CASE Enter(p)
  <2> DEFINE r == attempts[p.owner].req
             s == attempts[p.owner].session
  <2>1. /\ applying' = {p} /\ UNCHANGED <<runs, open, receipts, attempts, posts, deleting>>
        /\ OwnedPost(p) /\ ReceiptFor(p) = {} /\ Live(r) /\ s \in open /\ ~Held(r)
    BY <1>3 DEF Enter, Taken, Required
  <2>2. s \in Sessions
    BY DEF TypeOK, Posts, InFlight, Assigned
  <2>3. r \notin deleting[s].seen
    <3>1. CASE UnderWay(s)
      BY <2>1, <2>2, <3>1 DEF Held
    <3>2. CASE ~UnderWay(s)
      BY <2>1, <2>2, <3>2 DEF Fences, Deleting
    <3>3. QED  BY <3>1, <3>2
  <2>4. Entered(p)'
    BY <2>1, <2>3 DEF Entered, OwnedPost, ReceiptFor, Live
  <2>5. \A z \in Sessions : Deleting(z)'
    BY <2>1 DEF Fences, Deleting, UnderWay, Exists
  <2>6. QED  BY <2>1, <2>4, <2>5 DEF Fences
<1>4. QED  BY <1>1, <1>2, <1>3

\* A deletion finds no run that a change holds, and stops only what it has found.
LEMMA DeletionFences ==
    ASSUME TypeOK, Assigned, InFlight, Fences, NEW s \in Sessions,
           DeleteRuns(s) \/ DeleteTrip(s) \/ CommitDelete(s)
    PROVE  Fences'
<1>1. ASSUME NEW p \in applying
      PROVE  /\ Entered(p) /\ attempts[p.owner].req \in Requests
             /\ attempts[p.owner].session \in Sessions
             /\ runs[attempts[p.owner].req].session = attempts[p.owner].session
    BY DEF Fences, Entered, OwnedPost, TypeOK, Posts, InFlight, Assigned
<1>2. CASE DeleteRuns(s)
  <2>1. /\ deleting' = [deleting EXCEPT ![s] = [pc |-> "runs", seen |-> RunsOf(s), gone |-> FALSE]]
        /\ UNCHANGED <<runs, open, receipts, applying, attempts, posts>>
        /\ s \in open /\ \A r \in RunsOf(s) : ~Held(r)
    BY <1>2 DEF DeleteRuns
  <2>2. /\ deleting'[s].seen = RunsOf(s) /\ deleting'[s].pc = "runs"
        /\ \A z \in Sessions \ {s} : deleting'[z] = deleting[z]
    BY <2>1 DEF TypeOK
  <2>3. ASSUME NEW p \in applying
        PROVE  Entered(p)'
    <3>1. attempts[p.owner].req \notin RunsOf(s)
      BY <1>1, <2>1, <2>3 DEF Held, HeldByMutation
    <3>2. QED  BY <1>1, <2>1, <2>2, <2>3, <3>1 DEF Entered, OwnedPost, ReceiptFor, Live
  <2>4. ASSUME NEW z \in Sessions
        PROVE  Deleting(z)'
    <3>1. CASE z = s
      BY <2>1, <2>2, <3>1 DEF Deleting, UnderWay, Exists, RunsOf
    <3>2. CASE z # s
      BY <2>1, <2>2, <3>2 DEF Fences, Deleting, UnderWay, Exists
    <3>3. QED  BY <3>1, <3>2
  <2>5. QED  BY <2>1, <2>3, <2>4 DEF Fences
<1>3. CASE DeleteTrip(s)
  <2>1. /\ deleting' = [deleting EXCEPT ![s].pc = "trip", ![s].gone = trips[s] # {}]
        /\ UNCHANGED <<runs, open, receipts, applying, attempts, posts>>
        /\ deleting[s].pc = "runs"
    BY <1>3 DEF DeleteTrip
  <2>2. /\ deleting'[s].seen = deleting[s].seen /\ deleting'[s].pc = "trip"
        /\ \A z \in Sessions \ {s} : deleting'[z] = deleting[z]
    BY <2>1 DEF TypeOK, Deletions
  <2>3. ASSUME NEW p \in applying
        PROVE  Entered(p)'
    <3>1. deleting'[attempts[p.owner].session].seen = deleting[attempts[p.owner].session].seen
      BY <1>1, <2>2, <2>3
    <3>2. QED  BY <1>1, <2>1, <2>3, <3>1 DEF Entered, OwnedPost, ReceiptFor, Live
  <2>4. \A z \in Sessions : Deleting(z)'
    BY <2>1, <2>2 DEF Fences, Deleting, UnderWay, Exists
  <2>5. QED  BY <2>1, <2>3, <2>4 DEF Fences
<1>4. CASE CommitDelete(s)
  <2>1. /\ deleting' = [deleting EXCEPT ![s].pc = "closed"] /\ open' = open \ {s}
        /\ \A r \in Requests : runs'[r] = IF r \in deleting[s].seen THEN StoppedRun(runs[r])
                                          ELSE runs[r]
        /\ UNCHANGED <<receipts, applying, attempts, posts>>
        /\ UnderWay(s)
    BY <1>4 DEF CommitDelete, UnderWay
  <2>2. /\ deleting'[s].seen = deleting[s].seen /\ deleting'[s].pc = "closed"
        /\ \A z \in Sessions \ {s} : deleting'[z] = deleting[z]
    BY <2>1 DEF TypeOK, Deletions
  <2>3. \A r \in Requests : runs[r].session # s => runs'[r] = runs[r]
    BY <2>1 DEF Fences, Deleting
  <2>4. ASSUME NEW p \in applying
        PROVE  Entered(p)'
    <3>1. runs'[attempts[p.owner].req] = runs[attempts[p.owner].req]
      BY <1>1, <2>1, <2>3, <2>4 DEF Entered
    <3>2. deleting'[attempts[p.owner].session].seen = deleting[attempts[p.owner].session].seen
      BY <1>1, <2>2, <2>4
    <3>3. QED  BY <1>1, <2>1, <2>4, <3>1, <3>2 DEF Entered, OwnedPost, ReceiptFor, Live
  <2>5. ASSUME NEW z \in Sessions
        PROVE  Deleting(z)'
    <3>1. CASE z = s
      BY <2>1, <2>2, <3>1 DEF Deleting, UnderWay
    <3>2. CASE z # s
      <4>1. Deleting(z) /\ deleting[z].seen \subseteq Requests
        BY DEF Fences, TypeOK, Deletions
      <4>2. QED  BY <2>1, <2>2, <2>3, <3>2, <4>1 DEF Deleting, UnderWay, Exists
    <3>3. QED  BY <3>1, <3>2
  <2>6. QED  BY <2>1, <2>4, <2>5 DEF Fences
<1>5. QED  BY <1>2, <1>3, <1>4

\* No step changes the request of an attempt that was begun.
LEMMA StepKinship ==
    ASSUME TypeOK, Assigned, InFlight, [Next]_vars
    PROVE  Kinship
<1>1. CASE Next
    BY <1>1, TurnAssigned, StoreAssigned, BusinessAssigned DEF Next
<1>2. CASE UNCHANGED vars
    BY <1>2 DEF vars, Kinship, Kin
<1>3. QED  BY <1>1, <1>2

LEMMA FencesStay ==
    ASSUME TypeOK, Assigned, InFlight, Fences, Next
    PROVE  Fences'
<1>1. Kinship
    BY StepKinship
<1>2. ASSUME NEW o \in Owners, TurnNext(o)
      PROVE  runs' = runs
    BY <1>2 DEF TurnNext, LoadContext, LoadFails, Produce, Reuse, Submit, Save, Check,
                Finish, Abort, Crash
<1>3. CASE StoreNext \/ \E o \in Owners : TurnNext(o)
  <2>1. UNCHANGED <<open, receipts, applying, deleting>> /\ applying \subseteq posts'
    BY <1>3, OthersTransactNot DEF businessVars, transactions, Fences, Entered
  <2>2. \A r \in Requests : Held(r) => runs'[r] = runs[r]
    BY <1>2, <1>3, StoreLeavesHeld
  <2>3. QED  BY <1>1, <2>1, <2>2, HeldRowsStay
<1>4. CASE BusinessNext
    BY <1>1, <1>4, MutationFences, DeletionFences DEF BusinessNext
<1>5. QED  BY <1>3, <1>4 DEF Next

-----------------------------------------------------------------------------
(* The inductive invariant. *)

LEMMA InitIInv == Init => IInv
<1> SUFFICES ASSUME Init PROVE IInv
    OBVIOUS
<1>1. TypeOK
    BY EmptyTypes DEF Init, TypeOK, Trips, NoDeletion, Deletions
<1>2. Assigned /\ InFlight /\ Ordered /\ OnlyNewestRuns
    BY DEF Init, Assigned, InFlight, Ordered, OnlyNewestRuns, Exists, Running, NoRow, NewAttempt
<1>3. Fences
    BY DEF Init, Fences, Deleting, UnderWay, NoDeletion
<1>4. QED  BY <1>1, <1>2, <1>3 DEF IInv

LEMMA StepIInv == IInv /\ [Next]_vars => IInv'
<1> SUFFICES ASSUME IInv, [Next]_vars PROVE IInv'
    OBVIOUS
<1> USE DEF IInv
<1>1. CASE UNCHANGED vars
  <2>1. TypeOK' /\ Assigned' /\ InFlight' /\ Ordered' /\ OnlyNewestRuns'
    BY <1>1 DEF vars, TypeOK, Assigned, InFlight, Ordered, OnlyNewestRuns, Exists, Running
  <2>2. Fences'
    BY <1>1 DEF vars, Fences, Entered, Deleting, UnderWay, Exists, OwnedPost, ReceiptFor, Live
  <2>3. QED  BY <2>1, <2>2
<1>2. CASE Next
  <2>1. TypeOK'
    BY <1>2, TurnType, StoreType, BusinessType DEF Next
  <2>2. Assigned' /\ InFlight'
    BY <1>2, TurnAssigned, StoreAssigned, BusinessAssigned DEF Next
  <2>3. Ordered' /\ OnlyNewestRuns'
    BY <1>2, BeginKeepsOrder, OthersShrink, ShrinkingKeepsOrder
  <2>4. Fences'
    BY <1>2, FencesStay
  <2>5. QED  BY <2>1, <2>2, <2>3, <2>4
<1>3. QED  BY <1>1, <1>2

\* The inductive invariant holds of every state: rows, attempts and what is in
\* flight stay well typed, and created_at orders the rows strictly.
THEOREM Invariance == Spec => []IInv
<1>1. QED  BY InitIInv, StepIInv, PTL DEF Spec

\* Rows, attempts, receipts and everything in flight keep their types.
THEOREM TypeCorrect == Spec => []TypeOK
<1>1. IInv => TypeOK
    BY DEF IInv
<1>2. QED  BY <1>1, Invariance, PTL

\* A session never has two running runs, and the running one is its newest.
THEOREM NewestRunsAlone == Spec => []OnlyNewestRuns
<1>1. IInv => OnlyNewestRuns
    BY DEF IInv
<1>2. QED  BY <1>1, Invariance, PTL

-----------------------------------------------------------------------------
(* What only MutationService changes. *)

\* The receipts and the trips change by a commit or a deletion only.
LEMMA WhoCommits ==
    ASSUME Next
    PROVE  \/ \E p \in posts : Commit(p)
           \/ receipts' = receipts /\ \E s \in Sessions : CommitDelete(s)
           \/ UNCHANGED <<open, trips, receipts>>
<1>1. CASE StoreNext \/ \E o \in Owners : TurnNext(o)
    BY <1>1, OthersTransactNot DEF businessVars
<1>2. CASE BusinessNext
    BY <1>2 DEF BusinessNext, Enter, ReturnReceipt, RejectStopped, RejectConflict, RejectVersion,
                DeleteRuns, DeleteTrip, CommitDelete, businessVars
<1>3. QED  BY <1>1, <1>2 DEF Next

\* A request commits each operation at most once, whatever is retried, resent
\* or begun again.
THEOREM ReceiptsAreUnique == Spec => []OneReceipt
<1>1. Init => OneReceipt
    BY DEF Init, OneReceipt
<1>2. IInv /\ OneReceipt /\ [Next]_vars => OneReceipt'
  <2> SUFFICES ASSUME IInv, OneReceipt, [Next]_vars PROVE OneReceipt'
    OBVIOUS
  <2>1. CASE receipts' = receipts
    BY <2>1 DEF OneReceipt
  <2>2. ASSUME NEW p \in posts, Commit(p)
        PROVE  OneReceipt'
    <3> DEFINE e == [req |-> attempts[p.owner].req, op |-> p.op, expected |-> p.expected,
                     version |-> Effect(p.op, trips[attempts[p.owner].session]),
                     created |-> clock + 1]
    <3>1. receipts' = receipts \union {e}
      BY <2>2 DEF Commit
    <3>2. \A d \in receipts : ~(d.req = e.req /\ d.op = e.op)
      BY <2>2 DEF Commit, IInv, Fences, Entered, ReceiptFor
    <3> HIDE DEF e
    <3>3. QED  BY <3>1, <3>2 DEF OneReceipt
  <2>3. QED  BY <2>1, <2>2, WhoCommits DEF vars
<1>3. QED  BY <1>1, <1>2, Invariance, PTL DEF Spec

\* What commits is committed for the newest request of its session, which is neither
\* superseded nor cancelled nor found by a deletion, whatever came between the fence
\* of a change and its write (MutationService.apply, SessionRepository.delete).
THEOREM OnlyNewestCommits == Spec => NewestCommits
<1> DEFINE Good == \A e \in receipts' \ receipts :
        LET s == runs[e.req].session IN
        /\ ~runs[e.req].cancelled
        /\ e.req \notin deleting[s].seen
        /\ \A q \in Requests : Exists(q) /\ runs[q].session = s
                                => runs[q].born <= runs[e.req].born
<1>1. IInv /\ [Next]_vars => Good
  <2> SUFFICES ASSUME IInv, [Next]_vars PROVE Good
    OBVIOUS
  <2>1. CASE receipts' = receipts
    BY <2>1
  <2>2. ASSUME NEW p \in posts, Commit(p)
        PROVE  Good
    <3> DEFINE r == attempts[p.owner].req
    <3>1. r \in Requests
      BY DEF IInv, TypeOK, Posts, Assigned, InFlight
    <3>2. Entered(p)
      BY <2>2 DEF Commit, IInv, Fences
    <3>3. Running(r) /\ ~runs[r].cancelled /\ r \notin deleting[runs[r].session].seen
      BY <3>2 DEF Entered, Live, Running, OwnedPost
    <3>4. \A q \in Requests : Exists(q) /\ runs[q].session = runs[r].session
                                => runs[q].born <= runs[r].born
      BY <3>1, <3>3 DEF IInv, OnlyNewestRuns, TypeOK, Rows
    <3>5. \A e \in receipts' \ receipts : e.req = r
      BY <2>2 DEF Commit
    <3>6. QED  BY <3>3, <3>4, <3>5
  <2>3. QED  BY <2>1, <2>2, WhoCommits DEF vars
<1>2. QED  BY <1>1, Invariance, PTL DEF Spec, NewestCommits

\* A completed row keeps its status and its answer, or it is deleted or replaced by
\* a younger one.
LEMMA CompletedRow ==
    ASSUME IInv, [Next]_vars, NEW r \in Requests, runs[r].status = "completed"
    PROVE  \/ runs'[r].status = "completed" /\ runs'[r].checkpoint = runs[r].checkpoint
           \/ runs'[r].born # runs[r].born
<1>1. TypeOK /\ Assigned /\ InFlight /\ runs[r] \in Rows
    BY DEF IInv, TypeOK
<1>2. runs[r].born \in 1..clock /\ clock \in Nat
    BY DEF IInv, Ordered, TypeOK, Exists
<1>3. CASE runs' = runs
    BY <1>3
<1>4. ASSUME NEW o \in Owners, NEW q \in Requests, NEW s \in Sessions, NEW h \in Hashes,
             Begin(o, q, s, h) \/ Replay(o, q, s, h)
      PROVE  \/ runs'[r].status = "completed" /\ runs'[r].checkpoint = runs[r].checkpoint
             \/ runs'[r].born # runs[r].born
  <2>1. Kept(r) \in {runs[r], NoRow} /\ NoRow.status = "absent" /\ NoRow.born = 0
    BY DEF Kept, NoRow
  <2>2. CASE Replay(o, q, s, h)
    BY <1>2, <2>1, <2>2 DEF Replay
  <2>3. CASE Begin(o, q, s, h) /\ q # r
    <3>1. runs'[r] = Kept(r)
          \/ (Kept(r).status = "running" /\ runs'[r] = Interrupted(Kept(r)))
      BY <2>3 DEF Begin
    <3>2. runs'[r] = Kept(r)
      BY <2>1, <3>1
    <3>3. QED  BY <1>2, <2>1, <3>2
  <2>4. CASE Begin(o, q, s, h) /\ q = r
    <3>1. Kept(r) = NoRow /\ Selected(q, s, h, o) = Inserted(q, s, h, o)
      BY <2>1, <2>4 DEF Begin, Selected
    <3>2. Inserted(q, s, h, o) \in Rows /\ Inserted(q, s, h, o).born = clock + 1
      BY <1>1, RowTypes DEF Inserted, NoRow
    <3>3. runs'[r] = [Selected(q, s, h, o) EXCEPT !.owner = o, !.status = "running",
                                                  !.cancelled = FALSE]
      BY <2>4 DEF Begin
    <3>4. runs'[r].born = clock + 1
      BY <3>1, <3>2, <3>3 DEF Rows
    <3>5. QED  BY <1>2, <3>4
  <2>5. QED  BY <1>4, <2>2, <2>3, <2>4
<1>5. ASSUME NEW w \in writes, Land(w)
      PROVE  runs'[r] = runs[r]
  <2>1. runs[attempts[w.owner].req].status = "running"
    BY <1>5 DEF Land, Accepted, Owned
  <2>2. QED  BY <1>1, <1>5, <2>1 DEF Land, TypeOK
<1>6. ASSUME NEW q \in Requests, Cancel(q)
      PROVE  runs'[r] = runs[r]
    BY <1>1, <1>6 DEF Cancel, TypeOK
<1>7. ASSUME NEW s \in Sessions, CommitDelete(s)
      PROVE  runs'[r].status = "completed" /\ runs'[r].checkpoint = runs[r].checkpoint
    BY <1>1, <1>7 DEF CommitDelete, StoppedRun, Rows
<1>8. ASSUME NEW o \in Owners, TurnNext(o)
      PROVE  runs' = runs
    BY <1>8 DEF TurnNext, LoadContext, LoadFails, Produce, Reuse, Submit, Save, Check,
                Finish, Abort, Crash
<1>9. ASSUME BusinessNext, runs' # runs
      PROVE  \E s \in Sessions : CommitDelete(s)
    BY <1>9 DEF BusinessNext, Enter, Commit, ReturnReceipt, RejectStopped, RejectConflict,
                RejectVersion, DeleteRuns, DeleteTrip
<1>10. ASSUME StoreNext, runs' # runs
       PROVE  \/ \E o \in Owners, q \in Requests, s \in Sessions, h \in Hashes :
                    Begin(o, q, s, h) \/ Replay(o, q, s, h)
              \/ \E w \in writes : Land(w)
              \/ \E q \in Requests : Cancel(q)
    BY <1>10 DEF StoreNext, Refuse, RetentionElapses
<1>11. QED
    BY <1>3, <1>4, <1>5, <1>6, <1>7, <1>8, <1>9, <1>10 DEF Next, vars

\* A run that completed keeps its answer, and no late POST of its attempts
\* commits for it.
THEOREM AnswersAreFinal == Spec => CompletedIsFinal
<1> DEFINE Final == \A r \in Requests :
        runs[r].status = "completed" /\ runs'[r].born = runs[r].born =>
            /\ runs'[r].status = "completed"
            /\ runs'[r].checkpoint = runs[r].checkpoint
            /\ {e \in receipts' : e.req = r} = {e \in receipts : e.req = r}
<1>1. IInv /\ [Next]_vars => Final
  <2> SUFFICES ASSUME IInv, [Next]_vars, NEW r \in Requests, runs[r].status = "completed"
               PROVE  {e \in receipts' : e.req = r} = {e \in receipts : e.req = r}
      BY CompletedRow
  <2>1. CASE receipts' = receipts
    BY <2>1
  <2>2. ASSUME NEW p \in posts, Commit(p)
        PROVE  {e \in receipts' : e.req = r} = {e \in receipts : e.req = r}
    <3> DEFINE new == [req |-> attempts[p.owner].req, op |-> p.op, expected |-> p.expected,
                       version |-> Effect(p.op, trips[attempts[p.owner].session]),
                       created |-> clock + 1]
    <3>1. receipts' = receipts \union {new} /\ new.req # r
      BY <2>2 DEF Commit, IInv, Fences, Entered, Live
    <3> HIDE DEF new
    <3>2. QED  BY <3>1
  <2>3. QED  BY <2>1, <2>2, WhoCommits DEF vars
<1>2. QED  BY <1>1, Invariance, PTL DEF Spec, CompletedIsFinal

\* Running runs and receipts are as they should be, of any number of requests.
THEOREM RunsStaySound == Spec => []RunsAreSound
  BY NewestRunsAlone, ReceiptsAreUnique, PTL DEF RunsAreSound

-----------------------------------------------------------------------------
(***************************************************************************)
(* What attempts and checkpoints may claim of the business tables, what    *)
(* clients are answered, and that RunFence implements TripLedger, for      *)
(* every number of sessions, requests, attempts and operations.  A         *)
(* snapshot, the state of a Turn, is held by attempts, by rows and by      *)
(* writes on their way; all three are alike to the invariant, which        *)
(* follows where a snapshot comes from.                                    *)
(***************************************************************************)
(* Where snapshots come from. *)

Stored(c) ==
    \/ \E r \in Requests : runs[r].checkpoint = c
    \/ \E o \in Owners : attempts[o].state = c
    \/ \E w \in writes : w.snapshot = c

\* A state that claims nothing.
Blank(c) == c.made = {} /\ c.applied = {} /\ c.version = {}

\* A fact some transaction put into a trip.
Known(f) == \E e \in receipts : Fact[e.op] = f /\ Kind[e.op] \in {"update", "new"}

\* The state of a specialist's result; birth is the version it is based on.
Produced(o, x) ==
    [attempts[o].state EXCEPT !.made = @ \union {x}, !.base[x] = attempts[o].state.version]

\* A snapshot that is new after a step.
Comes(c) ==
    \/ Blank(c)
    \/ \E s \in Sessions, d \in Snapshots :
            /\ Stored(d) \/ Blank(d)
            /\ c.version = trips[s] /\ c.made = d.made /\ c.base = d.base
            /\ c.applied = d.applied
    \/ \E o \in Owners, x \in Ops : Produce(o, x) /\ c = Produced(o, x)
    \/ \E d \in Snapshots, x \in Ops :
            /\ Stored(d) /\ Kind[x] = "update" /\ Fact[x] \in d.version
            /\ c = [d EXCEPT !.applied = @ \union {x}]
    \/ \E d \in Snapshots, e \in receipts' : Stored(d) /\ c = WithReceipt(d, e.op, e.version)

\* A specialist's result, once made, is based on one version for good: that of its
\* birth.  What is applied was committed, and every fact that a state has was.
Sound(c, birth) ==
    /\ c.made \subseteq used
    /\ \A x \in c.made \ c.applied : c.base[x] = birth[x]
    /\ \A x \in c.applied : Committed(x)
    /\ \A f \in c.version : Known(f)

\* The same of all snapshots, posts, receipts and trips.
SoundSince(birth) ==
    /\ \A c \in Snapshots : Stored(c) => Sound(c, birth)
    /\ \A p \in posts : p.op \in used /\ p.expected = birth[p.op]
    /\ \A e \in receipts : /\ e.op \in used /\ e.expected = birth[e.op]
                           /\ \A f \in e.version : Known(f)
    /\ \A s \in Sessions : \A f \in trips[s] : Known(f)

ClaimsSound == \E birth \in [Ops -> Trips] : SoundSince(birth)

\* What is durable was made, and a save that lands has not more than its attempt.
Durables ==
    /\ \A o \in Owners : /\ attempts[o].durable \subseteq attempts[o].state.made
                         /\ attempts[o].pc = "begun" => attempts[o].durable = {}
    /\ \A w \in writes :
        /\ attempts[w.owner].pc \notin {"new", "begun"}
        /\ w.status = "running" /\ attempts[w.owner].pc = "working"
             => w.snapshot.made \subseteq attempts[w.owner].state.made

-----------------------------------------------------------------------------
(* What clients are answered. *)

\* The owner of a row has its request, and knows when it was inserted.
OwnersKnow == \A r \in Requests : runs[r].owner # None =>
    LET a == attempts[runs[r].owner] IN a.pc # "new" /\ a.req = r /\ a.born = runs[r].born

\* The answer on its way is that of its attempt.
Finals == \A w \in writes : w.status = "completed" =>
    /\ attempts[w.owner].pc \in {"finishing", "stopping", "gone", "answered"}
    /\ attempts[w.owner].pc = "finishing" => w.snapshot = attempts[w.owner].state

\* An answer stands in its row as long as the row does.
Stands == \A o \in Owners : attempts[o].pc = "answered" =>
    LET a == attempts[o] IN
    /\ a.born <= clock
    /\ Exists(a.req) /\ runs[a.req].born = a.born =>
         runs[a.req].status = "completed" /\ runs[a.req].checkpoint = a.state

AnswersSound == OwnersKnow /\ Finals /\ Stands /\ OneAnswer

-----------------------------------------------------------------------------
(* The origin of snapshots. *)

LEMMA BlankSnapshots ==
    /\ Blank(EmptySnapshot)
    /\ Blank([EmptySnapshot EXCEPT !.form = "plan_only"])
    /\ NoRow.checkpoint = EmptySnapshot
    /\ NewAttempt.state = EmptySnapshot
BY DEF Blank, EmptySnapshot, NoRow, NewAttempt

\* What is held is a snapshot.
LEMMA StoredType ==
    ASSUME TypeOK, NEW c, Stored(c)
    PROVE  c \in Snapshots
BY DEF Stored, TypeOK, Rows, Attempts, Writes

\* An attempt that stops forgets its state and saves it.
LEMMA StoppingSnapshots ==
    ASSUME TypeOK, NEW o \in Owners, Stopping(o), runs' = runs, NEW c, Stored(c)'
    PROVE  Stored(c) \/ Blank(c)
<1>1. attempts'[o].state = EmptySnapshot /\ \A n \in Owners \ {o} : attempts'[n] = attempts[n]
  BY DEF Stopping, TypeOK, Attempts, Forgotten, NewAttempt
<1>2. \A w \in writes' : w \in writes \/ Stored(w.snapshot) \/ Blank(w.snapshot)
  <2>1. writes' = writes \union {StopWriteOf(o)}  BY DEF Stopping
  <2>2. Stored(attempts[o].state)  BY DEF Stored
  <2>3. Stored(StopWriteOf(o).snapshot) \/ Blank(StopWriteOf(o).snapshot)
    BY <2>2, BlankSnapshots DEF StopWriteOf
  <2>4. QED  BY <2>1, <2>3
<1>3. QED  BY <1>1, <1>2, BlankSnapshots DEF Stored

\* An attempt that moves to a state and saves that state or nothing.
LEMMA MovingSnapshots ==
    ASSUME TypeOK, NEW o \in Owners, NEW st,
           runs' = runs, attempts'[o].state = st, \A n \in Owners \ {o} : attempts'[n] = attempts[n],
           \A w \in writes' : w \in writes \/ w.snapshot = st,
           Stored(st) \/ Comes(st), NEW c, Stored(c)'
    PROVE  Stored(c) \/ Comes(c)
<1>1. CASE \E r \in Requests : runs'[r].checkpoint = c  BY <1>1 DEF Stored
<1>2. CASE \E n \in Owners : attempts'[n].state = c  BY <1>2 DEF Stored
<1>3. CASE \E w \in writes' : w.snapshot = c  BY <1>3 DEF Stored
<1>4. QED  BY <1>1, <1>2, <1>3 DEF Stored

\* The state of a fresh request is built from the trip and a row.
LEMMA FreshComes ==
    ASSUME TypeOK, NEW r \in Requests, NEW s \in Sessions
    PROVE  Comes(FreshState(r, s))
<1> DEFINE before == {runs[q].checkpoint : q \in Previous(r, s)}
           choices == IF before = {} THEN {EmptySnapshot} ELSE before
           old == CHOOSE d \in choices : TRUE
<1>1. choices # {} /\ \A d \in choices : d \in Snapshots /\ (Stored(d) \/ Blank(d))
  <2>1. \A q \in Requests : runs[q].checkpoint \in Snapshots /\ Stored(runs[q].checkpoint)
    BY DEF TypeOK, Rows, Stored
  <2>2. Previous(r, s) \subseteq Requests  BY DEF Previous
  <2>3. QED  BY <2>1, <2>2, BlankSnapshots, EmptyTypes
<1>2. old \in Snapshots /\ (Stored(old) \/ Blank(old))  BY <1>1
<1> HIDE DEF old
<1>3. FreshState(r, s) = [form |-> "full", version |-> trips[s], made |-> old.made,
                          base |-> old.base, applied |-> old.applied]
  BY DEF FreshState, old, choices, before
<1>4. QED  BY <1>2, <1>3 DEF Comes

LEMMA TurnSnapshots ==
    ASSUME TypeOK, Assigned, NEW o \in Owners, TurnNext(o), NEW c, Stored(c)'
    PROVE  Stored(c) \/ Comes(c)
<1>1. attempts[o] \in Attempts /\ attempts[o].state \in Snapshots /\ Stored(attempts[o].state)
        /\ attempts \in [Owners -> Attempts]
  BY DEF TypeOK, Attempts, Stored
<1>2. CASE LoadContext(o)
  <2>1. PICK st \in {IF attempts[o].state.form = "empty"
                     THEN FreshState(attempts[o].req, attempts[o].session) ELSE attempts[o].state} :
        /\ attempts' = [attempts EXCEPT ![o].pc = "working", ![o].state = st]
        /\ writes' = writes \union {[owner |-> o, status |-> "running", snapshot |-> st]}
    BY <1>2 DEF LoadContext
  <2>2. attempts[o].req \in Requests /\ attempts[o].session \in Sessions
    BY <1>2 DEF LoadContext, Assigned
  <2>3. Stored(st) \/ Comes(st)  BY <1>1, <2>1, <2>2, FreshComes
  <2>4. attempts'[o].state = st /\ \A n \in Owners \ {o} : attempts'[n] = attempts[n]
    BY <1>1, <2>1 DEF Attempts
  <2>5. runs' = runs /\ \A w \in writes' : w \in writes \/ w.snapshot = st
    BY <1>2, <2>1 DEF LoadContext
  <2>6. QED  BY <2>3, <2>4, <2>5, MovingSnapshots
<1>3. ASSUME NEW x \in Ops, Produce(o, x) PROVE Stored(c) \/ Comes(c)
  <2>1. attempts' = [attempts EXCEPT ![o].state = Produced(o, x)]
          /\ writes' = writes \union {[owner |-> o, status |-> "running", snapshot |-> Produced(o, x)]}
          /\ runs' = runs
    BY <1>3 DEF Produce, Produced
  <2>2. Comes(Produced(o, x))  BY <1>3 DEF Comes
  <2>3. attempts'[o].state = Produced(o, x)
          /\ \A n \in Owners \ {o} : attempts'[n] = attempts[n]
    BY <1>1, <2>1 DEF Attempts
  <2>4. \A w \in writes' : w \in writes \/ w.snapshot = Produced(o, x)  BY <2>1
  <2>5. QED  BY <2>1, <2>2, <2>3, <2>4, MovingSnapshots
<1>4. ASSUME NEW x \in Ops, Reuse(o, x) PROVE Stored(c) \/ Comes(c)
  <2> DEFINE st == [attempts[o].state EXCEPT !.applied = @ \union {x}]
  <2>1. attempts'[o].state = st /\ (\A n \in Owners \ {o} : attempts'[n] = attempts[n])
          /\ runs' = runs /\ writes' = writes
    BY <1>1, <1>4 DEF Reuse, Attempts, Snapshots
  <2>2. Comes(st)
    <3>1. Kind[x] = "update" /\ Fact[x] \in attempts[o].state.version  BY <1>4 DEF Reuse
    <3>2. QED  BY <1>1, <3>1 DEF Comes
  <2> HIDE DEF st
  <2>3. QED  BY <2>1, <2>2, MovingSnapshots
<1>5. ASSUME NEW x \in Ops, Submit(o, x) PROVE Stored(c)
  <2>1. \A n \in Owners : attempts'[n].state = attempts[n].state  BY <1>1, <1>5 DEF Submit, Attempts
  <2>2. QED  BY <1>5, <2>1 DEF Submit, Stored
<1>6. CASE Save(o) \/ Finish(o)
  <2>1. \A n \in Owners : attempts'[n].state = attempts[n].state
    BY <1>1, <1>6 DEF Save, Finish, Attempts
  <2>2. \A w \in writes' : w \in writes \/ w.snapshot = attempts[o].state
    BY <1>6 DEF Save, Finish, WriteOf
  <2>3. runs' = runs  BY <1>6 DEF Save, Finish
  <2>4. QED  BY <2>1, <2>2, <2>3 DEF Stored
<1>7. CASE Crash(o)
  <2>1. attempts'[o].state = EmptySnapshot /\ \A n \in Owners \ {o} : attempts'[n] = attempts[n]
    BY <1>1, <1>7 DEF Crash, Attempts, Forgotten, NewAttempt
  <2>2. runs' = runs /\ writes' = writes  BY <1>7 DEF Crash
  <2>3. QED  BY <2>1, <2>2, BlankSnapshots DEF Stored, Comes
<1>8. CASE LoadFails(o) \/ Check(o) \/ Abort(o)
  <2>1. Stopping(o) /\ runs' = runs  BY <1>8 DEF LoadFails, Check, Abort
  <2>2. QED  BY <2>1, StoppingSnapshots DEF Comes
<1>9. QED  BY <1>2, <1>3, <1>4, <1>5, <1>6, <1>7, <1>8 DEF TurnNext

LEMMA StoreSnapshots ==
    ASSUME TypeOK, Assigned, InFlight, StoreNext, NEW c, Stored(c)'
    PROVE  Stored(c) \/ Comes(c)
<1>1. runs \in [Requests -> Rows] /\ attempts \in [Owners -> Attempts]  BY DEF TypeOK
<1>2. \A q \in Requests : Stored(Kept(q).checkpoint) \/ Blank(Kept(q).checkpoint)
  BY BlankSnapshots DEF Kept, Stored
<1>3. ASSUME NEW o \in Owners, NEW r \in Requests, NEW s \in Sessions, NEW h \in Hashes,
             Begin(o, r, s, h) \/ Replay(o, r, s, h)
      PROVE  Stored(c) \/ Blank(c)
  <2> DEFINE row == Selected(r, s, h, o)
  <2>1. \A q \in Requests : Kept(q) \in Rows  BY RowTypes, <1>3
  <2>2. row \in Rows /\ (Stored(row.checkpoint) \/ Blank(row.checkpoint))
    <3>1. Inserted(r, s, h, o).checkpoint = EmptySnapshot  BY DEF Inserted, NoRow
    <3>2. QED  BY <1>2, <3>1, RowTypes, BlankSnapshots DEF Selected
  <2>3. \A q \in Requests : runs'[q].checkpoint \in {Kept(q).checkpoint, row.checkpoint}
    <3>1. CASE Begin(o, r, s, h)
      <4>1. \A q \in Requests : Interrupted(Kept(q)).checkpoint = Kept(q).checkpoint
        BY <2>1 DEF Interrupted, Rows
      <4>2. [row EXCEPT !.owner = o, !.status = "running", !.cancelled = FALSE].checkpoint
              = row.checkpoint
        BY <2>2 DEF Rows
      <4>3. \A q \in Requests : runs'[q] \in
              {[row EXCEPT !.owner = o, !.status = "running", !.cancelled = FALSE],
               Interrupted(Kept(q)), Kept(q)}
        BY <3>1 DEF Begin
      <4> HIDE DEF row
      <4>4. QED  BY <4>1, <4>2, <4>3
    <3>2. CASE Replay(o, r, s, h)  BY <3>2 DEF Replay
    <3>3. QED  BY <1>3, <3>1, <3>2
  <2>4. /\ attempts'[o].state \in {row.checkpoint, Kept(r).checkpoint}
        /\ \A n \in Owners \ {o} : attempts'[n] = attempts[n]
    <3>1. \E pc \in {"begun", "answered"} : \E b : \E st \in {row.checkpoint, Kept(r).checkpoint} :
            attempts' = [attempts EXCEPT ![o] =
              [NewAttempt EXCEPT !.pc = pc, !.req = r, !.session = s, !.born = b, !.state = st]]
      BY <1>3 DEF Begin, Replay
    <3>2. QED  BY <1>1, <3>1 DEF NewAttempt
  <2>5. writes' = writes  BY <1>3 DEF Begin, Replay
  <2> HIDE DEF row
  <2>6. QED  BY <1>2, <2>2, <2>3, <2>4, <2>5 DEF Stored
<1>4. ASSUME NEW w \in writes, Land(w) PROVE Stored(c) \/ Blank(c)
  <2>1. w.owner \in Owners /\ attempts[w.owner].req \in Requests /\ attempts[w.owner] \in Attempts
    BY DEF TypeOK, Writes, InFlight, Assigned
  <2>2. \A q \in Requests : runs'[q].checkpoint \in {runs[q].checkpoint, w.snapshot}
    BY <1>1, <1>4, <2>1 DEF Land, Rows
  <2>3. \A n \in Owners : attempts'[n].state \in {attempts[n].state, EmptySnapshot}
    <3>1. \/ attempts' = [attempts EXCEPT ![w.owner].durable = @ \union w.snapshot.made]
          \/ attempts' = [attempts EXCEPT ![w.owner].pc = "answered"]
          \/ attempts' = [attempts EXCEPT ![w.owner] = Forgotten(@, "gone")]
          \/ attempts' = attempts
      BY <1>4 DEF Land
    <3>2. Forgotten(attempts[w.owner], "gone").state = EmptySnapshot
      BY DEF Forgotten, NewAttempt
    <3>3. QED  BY <1>1, <2>1, <3>1, <3>2 DEF Attempts
  <2>4. writes' = writes \ {w}  BY <1>4 DEF Land
  <2>5. QED  BY <2>2, <2>3, <2>4, BlankSnapshots DEF Stored
<1>5. ASSUME NEW w \in writes, Refuse(w) PROVE Stored(c) \/ Blank(c)
  <2>1. w.owner \in Owners /\ attempts[w.owner] \in Attempts  BY DEF TypeOK, Writes
  <2>2. runs' = runs  BY <1>5 DEF Refuse
  <2>3. \A n \in Owners : attempts'[n].state \in {attempts[n].state, EmptySnapshot}
    BY <1>1, <1>5, <2>1 DEF Refuse, RefuseSave, RefuseStop, Forgotten, NewAttempt
  <2>4. writes' \subseteq writes \union {StopWriteOf(w.owner)}
    BY <1>5 DEF Refuse, RefuseSave, RefuseStop
  <2>5. Stored(StopWriteOf(w.owner).snapshot) \/ Blank(StopWriteOf(w.owner).snapshot)
    <3>1. Stored(attempts[w.owner].state)  BY <2>1 DEF Stored
    <3>2. QED  BY <3>1, BlankSnapshots DEF StopWriteOf
  <2>6. QED  BY <2>2, <2>3, <2>4, <2>5, BlankSnapshots DEF Stored
<1>6. ASSUME NEW r \in Requests, Cancel(r) \/ RetentionElapses(r) PROVE Stored(c)
  <2>1. \A q \in Requests : runs'[q].checkpoint = runs[q].checkpoint
    BY <1>1, <1>6 DEF Cancel, RetentionElapses, Rows
  <2>2. attempts' = attempts /\ writes' = writes  BY <1>6 DEF Cancel, RetentionElapses
  <2>3. QED  BY <2>1, <2>2 DEF Stored
<1>7. QED  BY <1>3, <1>4, <1>5, <1>6 DEF StoreNext, Comes

LEMMA BusinessSnapshots ==
    ASSUME TypeOK, Assigned, InFlight, BusinessNext, NEW c, Stored(c)'
    PROVE  Stored(c) \/ Comes(c)
<1>1. runs \in [Requests -> Rows] /\ attempts \in [Owners -> Attempts]  BY DEF TypeOK
<1>2. ASSUME NEW p \in posts, NEW e \in receipts', e.op = p.op, Hear(p, e.version),
             runs' = runs, writes' = writes
      PROVE  Stored(c) \/ Comes(c)
  <2>1. p.owner \in Owners /\ attempts[p.owner] \in Attempts  BY DEF TypeOK, Posts
  <2>2. attempts'[p.owner].state = WithReceipt(attempts[p.owner].state, p.op, e.version)
          /\ \A n \in Owners \ {p.owner} : attempts'[n] = attempts[n]
    BY <1>1, <1>2, <2>1 DEF Hear, Attempts
  <2>3. Stored(attempts[p.owner].state) /\ attempts[p.owner].state \in Snapshots
    BY <2>1 DEF Stored, Attempts
  <2>4. Comes(WithReceipt(attempts[p.owner].state, p.op, e.version))
    BY <1>2, <2>3 DEF Comes
  <2>5. QED  BY <1>2, <2>1, <2>2, <2>4, MovingSnapshots
<1>3. ASSUME NEW p \in posts, Commit(p) PROVE Stored(c) \/ Comes(c)
  <2> DEFINE after == Effect(p.op, trips[attempts[p.owner].session])
             e == [req |-> attempts[p.owner].req, op |-> p.op, expected |-> p.expected,
                   version |-> after, created |-> clock + 1]
  <2>1. e \in receipts' /\ e.op = p.op /\ e.version = after /\ runs' = runs /\ writes' = writes
    BY <1>3 DEF Commit
  <2>2. Hear(p, after) \/ attempts' = attempts  BY <1>3 DEF Commit
  <2> HIDE DEF e, after
  <2>3. QED  BY <1>2, <2>1, <2>2 DEF Stored
<1>4. ASSUME NEW p \in posts, ReturnReceipt(p) PROVE Stored(c) \/ Comes(c)
  <2>1. PICK e \in receipts : e.op = p.op /\ Hear(p, e.version)
    BY <1>4 DEF ReturnReceipt, ReceiptFor
  <2>2. receipts' = receipts /\ runs' = runs /\ writes' = writes
    BY <1>4 DEF ReturnReceipt, businessVars
  <2>3. QED  BY <1>2, <2>1, <2>2
<1>5. ASSUME NEW p \in posts, RejectStopped(p) PROVE Stored(c) \/ Comes(c)
  <2>1. p.owner \in Owners  BY DEF TypeOK, Posts
  <2>2. Stopping(p.owner) /\ runs' = runs  BY <1>5 DEF RejectStopped
  <2>3. QED  BY <2>1, <2>2, StoppingSnapshots DEF Comes
<1>6. ASSUME NEW p \in posts, RejectConflict(p) \/ RejectVersion(p) PROVE Stored(c)
  <2>1. p.owner \in Owners  BY DEF TypeOK, Posts
  <2>2. \A n \in Owners : attempts'[n].state = attempts[n].state
    BY <1>1, <1>6, <2>1 DEF RejectConflict, RejectVersion, Unheard, Attempts
  <2>3. QED  BY <1>6, <2>2 DEF RejectConflict, RejectVersion, Stored
<1>7. ASSUME NEW s \in Sessions, CommitDelete(s) PROVE Stored(c)
  <2>1. \A q \in Requests : runs'[q].checkpoint = runs[q].checkpoint
    BY <1>1, <1>7 DEF CommitDelete, StoppedRun, Rows
  <2>2. QED  BY <1>7, <2>1 DEF CommitDelete, Stored
<1>8. ASSUME UNCHANGED <<runs, attempts, writes>> PROVE Stored(c)  BY <1>8 DEF Stored
<1>9. QED
  BY <1>3, <1>4, <1>5, <1>6, <1>7, <1>8 DEF BusinessNext, Enter, DeleteRuns, DeleteTrip

-----------------------------------------------------------------------------
(* What is durable was made. *)

\* An attempt o moves, and sends only what it made.
LEMMA MovingDurables ==
    ASSUME TypeOK, Durables, NEW o \in Owners,
           \A n \in Owners \ {o} : attempts'[n] = attempts[n],
           attempts'[o].pc \notin {"new", "begun"},
           attempts'[o].durable \subseteq attempts'[o].state.made,
           attempts'[o].pc = "working" =>
                \/ attempts[o].pc = "begun"
                \/ attempts[o].pc = "working" /\ attempts[o].state.made \subseteq attempts'[o].state.made,
           \A w \in writes' : w \in writes \/
                (w.owner = o /\ (w.status = "running" /\ attempts'[o].pc = "working"
                                    => w.snapshot.made \subseteq attempts'[o].state.made))
    PROVE  Durables'
<1>1. \A w \in writes : w.owner \in Owners  BY DEF TypeOK, Writes
<1>2. \A n \in Owners : /\ attempts'[n].durable \subseteq attempts'[n].state.made
                        /\ attempts'[n].pc = "begun" => attempts'[n].durable = {}
  BY DEF Durables
<1>3. \A w \in writes' : attempts'[w.owner].pc \notin {"new", "begun"}  BY <1>1 DEF Durables
<1>4. ASSUME NEW w \in writes', w.status = "running", attempts'[w.owner].pc = "working"
      PROVE  w.snapshot.made \subseteq attempts'[w.owner].state.made
  BY <1>1, <1>4 DEF Durables
<1>5. QED  BY <1>2, <1>3, <1>4 DEF Durables

LEMMA StoppingDurables ==
    ASSUME TypeOK, Durables, NEW o \in Owners, Stopping(o)
    PROVE  Durables'
<1>1. /\ attempts'[o].pc = "stopping" /\ attempts'[o].durable = {}
      /\ \A n \in Owners \ {o} : attempts'[n] = attempts[n]
  BY DEF Stopping, TypeOK, Attempts, Forgotten, NewAttempt
<1>2. \A w \in writes' : w \in writes \/ (w.owner = o /\ w.status = "stopped")
  BY DEF Stopping, StopWriteOf
<1>3. QED  BY <1>1, <1>2, MovingDurables

LEMMA TurnDurables ==
    ASSUME TypeOK, Assigned, Durables, NEW o \in Owners, TurnNext(o)
    PROVE  Durables'
<1>1. attempts[o] \in Attempts /\ attempts[o].state \in Snapshots
        /\ attempts \in [Owners -> Attempts] /\ attempts[o].durable \subseteq attempts[o].state.made
  BY DEF TypeOK, Attempts, Durables
<1>2. CASE LoadContext(o)
  <2>1. PICK st \in {IF attempts[o].state.form = "empty"
                     THEN FreshState(attempts[o].req, attempts[o].session) ELSE attempts[o].state} :
        /\ attempts' = [attempts EXCEPT ![o].pc = "working", ![o].state = st]
        /\ writes' = writes \union {[owner |-> o, status |-> "running", snapshot |-> st]}
    BY <1>2 DEF LoadContext
  <2>2. attempts[o].pc = "begun" /\ attempts[o].durable = {}  BY <1>2 DEF LoadContext, Durables
  <2>3. /\ attempts'[o].state = st /\ attempts'[o].pc = "working" /\ attempts'[o].durable = {}
        /\ \A n \in Owners \ {o} : attempts'[n] = attempts[n]
    BY <1>1, <2>1, <2>2 DEF Attempts
  <2>4. \A w \in writes' : w \in writes \/ (w.owner = o /\ w.snapshot = st)  BY <2>1
  <2>5. QED  BY <2>2, <2>3, <2>4, MovingDurables
<1>3. ASSUME NEW x \in Ops, Produce(o, x) PROVE Durables'
  <2>1. attempts' = [attempts EXCEPT ![o].state = Produced(o, x)]
          /\ writes' = writes \union {[owner |-> o, status |-> "running", snapshot |-> Produced(o, x)]}
          /\ attempts[o].pc = "working"
    BY <1>3 DEF Produce, Produced
  <2>2. Produced(o, x).made = attempts[o].state.made \union {x}  BY <1>1 DEF Produced, Snapshots
  <2>3. /\ attempts'[o].state = Produced(o, x) /\ attempts'[o].pc = "working"
        /\ attempts'[o].durable = attempts[o].durable
        /\ \A n \in Owners \ {o} : attempts'[n] = attempts[n]
    BY <1>1, <2>1 DEF Attempts
  <2>4. \A w \in writes' : w \in writes \/ (w.owner = o /\ w.snapshot = Produced(o, x))  BY <2>1
  <2>5. QED  BY <1>1, <2>1, <2>2, <2>3, <2>4, MovingDurables
<1>4. ASSUME NEW x \in Ops, Reuse(o, x) \/ Submit(o, x) PROVE Durables'
  <2>1. /\ attempts'[o].state.made = attempts[o].state.made /\ attempts'[o].pc = "working"
        /\ attempts'[o].durable = attempts[o].durable /\ attempts[o].pc = "working"
        /\ \A n \in Owners \ {o} : attempts'[n] = attempts[n]
    BY <1>1, <1>4 DEF Reuse, Submit, Attempts, Snapshots
  <2>2. writes' = writes  BY <1>4 DEF Reuse, Submit
  <2>3. QED  BY <1>1, <2>1, <2>2, MovingDurables
<1>5. CASE Save(o)
  <2>1. attempts' = attempts /\ attempts[o].pc = "working"
          /\ \A w \in writes' : w \in writes \/ (w.owner = o /\ w.snapshot = attempts[o].state)
    BY <1>5 DEF Save, WriteOf
  <2>2. QED  BY <1>1, <2>1, MovingDurables
<1>6. CASE Finish(o)
  <2>1. /\ attempts'[o].pc = "finishing" /\ attempts'[o].durable = {}
        /\ \A n \in Owners \ {o} : attempts'[n] = attempts[n]
    BY <1>1, <1>6 DEF Finish, Attempts
  <2>2. \A w \in writes' : w \in writes \/ (w.owner = o /\ w.status = "completed")
    BY <1>6 DEF Finish, WriteOf
  <2>3. QED  BY <2>1, <2>2, MovingDurables
<1>7. CASE Crash(o)
  <2>1. /\ attempts'[o].pc = "gone" /\ attempts'[o].durable = {}
        /\ \A n \in Owners \ {o} : attempts'[n] = attempts[n]
    BY <1>1, <1>7 DEF Crash, Attempts, Forgotten, NewAttempt
  <2>2. writes' = writes  BY <1>7 DEF Crash
  <2>3. QED  BY <2>1, <2>2, MovingDurables
<1>8. CASE LoadFails(o) \/ Check(o) \/ Abort(o)
  BY <1>8, StoppingDurables DEF LoadFails, Check, Abort
<1>9. QED  BY <1>2, <1>3, <1>4, <1>5, <1>6, <1>7, <1>8 DEF TurnNext

LEMMA StoreDurables ==
    ASSUME TypeOK, Assigned, Durables, StoreNext
    PROVE  Durables'
<1>1. attempts \in [Owners -> Attempts] /\ \A w \in writes : w.owner \in Owners
  BY DEF TypeOK, Writes
<1>2. ASSUME NEW o \in Owners, NEW r \in Requests, NEW s \in Sessions, NEW h \in Hashes,
             Begin(o, r, s, h) \/ Replay(o, r, s, h)
      PROVE  Durables'
  <2>1. attempts[o].pc = "new" /\ writes' = writes  BY <1>2 DEF Begin, Replay
  <2>2. /\ attempts'[o].durable = {}
        /\ \A n \in Owners \ {o} : attempts'[n] = attempts[n]
    <3>1. \E pc \in {"begun", "answered"} : \E b, st : attempts' = [attempts EXCEPT ![o] =
              [NewAttempt EXCEPT !.pc = pc, !.req = r, !.session = s, !.born = b, !.state = st]]
      BY <1>2 DEF Begin, Replay
    <3>2. QED  BY <1>1, <3>1 DEF NewAttempt
  <2>3. \A w \in writes : w.owner # o  BY <2>1 DEF Durables
  <2>4. QED  BY <1>1, <2>1, <2>2, <2>3 DEF Durables
<1>3. ASSUME NEW w \in writes, Land(w) PROVE Durables'
  <2>1. w.owner \in Owners /\ attempts[w.owner] \in Attempts /\ attempts[w.owner].state \in Snapshots
          /\ attempts[w.owner].pc \notin {"new", "begun"}
    BY <1>1 DEF Attempts, Durables
  <2>2. writes' = writes \ {w}  BY <1>3 DEF Land
  <2>3. CASE w.status = "running" /\ attempts[w.owner].pc = "working"
    <3>1. attempts' = [attempts EXCEPT ![w.owner].durable = @ \union w.snapshot.made]
      BY <1>3, <2>3 DEF Land
    <3>2. /\ attempts'[w.owner].state = attempts[w.owner].state /\ attempts'[w.owner].pc = "working"
          /\ attempts'[w.owner].durable = attempts[w.owner].durable \union w.snapshot.made
          /\ \A n \in Owners \ {w.owner} : attempts'[n] = attempts[n]
      BY <1>1, <2>1, <2>3, <3>1 DEF Attempts
    <3>3. attempts'[w.owner].durable \subseteq attempts'[w.owner].state.made
      BY <2>1, <2>3, <3>2 DEF Durables
    <3>4. QED  BY <2>1, <2>2, <2>3, <3>2, <3>3, MovingDurables
  <2>4. CASE w.status = "completed" /\ attempts[w.owner].pc = "finishing"
    <3>1. attempts' = [attempts EXCEPT ![w.owner].pc = "answered"]
      BY <1>3, <2>4 DEF Land
    <3>2. /\ attempts'[w.owner].state = attempts[w.owner].state /\ attempts'[w.owner].pc = "answered"
          /\ attempts'[w.owner].durable = attempts[w.owner].durable
          /\ \A n \in Owners \ {w.owner} : attempts'[n] = attempts[n]
      BY <1>1, <2>1, <3>1 DEF Attempts
    <3>3. attempts'[w.owner].durable \subseteq attempts'[w.owner].state.made
      BY <2>1, <3>2 DEF Durables
    <3>4. QED  BY <2>1, <2>2, <3>2, <3>3, MovingDurables
  <2>5. CASE Stops(w) /\ attempts[w.owner].pc = "stopping"
    <3>1. attempts' = [attempts EXCEPT ![w.owner] = Forgotten(@, "gone")]
      BY <1>3, <2>5 DEF Land, Stops
    <3>2. /\ attempts'[w.owner].pc = "gone" /\ attempts'[w.owner].durable = {}
          /\ \A n \in Owners \ {w.owner} : attempts'[n] = attempts[n]
      BY <1>1, <2>1, <3>1 DEF Attempts, Forgotten, NewAttempt
    <3>3. QED  BY <2>1, <2>2, <3>2, MovingDurables
  <2>6. CASE attempts' = attempts  BY <1>1, <2>2, <2>6 DEF Durables
  <2>7. QED  BY <1>3, <2>3, <2>4, <2>5, <2>6 DEF Land
<1>4. ASSUME NEW w \in writes, Refuse(w) PROVE Durables'
  <2>1. w.owner \in Owners /\ attempts[w.owner] \in Attempts  BY <1>1
  <2>2. /\ attempts'[w.owner].pc \in {"stopping", "gone"} /\ attempts'[w.owner].durable = {}
        /\ \A n \in Owners \ {w.owner} : attempts'[n] = attempts[n]
    BY <1>1, <1>4, <2>1 DEF Refuse, RefuseSave, RefuseStop, Forgotten, NewAttempt
  <2>3. \A u \in writes' : u \in writes \/ (u.owner = w.owner /\ u.status = "stopped")
    BY <1>4 DEF Refuse, RefuseSave, RefuseStop, StopWriteOf
  <2>4. QED  BY <2>1, <2>2, <2>3, MovingDurables
<1>5. ASSUME NEW r \in Requests, Cancel(r) \/ RetentionElapses(r) PROVE Durables'
  BY <1>5 DEF Cancel, RetentionElapses, Durables
<1>6. QED  BY <1>2, <1>3, <1>4, <1>5 DEF StoreNext

LEMMA BusinessDurables ==
    ASSUME TypeOK, Assigned, InFlight, Durables, BusinessNext
    PROVE  Durables'
<1>1. attempts \in [Owners -> Attempts]  BY DEF TypeOK
<1>2. ASSUME NEW p \in posts, NEW v, Hear(p, v), writes' = writes PROVE Durables'
  <2>1. p.owner \in Owners /\ attempts[p.owner] \in Attempts /\ attempts[p.owner].state \in Snapshots
    BY DEF TypeOK, Posts, Attempts
  <2>2. attempts[p.owner].durable \subseteq attempts[p.owner].state.made  BY <2>1 DEF Durables
  <2>3. /\ attempts'[p.owner].state.made = attempts[p.owner].state.made
        /\ attempts'[p.owner].pc = "working" /\ attempts[p.owner].pc = "working"
        /\ attempts'[p.owner].durable = attempts[p.owner].durable
        /\ \A n \in Owners \ {p.owner} : attempts'[n] = attempts[n]
    BY <1>1, <1>2, <2>1 DEF Hear, Waiting, WithReceipt, Attempts, Snapshots
  <2>4. QED  BY <1>2, <2>1, <2>2, <2>3, MovingDurables
<1>3. ASSUME NEW p \in posts, Commit(p) \/ ReturnReceipt(p) PROVE Durables'
  <2>1. writes' = writes /\ (attempts' = attempts \/ \E v : Hear(p, v))
    BY <1>3 DEF Commit, ReturnReceipt
  <2>2. QED  BY <1>2, <2>1 DEF Durables
<1>4. ASSUME NEW p \in posts, RejectStopped(p) PROVE Durables'
  <2>1. p.owner \in Owners /\ Stopping(p.owner)  BY <1>4 DEF TypeOK, Posts, RejectStopped
  <2>2. QED  BY <2>1, StoppingDurables
<1>5. ASSUME NEW p \in posts, RejectConflict(p) \/ RejectVersion(p) PROVE Durables'
  <2>1. p.owner \in Owners /\ attempts[p.owner] \in Attempts  BY DEF TypeOK, Posts
  <2>2. /\ writes' = writes /\ attempts[p.owner].pc = "working"
        /\ attempts' = [attempts EXCEPT ![p.owner].call = {}]
    BY <1>5 DEF RejectConflict, RejectVersion, Unheard, Waiting
  <2>3. /\ attempts'[p.owner].state = attempts[p.owner].state
        /\ attempts'[p.owner].pc = "working"
        /\ attempts'[p.owner].durable = attempts[p.owner].durable
        /\ \A n \in Owners \ {p.owner} : attempts'[n] = attempts[n]
    BY <1>1, <2>1, <2>2 DEF Attempts
  <2>4. attempts[p.owner].durable \subseteq attempts[p.owner].state.made  BY <2>1 DEF Durables
  <2>5. QED  BY <2>1, <2>2, <2>3, <2>4, MovingDurables
<1>6. ASSUME UNCHANGED <<attempts, writes>> PROVE Durables'  BY <1>6 DEF Durables
<1>7. ASSUME NEW s \in Sessions, DeleteRuns(s) \/ DeleteTrip(s) \/ CommitDelete(s)
      PROVE  UNCHANGED <<attempts, writes>>
  BY <1>7 DEF DeleteRuns, DeleteTrip, CommitDelete
<1>8. QED  BY <1>3, <1>4, <1>5, <1>6, <1>7 DEF BusinessNext, Enter

-----------------------------------------------------------------------------
(* Claims stay sound. *)

\* Nothing that was committed is forgotten.
LEMMA ReceiptsStay == ASSUME [Next]_vars PROVE receipts \subseteq receipts'
BY WhoCommits DEF Commit, vars

\* The run store neither gives out ids nor posts mutations.
LEMMA StoreKeeps == ASSUME StoreNext PROVE used' = used /\ posts' = posts
<1>1. ASSUME NEW o \in Owners, NEW r \in Requests, NEW s \in Sessions, NEW h \in Hashes,
             Begin(o, r, s, h) \/ Replay(o, r, s, h)
      PROVE  used' = used /\ posts' = posts
  BY <1>1 DEF Begin, Replay
<1>2. ASSUME NEW w \in writes, Land(w) \/ Refuse(w) PROVE used' = used /\ posts' = posts
  BY <1>2 DEF Land, Refuse
<1>3. ASSUME NEW r \in Requests, Cancel(r) \/ RetentionElapses(r)
      PROVE  used' = used /\ posts' = posts
  BY <1>3 DEF Cancel, RetentionElapses
<1>4. QED  BY <1>1, <1>2, <1>3 DEF StoreNext

\* A result id that was given out stays so; only the birth of a result gives one out.
LEMMA UsedStay ==
    ASSUME [Next]_vars
    PROVE  \/ used' = used
           \/ \E o \in Owners, x \in Ops : Produce(o, x)
<1>1. ASSUME NEW o \in Owners, TurnNext(o)
      PROVE  used' = used \/ \E x \in Ops : Produce(o, x)
  BY <1>1 DEF TurnNext, LoadContext, LoadFails, Reuse, Submit, Save, Check, Finish, Abort, Crash
<1>2. ASSUME StoreNext PROVE used' = used  BY <1>2, StoreKeeps
<1>3. ASSUME BusinessNext PROVE used' = used
  BY <1>3 DEF BusinessNext, Enter, Commit, ReturnReceipt, RejectStopped, RejectConflict,
              RejectVersion, DeleteRuns, DeleteTrip, CommitDelete, businessVars
<1>4. QED  BY <1>1, <1>2, <1>3 DEF Next, vars

\* What was known or committed stays so.
LEMMA CommittedStays ==
    ASSUME [Next]_vars
    PROVE  /\ \A f : Known(f) => Known(f)'
           /\ \A x : Committed(x) => Committed(x)'
BY ReceiptsStay DEF Known, Committed

\* A posted mutation expects the version its operation was born at.
LEMMA PostsExpect ==
    ASSUME TypeOK, Durables, NEW birth \in [Ops -> Trips], SoundSince(birth), [Next]_vars,
           NEW p \in posts'
    PROVE  p.op \in used /\ p.expected = birth[p.op]
<1>1. CASE p \in posts  BY <1>1 DEF SoundSince
<1>2. ASSUME NEW o \in Owners, NEW x \in Ops, Submit(o, x), p \in Sent(o, x)
      PROVE  p.op \in used /\ p.expected = birth[p.op]
  <2>1. attempts[o].state \in Snapshots /\ Stored(attempts[o].state)
    BY DEF TypeOK, Attempts, Stored
  <2>2. Sound(attempts[o].state, birth)  BY <2>1 DEF SoundSince
  <2>3. /\ x \in attempts[o].state.made \ attempts[o].state.applied
        /\ attempts[o].state.base[x] = attempts[o].state.version
    BY <1>2 DEF Submit, Committable, Durables
  <2>4. x \in used /\ attempts[o].state.version = birth[x]  BY <2>2, <2>3 DEF Sound
  <2>5. QED  BY <1>2, <2>4 DEF Sent
<1>3. p \in posts \/ \E o \in Owners, x \in Ops : Submit(o, x) /\ p \in Sent(o, x)
  <2>1. ASSUME NEW o \in Owners, TurnNext(o)
        PROVE  posts' = posts \/ \E x \in Ops : Submit(o, x) /\ posts' = posts \union Sent(o, x)
    BY <2>1 DEF TurnNext, LoadContext, LoadFails, Produce, Reuse, Submit, Save, Check, Finish,
                Abort, Crash
  <2>2. ASSUME StoreNext PROVE posts' = posts  BY <2>2, StoreKeeps
  <2>3. ASSUME BusinessNext PROVE posts' \subseteq posts
    BY <2>3 DEF BusinessNext, Enter, Commit, ReturnReceipt, RejectStopped, RejectConflict,
              RejectVersion, DeleteRuns, DeleteTrip, CommitDelete, businessVars
  <2>4. QED  BY <2>1, <2>2, <2>3 DEF Next, vars
<1>4. QED  BY <1>1, <1>2, <1>3

\* A transaction commits what its post expects, and facts that are known.
LEMMA ReceiptsExpect ==
    ASSUME TypeOK, Assigned, InFlight, NEW birth \in [Ops -> Trips], SoundSince(birth), [Next]_vars
    PROVE  /\ \A e \in receipts' : /\ e.op \in used /\ e.expected = birth[e.op]
                                   /\ \A f \in e.version : Known(f)'
           /\ \A s \in Sessions : \A f \in trips'[s] : Known(f)'
<1>1. CASE receipts' = receipts /\ \A s \in Sessions : trips'[s] \subseteq trips[s]
  BY <1>1, CommittedStays DEF SoundSince
<1>2. ASSUME NEW p \in posts, Commit(p)
      PROVE  /\ \A e \in receipts' : /\ e.op \in used /\ e.expected = birth[e.op]
                                     /\ \A f \in e.version : Known(f)'
             /\ \A s \in Sessions : \A f \in trips'[s] : Known(f)'
  <2> DEFINE a == attempts[p.owner]
             after == Effect(p.op, trips[a.session])
             e == [req |-> a.req, op |-> p.op, expected |-> p.expected, version |-> after,
                   created |-> clock + 1]
  <2>1. receipts' = receipts \union {e} /\ trips' = [trips EXCEPT ![a.session] = after]
    BY <1>2 DEF Commit
  <2>2. e.op = p.op /\ e.expected = p.expected /\ e.version = after /\ e \in receipts'
    BY <2>1
  <2>3. p.op \in Ops /\ a.session \in Sessions
    BY DEF TypeOK, Posts, Assigned, InFlight
  <2>4. ASSUME NEW f \in after PROVE Known(f)'
    <3>1. f \in trips[a.session] \/ (f = Fact[p.op] /\ Kind[p.op] \in {"update", "new"})
      BY <2>3 DEF Effect
    <3>2. f \in trips[a.session] => Known(f)'  BY <2>3, CommittedStays DEF SoundSince
    <3> HIDE DEF e
    <3>3. f = Fact[p.op] /\ Kind[p.op] \in {"update", "new"} => Known(f)'
      BY <2>2 DEF Known
    <3>4. QED  BY <3>1, <3>2, <3>3
  <2>5. \A d \in receipts : /\ d.op \in used /\ d.expected = birth[d.op]
                            /\ \A f \in d.version : Known(f)'
    BY CommittedStays DEF SoundSince
  <2>6. p.op \in used /\ p.expected = birth[p.op]  BY DEF SoundSince
  <2>7. \A s \in Sessions : \A f \in trips'[s] : f \in after \/ f \in trips[s]
    BY <2>1 DEF TypeOK
  <2>8. \A s \in Sessions : \A f \in trips[s] : Known(f)'  BY CommittedStays DEF SoundSince
  <2> HIDE DEF e, after
  <2>9. QED  BY <2>1, <2>2, <2>4, <2>5, <2>6, <2>7, <2>8
<1>3. ASSUME NEW s \in Sessions, CommitDelete(s)
      PROVE  receipts' = receipts /\ \A q \in Sessions : trips'[q] \subseteq trips[q]
  BY <1>3 DEF CommitDelete, TypeOK
<1>4. QED  BY <1>1, <1>2, <1>3, WhoCommits DEF vars

\* A sound snapshot stays so when a result is born that it does not have.
LEMMA SoundStays ==
    ASSUME [Next]_vars, used \subseteq used', NEW birth \in [Ops -> Trips], NEW later \in [Ops -> Trips],
           \A x \in used : later[x] = birth[x], NEW c, Sound(c, birth)
    PROVE  Sound(c, later)'
BY CommittedStays DEF Sound

\* A snapshot that comes of a step is sound.
LEMMA ComesSound ==
    ASSUME TypeOK, Assigned, InFlight, [Next]_vars, used \subseteq used',
           NEW birth \in [Ops -> Trips], SoundSince(birth),
           NEW later \in [Ops -> Trips], \A x \in used : later[x] = birth[x],
           \A o \in Owners, x \in Ops : Produce(o, x) => later[x] = attempts[o].state.version,
           NEW c, Comes(c)
    PROVE  Sound(c, later)'
<1>1. \A d \in Snapshots : Stored(d) => Sound(d, birth) /\ Sound(d, later)'
  BY SoundStays DEF SoundSince
<1>2. CASE Blank(c)  BY <1>2 DEF Blank, Sound
<1>3. ASSUME NEW s \in Sessions, NEW d \in Snapshots, Stored(d) \/ Blank(d),
             c.version = trips[s], c.made = d.made, c.base = d.base, c.applied = d.applied
      PROVE  Sound(c, later)'
  <2>1. \A f \in c.version : Known(f)'  BY <1>3, CommittedStays DEF SoundSince
  <2>2. CASE Stored(d)  BY <1>1, <1>3, <2>1, <2>2 DEF Sound
  <2>3. CASE Blank(d)  BY <1>3, <2>1, <2>3 DEF Sound, Blank
  <2>4. QED  BY <1>3, <2>2, <2>3
<1>4. ASSUME NEW o \in Owners, NEW x \in Ops, Produce(o, x), c = Produced(o, x)
      PROVE  Sound(c, later)'
  <2>1. PICK d \in Snapshots : d = attempts[o].state /\ Stored(d)  BY DEF TypeOK, Attempts, Stored
  <2>2. /\ c.made = d.made \union {x} /\ c.applied = d.applied /\ c.version = d.version
        /\ c.base = [d.base EXCEPT ![x] = d.version] /\ d.base \in [Ops -> Trips]
        /\ d.made \subseteq Ops
    BY <1>4, <2>1 DEF Produced, Snapshots
  <2>3. x \in used' /\ later[x] = d.version  BY <1>4, <2>1 DEF Produce
  <2>4. Sound(d, later)'  BY <1>1, <2>1
  <2>5. d.made \subseteq used' /\ (\A y \in d.made \ d.applied : d.base[y] = later[y])
          /\ (\A y \in d.applied : Committed(y)') /\ \A f \in d.version : Known(f)'
    BY <2>4 DEF Sound
  <2>6. \A y \in c.made \ c.applied : c.base[y] = later[y]
    BY <2>2, <2>3, <2>5
  <2>7. QED  BY <2>2, <2>3, <2>5, <2>6 DEF Sound
<1>5. ASSUME NEW d \in Snapshots, NEW x \in Ops, Stored(d), Kind[x] = "update",
             Fact[x] \in d.version, c = [d EXCEPT !.applied = @ \union {x}]
      PROVE  Sound(c, later)'
  <2>1. /\ c.made = d.made /\ c.applied = d.applied \union {x} /\ c.version = d.version
        /\ c.base = d.base
    BY <1>5 DEF Snapshots
  <2>2. Committed(x)
    <3>1. Known(Fact[x])  BY <1>1, <1>5 DEF Sound
    <3>2. QED  BY <1>5, <3>1 DEF Known, Committed
  <2>3. Sound(d, later)' /\ Committed(x)'  BY <1>1, <1>5, <2>2, CommittedStays
  <2>4. QED  BY <2>1, <2>3 DEF Sound
<1>6. ASSUME NEW d \in Snapshots, NEW e \in receipts', Stored(d), c = WithReceipt(d, e.op, e.version)
      PROVE  Sound(c, later)'
  <2>1. /\ c.made = d.made /\ c.applied = d.applied \union {e.op} /\ c.version = e.version
        /\ \A y \in Ops \ {e.op} : c.base[y] = d.base[y]
        /\ d.made \subseteq Ops
    BY <1>6 DEF Snapshots, WithReceipt
  <2>2. \A f \in e.version : Known(f)'  BY ReceiptsExpect
  <2>3. Committed(e.op)'  BY DEF Committed
  <2>4. Sound(d, later)'  BY <1>1, <1>6
  <2>5. QED  BY <2>1, <2>2, <2>3, <2>4 DEF Sound
<1>7. QED  BY <1>2, <1>3, <1>4, <1>5, <1>6 DEF Comes

\* Every snapshot held after a step is an old one or comes of the step.
LEMMA StepSnapshots ==
    ASSUME TypeOK, Assigned, InFlight, [Next]_vars, NEW c, Stored(c)'
    PROVE  Stored(c) \/ Comes(c)
<1>1. CASE UNCHANGED vars  BY <1>1 DEF vars, Stored
<1>2. CASE Next  BY <1>2, TurnSnapshots, StoreSnapshots, BusinessSnapshots DEF Next
<1>3. QED  BY <1>1, <1>2

\* Two results are never born at once.
LEMMA OneBirth ==
    ASSUME TypeOK, NEW birth \in [Ops -> Trips], SoundSince(birth),
           NEW o \in Owners, NEW x \in Ops, Produce(o, x),
           NEW n \in Owners, NEW y \in Ops, Produce(n, y)
    PROVE  o = n /\ x = y
<1>1. x = y  BY DEF Produce
<1>2. attempts[o].state \in Snapshots /\ Stored(attempts[o].state)
        /\ attempts \in [Owners -> Attempts] /\ attempts[o] \in Attempts
  BY DEF TypeOK, Attempts, Stored
<1>3. x \notin attempts[o].state.made  BY <1>2 DEF Produce, SoundSince, Sound
<1>4. x \in Produced(o, x).made  BY <1>2 DEF Produced, Snapshots
<1>5. attempts' = [attempts EXCEPT ![o].state = Produced(o, x)]  BY DEF Produce, Produced
<1>6. attempts'[o].state = Produced(o, x)  BY <1>2, <1>5 DEF Attempts
<1>7. n # o => attempts'[o] = attempts[o]  BY <1>2 DEF Produce
<1>8. QED  BY <1>1, <1>3, <1>4, <1>6, <1>7

\* The births of a step: that of the result it makes.
LEMMA StepSound ==
    ASSUME TypeOK, Assigned, InFlight, Durables, [Next]_vars, used \subseteq used',
           NEW birth \in [Ops -> Trips], SoundSince(birth),
           NEW later \in [Ops -> Trips], \A x \in used : later[x] = birth[x],
           \A o \in Owners, x \in Ops : Produce(o, x) => later[x] = attempts[o].state.version
    PROVE  SoundSince(later)'
<1>1. ASSUME NEW c \in Snapshots, Stored(c)' PROVE Sound(c, later)'
  <2>1. Stored(c) => Sound(c, later)'  BY SoundStays DEF SoundSince
  <2>2. Comes(c) => Sound(c, later)'  BY ComesSound
  <2>3. QED  BY <1>1, <2>1, <2>2, StepSnapshots
<1>2. \A p \in posts' : p.op \in used' /\ p.expected = later[p.op]  BY PostsExpect
<1>3. \A e \in receipts' : /\ e.op \in used' /\ e.expected = later[e.op]
                           /\ \A f \in e.version : Known(f)'
  BY ReceiptsExpect
<1>4. \A s \in Sessions : \A f \in trips'[s] : Known(f)'  BY ReceiptsExpect
<1>5. QED  BY <1>1, <1>2, <1>3, <1>4 DEF SoundSince

LEMMA StepClaims ==
    ASSUME TypeOK, Assigned, InFlight, Durables, ClaimsSound, [Next]_vars
    PROVE  ClaimsSound'
<1>1. PICK birth \in [Ops -> Trips] : SoundSince(birth)  BY DEF ClaimsSound
<1>2. ASSUME NEW o \in Owners, NEW x \in Ops, Produce(o, x) PROVE ClaimsSound'
  <2>1. attempts[o].state.version \in Trips  BY DEF TypeOK, Attempts, Snapshots
  <2>2. PICK later \in [Ops -> Trips] : later = [birth EXCEPT ![x] = attempts[o].state.version]
    BY <2>1
  <2>3. used \subseteq used' /\ x \notin used  BY <1>2 DEF Produce
  <2>4. \A y \in used : later[y] = birth[y]  BY <2>2, <2>3 DEF TypeOK
  <2>5. \A n \in Owners, y \in Ops : Produce(n, y) => later[y] = attempts[n].state.version
    BY <1>1, <1>2, <2>2, OneBirth
  <2>6. SoundSince(later)'  BY <1>1, <2>3, <2>4, <2>5, StepSound
  <2>7. QED  BY <2>6 DEF ClaimsSound
<1>3. CASE \A o \in Owners, x \in Ops : ~Produce(o, x)
  <2>1. used' = used  BY <1>3, UsedStay
  <2>2. SoundSince(birth)'  BY <1>1, <1>3, <2>1, StepSound
  <2>3. QED  BY <2>2 DEF ClaimsSound
<1>4. QED  BY <1>2, <1>3

LEMMA InitClaims == Init => ClaimsSound /\ Durables
<1> SUFFICES ASSUME Init PROVE ClaimsSound /\ Durables
    OBVIOUS
<1>1. Durables  BY DEF Init, Durables, NewAttempt
<1>2. PICK birth \in [Ops -> Trips] : birth = [x \in Ops |-> {}]  BY DEF Trips
<1>3. \A c : Stored(c) => Blank(c)  BY BlankSnapshots DEF Init, Stored
<1>4. SoundSince(birth)
  <2>1. \A c \in Snapshots : Stored(c) => Sound(c, birth)  BY <1>3 DEF Blank, Sound
  <2>2. posts = {} /\ receipts = {} /\ \A s \in Sessions : trips[s] = {}  BY DEF Init
  <2>3. QED  BY <2>1, <2>2 DEF SoundSince
<1>5. QED  BY <1>1, <1>4 DEF ClaimsSound

LEMMA StepDurables == IInv /\ Durables /\ [Next]_vars => Durables'
<1> SUFFICES ASSUME IInv, Durables, [Next]_vars PROVE Durables'
    OBVIOUS
<1>1. CASE UNCHANGED vars  BY <1>1 DEF vars, Durables
<1>2. CASE Next
  BY <1>2, TurnDurables, StoreDurables, BusinessDurables DEF Next, IInv
<1>3. QED  BY <1>1, <1>2

\* Every result was born once, at one version, and all that is claimed was committed.
THEOREM ClaimsStaySound == Spec => [](ClaimsSound /\ Durables)
<1>1. IInv /\ ClaimsSound /\ Durables /\ [Next]_vars => ClaimsSound' /\ Durables'
  BY StepClaims, StepDurables DEF IInv
<1>2. QED  BY <1>1, InitClaims, Invariance, PTL DEF Spec

\* Whatever an attempt, a row or an answer says was applied was committed, whatever
\* died, was resumed or inherited in between (engine.py apply_changes, _receipt).
THEOREM ClaimsHold == Spec => []ClaimsAreCommitted
<1>1. TypeOK /\ ClaimsSound => ClaimsAreCommitted
  <2> SUFFICES ASSUME TypeOK, ClaimsSound PROVE ClaimsAreCommitted
      OBVIOUS
  <2>1. \A r \in Requests : Stored(runs[r].checkpoint) /\ runs[r].checkpoint \in Snapshots
    BY DEF TypeOK, Rows, Stored
  <2>2. \A o \in Owners : Stored(attempts[o].state) /\ attempts[o].state \in Snapshots
    BY DEF TypeOK, Attempts, Stored
  <2>3. QED  BY <2>1, <2>2 DEF ClaimsSound, SoundSince, Sound, ClaimsAreCommitted
<1>2. QED  BY <1>1, ClaimsStaySound, TypeCorrect, PTL

\* A mutation sent again is the one of its receipt, by whichever attempt and at
\* whatever time it is sent (MutationService.apply's OPERATION_CONFLICT).
THEOREM ReplaysMatch == Spec => []ReplayMatches
<1>1. ClaimsSound => ReplayMatches
  BY DEF ClaimsSound, SoundSince, ReplayMatches, ReceiptFor
<1>2. QED  BY <1>1, ClaimsStaySound, PTL

-----------------------------------------------------------------------------
(* Answers stay sound. *)

Late == {"finishing", "stopping", "gone", "answered"}

\* An attempt that was begun stays that of its row; once its answer is on its way
\* it only waits, forgets or answers.
Ages(o) ==
    /\ attempts'[o].pc # "new"
    /\ attempts'[o].req = attempts[o].req /\ attempts'[o].born = attempts[o].born
    /\ attempts[o].pc \in Late => attempts'[o].pc \in Late
    /\ attempts[o].pc \in Late /\ attempts'[o].pc = "finishing" =>
            attempts[o].pc = "finishing" /\ attempts'[o].state = attempts[o].state
    /\ attempts[o].pc = "answered" => attempts'[o] = attempts[o]

LEMMA SameAges == ASSUME NEW o, attempts[o].pc # "new", attempts'[o] = attempts[o] PROVE Ages(o)
BY DEF Ages, Late

LEMMA ForgetAges ==
    ASSUME TypeOK, NEW o \in Owners, NEW pc \in {"stopping", "gone"},
           attempts[o].pc \notin {"new", "answered"},
           attempts' = [attempts EXCEPT ![o] = Forgotten(@, pc)]
    PROVE  Ages(o)
BY DEF TypeOK, Attempts, Forgotten, NewAttempt, Ages, Late

LEMMA TurnAges ==
    ASSUME TypeOK, NEW o \in Owners, TurnNext(o), NEW n \in Owners, attempts[n].pc # "new"
    PROVE  Ages(n) /\ (attempts'[n].pc = "answered" => attempts[n].pc = "answered")
<1>1. attempts \in [Owners -> Attempts] /\ attempts[o] \in Attempts  BY DEF TypeOK
<1>2. CASE LoadContext(o) \/ LoadFails(o) \/ Check(o) \/ Abort(o) \/ Crash(o)
  <2>1. CASE LoadContext(o)
    <3>1. PICK st : attempts' = [attempts EXCEPT ![o].pc = "working", ![o].state = st]
      BY <2>1 DEF LoadContext
    <3>2. QED  BY <1>1, <2>1, <3>1, SameAges DEF LoadContext, Attempts, Ages, Late
  <2>2. CASE LoadFails(o) \/ Check(o) \/ Abort(o)
    <3>1. attempts' = [attempts EXCEPT ![o] = Forgotten(@, "stopping")]
            /\ attempts[o].pc \notin {"new", "answered"}
      BY <2>2 DEF LoadFails, Check, Abort, Stopping
    <3>2. attempts'[o].pc = "stopping"  BY <1>1, <3>1 DEF Forgotten, NewAttempt
    <3>3. QED  BY <1>1, <3>1, <3>2, ForgetAges, SameAges
  <2>3. CASE Crash(o)
    <3>1. attempts' = [attempts EXCEPT ![o] = Forgotten(@, "gone")]
            /\ attempts[o].pc \notin {"new", "answered"}
      BY <2>3 DEF Crash
    <3>2. attempts'[o].pc = "gone"  BY <1>1, <3>1 DEF Forgotten, NewAttempt
    <3>3. QED  BY <1>1, <3>1, <3>2, ForgetAges, SameAges
  <2>4. QED  BY <1>2, <2>1, <2>2, <2>3
<1>3. ASSUME NEW x \in Ops, Produce(o, x) \/ Reuse(o, x) \/ Submit(o, x)
      PROVE  Ages(n) /\ (attempts'[n].pc = "answered" => attempts[n].pc = "answered")
  BY <1>1, <1>3, SameAges DEF Produce, Reuse, Submit, Attempts, Ages, Late
<1>4. CASE Save(o) \/ Finish(o)
  BY <1>1, <1>4, SameAges DEF Save, Finish, Attempts, Ages, Late
<1>5. QED  BY <1>2, <1>3, <1>4 DEF TurnNext

LEMMA BusinessAges ==
    ASSUME TypeOK, BusinessNext, NEW n \in Owners, attempts[n].pc # "new"
    PROVE  Ages(n) /\ (attempts'[n].pc = "answered" => attempts[n].pc = "answered")
<1>1. attempts \in [Owners -> Attempts] /\ \A p \in posts : p.owner \in Owners  BY DEF TypeOK, Posts
<1>2. ASSUME NEW p \in posts, NEW v, Hear(p, v)
      PROVE  Ages(n) /\ (attempts'[n].pc = "answered" => attempts[n].pc = "answered")
  <2>1. attempts[p.owner] \in Attempts  BY <1>1
  <2>2. attempts[p.owner].pc = "working"
          /\ attempts' = [attempts EXCEPT ![p.owner].call = {},
                                          ![p.owner].state = WithReceipt(@, p.op, v)]
    BY <1>2 DEF Hear, Waiting
  <2>3. QED  BY <1>1, <2>1, <2>2, SameAges DEF Attempts, Ages, Late
<1>3. ASSUME NEW p \in posts, Commit(p) \/ ReturnReceipt(p)
      PROVE  Ages(n) /\ (attempts'[n].pc = "answered" => attempts[n].pc = "answered")
  <2>1. attempts' = attempts \/ \E v : Hear(p, v)  BY <1>3 DEF Commit, ReturnReceipt
  <2>2. QED  BY <1>2, <2>1, SameAges
<1>4. ASSUME NEW p \in posts, RejectStopped(p)
      PROVE  Ages(n) /\ (attempts'[n].pc = "answered" => attempts[n].pc = "answered")
  <2>1. attempts' = [attempts EXCEPT ![p.owner] = Forgotten(@, "stopping")]
          /\ attempts[p.owner].pc = "working" /\ p.owner \in Owners
    BY <1>1, <1>4 DEF RejectStopped, Stopping, Waiting
  <2>2. attempts'[p.owner].pc = "stopping"  BY <1>1, <2>1 DEF Forgotten, NewAttempt
  <2>3. QED  BY <1>1, <2>1, <2>2, ForgetAges, SameAges
<1>5. ASSUME NEW p \in posts, RejectConflict(p) \/ RejectVersion(p)
      PROVE  Ages(n) /\ (attempts'[n].pc = "answered" => attempts[n].pc = "answered")
  <2>1. attempts' = [attempts EXCEPT ![p.owner].call = {}] /\ attempts[p.owner].pc = "working"
          /\ p.owner \in Owners /\ attempts[p.owner] \in Attempts
    BY <1>1, <1>5 DEF RejectConflict, RejectVersion, Unheard, Waiting
  <2>2. QED  BY <1>1, <2>1, SameAges DEF Attempts, Ages, Late
<1>6. ASSUME NEW s \in Sessions, DeleteRuns(s) \/ DeleteTrip(s) \/ CommitDelete(s)
      PROVE  attempts' = attempts
  BY <1>6 DEF DeleteRuns, DeleteTrip, CommitDelete
<1>7. QED  BY <1>3, <1>4, <1>5, <1>6, SameAges DEF BusinessNext, Enter

\* What an attempt was told, in a row that has it.
Told(o) ==
    LET a == attempts'[o]
        r == a.req IN
    /\ r \in Requests /\ Exists(r) /\ runs[r].born = a.born
    /\ runs[r].status = "running" \/ (runs[r].status = "completed" /\ runs[r].checkpoint = a.state)
    /\ runs'[r].status = "completed" /\ runs'[r].checkpoint = a.state

LEMMA LandAges ==
    ASSUME IInv, AnswersSound, NEW w \in writes, Land(w), NEW n \in Owners, attempts[n].pc # "new"
    PROVE  Ages(n) /\ (attempts'[n].pc = "answered" => attempts[n].pc = "answered" \/ Told(n))
<1>1. /\ attempts \in [Owners -> Attempts] /\ runs \in [Requests -> Rows]
      /\ w.owner \in Owners /\ attempts[w.owner] \in Attempts
      /\ attempts[w.owner].req \in Requests /\ attempts[w.owner].pc # "new"
  BY DEF IInv, TypeOK, Writes, InFlight, Assigned
<1>2. CASE w.status = "running" /\ attempts[w.owner].pc = "working"
  <2>1. attempts' = [attempts EXCEPT ![w.owner].durable = @ \union w.snapshot.made]
    BY <1>2 DEF Land
  <2>2. QED  BY <1>1, <1>2, <2>1, SameAges DEF Attempts, Ages, Late
<1>3. CASE w.status = "completed" /\ attempts[w.owner].pc = "finishing"
  <2> DEFINE r == attempts[w.owner].req
  <2>1. attempts' = [attempts EXCEPT ![w.owner].pc = "answered"]
    BY <1>3 DEF Land
  <2>2. /\ attempts'[w.owner].state = w.snapshot /\ attempts'[w.owner].req = r
        /\ attempts'[w.owner].born = attempts[w.owner].born /\ attempts'[w.owner].pc = "answered"
    BY <1>1, <1>3, <2>1 DEF Attempts, AnswersSound, Finals
  <2>3. runs[r].owner = w.owner /\ runs[r].status = "running"  BY DEF Land, Accepted, Owned
  <2>4. attempts[w.owner].born = runs[r].born
    BY <1>1, <2>3, FenceAssumption DEF AnswersSound, OwnersKnow
  <2>5. runs'[r].status = "completed" /\ runs'[r].checkpoint = w.snapshot
    BY <1>1, <1>3 DEF Land, Rows
  <2>6. Told(w.owner)  BY <1>1, <2>2, <2>3, <2>4, <2>5 DEF Told, Exists
  <2>7. Ages(w.owner)  BY <1>1, <1>3, <2>1 DEF Attempts, Ages, Late
  <2>8. n # w.owner => attempts'[n] = attempts[n]  BY <1>1, <2>1
  <2>9. QED  BY <2>6, <2>7, <2>8, SameAges
<1>4. CASE Stops(w) /\ attempts[w.owner].pc = "stopping"
  <2>1. attempts' = [attempts EXCEPT ![w.owner] = Forgotten(@, "gone")]
    BY <1>4 DEF Land, Stops
  <2>2. attempts'[w.owner].pc = "gone"  BY <1>1, <2>1 DEF Forgotten, NewAttempt
  <2>3. TypeOK  BY DEF IInv
  <2>4. QED  BY <1>1, <1>4, <2>1, <2>2, <2>3, ForgetAges, SameAges
<1>5. CASE attempts' = attempts  BY <1>5, SameAges
<1>6. QED  BY <1>2, <1>3, <1>4, <1>5 DEF Land

\* An attempt that begins or replays is new; what it learns is in the row.
LEMMA BeginAges ==
    ASSUME IInv, NEW o \in Owners, NEW r \in Requests, NEW s \in Sessions, NEW h \in Hashes,
           Begin(o, r, s, h) \/ Replay(o, r, s, h)
    PROVE  /\ attempts[o].pc = "new"
           /\ \A n \in Owners \ {o} : attempts'[n] = attempts[n]
           /\ attempts'[o].pc = "answered" => Told(o)
           /\ Begin(o, r, s, h) => /\ attempts'[o].pc = "begun" /\ attempts'[o].req = r
                                   /\ attempts'[o].born = Selected(r, s, h, o).born
<1>1. attempts \in [Owners -> Attempts] /\ runs \in [Requests -> Rows]  BY DEF IInv, TypeOK
<1>2. CASE Begin(o, r, s, h)
  <2> DEFINE row == Selected(r, s, h, o)
  <2>1. attempts' = [attempts EXCEPT ![o] =
          [NewAttempt EXCEPT !.pc = "begun", !.req = r, !.session = s,
                             !.born = row.born, !.state = row.checkpoint]]
    BY <1>2 DEF Begin
  <2> HIDE DEF row
  <2>2. attempts'[o].pc = "begun" /\ attempts'[o].req = r /\ attempts'[o].born = row.born
          /\ \A n \in Owners \ {o} : attempts'[n] = attempts[n]
    BY <1>1, <2>1 DEF NewAttempt
  <2>3. attempts[o].pc = "new"  BY <1>2 DEF Begin
  <2>4. QED  BY <2>2, <2>3 DEF row
<1>3. CASE Replay(o, r, s, h)
  <2>1. attempts' = [attempts EXCEPT ![o] =
          [NewAttempt EXCEPT !.pc = "answered", !.req = r, !.session = s,
                             !.born = Kept(r).born, !.state = Kept(r).checkpoint]]
          /\ attempts[o].pc = "new" /\ Kept(r).status = "completed" /\ runs'[r] = Kept(r)
    BY <1>3 DEF Replay
  <2>2. /\ attempts'[o].req = r /\ attempts'[o].born = Kept(r).born
        /\ attempts'[o].pc = "answered" /\ attempts'[o].state = Kept(r).checkpoint
        /\ \A n \in Owners \ {o} : attempts'[n] = attempts[n]
    BY <1>1, <2>1 DEF NewAttempt
  <2>3. Kept(r) = runs[r]  BY <2>1, KeptRow
  <2>4. Told(o)  BY <2>1, <2>2, <2>3 DEF Told, Exists
  <2>5. ~Begin(o, r, s, h)  BY <1>3 DEF Replay, Begin
  <2>6. QED  BY <2>1, <2>2, <2>4, <2>5
<1>4. QED  BY <1>2, <1>3

\* The same of all steps.
LEMMA StepAges ==
    ASSUME IInv, AnswersSound, [Next]_vars, NEW n \in Owners
    PROVE  /\ attempts[n].pc # "new" => Ages(n)
           /\ attempts'[n].pc = "answered" => attempts[n].pc = "answered" \/ Told(n)
<1>1. TypeOK  BY DEF IInv
<1>2. CASE UNCHANGED vars  BY <1>2, SameAges DEF vars
<1>3. ASSUME NEW o \in Owners, NEW r \in Requests, NEW s \in Sessions, NEW h \in Hashes,
             Begin(o, r, s, h) \/ Replay(o, r, s, h)
      PROVE  /\ attempts[n].pc # "new" => Ages(n)
             /\ attempts'[n].pc = "answered" => attempts[n].pc = "answered" \/ Told(n)
  BY <1>3, BeginAges, SameAges
<1>4. ASSUME NEW o \in Owners, TurnNext(o)
      PROVE  /\ attempts[n].pc # "new" => Ages(n)
             /\ attempts'[n].pc = "answered" => attempts[n].pc = "answered" \/ Told(n)
  <2>1. CASE attempts[n].pc # "new"  BY <1>1, <1>4, <2>1, TurnAges
  <2>2. CASE attempts[n].pc = "new"
    <3>1. n # o
      BY <1>4, <2>2 DEF TurnNext, LoadContext, LoadFails, Produce, Reuse, Submit, Save, Check,
                        Finish, Abort, Crash
    <3>2. IInv /\ (\A q \in Owners \ {o} : attempts'[q] = attempts[q])
      <4>1. Stopping(o) \/ Crash(o) => \A q \in Owners \ {o} : attempts'[q] = attempts[q]
        BY <1>1 DEF Stopping, Crash, TypeOK
      <4>2. LoadContext(o) \/ Save(o) \/ Finish(o) => \A q \in Owners \ {o} : attempts'[q] = attempts[q]
        BY <1>1 DEF LoadContext, Save, Finish, TypeOK
      <4>3. ASSUME NEW x \in Ops, Produce(o, x) \/ Reuse(o, x) \/ Submit(o, x)
            PROVE  \A q \in Owners \ {o} : attempts'[q] = attempts[q]
        BY <1>1, <4>3 DEF Produce, Reuse, Submit, TypeOK
      <4>4. QED  BY <1>4, <4>1, <4>2, <4>3 DEF TurnNext, LoadFails, Check, Abort
    <3>3. QED  BY <2>2, <3>1, <3>2
  <2>3. QED  BY <2>1, <2>2
<1>5. ASSUME NEW w \in writes, Land(w)
      PROVE  /\ attempts[n].pc # "new" => Ages(n)
             /\ attempts'[n].pc = "answered" => attempts[n].pc = "answered" \/ Told(n)
  <2>1. CASE attempts[n].pc # "new"  BY <1>5, <2>1, LandAges
  <2>2. CASE attempts[n].pc = "new"
    <3>1. w.owner # n  BY <2>2 DEF IInv, InFlight
    <3>2. \/ attempts' = [attempts EXCEPT ![w.owner].durable = @ \union w.snapshot.made]
          \/ attempts' = [attempts EXCEPT ![w.owner].pc = "answered"]
          \/ attempts' = [attempts EXCEPT ![w.owner] = Forgotten(@, "gone")]
          \/ attempts' = attempts
      BY <1>5 DEF Land
    <3>3. attempts'[n] = attempts[n]  BY <1>1, <3>1, <3>2 DEF TypeOK
    <3>4. QED  BY <2>2, <3>3
  <2>3. QED  BY <2>1, <2>2
<1>6. ASSUME NEW w \in writes, Refuse(w)
      PROVE  /\ attempts[n].pc # "new" => Ages(n)
             /\ attempts'[n].pc = "answered" => attempts[n].pc = "answered" \/ Told(n)
  <2>1. PICK pc \in {"stopping", "gone"} :
          attempts' = [attempts EXCEPT ![w.owner] = Forgotten(@, pc)]
            /\ attempts[w.owner].pc \notin {"new", "answered"}
    BY <1>6 DEF Refuse, RefuseSave, RefuseStop
  <2>2. w.owner \in Owners /\ attempts \in [Owners -> Attempts]  BY <1>1 DEF TypeOK, Writes
  <2>3. attempts'[w.owner].pc = pc  BY <2>1, <2>2 DEF Forgotten, NewAttempt
  <2>4. QED  BY <1>1, <2>1, <2>2, <2>3, ForgetAges, SameAges
<1>7. ASSUME NEW r \in Requests, Cancel(r) \/ RetentionElapses(r) PROVE attempts' = attempts
  BY <1>7 DEF Cancel, RetentionElapses
<1>8. ASSUME BusinessNext
      PROVE  /\ attempts[n].pc # "new" => Ages(n)
             /\ attempts'[n].pc = "answered" => attempts[n].pc = "answered" \/ Told(n)
  <2>1. CASE attempts[n].pc # "new"  BY <1>1, <1>8, <2>1, BusinessAges
  <2>2. CASE attempts[n].pc = "new"
    <3>1. \A p \in posts : p.owner # n  BY <2>2 DEF IInv, InFlight
    <3>2. attempts'[n] = attempts[n]
      BY <1>1, <1>8, <3>1 DEF BusinessNext, Enter, Commit, ReturnReceipt, RejectStopped,
         RejectConflict, RejectVersion, DeleteRuns, DeleteTrip, CommitDelete, Hear, Stopping,
         Unheard, TypeOK
    <3>3. QED  BY <2>2, <3>2
  <2>3. QED  BY <2>1, <2>2
<1>9. QED  BY <1>2, <1>3, <1>4, <1>5, <1>6, <1>7, <1>8, SameAges DEF Next, StoreNext

\* A row of the table was there before, or was just inserted.
LEMMA RowsAge ==
    ASSUME IInv, [Next]_vars, NEW r \in Requests, Exists(r)'
    PROVE  (Exists(r) /\ runs'[r].born = runs[r].born) \/ runs'[r].born = clock + 1
<1>1. CASE UNCHANGED vars  BY <1>1 DEF vars, Exists
<1>2. ASSUME NEW o \in Owners, NEW q \in Requests, NEW s \in Sessions, NEW h \in Hashes,
             Begin(o, q, s, h)
      PROVE  (Exists(r) /\ runs'[r].born = runs[r].born) \/ runs'[r].born = clock + 1
  <2> DEFINE row == Selected(q, s, h, o)
  <2>1. TypeOK /\ Kept(r) \in Rows /\ row \in Rows /\ Inserted(q, s, h, o).born = clock + 1
    BY RowTypes, EmptyTypes DEF IInv, Inserted, NoRow
  <2>2. CASE q = r
    <3>1. runs'[r] = [row EXCEPT !.owner = o, !.status = "running", !.cancelled = FALSE]
      BY <1>2, <2>2 DEF Begin
    <3> HIDE DEF row
    <3>2. runs'[r].born = row.born  BY <2>1, <3>1 DEF Rows
    <3>3. row = Inserted(q, s, h, o) \/ (row = runs[r] /\ Exists(r))
      BY <2>2, KeptRow DEF row, Selected
    <3>4. QED  BY <2>1, <3>2, <3>3
  <2>3. CASE q # r
    <3>1. runs'[r] \in {Kept(r), Interrupted(Kept(r))} /\ (Kept(r).status = "absent" => runs'[r] = Kept(r))
      BY <1>2, <2>3 DEF Begin
    <3>2. runs'[r].born = Kept(r).born  BY <2>1, <3>1 DEF Interrupted, Rows
    <3>3. Kept(r).status # "absent"  BY <3>1 DEF Exists
    <3>4. QED  BY <3>2, <3>3, KeptRow
  <2>4. QED  BY <2>2, <2>3
<1>3. CASE Next /\ \A o \in Owners, q \in Requests, s \in Sessions, h \in Hashes : ~Begin(o, q, s, h)
  BY <1>3, OthersShrink DEF IInv, Shrinks
<1>4. QED  BY <1>1, <1>2, <1>3

\* A row changes its owner when an attempt begins it, or loses it with its content.
LEMMA RowOwners ==
    ASSUME IInv, [Next]_vars, NEW r \in Requests
    PROVE  \/ runs'[r].owner = None
           \/ runs'[r].owner = runs[r].owner /\ runs'[r].born = runs[r].born
           \/ \E o \in Owners, s \in Sessions, h \in Hashes :
                /\ Begin(o, r, s, h)
                /\ runs'[r].owner = o /\ runs'[r].born = Selected(r, s, h, o).born
<1>1. TypeOK /\ runs \in [Requests -> Rows]  BY DEF IInv, TypeOK
<1>2. ASSUME NEW o \in Owners, NEW q \in Requests, NEW s \in Sessions, NEW h \in Hashes,
             Begin(o, q, s, h)
      PROVE  \/ runs'[r].owner = None
             \/ runs'[r].owner = runs[r].owner /\ runs'[r].born = runs[r].born
             \/ r = q /\ runs'[r].owner = o /\ runs'[r].born = Selected(q, s, h, o).born
  <2> DEFINE row == Selected(q, s, h, o)
  <2>1. Kept(r) \in Rows /\ row \in Rows  BY <1>1, RowTypes
  <2>2. CASE q = r
    <3>1. runs'[r] = [row EXCEPT !.owner = o, !.status = "running", !.cancelled = FALSE]
      BY <1>2, <2>2 DEF Begin
    <3> HIDE DEF row
    <3>2. runs'[r].born = row.born /\ runs'[r].owner = o  BY <2>1, <3>1 DEF Rows
    <3>3. QED  BY <2>2, <3>2 DEF row
  <2>3. CASE q # r
    <3>1. runs'[r] \in {Kept(r), Interrupted(Kept(r))}  BY <1>2, <2>3 DEF Begin
    <3>2. runs'[r].owner = Kept(r).owner /\ runs'[r].born = Kept(r).born
      BY <2>1, <3>1 DEF Interrupted, Rows
    <3>3. QED  BY <3>2 DEF Kept, NoRow
  <2>4. QED  BY <2>2, <2>3
<1>3. ASSUME NEW o \in Owners, NEW q \in Requests, NEW s \in Sessions, NEW h \in Hashes,
             Replay(o, q, s, h)
      PROVE  runs'[r].owner = None \/ runs'[r] = runs[r]
  BY <1>3 DEF Replay, Kept, NoRow
<1>4. ASSUME NEW w \in writes, Land(w) PROVE runs'[r].owner = runs[r].owner /\ runs'[r].born = runs[r].born
  BY <1>1, <1>4 DEF Land, Rows
<1>5. ASSUME NEW q \in Requests, Cancel(q) PROVE runs'[r].owner = runs[r].owner /\ runs'[r].born = runs[r].born
  BY <1>1, <1>5 DEF Cancel, Rows
<1>6. ASSUME NEW s \in Sessions, CommitDelete(s)
      PROVE runs'[r].owner = runs[r].owner /\ runs'[r].born = runs[r].born
  BY <1>1, <1>6 DEF CommitDelete, StoppedRun, Rows
<1>7. ASSUME StoreNext, runs' # runs
      PROVE  \/ \E o \in Owners, q \in Requests, s \in Sessions, h \in Hashes :
                   Begin(o, q, s, h) \/ Replay(o, q, s, h)
             \/ \E w \in writes : Land(w)
             \/ \E q \in Requests : Cancel(q)
  BY <1>7 DEF StoreNext, Refuse, RetentionElapses
<1>8. ASSUME BusinessNext, runs' # runs PROVE \E s \in Sessions : CommitDelete(s)
  BY <1>8 DEF BusinessNext, Enter, Commit, ReturnReceipt, RejectStopped, RejectConflict,
              RejectVersion, DeleteRuns, DeleteTrip
<1>9. ASSUME NEW o \in Owners, TurnNext(o) PROVE runs' = runs
  BY <1>9 DEF TurnNext, LoadContext, LoadFails, Produce, Reuse, Submit, Save, Check, Finish,
              Abort, Crash
<1>10. CASE runs' = runs  BY <1>10
<1>11. QED
  <2>1. CASE StoreNext  BY <2>1, <1>2, <1>3, <1>4, <1>5, <1>7, <1>10
  <2>2. CASE BusinessNext  BY <2>2, <1>6, <1>8, <1>10
  <2>3. CASE \E o \in Owners : TurnNext(o)  BY <2>3, <1>9, <1>10
  <2>4. CASE UNCHANGED vars  BY <2>4, <1>10 DEF vars
  <2>5. QED  BY <2>1, <2>2, <2>3, <2>4 DEF Next

\* An answer on its way was on its way before, or its attempt sends it now.
LEMMA FinalWrites ==
    ASSUME TypeOK, [Next]_vars, NEW w \in writes', w.status = "completed"
    PROVE  w \in writes \/ (w.owner \in Owners /\ Finish(w.owner)
                              /\ w.snapshot = attempts[w.owner].state)
<1>1. ASSUME NEW o \in Owners, TurnNext(o)
      PROVE  w \in writes \/ (w.owner = o /\ Finish(o) /\ w.snapshot = attempts[o].state)
  <2>1. CASE Finish(o)  BY <2>1 DEF Finish, WriteOf
  <2>2. CASE Save(o) \/ Crash(o) \/ LoadContext(o)  BY <2>2 DEF Save, Crash, WriteOf, LoadContext
  <2>3. CASE Stopping(o)  BY <2>3 DEF Stopping, StopWriteOf
  <2>4. CASE \E x \in Ops : Produce(o, x) \/ Reuse(o, x) \/ Submit(o, x)
    BY <2>4 DEF Produce, Reuse, Submit
  <2>5. QED  BY <1>1, <2>1, <2>2, <2>3, <2>4 DEF TurnNext, LoadFails, Check, Abort
<1>2. ASSUME StoreNext PROVE w \in writes
  <2>1. ASSUME NEW o \in Owners, NEW r \in Requests, NEW s \in Sessions, NEW h \in Hashes,
               Begin(o, r, s, h) \/ Replay(o, r, s, h)
        PROVE  writes' = writes
    BY <2>1 DEF Begin, Replay
  <2>2. ASSUME NEW u \in writes, Land(u) \/ Refuse(u) PROVE w \in writes
    BY <2>2 DEF Land, Refuse, RefuseSave, RefuseStop, StopWriteOf
  <2>3. ASSUME NEW r \in Requests, Cancel(r) \/ RetentionElapses(r) PROVE writes' = writes
    BY <2>3 DEF Cancel, RetentionElapses
  <2>4. QED  BY <1>2, <2>1, <2>2, <2>3 DEF StoreNext
<1>3. ASSUME BusinessNext PROVE w \in writes
  <2>1. ASSUME NEW p \in posts, RejectStopped(p) PROVE w \in writes
    BY <2>1 DEF RejectStopped, Stopping, StopWriteOf
  <2>2. ASSUME NEW p \in posts,
               \/ Enter(p) \/ Commit(p) \/ ReturnReceipt(p) \/ RejectConflict(p) \/ RejectVersion(p)
        PROVE  writes' = writes
    BY <2>2 DEF Enter, Commit, ReturnReceipt, RejectConflict, RejectVersion
  <2>3. ASSUME NEW s \in Sessions, DeleteRuns(s) \/ DeleteTrip(s) \/ CommitDelete(s)
        PROVE  writes' = writes
    BY <2>3 DEF DeleteRuns, DeleteTrip, CommitDelete
  <2>4. QED  BY <1>3, <2>1, <2>2, <2>3 DEF BusinessNext
<1>4. QED  BY <1>1, <1>2, <1>3 DEF Next, vars

LEMMA StepAnswers ==
    ASSUME IInv, AnswersSound, [Next]_vars
    PROVE  AnswersSound'
<1>1. /\ TypeOK /\ TypeOK' /\ clock \in Nat
      /\ \A r \in Requests : runs[r].owner \in Owners \union {None}
      /\ \A r \in Requests : runs[r].born \in Nat
      /\ \A w \in writes : w.owner \in Owners
  BY StepIInv DEF IInv, TypeOK, Rows, Writes
<1>2. OwnersKnow'
  <2>1. ASSUME NEW r \in Requests, runs'[r].owner # None
        PROVE  LET a == attempts'[runs'[r].owner] IN
               a.pc # "new" /\ a.req = r /\ a.born = runs'[r].born
    <3>1. CASE runs'[r].owner = runs[r].owner /\ runs'[r].born = runs[r].born
      <4>1. runs[r].owner \in Owners  BY <1>1, <2>1, <3>1
      <4>2. attempts[runs[r].owner].pc # "new" /\ attempts[runs[r].owner].req = r
              /\ attempts[runs[r].owner].born = runs[r].born
        BY <2>1, <3>1 DEF AnswersSound, OwnersKnow
      <4>3. Ages(runs[r].owner)  BY <4>1, <4>2, StepAges
      <4>4. QED  BY <3>1, <4>2, <4>3 DEF Ages
    <3>2. ASSUME NEW o \in Owners, NEW s \in Sessions, NEW h \in Hashes, Begin(o, r, s, h),
                 runs'[r].owner = o, runs'[r].born = Selected(r, s, h, o).born
          PROVE  LET a == attempts'[runs'[r].owner] IN
                 a.pc # "new" /\ a.req = r /\ a.born = runs'[r].born
      BY <3>2, BeginAges
    <3>3. QED  BY <2>1, <3>1, <3>2, RowOwners
  <2>2. QED  BY <2>1 DEF OwnersKnow
<1>3. Finals'
  <2>1. ASSUME NEW w \in writes', w.status = "completed"
        PROVE  /\ attempts'[w.owner].pc \in Late
               /\ attempts'[w.owner].pc = "finishing" => w.snapshot = attempts'[w.owner].state
    <3>1. CASE w \in writes
      <4>1. attempts[w.owner].pc \in Late
              /\ (attempts[w.owner].pc = "finishing" => w.snapshot = attempts[w.owner].state)
        BY <2>1, <3>1 DEF AnswersSound, Finals, Late
      <4>2. Ages(w.owner)  BY <1>1, <3>1, <4>1, StepAges DEF Late
      <4>3. QED  BY <4>1, <4>2 DEF Ages
    <3>2. CASE w.owner \in Owners /\ Finish(w.owner) /\ w.snapshot = attempts[w.owner].state
      BY <1>1, <3>2 DEF Finish, TypeOK, Attempts, Late
    <3>3. QED  BY <1>1, <2>1, <3>1, <3>2, FinalWrites
  <2>2. QED  BY <2>1 DEF Finals, Late
<1>4. ASSUME NEW o \in Owners, attempts'[o].pc = "answered"
      PROVE  /\ attempts'[o].born <= clock
             /\ runs'[attempts'[o].req].status # "absent" /\ runs'[attempts'[o].req].born = attempts'[o].born =>
                    runs'[attempts'[o].req].status = "completed"
                        /\ runs'[attempts'[o].req].checkpoint = attempts'[o].state
             /\ attempts'[o].req \in Requests /\ attempts'[o].born \in Nat
  <2>1. CASE attempts[o].pc = "answered"
    <3>1. attempts'[o] = attempts[o]  BY <2>1, StepAges DEF Ages
    <3>2. PICK r \in Requests : r = attempts[o].req
      BY <2>1 DEF IInv, Assigned
    <3>3. /\ attempts[o].born <= clock /\ attempts[o].born \in Nat
          /\ Exists(r) /\ runs[r].born = attempts[o].born =>
               runs[r].status = "completed" /\ runs[r].checkpoint = attempts[o].state
      BY <1>1, <2>1, <3>2 DEF AnswersSound, Stands, TypeOK, Attempts
    <3>4. ASSUME Exists(r)', runs'[r].born = attempts[o].born
          PROVE  runs'[r].status = "completed" /\ runs'[r].checkpoint = attempts[o].state
      <4>1. attempts[o].born # clock + 1  BY <1>1, <3>3
      <4>2. Exists(r) /\ runs'[r].born = runs[r].born  BY <3>4, <4>1, RowsAge
      <4>3. runs[r].status = "completed" /\ runs[r].checkpoint = attempts[o].state
        BY <3>3, <3>4, <4>2
      <4>4. QED  BY <4>2, <4>3, CompletedRow
    <3>5. QED  BY <3>1, <3>2, <3>3, <3>4 DEF Exists
  <2>2. CASE Told(o)
    <3>1. attempts'[o].req \in Requests /\ runs[attempts'[o].req].born = attempts'[o].born
            /\ Exists(attempts'[o].req)
      BY <2>2 DEF Told
    <3>2. attempts'[o].born \in 1..clock  BY <3>1 DEF IInv, Ordered
    <3>3. QED  BY <1>1, <2>2, <3>1, <3>2 DEF Told
  <2>3. QED  BY <1>4, <2>1, <2>2, StepAges
<1>5. clock' \in Nat /\ clock <= clock'
  <2>1. (\E o \in Owners, r \in Requests, s \in Sessions, h \in Hashes : Begin(o, r, s, h))
           => clock' = clock + 1 \/ clock' = clock
    BY DEF Begin
  <2>2. Next /\ ~(\E o \in Owners, r \in Requests, s \in Sessions, h \in Hashes : Begin(o, r, s, h))
           => clock' >= clock
    BY <1>1, OthersShrink DEF IInv, Shrinks
  <2>3. UNCHANGED vars => clock' = clock  BY DEF vars
  <2>4. QED  BY <1>1, <2>1, <2>2, <2>3 DEF TypeOK
<1>6. Stands'
  <2>1. ASSUME NEW o \in Owners, attempts'[o].pc = "answered"
        PROVE  /\ attempts'[o].born <= clock'
               /\ runs'[attempts'[o].req].status # "absent" /\ runs'[attempts'[o].req].born = attempts'[o].born =>
                    runs'[attempts'[o].req].status = "completed"
                        /\ runs'[attempts'[o].req].checkpoint = attempts'[o].state
    BY <1>1, <1>4, <1>5, <2>1
  <2>2. QED  BY <2>1 DEF Stands, Exists
<1>7. OneAnswer'
  <2>1. ASSUME NEW o \in Owners, NEW n \in Owners,
               attempts'[o].pc = "answered", attempts'[n].pc = "answered",
               attempts'[o].req = attempts'[n].req, attempts'[o].born = attempts'[n].born
        PROVE  attempts'[o].state = attempts'[n].state
    <3>1. CASE attempts[o].pc = "answered" /\ attempts[n].pc = "answered"
      <4>1. attempts'[o] = attempts[o] /\ attempts'[n] = attempts[n]
        BY <3>1, StepAges DEF Ages
      <4>2. QED  BY <2>1, <3>1, <4>1 DEF AnswersSound, OneAnswer
    <3>2. CASE Told(o)
      <4>1. runs'[attempts'[o].req].checkpoint = attempts'[o].state
              /\ runs[attempts'[o].req].born = attempts'[o].born /\ Exists(attempts'[o].req)
              /\ runs'[attempts'[o].req].status = "completed"
        BY <3>2 DEF Told
      <4>2. CASE Told(n)  BY <2>1, <3>2, <4>2 DEF Told
      <4>3. CASE attempts[n].pc = "answered"
        <5>1. attempts'[n] = attempts[n]  BY <4>3, StepAges DEF Ages
        <5>2. runs[attempts[n].req].status = "completed" /\ runs[attempts[n].req].checkpoint = attempts[n].state
          BY <2>1, <4>1, <4>3, <5>1 DEF AnswersSound, Stands
        <5>3. runs[attempts'[o].req].checkpoint = attempts'[o].state
          BY <2>1, <3>2, <5>1, <5>2 DEF Told
        <5>4. QED  BY <2>1, <5>1, <5>2, <5>3
      <4>4. QED  BY <2>1, <4>2, <4>3, StepAges
    <3>3. CASE Told(n)
      <4>1. CASE attempts[o].pc = "answered"
        <5>1. attempts'[o] = attempts[o]  BY <4>1, StepAges DEF Ages
        <5>2. Exists(attempts[o].req) /\ runs[attempts[o].req].born = attempts[o].born
          BY <2>1, <3>3, <5>1 DEF Told
        <5>3. runs[attempts[o].req].status = "completed" /\ runs[attempts[o].req].checkpoint = attempts[o].state
          BY <4>1, <5>2 DEF AnswersSound, Stands
        <5>4. runs[attempts'[n].req].checkpoint = attempts'[n].state
          BY <2>1, <3>3, <5>1, <5>3 DEF Told
        <5>5. QED  BY <2>1, <5>1, <5>3, <5>4
      <4>2. QED  BY <2>1, <3>2, <4>1, StepAges
    <3>4. QED  BY <2>1, <3>1, <3>2, <3>3, StepAges
  <2>2. QED  BY <2>1 DEF OneAnswer
<1>8. QED  BY <1>2, <1>3, <1>6, <1>7 DEF AnswersSound

\* An answer stands as long as its row, and is the one of every replay.
THEOREM AnswersStaySound == Spec => []AnswersSound
<1>1. Init => AnswersSound
  BY DEF Init, AnswersSound, OwnersKnow, Finals, Stands, OneAnswer, NoRow, NewAttempt
<1>2. QED  BY <1>1, StepAnswers, Invariance, PTL DEF Spec

\* The attempt that completes a request and every replay of it give one answer
\* (RunStore._begin's return of the stored response).
THEOREM AnswersAgree == Spec => []OneAnswer
<1>1. AnswersSound => OneAnswer  BY DEF AnswersSound
<1>2. QED  BY <1>1, AnswersStaySound, PTL

-----------------------------------------------------------------------------
(* RunFence implements TripLedger: its view of a table T of runs. *)

WritersIn(T, s) == {r \in Requests : /\ T[r].status = "running" /\ ~T[r].cancelled
                                     /\ T[r].session = s}

TheOne(S) == IF S = {} THEN None ELSE CHOOSE r \in S : TRUE

WriterIn(T) == [s \in Sessions |-> TheOne(WritersIn(T, s))]

DoneIn(T) == {r \in Requests : T[r].status = "completed"}

Changes(R) == {<<e.req, e.op>> : e \in R}

\* The runs each deletion has found, and the deleted sessions a change is still made in.
Found == [s \in Sessions |-> deleting[s].seen]
Lates == {attempts[p.owner].session : p \in applying} \ open

\* What a step leaves that takes no part in a transaction of the business service.
SameBusiness == UNCHANGED <<open, trips, receipts, Found, Lates>>

LEMMA OthersSameBusiness ==
    ASSUME IInv, Kinship, UNCHANGED businessVars
    PROVE  SameBusiness
<1>1. \A p \in applying : attempts'[p.owner].session = attempts[p.owner].session
  BY DEF IInv, Fences, Entered, TypeOK, Posts, InFlight, Kinship, Kin
<1>2. UNCHANGED <<open, trips, receipts, applying, deleting>>
  BY DEF businessVars, transactions
<1>3. Lates' = Lates  BY <1>1, <1>2 DEF Lates
<1>4. QED  BY <1>2, <1>3 DEF SameBusiness, Found

LEMMA Views ==
    /\ Writer = WriterIn(runs)
    /\ {r \in Requests : runs[r].status = "completed"} = DoneIn(runs)
    /\ {<<e.req, e.op>> : e \in receipts} = Changes(receipts)
BY DEF Writer, WriterIn, TheOne, WritersIn, Writers, Running, DoneIn, Changes

\* The writer of a session is a running run of it; there is none without one.
LEMMA WriterIs ==
    ASSUME NEW T, NEW s \in Sessions
    PROVE  /\ WritersIn(T, s) = {} => WriterIn(T)[s] = None
           /\ \A r : WritersIn(T, s) = {r} => WriterIn(T)[s] = r
BY DEF WriterIn, TheOne

\* Two tables with the same writers have the same view.
LEMMA SameWriter ==
    ASSUME NEW T, NEW U, \A s \in Sessions : WritersIn(U, s) = WritersIn(T, s)
    PROVE  WriterIn(U) = WriterIn(T)
BY DEF WriterIn

\* A session has one writer at most.
LEMMA OneWriter ==
    ASSUME TypeOK, OnlyNewestRuns, NEW s \in Sessions, NEW r \in WritersIn(runs, s)
    PROVE  WritersIn(runs, s) = {r} /\ WriterIn(runs)[s] = r
<1>1. ASSUME NEW q \in WritersIn(runs, s), q # r PROVE FALSE
  <2>1. /\ Running(r) /\ Running(q) /\ Exists(r) /\ Exists(q) /\ runs[q].session = runs[r].session
        /\ r \in Requests /\ q \in Requests
    BY DEF WritersIn, Running, Exists
  <2>2. runs[q].born < runs[r].born /\ runs[r].born < runs[q].born
    BY <1>1, <2>1 DEF OnlyNewestRuns
  <2>3. runs[q].born \in Nat /\ runs[r].born \in Nat  BY <2>1 DEF TypeOK, Rows
  <2>4. QED  BY <2>2, <2>3
<1>2. WritersIn(runs, s) = {r}  BY <1>1
<1>3. QED  BY <1>2, WriterIs

\* A run that stops being a writer, and the session it leaves.
LEMMA WriterLeaves ==
    ASSUME TypeOK, OnlyNewestRuns, NEW s \in Sessions, NEW r \in WritersIn(runs, s), NEW U,
           \A q \in Requests \ {r} : U[q] = runs[q],
           U[r].status # "running" \/ U[r].cancelled
    PROVE  WriterIn(runs)[s] = r /\ WriterIn(U) = [WriterIn(runs) EXCEPT ![s] = None]
<1>1. WritersIn(runs, s) = {r} /\ WriterIn(runs)[s] = r  BY OneWriter
<1>2. r \in Requests /\ runs[r].session = s  BY DEF WritersIn
<1>3. WritersIn(U, s) = {}  BY <1>1 DEF WritersIn
<1>4. \A z \in Sessions \ {s} : WritersIn(U, z) = WritersIn(runs, z)  BY <1>2 DEF WritersIn
<1>5. WriterIn(U)[s] = None  BY <1>3, WriterIs
<1>6. \A z \in Sessions \ {s} : WriterIn(U)[z] = WriterIn(runs)[z]  BY <1>4 DEF WriterIn
<1>7. QED  BY <1>1, <1>5, <1>6 DEF WriterIn

\* Some rows are deleted or stopped: their requests write no more.
LEMMA KeptWriters ==
    ASSUME TypeOK, OnlyNewestRuns, NEW U, NEW E, NEW s \in Sessions,
           WritersIn(U, s) = WritersIn(runs, s) \ E
    PROVE  WriterIn(U)[s] = IF WriterIn(runs)[s] \in E THEN None ELSE WriterIn(runs)[s]
<1>1. CASE WritersIn(runs, s) = {}
  <2>1. WriterIn(U)[s] = None /\ WriterIn(runs)[s] = None  BY <1>1, WriterIs
  <2>2. QED  BY <2>1
<1>2. ASSUME NEW r \in WritersIn(runs, s)
      PROVE  WriterIn(U)[s] = IF WriterIn(runs)[s] \in E THEN None ELSE WriterIn(runs)[s]
  <2>1. WritersIn(runs, s) = {r} /\ WriterIn(runs)[s] = r  BY OneWriter
  <2>2. CASE r \in E
    <3>1. WritersIn(U, s) = {}  BY <2>1, <2>2
    <3>2. QED  BY <2>1, <2>2, <3>1, WriterIs
  <2>3. CASE r \notin E
    <3>1. WritersIn(U, s) = {r}  BY <2>1, <2>3
    <3>2. QED  BY <2>1, <2>3, <3>1, WriterIs
  <2>4. QED  BY <2>2, <2>3
<1>3. QED  BY <1>1, <1>2

\* A retry or a new request takes the session; an expired run is forgotten.
LEMMA BeginGrants ==
    ASSUME IInv, NEW o \in Owners, NEW r \in Requests, NEW s \in Sessions, NEW h \in Hashes,
           Begin(o, r, s, h), Kinship, NEW F, F = expired
    PROVE  Ledger!Grant(s, r, F)
<1> DEFINE row == Selected(r, s, h, o)
           new == [row EXCEPT !.owner = o, !.status = "running", !.cancelled = FALSE]
<1>1. TypeOK /\ OnlyNewestRuns /\ row \in Rows /\ \A q \in Requests : Kept(q) \in Rows
  BY RowTypes DEF IInv
<1>2. row.session = s /\ Kept(r).status # "completed"  BY DEF Begin, Admitted
<1>3. new.status = "running" /\ ~new.cancelled /\ new.session = s  BY <1>1, <1>2 DEF Rows
<1>4. \A q \in Requests : runs'[q] =
        IF q = r THEN new
        ELSE IF Kept(q).session = s /\ Kept(q).status = "running" THEN Interrupted(Kept(q)) ELSE Kept(q)
  BY DEF Begin
<1> HIDE DEF new
<1>5. \A q \in Requests : Interrupted(Kept(q)).status = "stopped"  BY <1>1 DEF Interrupted, Rows
<1>6. WritersIn(runs', s) = {r}  BY <1>3, <1>4, <1>5 DEF WritersIn
<1>7. Kept(r).status # "absent" => Kept(r).session = s
  BY <1>2 DEF Selected
<1>8. ASSUME NEW z \in Sessions \ {s}
      PROVE  WriterIn(runs')[z] = IF WriterIn(runs)[z] \in expired THEN None ELSE WriterIn(runs)[z]
  <2>1. \A q \in Requests \ {r} : q \in WritersIn(runs', z) <=> q \in WritersIn(runs, z) \ expired
    BY <1>4, <1>5 DEF WritersIn, Kept, NoRow
  <2>2. r \notin WritersIn(runs', z)  BY <1>6 DEF WritersIn
  <2>3. r \notin WritersIn(runs, z) \ expired  BY <1>7 DEF WritersIn, Kept
  <2>4. WritersIn(runs', z) = WritersIn(runs, z) \ expired
    BY <2>1, <2>2, <2>3 DEF WritersIn
  <2>5. QED  BY <1>1, <2>4, KeptWriters
<1>9. WriterIn(runs') = [[z \in Sessions |-> IF WriterIn(runs)[z] \in expired THEN None
                                             ELSE WriterIn(runs)[z]] EXCEPT ![s] = r]
  <2>1. WriterIn(runs')[s] = r  BY <1>6, WriterIs
  <2>2. WriterIn(runs) = [z \in Sessions |-> TheOne(WritersIn(runs, z))]
          /\ WriterIn(runs') = [z \in Sessions |-> TheOne(WritersIn(runs', z))]
    BY DEF WriterIn
  <2>3. QED  BY <1>8, <2>1, <2>2
<1>10. DoneIn(runs') = DoneIn(runs) \ expired /\ r \notin DoneIn(runs) \ expired
  BY <1>2, <1>3, <1>4, <1>5 DEF DoneIn, Kept, NoRow
<1>11. SameBusiness  BY OthersSameBusiness DEF Begin
<1>12. Writer' = WriterIn(runs')
         /\ {q \in Requests : runs'[q].status = "completed"} = DoneIn(runs')
  BY DEF Writer, WriterIn, TheOne, WritersIn, Writers, Running, DoneIn
<1>13. QED
  BY <1>9, <1>10, <1>11, <1>12, Views DEF Ledger!Grant, Ledger!WithoutForgotten, Ledger!session,
     SameBusiness, Found, Lates

\* A stored answer is given again; an expired run is forgotten.
LEMMA ReplayRecalls ==
    ASSUME IInv, NEW o \in Owners, NEW r \in Requests, NEW s \in Sessions, NEW h \in Hashes,
           Replay(o, r, s, h), Kinship, NEW F, F = expired
    PROVE  Ledger!Recall(F)
<1>1. TypeOK /\ OnlyNewestRuns  BY DEF IInv
<1>2. \A q \in Requests : runs'[q] = Kept(q)  BY DEF Replay
<1>3. ASSUME NEW z \in Sessions
      PROVE  WriterIn(runs')[z] = IF WriterIn(runs)[z] \in expired THEN None ELSE WriterIn(runs)[z]
  <2>1. WritersIn(runs', z) = WritersIn(runs, z) \ expired
    BY <1>2 DEF WritersIn, Kept, NoRow
  <2>2. QED  BY <1>1, <2>1, KeptWriters
<1>4. WriterIn(runs') = [z \in Sessions |-> IF WriterIn(runs)[z] \in expired THEN None
                                            ELSE WriterIn(runs)[z]]
  BY <1>3 DEF WriterIn
<1>5. DoneIn(runs') = DoneIn(runs) \ expired  BY <1>2 DEF DoneIn, Kept, NoRow
<1>6. SameBusiness  BY OthersSameBusiness DEF Replay
<1>7. Writer' = WriterIn(runs')
        /\ {q \in Requests : runs'[q].status = "completed"} = DoneIn(runs')
  BY DEF Writer, WriterIn, TheOne, WritersIn, Writers, Running, DoneIn
<1>8. QED
  BY <1>4, <1>5, <1>6, <1>7, Views DEF Ledger!Recall, Ledger!WithoutForgotten, Ledger!session,
     SameBusiness, Found, Lates

\* A table whose writers and answers are the same, with the business tables as they
\* were, is no step of the ledger.
LEMMA NoLedgerStep ==
    ASSUME \A s \in Sessions : WritersIn(runs', s) = WritersIn(runs, s),
           DoneIn(runs') = DoneIn(runs), SameBusiness
    PROVE  UNCHANGED Ledger!vars
<1>1. WriterIn(runs') = WriterIn(runs)  BY SameWriter
<1>2. Writer' = WriterIn(runs')
        /\ {q \in Requests : runs'[q].status = "completed"} = DoneIn(runs')
  BY DEF Writer, WriterIn, TheOne, WritersIn, Writers, Running, DoneIn
<1>3. QED  BY <1>1, <1>2, Views DEF Ledger!vars, SameBusiness, Found, Lates

\* A writer answers, stops or is cancelled.
LEMMA LeaveReleases ==
    ASSUME IInv, NEW s \in Sessions, NEW r \in WritersIn(runs, s),
           \A q \in Requests \ {r} : runs'[q] = runs[q],
           runs'[r].status # "running" \/ runs'[r].cancelled,
           SameBusiness
    PROVE  IF runs'[r].status = "completed" THEN Ledger!Answer(s) ELSE Ledger!Release(s)
<1>1. TypeOK /\ OnlyNewestRuns /\ r \in Requests /\ runs[r].status = "running"
  BY DEF IInv, WritersIn
<1>2. PICK U : U = runs'  OBVIOUS
<1>3. WriterIn(runs)[s] = r /\ WriterIn(U) = [WriterIn(runs) EXCEPT ![s] = None]
  BY <1>1, <1>2, WriterLeaves
<1>4. r # None  BY <1>1, FenceAssumption
<1>5. DoneIn(runs') = IF runs'[r].status = "completed" THEN DoneIn(runs) \union {r} ELSE DoneIn(runs)
  BY <1>1 DEF DoneIn
<1>6. Writer' = WriterIn(runs')
        /\ {q \in Requests : runs'[q].status = "completed"} = DoneIn(runs')
  BY DEF Writer, WriterIn, TheOne, WritersIn, Writers, Running, DoneIn
<1>7. QED
  BY <1>2, <1>3, <1>4, <1>5, <1>6, Views DEF Ledger!Answer, Ledger!Release, Ledger!session,
     SameBusiness, Found, Lates

LEMMA LandRefines ==
    ASSUME IInv, Kinship, NEW w \in writes, Land(w)
    PROVE  Ledger!Next \/ UNCHANGED Ledger!vars
<1>0. attempts[w.owner].req \in Requests /\ attempts[w.owner].session \in Sessions
  BY DEF IInv, TypeOK, Writes, InFlight, Assigned
<1>1. PICK r \in Requests, s \in Sessions :
        /\ runs \in [Requests -> Rows] /\ r = attempts[w.owner].req /\ s = attempts[w.owner].session
        /\ w.status \in {"running", "completed", "stopped"}
  BY <1>0 DEF IInv, TypeOK, Writes
<1>2. runs[r].status = "running" /\ runs[r].session = s /\ (w.status # "stopped" => ~runs[r].cancelled)
  BY <1>1 DEF Land, Accepted, Owned, Stops
<1>3. /\ runs'[r].status = w.status /\ runs'[r].cancelled = runs[r].cancelled
      /\ runs'[r].session = runs[r].session
      /\ \A q \in Requests \ {r} : runs'[q] = runs[q]
      /\ SameBusiness
  <2>1. SameBusiness  BY OthersSameBusiness DEF Land
  <2>2. QED  BY <1>1, <2>1 DEF Land, Rows
<1>4. CASE runs[r].cancelled
  <2>1. w.status \in {"running", "stopped"}  BY <1>1, <1>2, <1>4
  <2>2. \A z \in Sessions : WritersIn(runs', z) = WritersIn(runs, z)
    BY <1>1, <1>3, <1>4 DEF WritersIn
  <2>3. DoneIn(runs') = DoneIn(runs)  BY <1>2, <1>3, <2>1 DEF DoneIn
  <2>4. QED  BY <1>3, <2>2, <2>3, NoLedgerStep
<1>5. CASE ~runs[r].cancelled /\ w.status = "running"
  <2>1. \A z \in Sessions : WritersIn(runs', z) = WritersIn(runs, z)
    BY <1>2, <1>3, <1>5 DEF WritersIn
  <2>2. DoneIn(runs') = DoneIn(runs)  BY <1>2, <1>3, <1>5 DEF DoneIn
  <2>3. QED  BY <1>3, <2>1, <2>2, NoLedgerStep
<1>6. CASE ~runs[r].cancelled /\ w.status # "running"
  <2>1. r \in WritersIn(runs, s)  BY <1>1, <1>2, <1>6 DEF WritersIn
  <2>2. Ledger!Answer(s) \/ Ledger!Release(s)  BY <1>3, <1>6, <2>1, LeaveReleases
  <2>3. QED  BY <1>1, <2>2 DEF Ledger!Next
<1>7. QED  BY <1>4, <1>5, <1>6

LEMMA CancelRefines ==
    ASSUME IInv, Kinship, NEW r \in Requests, Cancel(r)
    PROVE  Ledger!Next \/ UNCHANGED Ledger!vars
<1>1. runs \in [Requests -> Rows]  BY DEF IInv, TypeOK
<1>2. /\ runs[r].status = "running" /\ ~runs[r].cancelled
      /\ runs'[r].status = "running" /\ runs'[r].cancelled
      /\ \A q \in Requests \ {r} : runs'[q] = runs[q]
      /\ SameBusiness
  <2>1. SameBusiness  BY OthersSameBusiness DEF Cancel
  <2>2. QED  BY <1>1, <2>1 DEF Cancel, Rows
<1>3. CASE runs[r].session \in Sessions
  <2>1. PICK s \in Sessions : s = runs[r].session  BY <1>3
  <2>2. r \in WritersIn(runs, s)  BY <1>2, <2>1 DEF WritersIn
  <2>3. Ledger!Release(s)  BY <1>2, <2>2, LeaveReleases
  <2>4. QED  BY <2>3 DEF Ledger!Next
<1>4. CASE runs[r].session \notin Sessions
  <2>1. \A z \in Sessions : WritersIn(runs', z) = WritersIn(runs, z)
    BY <1>2, <1>4 DEF WritersIn
  <2>2. DoneIn(runs') = DoneIn(runs)  BY <1>2 DEF DoneIn
  <2>3. QED  BY <1>2, <2>1, <2>2, NoLedgerStep
<1>5. QED  BY <1>3, <1>4

\* A deletion finds the runs of its session: the writer is among them.
LEMMA DeleteRunsFences ==
    ASSUME IInv, NEW s \in Sessions, DeleteRuns(s), NEW F, F = RunsOf(s)
    PROVE  Ledger!Fence(s, F)
<1>1. TypeOK /\ OnlyNewestRuns  BY DEF IInv
<1>2. WriterIn(runs)[s] \in RunsOf(s) \union {None}
  <2>1. CASE WritersIn(runs, s) = {}  BY <2>1, WriterIs
  <2>2. ASSUME NEW r \in WritersIn(runs, s) PROVE WriterIn(runs)[s] \in RunsOf(s)
    <3>1. WriterIn(runs)[s] = r  BY <1>1, OneWriter
    <3>2. r \in RunsOf(s)  BY DEF WritersIn, RunsOf, Exists
    <3>3. QED  BY <3>1, <3>2
  <2>3. QED  BY <2>1, <2>2
<1>3. Found' = [Found EXCEPT ![s] = RunsOf(s)]
  BY <1>1 DEF DeleteRuns, Found, TypeOK
<1>4. UNCHANGED <<runs, open, trips, receipts, Lates>>  BY DEF DeleteRuns, Lates
<1>5. Writer' = Writer /\ s \in open  BY <1>4 DEF Writer, Writers, Running, DeleteRuns
<1>6. QED
  BY <1>2, <1>3, <1>4, <1>5, Views DEF Ledger!Fence, Found, Lates

\* When a deletion commits, the runs it has found write no more.
LEMMA DeleteCloses ==
    ASSUME IInv, NEW s \in Sessions, CommitDelete(s)
    PROVE  Ledger!Close(s)
<1> DEFINE seen == deleting[s].seen
<1>1. runs \in [Requests -> Rows] /\ TypeOK /\ OnlyNewestRuns  BY DEF IInv, TypeOK
<1>2. s \in open /\ \A q \in Requests \intersect seen : runs[q].session = s
  BY DEF CommitDelete, UnderWay, IInv, Fences, Deleting
<1>3. \A q \in Requests :
        /\ q \notin seen => runs'[q] = runs[q]
        /\ q \in seen => runs'[q].cancelled /\ runs'[q].session = s
        /\ runs'[q].status = "completed" <=> runs[q].status = "completed"
  BY <1>1, <1>2 DEF CommitDelete, StoppedRun, Rows
<1> HIDE DEF seen
<1>4. WritersIn(runs', s) = WritersIn(runs, s) \ seen  BY <1>3 DEF WritersIn
<1>5. \A z \in Sessions \ {s} : WritersIn(runs', z) = WritersIn(runs, z)
  BY <1>2, <1>3 DEF WritersIn
<1>6. WriterIn(runs') = [WriterIn(runs) EXCEPT ![s] = IF @ \in seen THEN None ELSE @]
  <2>1. WriterIn(runs')[s] = IF WriterIn(runs)[s] \in seen THEN None ELSE WriterIn(runs)[s]
    <3>1. PICK U : U = runs'  OBVIOUS
    <3>2. QED  BY <1>1, <1>4, <3>1, KeptWriters
  <2>2. \A z \in Sessions \ {s} : WriterIn(runs')[z] = WriterIn(runs)[z]  BY <1>5 DEF WriterIn
  <2>3. QED  BY <2>1, <2>2 DEF WriterIn
<1>7. DoneIn(runs') = DoneIn(runs)  BY <1>3 DEF DoneIn
<1>8. Writer' = WriterIn(runs')
        /\ {q \in Requests : runs'[q].status = "completed"} = DoneIn(runs')
  BY DEF Writer, WriterIn, TheOne, WritersIn, Writers, Running, DoneIn
<1>9. Lates' \in {Lates, Lates \union {s}}  BY <1>2 DEF CommitDelete, Lates
<1>10. Found' = Found
  BY <1>1 DEF CommitDelete, Found, TypeOK, Deletions
<1>11. /\ open' = open \ {s} /\ receipts' = receipts
       /\ trips' \in {trips, [trips EXCEPT ![s] = {}]}
  BY DEF CommitDelete
<1>12. Found[s] = seen  BY DEF Found, seen
<1>13. QED
  BY <1>2, <1>6, <1>7, <1>8, <1>9, <1>10, <1>11, <1>12, Views DEF Ledger!Close, Found, Lates

\* A transaction is a change of the writer, made once, and the late one of a session
\* that was deleted meanwhile.
LEMMA CommitChanges ==
    ASSUME IInv, NEW p \in posts, Commit(p)
    PROVE  Ledger!Change(attempts[p.owner].session, p.op)
<1> DEFINE r == attempts[p.owner].req
           s == attempts[p.owner].session
           e == [req |-> r, op |-> p.op, expected |-> p.expected,
                 version |-> Effect(p.op, trips[s]), created |-> clock + 1]
<1>1. /\ r \in Requests /\ s \in Sessions /\ trips \in [Sessions -> Trips]
      /\ TypeOK /\ OnlyNewestRuns
  BY DEF IInv, TypeOK, Posts, InFlight, Assigned
<1>2. Entered(p) /\ applying = {p}  BY DEF Commit, IInv, Fences
<1>3. r \in WritersIn(runs, s) /\ r \notin Found[s]
  BY <1>1, <1>2 DEF Entered, OwnedPost, Live, WritersIn, Found
<1>4. WriterIn(runs)[s] = r /\ r # None  BY <1>1, <1>3, OneWriter, FenceAssumption
<1>5. \A d \in receipts : ~(d.req = r /\ d.op = p.op)  BY <1>2 DEF Entered, ReceiptFor
<1>6. receipts' = receipts \union {e} /\ e.req = r /\ e.op = p.op  BY DEF Commit
<1>7. /\ UNCHANGED <<runs, open, deleting>> /\ applying' = {}
      /\ trips' = [trips EXCEPT ![s] = Effect(p.op, trips[s])]
  BY DEF Commit
<1>8. [trips EXCEPT ![s] = Effect(p.op, trips[s])] = [trips EXCEPT ![s] = Ledger!Merged(p.op, @)]
  BY <1>1 DEF Effect, Ledger!Merged
<1> HIDE DEF e
<1>9. Changes(receipts') = Changes(receipts) \union {<<r, p.op>>}  BY <1>6 DEF Changes
<1>10. <<r, p.op>> \notin Changes(receipts)  BY <1>5 DEF Changes
<1>11. Writer' = Writer /\ {<<d.req, d.op>> : d \in receipts'} = Changes(receipts')
  BY <1>7 DEF Writer, Writers, Running, Changes
<1>12. Lates = {s} \ open /\ Lates' = {} /\ Found' = Found  BY <1>2, <1>7 DEF Lates, Found
<1>13. s \in open \union Lates /\ Lates' = Lates \ {s}  BY <1>12
<1>14. {q \in Requests : runs'[q].status = "completed"} = DoneIn(runs)  BY <1>7 DEF DoneIn
<1>15. Writer[s] = r /\ Writer[s] \notin Found[s] \union {None}
  BY <1>3, <1>4, Views
<1> HIDE DEF r
<1>16. QED
  BY <1>7, <1>8, <1>9, <1>10, <1>11, <1>12, <1>13, <1>14, <1>15, Views
     DEF Ledger!Change, Found, Lates

\* The other steps of a mutation change nothing, or end a late change that was refused.
LEMMA MutationWaits ==
    ASSUME IInv, Kinship, NEW p \in posts,
           \/ Enter(p) \/ ReturnReceipt(p) \/ RejectStopped(p) \/ RejectConflict(p)
           \/ RejectVersion(p)
    PROVE  Ledger!Next \/ UNCHANGED Ledger!vars
<1> DEFINE s == attempts[p.owner].session
<1>1. s \in Sessions  BY DEF IInv, TypeOK, Posts, InFlight, Assigned
<1>2. runs' = runs
  BY DEF Enter, ReturnReceipt, RejectStopped, RejectConflict, RejectVersion
<1>3. SameBusiness => UNCHANGED Ledger!vars  BY <1>2, NoLedgerStep
<1>4. CASE ReturnReceipt(p) \/ RejectStopped(p) \/ RejectConflict(p)
  BY <1>3, <1>4, OthersSameBusiness DEF ReturnReceipt, RejectStopped, RejectConflict
<1>5. CASE Enter(p)
  <2>1. /\ applying = {} /\ applying' = {p} /\ s \in open
        /\ UNCHANGED <<open, trips, receipts, attempts, deleting>>
    BY <1>5 DEF Enter, Taken, Required
  <2>2. Lates = {} /\ Lates' = {} /\ Found' = Found  BY <2>1 DEF Lates, Found
  <2>3. QED  BY <1>3, <2>1, <2>2 DEF SameBusiness
<1>6. CASE RejectVersion(p)
  <2>1. /\ applying = {p} /\ applying' = {}
        /\ UNCHANGED <<open, trips, receipts, deleting>>
    BY <1>6 DEF RejectVersion, IInv, Fences
  <2>2. Lates = {s} \ open /\ Lates' = {} /\ Found' = Found  BY <2>1 DEF Lates, Found
  <2>3. CASE s \in open
    <3>1. Lates' = Lates  BY <2>2, <2>3
    <3>2. QED  BY <1>3, <2>1, <2>2, <3>1 DEF SameBusiness
  <2>4. CASE s \notin open
    <3>1. s \in Lates /\ Lates' = Lates \ {s}  BY <2>2, <2>4
    <3>2. Writer' = Writer /\ UNCHANGED {q \in Requests : runs[q].status = "completed"}
      BY <1>2 DEF Writer, Writers, Running
    <3>3. PICK z \in Sessions : z = s  BY <1>1
    <3>4. Ledger!Drop(z)  BY <2>1, <2>2, <3>1, <3>2, <3>3 DEF Ledger!Drop, Lates, Found
    <3>5. QED  BY <3>4 DEF Ledger!Next
  <2>5. QED  BY <2>3, <2>4
<1>7. QED  BY <1>4, <1>5, <1>6

\* The DELETE of the trip is no step of the ledger.
LEMMA DeleteTripWaits ==
    ASSUME IInv, NEW s \in Sessions, DeleteTrip(s)
    PROVE  UNCHANGED Ledger!vars
<1>1. UNCHANGED <<runs, open, trips, receipts, attempts, applying>>  BY DEF DeleteTrip
<1>2. Lates' = Lates  BY <1>1 DEF Lates
<1>3. Found' = Found  BY DEF DeleteTrip, Found, IInv, TypeOK, Deletions
<1>4. QED  BY <1>1, <1>2, <1>3, NoLedgerStep DEF SameBusiness

LEMMA BusinessRefines ==
    ASSUME IInv, Kinship, BusinessNext
    PROVE  Ledger!Next \/ UNCHANGED Ledger!vars
<1>1. ASSUME NEW p \in posts, Commit(p) PROVE Ledger!Next
  <2>1. p.op \in Ops /\ attempts[p.owner].session \in Sessions
    BY DEF IInv, TypeOK, Posts, InFlight, Assigned
  <2>2. QED  BY <1>1, <2>1, CommitChanges DEF Ledger!Next
<1>2. ASSUME NEW s \in Sessions, CommitDelete(s) PROVE Ledger!Next
  BY <1>2, DeleteCloses DEF Ledger!Next
<1>3. ASSUME NEW s \in Sessions, DeleteRuns(s) PROVE Ledger!Next
  <2>1. PICK F \in SUBSET Requests : F = RunsOf(s)  BY DEF RunsOf
  <2>2. Ledger!Fence(s, F)  BY <1>3, <2>1, DeleteRunsFences
  <2>3. QED  BY <2>2 DEF Ledger!Next
<1>4. QED  BY <1>1, <1>2, <1>3, MutationWaits, DeleteTripWaits DEF BusinessNext

LEMMA StepRefines ==
    ASSUME IInv, [Next]_vars
    PROVE  Ledger!Next \/ UNCHANGED Ledger!vars
<1>0. Kinship  BY StepKinship DEF IInv
<1>1. CASE runs' = runs /\ UNCHANGED businessVars
  BY <1>0, <1>1, OthersSameBusiness, NoLedgerStep
<1>2. ASSUME NEW o \in Owners, NEW r \in Requests, NEW s \in Sessions, NEW h \in Hashes,
             Begin(o, r, s, h) \/ Replay(o, r, s, h)
      PROVE  Ledger!Next
  <2>1. PICK F \in SUBSET Requests : F = expired  BY DEF IInv, TypeOK
  <2>2. Ledger!Grant(s, r, F) \/ Ledger!Recall(F)
    BY <1>0, <1>2, <2>1, BeginGrants, ReplayRecalls
  <2>3. QED  BY <2>2 DEF Ledger!Next
<1>3. ASSUME StoreNext
      PROVE  \/ \E o \in Owners, q \in Requests, s \in Sessions, h \in Hashes :
                   Begin(o, q, s, h) \/ Replay(o, q, s, h)
             \/ \E w \in writes : Land(w)
             \/ \E q \in Requests : Cancel(q)
             \/ runs' = runs /\ UNCHANGED businessVars
  BY <1>3 DEF StoreNext, Refuse, RetentionElapses
<1>4. ASSUME NEW o \in Owners, TurnNext(o) PROVE runs' = runs /\ UNCHANGED businessVars
  BY <1>4 DEF TurnNext, LoadContext, LoadFails, Produce, Reuse, Submit, Save, Check, Finish,
              Abort, Crash
<1>5. CASE StoreNext  BY <1>0, <1>1, <1>2, <1>3, <1>5, LandRefines, CancelRefines
<1>6. CASE BusinessNext  BY <1>0, <1>6, BusinessRefines
<1>7. CASE UNCHANGED vars  BY <1>1, <1>7 DEF vars, businessVars, transactions
<1>8. QED  BY <1>1, <1>4, <1>5, <1>6, <1>7 DEF Next

LEMMA InitRefines == Init => Ledger!Init
<1> SUFFICES ASSUME Init PROVE Ledger!Init
    OBVIOUS
<1>1. \A s \in Sessions : WritersIn(runs, s) = {}  BY DEF Init, WritersIn, NoRow
<1>2. \A s \in Sessions : WriterIn(runs)[s] = None  BY <1>1, WriterIs
<1>3. WriterIn(runs) = [s \in Sessions |-> None]  BY <1>2 DEF WriterIn
<1>4. DoneIn(runs) = {} /\ Changes(receipts) = {}  BY DEF Init, DoneIn, Changes, NoRow
<1>5. \A s \in Sessions : deleting[s].seen = {}  BY DEF Init, NoDeletion
<1>6. Found = [s \in Sessions |-> {}] /\ Lates = {}  BY <1>5 DEF Found, Lates, Init
<1>7. QED  BY <1>3, <1>4, <1>6, Views DEF Ledger!Init, Init, Found, Lates

\* Attempts, retries, lost answers, late POSTs and deletions, seen from outside, are one
\* ledger: in each session one request at a time writes, each change is made once, whoever
\* was answered or found by a deletion writes no more, and a deleted session takes one
\* late change at most.
THEOREM RunsImplementLedger == Spec => ImplementsLedger
<1>1. IInv /\ [Next]_vars => [Ledger!Next]_(Ledger!vars)
  BY StepRefines
<1>2. QED  BY <1>1, InitRefines, Invariance, PTL DEF Spec, ImplementsLedger, Ledger!Spec
=============================================================================
