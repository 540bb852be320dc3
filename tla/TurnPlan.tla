------------------------------ MODULE TurnPlan ------------------------------
(***************************************************************************)
(* The work of one request inside the Supervisor (agent_runtime/engine.py  *)
(* and execution_plan.py): the attempts of one request after another, the  *)
(* steps registered in its plan, the specialists delegated in rounds and   *)
(* run side by side, the trip changes they propose, and the checkpoint a   *)
(* later attempt resumes.  One segment of a coroutine between two awaits   *)
(* is one action; it ends with the save of the checkpoint the code makes   *)
(* there.  What the model of a specialist or of the supervisor decides is  *)
(* chosen freely.  RunFence models the fence between overlapping attempts; *)
(* here the attempts of a request follow one another, until a newer        *)
(* request of the session supersedes it.                                   *)
(***************************************************************************)
EXTENDS Naturals, FiniteSets, Functions

CONSTANTS
  Tasks,         \* the task texts the supervisor may delegate
  Role,          \* the specialist of each task
  Needs,         \* the tasks whose results a task may take as dependencies
  Route,         \* the number of each task where the request is routed directly
  Outcomes,      \* the report statuses to explore
  Profiled,      \* the tasks whose role sees a part of the saved user profile
  MaxRounds,     \* main_rounds
  MaxBatch,      \* the tool calls of a round (six in the code)
  MaxRoleTasks,  \* max_role_tasks
  MaxChildren,   \* max_children
  Parallel,      \* parallel_children
  MaxVersion,    \* bound: versions of the trip
  MaxOwners,     \* bound: attempts of the request
  None

Intake == 0                     \* the step of the submitted form
Ids == 0..MaxChildren           \* the children are numbered as they are created
Versions == 1..MaxVersion
\* task_key: a task for a version of the trip; the fingerprint of a delegation
\* includes the profile where there is one, that of register elsewhere does not.
Keys == Tasks \X Versions \X BOOLEAN
Calls == (0..MaxRounds) \X Tasks
Routed == {t \in Tasks : Role[t] \in {"travel_info", "policy_rag"}}
Active == {"pending", "running"}
Usable == {"success", "partial"}

ASSUME TurnPlanAssumption ==
  /\ MaxRounds \in Nat /\ MaxRoleTasks \in Nat \ {0} /\ MaxChildren \in Nat \ {0}
  /\ Parallel \in Nat \ {0} /\ MaxVersion \in Nat \ {0} /\ MaxOwners \in Nat
  /\ Profiled \subseteq Tasks
  /\ MaxBatch \in Nat \ {0}
  /\ Route \in [Tasks -> 1..MaxChildren] /\ IsInjective(Route)
  /\ Role \in [Tasks -> {"trip_context", "policy_rag", "travel_info", "trip_planner"}]
  /\ Needs \in [Tasks -> SUBSET Tasks]
  /\ Outcomes \subseteq {"success", "partial", "needs_input", "unavailable"}

VARIABLES
  turn,     \* the state of the attempt in its worker
  disk,     \* the checkpoint in supervisor_runs
  status,   \* the status column of supervisor_runs; "superseded" is the "interrupted"
            \* that the beginning of a newer request writes
  phase,    \* where the attempt is; "none" between attempts
  shown,    \* the status of the public plan in the checkpoint, "none" before
  mode,     \* which entrance of execute_work the text of the request takes
  profile,  \* whether the user has a saved profile
  owner,    \* the number of attempts begun
  co,       \* the coroutine of each call of the round
  posts,    \* mutations on their way: step, attempt, expected version
  receipts, \* the trip version each committed step made, None before
  trip      \* the version of the stored trip

vars == <<turn, disk, status, phase, shown, mode, profile, owner, co, posts, receipts, trip>>

Step == [status : {"none", "pending", "running", "completed", "partial", "needs_input",
                   "failed", "skipped", "cancelled"},
         attempts : 1..2, task : Tasks \cup {None}, version : Versions,
         deps : SUBSET Ids, call : Calls \cup {None}]
Result == [status : Outcomes \cup {"success"}, version : Versions, proposal : BOOLEAN]
Checkpoint ==
  [version : Versions, plan : [Keys -> Ids \cup {None}], step : [Ids -> Step],
   result : [Ids -> Result \cup {None}], applied : SUBSET Ids, calls : 0..MaxChildren,
   round : 0..MaxRounds, pending : SUBSET Tasks, done : SUBSET Tasks]
ASSUME NoneAssumption == None \notin Nat \cup Tasks \cup Calls \cup Result

Coroutine == [at : {"idle", "queued", "working", "applying"}, id : Ids, version : Versions]
Idle == [at |-> "idle", id |-> 0, version |-> 1]

NoStep == [status |-> "none", attempts |-> 1, task |-> None, version |-> 1,
           deps |-> {}, call |-> None]
Fresh == [version |-> 1, plan |-> [k \in Keys |-> None], step |-> [i \in Ids |-> NoStep],
          result |-> [i \in Ids |-> None], applied |-> {}, calls |-> 0, round |-> 0,
          pending |-> {}, done |-> {}]

TypeOK ==
  /\ turn \in Checkpoint /\ disk \in Checkpoint
  /\ status \in {"new", "running", "completed", "interrupted", "superseded", "failed"}
  /\ phase \in {"none", "form", "posted", "routes", "rounds"}
  /\ mode \in {"form", "routes", "rounds"} /\ profile \in BOOLEAN
  /\ shown \in {"none", "running", "completed", "partial", "waiting_input", "degraded",
                "cancelled", "failed"}
  /\ owner \in 0..MaxOwners
  /\ co \in [Tasks -> Coroutine]
  /\ posts \subseteq Ids \X (1..MaxOwners) \X Versions
  /\ receipts \in [Ids -> Versions \cup {None}]
  /\ trip \in Versions

-----------------------------------------------------------------------------
(* The plan: execution_plan.py.                                            *)

\* The steps of the ledger; an entry that was replaced is in it no more.
Listed(s) == ({s.plan[k] : k \in Keys} \cup {Intake}) \ {None}
ActiveSteps(s) == {i \in Listed(s) : s.step[i].status \in Active}

WithStep(s, i, st) == [s EXCEPT !.step[i].status = st]

\* settle: "waiting_input" skips, and a running step cannot be skipped.
SettledAs(outcome) ==
  CASE outcome = "cancelled"     -> "cancelled"
    [] outcome = "waiting_input" -> "skipped"
    [] OTHER                     -> "failed"
Settles(s, outcome) ==
  outcome = "waiting_input" => \A i \in ActiveSteps(s) : s.step[i].status = "pending"
RunningSettled(s, outcome) ==
  [s EXCEPT !.step = [i \in Ids |-> IF s.step[i].status = "running"
                                     THEN [s.step[i] EXCEPT !.status = SettledAs(outcome)]
                                     ELSE s.step[i]]]
Settled(s, outcome) ==
  [s EXCEPT !.step = [i \in Ids |-> IF i \in ActiveSteps(s)
                                     THEN [s.step[i] EXCEPT !.status = SettledAs(outcome)]
                                     ELSE s.step[i]]]

Skipped(s, some) ==
  [s EXCEPT !.step = [i \in Ids |-> IF i \in some THEN [s.step[i] EXCEPT !.status = "skipped"]
                                     ELSE s.step[i]]]

\* What settle makes of "completed" when a step of the plan ended otherwise.
Outcome(s, outcome) ==
  LET some(st) == \E i \in Listed(s) : s.step[i].status = st
  IN  IF outcome # "completed" THEN outcome
      ELSE IF some("failed") THEN "degraded"
      ELSE IF some("needs_input") THEN "waiting_input"
      ELSE IF some("partial") THEN "partial" ELSE "completed"

ReopenedUncounted(s) ==
  [s EXCEPT !.step = [i \in Ids |->
     IF s.step[i].call = None \/ i \notin Listed(s) \/ s.step[i].status # "cancelled"
       THEN s.step[i]
     ELSE [s.step[i] EXCEPT !.status = "pending"]]]

\* resume: a cancelled step that has a child is reopened once.
Resumed(s) ==
  [s EXCEPT !.step = [i \in Ids |->
     IF s.step[i].call = None \/ i \notin Listed(s) \/ s.step[i].status # "cancelled"
       THEN s.step[i]
     ELSE IF s.step[i].attempts = 2 THEN [s.step[i] EXCEPT !.status = "failed"]
     ELSE [s.step[i] EXCEPT !.status = "pending", !.attempts = 2]]]

\* transition to running; a running step stays so.
CanStart(s, i) ==
  /\ s.step[i].status \in Active
  /\ s.step[i].status = "pending" =>
       \A d \in s.step[i].deps : s.result[d] # None /\ s.result[d].status \in Usable

EndOf(result) ==
  CASE result.status = "success"     -> "completed"
    [] result.status = "partial"     -> "partial"
    [] result.status = "needs_input" -> "needs_input"
    [] OTHER                         -> "failed"

-----------------------------------------------------------------------------
(* Beginning and ending an attempt: Turn.execute.                          *)

Init ==
  /\ turn = Fresh /\ disk = Fresh /\ status = "new" /\ phase = "none" /\ owner = 0
  /\ shown = "none"
  /\ mode \in {"form", "routes", "rounds"} /\ profile \in BOOLEAN
  /\ co = [t \in Tasks |-> Idle] /\ posts = {}
  /\ receipts = [i \in Ids |-> None] /\ trip = 1

outside == <<posts, receipts, trip>>

\* A segment that ends with a save of the state s, which only a running row takes:
\* in the attempt of a superseded request it raises RuntimeStopped.
Saves(s) ==
  /\ status = "running"
  /\ turn' = s /\ disk' = s
  /\ UNCHANGED <<status, phase, shown, mode, profile, owner>>

\* Where a new attempt goes: a form that is applied already leads to the loop.
Entrance(s) == IF mode = "form" /\ Intake \in s.applied THEN "rounds" ELSE mode

Begin ==
  /\ phase = "none" /\ status \notin {"completed", "superseded"} /\ owner < MaxOwners
  /\ owner' = owner + 1
  /\ status' = "running" /\ shown' = "running"
  /\ turn' = IF status = "new" THEN [Fresh EXCEPT !.version = trip]
             ELSE IF mode = "routes" THEN [Resumed(disk) EXCEPT !.pending = {}, !.done = {}]
             ELSE Resumed(disk)
  /\ disk' = turn'
  /\ phase' = Entrance(turn')
  /\ co' = [t \in Tasks |-> Idle]
  /\ UNCHANGED <<outside, mode, profile>>

\* A newer request of the session begins: the row of this one is fenced with
\* the plan it has, and no attempt of it begins again.
Supersede ==
  /\ status = "running" /\ status' = "superseded"
  /\ UNCHANGED <<turn, disk, phase, shown, mode, profile, owner, co, outside>>

Leaves(s, st, outcome) ==
  /\ status = "running"
  /\ turn' = s /\ disk' = s /\ status' = st /\ phase' = "none" /\ shown' = outcome
  /\ co' = [t \in Tasks |-> Idle]
  /\ UNCHANGED <<owner, mode, profile, outside>>

\* The answer of an outcome is saved after settle; where settle refuses, the
\* attempt is recorded as failed instead and the request raises, with the
\* pending steps skipped that it came upon first.
Finishes(outcome) ==
  IF Settles(turn, outcome)
    THEN LET s == Settled(turn, outcome) IN Leaves(s, "completed", Outcome(s, outcome))
    ELSE \E some \in SUBSET {i \in ActiveSteps(turn) : turn.step[i].status = "pending"} :
           Leaves(Settled(Skipped(turn, some), "failed"), "failed", "failed")

\* A turn timeout, an error of a tool or of the form, a limit: the fallback
\* answer with what is deliverable.
Degrade == phase # "none" /\ Finishes("degraded")

\* The checkpoint stays as it was last saved.
Abandons ==
  /\ phase' = "none" /\ turn' = disk
  /\ co' = [t \in Tasks |-> Idle]
  /\ UNCHANGED <<disk, status, shown, mode, profile, owner, outside>>

\* RuntimeStopped or the cancellation of the request: the settled plan is written
\* to a running row only.
StopTurn ==
  /\ phase # "none"
  /\ \/ Leaves(Settled(turn, "cancelled"), "interrupted", "cancelled")
     \/ status = "superseded" /\ Abandons

\* The worker dies.
Crash == phase # "none" /\ Abandons

StoredPlan == disk

\* What a reader is given: the plan of a fenced attempt as the fence ended it.
PublicPlan ==
  IF status \in {"interrupted", "superseded", "failed"} /\ shown = "running"
    THEN Settled(disk, IF status = "failed" THEN "failed" ELSE "cancelled")
    ELSE disk

-----------------------------------------------------------------------------
(* The submitted form: Turn.execute_work.                                  *)

RegisterForm ==
  /\ phase = "form" /\ turn.step[Intake].status = "none"
  /\ Saves(WithStep([turn EXCEPT !.step[Intake].version = turn.version], Intake, "pending"))
  /\ UNCHANGED <<co, outside>>

\* start_step, then the report of the host and apply_changes. A step that an
\* earlier attempt left cancelled cannot start: only Degrade is left then.
StartForm ==
  /\ phase = "form" /\ status = "running" /\ turn.step[Intake].status \in Active
  /\ disk' = WithStep(turn, Intake, "running")
  /\ turn' = [disk' EXCEPT !.result[Intake] = [status |-> "success", version |-> turn.version,
                                               proposal |-> TRUE]]
  /\ posts' = posts \cup {<<Intake, owner, turn.version>>}
  /\ phase' = "posted"
  /\ UNCHANGED <<status, shown, mode, profile, owner, co, receipts, trip>>

\* What an applied change does to the state: the result carries the version
\* the trip has now.
Applied(s, i) ==
  [s EXCEPT !.version = receipts[i], !.applied = @ \cup {i}, !.result[i].version = receipts[i]]

AnyReply(i) == \A v \in Versions : <<i, owner, v>> \notin posts
Replied(i) == receipts[i] # None /\ \A v \in Versions : <<i, owner, v>> \notin posts

FormApplied ==
  /\ phase = "posted" /\ status = "running" /\ Replied(Intake)
  /\ LET s == WithStep(Applied(turn, Intake), Intake, "completed")
     IN turn' = s /\ disk' = s
  /\ phase' = "rounds"
  /\ UNCHANGED <<status, shown, mode, profile, owner, co, outside>>

-----------------------------------------------------------------------------
(* The business service: one mutation, fenced by the attempt and by the    *)
(* version its proposal was made for; a repeated one gets its receipt.     *)

inside == <<turn, disk, status, phase, shown, mode, profile, owner, co>>

Commit(i, v) ==
  /\ <<i, owner, v>> \in posts
  /\ posts' = posts \ {<<i, owner, v>>}
  /\ \/ receipts[i] # None /\ UNCHANGED <<receipts, trip>>
     \/ /\ receipts[i] = None /\ status = "running" /\ v = trip /\ trip < MaxVersion
        /\ trip' = trip + 1
        /\ receipts' = [receipts EXCEPT ![i] = trip + 1]
  /\ UNCHANGED inside

\* A conflict, a field the service does not accept, a fenced attempt, or a
\* request that is lost.
Reject(post) ==
  /\ posts' = posts \ {post}
  /\ UNCHANGED <<receipts, trip, inside>>

-----------------------------------------------------------------------------
(* The rounds: Turn.loop for the supervisor.                               *)

Current(s, i) == s.result[i] # None /\ s.result[i].version = s.version
Uncommitted(s) ==
  \E i \in Listed(s) : s.result[i] # None /\ s.result[i].proposal /\ i \notin s.applied

\* The tool calls of a round are saved before any of them is executed.
ChooseBatch(batch) ==
  /\ phase = "rounds" /\ turn.pending = {} /\ turn.round < MaxRounds
  /\ batch # {} /\ Cardinality(batch) <= MaxBatch
  /\ Saves([turn EXCEPT !.round = @ + 1, !.pending = batch, !.done = {}])
  /\ UNCHANGED <<co, outside>>

EndRound ==
  /\ phase = "rounds" /\ turn.pending # {} /\ turn.done = turn.pending
  /\ Saves([turn EXCEPT !.pending = {}, !.done = {}])
  /\ UNCHANGED <<co, outside>>

\* finish with an answer of this turn's results, current and committed.
Answer(selected) ==
  /\ phase = "rounds" /\ turn.pending = {} /\ turn.round < MaxRounds /\ selected # {}
  /\ \A i \in selected : /\ Current(turn, i)
                         /\ turn.result[i].proposal => i \in turn.applied
  /\ Finishes("completed")

\* finish(kind=ask), request_information, request_trip_details.
AskUser ==
  phase = "rounds" /\ turn.pending = {} /\ turn.round < MaxRounds /\ Finishes("waiting_input")

-----------------------------------------------------------------------------
(* A request routed without the supervisor's model: Turn.direct_queries.   *)

\* Every deliverable is registered before one of them is delegated.
RegisterRoutes ==
  /\ phase = "routes" /\ turn.pending = {}
  /\ Saves([turn EXCEPT !.pending = Routed,
             !.plan = [k \in Keys |->
                IF k[1] \in Routed /\ k[2] = turn.version /\ ~k[3] /\ turn.plan[k] = None
                THEN Route[k[1]] ELSE turn.plan[k]],
             !.step = [i \in Ids |->
                IF turn.step[i].status = "none" /\ \E t \in Routed : Route[t] = i
                THEN [NoStep EXCEPT !.status = "pending", !.version = turn.version,
                                    !.task = CHOOSE t \in Routed : Route[t] = i]
                ELSE turn.step[i]]])
  /\ UNCHANGED <<co, outside>>

\* Whether a usable result of each is there decides between the two answers.
AnswerRoutes ==
  /\ phase = "routes" /\ turn.pending # {} /\ turn.done = turn.pending
  /\ Finishes("completed") \/ Finishes("degraded")

-----------------------------------------------------------------------------
(* A delegated task: Turn.delegate and Turn._delegate.                     *)

Busy(t) == co[t].at # "idle"
Locked(r) == \E t \in Tasks : Busy(t) /\ Role[t] = r

\* The call of a task in this round, and the child it created in an attempt.
CallOf(t) == <<turn.round, t>>
Children(t) == {i \in Ids \ {Intake} : turn.step[i].call = CallOf(t)}
Key(t, v) == <<t, v, profile /\ t \in Profiled>>
Entry(t) == turn.plan[Key(t, turn.version)]
Group(t) == {i \in Listed(turn) \ {Intake} :
               /\ Role[turn.step[i].task] = Role[t]
               /\ turn.step[i].version = turn.version
               /\ turn.step[i].status # "pending"}

CanEnter(t) ==
  /\ phase \in {"routes", "rounds"} /\ t \in turn.pending \ turn.done
  /\ ~Locked(Role[t])

\* The call answers without running anything: its output is saved.
Answered(t) ==
  /\ Saves([turn EXCEPT !.done = @ \cup {t}])
  /\ co' = [co EXCEPT ![t] = Idle]
  /\ UNCHANGED outside

\* An uncommitted trip change stops every other specialist, and a task that
\* failed is not tried again.
Refused(t) ==
  \/ Role[t] # "trip_context" /\ Uncommitted(turn)
  \/ Role[t] = "trip_context" /\ Intake \in turn.applied /\ ~Current(turn, Intake)
  \/ Entry(t) # None /\ turn.step[Entry(t)].status = "failed"

Reusable(t) ==
  \/ /\ Entry(t) # None /\ Current(turn, Entry(t))
     /\ turn.step[Entry(t)].status \in {"completed", "partial", "needs_input"}
  \/ Role[t] = "trip_context" /\ Intake \in turn.applied /\ Current(turn, Intake)

OneTooMany(t) ==
  Cardinality(Group(t)) > MaxRoleTasks \/ turn.calls > MaxChildren
AtLimit(t) ==
  Cardinality(Group(t)) >= MaxRoleTasks \/ turn.calls >= MaxChildren

Turned(t) ==
  /\ CanEnter(t)
  /\ \/ Refused(t) /\ phase = "rounds"
     \/ Reusable(t)
     \/ \E i \in Children(t) : turn.result[i] # None
     \/ Children(t) = {} /\ AtLimit(t) /\ phase = "rounds"
  /\ Answered(t)

\* The refusal of a routed task fails its step; a step that may not fail any
\* more makes the request raise, which only Degrade answers.
RouteRefused(t) ==
  /\ phase = "routes" /\ CanEnter(t) /\ ~Reusable(t)
  /\ Refused(t) \/ (Children(t) = {} /\ AtLimit(t))
  /\ turn.step[Route[t]].status \in {"pending", "running", "failed"}
  /\ Saves([WithStep(turn, Route[t], "failed") EXCEPT !.done = @ \cup {t}])
  /\ UNCHANGED <<co, outside>>

Queue(t, i, s) ==
  /\ Saves(s)
  /\ co' = [co EXCEPT ![t] = [at |-> "queued", id |-> i, version |-> turn.version]]
  /\ UNCHANGED outside

\* The dependencies are results of the current version, whatever their status.
DependencySets(t) ==
  SUBSET {i \in Listed(turn) \ {Intake} : turn.step[i].task \in Needs[t] /\ Current(turn, i)}

\* register: a step of this id that is listed already stays as it is.
Registered(s, i, t, deps) ==
  IF i \in Listed(s) THEN [s EXCEPT !.step[i].call = CallOf(t)]
  ELSE [s EXCEPT !.plan[Key(t, s.version)] = i,
          !.step[i] = [status |-> "pending", attempts |-> 1, task |-> t,
                       version |-> s.version, deps |-> deps, call |-> CallOf(t)]]

Delegate(t, deps) ==
  /\ CanEnter(t) /\ ~Refused(t) /\ ~Reusable(t) /\ Children(t) = {} /\ ~AtLimit(t)
  /\ LET i == IF phase = "routes" THEN Route[t] ELSE turn.calls + 1
     IN Queue(t, i, Registered([turn EXCEPT !.calls = @ + 1], i, t, deps))

\* A later attempt replays the call of the round it found in the checkpoint.
ResumeChild(t) ==
  /\ CanEnter(t) /\ ~Refused(t) /\ ~Reusable(t)
  /\ \E i \in Children(t) : turn.result[i] = None /\ Queue(t, i, turn)

\* The semaphore of the specialists is held while one runs, not while its
\* change is applied.
Running == {t \in Tasks : co[t].at = "working"}

StartStep(t) ==
  /\ co[t].at = "queued" /\ Cardinality(Running) < Parallel
  /\ CanStart(turn, co[t].id)
  /\ Saves(WithStep(turn, co[t].id, "running"))
  /\ co' = [co EXCEPT ![t].at = "working"]
  /\ UNCHANGED outside

WaitsForDependencies(t) ==
  /\ phase = "rounds" /\ co[t].at = "queued" /\ Cardinality(Running) < Parallel
  /\ turn.step[co[t].id].status \notin Active
  /\ Answered(t)

\* start_step raises: the call fails, the step stays as it was.
StartRefused(t) ==
  /\ phase = "rounds" /\ co[t].at = "queued" /\ Cardinality(Running) < Parallel
  /\ ~CanStart(turn, co[t].id)
  /\ Answered(t)

\* The step is closed only where the ledger still holds it under the key the
\* call computed when it took the lock.
Completed(s, t) ==
  LET i == co[t].id
      key == Key(t, co[t].version)
  IN IF s.plan[key] = i
       THEN [WithStep(s, i, EndOf(s.result[i])) EXCEPT
               !.step[i].version = s.result[i].version,
               !.plan = [k \in Keys |->
                  IF s.result[i].version = co[t].version THEN s.plan[k]
                  ELSE IF k = <<t, s.result[i].version, FALSE>> THEN i
                  ELSE IF k = key THEN None ELSE s.plan[k]]]
       ELSE s

ReportOf(t, st) ==
  [status |-> st, version |-> turn.step[co[t].id].version,
   proposal |-> Role[t] = "trip_context" /\ st \in {"success", "partial"}]

\* A report without a change to commit; a child that timed out or used up its
\* rounds is reported unavailable.
Report(t, st) ==
  /\ co[t].at = "working" /\ ~ReportOf(t, st).proposal
  /\ LET s == Completed([turn EXCEPT !.result[co[t].id] = ReportOf(t, st)], t)
     IN Saves([s EXCEPT !.done = @ \cup {t}])
  /\ co' = [co EXCEPT ![t] = Idle]
  /\ UNCHANGED outside

\* A validated proposal is posted before anything is saved.
Propose(t, st) ==
  /\ co[t].at = "working" /\ ReportOf(t, st).proposal
  /\ turn' = [turn EXCEPT !.result[co[t].id] = ReportOf(t, st)]
  /\ posts' = posts \cup {<<co[t].id, owner, ReportOf(t, st).version>>}
  /\ co' = [co EXCEPT ![t].at = "applying"]
  /\ UNCHANGED <<disk, status, phase, shown, mode, profile, owner, receipts, trip>>

ChangeApplied(t) ==
  /\ co[t].at = "applying" /\ Replied(co[t].id)
  /\ LET s == Completed(Applied(turn, co[t].id), t)
     IN Saves([s EXCEPT !.done = @ \cup {t}])
  /\ co' = [co EXCEPT ![t] = Idle]
  /\ UNCHANGED outside

\* The rejection is the output of the call; the step stays running.
ChangeRejected(t) ==
  /\ co[t].at = "applying" /\ receipts[co[t].id] = None
  /\ \A v \in Versions : <<co[t].id, owner, v>> \notin posts
  /\ Answered(t)

Next ==
  \/ Begin \/ Supersede \/ Degrade \/ StopTurn \/ Crash
  \/ RegisterForm \/ StartForm \/ FormApplied
  \/ RegisterRoutes \/ AnswerRoutes
  \/ \E i \in Ids, v \in Versions : Commit(i, v)
  \/ \E post \in posts : Reject(post)
  \/ \E batch \in SUBSET Tasks : ChooseBatch(batch)
  \/ EndRound \/ AskUser
  \/ \E selected \in SUBSET Ids : Answer(selected)
  \/ \E t \in Tasks :
       \/ Turned(t) \/ RouteRefused(t) \/ ResumeChild(t)
       \/ StartStep(t) \/ StartRefused(t)
       \/ ChangeApplied(t) \/ ChangeRejected(t)
       \/ \E deps \in DependencySets(t) : Delegate(t, deps)
       \/ \E st \in Outcomes : Report(t, st) \/ Propose(t, st)

Spec == Init /\ [][Next]_vars

\* What a segment raises: the round limit, a form that cannot start or is
\* rejected, a routed task whose step may not start or may not fail.
Raises ==
  \/ phase = "rounds" /\ turn.pending = {} /\ turn.round = MaxRounds
  \/ phase = "form" /\ turn.step[Intake].status \notin Active \cup {"none"}
  \/ phase = "posted" /\ receipts[Intake] = None /\ \A post \in posts : post[1] # Intake
  \/ /\ phase = "routes"
     /\ \E t \in Tasks :
          \/ co[t].at = "queued" /\ ~CanStart(turn, co[t].id)
          \/ CanEnter(t) /\ turn.step[Route[t]].status \notin {"pending", "running", "failed"}
Raise == Raises /\ Degrade

\* The segments of the attempt: each is on the event loop or waits for a reply.
\* The attempt of a superseded request is stopped by its next save, or by the
\* monitor that looks at the row every half second.
Segment ==
  \/ RegisterForm \/ StartForm \/ FormApplied \/ RegisterRoutes \/ AnswerRoutes
  \/ \E batch \in SUBSET Tasks : ChooseBatch(batch)
  \/ EndRound \/ AskUser \/ Raise
  \/ status = "superseded" /\ StopTurn
  \/ \E selected \in SUBSET Ids : Answer(selected)
  \/ \E t \in Tasks :
       \/ Turned(t) \/ RouteRefused(t) \/ ResumeChild(t)
       \/ StartStep(t) \/ StartRefused(t)
       \/ ChangeApplied(t) \/ ChangeRejected(t)
       \/ \E deps \in DependencySets(t) : Delegate(t, deps)
       \/ \E st \in Outcomes : Report(t, st) \/ Propose(t, st)

\* The event loop runs what is ready, and the requests to the business service
\* have a timeout.  Nothing is assumed of the turn's own timeout.
Replies == \E post \in posts : Commit(post[1], post[3]) \/ Reject(post)
FairSpec == Spec /\ WF_vars(Segment) /\ WF_vars(Replies)

-----------------------------------------------------------------------------
\* The plan a reader is given of a request that has ended has no step pending or
\* running ("超时、取消、失败后收口所有活跃步骤",
\* docs/2026-09-10-execution-plan-and-multi-intent-report.md:23): an attempt that
\* ends by itself settles the plan it stores, and one that a newer request fenced,
\* whose plan stays as it was (store.py:86, 117), is settled where it is read
\* (store.py:141-148).
EndedIsSettled ==
  status \notin {"new", "running"} =>
    /\ ActiveSteps(PublicPlan) = {}
    /\ status # "superseded" => ActiveSteps(disk) = {}

\* A trip change the plan shows as saved is in the business tables, also after
\* a crash between the commit and the checkpoint, and a checkpoint never names
\* a version the trip does not have (engine.py:1265-1277).
SavedIsCommitted ==
  /\ \A i \in Ids : i \in disk.applied => receipts[i] # None /\ receipts[i] <= trip
  /\ \A i \in Listed(disk) :
       disk.step[i].status = "completed" /\ disk.result[i].proposal => i \in disk.applied
  /\ disk.version <= trip

\* The saved plan of a request implements the ledger it shows to the user: over
\* crashes, cancellations and takeovers a step never starts twice, an ended one
\* never moves again, and a cancelled one is reopened once (execution_plan.py).
L == INSTANCE StepLedger WITH
       step <- [i \in Ids |-> [status |-> disk.step[i].status, attempts |-> disk.step[i].attempts]]
ImplementsLedger == L!Spec

\* No attempt hangs on itself, even if its timeout never fires: the role locks,
\* the slots of the specialists, the replies of the business service and the
\* round limit always let it end (engine.py:652, 1154, 1254).
TurnEnds == phase # "none" ~> phase = "none"

\* tests/test_execution_plan.py:164 expects the outcome "completed" where no
\* specialist failed: an accepted answer of a specialist is not a failed step.
\* The plan of a user with a saved profile shows it as failed, since the step
\* was registered under the key without the profile (engine.py:578, 1196).
DeliveredIsSucceeded ==
  status = "completed" =>
    \A i \in Listed(disk) :
      disk.result[i] # None /\ disk.result[i].status = "success" /\ ~disk.result[i].proposal
        => disk.step[i].status # "failed"
=============================================================================
