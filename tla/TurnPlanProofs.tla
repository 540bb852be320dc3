---------------------------- MODULE TurnPlanProofs ----------------------------
(***************************************************************************)
(* The saved plan of a request: what an attempt finds in its checkpoint is *)
(* what the attempts before it did (TurnPlan), and the statuses it shows   *)
(* implement StepLedger.                                                   *)
(***************************************************************************)
EXTENDS TurnPlan, TLAPS

\* An attempt that ended by itself has settled its plan; the plan of one that runs,
\* or that a newer request fenced, says so.
Ended ==
  /\ status \notin {"new", "running", "superseded"} => ActiveSteps(disk) = {}
  /\ status \in {"running", "superseded"} => shown = "running"

\* An attempt is in its worker, and the coroutines belong to its rounds.
Phased ==
  /\ phase # "none" => status \in {"running", "superseded"} /\ owner # 0
  /\ status = "new" => disk.step = Fresh.step
  /\ phase \notin {"routes", "rounds"} => \A t \in Tasks : co[t].at = "idle"
  /\ phase = "routes" => mode = "routes"
  /\ phase = "rounds" => mode # "routes"
  /\ phase \in {"form", "posted"} => mode = "form"

\* The worker is ahead of the checkpoint in the reports of its specialists only.
Same ==
  /\ turn.step = disk.step /\ turn.plan = disk.plan /\ turn.applied = disk.applied
  /\ turn.version = disk.version /\ turn.calls = disk.calls /\ turn.round = disk.round
  /\ turn.pending = disk.pending

\* A completed step has a result, and its change, if it proposed one, is applied.
Truthful(s) == \A i \in Ids :
  s.step[i].status = "completed" =>
    s.result[i] # None /\ (s.result[i].proposal => i \in s.applied)

\* A step that was never registered is in its first attempt.
FirstOnce == \A i \in Ids : turn.step[i].status = "none" => turn.step[i].attempts = 1

\* The form waits for the reply to its own proposal.
FormPosted ==
  phase = "posted" => turn.step[Intake].status = "running" /\ turn.result[Intake] # None

\* A coroutine executes the child its call created, and nobody else does.
Executing == \A t \in Tasks : co[t].at # "idle" =>
  /\ t \in turn.pending \ turn.done /\ co[t].id # Intake
  /\ turn.step[co[t].id].call = CallOf(t)
  /\ co[t].at \in {"working", "applying"} => turn.step[co[t].id].status = "running"
  /\ co[t].at = "applying" => turn.result[co[t].id] # None /\ turn.result[co[t].id].proposal

\* Children are numbered in the order of their creation.
Numbered == mode # "routes" => \A i \in Ids \ {Intake} : i > turn.calls =>
  /\ turn.step[i].status = "none" /\ turn.step[i].call = None
  /\ \A k \in Keys : turn.plan[k] # i

\* A routed task has its own number, whichever attempt executes it.
RoutedSteps == mode = "routes" =>
  /\ \A k \in Keys : turn.plan[k] \in {None, Route[k[1]]}
  /\ \A i \in Ids, c \in Calls : turn.step[i].call = c => Route[c[2]] = i
  /\ phase = "routes" => \A t \in turn.pending : Route[t] \in Listed(turn)

\* What is applied is committed, and the versions of the worker exist.
Receipted ==
  /\ \A i \in Ids : receipts[i] # None => receipts[i] <= trip
  /\ \A i \in turn.applied : receipts[i] # None
  /\ turn.version <= trip

IInv ==
  /\ TypeOK /\ Phased /\ Same /\ Truthful(turn) /\ Truthful(disk) /\ FirstOnce /\ FormPosted
  /\ Executing /\ Numbered /\ RoutedSteps /\ Receipted /\ Ended

-----------------------------------------------------------------------------
(* The steps of a checkpoint, changed in their statuses only.              *)

Statuses == {"none", "pending", "running", "completed", "partial", "needs_input", "failed",
             "skipped", "cancelled"}

\* What a step may do from one checkpoint to the next: Moved of StepLedger.
StepMoves(a, b) ==
  \/ b.status = a.status /\ b.attempts = a.attempts
  \/ b.status \in L!Allowed(a.status) /\ b.attempts = a.attempts
  \/ a.status = "cancelled" /\ a.attempts = 1 /\ b.status = "pending" /\ b.attempts = 2
  \/ a.status = "cancelled" /\ a.attempts = 2 /\ b.status = "failed" /\ b.attempts = 2

WithSteps(s, f) == [s EXCEPT !.step = f]

\* All of a checkpoint but its steps stays, and the steps keep who works on them.
Rest(s, r) ==
  /\ r \in Checkpoint /\ r.plan = s.plan /\ r.result = s.result /\ r.applied = s.applied
  /\ r.version = s.version /\ r.calls = s.calls /\ r.round = s.round
  /\ r.pending = s.pending /\ r.done = s.done

Relabelled(s, r) ==
  Rest(s, r) /\ \A i \in Ids : r.step[i].call = s.step[i].call

LEMMA WithStepsRest ==
  ASSUME NEW s \in Checkpoint, NEW f \in [Ids -> Step]
  PROVE  Rest(s, WithSteps(s, f)) /\ WithSteps(s, f).step = f
BY DEF Rest, WithSteps, Checkpoint

\* A new status for some steps.
Restatus(s, some, st) ==
  [i \in Ids |-> IF i \in some THEN [s.step[i] EXCEPT !.status = st] ELSE s.step[i]]

LEMMA RestatusFacts ==
  ASSUME NEW s \in Checkpoint, NEW some, NEW st \in Statuses
  PROVE  /\ Relabelled(s, WithSteps(s, Restatus(s, some, st)))
         /\ \A i \in Ids :
              /\ WithSteps(s, Restatus(s, some, st)).step[i].status
                   = IF i \in some THEN st ELSE s.step[i].status
              /\ WithSteps(s, Restatus(s, some, st)).step[i].attempts = s.step[i].attempts
<1> DEFINE f == Restatus(s, some, st)
<1>1. ASSUME NEW i \in Ids
      PROVE  /\ f[i] \in Step /\ f[i].status = IF i \in some THEN st ELSE s.step[i].status
             /\ f[i].attempts = s.step[i].attempts /\ f[i].call = s.step[i].call
  <2>1. s.step[i] \in Step  BY DEF Checkpoint
  <2>2. [s.step[i] EXCEPT !.status = st] \in Step  BY <2>1 DEF Step, Statuses
  <2>3. QED  BY <2>1, <2>2 DEF Restatus, Step
<1>2. f \in [Ids -> Step]  BY <1>1 DEF Restatus
<1> HIDE DEF f
<1>3. Rest(s, WithSteps(s, f)) /\ WithSteps(s, f).step = f  BY <1>2, WithStepsRest
<1>4. QED  BY <1>1, <1>3 DEF Relabelled, f

LEMMA WithStepFacts ==
  ASSUME NEW s \in Checkpoint, NEW i \in Ids, NEW st \in Statuses
  PROVE  /\ Relabelled(s, WithStep(s, i, st))
         /\ \A j \in Ids :
              /\ WithStep(s, i, st).step[j].status = IF j = i THEN st ELSE s.step[j].status
              /\ WithStep(s, i, st).step[j].attempts = s.step[j].attempts
<1>1. s.step \in [Ids -> Step]  BY DEF Checkpoint
<1>2. [s.step EXCEPT ![i].status = st] = Restatus(s, {i}, st)
  BY <1>1 DEF Restatus
<1>3. WithStep(s, i, st) = WithSteps(s, Restatus(s, {i}, st))
  BY <1>2 DEF WithStep, WithSteps, Checkpoint
<1>4. QED  BY <1>3, RestatusFacts

LEMMA SettledFacts ==
  ASSUME NEW s \in Checkpoint, NEW outcome
  PROVE  /\ Relabelled(s, Settled(s, outcome))
         /\ \A i \in Ids :
              /\ Settled(s, outcome).step[i].status
                   = IF i \in ActiveSteps(s) THEN SettledAs(outcome) ELSE s.step[i].status
              /\ Settled(s, outcome).step[i].attempts = s.step[i].attempts
<1>1. SettledAs(outcome) \in Statuses  BY DEF SettledAs, Statuses
<1>2. Settled(s, outcome) = WithSteps(s, Restatus(s, ActiveSteps(s), SettledAs(outcome)))
  BY DEF Settled, WithSteps, Restatus
<1>3. QED  BY <1>1, <1>2, RestatusFacts

LEMMA SkippedFacts ==
  ASSUME NEW s \in Checkpoint, NEW some
  PROVE  /\ Relabelled(s, Skipped(s, some))
         /\ \A i \in Ids :
              /\ Skipped(s, some).step[i].status = IF i \in some THEN "skipped" ELSE s.step[i].status
              /\ Skipped(s, some).step[i].attempts = s.step[i].attempts
<1>1. Skipped(s, some) = WithSteps(s, Restatus(s, some, "skipped"))
  BY DEF Skipped, WithSteps, Restatus
<1>2. QED  BY <1>1, RestatusFacts DEF Statuses

\* Only cancelled steps are reopened.
Reopened(a, b) ==
  \/ b.status = a.status /\ b.attempts = a.attempts
  \/ a.status = "cancelled" /\ a.attempts = 1 /\ b.status = "pending" /\ b.attempts = 2
  \/ a.status = "cancelled" /\ a.attempts = 2 /\ b.status = "failed" /\ b.attempts = 2

LEMMA ResumedFacts ==
  ASSUME NEW s \in Checkpoint
  PROVE  /\ Relabelled(s, Resumed(s))
         /\ \A i \in Ids : Reopened(s.step[i], Resumed(s).step[i])
<1> DEFINE f == [i \in Ids |->
     IF s.step[i].call = None \/ i \notin Listed(s) \/ s.step[i].status # "cancelled"
       THEN s.step[i]
     ELSE IF s.step[i].attempts = 2 THEN [s.step[i] EXCEPT !.status = "failed"]
     ELSE [s.step[i] EXCEPT !.status = "pending", !.attempts = 2]]
<1>1. ASSUME NEW i \in Ids
      PROVE  f[i] \in Step /\ f[i].call = s.step[i].call /\ Reopened(s.step[i], f[i])
  <2>1. s.step[i] \in Step  BY DEF Checkpoint
  <2>2. [s.step[i] EXCEPT !.status = "failed"] \in Step  BY <2>1 DEF Step
  <2>3. [s.step[i] EXCEPT !.status = "pending", !.attempts = 2] \in Step
    <3>1. \A a \in Step : [a EXCEPT !.status = "pending"] \in Step  BY DEF Step
    <3>2. \A a \in Step : [a EXCEPT !.attempts = 2] \in Step  BY DEF Step
    <3>3. [s.step[i] EXCEPT !.status = "pending", !.attempts = 2]
            = [[s.step[i] EXCEPT !.status = "pending"] EXCEPT !.attempts = 2]
      BY DEF Step
    <3>4. QED  BY <2>1, <3>1, <3>2, <3>3
  <2>4. s.step[i].attempts \in 1..2  BY <2>1 DEF Step
  <2>5. QED  BY <2>1, <2>2, <2>3, <2>4 DEF Step, Reopened
<1>2. f \in [Ids -> Step]  BY <1>1
<1>3. Resumed(s) = WithSteps(s, f)  BY DEF Resumed, WithSteps
<1> HIDE DEF f
<1>4. Rest(s, WithSteps(s, f)) /\ WithSteps(s, f).step = f  BY <1>2, WithStepsRest
<1>5. QED  BY <1>1, <1>3, <1>4 DEF Relabelled

-----------------------------------------------------------------------------
(* What a step of the plan leaves alone.                                   *)

Progress == \A i \in Ids : StepMoves(disk.step[i], disk'.step[i])

LEMMA LabelsKeep ==
  ASSUME IInv, Relabelled(turn, turn'), mode' = mode, phase' = "routes" => phase = "routes",
         \A i \in Ids \ {Intake} : turn.step[i].status = "none" => turn'.step[i].status = "none"
  PROVE  Numbered' /\ RoutedSteps'
<1>1. Numbered'
  BY Zenon DEF IInv, Numbered, Relabelled, Rest
<1>2. Listed(turn') = Listed(turn)  BY DEF Listed, Relabelled, Rest
<1>3. RoutedSteps'
  BY <1>2 DEF IInv, RoutedSteps, Relabelled, Rest
<1>4. QED  BY <1>1, <1>3

LEMMA LeaveStep ==
  ASSUME IInv, phase # "none", Relabelled(turn, turn'), disk' = turn', phase' = "none",
         status' \in {"completed", "interrupted", "failed"},
         shown' \in {"completed", "partial", "waiting_input", "degraded", "cancelled", "failed"},
         co' = [t \in Tasks |-> Idle], UNCHANGED <<owner, mode, profile, outside>>,
         ActiveSteps(turn') = {},
         \A i \in Ids :
           /\ turn'.step[i].attempts = turn.step[i].attempts
           /\ \/ turn'.step[i].status = turn.step[i].status
              \/ turn.step[i].status \in Active
                 /\ turn'.step[i].status \in L!Allowed(turn.step[i].status) \ {"completed", "none"}
  PROVE  IInv' /\ Progress
<1>1. Idle \in Coroutine
  BY TurnPlanAssumption DEF Idle, Coroutine, Ids, Versions
<1>2. TypeOK'
  BY <1>1 DEF IInv, TypeOK, Relabelled, Rest, outside
<1>3. Phased' /\ Same' /\ FormPosted' /\ Executing' /\ Ended'
  BY DEF Phased, Same, FormPosted, Executing, Ended, Idle
<1>4. \A i \in Ids : turn'.step[i].status \in {"completed", "none"} =>
        turn'.step[i].status = turn.step[i].status
  OBVIOUS
<1>5. Truthful(turn)' /\ Truthful(disk)'
  BY <1>4 DEF IInv, Truthful, Relabelled, Rest
<1>6. FirstOnce'  BY <1>4 DEF IInv, FirstOnce
<1>7. Numbered' /\ RoutedSteps'
  <2>1. \A i \in Ids : turn.step[i].status = "none" => turn'.step[i].status = "none"
    BY DEF Active
  <2>2. QED  BY <2>1, LabelsKeep
<1>8. Receipted'  BY DEF IInv, Receipted, Relabelled, Rest, outside
<1>9. Progress
  <2>1. turn.step = disk.step  BY DEF IInv, Same
  <2>2. QED  BY <2>1 DEF Progress, StepMoves
<1>10. QED  BY <1>2, <1>3, <1>5, <1>6, <1>7, <1>8, <1>9 DEF IInv

LEMMA SettledStep ==
  ASSUME IInv, phase # "none", NEW outcome, Settles(turn, outcome),
         turn' = Settled(turn, outcome), disk' = turn', phase' = "none",
         status' \in {"completed", "interrupted", "failed"},
         shown' \in {"completed", "partial", "waiting_input", "degraded", "cancelled", "failed"},
         co' = [t \in Tasks |-> Idle], UNCHANGED <<owner, mode, profile, outside>>
  PROVE  IInv' /\ Progress
<1>1. turn \in Checkpoint  BY DEF IInv, TypeOK
<1>2. /\ Relabelled(turn, turn')
      /\ \A i \in Ids :
           /\ turn'.step[i].status = IF i \in ActiveSteps(turn) THEN SettledAs(outcome) ELSE turn.step[i].status
           /\ turn'.step[i].attempts = turn.step[i].attempts
  BY <1>1, SettledFacts
<1>3. SettledAs(outcome) \notin Active  BY DEF SettledAs, Active
<1>4. Listed(turn') = Listed(turn) /\ Listed(turn) \subseteq Ids
  BY <1>1, <1>2, TurnPlanAssumption DEF Relabelled, Rest, Listed, Checkpoint, Ids, Intake
<1>5. ActiveSteps(turn') = {}  BY <1>2, <1>3, <1>4 DEF ActiveSteps
<1>6. ASSUME NEW i \in ActiveSteps(turn)
      PROVE  turn.step[i].status \in Active
               /\ SettledAs(outcome) \in L!Allowed(turn.step[i].status) \ {"completed", "none"}
  BY <1>6 DEF ActiveSteps, Active, Settles, SettledAs, L!Allowed
<1>7. QED  BY <1>2, <1>5, <1>6, LeaveStep

LEMMA FinishStep ==
  ASSUME IInv, phase # "none", NEW outcome \in {"completed", "degraded", "waiting_input"},
         Finishes(outcome)
  PROVE  IInv' /\ Progress
<1>1. CASE Settles(turn, outcome)
  <2>1. Outcome(Settled(turn, outcome), outcome)
          \in {"completed", "partial", "waiting_input", "degraded"}
    BY DEF Outcome
  <2>2. /\ turn' = Settled(turn, outcome) /\ disk' = turn' /\ phase' = "none"
        /\ status' = "completed" /\ shown' = Outcome(Settled(turn, outcome), outcome)
        /\ co' = [t \in Tasks |-> Idle] /\ UNCHANGED <<owner, mode, profile, outside>>
    BY <1>1 DEF Finishes, Leaves
  <2>3. QED  BY <1>1, <2>1, <2>2, SettledStep
<1>2. CASE ~Settles(turn, outcome)
  <2>1. PICK some \in SUBSET {i \in ActiveSteps(turn) : turn.step[i].status = "pending"} :
          Leaves(Settled(Skipped(turn, some), "failed"), "failed", "failed")
    BY <1>2 DEF Finishes
  <2>2. turn \in Checkpoint  BY DEF IInv, TypeOK
  <2>3. PICK s : s = Skipped(turn, some)  OBVIOUS
  <2>4. /\ Relabelled(turn, s) /\ s \in Checkpoint
        /\ \A i \in Ids : /\ s.step[i].status = IF i \in some THEN "skipped" ELSE turn.step[i].status
                          /\ s.step[i].attempts = turn.step[i].attempts
    BY <2>2, <2>3, SkippedFacts DEF Relabelled, Rest
  <2>5. /\ turn' = Settled(s, "failed") /\ disk' = turn' /\ phase' = "none" /\ status' = "failed"
        /\ shown' = "failed" /\ co' = [t \in Tasks |-> Idle]
        /\ UNCHANGED <<owner, mode, profile, outside>>
    BY <2>1, <2>3 DEF Leaves
  <2>6. /\ Relabelled(s, turn')
        /\ \A i \in Ids :
             /\ turn'.step[i].status = IF i \in ActiveSteps(s) THEN "failed" ELSE s.step[i].status
             /\ turn'.step[i].attempts = s.step[i].attempts
    BY <2>4, <2>5, SettledFacts DEF SettledAs
  <2>7. Relabelled(turn, turn')  BY <2>4, <2>6 DEF Relabelled, Rest
  <2>8. /\ Listed(s) = Listed(turn) /\ Listed(turn') = Listed(turn) /\ Listed(turn) \subseteq Ids
    BY <2>2, <2>4, <2>7, TurnPlanAssumption DEF Relabelled, Rest, Listed, Checkpoint, Ids, Intake
  <2>9. ActiveSteps(turn') = {}
    BY <2>6, <2>8 DEF ActiveSteps, Active
  <2>10. ASSUME NEW i \in Ids
         PROVE  /\ turn'.step[i].attempts = turn.step[i].attempts
                /\ \/ turn'.step[i].status = turn.step[i].status
                   \/ turn.step[i].status \in Active
                      /\ turn'.step[i].status \in L!Allowed(turn.step[i].status) \ {"completed", "none"}
    <3>1. CASE i \in some
      <4>1. i \in ActiveSteps(turn) /\ turn.step[i].status = "pending"  BY <3>1
      <4>2. s.step[i].status = "skipped" /\ i \notin ActiveSteps(s)
        BY <2>4, <3>1 DEF ActiveSteps, Active
      <4>3. QED  BY <2>4, <2>6, <4>1, <4>2 DEF Active, L!Allowed
    <3>2. CASE i \notin some
      BY <2>4, <2>6, <3>2 DEF ActiveSteps, Active, L!Allowed
    <3>3. QED  BY <3>1, <3>2
  <2>11. QED  BY <2>5, <2>7, <2>9, <2>10, LeaveStep
<1>3. QED  BY <1>1, <1>2

\* A step that is not moved at all.
LEMMA Stays == \A a : StepMoves(a, a)
BY DEF StepMoves

-----------------------------------------------------------------------------
(* Beginning, dying, and the form.                                         *)

LEMMA Starts == Init => IInv
<1> SUFFICES ASSUME Init PROVE IInv  OBVIOUS
<1> USE TurnPlanAssumption, NoneAssumption
<1>1. 1 \in Versions /\ 0 \in Ids  BY DEF Versions, Ids
<1>2. NoStep \in Step  BY <1>1 DEF NoStep, Step
<1>3. Fresh \in Checkpoint  BY <1>1, <1>2 DEF Fresh, Checkpoint
<1>4. Idle \in Coroutine  BY <1>1 DEF Idle, Coroutine
<1>5. TypeOK  BY <1>1, <1>3, <1>4 DEF Init, TypeOK
<1>6. /\ turn = Fresh /\ disk = Fresh /\ status = "new" /\ phase = "none"
      /\ co = [t \in Tasks |-> Idle] /\ receipts = [i \in Ids |-> None] /\ trip = 1
  BY DEF Init
<1>7. /\ \A i \in Ids : Fresh.step[i].status = "none" /\ Fresh.step[i].attempts = 1
                          /\ Fresh.step[i].call = None
      /\ \A k \in Keys : Fresh.plan[k] = None
      /\ Fresh.applied = {} /\ Fresh.version = 1 /\ Fresh.pending = {}
  BY DEF Fresh, NoStep
<1>8. Phased /\ Same /\ FirstOnce /\ FormPosted /\ Ended
  BY <1>6, <1>7 DEF Phased, Same, FirstOnce, FormPosted, Ended, Idle
<1>9. Truthful(turn) /\ Truthful(disk) /\ Executing
  BY <1>6, <1>7 DEF Truthful, Executing, Idle
<1>10. Numbered
  BY <1>6, <1>7 DEF Numbered, Ids
<1>11. \A c \in Calls : c # None  OBVIOUS
<1>12. RoutedSteps
  BY <1>6, <1>7, <1>11 DEF RoutedSteps
<1>13. Receipted  BY <1>6, <1>7 DEF Receipted
<1>14. QED  BY <1>5, <1>8, <1>9, <1>10, <1>12, <1>13 DEF IInv

LEMMA AbandonStep ==
  ASSUME IInv, Abandons
  PROVE  IInv' /\ Progress
<1>1. /\ turn' = disk /\ disk' = disk /\ phase' = "none" /\ co' = [t \in Tasks |-> Idle]
      /\ UNCHANGED <<status, shown, mode, profile, owner, posts, receipts, trip>>
  BY DEF Abandons, outside
<1>2. Idle \in Coroutine
  BY TurnPlanAssumption DEF Idle, Coroutine, Ids, Versions
<1>3. TypeOK'  BY <1>1, <1>2 DEF IInv, TypeOK
<1>4. Phased' /\ Same' /\ FirstOnce' /\ FormPosted' /\ Ended'
  BY <1>1 DEF IInv, Phased, Same, FirstOnce, FormPosted, Ended, Idle
<1>5. Truthful(turn)' /\ Truthful(disk)' /\ Executing'
  BY <1>1 DEF IInv, Truthful, Executing, Idle
<1>6. Numbered' /\ Receipted'
  BY <1>1 DEF IInv, Same, Numbered, Receipted
<1>7. RoutedSteps'
  BY <1>1 DEF IInv, Same, RoutedSteps
<1>8. Progress  BY <1>1, Stays DEF Progress
<1>9. QED  BY <1>3, <1>4, <1>5, <1>6, <1>7, <1>8 DEF IInv

LEMMA StopStep ==
  ASSUME IInv, StopTurn
  PROVE  IInv' /\ Progress
<1>1. CASE Leaves(Settled(turn, "cancelled"), "interrupted", "cancelled")
  <2>1. Settles(turn, "cancelled")  BY DEF Settles
  <2>2. /\ phase # "none" /\ turn' = Settled(turn, "cancelled") /\ disk' = turn' /\ phase' = "none"
        /\ status' = "interrupted" /\ shown' = "cancelled" /\ co' = [t \in Tasks |-> Idle]
        /\ UNCHANGED <<owner, mode, profile, outside>>
    BY <1>1 DEF StopTurn, Leaves
  <2>3. QED  BY <2>1, <2>2, SettledStep
<1>2. CASE Abandons  BY <1>2, AbandonStep
<1>3. QED  BY <1>1, <1>2 DEF StopTurn

LEMMA SupersedeStep ==
  ASSUME IInv, Supersede
  PROVE  IInv' /\ Progress
<1>1. /\ status = "running" /\ status' = "superseded"
      /\ UNCHANGED <<turn, disk, phase, shown, mode, profile, owner, co, posts, receipts, trip>>
  BY DEF Supersede, outside
<1>2. TypeOK'  BY <1>1 DEF IInv, TypeOK
<1>3. Phased' /\ Same' /\ FirstOnce' /\ FormPosted' /\ Ended' /\ Receipted'
  BY <1>1 DEF IInv, Phased, Same, FirstOnce, FormPosted, Ended, Receipted
<1>4. Truthful(turn)' /\ Truthful(disk)' /\ Numbered' /\ RoutedSteps'
  BY <1>1 DEF IInv, Truthful, Numbered, RoutedSteps
<1>5. Executing'  BY <1>1 DEF IInv, Executing, CallOf
<1>6. Progress  BY <1>1, Stays DEF Progress
<1>7. QED  BY <1>2, <1>3, <1>4, <1>5, <1>6 DEF IInv

LEMMA BeginStep ==
  ASSUME IInv, Begin
  PROVE  IInv' /\ Progress
<1> USE TurnPlanAssumption
<1>1. /\ phase = "none" /\ owner < MaxOwners /\ owner' = owner + 1 /\ status' = "running"
      /\ disk' = turn' /\ phase' = Entrance(turn') /\ co' = [t \in Tasks |-> Idle]
      /\ shown' = "running" /\ UNCHANGED <<posts, receipts, trip, mode, profile>>
  BY DEF Begin, outside
<1>2. /\ disk \in Checkpoint /\ trip \in Versions /\ owner \in 0..MaxOwners
      /\ mode \in {"form", "routes", "rounds"} /\ Truthful(disk)
  BY DEF IInv, TypeOK
<1>3. /\ turn' \in Checkpoint
      /\ \A i \in Ids : Reopened(disk.step[i], turn'.step[i]) /\ turn'.step[i].call = disk.step[i].call
      /\ Truthful(turn')
      /\ \A k \in Keys : turn'.plan[k] = disk.plan[k] \/ (status = "new" /\ turn'.plan[k] = None)
      /\ turn'.applied = disk.applied \/ turn'.applied = {}
      /\ turn'.calls = disk.calls \/ status = "new"
      /\ turn'.version <= trip
      /\ mode = "routes" => turn'.pending = {}
  <2>1. CASE status = "new"
    <3>1. turn' = [Fresh EXCEPT !.version = trip]  BY <2>1 DEF Begin
    <3>2. NoStep \in Step /\ 0 \in Ids  BY DEF NoStep, Step, Versions, Ids
    <3>3. disk.step = Fresh.step  BY <2>1 DEF IInv, Phased
    <3>4. turn' \in Checkpoint  BY <1>2, <3>1, <3>2 DEF Fresh, Checkpoint
    <3>5. turn'.step = disk.step /\ turn'.version = trip /\ turn'.applied = {} /\ turn'.pending = {}
          /\ turn'.plan = [k \in Keys |-> None]
      BY <3>1, <3>3 DEF Fresh
    <3>6. \A i \in Ids : disk.step[i].status = "none"  BY <3>3 DEF Fresh, NoStep
    <3>7. trip \in Nat  BY <1>2 DEF Versions
    <3>8. QED  BY <2>1, <3>4, <3>5, <3>6, <3>7 DEF Reopened, Truthful
  <2>2. CASE status # "new"
    <3>1. PICK s : s = Resumed(disk)  OBVIOUS
    <3>2. /\ Relabelled(disk, s) /\ \A i \in Ids : Reopened(disk.step[i], s.step[i])
      BY <1>2, <3>1, ResumedFacts
    <3>3. turn' = s \/ (mode = "routes" /\ turn' = [s EXCEPT !.pending = {}, !.done = {}])
      BY <2>2, <3>1 DEF Begin
    <3>4. mode = "routes" => turn' = [s EXCEPT !.pending = {}, !.done = {}]
      BY <2>2, <3>1 DEF Begin
    <3>5. s \in Checkpoint  BY <3>2 DEF Relabelled, Rest
    <3>6. [s EXCEPT !.pending = {}, !.done = {}] \in Checkpoint  BY <3>5 DEF Checkpoint
    <3>7. /\ turn' \in Checkpoint /\ turn'.step = s.step /\ turn'.plan = s.plan /\ turn'.result = s.result
          /\ turn'.applied = s.applied /\ turn'.version = s.version /\ turn'.calls = s.calls
      BY <3>3, <3>5, <3>6 DEF Checkpoint
    <3>8. mode = "routes" => turn'.pending = {}  BY <3>4, <3>5 DEF Checkpoint
    <3>9. disk.version <= trip  BY DEF IInv, Receipted, Same
    <3>10. Truthful(turn')
      BY <1>2, <3>2, <3>7 DEF Truthful, Relabelled, Rest, Reopened
    <3>11. QED  BY <3>2, <3>7, <3>8, <3>9, <3>10 DEF Relabelled, Rest
  <2>3. QED  BY <2>1, <2>2
<1>4. /\ disk.step = turn.step /\ disk.plan = turn.plan /\ disk.applied = turn.applied
      /\ disk.calls = turn.calls
  BY DEF IInv, Same
<1>5. Idle \in Coroutine
  BY DEF Idle, Coroutine, Ids, Versions
<1>6. /\ phase' \in {"form", "routes", "rounds"} /\ (phase' = "routes" => mode = "routes")
      /\ (phase' = "rounds" => mode # "routes") /\ (phase' = "form" => mode = "form")
  BY <1>1, <1>2 DEF Entrance
<1>7. TypeOK'
  <2>1. owner' \in 0..MaxOwners  BY <1>1, <1>2
  <2>2. QED  BY <1>1, <1>3, <1>5, <1>6, <2>1 DEF IInv, TypeOK
<1>8. Phased'  BY <1>1, <1>2, <1>6 DEF Phased, Idle
<1>9. Same' /\ FormPosted' /\ Executing' /\ Ended'
  BY <1>1, <1>6 DEF Same, FormPosted, Executing, Ended, Idle
<1>10. Truthful(turn)' /\ Truthful(disk)'  BY <1>1, <1>3 DEF Truthful
<1>11. FirstOnce'  BY <1>3, <1>4 DEF IInv, FirstOnce, Reopened
<1>12. Numbered'
  <2>1. \A i \in Ids \ {Intake} : None # i  BY NoneAssumption DEF Ids
  <2>2. ASSUME status = "new", NEW i \in Ids
        PROVE  turn'.step[i].status = "none" /\ turn'.step[i].call = None
    <3>1. disk.step[i] = NoStep  BY <2>2 DEF IInv, Phased, Fresh
    <3>2. QED  BY <1>3, <3>1 DEF Reopened, NoStep
  <2>3. CASE status = "new"
    <3>1. \A i \in Ids : turn'.step[i].status = "none" /\ turn'.step[i].call = None  BY <2>2, <2>3
    <3>2. \A k \in Keys : turn'.plan[k] = None
      <4>1. turn' = [Fresh EXCEPT !.version = trip]  BY <2>3 DEF Begin
      <4>2. QED  BY <4>1 DEF Fresh
    <3>3. QED  BY <2>1, <3>1, <3>2 DEF Numbered
  <2>4. CASE status # "new"
    BY <1>1, <1>3, <1>4, <2>4 DEF IInv, Numbered, Reopened
  <2>5. QED  BY <2>3, <2>4
<1>13. RoutedSteps'
  BY <1>1, <1>3, <1>4 DEF IInv, RoutedSteps
<1>14. Receipted'
  BY <1>1, <1>3, <1>4 DEF IInv, Receipted
<1>15. Progress  BY <1>1, <1>3 DEF Progress, StepMoves, Reopened
<1>16. QED  BY <1>7, <1>8, <1>9, <1>10, <1>11, <1>12, <1>13, <1>14, <1>15 DEF IInv

\* A segment that ends with a save.
LEMMA SaveStep ==
  ASSUME IInv, phase # "none", turn' \in Checkpoint, disk' = turn', co' \in [Tasks -> Coroutine],
         UNCHANGED <<status, shown, mode, profile, owner>>, UNCHANGED outside,
         phase' \in {"form", "posted", "routes", "rounds"},
         phase' = phase \/ (phase' = "rounds" /\ mode = "form"),
         phase' \in {"form", "posted"} => \A t \in Tasks : co'[t].at = "idle"
  PROVE  TypeOK' /\ Phased' /\ Same' /\ Ended'
<1>1. TypeOK'  BY DEF IInv, TypeOK, outside
<1>2. Phased'  BY DEF IInv, Phased
<1>3. Same' /\ Ended'  BY DEF IInv, Phased, Same, Ended
<1>4. QED  BY <1>1, <1>2, <1>3

LEMMA RegisterFormStep ==
  ASSUME IInv, RegisterForm
  PROVE  IInv' /\ Progress
<1> DEFINE s == [turn EXCEPT !.step[Intake].version = turn.version]
<1>1. turn \in Checkpoint /\ co \in [Tasks -> Coroutine] /\ Intake \in Ids
  BY TurnPlanAssumption DEF IInv, TypeOK, Intake, Ids
<1>2. /\ phase = "form" /\ turn.step[Intake].status = "none" /\ turn' = WithStep(s, Intake, "pending")
      /\ disk' = turn' /\ UNCHANGED <<status, phase, shown, mode, profile, owner, co>> /\ UNCHANGED outside
  BY DEF RegisterForm, Saves
<1>3. /\ Relabelled(turn, s)
      /\ \A i \in Ids : s.step[i].status = turn.step[i].status /\ s.step[i].attempts = turn.step[i].attempts
  <2>1. turn.version \in Versions /\ turn.step \in [Ids -> Step]  BY <1>1 DEF Checkpoint
  <2>2. PICK f : f = [turn.step EXCEPT ![Intake].version = turn.version]  OBVIOUS
  <2>3. ASSUME NEW i \in Ids
        PROVE  /\ f[i] \in Step /\ f[i].status = turn.step[i].status
               /\ f[i].attempts = turn.step[i].attempts /\ f[i].call = turn.step[i].call
    <3>1. turn.step[i] \in Step  BY <2>1
    <3>2. [turn.step[i] EXCEPT !.version = turn.version] \in Step  BY <2>1, <3>1 DEF Step
    <3>3. f[i] = IF i = Intake THEN [turn.step[i] EXCEPT !.version = turn.version] ELSE turn.step[i]
      BY <2>1, <2>2
    <3>4. QED  BY <3>1, <3>2, <3>3 DEF Step
  <2>4. f \in [Ids -> Step]  BY <2>1, <2>2, <2>3
  <2>5. s = WithSteps(turn, f)  BY <1>1, <2>2 DEF WithSteps, Checkpoint
  <2>6. QED  BY <1>1, <2>3, <2>4, <2>5, WithStepsRest DEF Relabelled
<1> HIDE DEF s
<1>4. s \in Checkpoint  BY <1>3 DEF Relabelled, Rest
<1>5. /\ Relabelled(turn, turn')
      /\ \A i \in Ids : /\ turn'.step[i].status = IF i = Intake THEN "pending" ELSE turn.step[i].status
                        /\ turn'.step[i].attempts = turn.step[i].attempts
  <2>1. "pending" \in Statuses  BY DEF Statuses
  <2>2. /\ Relabelled(s, turn')
        /\ \A i \in Ids : /\ turn'.step[i].status = IF i = Intake THEN "pending" ELSE s.step[i].status
                          /\ turn'.step[i].attempts = s.step[i].attempts
    BY <1>1, <1>2, <1>4, <2>1, WithStepFacts
  <2>3. QED  BY <1>3, <2>2 DEF Relabelled, Rest
<1>6. turn' \in Checkpoint  BY <1>5 DEF Relabelled, Rest
<1>7. \A t \in Tasks : co[t].at = "idle"  BY <1>2 DEF IInv, Phased
<1>8. TypeOK' /\ Phased' /\ Same' /\ Ended'
  BY <1>1, <1>2, <1>6, <1>7, SaveStep
<1>9. FirstOnce' /\ FormPosted' /\ Executing' /\ Receipted'
  BY <1>2, <1>5, <1>7 DEF IInv, FirstOnce, FormPosted, Executing, Receipted, Relabelled, Rest, outside
<1>10. Truthful(turn)' /\ Truthful(disk)'
  BY <1>2, <1>5 DEF IInv, Truthful, Relabelled, Rest
<1>11. Numbered' /\ RoutedSteps'  BY <1>2, <1>5, LabelsKeep
<1>12. Progress
  BY <1>2, <1>5 DEF IInv, Same, Progress, StepMoves, L!Allowed
<1>13. QED  BY <1>8, <1>9, <1>10, <1>11, <1>12 DEF IInv

LEMMA StartFormStep ==
  ASSUME IInv, StartForm
  PROVE  IInv' /\ Progress
<1> DEFINE d == WithStep(turn, Intake, "running")
           res == [status |-> "success", version |-> turn.version, proposal |-> TRUE]
<1>1. turn \in Checkpoint /\ co \in [Tasks -> Coroutine] /\ Intake \in Ids
  BY TurnPlanAssumption DEF IInv, TypeOK, Intake, Ids
<1>2. /\ phase = "form" /\ status = "running" /\ turn.step[Intake].status \in Active /\ disk' = d
      /\ turn' = [d EXCEPT !.result[Intake] = res]
      /\ posts' = posts \cup {<<Intake, owner, turn.version>>} /\ phase' = "posted"
      /\ UNCHANGED <<status, shown, mode, profile, owner, co, receipts, trip>>
  BY DEF StartForm
<1>3. /\ Relabelled(turn, d)
      /\ \A i \in Ids : /\ d.step[i].status = IF i = Intake THEN "running" ELSE turn.step[i].status
                        /\ d.step[i].attempts = turn.step[i].attempts
  <2>1. "running" \in Statuses  BY DEF Statuses
  <2>2. QED  BY <1>1, <2>1, WithStepFacts
<1>4. d \in Checkpoint  BY <1>3 DEF Relabelled, Rest
<1>5. res \in Result
  <2>1. turn.version \in Versions  BY <1>1 DEF Checkpoint
  <2>2. QED  BY <2>1 DEF Result
<1> HIDE DEF d, res
<1>6. /\ turn' \in Checkpoint /\ turn'.step = d.step /\ turn'.plan = d.plan /\ turn'.applied = d.applied
      /\ turn'.version = d.version /\ turn'.calls = d.calls /\ turn'.round = d.round
      /\ turn'.pending = d.pending /\ turn'.done = d.done
      /\ turn'.result[Intake] = res /\ \A i \in Ids \ {Intake} : turn'.result[i] = d.result[i]
  <2>1. PICK f : f = [d.result EXCEPT ![Intake] = res]  OBVIOUS
  <2>2. d.result \in [Ids -> Result \cup {None}]  BY <1>4 DEF Checkpoint
  <2>3. f \in [Ids -> Result \cup {None}]  BY <1>5, <2>1, <2>2
  <2>4. turn' = [d EXCEPT !.result = f]  BY <1>2, <1>4, <2>1 DEF Checkpoint
  <2>5. turn' \in Checkpoint  BY <1>4, <2>3, <2>4 DEF Checkpoint
  <2>6. f[Intake] = res /\ \A i \in Ids \ {Intake} : f[i] = d.result[i]  BY <1>1, <2>1, <2>2
  <2>7. QED  BY <1>4, <2>4, <2>5, <2>6 DEF Checkpoint
<1>7. /\ \A t \in Tasks : co[t].at = "idle"
      /\ status = "running" /\ owner # 0 /\ owner \in 0..MaxOwners /\ mode = "form"
  BY <1>2 DEF IInv, Phased, TypeOK
<1>8. TypeOK'
  <2>1. owner \in 1..MaxOwners  BY <1>7, TurnPlanAssumption
  <2>2. turn.version \in Versions  BY <1>1 DEF Checkpoint
  <2>3. posts' \subseteq Ids \X (1..MaxOwners) \X Versions
    BY <1>1, <1>2, <2>1, <2>2 DEF IInv, TypeOK
  <2>4. QED  BY <1>2, <1>4, <1>6, <2>3 DEF IInv, TypeOK
<1>9. res # None
  BY <1>5, NoneAssumption
<1>10. Phased' /\ Same' /\ FormPosted' /\ Executing' /\ Ended'
  BY <1>1, <1>2, <1>3, <1>6, <1>7, <1>9
     DEF IInv, Phased, Same, FormPosted, Executing, Ended
<1>11. /\ Relabelled(turn, d) /\ turn'.step = d.step /\ turn'.plan = turn.plan
       /\ turn'.applied = turn.applied /\ turn'.version = turn.version /\ turn'.calls = turn.calls
       /\ turn'.pending = turn.pending /\ d.result = turn.result /\ d.applied = turn.applied
       /\ \A i \in Ids : d.step[i].call = turn.step[i].call
  BY <1>3, <1>6 DEF Relabelled, Rest
<1>12. FirstOnce' /\ Receipted'
  BY <1>2, <1>3, <1>11 DEF IInv, FirstOnce, Receipted
<1>13. Truthful(turn)' /\ Truthful(disk)'
  BY <1>2, <1>3, <1>6, <1>11 DEF IInv, Truthful
<1>14. Numbered'
  BY <1>2, <1>3, <1>11 DEF IInv, Numbered
<1>15. RoutedSteps'
  BY <1>2, <1>7, <1>11 DEF IInv, RoutedSteps
<1>16. Progress
  BY <1>2, <1>3 DEF IInv, Same, Progress, StepMoves, L!Allowed, Active
<1>17. QED  BY <1>8, <1>10, <1>12, <1>13, <1>14, <1>15, <1>16 DEF IInv

\* The business service: what is committed has a version of the trip of its own.
LEMMA CommitStep ==
  ASSUME IInv, NEW i \in Ids, NEW v \in Versions, Commit(i, v)
  PROVE  IInv' /\ Progress
<1>1. /\ posts' \subseteq posts
      /\ UNCHANGED <<turn, disk, status, phase, shown, mode, profile, owner, co>>
  BY DEF Commit, inside
<1>2. /\ trip \in Versions /\ receipts \in [Ids -> Versions \cup {None}]
      /\ posts \subseteq Ids \X (1..MaxOwners) \X Versions
  BY DEF IInv, TypeOK
<1>3. /\ receipts' \in [Ids -> Versions \cup {None}] /\ trip' \in Versions /\ trip <= trip'
      /\ \A j \in Ids : receipts'[j] # None => receipts'[j] <= trip'
      /\ \A j \in Ids : receipts[j] # None => receipts'[j] # None
  <2>1. CASE receipts' = receipts /\ trip' = trip
    <3>1. trip <= trip'  BY <1>2, <2>1 DEF Versions
    <3>2. QED  BY <1>2, <2>1, <3>1 DEF IInv, Receipted
  <2>2. CASE /\ receipts[i] = None /\ trip < MaxVersion /\ trip' = trip + 1
             /\ receipts' = [receipts EXCEPT ![i] = trip + 1]
    <3>1. trip + 1 \in Versions /\ trip \in Nat  BY <1>2, <2>2, TurnPlanAssumption DEF Versions
    <3>2. trip + 1 # None  BY <3>1, NoneAssumption
    <3>3. \A j \in Ids : receipts'[j] = IF j = i THEN trip + 1 ELSE receipts[j]  BY <1>2, <2>2
    <3>4. ASSUME NEW j \in Ids, receipts'[j] # None PROVE receipts'[j] <= trip'
      <4>1. CASE j = i  BY <2>2, <3>1, <3>3, <4>1
      <4>2. CASE j # i
        <5>1. receipts'[j] = receipts[j] /\ receipts[j] \in Versions /\ receipts[j] <= trip
          BY <1>2, <3>3, <3>4, <4>2 DEF IInv, Receipted
        <5>2. QED  BY <2>2, <3>1, <5>1 DEF Versions
      <4>3. QED  BY <4>1, <4>2
    <3>5. receipts' \in [Ids -> Versions \cup {None}]  BY <1>2, <2>2, <3>1
    <3>6. QED  BY <2>2, <3>1, <3>2, <3>3, <3>4, <3>5
  <2>3. QED  BY <2>1, <2>2 DEF Commit
<1>4. TypeOK'  BY <1>1, <1>2, <1>3 DEF IInv, TypeOK
<1>5. Receipted'
  <2>1. turn.version <= trip /\ turn.version \in Nat /\ trip \in Nat /\ trip' \in Nat
    BY <1>2, <1>3 DEF IInv, Receipted, TypeOK, Checkpoint, Versions
  <2>2. turn.version <= trip'  BY <1>3, <2>1
  <2>3. turn.applied \subseteq Ids  BY DEF IInv, TypeOK, Checkpoint
  <2>4. QED  BY <1>1, <1>3, <2>2, <2>3 DEF IInv, Receipted
<1>6. Phased' /\ Same' /\ FirstOnce' /\ FormPosted' /\ Ended'
  BY <1>1 DEF IInv, Phased, Same, FirstOnce, FormPosted, Ended
<1>7. Truthful(turn)' /\ Truthful(disk)' /\ Numbered' /\ RoutedSteps'
  BY <1>1 DEF IInv, Truthful, Numbered, RoutedSteps
<1>8. Executing'  BY <1>1 DEF IInv, Executing, CallOf
<1>9. Progress  BY <1>1, Stays DEF Progress
<1>10. QED  BY <1>4, <1>5, <1>6, <1>7, <1>8, <1>9 DEF IInv

LEMMA RejectStep ==
  ASSUME IInv, NEW post \in posts, Reject(post)
  PROVE  IInv' /\ Progress
<1>1. /\ posts' \subseteq posts
      /\ UNCHANGED <<turn, disk, status, phase, shown, mode, profile, owner, co, receipts, trip>>
  BY DEF Reject, inside
<1>2. TypeOK'  BY <1>1 DEF IInv, TypeOK
<1>3. Phased' /\ Same' /\ FirstOnce' /\ FormPosted' /\ Ended' /\ Receipted'
  BY <1>1 DEF IInv, Phased, Same, FirstOnce, FormPosted, Ended, Receipted
<1>4. Truthful(turn)' /\ Truthful(disk)' /\ Numbered' /\ RoutedSteps'
  BY <1>1 DEF IInv, Truthful, Numbered, RoutedSteps
<1>5. Executing'  BY <1>1 DEF IInv, Executing, CallOf
<1>6. Progress  BY <1>1, Stays DEF Progress
<1>7. QED  BY <1>2, <1>3, <1>4, <1>5, <1>6 DEF IInv

\* A change is applied: the result of the step carries the version it made.
LEMMA AppliedFacts ==
  ASSUME NEW s \in Checkpoint, NEW i \in Ids, NEW v \in Versions, receipts[i] = v,
         s.result[i] # None
  PROVE  /\ Applied(s, i) \in Checkpoint /\ Applied(s, i).step = s.step /\ Applied(s, i).plan = s.plan
         /\ Applied(s, i).version = v /\ Applied(s, i).applied = s.applied \cup {i}
         /\ Applied(s, i).calls = s.calls /\ Applied(s, i).round = s.round
         /\ Applied(s, i).pending = s.pending /\ Applied(s, i).done = s.done
         /\ Applied(s, i).result[i] \in Result
         /\ Applied(s, i).result[i].proposal = s.result[i].proposal
         /\ Applied(s, i).result[i].status = s.result[i].status
         /\ \A j \in Ids \ {i} : Applied(s, i).result[j] = s.result[j]
<1>1. s.result \in [Ids -> Result \cup {None}] /\ s.applied \subseteq Ids  BY DEF Checkpoint
<1>2. s.result[i] \in Result  BY <1>1
<1>3. PICK f : f = [s.result EXCEPT ![i].version = v]  OBVIOUS
<1>4. [s.result[i] EXCEPT !.version = v] \in Result  BY <1>2 DEF Result
<1>5. f \in [Ids -> Result \cup {None}] /\ f[i] = [s.result[i] EXCEPT !.version = v]
      /\ \A j \in Ids \ {i} : f[j] = s.result[j]
  BY <1>1, <1>3, <1>4
<1>6. PICK a \in SUBSET Ids : a = s.applied \cup {i}  BY <1>1
<1>7. Applied(s, i) = [s EXCEPT !.version = v, !.applied = a, !.result = f]
  BY <1>3, <1>6 DEF Applied, Checkpoint
<1>8. [s EXCEPT !.version = v, !.applied = a, !.result = f] \in Checkpoint
  BY <1>5 DEF Checkpoint
<1>9. f[i] \in Result /\ f[i].proposal = s.result[i].proposal /\ f[i].status = s.result[i].status
  BY <1>2, <1>4, <1>5 DEF Result
<1>10. QED  BY <1>5, <1>6, <1>7, <1>8, <1>9 DEF Checkpoint

LEMMA FormAppliedStep ==
  ASSUME IInv, FormApplied
  PROVE  IInv' /\ Progress
<1>1. turn \in Checkpoint /\ co \in [Tasks -> Coroutine] /\ Intake \in Ids
  BY TurnPlanAssumption DEF IInv, TypeOK, Intake, Ids
<1>2. /\ phase = "posted" /\ receipts[Intake] # None
      /\ turn' = WithStep(Applied(turn, Intake), Intake, "completed") /\ disk' = turn'
      /\ phase' = "rounds" /\ UNCHANGED <<status, shown, mode, profile, owner, co>> /\ UNCHANGED outside
  BY DEF FormApplied, Replied
<1>3. /\ turn.step[Intake].status = "running" /\ turn.result[Intake] # None /\ mode = "form"
      /\ \A t \in Tasks : co[t].at = "idle"
  BY <1>2 DEF IInv, FormPosted, Phased
<1>4. PICK v \in Versions : receipts[Intake] = v  BY <1>1, <1>2 DEF IInv, TypeOK
<1>5. PICK s : s = Applied(turn, Intake)  OBVIOUS
<1>6. /\ s \in Checkpoint /\ s.step = turn.step /\ s.plan = turn.plan /\ s.version = v
      /\ s.applied = turn.applied \cup {Intake} /\ s.calls = turn.calls /\ s.pending = turn.pending
      /\ s.result[Intake] \in Result /\ \A j \in Ids \ {Intake} : s.result[j] = turn.result[j]
  BY <1>1, <1>3, <1>4, <1>5, AppliedFacts
<1>7. /\ Relabelled(s, turn')
      /\ \A j \in Ids : /\ turn'.step[j].status = IF j = Intake THEN "completed" ELSE turn.step[j].status
                        /\ turn'.step[j].attempts = turn.step[j].attempts
                        /\ turn'.step[j].call = turn.step[j].call
  <2>1. "completed" \in Statuses  BY DEF Statuses
  <2>2. /\ Relabelled(s, turn')
        /\ \A j \in Ids : /\ turn'.step[j].status = IF j = Intake THEN "completed" ELSE s.step[j].status
                          /\ turn'.step[j].attempts = s.step[j].attempts
    BY <1>1, <1>2, <1>5, <1>6, <2>1, WithStepFacts
  <2>3. QED  BY <1>6, <2>2 DEF Relabelled
<1>8. /\ turn' \in Checkpoint /\ turn'.plan = turn.plan /\ turn'.result = s.result
      /\ turn'.applied = turn.applied \cup {Intake} /\ turn'.version = v /\ turn'.calls = turn.calls
      /\ turn'.pending = turn.pending
  BY <1>6, <1>7 DEF Relabelled, Rest
<1>9. TypeOK' /\ Phased' /\ Same' /\ Ended'
  BY <1>1, <1>2, <1>3, <1>8, SaveStep
<1>10. FirstOnce' /\ FormPosted' /\ Executing'
  BY <1>2, <1>3, <1>7 DEF IInv, FirstOnce, FormPosted, Executing
<1>11. Truthful(turn)' /\ Truthful(disk)'
  <2>1. s.result[Intake] # None  BY <1>6, NoneAssumption
  <2>2. QED  BY <1>2, <1>6, <1>7, <1>8, <2>1 DEF IInv, Truthful
<1>12. Numbered'  BY <1>2, <1>7, <1>8 DEF IInv, Numbered
<1>13. RoutedSteps'  BY <1>2, <1>3 DEF RoutedSteps
<1>14. Receipted'
  <2>1. v <= trip  BY <1>1, <1>2, <1>4 DEF IInv, Receipted
  <2>2. QED  BY <1>2, <1>8, <2>1 DEF IInv, Receipted, outside
<1>15. Progress
  BY <1>2, <1>3, <1>7 DEF IInv, Same, Progress, StepMoves, L!Allowed
<1>16. QED  BY <1>9, <1>10, <1>11, <1>12, <1>13, <1>14, <1>15 DEF IInv

-----------------------------------------------------------------------------
(* The rounds.                                                             *)

\* A segment that changes only what the round does.
LEMMA RoundStep ==
  ASSUME IInv, phase \in {"routes", "rounds"}, turn' \in Checkpoint, disk' = turn',
         turn'.step = turn.step, turn'.plan = turn.plan, turn'.result = turn.result,
         turn'.applied = turn.applied, turn'.version = turn.version, turn'.calls = turn.calls,
         mode = "routes" => turn'.pending \subseteq turn.pending,
         co' \in [Tasks -> Coroutine], UNCHANGED <<status, phase, shown, mode, profile, owner>>,
         UNCHANGED outside, Executing'
  PROVE  IInv' /\ Progress
<1>1. TypeOK' /\ Phased' /\ Same' /\ Ended'
  BY SaveStep
<1>2. FirstOnce' /\ FormPosted' /\ Receipted'
  BY DEF IInv, FirstOnce, FormPosted, Receipted, outside
<1>3. Truthful(turn)' /\ Truthful(disk)'
  BY DEF IInv, Truthful
<1>4. Numbered'  BY DEF IInv, Numbered
<1>5. RoutedSteps'
  BY DEF IInv, RoutedSteps, Listed
<1>6. Progress
  BY Stays DEF IInv, Same, Progress
<1>7. QED  BY <1>1, <1>2, <1>3, <1>4, <1>5, <1>6 DEF IInv

LEMMA ChooseBatchStep ==
  ASSUME IInv, NEW batch \in SUBSET Tasks, ChooseBatch(batch)
  PROVE  IInv' /\ Progress
<1>1. turn \in Checkpoint /\ co \in [Tasks -> Coroutine]  BY DEF IInv, TypeOK
<1>2. /\ phase = "rounds" /\ turn.pending = {} /\ turn.round < MaxRounds
      /\ turn' = [turn EXCEPT !.round = @ + 1, !.pending = batch, !.done = {}] /\ disk' = turn'
      /\ UNCHANGED <<status, phase, shown, mode, profile, owner, co>> /\ UNCHANGED outside
  BY DEF ChooseBatch, Saves
<1>3. turn.round + 1 \in 0..MaxRounds  BY <1>1, <1>2, TurnPlanAssumption DEF Checkpoint
<1>4. PICK n \in 0..MaxRounds : n = turn.round + 1  BY <1>3
<1>5. turn' = [turn EXCEPT !.round = n, !.pending = batch, !.done = {}]  BY <1>2, <1>4
<1>6. [turn EXCEPT !.round = n, !.pending = batch, !.done = {}] \in Checkpoint
  BY <1>1 DEF Checkpoint
<1>7. /\ turn' \in Checkpoint /\ turn'.step = turn.step /\ turn'.plan = turn.plan
      /\ turn'.result = turn.result /\ turn'.applied = turn.applied /\ turn'.version = turn.version
      /\ turn'.calls = turn.calls
  BY <1>1, <1>5, <1>6 DEF Checkpoint
<1>8. \A t \in Tasks : co[t].at = "idle"  BY <1>2 DEF IInv, Executing
<1>9. Executing' /\ mode # "routes"  BY <1>2, <1>8 DEF IInv, Phased, Executing
<1>10. QED  BY <1>1, <1>2, <1>7, <1>9, RoundStep

LEMMA EndRoundStep ==
  ASSUME IInv, EndRound
  PROVE  IInv' /\ Progress
<1>1. turn \in Checkpoint /\ co \in [Tasks -> Coroutine]  BY DEF IInv, TypeOK
<1>2. /\ phase = "rounds" /\ turn.done = turn.pending
      /\ turn' = [turn EXCEPT !.pending = {}, !.done = {}] /\ disk' = turn'
      /\ UNCHANGED <<status, phase, shown, mode, profile, owner, co>> /\ UNCHANGED outside
  BY DEF EndRound, Saves
<1>3. [turn EXCEPT !.pending = {}, !.done = {}] \in Checkpoint  BY <1>1 DEF Checkpoint
<1>4. /\ turn' \in Checkpoint /\ turn'.step = turn.step /\ turn'.plan = turn.plan
      /\ turn'.result = turn.result /\ turn'.applied = turn.applied /\ turn'.version = turn.version
      /\ turn'.calls = turn.calls
  BY <1>1, <1>2, <1>3 DEF Checkpoint
<1>5. \A t \in Tasks : co[t].at = "idle"  BY <1>2 DEF IInv, Executing
<1>6. Executing' /\ mode # "routes"  BY <1>2, <1>5 DEF IInv, Phased, Executing
<1>7. QED  BY <1>1, <1>2, <1>4, <1>6, RoundStep

\* Two calls of a round never share a child.
LEMMA Distinct ==
  ASSUME IInv, NEW t \in Tasks, NEW u \in Tasks, t # u, co[t].at # "idle", co[u].at # "idle"
  PROVE  co[t].id # co[u].id
BY DEF IInv, Executing, CallOf

\* What the other coroutines know stays true when one of them moves.
LEMMA OthersExecute ==
  ASSUME IInv, NEW t \in Tasks, NEW c \in Coroutine, co' = [co EXCEPT ![t] = c],
         turn'.round = turn.round, turn'.pending = turn.pending,
         turn'.done = turn.done \/ turn'.done = turn.done \cup {t},
         \A u \in Tasks \ {t} : co[u].at # "idle" =>
           /\ turn'.step[co[u].id].call = turn.step[co[u].id].call
           /\ turn'.step[co[u].id].status = turn.step[co[u].id].status
           /\ turn'.result[co[u].id] = turn.result[co[u].id],
         c.at # "idle" =>
           /\ t \in turn'.pending \ turn'.done /\ c.id # Intake
           /\ turn'.step[c.id].call = <<turn.round, t>>
           /\ c.at \in {"working", "applying"} => turn'.step[c.id].status = "running"
           /\ c.at = "applying" => turn'.result[c.id] # None /\ turn'.result[c.id].proposal
  PROVE  Executing' /\ co' \in [Tasks -> Coroutine]
<1>1. co \in [Tasks -> Coroutine]  BY DEF IInv, TypeOK
<1>2. co' \in [Tasks -> Coroutine] /\ co'[t] = c /\ \A u \in Tasks \ {t} : co'[u] = co[u]
  BY <1>1
<1>3. ASSUME NEW u \in Tasks, co'[u].at # "idle"
      PROVE  /\ u \in turn'.pending \ turn'.done /\ co'[u].id # Intake
             /\ turn'.step[co'[u].id].call = <<turn'.round, u>>
             /\ co'[u].at \in {"working", "applying"} => turn'.step[co'[u].id].status = "running"
             /\ co'[u].at = "applying" =>
                  turn'.result[co'[u].id] # None /\ turn'.result[co'[u].id].proposal
  <2>1. CASE u = t  BY <1>2, <1>3, <2>1
  <2>2. CASE u # t
    <3>1. co'[u] = co[u] /\ co[u].at # "idle"  BY <1>2, <1>3, <2>2
    <3>2. /\ u \in turn.pending \ turn.done /\ co[u].id # Intake
          /\ turn.step[co[u].id].call = <<turn.round, u>>
          /\ co[u].at \in {"working", "applying"} => turn.step[co[u].id].status = "running"
          /\ co[u].at = "applying" => turn.result[co[u].id] # None /\ turn.result[co[u].id].proposal
      BY <3>1 DEF IInv, Executing, CallOf
    <3>3. QED  BY <2>2, <3>1, <3>2
  <2>3. QED  BY <2>1, <2>2
<1>4. QED  BY <1>2, <1>3 DEF Executing, CallOf

\* The call of t is answered, and nothing else changes.
LEMMA AnsweredStep ==
  ASSUME IInv, NEW t \in Tasks, phase \in {"routes", "rounds"}, Answered(t)
  PROVE  IInv' /\ Progress
<1>1. turn \in Checkpoint /\ Idle \in Coroutine /\ Idle.at = "idle"
  BY TurnPlanAssumption DEF IInv, TypeOK, Idle, Coroutine, Ids, Versions
<1>2. /\ turn' = [turn EXCEPT !.done = @ \cup {t}] /\ disk' = turn' /\ co' = [co EXCEPT ![t] = Idle]
      /\ UNCHANGED <<status, phase, shown, mode, profile, owner>> /\ UNCHANGED outside
  BY DEF Answered, Saves
<1>3. PICK d \in SUBSET Tasks : d = turn.done \cup {t}  BY <1>1 DEF Checkpoint
<1>4. turn' = [turn EXCEPT !.done = d]  BY <1>2, <1>3
<1>5. [turn EXCEPT !.done = d] \in Checkpoint  BY <1>1 DEF Checkpoint
<1>6. /\ turn' \in Checkpoint /\ turn'.step = turn.step /\ turn'.plan = turn.plan
      /\ turn'.result = turn.result /\ turn'.applied = turn.applied /\ turn'.version = turn.version
      /\ turn'.calls = turn.calls /\ turn'.pending = turn.pending /\ turn'.round = turn.round
      /\ turn'.done = turn.done \cup {t}
  BY <1>1, <1>3, <1>4, <1>5 DEF Checkpoint
<1>7. Executing' /\ co' \in [Tasks -> Coroutine]  BY <1>1, <1>2, <1>6, OthersExecute
<1>8. QED  BY <1>2, <1>6, <1>7, RoundStep

LEMMA RegisterRoutesStep ==
  ASSUME IInv, RegisterRoutes
  PROVE  IInv' /\ Progress
<1> USE TurnPlanAssumption
<1> DEFINE who(i) == CHOOSE t \in Routed : Route[t] = i
           new(i) == [NoStep EXCEPT !.status = "pending", !.version = turn.version,
                                    !.task = who(i)]
           p == [k \in Keys |-> IF k[1] \in Routed /\ k[2] = turn.version /\ ~k[3] /\ turn.plan[k] = None
                                THEN Route[k[1]] ELSE turn.plan[k]]
           f == [i \in Ids |-> IF turn.step[i].status = "none" /\ \E t \in Routed : Route[t] = i
                               THEN new(i) ELSE turn.step[i]]
<1>1. turn \in Checkpoint /\ co \in [Tasks -> Coroutine]  BY DEF IInv, TypeOK
<1>2. /\ phase = "routes" /\ turn.pending = {}
      /\ turn' = [turn EXCEPT !.pending = Routed, !.plan = p, !.step = f] /\ disk' = turn'
      /\ UNCHANGED <<status, phase, shown, mode, profile, owner, co>> /\ UNCHANGED outside
  BY DEF RegisterRoutes, Saves
<1>3. \A t \in Tasks : Route[t] \in Ids \ {Intake}  BY DEF Ids, Intake
<1>4. Routed \subseteq Tasks  BY DEF Routed
<1>5. ASSUME NEW i \in Ids, \E t \in Routed : Route[t] = i
      PROVE  new(i) \in Step /\ new(i).status = "pending" /\ new(i).attempts = 1 /\ new(i).call = None
  <2>1. who(i) \in Tasks  BY <1>4, <1>5
  <2> HIDE DEF who
  <2>2. turn.version \in Versions  BY <1>1 DEF Checkpoint
  <2>3. NoStep \in Step /\ NoStep.attempts = 1 /\ NoStep.call = None
    BY DEF NoStep, Step, Versions
  <2>4. PICK a : a = [NoStep EXCEPT !.status = "pending"]  OBVIOUS
  <2>5. PICK b : b = [a EXCEPT !.version = turn.version]  OBVIOUS
  <2>6. PICK c : c = [b EXCEPT !.task = who(i)]  OBVIOUS
  <2>7. a \in Step /\ a.status = "pending" /\ a.attempts = 1 /\ a.call = None
    BY <2>3, <2>4 DEF Step
  <2>8. b \in Step /\ b.status = "pending" /\ b.attempts = 1 /\ b.call = None
    BY <2>2, <2>5, <2>7 DEF Step
  <2>9. c \in Step /\ c.status = "pending" /\ c.attempts = 1 /\ c.call = None
    BY <2>1, <2>6, <2>8 DEF Step
  <2>10. new(i) = c  BY <2>4, <2>5, <2>6
  <2>11. QED  BY <2>9, <2>10
<1>6. ASSUME NEW i \in Ids
      PROVE  /\ f[i] \in Step
             /\ \/ f[i] = turn.step[i]
                \/ turn.step[i].status = "none" /\ f[i].status = "pending" /\ f[i].attempts = 1
                   /\ f[i].call = None /\ \E t \in Routed : Route[t] = i
  <2>1. turn.step[i] \in Step  BY <1>1 DEF Checkpoint
  <2> HIDE DEF new
  <2>2. QED  BY <1>5, <2>1
<1>7. ASSUME NEW k \in Keys
      PROVE  p[k] \in Ids \cup {None} /\ (p[k] = turn.plan[k] \/ (turn.plan[k] = None /\ p[k] = Route[k[1]]))
  <2>1. turn.plan[k] \in Ids \cup {None}  BY <1>1 DEF Checkpoint
  <2>2. k[1] \in Tasks  BY DEF Keys
  <2>3. QED  BY <1>3, <2>1, <2>2
<1>8. ASSUME NEW t \in Routed PROVE \E k \in Keys : p[k] = Route[t]
  <2>1. mode = "routes"  BY <1>2 DEF IInv, Phased
  <2>2. PICK k : k = <<t, turn.version, FALSE>>  OBVIOUS
  <2>3. k \in Keys /\ k[1] = t /\ k[2] = turn.version /\ k[3] = FALSE
    BY <1>1, <1>4, <2>2 DEF Keys, Checkpoint
  <2>4. turn.plan[k] \in {None, Route[t]}  BY <2>1, <2>3 DEF IInv, RoutedSteps
  <2>5. p[k] = Route[t]  BY <2>3, <2>4
  <2>6. QED  BY <2>3, <2>5
<1>9. f \in [Ids -> Step] /\ p \in [Keys -> Ids \cup {None}]  BY <1>6, <1>7
<1> HIDE DEF f, p, new
<1>10. [turn EXCEPT !.pending = Routed, !.plan = p, !.step = f] \in Checkpoint
  BY <1>1, <1>4, <1>9 DEF Checkpoint
<1>11. /\ turn' \in Checkpoint /\ turn'.step = f /\ turn'.plan = p /\ turn'.result = turn.result
       /\ turn'.applied = turn.applied /\ turn'.version = turn.version /\ turn'.calls = turn.calls
       /\ turn'.pending = Routed
  BY <1>1, <1>2, <1>10 DEF Checkpoint
<1>12. /\ \A t \in Tasks : co[t].at = "idle"
       /\ mode = "routes"
  BY <1>2 DEF IInv, Executing, Phased
<1>13. TypeOK' /\ Phased' /\ Same' /\ Ended'
  BY <1>1, <1>2, <1>11, SaveStep
<1>14. Executing' /\ FormPosted' /\ Numbered'
  BY <1>2, <1>12 DEF Executing, FormPosted, Numbered
<1>15. FirstOnce'  BY <1>6, <1>11 DEF IInv, FirstOnce
<1>16. Receipted'  BY <1>2, <1>11 DEF IInv, Receipted, outside
<1>17. Truthful(turn)' /\ Truthful(disk)'
  BY <1>2, <1>6, <1>11 DEF IInv, Truthful
<1>18. RoutedSteps'
  <2>1. \A k \in Keys : p[k] \in {None, Route[k[1]]}
    BY <1>7, <1>12 DEF IInv, RoutedSteps
  <2>2. \A c \in Calls : c # None  BY NoneAssumption
  <2>3. \A i \in Ids, c \in Calls : f[i].call = c => Route[c[2]] = i
    BY <1>6, <1>12, <2>2 DEF IInv, RoutedSteps
  <2>4. \A t \in Routed : Route[t] \in Listed(turn')
    <3>1. ASSUME NEW t \in Routed PROVE Route[t] \in Listed(turn')
      <4>1. PICK k \in Keys : p[k] = Route[t]  BY <1>8
      <4>2. Route[t] # None  BY <1>3, <1>4, NoneAssumption DEF Ids
      <4>3. QED  BY <1>11, <4>1, <4>2 DEF Listed
    <3>2. QED  BY <3>1
  <2>5. QED  BY <1>11, <2>1, <2>3, <2>4 DEF RoutedSteps
<1>19. Progress
  <2>1. \A i \in Ids : turn.step[i].status = "none" => turn.step[i].attempts = 1
    BY DEF IInv, FirstOnce
  <2>2. QED  BY <1>2, <1>6, <1>11, <2>1, Stays DEF IInv, Same, Progress, StepMoves, L!Allowed
<1>20. QED  BY <1>13, <1>14, <1>15, <1>16, <1>17, <1>18, <1>19 DEF IInv

\* A segment of the rounds that moves one step.
LEMMA MoveStep ==
  ASSUME IInv, phase \in {"routes", "rounds"}, NEW i \in Ids,
         turn' \in Checkpoint, disk' = turn', turn'.plan = turn.plan, turn'.result = turn.result,
         turn'.applied = turn.applied, turn'.version = turn.version, turn'.calls = turn.calls,
         turn'.round = turn.round, turn'.pending = turn.pending,
         \A j \in Ids : turn'.step[j].call = turn.step[j].call,
         turn'.step[i].attempts = turn.step[i].attempts,
         turn.step[i].status # "none", turn'.step[i].status \notin {"none", "completed"},
         \/ turn'.step[i].status = turn.step[i].status
         \/ turn'.step[i].status \in L!Allowed(turn.step[i].status),
         \A j \in Ids \ {i} : /\ turn'.step[j].status = turn.step[j].status
                              /\ turn'.step[j].attempts = turn.step[j].attempts,
         UNCHANGED <<status, phase, shown, mode, profile, owner>>, UNCHANGED outside,
         Executing', co' \in [Tasks -> Coroutine]
  PROVE  IInv' /\ Progress
<1>1. /\ turn'.plan = turn.plan /\ turn'.result = turn.result /\ turn'.applied = turn.applied
      /\ turn'.version = turn.version /\ turn'.calls = turn.calls /\ turn'.round = turn.round
      /\ turn'.pending = turn.pending /\ \A j \in Ids : turn'.step[j].call = turn.step[j].call
  OBVIOUS
<1>2. TypeOK' /\ Phased' /\ Same' /\ Ended'
  BY SaveStep
<1>3. FirstOnce' /\ FormPosted' /\ Receipted'
  BY <1>1 DEF IInv, FirstOnce, FormPosted, Receipted, outside
<1>4. Truthful(turn)' /\ Truthful(disk)'
  BY <1>1 DEF IInv, Truthful
<1>5. Numbered'
  BY <1>1 DEF IInv, Numbered
<1>6. RoutedSteps'
  <2>1. Listed(turn') = Listed(turn)  BY <1>1 DEF Listed
  <2>2. QED  BY <1>1, <2>1 DEF IInv, RoutedSteps
<1>7. Progress
  BY DEF IInv, Same, Progress, StepMoves
<1>8. QED  BY <1>2, <1>3, <1>4, <1>5, <1>6, <1>7 DEF IInv

\* What a coroutine in the rounds knows of its own child.
LEMMA ChildFacts ==
  ASSUME IInv, NEW t \in Tasks, co[t].at # "idle"
  PROVE  /\ phase \in {"routes", "rounds"} /\ turn \in Checkpoint /\ co[t] \in Coroutine
         /\ co[t].id \in Ids \ {Intake} /\ t \in turn.pending \ turn.done
         /\ turn.step[co[t].id].call = <<turn.round, t>> /\ <<turn.round, t>> \in Calls
         /\ mode = "routes" => co[t].id = Route[t]
         /\ mode # "routes" => co[t].id <= turn.calls
<1>1. /\ turn \in Checkpoint /\ co[t] \in Coroutine /\ phase \in {"none", "form", "posted", "routes", "rounds"}
  BY DEF IInv, TypeOK
<1>2. phase \in {"routes", "rounds"}  BY <1>1 DEF IInv, Phased
<1>3. /\ t \in turn.pending \ turn.done /\ co[t].id # Intake
      /\ turn.step[co[t].id].call = <<turn.round, t>>
  BY DEF IInv, Executing, CallOf
<1>4. co[t].id \in Ids /\ turn.round \in 0..MaxRounds  BY <1>1 DEF Coroutine, Checkpoint
<1>5. <<turn.round, t>> \in Calls  BY <1>4 DEF Calls
<1>6. turn.step[co[t].id].call # None  BY <1>3, <1>5, NoneAssumption
<1>7. mode = "routes" => co[t].id = Route[t]
  BY <1>3, <1>4, <1>5 DEF IInv, RoutedSteps
<1>8. turn.calls \in Nat /\ co[t].id \in Nat  BY <1>1, <1>4, TurnPlanAssumption DEF Checkpoint, Ids
<1>9. mode # "routes" => co[t].id <= turn.calls
  <2>1. Numbered  BY DEF IInv
  <2>2. ASSUME mode # "routes", co[t].id > turn.calls PROVE FALSE
    BY <1>3, <1>4, <1>6, <2>1, <2>2 DEF Numbered
  <2>3. QED  BY <1>8, <2>2
<1>10. QED  BY <1>1, <1>2, <1>3, <1>4, <1>5, <1>7, <1>9

LEMMA StartStepStep ==
  ASSUME IInv, NEW t \in Tasks, StartStep(t)
  PROVE  IInv' /\ Progress
<1> DEFINE i == co[t].id
           c == [co[t] EXCEPT !.at = "working"]
<1>1. /\ co[t].at = "queued" /\ turn.step[i].status \in Active
      /\ turn' = WithStep(turn, i, "running") /\ disk' = turn' /\ co' = [co EXCEPT ![t].at = "working"]
      /\ UNCHANGED <<status, phase, shown, mode, profile, owner>> /\ UNCHANGED outside
  BY DEF StartStep, CanStart, Saves
<1>2. /\ phase \in {"routes", "rounds"} /\ turn \in Checkpoint /\ co[t] \in Coroutine
      /\ i \in Ids \ {Intake} /\ t \in turn.pending \ turn.done
      /\ turn.step[i].call = <<turn.round, t>>
  BY <1>1, ChildFacts
<1>3. "running" \in Statuses  BY DEF Statuses
<1>4. /\ Relabelled(turn, turn')
      /\ \A j \in Ids : /\ turn'.step[j].status = IF j = i THEN "running" ELSE turn.step[j].status
                        /\ turn'.step[j].attempts = turn.step[j].attempts
  BY <1>1, <1>2, <1>3, WithStepFacts
<1>5. c \in Coroutine /\ c.id = i /\ c.at = "working"  BY <1>2 DEF Coroutine
<1>6. co' = [co EXCEPT ![t] = c]  BY <1>1
<1>7. \A u \in Tasks \ {t} : co[u].at # "idle" => co[u].id # i /\ co[u].id \in Ids
  BY <1>1, Distinct, ChildFacts
<1> HIDE DEF c, i
<1>8. Executing' /\ co' \in [Tasks -> Coroutine]
  BY <1>2, <1>4, <1>5, <1>6, <1>7, OthersExecute DEF Relabelled, Rest
<1>9. /\ turn.step[i].status # "none" /\ turn'.step[i].status \notin {"none", "completed"}
      /\ \/ turn'.step[i].status = turn.step[i].status
         \/ turn'.step[i].status \in L!Allowed(turn.step[i].status)
  BY <1>1, <1>2, <1>4 DEF Active, L!Allowed
<1>10. QED
  BY <1>1, <1>2, <1>4, <1>8, <1>9, MoveStep DEF Relabelled, Rest

LEMMA RouteRefusedStep ==
  ASSUME IInv, NEW t \in Tasks, RouteRefused(t)
  PROVE  IInv' /\ Progress
<1> DEFINE i == Route[t]
<1>1. /\ phase = "routes" /\ t \in turn.pending \ turn.done /\ ~Busy(t)
      /\ turn.step[i].status \in {"pending", "running", "failed"}
      /\ turn' = [WithStep(turn, i, "failed") EXCEPT !.done = @ \cup {t}] /\ disk' = turn'
      /\ UNCHANGED <<status, phase, shown, mode, profile, owner, co>> /\ UNCHANGED outside
  BY DEF RouteRefused, CanEnter, Locked, Saves
<1>2. turn \in Checkpoint /\ i \in Ids /\ co \in [Tasks -> Coroutine]
  BY TurnPlanAssumption DEF IInv, TypeOK, Ids
<1>3. PICK s : s = WithStep(turn, i, "failed")  OBVIOUS
<1>4. "failed" \in Statuses  BY DEF Statuses
<1>5. /\ Relabelled(turn, s)
      /\ \A j \in Ids : /\ s.step[j].status = IF j = i THEN "failed" ELSE turn.step[j].status
                        /\ s.step[j].attempts = turn.step[j].attempts
  BY <1>2, <1>3, <1>4, WithStepFacts
<1>6. s \in Checkpoint  BY <1>5 DEF Relabelled, Rest
<1>7. PICK d \in SUBSET Tasks : d = s.done \cup {t}  BY <1>6 DEF Checkpoint
<1>8. turn' = [s EXCEPT !.done = d]  BY <1>1, <1>3, <1>7
<1>9. [s EXCEPT !.done = d] \in Checkpoint  BY <1>6 DEF Checkpoint
<1>10. /\ turn' \in Checkpoint /\ turn'.step = s.step /\ turn'.plan = s.plan /\ turn'.result = s.result
       /\ turn'.applied = s.applied /\ turn'.version = s.version /\ turn'.calls = s.calls
       /\ turn'.round = s.round /\ turn'.pending = s.pending /\ turn'.done = s.done \cup {t}
  BY <1>6, <1>7, <1>8, <1>9 DEF Checkpoint
<1>11. PICK c \in Coroutine : c = co[t]  BY <1>2
<1>12. c.at = "idle" /\ co' = [co EXCEPT ![t] = c]  BY <1>1, <1>2, <1>11 DEF Busy
<1>13. \A u \in Tasks \ {t} : co[u].at # "idle" => co[u].id # i /\ co[u].id \in Ids
  <2>1. ASSUME NEW u \in Tasks \ {t}, co[u].at # "idle" PROVE co[u].id # i /\ co[u].id \in Ids
    <3>1. mode = "routes"  BY <1>1 DEF IInv, Phased
    <3>2. co[u].id = Route[u] /\ co[u].id \in Ids  BY <2>1, <3>1, ChildFacts
    <3>3. Route[u] # Route[t]  BY <2>1, TurnPlanAssumption DEF IsInjective
    <3>4. QED  BY <3>2, <3>3
  <2>2. QED  BY <2>1
<1> HIDE DEF i
<1>14. /\ turn'.round = turn.round /\ turn'.pending = turn.pending /\ turn'.done = turn.done \cup {t}
       /\ turn'.result = turn.result /\ \A j \in Ids : turn'.step[j].call = turn.step[j].call
       /\ turn'.plan = turn.plan /\ turn'.applied = turn.applied /\ turn'.version = turn.version
       /\ turn'.calls = turn.calls
  BY <1>5, <1>10 DEF Relabelled, Rest
<1>15. \A j \in Ids : /\ turn'.step[j].status = IF j = i THEN "failed" ELSE turn.step[j].status
                      /\ turn'.step[j].attempts = turn.step[j].attempts
  BY <1>5, <1>10
<1>16. Executing' /\ co' \in [Tasks -> Coroutine]
  <2>1. \A u \in Tasks \ {t} : co[u].at # "idle" =>
          /\ turn'.step[co[u].id].call = turn.step[co[u].id].call
          /\ turn'.step[co[u].id].status = turn.step[co[u].id].status
          /\ turn'.result[co[u].id] = turn.result[co[u].id]
    BY <1>13, <1>14, <1>15
  <2>2. QED  BY <1>12, <1>14, <2>1, OthersExecute
<1>17. /\ turn.step[i].status # "none" /\ turn'.step[i].status \notin {"none", "completed"}
       /\ \/ turn'.step[i].status = turn.step[i].status
          \/ turn'.step[i].status \in L!Allowed(turn.step[i].status)
  BY <1>1, <1>2, <1>15 DEF L!Allowed
<1>18. QED
  <2>1. /\ phase \in {"routes", "rounds"} /\ disk' = turn' /\ i \in Ids /\ turn' \in Checkpoint
        /\ UNCHANGED <<status, phase, shown, mode, profile, owner>> /\ UNCHANGED outside
    BY <1>1, <1>2, <1>10
  <2>2. turn'.step[i].attempts = turn.step[i].attempts
    BY <1>15, <2>1
  <2>3. \A j \in Ids \ {i} : /\ turn'.step[j].status = turn.step[j].status
                            /\ turn'.step[j].attempts = turn.step[j].attempts
    BY <1>15
  <2>4. QED  BY <1>14, <1>16, <1>17, <2>1, <2>2, <2>3, MoveStep

\* The steps a call goes on with.
LEMMA ResumeChildStep ==
  ASSUME IInv, NEW t \in Tasks, ResumeChild(t)
  PROVE  IInv' /\ Progress
<1>1. PICK i : i \in Children(t) /\ turn.result[i] = None /\ Queue(t, i, turn)
  BY DEF ResumeChild
<1>2. /\ phase \in {"routes", "rounds"} /\ t \in turn.pending \ turn.done
      /\ i \in Ids \ {Intake} /\ turn.step[i].call = <<turn.round, t>>
      /\ turn' = turn /\ disk' = turn' /\ UNCHANGED <<status, phase, shown, mode, profile, owner>>
      /\ UNCHANGED outside
      /\ co' = [co EXCEPT ![t] = [at |-> "queued", id |-> i, version |-> turn.version]]
  BY <1>1 DEF ResumeChild, CanEnter, Children, CallOf, Queue, Saves
<1>3. turn \in Checkpoint /\ turn.version \in Versions  BY DEF IInv, TypeOK, Checkpoint
<1>4. PICK c \in Coroutine : c = [at |-> "queued", id |-> i, version |-> turn.version]
  BY <1>2, <1>3 DEF Coroutine
<1>5. c.at = "queued" /\ c.id = i /\ co' = [co EXCEPT ![t] = c]  BY <1>2, <1>4
<1>6. Executing' /\ co' \in [Tasks -> Coroutine]
  BY <1>2, <1>5, OthersExecute
<1>7. QED  BY <1>2, <1>3, <1>6, RoundStep

LEMMA TurnedStep ==
  ASSUME IInv, NEW t \in Tasks, Turned(t)
  PROVE  IInv' /\ Progress
BY AnsweredStep DEF Turned, CanEnter

LEMMA StartRefusedStep ==
  ASSUME IInv, NEW t \in Tasks, StartRefused(t)
  PROVE  IInv' /\ Progress
BY AnsweredStep DEF StartRefused

LEMMA ChangeRejectedStep ==
  ASSUME IInv, NEW t \in Tasks, ChangeRejected(t)
  PROVE  IInv' /\ Progress
BY AnsweredStep, ChildFacts DEF ChangeRejected

\* A child is created: the next number, or the step of the routed task.
LEMMA DelegateStep ==
  ASSUME IInv, NEW t \in Tasks, NEW deps \in DependencySets(t), Delegate(t, deps)
  PROVE  IInv' /\ Progress
<1> USE TurnPlanAssumption
<1> DEFINE call == <<turn.round, t>>
           key == Key(t, turn.version)
           q == [turn EXCEPT !.calls = @ + 1]
<1>1. turn \in Checkpoint /\ turn.calls \in 0..MaxChildren /\ turn.version \in Versions /\ call \in Calls
  BY DEF IInv, TypeOK, Checkpoint, Calls
<1>2. /\ phase \in {"routes", "rounds"} /\ t \in turn.pending \ turn.done /\ co[t].at = "idle"
      /\ turn.calls < MaxChildren
  BY <1>1 DEF Delegate, CanEnter, Locked, Busy, AtLimit
<1>3. PICK i : /\ i = IF phase = "routes" THEN Route[t] ELSE turn.calls + 1
               /\ Queue(t, i, Registered(q, i, t, deps))
  BY DEF Delegate
<1>4. i \in Ids \ {Intake}  BY <1>1, <1>2, <1>3 DEF Ids, Intake
<1>5. PICK c \in Coroutine : c = [at |-> "queued", id |-> i, version |-> turn.version]
  BY <1>1, <1>4 DEF Coroutine
<1>6. /\ turn' = Registered(q, i, t, deps) /\ disk' = turn' /\ co' = [co EXCEPT ![t] = c]
      /\ UNCHANGED <<status, phase, shown, mode, profile, owner>> /\ UNCHANGED outside
      /\ c.at = "queued" /\ c.id = i
  BY <1>3, <1>5 DEF Queue, Saves
<1>7. /\ q \in Checkpoint /\ q.step = turn.step /\ q.plan = turn.plan /\ q.result = turn.result
      /\ q.applied = turn.applied /\ q.version = turn.version /\ q.round = turn.round
      /\ q.pending = turn.pending /\ q.done = turn.done /\ q.calls = turn.calls + 1
  <2>1. PICK n \in 0..MaxChildren : n = turn.calls + 1  BY <1>1, <1>2
  <2>2. q = [turn EXCEPT !.calls = n]  BY <2>1
  <2>3. [turn EXCEPT !.calls = n] \in Checkpoint  BY <1>1 DEF Checkpoint
  <2>4. QED  BY <1>1, <2>1, <2>2, <2>3 DEF Checkpoint
<1>8. i \in Listed(turn) <=> phase = "routes"
  <2>1. CASE phase = "routes"
    BY <1>2, <1>3, <2>1 DEF IInv, Phased, RoutedSteps
  <2>2. CASE phase = "rounds"
    <3>1. mode # "routes"  BY <2>2 DEF IInv, Phased
    <3>2. i > turn.calls  BY <1>1, <1>3, <2>2
    <3>3. \A k \in Keys : turn.plan[k] # i  BY <1>4, <3>1, <3>2 DEF IInv, Numbered
    <3>4. QED  BY <1>4, <2>2, <3>3 DEF Listed
  <2>3. QED  BY <1>2, <2>1, <2>2
<1>9. Listed(q) = Listed(turn)  BY <1>7 DEF Listed
<1>10. deps \in SUBSET Ids
  <2>1. Listed(turn) \subseteq Ids  BY <1>1 DEF Listed, Checkpoint, Ids, Intake
  <2>2. QED  BY <2>1 DEF DependencySets
<1> HIDE DEF q
\* What became of the steps and of the plan, either way.
<1>11. /\ turn' \in Checkpoint /\ turn'.result = turn.result /\ turn'.applied = turn.applied
       /\ turn'.version = turn.version /\ turn'.round = turn.round /\ turn'.pending = turn.pending
       /\ turn'.done = turn.done /\ turn'.calls = turn.calls + 1
       /\ turn'.step[i].call = call
       /\ \A j \in Ids \ {i} : turn'.step[j] = turn.step[j]
       /\ \/ /\ phase = "routes" /\ turn'.plan = turn.plan
             /\ turn'.step[i].status = turn.step[i].status
             /\ turn'.step[i].attempts = turn.step[i].attempts
          \/ /\ phase = "rounds" /\ turn'.step[i].status = "pending" /\ turn'.step[i].attempts = 1
             /\ \A k \in Keys : turn'.plan[k] = turn.plan[k] \/ turn'.plan[k] = i
  <2>1. turn.step \in [Ids -> Step] /\ turn.plan \in [Keys -> Ids \cup {None}]  BY <1>1 DEF Checkpoint
  <2>2. CASE phase = "routes"
    <3>1. turn' = [q EXCEPT !.step[i].call = call]
      BY <1>6, <1>7, <1>8, <1>9, <2>2 DEF Registered, CallOf
    <3>2. PICK f : f = [turn.step EXCEPT ![i].call = call]  OBVIOUS
    <3>3. turn.step[i] \in Step  BY <1>4, <2>1
    <3>4. [turn.step[i] EXCEPT !.call = call] \in Step  BY <1>1, <3>3 DEF Step
    <3>5. /\ f \in [Ids -> Step] /\ f[i] = [turn.step[i] EXCEPT !.call = call]
          /\ \A j \in Ids \ {i} : f[j] = turn.step[j]
      BY <1>4, <2>1, <3>2, <3>4
    <3>6. f[i].call = call /\ f[i].status = turn.step[i].status /\ f[i].attempts = turn.step[i].attempts
      BY <3>3, <3>5 DEF Step
    <3>7. turn' = WithSteps(q, f)  BY <1>7, <3>1, <3>2 DEF WithSteps, Checkpoint
    <3>8. Rest(q, turn') /\ turn'.step = f  BY <1>7, <3>5, <3>7, WithStepsRest
    <3>9. QED  BY <1>7, <2>2, <3>5, <3>6, <3>8 DEF Rest
  <2>3. CASE phase = "rounds"
    <3> DEFINE rec == [status |-> "pending", attempts |-> 1, task |-> t, version |-> q.version,
                       deps |-> deps, call |-> call]
    <3>1. turn' = [q EXCEPT !.plan[key] = i, !.step[i] = rec]
      BY <1>6, <1>7, <1>8, <1>9, <2>3 DEF Registered, CallOf
    <3>2. rec \in Step /\ rec.call = call /\ rec.status = "pending" /\ rec.attempts = 1
      BY <1>1, <1>7, <1>10 DEF Step
    <3>3. key \in Keys  BY <1>1 DEF Key, Keys, IInv, TypeOK
    <3> HIDE DEF rec, key, call
    <3>4. PICK f \in [Ids -> Step] : f = [turn.step EXCEPT ![i] = rec]  BY <1>4, <2>1, <3>2
    <3>5. PICK p \in [Keys -> Ids \cup {None}] : p = [turn.plan EXCEPT ![key] = i]  BY <1>4, <2>1
    <3>6. f[i] = rec /\ \A j \in Ids \ {i} : f[j] = turn.step[j]  BY <1>4, <2>1, <3>4
    <3>7. \A k \in Keys : p[k] = turn.plan[k] \/ p[k] = i  BY <2>1, <3>5
    <3>8. turn' = [q EXCEPT !.plan = p, !.step = f]
      BY <1>7, <3>1, <3>4, <3>5 DEF Checkpoint
    <3>9. [q EXCEPT !.plan = p, !.step = f] \in Checkpoint  BY <1>7 DEF Checkpoint
    <3>10. /\ turn' \in Checkpoint /\ turn'.step = f /\ turn'.plan = p /\ turn'.result = q.result
           /\ turn'.applied = q.applied /\ turn'.version = q.version /\ turn'.round = q.round
           /\ turn'.pending = q.pending /\ turn'.done = q.done /\ turn'.calls = q.calls
      BY <1>7, <3>8, <3>9 DEF Checkpoint
    <3>11. QED  BY <1>7, <2>3, <3>2, <3>6, <3>7, <3>10
  <2>4. QED  BY <1>2, <2>2, <2>3
<1>12. mode = "routes" <=> phase = "routes"  BY <1>2 DEF IInv, Phased
<1>13. \A u \in Tasks \ {t} : co[u].at # "idle" => co[u].id # i /\ co[u].id \in Ids
  <2>1. ASSUME NEW u \in Tasks \ {t}, co[u].at # "idle" PROVE co[u].id # i /\ co[u].id \in Ids
    <3>1. co[u].id \in Ids /\ (mode = "routes" => co[u].id = Route[u])
            /\ (mode # "routes" => co[u].id <= turn.calls)
      BY <2>1, ChildFacts
    <3>2. Route[u] # Route[t]  BY <2>1 DEF IsInjective
    <3>3. ~(turn.calls + 1 <= turn.calls)  BY <1>1
    <3>4. QED  BY <1>3, <1>12, <3>1, <3>2, <3>3
  <2>2. QED  BY <2>1
<1> HIDE DEF call, key
<1>14. Executing' /\ co' \in [Tasks -> Coroutine]
  <2>1. \A u \in Tasks \ {t} : co[u].at # "idle" =>
          /\ turn'.step[co[u].id].call = turn.step[co[u].id].call
          /\ turn'.step[co[u].id].status = turn.step[co[u].id].status
          /\ turn'.result[co[u].id] = turn.result[co[u].id]
    BY <1>11, <1>13
  <2>2. turn'.step[c.id].call = <<turn.round, t>>  BY <1>6, <1>11 DEF call
  <2>3. t \in turn'.pending \ turn'.done /\ c.id # Intake  BY <1>2, <1>4, <1>6, <1>11
  <2>4. QED  BY <1>6, <1>11, <2>1, <2>2, <2>3, OthersExecute
<1>15. TypeOK' /\ Phased' /\ Same' /\ Ended'
  BY <1>2, <1>6, <1>11, <1>14, SaveStep
<1>16. FirstOnce' /\ FormPosted'
  BY <1>2, <1>6, <1>11 DEF IInv, FirstOnce, FormPosted
<1>17. Receipted'  BY <1>6, <1>11 DEF IInv, Receipted, outside
<1>18. Truthful(turn)' /\ Truthful(disk)'
  <2>1. ASSUME NEW j \in Ids, turn'.step[j].status = "completed" PROVE turn.step[j].status = "completed"
    BY <1>11, <2>1
  <2>2. QED  BY <1>6, <1>11, <2>1 DEF IInv, Truthful
<1>19. Numbered'
  <2>1. ASSUME mode # "routes", NEW j \in Ids \ {Intake}, j > turn.calls + 1
        PROVE  /\ turn'.step[j].status = "none" /\ turn'.step[j].call = None
               /\ \A k \in Keys : turn'.plan[k] # j
    <3>1. j > turn.calls /\ j # turn.calls + 1  BY <1>1, <2>1 DEF Ids
    <3>2. phase = "rounds" /\ i = turn.calls + 1  BY <1>2, <1>3, <1>12, <2>1
    <3>3. /\ turn.step[j].status = "none" /\ turn.step[j].call = None
          /\ \A k \in Keys : turn.plan[k] # j
      BY <2>1, <3>1 DEF IInv, Numbered
    <3>4. QED  BY <1>11, <3>1, <3>2, <3>3
  <2>2. QED  BY <1>6, <1>11, <2>1 DEF Numbered
<1>20. RoutedSteps'
  <2>1. ASSUME mode = "routes"
        PROVE  /\ phase = "routes" /\ Listed(turn') = Listed(turn) /\ turn'.plan = turn.plan
               /\ i = Route[t]
    BY <1>3, <1>11, <1>12, <2>1 DEF Listed
  <2>2. ASSUME mode = "routes", NEW j \in Ids, NEW x \in Calls, turn'.step[j].call = x
        PROVE  Route[x[2]] = j
    <3>1. CASE j = i
      <4>1. x = <<turn.round, t>>  BY <1>11, <2>2, <3>1 DEF call
      <4>2. QED  BY <2>1, <2>2, <3>1, <4>1
    <3>2. CASE j # i  BY <1>11, <2>2, <3>2 DEF IInv, RoutedSteps
    <3>3. QED  BY <3>1, <3>2
  <2>3. QED  BY <1>6, <1>11, <2>1, <2>2 DEF IInv, RoutedSteps
<1>21. Progress
  <2>1. CASE phase = "routes"
    BY <1>6, <1>8, <1>11, <2>1 DEF IInv, Same, Progress, StepMoves
  <2>2. CASE phase = "rounds"
    <3>1. mode # "routes" /\ i = turn.calls + 1  BY <1>3, <2>2 DEF IInv, Phased
    <3>2. i > turn.calls  BY <1>1, <3>1
    <3>3. turn.step[i].status = "none" /\ turn.step[i].attempts = 1
      BY <1>4, <3>1, <3>2 DEF IInv, Numbered, FirstOnce
    <3>4. QED  BY <1>6, <1>11, <2>2, <3>3 DEF IInv, Same, Progress, StepMoves, L!Allowed
  <2>3. QED  BY <1>2, <2>1, <2>2
<1>22. QED  BY <1>14, <1>15, <1>16, <1>17, <1>18, <1>19, <1>20, <1>21 DEF IInv

\* What closing the step of a child changes: its own step, and its place in the plan.
LEMMA CompletedFacts ==
  ASSUME NEW s \in Checkpoint, NEW t \in Tasks, NEW i \in Ids, NEW v \in Versions,
         co[t].id = i, co[t].version = v, s.result[i] \in Result
  PROVE  /\ Rest(s, [Completed(s, t) EXCEPT !.plan = s.plan])
         /\ Completed(s, t) \in Checkpoint
         /\ \A j \in Ids \ {i} : Completed(s, t).step[j] = s.step[j]
         /\ Completed(s, t).step[i].call = s.step[i].call
         /\ Completed(s, t).step[i].attempts = s.step[i].attempts
         /\ Completed(s, t).step[i].status \in {s.step[i].status, EndOf(s.result[i])}
         /\ \A k \in Keys : \/ Completed(s, t).plan[k] = s.plan[k]
                            \/ Completed(s, t).plan[k] = None
                            \/ k[1] = t /\ Completed(s, t).plan[k] = i
         /\ (\A k \in Keys : s.plan[k] \in {None, Route[k[1]]}) /\ Route[t] = i
              => Listed(s) \subseteq Listed(Completed(s, t))
<1> DEFINE key == Key(t, v)
           to == <<t, s.result[i].version, FALSE>>
           p == [k \in Keys |-> IF s.result[i].version = v THEN s.plan[k]
                                ELSE IF k = to THEN i
                                ELSE IF k = key THEN None ELSE s.plan[k]]
           st == [s.step[i] EXCEPT !.status = EndOf(s.result[i])]
           sv == [st EXCEPT !.version = s.result[i].version]
<1>1. /\ s.step \in [Ids -> Step] /\ s.plan \in [Keys -> Ids \cup {None}] /\ s.step[i] \in Step
      /\ s.result[i].version \in Versions
  BY DEF Checkpoint, Result
<1>2. to[1] = t /\ key[1] = t  BY DEF Key
<1>3. CASE s.plan[key] # i
  <2>1. Completed(s, t) = s  BY <1>3 DEF Completed
  <2>2. [s EXCEPT !.plan = s.plan] = s  BY DEF Checkpoint
  <2>3. Rest(s, s)  BY DEF Rest
  <2>4. QED  BY <2>1, <2>2, <2>3
<1>4. CASE s.plan[key] = i
  <2>1. EndOf(s.result[i]) \in Statuses  BY DEF EndOf, Statuses
  <2>2. st \in Step /\ st.call = s.step[i].call /\ st.attempts = s.step[i].attempts
        /\ st.status = EndOf(s.result[i])
    BY <1>1, <2>1 DEF Step, Statuses
  <2> HIDE DEF st
  <2>3. sv \in Step /\ sv.call = s.step[i].call /\ sv.attempts = s.step[i].attempts
        /\ sv.status = EndOf(s.result[i])
    BY <1>1, <2>2 DEF Step
  <2>4. PICK w : w = WithStep(s, i, EndOf(s.result[i]))  OBVIOUS
  <2>5. w = [s EXCEPT !.step = [s.step EXCEPT ![i] = st]]
    BY <1>1, <2>4 DEF WithStep, Checkpoint, st
  <2>6. PICK f \in [Ids -> Step] : f = [s.step EXCEPT ![i] = sv]
    BY <1>1, <2>3
  <2>7. Completed(s, t) = [w EXCEPT !.step[i].version = s.result[i].version, !.plan = p]
    BY <1>4, <2>4 DEF Completed
  <2> HIDE DEF p
  <2>8. Completed(s, t) = [s EXCEPT !.step = f, !.plan = p]
    <3>1. w.step = [s.step EXCEPT ![i] = st]  BY <2>5 DEF Checkpoint
    <3>2. [w.step EXCEPT ![i].version = s.result[i].version] = f
      BY <1>1, <2>6, <3>1
    <3>3. Completed(s, t) = [w EXCEPT !.step = f, !.plan = p]
      BY <2>5, <2>7, <3>2 DEF Checkpoint
    <3>4. QED  BY <2>5, <3>3 DEF Checkpoint
  <2>9. f[i] = sv /\ \A j \in Ids \ {i} : f[j] = s.step[j]  BY <1>1, <2>6
  <2>10. p \in [Keys -> Ids \cup {None}]
    <3>1. \A k \in Keys : s.plan[k] \in Ids \cup {None}  BY <1>1
    <3>2. QED  BY <3>1 DEF p
  <2>11. [s EXCEPT !.step = f, !.plan = p] \in Checkpoint  BY <2>10 DEF Checkpoint
  <2>12. PICK r : r = Completed(s, t)  OBVIOUS
  <2>13. /\ r \in Checkpoint /\ r.step = f /\ r.plan = p /\ r.result = s.result /\ r.applied = s.applied
         /\ r.version = s.version /\ r.calls = s.calls /\ r.round = s.round /\ r.pending = s.pending
         /\ r.done = s.done
    BY <2>8, <2>11, <2>12 DEF Checkpoint
  <2>14. Rest(s, [r EXCEPT !.plan = s.plan])
    <3>1. [r EXCEPT !.plan = s.plan] \in Checkpoint  BY <1>1, <2>13 DEF Checkpoint
    <3>2. QED  BY <2>13, <3>1 DEF Rest, Checkpoint
  <2> HIDE DEF to, key
  <2>15. ASSUME NEW k \in Keys
         PROVE  r.plan[k] = s.plan[k] \/ r.plan[k] = None \/ (k[1] = t /\ r.plan[k] = i)
    <3>1. r.plan[k] = s.plan[k] \/ (k = to /\ r.plan[k] = i) \/ r.plan[k] = None
      BY <2>13 DEF p
    <3>2. QED  BY <1>2, <3>1
  <2>16. ASSUME \A k \in Keys : s.plan[k] \in {None, Route[k[1]]}, Route[t] = i
         PROVE  Listed(s) \subseteq Listed(r)
    <3>1. to \in Keys  BY <1>1 DEF Keys, to
    <3>2. i # None  BY NoneAssumption DEF Ids
    <3>3. ASSUME NEW k \in Keys, s.plan[k] # None PROVE \E m \in Keys : r.plan[m] = s.plan[k]
      <4>1. CASE r.plan[k] = s.plan[k]  BY <4>1
      <4>2. CASE r.plan[k] # s.plan[k]
        <5>1. s.result[i].version # v /\ (k = to \/ k = key)  BY <2>13, <4>2 DEF p
        <5>2. r.plan[to] = i  BY <2>13, <3>1, <5>1 DEF p
        <5>3. k[1] = t  BY <1>2, <5>1
        <5>4. s.plan[k] = i  BY <2>16, <3>3, <5>3
        <5>5. QED  BY <3>1, <5>2, <5>4
      <4>3. QED  BY <4>1, <4>2
    <3>4. QED  BY <3>3 DEF Listed
  <2>17. QED  BY <2>3, <2>9, <2>12, <2>13, <2>14, <2>15, <2>16
<1>5. QED  BY <1>3, <1>4

\* A child reports, its change applied where it proposed one.
LEMMA DoneStep ==
  ASSUME IInv, NEW t \in Tasks, NEW s \in Checkpoint, co[t].at \in {"working", "applying"},
         turn' = [Completed(s, t) EXCEPT !.done = @ \cup {t}], disk' = turn',
         co' = [co EXCEPT ![t] = Idle], UNCHANGED <<status, phase, shown, mode, profile, owner>>,
         UNCHANGED outside,
         s.step = turn.step, s.plan = turn.plan, s.calls = turn.calls, s.round = turn.round,
         s.pending = turn.pending, s.done = turn.done,
         s.result[co[t].id] \in Result,
         \A j \in Ids \ {co[t].id} : s.result[j] = turn.result[j],
         s.applied = turn.applied \/ s.applied = turn.applied \cup {co[t].id},
         s.result[co[t].id].proposal => co[t].id \in s.applied,
         s.version <= trip, \A j \in s.applied : receipts[j] # None
  PROVE  IInv' /\ Progress
<1> USE TurnPlanAssumption
<1>1. PICK i : i = co[t].id  OBVIOUS
<1>2. PICK v : v = co[t].version  OBVIOUS
<1>3. /\ phase \in {"routes", "rounds"} /\ co[t] \in Coroutine /\ i \in Ids \ {Intake}
      /\ (mode = "routes" => i = Route[t]) /\ (mode # "routes" => i <= turn.calls)
      /\ turn.step[i].call = <<turn.round, t>> /\ turn \in Checkpoint
  BY <1>1, ChildFacts
<1>4. v \in Versions  BY <1>2, <1>3 DEF Coroutine
<1>5. turn.step[i].status = "running"  BY <1>1 DEF IInv, Executing
<1>6. PICK r : r = Completed(s, t)  OBVIOUS
<1>7. /\ Rest(s, [r EXCEPT !.plan = s.plan]) /\ r \in Checkpoint
      /\ \A j \in Ids \ {i} : r.step[j] = s.step[j]
      /\ r.step[i].call = s.step[i].call /\ r.step[i].attempts = s.step[i].attempts
      /\ r.step[i].status \in {s.step[i].status, EndOf(s.result[i])}
      /\ \A k \in Keys : r.plan[k] = s.plan[k] \/ r.plan[k] = None \/ (k[1] = t /\ r.plan[k] = i)
      /\ (\A k \in Keys : s.plan[k] \in {None, Route[k[1]]}) /\ Route[t] = i
              => Listed(s) \subseteq Listed(r)
  BY <1>1, <1>2, <1>3, <1>4, <1>6, CompletedFacts
<1>8. PICK d \in SUBSET Tasks : d = r.done \cup {t}
  <2>1. r \in Checkpoint  BY <1>7
  <2>2. r.done \in SUBSET Tasks  BY <2>1 DEF Checkpoint
  <2>3. QED  BY <2>2
<1>9. turn' = [r EXCEPT !.done = d]  BY <1>6, <1>8
<1>10. [r EXCEPT !.done = d] \in Checkpoint  BY <1>7 DEF Checkpoint
<1>11. /\ turn' \in Checkpoint /\ turn'.step = r.step /\ turn'.plan = r.plan /\ turn'.result = s.result
       /\ turn'.applied = s.applied /\ turn'.version = s.version /\ turn'.calls = turn.calls
       /\ turn'.round = turn.round /\ turn'.pending = turn.pending /\ turn'.done = turn.done \cup {t}
  <2>1. /\ r.result = s.result /\ r.applied = s.applied /\ r.version = s.version
        /\ r.calls = s.calls /\ r.round = s.round /\ r.pending = s.pending /\ r.done = s.done
    BY <1>7 DEF Rest, Checkpoint
  <2>2. r \in Checkpoint  BY <1>7
  <2>3. /\ turn'.step = r.step /\ turn'.plan = r.plan /\ turn'.result = r.result
        /\ turn'.applied = r.applied /\ turn'.version = r.version /\ turn'.calls = r.calls
        /\ turn'.round = r.round /\ turn'.pending = r.pending /\ turn'.done = d
    BY <1>9, <2>2 DEF Checkpoint
  <2>4. turn' \in Checkpoint  BY <1>9, <1>10
  <2>5. QED  BY <1>8, <2>1, <2>3, <2>4
<1>12. /\ \A j \in Ids \ {i} : turn'.step[j] = turn.step[j]
       /\ turn'.step[i].call = turn.step[i].call /\ turn'.step[i].attempts = turn.step[i].attempts
       /\ turn'.step[i].status \in {"running", EndOf(s.result[i])}
       /\ \A k \in Keys : turn'.plan[k] = turn.plan[k] \/ turn'.plan[k] = None
                            \/ (k[1] = t /\ turn'.plan[k] = i)
  BY <1>5, <1>7, <1>11
<1>13. Idle \in Coroutine /\ Idle.at = "idle"  BY DEF Idle, Coroutine, Ids, Versions
<1>14. Executing' /\ co' \in [Tasks -> Coroutine]
  <2>1. ASSUME NEW u \in Tasks \ {t}, co[u].at # "idle"
        PROVE  /\ turn'.step[co[u].id].call = turn.step[co[u].id].call
               /\ turn'.step[co[u].id].status = turn.step[co[u].id].status
               /\ turn'.result[co[u].id] = turn.result[co[u].id]
    <3>1. co[u].id # i /\ co[u].id \in Ids  BY <1>1, <2>1, Distinct, ChildFacts
    <3>2. QED  BY <1>1, <1>11, <1>12, <3>1
  <2>2. QED  BY <1>11, <1>13, <2>1, OthersExecute
<1>15. TypeOK' /\ Phased' /\ Same' /\ Ended'
  BY <1>3, <1>11, <1>14, SaveStep
<1>16. EndOf(s.result[i]) \in {"completed", "partial", "needs_input", "failed"}  BY DEF EndOf
<1>17. FirstOnce' /\ FormPosted'
  BY <1>3, <1>12, <1>16 DEF IInv, FirstOnce, FormPosted
<1>18. Receipted'  BY <1>11 DEF IInv, Receipted, outside
<1>19. Truthful(turn)' /\ Truthful(disk)'
  <2>1. s.result[i] # None  BY <1>1, NoneAssumption
  <2>2. \A j \in Ids : turn'.step[j].status = "completed" =>
          s.result[j] # None /\ (s.result[j].proposal => j \in s.applied)
    BY <1>1, <1>12, <2>1 DEF IInv, Truthful
  <2>3. QED  BY <1>11, <2>2 DEF Truthful
<1>20. Numbered'
  <2>1. ASSUME mode # "routes", NEW j \in Ids \ {Intake}, j > turn.calls
        PROVE  /\ turn'.step[j].status = "none" /\ turn'.step[j].call = None
               /\ \A k \in Keys : turn'.plan[k] # j
    <3>1. j # i  BY <1>3, <2>1 DEF Checkpoint, Ids
    <3>2. /\ turn.step[j].status = "none" /\ turn.step[j].call = None
          /\ \A k \in Keys : turn.plan[k] # j
      BY <2>1 DEF IInv, Numbered
    <3>3. j # None  BY NoneAssumption DEF Ids
    <3>4. QED  BY <1>12, <3>1, <3>2, <3>3
  <2>2. QED  BY <1>11, <2>1 DEF Numbered
<1>21. RoutedSteps'
  <2>1. ASSUME mode = "routes"
        PROVE  /\ \A k \in Keys : turn'.plan[k] \in {None, Route[k[1]]}
               /\ \A j \in Ids, x \in Calls : turn'.step[j].call = x => Route[x[2]] = j
               /\ Listed(turn) \subseteq Listed(turn')
    <3>1. /\ \A k \in Keys : turn.plan[k] \in {None, Route[k[1]]}
          /\ \A j \in Ids, x \in Calls : turn.step[j].call = x => Route[x[2]] = j
      BY <2>1 DEF IInv, RoutedSteps
    <3>2. i = Route[t]  BY <1>3, <2>1
    <3>3. Listed(s) \subseteq Listed(r)  BY <1>7, <3>1, <3>2
    <3>4. Listed(s) = Listed(turn) /\ Listed(r) = Listed(turn')  BY <1>11 DEF Listed
    <3>5. \A j \in Ids : turn'.step[j].call = turn.step[j].call  BY <1>12
    <3>6. \A k \in Keys : turn'.plan[k] \in {None, Route[k[1]]}  BY <1>12, <3>1, <3>2
    <3>7. \A j \in Ids, x \in Calls : turn'.step[j].call = x => Route[x[2]] = j
      BY <3>1, <3>5
    <3>8. QED  BY <3>3, <3>4, <3>6, <3>7
  <2>2. QED  BY <1>11, <2>1 DEF IInv, RoutedSteps
<1>22. Progress
  <2>1. ASSUME NEW j \in Ids PROVE StepMoves(turn.step[j], turn'.step[j])
    <3>1. CASE j = i  BY <1>5, <1>12, <1>16, <3>1 DEF StepMoves, L!Allowed
    <3>2. CASE j # i  BY <1>12, <3>2, Stays
    <3>3. QED  BY <3>1, <3>2
  <2>2. QED  BY <2>1 DEF IInv, Same, Progress
<1>23. QED  BY <1>14, <1>15, <1>17, <1>18, <1>19, <1>20, <1>21, <1>22 DEF IInv

\* The report of a child, put into the state of the worker.
LEMMA ReportFacts ==
  ASSUME IInv, NEW t \in Tasks, NEW st \in Outcomes, co[t].at = "working"
  PROVE  /\ ReportOf(t, st) \in Result
         /\ [turn EXCEPT !.result[co[t].id] = ReportOf(t, st)] \in Checkpoint
         /\ Rest(turn, [[turn EXCEPT !.result[co[t].id] = ReportOf(t, st)] EXCEPT !.result = turn.result])
         /\ [turn EXCEPT !.result[co[t].id] = ReportOf(t, st)].step = turn.step
         /\ [turn EXCEPT !.result[co[t].id] = ReportOf(t, st)].result[co[t].id] = ReportOf(t, st)
         /\ \A j \in Ids \ {co[t].id} :
              [turn EXCEPT !.result[co[t].id] = ReportOf(t, st)].result[j] = turn.result[j]
<1>1. turn \in Checkpoint /\ co[t].id \in Ids  BY ChildFacts
<1>2. PICK i \in Ids : i = co[t].id  BY <1>1
<1>3. /\ turn.step[i].version \in Versions /\ turn.result \in [Ids -> Result \cup {None}]
      /\ turn.step \in [Ids -> Step]
  BY <1>1 DEF Checkpoint, Step
<1>4. ReportOf(t, st) \in Result  BY <1>2, <1>3 DEF ReportOf, Result
<1>5. PICK rep \in Result : rep = ReportOf(t, st)  BY <1>4
<1>6. PICK f \in [Ids -> Result \cup {None}] : f = [turn.result EXCEPT ![i] = rep]  BY <1>3
<1>7. f[i] = rep /\ \A j \in Ids \ {i} : f[j] = turn.result[j]  BY <1>3, <1>6
<1>8. [turn EXCEPT !.result[co[t].id] = ReportOf(t, st)] = [turn EXCEPT !.result = f]
  BY <1>1, <1>2, <1>5, <1>6 DEF Checkpoint
<1>9. [turn EXCEPT !.result = f] \in Checkpoint  BY <1>1 DEF Checkpoint
<1>10. [[turn EXCEPT !.result = f] EXCEPT !.result = turn.result] = turn
  BY <1>1 DEF Checkpoint
<1>11. Rest(turn, turn)  BY <1>1 DEF Rest
<1>12. QED  BY <1>1, <1>2, <1>5, <1>7, <1>8, <1>9, <1>10, <1>11 DEF Checkpoint

LEMMA ReportStep ==
  ASSUME IInv, NEW t \in Tasks, NEW st \in Outcomes, Report(t, st)
  PROVE  IInv' /\ Progress
<1>1. PICK s : s = [turn EXCEPT !.result[co[t].id] = ReportOf(t, st)]  OBVIOUS
<1>2. /\ co[t].at = "working" /\ ~ReportOf(t, st).proposal
      /\ turn' = [Completed(s, t) EXCEPT !.done = @ \cup {t}] /\ disk' = turn'
      /\ co' = [co EXCEPT ![t] = Idle] /\ UNCHANGED <<status, phase, shown, mode, profile, owner>>
      /\ UNCHANGED outside
  BY <1>1 DEF Report, Saves
<1>3. /\ ReportOf(t, st) \in Result /\ s \in Checkpoint /\ s.step = turn.step
      /\ Rest(turn, [s EXCEPT !.result = turn.result])
      /\ s.result[co[t].id] = ReportOf(t, st)
      /\ \A j \in Ids \ {co[t].id} : s.result[j] = turn.result[j]
  BY <1>1, <1>2, ReportFacts
<1>4. /\ s.plan = turn.plan /\ s.calls = turn.calls /\ s.round = turn.round /\ s.pending = turn.pending
      /\ s.done = turn.done /\ s.applied = turn.applied /\ s.version = turn.version
  BY <1>3 DEF Rest, Checkpoint
<1>5. s.version <= trip /\ \A j \in s.applied : receipts[j] # None
  BY <1>4 DEF IInv, Receipted
<1>6. QED  BY <1>2, <1>3, <1>4, <1>5, DoneStep

LEMMA ChangeAppliedStep ==
  ASSUME IInv, NEW t \in Tasks, ChangeApplied(t)
  PROVE  IInv' /\ Progress
<1>1. co[t].at = "applying" /\ receipts[co[t].id] # None  BY DEF ChangeApplied, Replied
<1>2. PICK i : i = co[t].id  OBVIOUS
<1>3. i \in Ids /\ turn \in Checkpoint  BY <1>1, <1>2, ChildFacts
<1>4. PICK v \in Versions : receipts[i] = v  BY <1>1, <1>2, <1>3 DEF IInv, TypeOK
<1>5. turn.result[i] # None  BY <1>1, <1>2 DEF IInv, Executing
<1>6. PICK s : s = Applied(turn, i)  OBVIOUS
<1>7. /\ s \in Checkpoint /\ s.step = turn.step /\ s.plan = turn.plan /\ s.version = v
      /\ s.applied = turn.applied \cup {i} /\ s.calls = turn.calls /\ s.round = turn.round
      /\ s.pending = turn.pending /\ s.done = turn.done
      /\ s.result[i] \in Result
      /\ \A j \in Ids \ {i} : s.result[j] = turn.result[j]
  BY <1>3, <1>4, <1>5, <1>6, AppliedFacts
<1>8. /\ turn' = [Completed(s, t) EXCEPT !.done = @ \cup {t}] /\ disk' = turn'
      /\ co' = [co EXCEPT ![t] = Idle] /\ UNCHANGED <<status, phase, shown, mode, profile, owner>>
      /\ UNCHANGED outside
  BY <1>2, <1>6 DEF ChangeApplied, Saves
<1>9. v <= trip  BY <1>1, <1>2, <1>3, <1>4 DEF IInv, Receipted
<1>10. \A j \in s.applied : receipts[j] # None
  BY <1>1, <1>2, <1>7 DEF IInv, Receipted
<1>11. QED  BY <1>1, <1>2, <1>7, <1>8, <1>9, <1>10, DoneStep

LEMMA ProposeStep ==
  ASSUME IInv, NEW t \in Tasks, NEW st \in Outcomes, Propose(t, st)
  PROVE  IInv' /\ Progress
<1>1. /\ co[t].at = "working" /\ ReportOf(t, st).proposal
      /\ turn' = [turn EXCEPT !.result[co[t].id] = ReportOf(t, st)]
      /\ posts' = posts \cup {<<co[t].id, owner, ReportOf(t, st).version>>}
      /\ co' = [co EXCEPT ![t].at = "applying"]
      /\ UNCHANGED <<disk, status, phase, shown, mode, profile, owner, receipts, trip>>
  BY DEF Propose
<1>2. PICK i : i = co[t].id  OBVIOUS
<1>3. /\ phase \in {"routes", "rounds"} /\ turn \in Checkpoint /\ co[t] \in Coroutine
      /\ i \in Ids \ {Intake} /\ t \in turn.pending \ turn.done
      /\ turn.step[i].call = <<turn.round, t>>
  BY <1>1, <1>2, ChildFacts
<1>4. turn.step[i].status = "running"  BY <1>1, <1>2 DEF IInv, Executing
<1>5. /\ ReportOf(t, st) \in Result /\ turn' \in Checkpoint /\ turn'.step = turn.step
      /\ Rest(turn, [turn' EXCEPT !.result = turn.result])
      /\ turn'.result[i] = ReportOf(t, st)
      /\ \A j \in Ids \ {i} : turn'.result[j] = turn.result[j]
  BY <1>1, <1>2, ReportFacts
<1>6. /\ turn'.plan = turn.plan /\ turn'.calls = turn.calls /\ turn'.round = turn.round
      /\ turn'.pending = turn.pending /\ turn'.done = turn.done /\ turn'.applied = turn.applied
      /\ turn'.version = turn.version
  BY <1>5 DEF Rest, Checkpoint
<1>7. PICK c \in Coroutine : c = [co[t] EXCEPT !.at = "applying"]  BY <1>3 DEF Coroutine
<1>8. c.at = "applying" /\ c.id = i /\ co' = [co EXCEPT ![t] = c]
  BY <1>1, <1>2, <1>3, <1>7 DEF Coroutine
<1>9. ReportOf(t, st) # None  BY <1>5, NoneAssumption
<1>10. Executing' /\ co' \in [Tasks -> Coroutine]
  <2>1. \A u \in Tasks \ {t} : co[u].at # "idle" => co[u].id # i /\ co[u].id \in Ids
    BY <1>1, <1>2, Distinct, ChildFacts
  <2>2. \A u \in Tasks \ {t} : co[u].at # "idle" =>
          /\ turn'.step[co[u].id].call = turn.step[co[u].id].call
          /\ turn'.step[co[u].id].status = turn.step[co[u].id].status
          /\ turn'.result[co[u].id] = turn.result[co[u].id]
    BY <1>5, <2>1
  <2>3. /\ t \in turn'.pending \ turn'.done /\ c.id # Intake
        /\ turn'.step[c.id].call = <<turn.round, t>> /\ turn'.step[c.id].status = "running"
        /\ turn'.result[c.id] # None /\ turn'.result[c.id].proposal
    BY <1>1, <1>3, <1>4, <1>5, <1>6, <1>8, <1>9
  <2>4. QED  BY <1>6, <1>8, <2>2, <2>3, OthersExecute
<1>11. TypeOK'
  <2>1. owner \in 1..MaxOwners  BY <1>3, TurnPlanAssumption DEF IInv, Phased, TypeOK
  <2>2. ReportOf(t, st).version \in Versions  BY <1>5 DEF Result
  <2>3. posts' \subseteq Ids \X (1..MaxOwners) \X Versions
    BY <1>1, <1>2, <1>3, <2>1, <2>2 DEF IInv, TypeOK
  <2>4. QED  BY <1>1, <1>5, <1>10, <2>3 DEF IInv, TypeOK
<1>12. Phased' /\ Same' /\ Ended' /\ FirstOnce' /\ FormPosted'
  BY <1>1, <1>3, <1>5, <1>6
     DEF IInv, Phased, Same, Ended, FirstOnce, FormPosted
<1>13. Truthful(turn)' /\ Truthful(disk)'
  BY <1>1, <1>4, <1>5, <1>6 DEF IInv, Truthful
<1>14. Numbered' /\ RoutedSteps'
  BY <1>1, <1>5, <1>6 DEF IInv, Numbered, RoutedSteps, Listed
<1>15. Receipted'  BY <1>1, <1>6 DEF IInv, Receipted
<1>16. Progress  BY <1>1, Stays DEF Progress
<1>17. QED  BY <1>10, <1>11, <1>12, <1>13, <1>14, <1>15, <1>16 DEF IInv

-----------------------------------------------------------------------------
(* Every step.                                                             *)

LEMMA StepKeeps == IInv /\ [Next]_vars => IInv' /\ (Progress \/ UNCHANGED vars)
<1> SUFFICES ASSUME IInv, [Next]_vars PROVE IInv' /\ (Progress \/ UNCHANGED vars)  OBVIOUS
<1>1. CASE Begin  BY <1>1, BeginStep
<1>2. CASE Degrade  BY <1>2, FinishStep DEF Degrade
<1>3. CASE StopTurn  BY <1>3, StopStep
<1>4. CASE Crash \/ Supersede  BY <1>4, AbandonStep, SupersedeStep DEF Crash
<1>5. CASE RegisterForm \/ StartForm \/ FormApplied
  BY <1>5, RegisterFormStep, StartFormStep, FormAppliedStep
<1>6. CASE RegisterRoutes  BY <1>6, RegisterRoutesStep
<1>7. CASE AnswerRoutes  BY <1>7, FinishStep DEF AnswerRoutes
<1>8. CASE \E i \in Ids, v \in Versions : Commit(i, v)  BY <1>8, CommitStep
<1>9. CASE \E post \in posts : Reject(post)  BY <1>9, RejectStep
<1>10. CASE \E batch \in SUBSET Tasks : ChooseBatch(batch)  BY <1>10, ChooseBatchStep
<1>11. CASE EndRound  BY <1>11, EndRoundStep
<1>12. CASE AskUser  BY <1>12, FinishStep DEF AskUser
<1>13. CASE \E selected \in SUBSET Ids : Answer(selected)  BY <1>13, FinishStep DEF Answer
<1>14. ASSUME NEW t \in Tasks, Turned(t) \/ RouteRefused(t) \/ ResumeChild(t) PROVE IInv' /\ Progress
  BY <1>14, TurnedStep, RouteRefusedStep, ResumeChildStep
<1>15. ASSUME NEW t \in Tasks, StartStep(t) \/ StartRefused(t) PROVE IInv' /\ Progress
  BY <1>15, StartStepStep, StartRefusedStep
<1>16. ASSUME NEW t \in Tasks, ChangeApplied(t) \/ ChangeRejected(t) PROVE IInv' /\ Progress
  BY <1>16, ChangeAppliedStep, ChangeRejectedStep
<1>17. ASSUME NEW t \in Tasks, NEW deps \in DependencySets(t), Delegate(t, deps) PROVE IInv' /\ Progress
  BY <1>17, DelegateStep
<1>18. ASSUME NEW t \in Tasks, NEW st \in Outcomes, Report(t, st) \/ Propose(t, st)
       PROVE  IInv' /\ Progress
  BY <1>18, ReportStep, ProposeStep
<1>19. CASE UNCHANGED vars
  <2>1. UNCHANGED <<turn, disk, status, phase, shown, mode, profile, owner, co, posts, receipts, trip>>
    BY <1>19 DEF vars
  <2>2. TypeOK'  BY <2>1 DEF IInv, TypeOK
  <2>3. Phased' /\ Same' /\ FirstOnce' /\ FormPosted' /\ Ended' /\ Receipted'
    BY <2>1 DEF IInv, Phased, Same, FirstOnce, FormPosted, Ended, Receipted
  <2>4. Truthful(turn)' /\ Truthful(disk)' /\ Numbered' /\ RoutedSteps'
    BY <2>1 DEF IInv, Truthful, Numbered, RoutedSteps
  <2>5. Executing'  BY <2>1 DEF IInv, Executing, CallOf
  <2>6. QED  BY <1>19, <2>2, <2>3, <2>4, <2>5 DEF IInv
<1>20. QED
  BY <1>1, <1>2, <1>3, <1>4, <1>5, <1>6, <1>7, <1>8, <1>9, <1>10, <1>11, <1>12, <1>13, <1>14, <1>15,
     <1>16, <1>17, <1>18, <1>19 DEF Next

\* The state of an attempt, its checkpoint and its coroutines keep their shape, for
\* any tasks, rounds, attempts and limits.
THEOREM TypeCorrect == Spec => []TypeOK
<1>1. IInv => TypeOK  BY DEF IInv
<1>2. QED  BY <1>1, Starts, StepKeeps, PTL DEF Spec

\* The plan a reader is given of a request that has ended has no step pending or
\* running (docs/2026-09-10-execution-plan-and-multi-intent-report.md:23), whether the
\* attempt settled it (execution_plan.py:78) or a newer request fenced it and the
\* reading settles it (store.py:86, 141-148).
THEOREM EndsAreSettled == Spec => []EndedIsSettled
<1>1. IInv => EndedIsSettled
  <2> SUFFICES ASSUME IInv, status \notin {"new", "running"}
               PROVE  /\ ActiveSteps(PublicPlan) = {}
                      /\ status # "superseded" => ActiveSteps(disk) = {}
    BY DEF EndedIsSettled
  <2>1. disk \in Checkpoint  BY DEF IInv, TypeOK
  <2>2. status # "superseded" => ActiveSteps(disk) = {}  BY DEF IInv, Ended
  <2>3. ASSUME NEW outcome, outcome \in {"cancelled", "failed"}
        PROVE  ActiveSteps(Settled(disk, outcome)) = {}
    <3>1. /\ Relabelled(disk, Settled(disk, outcome))
          /\ \A i \in Ids : Settled(disk, outcome).step[i].status
                = IF i \in ActiveSteps(disk) THEN SettledAs(outcome) ELSE disk.step[i].status
      BY <2>1, SettledFacts
    <3>2. Listed(Settled(disk, outcome)) = Listed(disk) /\ Listed(disk) \subseteq Ids
      BY <2>1, <3>1, TurnPlanAssumption DEF Relabelled, Rest, Listed, Checkpoint, Ids, Intake
    <3>3. SettledAs(outcome) \notin Active  BY DEF SettledAs, Active
    <3>4. QED  BY <3>1, <3>2, <3>3 DEF ActiveSteps
  <2>4. status = "superseded" => shown = "running"  BY DEF IInv, Ended
  <2>5. CASE shown = "running" /\ status \in {"interrupted", "superseded", "failed"}
    BY <2>2, <2>3, <2>5 DEF PublicPlan
  <2>6. CASE ~(shown = "running" /\ status \in {"interrupted", "superseded", "failed"})
    BY <2>2, <2>4, <2>6 DEF PublicPlan
  <2>7. QED  BY <2>2, <2>5, <2>6
<1>2. QED  BY <1>1, Starts, StepKeeps, PTL DEF Spec

\* A change the plan shows as saved is in the business tables, for any attempts and
\* crashes between the commit and the checkpoint (engine.py:1265-1277).
THEOREM SavesAreCommitted == Spec => []SavedIsCommitted
<1>1. IInv => SavedIsCommitted
  <2> SUFFICES ASSUME IInv PROVE SavedIsCommitted  OBVIOUS
  <2>1. disk \in Checkpoint /\ disk.applied = turn.applied /\ disk.version = turn.version
    BY DEF IInv, TypeOK, Same
  <2>2. Listed(disk) \subseteq Ids
    BY <2>1, TurnPlanAssumption DEF Listed, Checkpoint, Ids, Intake
  <2>3. QED  BY <2>1, <2>2 DEF IInv, Receipted, Truthful, SavedIsCommitted
<1>2. QED  BY <1>1, Starts, StepKeeps, PTL DEF Spec

\* The saved plan implements the ledger it shows: a step never starts twice, an end
\* is final, and a cancelled step is reopened once (execution_plan.py).
THEOREM PlansImplementLedger == Spec => ImplementsLedger
<1> DEFINE steps(s) == [i \in Ids |-> [status |-> s.step[i].status, attempts |-> s.step[i].attempts]]
<1>1. Init => L!Init
  BY DEF Init, Fresh, NoStep, L!Init
<1>2. ASSUME IInv, IInv', Progress \/ UNCHANGED vars
      PROVE  [L!Next]_(steps(disk))
  <2>1. CASE UNCHANGED vars  BY <2>1 DEF vars
  <2>2. CASE Progress
    <3>1. disk' \in Checkpoint  BY <1>2 DEF IInv, TypeOK
    <3>2. \A i \in Ids : disk'.step[i].status \in L!Statuses /\ disk'.step[i].attempts \in 1..2
      BY <3>1 DEF Checkpoint, Step, L!Statuses, L!Endings
    <3>3. steps(disk') \in [Ids -> [status : L!Statuses, attempts : 1..2]]
      BY <3>2
    <3>4. \A i \in Ids : L!Moved(steps(disk)[i], steps(disk')[i])
      BY <2>2 DEF Progress, StepMoves, L!Moved
    <3>5. QED  BY <3>3, <3>4 DEF L!Next
  <2>3. QED  BY <1>2, <2>1, <2>2
<1>3. QED  BY <1>1, <1>2, Starts, StepKeeps, PTL DEF Spec, ImplementsLedger, L!Spec
=============================================================================
