-------------------------- MODULE RefreshJobsProofs --------------------------
(***************************************************************************)
(* Proofs about RefreshJobs, for every number of workers, jobs, files and   *)
(* attempts, and about Evaluation, for every number of turns, evaluators    *)
(* and attempts.  What the actions do to one row and to one worker is       *)
(* stated once (RowStep, WorkerStep); the invariants follow from these two. *)
(***************************************************************************)
EXTENDS RefreshJobs, Evaluation, TLAPS

\* A job that nobody executes has no owner, and a job that waits may be claimed
\* once more.
RowsSound == \A j \in Jobs :
    /\ jobs[j].status # "running" => jobs[j].owner = None
    /\ jobs[j].status \in {"absent", "inserting"} => jobs[j].attempt = 0
    /\ jobs[j].status = "queued" => jobs[j].attempt < MaxAttempts

\* Whoever executes knows its job, and reports success of what is published.
WorkersSound == \A w \in Workers :
    /\ Executing(w) => workers[w].job \in Jobs
    /\ ~Executing(w) => workers[w].report = "none"
    /\ workers[w].pc \in {"verifying", "renewing", "reporting"} => workers[w].report # "none"
    /\ workers[w].report = "success" => workers[w].job \in versions

\* The upload under way holds the lock of the sources; what was accepted lies
\* in the directory; what was counted is no longer under way.
UploadsSound == \A d \in Docs :
    /\ uploads[d] = "linked" => source = d /\ d \in files
    /\ uploads[d] = "accepted" => d \in files
    /\ d \in generation => uploads[d] \in {"accepted", "failed", "withdrawn"}

\* An enqueue under way holds the lock, and its snapshot has what was accepted.
RequestsSound == \A j \in Jobs :
    /\ jobs[j].generation \subseteq generation
    /\ jobs[j].status = "inserting" =>
        /\ source = j
        /\ \A d \in generation : uploads[d] = "accepted" => d \in jobs[j].manifest

IInv ==
    /\ TypeOK /\ RowsSound /\ WorkersSound
    /\ UploadsSound /\ RequestsSound /\ AcceptedUploadsSeen /\ SuccessIsPublished

-----------------------------------------------------------------------------
(* What a step does to the row of a job. *)

RowRequested(j) ==
    \/ /\ jobs[j].status = "absent" /\ source = None /\ source' = j
       /\ jobs'[j] = [jobs[j] EXCEPT !.status = "inserting", !.manifest = files]
       /\ UNCHANGED <<generation, uploads, files>>
    \/ /\ jobs[j].status = "inserting"
       /\ jobs'[j] \in {[jobs[j] EXCEPT !.status = "queued", !.due = TRUE,
                                        !.generation = generation], NoJob}
       /\ UNCHANGED <<generation, uploads, files>>

RowClaimed(j) ==
    \/ jobs'[j] = Recovered(jobs[j])
    \/ /\ Recovered(jobs[j]).status = "queued"
       /\ \E w \in Workers :
            jobs'[j] = [Recovered(jobs[j]) EXCEPT !.status = "running", !.owner = w,
                            !.due = FALSE, !.attempt = @ + 1]

\* The owner of a running job ends its attempt.
RowClosed(j) ==
    /\ jobs[j].status = "running"
    /\ \E w \in Workers :
        /\ jobs[j].owner = w /\ workers[w].job = j
        /\ \/ At(w, "reporting") /\ jobs'[j] = Closed(jobs[j], workers[w].report)
           \/ /\ At(w, "failing")
              /\ jobs'[j] = Closed(jobs[j],
                    IF jobs[j].attempt < MaxAttempts THEN "queued" ELSE "error")

RowTimed(j) ==
    \/ /\ jobs[j].status = "running"
       /\ \E x \in BOOLEAN : jobs'[j] = [jobs[j] EXCEPT !.expired = x]
    \/ jobs[j].status = "queued" /\ jobs'[j] = [jobs[j] EXCEPT !.due = TRUE]

RowWorked(j) == jobs'[j] = jobs[j] \/ RowClaimed(j) \/ RowClosed(j) \/ RowTimed(j)

\* Requests change the row of one job, the rest of the program does not change
\* what was requested.
RowStep(j) == RowRequested(j) \/ RowWorked(j)

\* Every step changes a row in one of these ways.
LEMMA RowSteps ==
    ASSUME TypeOK, WorkersSound, [Next]_vars, NEW j \in Jobs
    PROVE  RowStep(j)
<1> USE DEF RowStep, RowWorked
<1>1. CASE jobs' = jobs
    BY <1>1
<1>2. ASSUME NEW k \in Jobs, Snapshot(k)
      PROVE  RowStep(j)
    BY <1>2 DEF Snapshot, RowRequested, SourceFree, TypeOK
<1>3. ASSUME NEW k \in Jobs, Enqueue(k)
      PROVE  RowStep(j)
    BY <1>3 DEF Enqueue, RowRequested, TypeOK
<1>4. ASSUME NEW k \in Jobs, EnqueueFails(k)
      PROVE  RowStep(j)
    BY <1>4 DEF EnqueueFails, RowRequested, TypeOK
<1>5. ASSUME NEW w \in Workers, Claim(w)
      PROVE  RowStep(j)
  <2> DEFINE after == [k \in Jobs |-> Recovered(jobs[k])]
  <2>1. CASE jobs' = after
    BY <2>1 DEF RowClaimed
  <2>2. ASSUME NEW k \in Jobs, after[k].status = "queued",
               jobs' = [after EXCEPT ![k].status = "running", ![k].owner = w,
                          ![k].due = FALSE, ![k].attempt = @ + 1]
        PROVE  RowStep(j)
    BY <2>2 DEF RowClaimed
  <2>3. QED  BY <1>5, <2>1, <2>2 DEF Claim
<1>6. ASSUME NEW w \in Workers, Heartbeat(w) \/ Renew(w)
      PROVE  RowStep(j)
    BY <1>6 DEF Heartbeat, Renew, Progresses, Owned, RowTimed, TypeOK
<1>7. ASSUME NEW w \in Workers, Report(w)
      PROVE  RowStep(j)
    BY <1>7 DEF Report, Owned, RowClosed, TypeOK
<1>8. ASSUME NEW w \in Workers, Fail(w)
      PROVE  RowStep(j)
    BY <1>8 DEF Fail, Owned, RowClosed, TypeOK
<1>9. ASSUME NEW k \in Jobs, LeaseExpires(k) \/ RetryFallsDue(k)
      PROVE  RowStep(j)
    BY <1>9 DEF LeaseExpires, RetryFallsDue, RowTimed, TypeOK
<1>10. QED
  <2>1. CASE \E d \in Docs : Upload(d) \/ UploadCommits(d) \/ UploadFails(d) \/ Unlink(d)
    BY <2>1, <1>1 DEF Upload, UploadCommits, UploadFails, Unlink
  <2>2. ASSUME NEW w \in Workers,
               \/ TryCollectionLock(w) \/ ClaimFails(w) \/ ReleaseCollectionLock(w)
               \/ LeaseLost(w) \/ Raises(w) \/ Copy(w) \/ Build(w) \/ CheckBeforeWrite(w)
               \/ Publish(w) \/ PublishFails(w) \/ Verify(w)
               \/ HeartbeatFails(w) \/ LockSessionEnds(w) \/ Crash(w)
        PROVE  RowStep(j)
    BY <2>2, <1>1 DEF TryCollectionLock, ClaimFails, ReleaseCollectionLock, LeaseLost,
        Raises, Copy, Build, CheckBeforeWrite, Publish, PublishFails, Verify,
        HeartbeatFails, LockSessionEnds, Crash
  <2>3. QED
    BY <1>1, <1>2, <1>3, <1>4, <1>5, <1>6, <1>7, <1>8, <1>9, <2>1, <2>2
       DEF Next, SourceNext, Works, TimePasses, vars

-----------------------------------------------------------------------------
(* What a step does to a worker. *)

Busy == {"copying", "building", "writing", "embedding", "verifying", "renewing",
         "reporting", "failing"}

WorkerRests(w) ==
    /\ workers'[w].pc \in {"idle", "locked", "releasing"}
    /\ workers'[w].report = "none"

WorkerClaims(w) ==
    \E j \in Jobs : workers'[w] = [IdleWorker EXCEPT !.pc = "copying", !.job = j]

WorkerGoesOn(w) ==
    /\ Executing(w)
    /\ workers'[w].pc \in Busy
    /\ workers'[w].job = workers[w].job
    /\ workers'[w].pc \in {"verifying", "renewing", "reporting"} => workers'[w].report # "none"
    /\ workers'[w].report = "success" =>
        workers[w].report = "success" \/ workers[w].job \in versions'

WorkerStep(w) ==
    /\ workers'[w] \in Worker
    /\ \/ workers'[w] = workers[w]
       \/ WorkerRests(w) \/ WorkerClaims(w) \/ WorkerGoesOn(w)

\* Every step changes a worker in one of these ways.
LEMMA WorkerSteps ==
    ASSUME TypeOK, WorkersSound, [Next]_vars, NEW v \in Workers
    PROVE  WorkerStep(v)
<1> USE DEF WorkerStep
<1>1. workers[v] \in Worker
    BY DEF TypeOK
<1>2. CASE workers' = workers
    BY <1>1, <1>2
<1>3. ASSUME NEW w \in Workers, NEW pc \in {"idle", "locked"},
             ~Executing(w), GoTo(w, pc)
      PROVE  WorkerStep(v)
    BY <1>1, <1>3 DEF GoTo, Executing, WorkerRests, Worker, TypeOK, WorkersSound
<1>4. ASSUME NEW w \in Workers, Leave(w) \/ workers' = [workers EXCEPT ![w] = IdleWorker]
      PROVE  WorkerStep(v)
  <2> DEFINE leaving == [IdleWorker EXCEPT !.pc = "releasing"]
  <2>1. \A x \in {IdleWorker, leaving} :
            x \in Worker /\ x.pc \in {"idle", "releasing"} /\ x.report = "none"
    <3>1. /\ IdleWorker \in Worker /\ IdleWorker.pc = "idle"
          /\ IdleWorker.report = "none"
      BY DEF IdleWorker, Worker
    <3>2. leaving \in Worker /\ leaving.pc = "releasing" /\ leaving.report = "none"
      BY DEF IdleWorker, Worker
    <3>3. QED  BY <3>1, <3>2
  <2>2. PICK x \in {IdleWorker, leaving} : workers' = [workers EXCEPT ![w] = x]
    BY <1>4 DEF Leave
  <2> HIDE DEF leaving
  <2>4. CASE v # w
    BY <1>1, <2>2, <2>4 DEF TypeOK
  <2>5. CASE v = w
    BY <2>1, <2>2, <2>5 DEF WorkerRests, TypeOK
  <2>6. QED  BY <2>4, <2>5
<1>5. ASSUME NEW w \in Workers, Claim(w)
      PROVE  WorkerStep(v)
  <2>1. CASE Leave(w)
    BY <2>1, <1>4
  <2>2. ASSUME NEW j \in Jobs,
               workers' = [workers EXCEPT ![w] = [IdleWorker EXCEPT !.pc = "copying", !.job = j]]
        PROVE  WorkerStep(v)
    BY <1>1, <2>2 DEF IdleWorker, WorkerClaims, Worker, TypeOK
  <2>3. QED  BY <1>5, <2>1, <2>2 DEF Claim
<1>6. ASSUME NEW w \in Workers, Raises(w) \/ Copy(w)
      PROVE  WorkerStep(v)
    BY <1>1, <1>6 DEF Raises, Copy, GoTo, At, Executing, WorkerGoesOn, Busy, Worker, TypeOK
<1>7. ASSUME NEW w \in Workers, Build(w) \/ CheckBeforeWrite(w)
      PROVE  WorkerStep(v)
    BY <1>1, <1>7 DEF Build, CheckBeforeWrite, GoTo, At, Executing, WorkerGoesOn, Busy,
        Worker, TypeOK
<1>8. ASSUME NEW w \in Workers, Publish(w) \/ PublishFails(w)
      PROVE  WorkerStep(v)
    BY <1>1, <1>8 DEF Publish, PublishFails, At, Executing, WorkerGoesOn, Busy, Worker, TypeOK
<1>9. ASSUME NEW w \in Workers, Verify(w) \/ Renew(w)
      PROVE  WorkerStep(v)
    BY <1>1, <1>9 DEF Verify, Renew, GoTo, At, Executing, WorkerGoesOn, Busy, Worker,
        TypeOK, WorkersSound
<1>10. ASSUME NEW w \in Workers, At(w, "reporting"), GoTo(w, "failing")
      PROVE  WorkerStep(v)
    BY <1>1, <1>10 DEF GoTo, At, Executing, WorkerGoesOn, Busy, Worker, TypeOK
<1>11. ASSUME NEW w \in Workers, Executing(w),
              workers' = [workers EXCEPT ![w].lost = TRUE]
       PROVE  WorkerStep(v)
  <2>1. CASE v # w
    BY <1>11, <2>1, <1>1 DEF TypeOK
  <2>2. CASE v = w
    <3>1. workers'[v] = [workers[v] EXCEPT !.lost = TRUE]
      BY <1>11, <2>2 DEF TypeOK
    <3>2. workers'[v] \in Worker /\ workers'[v].pc = workers[v].pc
            /\ workers'[v].job = workers[v].job /\ workers'[v].report = workers[v].report
      BY <1>1, <3>1 DEF Worker
    <3>3. workers[v].pc \in Busy
      BY <1>1, <1>11, <2>2 DEF Executing, Busy, Worker
    <3>4. QED  BY <1>11, <2>2, <3>2, <3>3 DEF WorkerGoesOn, WorkersSound
  <2>3. QED  BY <2>1, <2>2
<1>12. ASSUME NEW w \in Workers,
              \/ TryCollectionLock(w) \/ ClaimFails(w) \/ ReleaseCollectionLock(w)
              \/ LeaseLost(w) \/ Report(w) \/ Fail(w) \/ Crash(w)
              \/ Heartbeat(w) \/ HeartbeatFails(w)
       PROVE  WorkerStep(v)
  <2>1. CASE TryCollectionLock(w) \/ ReleaseCollectionLock(w)
    BY <2>1, <1>3 DEF TryCollectionLock, ReleaseCollectionLock, At, Executing
  <2>2. CASE ClaimFails(w) \/ LeaseLost(w) \/ Fail(w) \/ Crash(w)
    BY <2>2, <1>4 DEF ClaimFails, LeaseLost, Fail, Crash
  <2>3. CASE Report(w)
    BY <2>3, <1>4, <1>10 DEF Report
  <2>4. CASE Heartbeat(w) \/ HeartbeatFails(w)
    BY <2>4, <1>2, <1>11 DEF Heartbeat, HeartbeatFails
  <2>5. QED  BY <1>12, <2>1, <2>2, <2>3, <2>4
<1>13. QED
  <2>1. CASE SourceNext \/ TimePasses
    BY <2>1, <1>2 DEF SourceNext, TimePasses, Upload, UploadCommits, UploadFails, Unlink,
        Snapshot, Enqueue, EnqueueFails, LeaseExpires, RetryFallsDue
  <2>2. ASSUME NEW w \in Workers, LockSessionEnds(w)
        PROVE  WorkerStep(v)
    BY <2>2, <1>2 DEF LockSessionEnds
  <2>3. QED
    BY <1>2, <1>5, <1>6, <1>7, <1>8, <1>9, <1>12, <2>1, <2>2 DEF Next, Works, vars

-----------------------------------------------------------------------------
(* What a step does to the rest. *)

IndexStep ==
    \/ UNCHANGED indexVars
    \/ \E w \in Workers :
        /\ Executing(w)
        /\ versions' = versions \union {workers[w].job} /\ index' = workers[w].job

SourceStep ==
    \/ UNCHANGED sourceVars
    \/ \E d \in Docs : Upload(d) \/ UploadCommits(d) \/ UploadFails(d) \/ Unlink(d)
    \/ \E j \in Jobs : Snapshot(j) \/ Enqueue(j) \/ EnqueueFails(j)

LockStep == lock' = lock \/ lock' \in Workers \union {None}

Shapes ==
    /\ jobs' = [j \in Jobs |-> jobs'[j]]
    /\ workers' = [w \in Workers |-> workers'[w]]

\* Only a publication changes the index, only an upload or a request the sources.
LEMMA OtherSteps ==
    ASSUME TypeOK, [Next]_vars
    PROVE  IndexStep /\ SourceStep /\ LockStep /\ Shapes
<1>1. CASE UNCHANGED vars
    BY <1>1 DEF vars, IndexStep, SourceStep, LockStep, Shapes, TypeOK
<1>2. CASE SourceNext
    BY <1>2 DEF SourceNext, Upload, UploadCommits, UploadFails, Unlink, Snapshot, Enqueue,
        EnqueueFails, IndexStep, SourceStep, LockStep, Shapes, TypeOK
<1>3. CASE TimePasses
    BY <1>3 DEF TimePasses, LeaseExpires, RetryFallsDue, IndexStep, SourceStep, LockStep,
        Shapes, TypeOK
<1>4. ASSUME NEW w \in Workers,
             Works(w) \/ Heartbeat(w) \/ HeartbeatFails(w) \/ LockSessionEnds(w) \/ Crash(w)
      PROVE  IndexStep /\ SourceStep /\ LockStep /\ Shapes
  <2>1. SourceStep
    BY <1>4 DEF SourceStep, Works, TryCollectionLock, Claim, ClaimFails,
        ReleaseCollectionLock, LeaseLost, Raises, Copy, Build, CheckBeforeWrite, Publish,
        PublishFails, Verify, Renew, Report, Fail, Heartbeat, HeartbeatFails,
        LockSessionEnds, Crash
  <2>2. IndexStep
    BY <1>4 DEF IndexStep, Executing, At, Works, TryCollectionLock, Claim, ClaimFails,
        ReleaseCollectionLock, LeaseLost, Raises, Copy, Build, CheckBeforeWrite, Publish,
        PublishFails, Verify, Renew, Report, Fail, Heartbeat, HeartbeatFails,
        LockSessionEnds, Crash
  <2>3. LockStep
    BY <1>4 DEF LockStep, TypeOK, Works, TryCollectionLock, Claim, ClaimFails,
        ReleaseCollectionLock, LeaseLost, Raises, Copy, Build, CheckBeforeWrite, Publish,
        PublishFails, Verify, Renew, Report, Fail, Heartbeat, HeartbeatFails,
        LockSessionEnds, Crash
  <2>4. Shapes
    BY <1>4 DEF Shapes, TypeOK, GoTo, Leave, Works, TryCollectionLock, Claim, ClaimFails,
        ReleaseCollectionLock, LeaseLost, Raises, Copy, Build, CheckBeforeWrite, Publish,
        PublishFails, Verify, Renew, Report, Fail, Heartbeat, HeartbeatFails,
        LockSessionEnds, Crash
  <2>5. QED  BY <2>1, <2>2, <2>3, <2>4
<1>5. QED  BY <1>1, <1>2, <1>3, <1>4 DEF Next

-----------------------------------------------------------------------------
(* The parts of IInv. *)

\* A recovered row is a row, and keeps what was requested.
LEMMA RecoveredRow ==
    ASSUME NEW row \in Job
    PROVE  /\ Recovered(row) \in Job
           /\ Recovered(row).manifest = row.manifest
           /\ Recovered(row).generation = row.generation
           /\ Recovered(row).attempt = row.attempt
           /\ Recovered(row) = row
              \/ /\ row.status = "running" /\ row.expired
                 /\ Recovered(row).owner = None
                 /\ \/ Recovered(row).status = "queued" /\ row.attempt < MaxAttempts
                    \/ Recovered(row).status = "error"
<1> DEFINE new(st, due) == [row EXCEPT !.status = st, !.owner = None, !.expired = FALSE,
                                       !.due = due]
<1>1. ASSUME NEW st \in {"error", "queued"}, NEW due \in BOOLEAN
      PROVE  /\ new(st, due) \in Job
             /\ new(st, due).manifest = row.manifest
             /\ new(st, due).generation = row.generation
             /\ new(st, due).attempt = row.attempt
             /\ new(st, due).owner = None /\ new(st, due).status = st
    BY DEF Job
<1>2. row.attempt \in Nat /\ MaxAttempts \in Nat
    BY RefreshAssumption DEF Job
<1>3. CASE row.status = "running" /\ row.expired
  <2> DEFINE st == IF row.attempt >= MaxAttempts THEN "error" ELSE "queued"
             due == row.attempt < MaxAttempts
  <2>1. Recovered(row) = new(st, due)
    BY <1>3 DEF Recovered
  <2>2. st \in {"error", "queued"} /\ due \in BOOLEAN
    OBVIOUS
  <2>3. st = "queued" => row.attempt < MaxAttempts
    BY <1>2
  <2> HIDE DEF new, st, due
  <2>4. QED  BY <1>1, <1>3, <2>1, <2>2, <2>3
<1>4. QED  BY <1>3 DEF Recovered

\* A claim keeps what was requested.
LEMMA ClaimedRow ==
    ASSUME NEW j \in Jobs, jobs[j] \in Job, RowClaimed(j)
    PROVE  /\ jobs'[j].manifest = jobs[j].manifest
           /\ jobs'[j].generation = jobs[j].generation
           /\ jobs'[j] = jobs[j] \/ jobs'[j].status \in {"queued", "running", "error"}
<1> DEFINE old == Recovered(jobs[j])
<1>1. /\ old \in Job /\ old.manifest = jobs[j].manifest /\ old.generation = jobs[j].generation
      /\ old = jobs[j] \/ old.status \in {"queued", "error"}
    BY RecoveredRow
<1>2. jobs'[j] = old \/ \E w \in Workers :
            jobs'[j] = [old EXCEPT !.status = "running", !.owner = w,
                                   !.due = FALSE, !.attempt = @ + 1]
    BY DEF RowClaimed
<1> HIDE DEF old
<1>3. QED  BY <1>1, <1>2 DEF Job

\* A step leaves a well-typed row well typed and sound.
LEMMA RowsPreserved ==
    ASSUME IInv, [Next]_vars
    PROVE  jobs' \in [Jobs -> Job] /\ RowsSound'
<1> SUFFICES ASSUME NEW j \in Jobs
             PROVE  /\ jobs'[j] \in Job
                    /\ jobs'[j].status # "running" => jobs'[j].owner = None
                    /\ jobs'[j].status \in {"absent", "inserting"} => jobs'[j].attempt = 0
                    /\ jobs'[j].status = "queued" => jobs'[j].attempt < MaxAttempts
  <2>1. Shapes
    BY OtherSteps DEF IInv
  <2>2. QED  BY <2>1 DEF Shapes, RowsSound
<1> DEFINE row == jobs[j]
<1>1. row \in Job /\ files \in SUBSET Docs /\ generation \in SUBSET Docs
    BY DEF IInv, TypeOK
<1>2. /\ row.status # "running" => row.owner = None
      /\ row.status \in {"absent", "inserting"} => row.attempt = 0
      /\ row.status = "queued" => row.attempt < MaxAttempts
    BY DEF IInv, RowsSound
<1>3. RowStep(j)
    BY RowSteps DEF IInv
<1>4. CASE jobs'[j] = jobs[j]
    BY <1>1, <1>2, <1>4
<1>5. CASE RowRequested(j)
  <2>1. CASE jobs'[j] = [row EXCEPT !.status = "inserting", !.manifest = files]
             /\ row.status = "absent"
    BY <1>1, <1>2, <2>1 DEF Job
  <2>2. CASE jobs'[j] = [row EXCEPT !.status = "queued", !.due = TRUE, !.generation = generation]
             /\ row.status = "inserting"
    <3> DEFINE new == [row EXCEPT !.status = "queued", !.due = TRUE, !.generation = generation]
    <3>1. new \in Job /\ new.status = "queued" /\ new.owner = row.owner
            /\ new.attempt = row.attempt
      BY <1>1 DEF Job
    <3>2. 0 < MaxAttempts
      BY RefreshAssumption
    <3> HIDE DEF new
    <3>3. QED  BY <1>2, <2>2, <3>1, <3>2 DEF new
  <2>3. CASE jobs'[j] = NoJob
    BY <2>3, RefreshAssumption DEF NoJob, Job
  <2>4. QED  BY <1>5, <2>1, <2>2, <2>3 DEF RowRequested
<1>6. CASE RowClaimed(j)
  <2>1. CASE jobs'[j] = Recovered(row)
    BY <1>1, <1>2, <2>1, RecoveredRow DEF Job
  <2>2. ASSUME NEW w \in Workers, Recovered(row).status = "queued",
               jobs'[j] = [Recovered(row) EXCEPT !.status = "running", !.owner = w,
                                !.due = FALSE, !.attempt = @ + 1]
        PROVE  /\ jobs'[j] \in Job
               /\ jobs'[j].status = "running"
    <3>1. Recovered(row) \in Job /\ Recovered(row).attempt < MaxAttempts
      BY <1>1, <1>2, <2>2, RecoveredRow
    <3> DEFINE old == Recovered(row)
    <3> HIDE DEF old
    <3>2. old.attempt + 1 \in 0..MaxAttempts
      BY <3>1, RefreshAssumption DEF Job, old
    <3>3. QED  BY <2>2, <3>1, <3>2 DEF Job, old
  <2>3. QED  BY <1>6, <2>1, <2>2 DEF RowClaimed
<1>7. CASE RowClosed(j)
  <2>1. PICK st \in {"success", "error", "queued"} :
            /\ jobs'[j] = Closed(row, st)
            /\ st = "queued" => row.attempt < MaxAttempts
    BY <1>7 DEF RowClosed, At, IInv, TypeOK, Worker, WorkersSound
  <2>2. QED  BY <1>1, <2>1 DEF Closed, Job
<1>8. CASE RowTimed(j)
    BY <1>1, <1>2, <1>8 DEF RowTimed, Job
<1>9. QED  BY <1>3, <1>4, <1>5, <1>6, <1>7, <1>8 DEF RowStep, RowWorked

\* A step keeps what workers know.
LEMMA WorkersPreserved ==
    ASSUME IInv, [Next]_vars
    PROVE  workers' \in [Workers -> Worker] /\ WorkersSound'
<1>1. Shapes /\ IndexStep
    BY OtherSteps DEF IInv
<1>2. versions \subseteq versions'
    BY <1>1 DEF IndexStep, indexVars
<1>3. ASSUME NEW w \in Workers
      PROVE  /\ workers'[w] \in Worker
             /\ workers'[w].pc \notin {"idle", "locked", "releasing"} => workers'[w].job \in Jobs
             /\ workers'[w].pc \in {"idle", "locked", "releasing"} => workers'[w].report = "none"
             /\ workers'[w].pc \in {"verifying", "renewing", "reporting"} => workers'[w].report # "none"
             /\ workers'[w].report = "success" => workers'[w].job \in versions'
  <2>1. WorkerStep(w)
    BY WorkerSteps DEF IInv
  <2>2. CASE workers'[w] = workers[w]
    BY <1>2, <2>2 DEF IInv, TypeOK, WorkersSound, Executing
  <2>3. CASE WorkerRests(w)
    BY <2>1, <2>3 DEF WorkerRests, WorkerStep
  <2>4. CASE WorkerClaims(w)
    BY <2>1, <2>4 DEF WorkerClaims, WorkerStep, IdleWorker
  <2>5. CASE WorkerGoesOn(w)
    BY <1>2, <2>1, <2>5 DEF WorkerGoesOn, WorkerStep, Busy, IInv, WorkersSound
  <2>6. QED  BY <2>1, <2>2, <2>3, <2>4, <2>5 DEF WorkerStep
<1>4. QED  BY <1>1, <1>3 DEF Shapes, WorkersSound, Executing

\* A step keeps the types.
LEMMA TypePreserved ==
    ASSUME IInv, [Next]_vars
    PROVE  TypeOK'
<1>1. IndexStep /\ SourceStep /\ LockStep
    BY OtherSteps DEF IInv
<1>2. versions' \subseteq Jobs /\ index' \in versions' \union {None}
    BY <1>1 DEF IndexStep, indexVars, IInv, TypeOK, WorkersSound
<1>3. lock' \in Workers \union {None}
    BY <1>1 DEF LockStep, IInv, TypeOK
<1>4. /\ files' \subseteq Docs /\ generation' \subseteq Docs
      /\ uploads' \in [Docs -> {"new", "linked", "accepted", "failed", "withdrawn"}]
      /\ source' \in Docs \union Jobs \union {None}
  <2>1. CASE UNCHANGED sourceVars
    BY <2>1 DEF sourceVars, IInv, TypeOK
  <2>2. ASSUME NEW d \in Docs, Upload(d) \/ UploadCommits(d) \/ UploadFails(d) \/ Unlink(d)
        PROVE  <1>4!1 /\ <1>4!2 /\ <1>4!3
    BY <2>2 DEF Upload, UploadCommits, UploadFails, Unlink, IInv, TypeOK
  <2>3. ASSUME NEW j \in Jobs, Snapshot(j) \/ Enqueue(j) \/ EnqueueFails(j)
        PROVE  <1>4!1 /\ <1>4!2 /\ <1>4!3
    BY <2>3 DEF Snapshot, Enqueue, EnqueueFails, IInv, TypeOK
  <2>4. QED  BY <1>1, <2>1, <2>2, <2>3 DEF SourceStep
<1>5. QED  BY <1>2, <1>3, <1>4, RowsPreserved, WorkersPreserved DEF TypeOK

\* A step keeps the bookkeeping of the uploads.
LEMMA UploadsPreserved ==
    ASSUME IInv, [Next]_vars
    PROVE  UploadsSound'
<1>1. SourceStep
    BY OtherSteps DEF IInv
<1>2. CASE UNCHANGED sourceVars
    BY <1>2 DEF sourceVars, IInv, UploadsSound
<1>3. ASSUME NEW d \in Docs, Upload(d) \/ UploadCommits(d) \/ UploadFails(d) \/ Unlink(d)
      PROVE  UploadsSound'
    BY <1>3, RefreshAssumption DEF Upload, UploadCommits, UploadFails, Unlink, SourceFree,
        IInv, UploadsSound, TypeOK
<1>4. ASSUME NEW j \in Jobs, Snapshot(j) \/ Enqueue(j) \/ EnqueueFails(j)
      PROVE  UploadsSound'
  <2>1. \A d \in Docs : source # d
    BY <1>4, RefreshAssumption DEF Snapshot, Enqueue, EnqueueFails, SourceFree, IInv,
        RequestsSound
  <2>2. UNCHANGED <<files, generation, uploads>>
    BY <1>4 DEF Snapshot, Enqueue, EnqueueFails
  <2>3. QED  BY <2>1, <2>2 DEF IInv, UploadsSound
<1>5. QED  BY <1>1, <1>2, <1>3, <1>4 DEF SourceStep

\* A step never tears a snapshot from its generation.
LEMMA RequestsPreserved ==
    ASSUME IInv, [Next]_vars
    PROVE  RequestsSound' /\ AcceptedUploadsSeen'
<1> DEFINE Good(j) ==
        /\ jobs'[j].generation \subseteq generation'
        /\ jobs'[j].status = "inserting" =>
            /\ source' = j
            /\ \A d \in generation' : uploads'[d] = "accepted" => d \in jobs'[j].manifest
        /\ \A d \in jobs'[j].generation : uploads'[d] = "accepted" => d \in jobs'[j].manifest
<1> SUFFICES ASSUME NEW j \in Jobs PROVE Good(j)
    BY DEF RequestsSound, AcceptedUploadsSeen
<1>1. /\ jobs[j].generation \subseteq generation /\ generation \subseteq Docs
      /\ jobs[j].status = "inserting" =>
            /\ source = j
            /\ \A d \in generation : uploads[d] = "accepted" => d \in jobs[j].manifest
      /\ \A d \in jobs[j].generation : uploads[d] = "accepted" => d \in jobs[j].manifest
      /\ \A d \in generation : uploads[d] = "accepted" => d \in files
    BY DEF IInv, TypeOK, UploadsSound, RequestsSound, AcceptedUploadsSeen
<1>2. SourceStep /\ RowStep(j) /\ jobs[j] \in Job
    BY OtherSteps, RowSteps DEF IInv, TypeOK
\* The files, the generation and the uploads do not change.
<1>3. ASSUME UNCHANGED <<files, generation, uploads>>,
             jobs'[j].status = "inserting" => source' = j
      PROVE  Good(j)
  <2>1. CASE RowWorked(j)
    <3>1. /\ jobs'[j].manifest = jobs[j].manifest
          /\ jobs'[j].generation = jobs[j].generation
          /\ jobs'[j].status = "inserting" => jobs[j].status = "inserting"
      <4>1. CASE jobs'[j] = jobs[j]
        BY <4>1
      <4>2. CASE RowClaimed(j)
        BY <1>2, <4>2, ClaimedRow
      <4>3. CASE RowClosed(j)
        BY <1>2, <4>3 DEF RowClosed, Closed, Job, At, IInv, TypeOK, Worker
      <4>4. CASE RowTimed(j)
        BY <1>2, <4>4 DEF RowTimed, Job
      <4>5. QED  BY <2>1, <4>1, <4>2, <4>3, <4>4 DEF RowWorked
    <3>2. QED  BY <1>1, <1>3, <3>1
  <2>2. CASE RowRequested(j)
    <3>1. CASE jobs'[j] = [jobs[j] EXCEPT !.status = "inserting", !.manifest = files]
      BY <1>1, <1>2, <1>3, <3>1 DEF Job
    <3>2. CASE jobs'[j] = [jobs[j] EXCEPT !.status = "queued", !.due = TRUE,
                                          !.generation = generation]
               /\ jobs[j].status = "inserting"
      BY <1>1, <1>2, <1>3, <3>2 DEF Job
    <3>3. CASE jobs'[j] = NoJob
      BY <3>3 DEF NoJob
    <3>4. QED  BY <2>2, <3>1, <3>2, <3>3 DEF RowRequested
  <2>3. QED  BY <1>2, <2>1, <2>2 DEF RowStep
<1>4. CASE UNCHANGED sourceVars
  <2>1. jobs'[j].status = "inserting" => jobs[j].status = "inserting" \/ source' = j
    <3>1. CASE RowClaimed(j)
      BY <1>2, <3>1, ClaimedRow
    <3>2. CASE RowClosed(j)
      BY <1>2, <3>2 DEF RowClosed, Closed, Job, At, IInv, TypeOK, Worker
    <3>3. CASE RowTimed(j) \/ RowRequested(j)
      BY <1>2, <3>3 DEF RowTimed, RowRequested, NoJob, Job
    <3>4. QED  BY <1>2, <3>1, <3>2, <3>3 DEF RowStep, RowWorked
  <2>2. QED  BY <1>1, <1>3, <1>4, <2>1 DEF sourceVars
<1>5. ASSUME NEW d \in Docs, Upload(d) \/ UploadCommits(d) \/ UploadFails(d) \/ Unlink(d)
      PROVE  Good(j)
  <2>1. jobs' = jobs
    BY <1>5 DEF Upload, UploadCommits, UploadFails, Unlink
  <2>2. jobs[j].status = "inserting" => source' = j
    BY <1>1, <1>5, RefreshAssumption DEF Upload, UploadCommits, UploadFails, Unlink,
        SourceFree, IInv, UploadsSound
  <2>3. CASE UploadCommits(d)
    <3>1. source = d /\ d \notin generation
      BY <2>3 DEF UploadCommits, IInv, UploadsSound
    <3>2. \A x \in generation : uploads'[x] = uploads[x]
      BY <1>1, <2>3, <3>1 DEF UploadCommits, IInv, TypeOK
    <3>3. jobs[j].status # "inserting"
      BY <1>1, <3>1, RefreshAssumption
    <3>4. generation \subseteq generation'
      BY <2>3 DEF UploadCommits
    <3>5. QED  BY <1>1, <2>1, <3>2, <3>3, <3>4
  <2>4. CASE Upload(d) \/ UploadFails(d) \/ Unlink(d)
    <3>1. generation' = generation
      BY <2>4 DEF Upload, UploadFails, Unlink
    <3>2. \A x \in Docs : uploads'[x] = "accepted" => uploads[x] = "accepted"
      BY <2>4 DEF Upload, UploadFails, Unlink, IInv, TypeOK
    <3>3. QED  BY <1>1, <2>1, <2>2, <3>1, <3>2
  <2>5. QED  BY <1>5, <2>3, <2>4
<1>6. ASSUME NEW k \in Jobs, Snapshot(k) \/ Enqueue(k) \/ EnqueueFails(k)
      PROVE  Good(j)
  <2>1. jobs'[j].status = "inserting" => source' = j
    BY <1>1, <1>2, <1>6, RefreshAssumption DEF Snapshot, Enqueue, EnqueueFails, SourceFree,
        NoJob, Job, IInv, TypeOK, RequestsSound
  <2>2. QED  BY <1>3, <1>6, <2>1 DEF Snapshot, Enqueue, EnqueueFails
<1>7. QED  BY <1>2, <1>4, <1>5, <1>6 DEF SourceStep

\* A step reports success only of what was published.
LEMMA SuccessPreserved ==
    ASSUME IInv, [Next]_vars
    PROVE  SuccessIsPublished'
<1> SUFFICES ASSUME NEW j \in Jobs, jobs'[j].status = "success" PROVE j \in versions'
    BY DEF SuccessIsPublished
<1>1. versions \subseteq versions'
    BY OtherSteps DEF IndexStep, indexVars, IInv
<1>2. RowStep(j) /\ jobs[j] \in Job
    BY RowSteps DEF IInv, TypeOK
<1>3. CASE jobs[j].status = "success"
    BY <1>1, <1>3 DEF IInv, SuccessIsPublished
<1>4. CASE RowClosed(j)
    BY <1>1, <1>2, <1>4 DEF RowClosed, Closed, Job, IInv, WorkersSound
<1>5. CASE RowClaimed(j)
    BY <1>2, <1>3, <1>5, ClaimedRow
<1>6. CASE RowRequested(j)
  <2>1. CASE jobs'[j] = [jobs[j] EXCEPT !.status = "inserting", !.manifest = files]
    BY <1>2, <2>1 DEF Job
  <2>2. CASE jobs'[j] = [jobs[j] EXCEPT !.status = "queued", !.due = TRUE,
                                        !.generation = generation]
    BY <1>2, <2>2 DEF Job
  <2>3. CASE jobs'[j] = NoJob
    BY <2>3 DEF NoJob
  <2>4. QED  BY <1>6, <2>1, <2>2, <2>3 DEF RowRequested
<1>7. CASE RowTimed(j)
    BY <1>2, <1>3, <1>7 DEF RowTimed, Job
<1>8. QED  BY <1>2, <1>3, <1>4, <1>5, <1>6, <1>7 DEF RowStep, RowWorked

-----------------------------------------------------------------------------
(* The theorems. *)

\* The bookkeeping of uploads, requests and workers is an invariant.
THEOREM Bookkeeping == Spec => []IInv
<1>1. Init => IInv
    BY RefreshAssumption DEF Init, IInv, TypeOK, RowsSound, WorkersSound, UploadsSound,
        RequestsSound, AcceptedUploadsSeen, SuccessIsPublished, Job, NoJob, Worker,
        IdleWorker, Executing
<1>2. IInv /\ [Next]_vars => IInv'
    BY TypePreserved, RowsPreserved, WorkersPreserved, UploadsPreserved, RequestsPreserved,
        SuccessPreserved DEF IInv
<1>3. QED  BY <1>1, <1>2, PTL DEF Spec

\* Every variable keeps its type: attempts never pass their limit, and a job
\* ends in a status that the table allows.
THEOREM TypeCorrect == Spec => []TypeOK
<1>1. IInv => TypeOK
    BY DEF IInv
<1>2. QED  BY <1>1, Bookkeeping, PTL

\* A refresh sees every upload that was accepted before it was requested.
THEOREM UploadsAreSeen == Spec => []AcceptedUploadsSeen
<1>1. IInv => AcceptedUploadsSeen
    BY DEF IInv
<1>2. QED  BY <1>1, Bookkeeping, PTL

\* A job that reports success did publish its index.
THEOREM SuccessIsReal == Spec => []SuccessIsPublished
<1>1. IInv => SuccessIsPublished
    BY DEF IInv
<1>2. QED  BY <1>1, Bookkeeping, PTL

\* No worker reopens or rewrites a job that is finished, however late it comes.
THEOREM FinishedStays == Spec => FinishedIsFinal
<1>1. IInv /\ [Next]_vars => \A j \in Jobs : Finished(j) => jobs'[j] = jobs[j]
  <2> SUFFICES ASSUME IInv, [Next]_vars, NEW j \in Jobs, Finished(j)
               PROVE  jobs'[j] = jobs[j]
    OBVIOUS
  <2>1. RowStep(j)
    BY RowSteps DEF IInv
  <2>2. Recovered(jobs[j]) = jobs[j]
    BY DEF Recovered, Finished
  <2>3. QED  BY <2>1, <2>2 DEF Finished, RowStep, RowRequested, RowWorked, RowClaimed,
                RowClosed, RowTimed
<1>2. QED  BY <1>1, Bookkeeping, PTL DEF Spec, FinishedIsFinal

\* Nobody takes a job from a worker that renews its lease in time.
THEOREM LeasesAreRespected == Spec => LeaseRespected
<1> DEFINE Good == \A j \in Jobs : \A w \in Workers :
        jobs[j].owner = w /\ jobs'[j].owner # w =>
            jobs[j].expired \/ workers[w].pc \in {"reporting", "failing"}
<1>1. IInv /\ [Next]_vars => Good
  <2> SUFFICES ASSUME IInv, [Next]_vars, NEW j \in Jobs, NEW w \in Workers,
                      jobs[j].owner = w, jobs'[j].owner # w
               PROVE  jobs[j].expired \/ workers[w].pc \in {"reporting", "failing"}
    OBVIOUS
  <2>1. RowStep(j) /\ jobs[j] \in Job /\ w # None
    BY RowSteps, RefreshAssumption DEF IInv, TypeOK
  <2>2. jobs[j].status = "running"
    BY <2>1 DEF IInv, RowsSound
  <2>3. CASE RowClaimed(j)
    BY <2>1, <2>2, <2>3, RecoveredRow DEF RowClaimed
  <2>4. CASE RowClosed(j)
    BY <2>4 DEF RowClosed, At
  <2>5. CASE RowTimed(j) \/ RowRequested(j)
    BY <2>1, <2>2, <2>5 DEF RowTimed, RowRequested, Job
  <2>6. QED  BY <2>1, <2>3, <2>4, <2>5 DEF RowStep, RowWorked
<1>2. QED  BY <1>1, Bookkeeping, PTL DEF Spec, LeaseRespected

\* A job says what is so, and does not take it back.
THEOREM JobsStayHonest == Spec => JobsAreHonest
  BY UploadsAreSeen, SuccessIsReal, FinishedStays, PTL DEF JobsAreHonest

-----------------------------------------------------------------------------
(* Evaluation.                                                             *)

\* What is offered to the writer, or is going to be rebuilt, was answered, and
\* what is offered was not a replay.
Offered ==
  /\ \A r \in threads : turn[r] # Nothing /\ ~Unfinished(turn[r])
  /\ \A i \in DOMAIN queue : turn[queue[i]] # Nothing /\ ~Unfinished(turn[queue[i]])
  /\ \A w \in Evaluators : \A r \in evaluator[w].missing : turn[r] # Nothing

\* A policy answer without a source, and the verdict of a snapshot that is honest
\* about the turn it was taken of.
Unproven(c) == "policy" \in c /\ c \cap {"asks", "sources", "evidence"} = {}
Faults == {"failed", "malformed", "truncated", "bare", "replayed"}

Honest(verdict, s, c) ==
  /\ verdict \in {"pass", "warning"} =>
       s.capture = "live" /\ ~Unproven(c) /\ c \cap Faults = {}
  /\ "secret" \in c => verdict = "critical_fail"
  /\ Unproven(c) /\ "amount" \in c => verdict = "critical_fail" \/ s.capture = "reconciled"

\* A live snapshot was offered: its turn was neither interrupted nor replayed.
Taken(s, c) ==
  \/ s = Frozen(c) /\ ~Unfinished(c)
  \/ s = Rebuilt(c)

\* What the row of a turn says, by its snapshot and its answer: only the last claim
\* wrote an end, and a run that waits has an attempt left.
Sound(row, s, c) ==
  /\ row.by # 0 => row.status \in Ended /\ row.by = row.attempts
  /\ row.verdict # Nothing => row.status = "completed" /\ Honest(row.verdict, s, c)
  /\ row.status = "skipped" => ~Eligible(s)
  /\ row.status # "none" => s # Nothing
  /\ row.status \in {"none", "pending"} => row.attempts < MaxTries
  /\ s # Nothing => c # Nothing /\ Taken(s, c)

\* Who holds the lease of a row works on its last attempt.
Held(h, row, w) ==
  h # 0 => /\ row.status # "none"
           /\ row.status = "running" /\ row.owner = w => h = row.attempts

EVInv ==
  /\ EVTypeOK
  /\ Offered
  /\ \A r \in Turns : Sound(run[r], subject[r], turn[r])
  /\ \A w \in Evaluators, r \in Turns : Held(evaluator[w].hand[r], run[r], w)

\* What the snapshot shows of the turn: a secret whatever was lost, and what its own
\* process saw of it.
LEMMA SnapshotsShow ==
  ASSUME NEW c \in SUBSET TurnFacts, NEW s, Taken(s, c)
  PROVE  /\ "secret" \in c => Critical(s)
         /\ s.capture # "reconciled" =>
              /\ s.capture = "live"
              /\ "replayed" \notin c
              /\ Unproven(c) => Unsupported(s.facts)
              /\ c \cap {"truncated", "bare"} # {} => Incomplete(s)
              /\ c \cap {"failed", "malformed"} # {} => Hard(s)
<1>1. CASE s = Frozen(c) /\ ~Unfinished(c)
  <2> DEFINE more == IF "sources" \in c THEN {"evidence"} ELSE {}
  <2>1. s.capture = "live" /\ s.facts = c \cup more
    BY <1>1 DEF Frozen
  <2>2. \A f \in TurnFacts : f # "evidence" => (f \in s.facts <=> f \in c)
    BY <2>1
  <2>3. "evidence" \in s.facts => "evidence" \in c \/ "sources" \in c
    BY <2>1
  <2> HIDE DEF more
  <2>4. "secret" \in c => Critical(s)
    BY <2>2 DEF Critical, TurnFacts
  <2>5. "replayed" \notin c /\ "interrupted" \notin c
    BY <1>1 DEF Unfinished
  <2>6. ~Unfinished(s.facts)
    BY <2>2, <2>5 DEF Unfinished, TurnFacts
  <2>7. Unproven(c) => Unsupported(s.facts)
    <3> SUFFICES ASSUME Unproven(c) PROVE Unsupported(s.facts)
      OBVIOUS
    <3>1. "policy" \in c /\ "asks" \notin c /\ "sources" \notin c /\ "evidence" \notin c
      BY DEF Unproven
    <3>2. "policy" \in s.facts /\ "asks" \notin s.facts /\ "sources" \notin s.facts
          /\ "evidence" \notin s.facts
      BY <2>2, <2>3, <3>1 DEF TurnFacts
    <3>3. QED  BY <2>6, <3>2 DEF Unsupported, NeedsEvidence, Concludes, Waits
  <2>8. c \cap {"truncated", "bare"} # {} => Incomplete(s)
    BY <2>2 DEF Incomplete, TurnFacts
  <2>9. c \cap {"failed", "malformed"} # {} => Hard(s)
    BY <2>2 DEF Hard, TurnFacts
  <2>10. QED  BY <2>1, <2>4, <2>5, <2>7, <2>8, <2>9
<1>2. CASE s = Rebuilt(c)
  BY <1>2 DEF Rebuilt, Critical
<1>3. QED  BY <1>1, <1>2 DEF Taken

LEMMA DecisionsAreHonest ==
  ASSUME NEW c \in SUBSET TurnFacts, NEW s, Taken(s, c), NEW judge \in JudgeAnswers(s)
  PROVE  Decide(s, judge) \in Verdicts /\ Honest(Decide(s, judge), s, c)
<1>1. judge \in {"unasked", "unavailable"} \cup Verdicts
  BY DEF JudgeAnswers, Verdicts
<1>2. CASE Critical(s)
  <2>1. Decide(s, judge) = "critical_fail"
    BY <1>2 DEF Decide, Hard
  <2>2. QED  BY <2>1 DEF Verdicts, Honest
<1>3. CASE ~Critical(s)
  <2>1. "secret" \notin c
    BY <1>3, SnapshotsShow
  <2>2. Unproven(c) /\ "amount" \in c => s.capture = "reconciled"
    <3> SUFFICES ASSUME Unproven(c), "amount" \in c, s.capture # "reconciled" PROVE FALSE
      OBVIOUS
    <3>1. Unsupported(s.facts)
      BY SnapshotsShow
    <3>2. s = Frozen(c)
      BY DEF Taken, Rebuilt
    <3>3. "amount" \in s.facts
      BY <3>2 DEF Frozen
    <3>4. QED  BY <1>3, <3>1, <3>3 DEF Critical
  <2>3. CASE Hard(s)
    <3>1. Decide(s, judge) = "fail"
      BY <1>3, <2>3 DEF Decide
    <3>2. QED  BY <2>1, <2>2, <3>1 DEF Verdicts, Honest
  <2>4. CASE Incomplete(s) /\ ~Hard(s)
    <3>1. Decide(s, judge) = "unscored"
      BY <1>3, <2>4 DEF Decide
    <3>2. QED  BY <2>1, <2>2, <3>1 DEF Verdicts, Honest
  <2>5. CASE ~Incomplete(s) /\ ~Hard(s)
    <3>1. Decide(s, judge) \in Verdicts
      BY <1>1, <1>3, <2>5 DEF Decide, Verdicts
    <3>2. s.capture # "reconciled"
      BY <2>5 DEF Incomplete
    <3>3. s.capture = "live" /\ "replayed" \notin c
          /\ c \cap {"truncated", "bare"} = {} /\ c \cap {"failed", "malformed"} = {}
      BY <2>5, <3>2, SnapshotsShow
    <3>4. ~Unproven(c)
      BY <2>5, <3>2, SnapshotsShow DEF Hard
    <3>5. c \cap Faults = {}
      BY <3>3 DEF Faults
    <3>6. QED  BY <2>1, <3>1, <3>3, <3>4, <3>5 DEF Honest
  <2>6. QED  BY <2>3, <2>4, <2>5
<1>4. QED  BY <1>2, <1>3

\* A policy turn whose skills are known is judged.
LEMMA PoliciesAreJudged ==
  ASSUME NEW c \in SUBSET TurnFacts, NEW s, Taken(s, c), ~Eligible(s)
  PROVE  s.capture = "reconciled" \/ c \cap {"policy", "chitchat"} # {"policy"}
<1>1. CASE s = Rebuilt(c)
  BY <1>1 DEF Rebuilt
<1>2. CASE s = Frozen(c) /\ ~Unfinished(c)
  <2> SUFFICES ASSUME c \cap {"policy", "chitchat"} = {"policy"} PROVE FALSE
    OBVIOUS
  <2>1. "policy" \in c /\ "chitchat" \notin c /\ "replayed" \notin c /\ "interrupted" \notin c
    BY <1>2 DEF Unfinished
  <2>2. "policy" \in s.facts /\ "chitchat" \notin s.facts
        /\ "replayed" \notin s.facts /\ "interrupted" \notin s.facts
    BY <1>2, <2>1 DEF Frozen
  <2>3. QED  BY <2>2 DEF Eligible, Unfinished
<1>3. QED  BY <1>1, <1>2 DEF Taken

-----------------------------------------------------------------------------
(* The rows.                                                               *)

LEMMA Attempting == MaxTries \in Nat /\ MaxTries # 0
  BY EvaluationAssumption

\* A snapshot and its run are stored.
LEMMA StoredSound ==
  ASSUME NEW row \in Rows, NEW s, NEW c, NEW new, Taken(new, c), c # Nothing,
         Sound(row, s, c), row.status = "none", new # Nothing
  PROVE  /\ [row EXCEPT !.status = "pending"] \in Rows
         /\ Sound([row EXCEPT !.status = "pending"], IF s = Nothing THEN new ELSE s, c)
<1>1. row.by = 0 /\ row.verdict = Nothing
  BY DEF Sound, Ended
<1>2. PICK new2 : new2 = (IF s = Nothing THEN new ELSE s)
  OBVIOUS
<1>3. new2 # Nothing /\ Taken(new2, c)
  BY <1>2 DEF Sound
<1>4. PICK row2 \in Rows : row2 = [row EXCEPT !.status = "pending"]
  BY DEF Rows
<1>5. row2.status = "pending" /\ row2.by = 0 /\ row2.verdict = Nothing /\ row2.attempts = row.attempts
  BY <1>1, <1>4 DEF Rows
<1>6. row.attempts < MaxTries
  BY DEF Sound
<1>7. Sound(row2, new2, c)
  BY <1>3, <1>5, <1>6 DEF Sound
<1>8. QED  BY <1>2, <1>4, <1>7

LEMMA StoredHeld ==
  ASSUME NEW row \in Rows, NEW w \in Evaluators, NEW h, Held(h, row, w), row.status = "none"
  PROVE  Held(h, [row EXCEPT !.status = "pending"], w)
  BY DEF Held, Rows

\* A first snapshot keeps what the row says when the row is there or not.
LEMMA SnapshotSound ==
  ASSUME NEW row \in Rows, NEW s, NEW c, NEW new, Taken(new, c), c # Nothing,
         Sound(row, s, c), row.status # "none"
  PROVE  Sound(row, IF s = Nothing THEN new ELSE s, c)
  BY DEF Sound

LEMMA ReopenedSound ==
  ASSUME NEW row \in Rows, NEW s, NEW c, Sound(row, s, c), row.status = "running"
  PROVE  /\ Reopened(row) \in Rows
         /\ Sound(Reopened(row), s, c)
         /\ \A w \in Evaluators : \A h : Held(h, row, w) => Held(h, Reopened(row), w)
<1>1. row.by = 0 /\ row.verdict = Nothing
  BY DEF Sound, Ended
<1>2. CASE row.attempts >= MaxTries
  BY <1>1, <1>2 DEF Sound, Rows, Reopened, Ended, Held
<1>3. CASE ~(row.attempts >= MaxTries)
  <2>1. row.attempts < MaxTries
    BY <1>3, Attempting DEF Rows
  <2>2. QED  BY <1>1, <1>3, <2>1 DEF Sound, Rows, Reopened, Ended, Held
<1>4. QED  BY <1>2, <1>3

LEMMA ClaimedSound ==
  ASSUME NEW row \in Rows, NEW s, NEW c, NEW w \in Evaluators, Sound(row, s, c),
         row.status = "pending"
  PROVE  /\ Claimed(w, row) \in Rows
         /\ Sound(Claimed(w, row), s, c)
         /\ Held(row.attempts + 1, Claimed(w, row), w)
         /\ \A v \in Evaluators \ {w} : \A h : Held(h, row, v) => Held(h, Claimed(w, row), v)
         /\ row.attempts + 1 \in 0..MaxTries
<1>1. row.by = 0 /\ row.verdict = Nothing /\ row.attempts < MaxTries
  BY DEF Sound, Ended
<1>2. row.attempts + 1 \in 0..MaxTries
  BY <1>1, Attempting DEF Rows
<1>3. Claimed(w, row) \in Rows
  BY <1>2 DEF Claimed, Rows
<1>4. Sound(Claimed(w, row), s, c)
  BY <1>1 DEF Claimed, Rows, Sound
<1>5. QED
  BY <1>2, <1>3, <1>4 DEF Claimed, Rows, Held

LEMMA ConcludedSound ==
  ASSUME NEW row \in Rows, NEW s, NEW c, NEW w \in Evaluators, NEW h \in 0..MaxTries,
         NEW status \in Ended, NEW verdict \in Verdicts \cup {Nothing},
         Sound(row, s, c), Held(h, row, w), h # 0,
         verdict # Nothing => status = "completed" /\ Honest(verdict, s, c),
         status = "skipped" => ~Eligible(s)
  PROVE  /\ Concluded(row, w, status, verdict, h) \in Rows
         /\ Sound(Concluded(row, w, status, verdict, h), s, c)
         /\ \A v \in Evaluators : \A k :
              Held(k, row, v) => Held(k, Concluded(row, w, status, verdict, h), v)
<1>1. CASE row.status = "running" /\ row.owner = w
  <2> DEFINE new == Concluded(row, w, status, verdict, h)
  <2>1. new = [row EXCEPT !.status = status, !.verdict = verdict, !.owner = Nothing,
                          !.expired = FALSE, !.by = h]
    BY <1>1 DEF Concluded
  <2>2. h = row.attempts
    BY <1>1 DEF Held
  <2>3. new \in Rows
    BY <2>1 DEF Rows, Ended
  <2>4. new.status = status /\ new.verdict = verdict /\ new.by = h /\ new.attempts = row.attempts
    BY <2>1 DEF Rows
  <2>5. status # "none" /\ status # "pending" /\ status # "running"
    BY DEF Ended
  <2>6. s # Nothing
    BY <1>1 DEF Sound
  <2> HIDE DEF new
  <2>7. Sound(new, s, c)
    BY <2>2, <2>4, <2>5, <2>6 DEF Sound
  <2>8. \A v \in Evaluators : \A k : Held(k, new, v)
    BY <2>4, <2>5 DEF Held
  <2>9. QED  BY <2>3, <2>7, <2>8 DEF new
<1>2. CASE ~(row.status = "running" /\ row.owner = w)
  BY <1>2 DEF Concluded
<1>3. QED  BY <1>1, <1>2

LEMMA ExpiredSound ==
  ASSUME NEW row \in Rows, NEW s, NEW c, Sound(row, s, c)
  PROVE  /\ [row EXCEPT !.expired = TRUE] \in Rows
         /\ Sound([row EXCEPT !.expired = TRUE], s, c)
         /\ \A w \in Evaluators : \A h :
              Held(h, row, w) => Held(h, [row EXCEPT !.expired = TRUE], w)
  BY DEF Rows, Sound, Held

LEMMA NoRowSound ==
  /\ NoRow \in Rows
  /\ \A c : Sound(NoRow, Nothing, c)
  /\ \A w \in Evaluators : Held(0, NoRow, w)
<1>1. NoRow \in Rows /\ NoRow.status = "none" /\ NoRow.by = 0 /\ NoRow.verdict = Nothing
     /\ NoRow.attempts < MaxTries
  BY EvaluationAssumption DEF NoRow, Rows, Ended
<1>2. QED  BY <1>1 DEF Sound, Held

LEMMA EVStarts == EVInit => EVInv
<1> SUFFICES ASSUME EVInit PROVE EVInv
  OBVIOUS
<1>1. Empty \in [Turns -> 0..MaxTries] /\ \A r \in Turns : Empty[r] = 0
  BY EvaluationAssumption DEF Empty
<1>2. evaluator \in [Evaluators -> Process]
  BY <1>1 DEF EVInit, Process, Phases
<1>3. EVTypeOK
  <2>1. queue \in Seq(Turns) /\ Len(queue) <= QueueSize
    BY EvaluationAssumption DEF EVInit
  <2>2. QED  BY NoRowSound, <1>2, <2>1 DEF EVInit, EVTypeOK
<1>4. Offered
  BY DEF EVInit, Offered
<1>5. \A r \in Turns : Sound(run[r], subject[r], turn[r])
  BY NoRowSound DEF EVInit
<1>6. \A w \in Evaluators, r \in Turns : Held(evaluator[w].hand[r], run[r], w)
  BY NoRowSound, <1>1 DEF EVInit
<1>7. QED  BY <1>3, <1>4, <1>5, <1>6 DEF EVInv
-----------------------------------------------------------------------------
(* The steps.                                                              *)

LEMMA SnapshotsAreThat ==
  ASSUME NEW c \in SUBSET TurnFacts
  PROVE  /\ Frozen(c) \in Snapshots /\ Rebuilt(c) \in Snapshots
         /\ Frozen(c) # Nothing /\ Rebuilt(c) # Nothing
<1>1. Frozen(c) \in Snapshots /\ Rebuilt(c) \in Snapshots
  BY DEF Frozen, Rebuilt, Snapshots, TurnFacts
<1>2. Nothing \notin Snapshots
  BY EvaluationAssumption
<1>3. QED  BY <1>1, <1>2

\* The rows stay what they say when each is sound by itself.
LEMMA FromRows ==
  ASSUME EVTypeOK', Offered',
         \A r \in Turns : Sound(run[r], subject[r], turn[r])',
         \A w \in Evaluators, r \in Turns : Held(evaluator[w].hand[r], run[r], w)'
  PROVE  EVInv'
  BY DEF EVInv

LEMMA AnswerKeeps ==
  ASSUME EVInv, NEW r \in Turns, NEW c \in Answers[r], Answer(r, c)
  PROVE  EVInv'
<1>1. c \in SUBSET TurnFacts /\ c # Nothing
  BY EvaluationAssumption
<1>2. turn' \in [Turns -> (SUBSET TurnFacts) \cup {Nothing}]
  BY <1>1 DEF Answer, EVInv, EVTypeOK
<1>3. \A q \in Turns : turn'[q] = IF q = r THEN c ELSE turn[q]
  BY DEF Answer, EVInv, EVTypeOK
<1>4. \A q \in Turns : turn[q] # Nothing => turn'[q] = turn[q]
  BY <1>3 DEF Answer
<1>5. queue' \in Seq(Turns) /\ Len(queue') <= QueueSize
  <2>1. CASE queue' = queue
    BY <2>1 DEF EVInv, EVTypeOK
  <2>2. CASE Len(queue) < QueueSize /\ queue' = Append(queue, r)
    BY <2>2, EvaluationAssumption DEF EVInv, EVTypeOK
  <2>3. QED  BY <2>1, <2>2 DEF Answer
<1>6. EVTypeOK'
  <2>1. \A q \in Turns : turn'[q] \in Answers[q] \cup {Nothing}
    BY <1>3 DEF EVInv, EVTypeOK
  <2>2. QED  BY <1>2, <1>5, <2>1 DEF EVInv, EVTypeOK, Answer
<1>7. \A i \in DOMAIN queue' : turn'[queue'[i]] # Nothing /\ ~Unfinished(turn'[queue'[i]])
  <2>1. \A i \in DOMAIN queue :
          queue[i] \in Turns /\ turn[queue[i]] # Nothing /\ ~Unfinished(turn[queue[i]])
    BY DEF EVInv, EVTypeOK, Offered
  <2>2. CASE queue' = queue
    BY <1>4, <2>1, <2>2
  <2>3. CASE queue' = Append(queue, r) /\ "replayed" \notin c
    <3>1. \A i \in DOMAIN queue' : (i \in DOMAIN queue /\ queue'[i] = queue[i]) \/ queue'[i] = r
      BY <2>3 DEF EVInv, EVTypeOK
    <3>2. ~Unfinished(c)
      BY <2>3 DEF Answer, Unfinished
    <3>3. QED  BY <1>1, <1>3, <1>4, <2>1, <3>1, <3>2
  <2>4. QED  BY <2>2, <2>3 DEF Answer
<1>8. Offered'
  <2>1. threads \subseteq Turns /\ \A w \in Evaluators : evaluator[w].missing \subseteq Turns
    BY DEF EVInv, EVTypeOK, Process
  <2>2. QED  BY <1>4, <1>7, <2>1 DEF Offered, EVInv, Answer
<1>9. \A q \in Turns : Sound(run[q], subject[q], turn[q])'
  <2> SUFFICES ASSUME NEW q \in Turns PROVE Sound(run[q], subject[q], turn'[q])
    BY DEF Answer
  <2>1. CASE turn[q] # Nothing
    BY <1>4, <2>1 DEF EVInv
  <2>2. CASE turn[q] = Nothing
    <3>1. Sound(run[q], subject[q], turn[q])
      BY DEF EVInv
    <3>2. subject[q] = Nothing
      BY <2>2, <3>1 DEF Sound
    <3>3. run[q].status = "none"
      BY <3>1, <3>2 DEF Sound
    <3>4. QED  BY <3>1, <3>2, <3>3 DEF Sound
  <2>3. QED  BY <2>1, <2>2
<1>10. \A w \in Evaluators, q \in Turns : Held(evaluator[w].hand[q], run[q], w)'
  BY DEF EVInv, Answer
<1>11. QED  BY FromRows, <1>6, <1>8, <1>9, <1>10

LEMMA WriterKeeps ==
  ASSUME EVInv, TakeEvent \/ WriterTimeout \/ ChatRestart
  PROVE  EVInv'
<1>1. UNCHANGED <<turn, subject, run, evaluator>>
  BY DEF TakeEvent, WriterTimeout, ChatRestart
<1>2. /\ threads' \subseteq Turns
      /\ \A r \in threads' : turn[r] # Nothing /\ ~Unfinished(turn[r])
      /\ writing' \in Turns \cup {Nothing}
      /\ queue' \in Seq(Turns) /\ Len(queue') <= QueueSize
      /\ \A i \in DOMAIN queue' : turn[queue'[i]] # Nothing /\ ~Unfinished(turn[queue'[i]])
  <2>1. CASE TakeEvent
    <3>1. queue \in Seq(Turns) /\ queue # <<>> /\ Len(queue) <= QueueSize /\ QueueSize \in Nat
      BY <2>1, EvaluationAssumption DEF TakeEvent, EVInv, EVTypeOK
    <3>2. Head(queue) = queue[1] /\ queue[1] \in Turns /\ 1 \in DOMAIN queue
      BY <3>1
    <3>3. turn[Head(queue)] # Nothing /\ ~Unfinished(turn[Head(queue)])
      BY <3>2 DEF EVInv, Offered
    <3>4. Tail(queue) \in Seq(Turns) /\ Len(Tail(queue)) = Len(queue) - 1
      BY <3>1
    <3>5. \A i \in DOMAIN Tail(queue) : i + 1 \in DOMAIN queue /\ Tail(queue)[i] = queue[i + 1]
      BY <3>1
    <3>6. \A i \in DOMAIN Tail(queue) :
            turn[Tail(queue)[i]] # Nothing /\ ~Unfinished(turn[Tail(queue)[i]])
      BY <3>5 DEF EVInv, Offered
    <3>7. Len(Tail(queue)) <= QueueSize
      BY <3>1, <3>4
    <3>8. QED
      BY <2>1, <3>2, <3>3, <3>4, <3>6, <3>7 DEF TakeEvent, EVInv, EVTypeOK, Offered
  <2>2. CASE WriterTimeout
    BY <2>2 DEF WriterTimeout, EVInv, EVTypeOK, Offered
  <2>3. CASE ChatRestart
    BY <2>3, EvaluationAssumption DEF ChatRestart, EVInv, EVTypeOK, Offered
  <2>4. QED  BY <2>1, <2>2, <2>3
<1>3. EVTypeOK'
  BY <1>1, <1>2 DEF EVInv, EVTypeOK
<1>4. Offered'
  BY <1>1, <1>2 DEF EVInv, Offered
<1>5. QED  BY FromRows, <1>1, <1>3, <1>4 DEF EVInv

\* A snapshot is stored, a live or a rebuilt one.
LEMMA StoredKeeps ==
  ASSUME EVInv, NEW r \in Turns, NEW new, Stored(r, new), turn[r] # Nothing,
         Taken(new, turn[r])
  PROVE  /\ subject' \in [Turns -> Snapshots \cup {Nothing}] /\ run' \in [Turns -> Rows]
         /\ \A q \in Turns : Sound(run'[q], subject'[q], turn[q])
         /\ \A w \in Evaluators, q \in Turns :
              Held(evaluator[w].hand[q], run[q], w) => Held(evaluator[w].hand[q], run'[q], w)
<1>1. turn[r] \in SUBSET TurnFacts /\ run[r] \in Rows /\ Sound(run[r], subject[r], turn[r])
  BY DEF EVInv, EVTypeOK
<1>2. new \in Snapshots /\ new # Nothing
  BY <1>1, SnapshotsAreThat DEF Taken
<1>3. \A q \in Turns : subject'[q] = IF q = r /\ subject[q] = Nothing THEN new ELSE subject[q]
  BY DEF Stored, EVInv, EVTypeOK
<1>4. subject' \in [Turns -> Snapshots \cup {Nothing}]
  BY <1>2 DEF Stored, EVInv, EVTypeOK
<1>5. CASE run[r].status = "none"
  <2>1. PICK row : row = [run[r] EXCEPT !.status = "pending"]
    OBVIOUS
  <2>2. row \in Rows /\ Sound(row, subject'[r], turn[r])
    BY <1>1, <1>2, <1>3, <1>5, <2>1, StoredSound
  <2>3. run' = [run EXCEPT ![r] = row]
    BY <1>5, <2>1 DEF Stored
  <2>4. \A w \in Evaluators : \A h : Held(h, run[r], w) => Held(h, row, w)
    BY <1>1, <1>5, <2>1, StoredHeld
  <2>5. run' \in [Turns -> Rows]
    BY <2>2, <2>3 DEF EVInv, EVTypeOK
  <2>6. \A q \in Turns : run'[q] = IF q = r THEN row ELSE run[q]
    BY <2>3 DEF EVInv, EVTypeOK
  <2>7. QED  BY <1>3, <1>4, <2>2, <2>4, <2>5, <2>6 DEF EVInv
<1>6. CASE run[r].status # "none"
  <2>1. run' = run
    BY <1>6 DEF Stored
  <2>2. Sound(run[r], subject'[r], turn[r])
    BY <1>1, <1>2, <1>3, <1>6, SnapshotSound
  <2>3. QED  BY <1>3, <1>4, <2>1, <2>2 DEF EVInv, EVTypeOK
<1>7. QED  BY <1>5, <1>6

LEMMA ThreadKeeps ==
  ASSUME EVInv, NEW r \in Turns, Insert(r) \/ InsertFails(r)
  PROVE  EVInv'
<1>1. /\ r \in threads /\ threads' = threads \ {r}
      /\ writing' = IF writing = r THEN Nothing ELSE writing
      /\ UNCHANGED <<turn, queue, evaluator>>
  BY DEF Insert, InsertFails, ThreadEnds
<1>2. turn[r] # Nothing /\ ~Unfinished(turn[r])
  BY <1>1 DEF EVInv, Offered
<1>3. /\ subject' \in [Turns -> Snapshots \cup {Nothing}] /\ run' \in [Turns -> Rows]
      /\ \A q \in Turns : Sound(run'[q], subject'[q], turn[q])
      /\ \A w \in Evaluators, q \in Turns :
           Held(evaluator[w].hand[q], run[q], w) => Held(evaluator[w].hand[q], run'[q], w)
  <2>1. CASE Insert(r)
    <3>1. Stored(r, Frozen(turn[r]))
      BY <2>1 DEF Insert
    <3>2. Taken(Frozen(turn[r]), turn[r])
      BY <1>2 DEF Taken
    <3>3. QED  BY <1>2, <3>1, <3>2, StoredKeeps
  <2>2. CASE InsertFails(r)
    BY <2>2 DEF InsertFails, EVInv, EVTypeOK
  <2>3. QED  BY <2>1, <2>2
<1>4. EVTypeOK'
  BY <1>1, <1>3 DEF EVInv, EVTypeOK
<1>5. Offered'
  BY <1>1 DEF EVInv, Offered
<1>6. \A q \in Turns : Sound(run[q], subject[q], turn[q])'
  BY <1>1, <1>3
<1>7. \A w \in Evaluators, q \in Turns : Held(evaluator[w].hand[q], run[q], w)'
  BY <1>1, <1>3 DEF EVInv
<1>8. QED  BY FromRows, <1>4, <1>5, <1>6, <1>7
\* A step of evaluator w that changes nothing but its process, its hand kept or empty.
LEMMA ProcessKeeps ==
  ASSUME EVInv, NEW w \in Evaluators, NEW p \in Process, Enter(w, p),
         UNCHANGED <<chatVars, subject, run>>,
         \A r \in p.missing : turn[r] # Nothing,
         \A r \in Turns : p.hand[r] = 0 \/ p.hand[r] = evaluator[w].hand[r]
  PROVE  EVInv'
<1>1. \A v \in Evaluators : evaluator'[v] = IF v = w THEN p ELSE evaluator[v]
  BY DEF Enter, EVInv, EVTypeOK
<1>2. EVTypeOK'
  BY DEF Enter, chatVars, EVInv, EVTypeOK
<1>3. Offered'
  BY <1>1 DEF EVInv, Offered, chatVars
<1>4. \A v \in Evaluators, r \in Turns : Held(evaluator[v].hand[r], run[r], v)'
  <2> SUFFICES ASSUME NEW v \in Evaluators, NEW r \in Turns
               PROVE Held(evaluator'[v].hand[r], run[r], v)
    OBVIOUS
  <2>1. Held(evaluator[v].hand[r], run[r], v)
    BY DEF EVInv
  <2>2. evaluator'[v].hand[r] = 0 \/ evaluator'[v].hand[r] = evaluator[v].hand[r]
    BY <1>1
  <2>3. QED  BY <2>1, <2>2 DEF Held
<1>5. QED  BY FromRows, <1>2, <1>3, <1>4 DEF EVInv, chatVars

LEMMA EmptyHand == Empty \in [Turns -> 0..MaxTries] /\ \A r \in Turns : Empty[r] = 0
  BY Attempting DEF Empty

LEMMA StartKeeps ==
  ASSUME EVInv, NEW w \in Evaluators, StartEvaluator(w) \/ StartPolling(w) \/ EvaluatorDies(w)
  PROVE  EVInv'
<1>1. UNCHANGED <<chatVars, subject, run>>
  BY DEF StartEvaluator, StartPolling, EvaluatorDies
<1>2. CASE StartEvaluator(w)
  <2>1. PICK missing \in {{}, {r \in Turns : turn[r] # Nothing /\ subject[r] = Nothing}} :
          Enter(w, [phase |-> "backfill", missing |-> missing, hand |-> Empty])
    BY <1>2 DEF StartEvaluator
  <2>2. [phase |-> "backfill", missing |-> missing, hand |-> Empty] \in Process
    BY EmptyHand DEF Process, Phases
  <2>3. QED  BY <1>1, <2>1, <2>2, EmptyHand, ProcessKeeps
<1>3. CASE StartPolling(w)
  <2>1. PICK p : p = [evaluator[w] EXCEPT !.phase = "polling"]
    OBVIOUS
  <2>2. p \in Process /\ p.missing = evaluator[w].missing /\ p.hand = evaluator[w].hand
    BY <2>1 DEF EVInv, EVTypeOK, Process, Phases
  <2>3. Enter(w, p)
    BY <1>3, <2>1 DEF StartPolling
  <2>4. \A r \in p.missing : turn[r] # Nothing
    BY <2>2 DEF EVInv, Offered
  <2>5. QED  BY <1>1, <2>2, <2>3, <2>4, ProcessKeeps
<1>4. CASE EvaluatorDies(w)
  <2>1. Enter(w, [phase |-> "dead", missing |-> {}, hand |-> Empty])
    BY <1>4 DEF EvaluatorDies
  <2>2. [phase |-> "dead", missing |-> {}, hand |-> Empty] \in Process
    BY EmptyHand DEF Process, Phases
  <2>3. QED  BY <1>1, <2>1, <2>2, EmptyHand, ProcessKeeps
<1>5. QED  BY <1>2, <1>3, <1>4

LEMMA BackfillKeeps ==
  ASSUME EVInv, NEW w \in Evaluators, NEW r \in Turns, Backfill(w, r)
  PROVE  EVInv'
<1>1. turn[r] # Nothing
  BY DEF Backfill, EVInv, Offered
<1>2. /\ subject' \in [Turns -> Snapshots \cup {Nothing}] /\ run' \in [Turns -> Rows]
      /\ \A q \in Turns : Sound(run'[q], subject'[q], turn[q])
      /\ \A v \in Evaluators, q \in Turns :
           Held(evaluator[v].hand[q], run[q], v) => Held(evaluator[v].hand[q], run'[q], v)
  <2>1. Taken(Rebuilt(turn[r]), turn[r]) /\ Stored(r, Rebuilt(turn[r]))
    BY DEF Taken, Backfill
  <2>2. QED  BY <1>1, <2>1, StoredKeeps
<1>3. PICK p : p = [evaluator[w] EXCEPT !.missing = @ \ {r}]
  OBVIOUS
<1>4. p \in Process /\ p.missing \subseteq evaluator[w].missing /\ p.hand = evaluator[w].hand
  BY <1>3 DEF EVInv, EVTypeOK, Process
<1>5. evaluator' \in [Evaluators -> Process]
  BY <1>3, <1>4 DEF Backfill, Enter, EVInv, EVTypeOK
<1>6. \A v \in Evaluators : evaluator'[v] = IF v = w THEN p ELSE evaluator[v]
  BY <1>3 DEF Backfill, Enter, EVInv, EVTypeOK
<1>7. UNCHANGED <<turn, queue, writing, threads>>
  BY DEF Backfill, chatVars
<1>8. EVTypeOK'
  BY <1>2, <1>5, <1>7 DEF EVInv, EVTypeOK
<1>9. Offered'
  BY <1>4, <1>6, <1>7 DEF EVInv, Offered
<1>10. \A v \in Evaluators, q \in Turns : Held(evaluator[v].hand[q], run[q], v)'
  <2>1. \A v \in Evaluators : evaluator'[v].hand = evaluator[v].hand
    BY <1>4, <1>6
  <2>2. QED  BY <1>2, <2>1 DEF EVInv
<1>11. QED  BY FromRows, <1>2, <1>7, <1>8, <1>9, <1>10

LEMMA RecoverKeeps ==
  ASSUME EVInv, NEW w \in Evaluators, Recover(w)
  PROVE  EVInv'
<1>1. \A r \in Turns : /\ run'[r] \in Rows /\ Sound(run'[r], subject[r], turn[r])
                       /\ \A v \in Evaluators : \A h : Held(h, run[r], v) => Held(h, run'[r], v)
  <2> SUFFICES ASSUME NEW r \in Turns
               PROVE  /\ run'[r] \in Rows /\ Sound(run'[r], subject[r], turn[r])
                      /\ \A v \in Evaluators : \A h : Held(h, run[r], v) => Held(h, run'[r], v)
    OBVIOUS
  <2>1. run[r] \in Rows /\ Sound(run[r], subject[r], turn[r])
    BY DEF EVInv, EVTypeOK
  <2>2. CASE run[r].status = "running" /\ run[r].expired
    <3>1. run'[r] = Reopened(run[r])
      BY <2>2 DEF Recover, Running
    <3>2. QED  BY <2>1, <2>2, <3>1, ReopenedSound
  <2>3. CASE ~(run[r].status = "running" /\ run[r].expired)
    <3>1. run'[r] = run[r]
      BY <2>3 DEF Recover, Running
    <3>2. QED  BY <2>1, <3>1
  <2>4. QED  BY <2>2, <2>3
<1>2. run' \in [Turns -> Rows]
  BY <1>1 DEF Recover
<1>3. PICK p : p = [evaluator[w] EXCEPT !.phase = "claiming"]
  OBVIOUS
<1>4. p \in Process /\ p.missing = evaluator[w].missing /\ p.hand = evaluator[w].hand
  BY <1>3 DEF EVInv, EVTypeOK, Process, Phases
<1>5. evaluator' \in [Evaluators -> Process]
  BY <1>3, <1>4 DEF Recover, Enter, EVInv, EVTypeOK
<1>6. \A v \in Evaluators : evaluator'[v] = IF v = w THEN p ELSE evaluator[v]
  BY <1>3 DEF Recover, Enter, EVInv, EVTypeOK
<1>7. UNCHANGED <<turn, queue, writing, threads, subject>>
  BY DEF Recover, chatVars
<1>8. EVTypeOK'
  BY <1>2, <1>5, <1>7 DEF EVInv, EVTypeOK
<1>9. Offered'
  BY <1>4, <1>6, <1>7 DEF EVInv, Offered
<1>10. \A v \in Evaluators, q \in Turns : Held(evaluator[v].hand[q], run[q], v)'
  <2>1. \A v \in Evaluators : evaluator'[v].hand = evaluator[v].hand
    BY <1>4, <1>6
  <2>2. QED  BY <1>1, <2>1 DEF EVInv
<1>11. QED  BY FromRows, <1>1, <1>7, <1>8, <1>9, <1>10

LEMMA ClaimRunKeeps ==
  ASSUME EVInv, NEW w \in Evaluators, ClaimRun(w)
  PROVE  EVInv'
<1> PICK rows \in SUBSET {r \in Turns : run[r].status = "pending"} :
      /\ run' = [r \in Turns |-> IF r \in rows THEN Claimed(w, run[r]) ELSE run[r]]
      /\ Enter(w, [phase |-> IF rows = {} THEN "polling" ELSE "working", missing |-> {},
                   hand |-> [r \in Turns |-> IF r \in rows THEN run[r].attempts + 1 ELSE 0]])
  BY DEF ClaimRun
<1>1. \A r \in rows : r \in Turns /\ run[r].status = "pending" /\ run'[r] = Claimed(w, run[r])
  OBVIOUS
<1>2. \A r \in Turns \ rows : run'[r] = run[r]
  OBVIOUS
<1>3. \A r \in rows :
        /\ run'[r] \in Rows /\ Sound(run'[r], subject[r], turn[r])
        /\ Held(run[r].attempts + 1, run'[r], w)
        /\ \A v \in Evaluators \ {w} : \A h : Held(h, run[r], v) => Held(h, run'[r], v)
        /\ run[r].attempts + 1 \in 0..MaxTries
  <2> TAKE r \in rows
  <2>1. run[r] \in Rows /\ Sound(run[r], subject[r], turn[r])
    BY <1>1 DEF EVInv, EVTypeOK
  <2>2. QED  BY <1>1, <2>1, ClaimedSound
<1>4. run' \in [Turns -> Rows]
  BY <1>2, <1>3 DEF EVInv, EVTypeOK
<1>5. PICK hand : hand = [r \in Turns |-> IF r \in rows THEN run[r].attempts + 1 ELSE 0]
  OBVIOUS
<1>6. hand \in [Turns -> 0..MaxTries]
  BY <1>3, <1>5, Attempting
<1>7. PICK p : p = [phase |-> IF rows = {} THEN "polling" ELSE "working", missing |-> {},
                    hand |-> hand]
  OBVIOUS
<1>8. p \in Process /\ p.missing = {} /\ p.hand = hand
  BY <1>6, <1>7 DEF Process, Phases
<1>9. Enter(w, p)
  BY <1>5, <1>7
<1>10. evaluator' \in [Evaluators -> Process]
  BY <1>8, <1>9 DEF Enter, EVInv, EVTypeOK
<1>11. \A v \in Evaluators : evaluator'[v] = IF v = w THEN p ELSE evaluator[v]
  BY <1>9 DEF Enter, EVInv, EVTypeOK
<1>12. UNCHANGED <<turn, queue, writing, threads, subject>>
  BY DEF ClaimRun, chatVars
<1>13. EVTypeOK'
  BY <1>4, <1>10, <1>12 DEF EVInv, EVTypeOK
<1>14. Offered'
  BY <1>8, <1>11, <1>12 DEF EVInv, Offered
<1>15. \A r \in Turns : Sound(run'[r], subject[r], turn[r])
  BY <1>2, <1>3 DEF EVInv
<1>16. \A v \in Evaluators, r \in Turns : Held(evaluator'[v].hand[r], run'[r], v)
  <2> SUFFICES ASSUME NEW v \in Evaluators, NEW r \in Turns
               PROVE Held(evaluator'[v].hand[r], run'[r], v)
    OBVIOUS
  <2>1. Held(evaluator[v].hand[r], run[r], v)
    BY DEF EVInv
  <2>2. CASE v = w /\ r \in rows
    <3>1. evaluator'[v].hand[r] = run[r].attempts + 1
      BY <1>5, <1>8, <1>11, <2>2
    <3>2. QED  BY <1>3, <2>2, <3>1
  <2>3. CASE v = w /\ r \notin rows
    <3>1. evaluator'[v].hand[r] = 0
      BY <1>5, <1>8, <1>11, <2>3
    <3>2. QED  BY <3>1 DEF Held
  <2>4. CASE v # w /\ r \in rows
    BY <1>3, <1>11, <2>1, <2>4
  <2>5. CASE v # w /\ r \notin rows
    BY <1>2, <1>11, <2>1, <2>5
  <2>6. QED  BY <2>2, <2>3, <2>4, <2>5
<1>17. QED  BY FromRows, <1>12, <1>13, <1>14, <1>15, <1>16

LEMMA ConcludeKeeps ==
  ASSUME EVInv, NEW w \in Evaluators, NEW r \in Turns,
         NEW status \in Ended, NEW verdict \in Verdicts \cup {Nothing},
         Conclude(w, r, status, verdict),
         verdict # Nothing => status = "completed" /\ Honest(verdict, subject[r], turn[r]),
         status = "skipped" => ~Eligible(subject[r])
  PROVE  EVInv'
<1>1. PICK h \in 0..MaxTries : h = evaluator[w].hand[r]
  BY DEF EVInv, EVTypeOK, Process
<1>2. h # 0 /\ Held(h, run[r], w) /\ run[r] \in Rows /\ Sound(run[r], subject[r], turn[r])
  BY <1>1 DEF Conclude, EVInv, EVTypeOK
<1>3. PICK row : row = Concluded(run[r], w, status, verdict, h)
  OBVIOUS
<1>4. /\ row \in Rows /\ Sound(row, subject[r], turn[r])
      /\ \A v \in Evaluators : \A k : Held(k, run[r], v) => Held(k, row, v)
  BY <1>2, <1>3, ConcludedSound
<1>5. run' = [run EXCEPT ![r] = row]
  BY <1>1, <1>3 DEF Conclude
<1>6. run' \in [Turns -> Rows] /\ \A q \in Turns : run'[q] = IF q = r THEN row ELSE run[q]
  BY <1>4, <1>5 DEF EVInv, EVTypeOK
<1>7. PICK hand : hand = [evaluator[w].hand EXCEPT ![r] = 0]
  OBVIOUS
<1>8. /\ hand \in [Turns -> 0..MaxTries]
      /\ \A q \in Turns : hand[q] = 0 \/ hand[q] = evaluator[w].hand[q]
  BY <1>7, Attempting DEF EVInv, EVTypeOK, Process
<1>9. PICK p : p = [evaluator[w] EXCEPT !.hand = hand,
                      !.phase = IF hand = Empty THEN "polling" ELSE "working"]
  OBVIOUS
<1>10. p \in Process /\ p.missing = evaluator[w].missing /\ p.hand = hand
  BY <1>8, <1>9 DEF EVInv, EVTypeOK, Process, Phases
<1>11. Enter(w, p)
  BY <1>7, <1>9 DEF Conclude, Laid
<1>12. /\ evaluator' \in [Evaluators -> Process]
       /\ \A v \in Evaluators : evaluator'[v] = IF v = w THEN p ELSE evaluator[v]
  BY <1>10, <1>11 DEF Enter, EVInv, EVTypeOK
<1>13. UNCHANGED <<turn, queue, writing, threads, subject>>
  BY DEF Conclude, chatVars
<1>14. EVTypeOK'
  BY <1>6, <1>12, <1>13 DEF EVInv, EVTypeOK
<1>15. Offered'
  BY <1>10, <1>12, <1>13 DEF EVInv, Offered
<1>16. \A q \in Turns : Sound(run'[q], subject[q], turn[q])
  BY <1>4, <1>6 DEF EVInv
<1>17. \A v \in Evaluators, q \in Turns : Held(evaluator'[v].hand[q], run'[q], v)
  <2> SUFFICES ASSUME NEW v \in Evaluators, NEW q \in Turns
               PROVE Held(evaluator'[v].hand[q], run'[q], v)
    OBVIOUS
  <2>1. Held(evaluator[v].hand[q], run'[q], v)
    BY <1>4, <1>6 DEF EVInv
  <2>2. evaluator'[v].hand[q] = 0 \/ evaluator'[v].hand[q] = evaluator[v].hand[q]
    BY <1>8, <1>10, <1>12
  <2>3. QED  BY <2>1, <2>2 DEF Held
<1>18. QED  BY FromRows, <1>13, <1>14, <1>15, <1>16, <1>17

LEMMA EvaluateKeeps ==
  ASSUME EVInv, NEW w \in Evaluators, NEW r \in Turns, Evaluate(w, r)
  PROVE  EVInv'
<1>1. {"completed", "failed", "skipped"} = Ended
  BY DEF Ended
<1>2. CASE Judge(w, r)
  <2>1. PICK judge \in JudgeAnswers(subject[r]) :
          Conclude(w, r, "completed", Decide(subject[r], judge))
    BY <1>2 DEF Judge
  <2>2. evaluator[w].hand[r] # 0
    BY <1>2 DEF Judge
  <2>3. Held(evaluator[w].hand[r], run[r], w) /\ Sound(run[r], subject[r], turn[r])
    BY DEF EVInv
  <2>4. subject[r] # Nothing
    BY <2>2, <2>3 DEF Held, Sound
  <2>5. turn[r] # Nothing /\ Taken(subject[r], turn[r])
    BY <2>3, <2>4 DEF Sound
  <2>6. turn[r] \in SUBSET TurnFacts
    BY <2>5 DEF EVInv, EVTypeOK
  <2>7. /\ Decide(subject[r], judge) \in Verdicts
        /\ Honest(Decide(subject[r], judge), subject[r], turn[r])
    BY <2>5, <2>6, DecisionsAreHonest
  <2>8. QED  BY <1>1, <2>1, <2>7, ConcludeKeeps
<1>3. CASE Skip(w, r) \/ FailToRead(w, r)
  <2>1. PICK status \in {"skipped", "failed"} :
          Conclude(w, r, status, Nothing) /\ (status = "skipped" => ~Eligible(subject[r]))
    BY <1>3 DEF Skip, FailToRead
  <2>2. QED  BY <1>1, <2>1, ConcludeKeeps
<1>4. QED  BY <1>2, <1>3 DEF Evaluate

LEMMA ExpiryKeeps ==
  ASSUME EVInv, NEW r \in Turns, RunExpires(r)
  PROVE  EVInv'
<1>1. PICK row : row = [run[r] EXCEPT !.expired = TRUE]
  OBVIOUS
<1>2. run[r] \in Rows /\ Sound(run[r], subject[r], turn[r])
  BY DEF EVInv, EVTypeOK
<1>3. /\ row \in Rows /\ Sound(row, subject[r], turn[r])
      /\ \A w \in Evaluators : \A h : Held(h, run[r], w) => Held(h, row, w)
  BY <1>1, <1>2, ExpiredSound
<1>4. run' = [run EXCEPT ![r] = row] /\ UNCHANGED <<turn, queue, writing, threads, subject, evaluator>>
  BY <1>1 DEF RunExpires, chatVars, EVInv, EVTypeOK
<1>5. run' \in [Turns -> Rows] /\ \A q \in Turns : run'[q] = IF q = r THEN row ELSE run[q]
  BY <1>3, <1>4 DEF EVInv, EVTypeOK
<1>6. EVTypeOK'
  BY <1>4, <1>5 DEF EVInv, EVTypeOK
<1>7. Offered'
  BY <1>4 DEF EVInv, Offered
<1>8. \A q \in Turns : Sound(run[q], subject[q], turn[q])'
  BY <1>3, <1>4, <1>5 DEF EVInv
<1>9. \A v \in Evaluators, q \in Turns : Held(evaluator[v].hand[q], run[q], v)'
  BY <1>3, <1>4, <1>5 DEF EVInv
<1>10. QED  BY FromRows, <1>6, <1>7, <1>8, <1>9

LEMMA EVNextKeeps == EVInv /\ [EVNext]_evVars => EVInv'
<1> SUFFICES ASSUME EVInv, [EVNext]_evVars PROVE EVInv'
  OBVIOUS
<1>1. CASE ChatNext
  BY <1>1, AnswerKeeps, ThreadKeeps, WriterKeeps DEF ChatNext
<1>2. ASSUME NEW w \in Evaluators, Step(w) \/ EvaluatorDies(w) PROVE EVInv'
  BY <1>2, StartKeeps, RecoverKeeps, ClaimRunKeeps, BackfillKeeps, EvaluateKeeps DEF Step
<1>3. ASSUME NEW r \in Turns, RunExpires(r) PROVE EVInv'
  BY <1>3, ExpiryKeeps
<1>4. CASE UNCHANGED evVars
  <2>1. EVTypeOK' /\ Offered'
    BY <1>4 DEF EVInv, EVTypeOK, Offered, evVars
  <2>2. QED  BY <1>4, <2>1, FromRows DEF EVInv, evVars
<1>5. QED  BY <1>1, <1>2, <1>3, <1>4 DEF EVNext

LEMMA EVInvShows == EVInv => EvaluationsAreSound
<1> SUFFICES ASSUME EVInv PROVE EvaluationsAreSound
  OBVIOUS
<1>1. LastClaimWrites
  BY DEF EVInv, Sound, LastClaimWrites
<1>2. VerdictsAreHonest
  <2> SUFFICES ASSUME NEW r \in Turns
               PROVE  LET c == turn[r]
                          rebuilt == subject[r].capture = "reconciled"
                      IN /\ run[r].status = "skipped" =>
                              rebuilt \/ c \cap {"policy", "chitchat"} # {"policy"}
                         /\ run[r].verdict # Nothing =>
                              /\ run[r].verdict \in {"pass", "warning"} =>
                                   ~rebuilt /\ ~Unproven(c) /\ c \cap Faults = {}
                              /\ "secret" \in c => run[r].verdict = "critical_fail"
                              /\ Unproven(c) /\ "amount" \in c =>
                                   run[r].verdict = "critical_fail" \/ rebuilt
    BY DEF VerdictsAreHonest, Unproven, Faults
  <2>1. Sound(run[r], subject[r], turn[r])
    BY DEF EVInv
  <2>2. run[r].verdict # Nothing => Honest(run[r].verdict, subject[r], turn[r])
    BY <2>1 DEF Sound
  <2>3. ASSUME run[r].status = "skipped"
        PROVE  subject[r].capture = "reconciled" \/ turn[r] \cap {"policy", "chitchat"} # {"policy"}
    <3>1. subject[r] # Nothing /\ ~Eligible(subject[r])
      BY <2>1, <2>3 DEF Sound
    <3>2. turn[r] # Nothing /\ Taken(subject[r], turn[r])
      BY <2>1, <3>1 DEF Sound
    <3>3. turn[r] \in SUBSET TurnFacts
      BY <3>2 DEF EVInv, EVTypeOK
    <3>4. QED  BY <3>1, <3>2, <3>3, PoliciesAreJudged
  <2>4. subject[r].capture = "live" => subject[r].capture # "reconciled"
    OBVIOUS
  <2>5. QED  BY <2>2, <2>3, <2>4 DEF Honest
<1>3. QED  BY <1>1, <1>2 DEF EVInv, EvaluationsAreSound

\* What is stored of an evaluation is the result of its last claim and an honest
\* verdict on the snapshot, whichever process inserted it first, however often the
\* run was recovered and whatever the judge says (evaluation/repository.py:161-207,
\* decision.py:7-56).
THEOREM EvaluationsStaySound == EVSpec => []EvaluationsAreSound
<1>1. EVInit => EVInv
  BY EVStarts
<1>2. EVInv /\ [EVNext]_evVars => EVInv'
  BY EVNextKeeps
<1>3. EVInv => EvaluationsAreSound
  BY EVInvShows
<1>4. QED  BY <1>1, <1>2, <1>3, PTL DEF EVSpec
=============================================================================
