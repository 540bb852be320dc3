----------------------------- MODULE RefreshJobs -----------------------------
(***************************************************************************)
(* The control plane that rebuilds the knowledge base: the job table of    *)
(* rag/refresh_jobs.py, the workers of rag/refresh_worker.py that execute a *)
(* job, the publication of an index by RAGPipeline.ingest, and the uploads  *)
(* of webui_new/knowledge_base_service.py that change the sources.         *)
(*                                                                         *)
(* A worker executes a job under two locks that know nothing of each other: *)
(* the advisory lock of the collection, which the database drops with the   *)
(* session that took it, and the lease in the row of the job, which runs    *)
(* out when nobody renews it.  Each database transaction is one step.  A    *)
(* lease may expire at any moment: its owner may be paused.                *)
(*                                                                         *)
(* Source files never change; a generation is the set of files whose upload *)
(* was committed, which is what the counter of the code counts.            *)
(***************************************************************************)
EXTENDS Naturals, FiniteSets

CONSTANTS
    Workers,        \* worker processes
    Jobs,           \* refreshes requested (bounds them)
    Docs,           \* files uploaded (bounds them)
    MaxAttempts,    \* max_attempts
    None

ASSUME RefreshAssumption ==
    /\ MaxAttempts \in Nat \ {0}
    /\ None \notin Workers \union Jobs \union Docs
    /\ Jobs \intersect Docs = {}

VARIABLES
    files,      \* the documents directory
    generation, \* rag_source_generations
    uploads,    \* where the upload of each file stands
    source,     \* holder of the advisory lock of the sources: an upload or an enqueue
    jobs,       \* rag_refresh_jobs
    workers,    \* the local variables of each worker
    lock,       \* holder of the advisory lock of the collection
    versions,   \* rag_index_versions that became active, by the job that built them
    index       \* the active one

sourceVars == <<files, generation, uploads, source>>
indexVars == <<versions, index>>
vars == <<sourceVars, jobs, workers, lock, indexVars>>

-----------------------------------------------------------------------------
\* "inserting" is the open transaction of an enqueue that has taken its snapshot.
Job == [status: {"absent", "inserting", "queued", "running", "success", "error"},
        owner: Workers \union {None}, expired: BOOLEAN, due: BOOLEAN,
        attempt: 0..MaxAttempts, manifest: SUBSET Docs, generation: SUBSET Docs]

NoJob == [status |-> "absent", owner |-> None, expired |-> FALSE, due |-> FALSE,
          attempt |-> 0, manifest |-> {}, generation |-> {}]

Worker == [pc: {"idle", "locked", "copying", "building", "writing", "embedding",
                "verifying", "renewing", "reporting", "failing", "releasing"},
           job: Jobs \union {None}, lost: BOOLEAN, report: {"none", "success", "error"}]

IdleWorker == [pc |-> "idle", job |-> None, lost |-> FALSE, report |-> "none"]

At(w, pc) == workers[w].pc = pc
Executing(w) == workers[w].pc \notin {"idle", "locked", "releasing"}

\* One worker goes on to pc, its other variables unchanged.
GoTo(w, pc) == workers' = [workers EXCEPT ![w].pc = pc]

\* _execute is over; only the collection lock is left to release.
Leave(w) == workers' = [workers EXCEPT ![w] = [IdleWorker EXCEPT !.pc = "releasing"]]

Active(j) == jobs[j].status \in {"queued", "running"}
Finished(j) == jobs[j].status \in {"success", "error"}

Unfenced(w) == workers[w].job # None

\* WHERE job_id=... AND status='running' AND lease_owner=...
Owned(w) == jobs[workers[w].job].status = "running" /\ jobs[workers[w].job].owner = w

-----------------------------------------------------------------------------
(* KnowledgeBaseManagementService.upload over run_source_change *)

SourceFree == source = None

\* The file is linked into the directory inside the transaction.
Upload(d) ==
    /\ uploads[d] = "new" /\ SourceFree
    /\ source' = d
    /\ files' = files \union {d}
    /\ uploads' = [uploads EXCEPT ![d] = "linked"]
    /\ UNCHANGED <<generation, jobs, workers, lock, indexVars>>

\* The answer of the commit may be lost, which the uploader takes for a failure.
UploadCommits(d) ==
    /\ uploads[d] = "linked"
    /\ generation' = generation \union {d}
    /\ source' = None
    /\ \E answer \in {"accepted", "failed"} : uploads' = [uploads EXCEPT ![d] = answer]
    /\ UNCHANGED <<files, jobs, workers, lock, indexVars>>

\* The transaction fails and gives up its lock before the file is removed; a
\* process that dies leaves the file.
UploadFails(d) ==
    /\ uploads[d] = "linked"
    /\ source' = None
    /\ uploads' = [uploads EXCEPT ![d] = "failed"]
    /\ UNCHANGED <<files, generation, jobs, workers, lock, indexVars>>

Unlink(d) ==
    /\ uploads[d] = "failed"
    /\ files' = files \ {d}
    /\ uploads' = [uploads EXCEPT ![d] = "withdrawn"]
    /\ UNCHANGED <<generation, source, jobs, workers, lock, indexVars>>

-----------------------------------------------------------------------------
(* enqueue *)

Snapshot(j) ==
    /\ jobs[j].status = "absent" /\ SourceFree
    /\ ~\E k \in Jobs : Active(k)
    /\ source' = j
    /\ jobs' = [jobs EXCEPT ![j].status = "inserting", ![j].manifest = files]
    /\ UNCHANGED <<files, generation, uploads, workers, lock, indexVars>>

Enqueue(j) ==
    /\ jobs[j].status = "inserting"
    /\ source' = None
    /\ jobs' = [jobs EXCEPT ![j].status = "queued", ![j].due = TRUE,
                            ![j].generation = generation]
    /\ UNCHANGED <<files, generation, uploads, workers, lock, indexVars>>

EnqueueFails(j) ==
    /\ jobs[j].status = "inserting"
    /\ source' = None
    /\ jobs' = [jobs EXCEPT ![j] = NoJob]
    /\ UNCHANGED <<files, generation, uploads, workers, lock, indexVars>>

-----------------------------------------------------------------------------
(* run_once *)

TryCollectionLock(w) ==
    /\ At(w, "idle") /\ lock = None
    /\ lock' = w
    /\ GoTo(w, "locked")
    /\ UNCHANGED <<sourceVars, jobs, indexVars>>

NotRecovered(row) == row

\* The first statement of claim: a running job whose lease ran out.
Recovered(row) ==
    IF ~(row.status = "running" /\ row.expired) THEN row
    ELSE [row EXCEPT !.status = IF row.attempt >= MaxAttempts THEN "error" ELSE "queued",
                     !.owner = None, !.expired = FALSE, !.due = row.attempt < MaxAttempts]

Claim(w) ==
    LET after == [j \in Jobs |-> Recovered(jobs[j])]
        waiting == {j \in Jobs : after[j].status = "queued" /\ after[j].due} IN
    /\ At(w, "locked")
    /\ \/ /\ waiting = {}
          /\ jobs' = after
          /\ Leave(w)
       \/ \E j \in waiting :
          /\ jobs' = [after EXCEPT ![j].status = "running", ![j].owner = w,
                        ![j].due = FALSE, ![j].attempt = @ + 1]
          /\ workers' = [workers EXCEPT ![w] = [IdleWorker EXCEPT !.pc = "copying", !.job = j]]
    /\ UNCHANGED <<sourceVars, lock, indexVars>>

ClaimFails(w) ==
    /\ At(w, "locked")
    /\ Leave(w)
    /\ UNCHANGED <<sourceVars, jobs, lock, indexVars>>

ReleaseCollectionLock(w) ==
    /\ At(w, "releasing")
    /\ lock' = IF lock = w THEN None ELSE lock
    /\ GoTo(w, "idle")
    /\ UNCHANGED <<sourceVars, jobs, indexVars>>

-----------------------------------------------------------------------------
(* _execute *)

\* The heartbeat thread: a renewal also revives a lease that ran out.
Heartbeat(w) ==
    /\ Executing(w) /\ ~workers[w].lost
    /\ \/ /\ Owned(w)
          /\ jobs' = [jobs EXCEPT ![workers[w].job].expired = FALSE]
          /\ UNCHANGED workers
       \/ /\ ~Owned(w)
          /\ workers' = [workers EXCEPT ![w].lost = TRUE]
          /\ UNCHANGED jobs
    /\ UNCHANGED <<sourceVars, lock, indexVars>>

\* A renewal that raises ends the heartbeat.
HeartbeatFails(w) ==
    /\ Executing(w) /\ ~workers[w].lost
    /\ workers' = [workers EXCEPT ![w].lost = TRUE]
    /\ UNCHANGED <<sourceVars, jobs, lock, indexVars>>

\* progress() returns: the row was updated for its owner.
Progresses(w) == ~workers[w].lost /\ Owned(w)

\* RefreshLeaseLostError: the job is left as it is.
LeaseLost(w) ==
    /\ workers[w].pc \in {"building", "verifying", "renewing"}
    /\ ~Progresses(w)
    /\ Leave(w)
    /\ UNCHANGED <<sourceVars, jobs, lock, indexVars>>

\* Any other exception, which makes the job wait for a retry.
Raises(w) ==
    /\ workers[w].pc \in {"copying", "building", "verifying", "renewing", "reporting"}
    /\ GoTo(w, "failing")
    /\ UNCHANGED <<sourceVars, jobs, lock, indexVars>>

\* The files of the manifest are checked and copied; one that is missing raises.
Copy(w) ==
    /\ At(w, "copying")
    /\ GoTo(w, IF jobs[workers[w].job].manifest \subseteq files THEN "building" ELSE "failing")
    /\ UNCHANGED <<sourceVars, jobs, lock, indexVars>>

\* Documents are parsed and cut; a document that cannot be, or an empty source,
\* ends in the report and nothing is written.
Build(w) ==
    /\ At(w, "building") /\ Progresses(w)
    /\ \/ GoTo(w, "writing") /\ jobs[workers[w].job].manifest # {}
       \/ workers' = [workers EXCEPT ![w].pc = "verifying", ![w].report = "error"]
    /\ UNCHANGED <<sourceVars, jobs, lock, indexVars>>

\* The last check before the write is inside the handler of write errors: what
\* it raises becomes an error of the report, a lost lease included.
CheckBeforeWrite(w) ==
    /\ At(w, "writing")
    /\ \/ GoTo(w, "embedding") /\ Progresses(w)
       \/ workers' = [workers EXCEPT ![w].pc = "verifying", ![w].report = "error",
                                     ![w].lost = @ \/ ~Owned(w)]
    /\ UNCHANGED <<sourceVars, jobs, lock, indexVars>>

\* replace_chunks after minutes of embedding: no check of lease or lock.  A
\* transaction whose commit is not heard of counts as an error.
Publish(w) ==
    /\ At(w, "embedding")
    /\ versions' = versions \union {workers[w].job}
    /\ index' = workers[w].job
    /\ \E report \in {"success", "error"} :
        workers' = [workers EXCEPT ![w].pc = "verifying", ![w].report = report]
    /\ UNCHANGED <<sourceVars, jobs, lock>>

PublishFails(w) ==
    /\ At(w, "embedding")
    /\ workers' = [workers EXCEPT ![w].pc = "verifying", ![w].report = "error"]
    /\ UNCHANGED <<sourceVars, jobs, lock, indexVars>>

Verify(w) ==
    /\ At(w, "verifying") /\ Progresses(w)
    /\ GoTo(w, "renewing")
    /\ UNCHANGED <<sourceVars, jobs, lock, indexVars>>

\* The renewal before completion.
Renew(w) ==
    /\ At(w, "renewing") /\ Progresses(w)
    /\ jobs' = [jobs EXCEPT ![workers[w].job].expired = FALSE]
    /\ GoTo(w, "reporting")
    /\ UNCHANGED <<sourceVars, lock, indexVars>>

Closed(row, status) == [row EXCEPT !.status = status, !.owner = None, !.expired = FALSE]

\* complete, or fail without a retry; the answer of a statement may be lost.
Report(w) ==
    /\ At(w, "reporting")
    /\ jobs' = IF Owned(w)
               THEN [jobs EXCEPT ![workers[w].job] = Closed(@, workers[w].report)] ELSE jobs
    /\ Leave(w) \/ GoTo(w, "failing")
    /\ UNCHANGED <<sourceVars, lock, indexVars>>

\* fail with a retry, while attempts are left; it may raise itself.
Fail(w) ==
    LET row == jobs[workers[w].job] IN
    /\ At(w, "failing")
    /\ \/ UNCHANGED jobs
       \/ /\ Owned(w)
          /\ jobs' = [jobs EXCEPT ![workers[w].job] =
                Closed(@, IF row.attempt < MaxAttempts THEN "queued" ELSE "error")]
    /\ Leave(w)
    /\ UNCHANGED <<sourceVars, lock, indexVars>>

-----------------------------------------------------------------------------
\* lease_seconds pass without a renewal.
LeaseExpires(j) ==
    /\ jobs[j].status = "running" /\ ~jobs[j].expired
    /\ jobs' = [jobs EXCEPT ![j].expired = TRUE]
    /\ UNCHANGED <<sourceVars, workers, lock, indexVars>>

\* retry_delay_seconds pass.
RetryFallsDue(j) ==
    /\ jobs[j].status = "queued" /\ ~jobs[j].due
    /\ jobs' = [jobs EXCEPT ![j].due = TRUE]
    /\ UNCHANGED <<sourceVars, workers, lock, indexVars>>

\* The database ends the session of the collection lock, e.g. by its restart;
\* the worker goes on with other connections of its pool.
LockSessionEnds(w) ==
    /\ lock = w
    /\ lock' = None
    /\ UNCHANGED <<sourceVars, jobs, workers, indexVars>>

\* A worker dies with its job and is started again under another id.
Crash(w) ==
    /\ Executing(w)
    /\ workers' = [workers EXCEPT ![w] = IdleWorker]
    /\ lock' = IF lock = w THEN None ELSE lock
    /\ UNCHANGED <<sourceVars, jobs, indexVars>>

-----------------------------------------------------------------------------
Init ==
    /\ files = {} /\ generation = {}
    /\ uploads = [d \in Docs |-> "new"]
    /\ source = None
    /\ jobs = [j \in Jobs |-> NoJob]
    /\ workers = [w \in Workers |-> IdleWorker]
    /\ lock = None
    /\ versions = {} /\ index = None

SourceNext ==
    \/ \E d \in Docs : Upload(d) \/ UploadCommits(d) \/ UploadFails(d) \/ Unlink(d)
    \/ \E j \in Jobs : Snapshot(j) \/ Enqueue(j) \/ EnqueueFails(j)

Works(w) ==
    \/ TryCollectionLock(w) \/ Claim(w) \/ ClaimFails(w) \/ ReleaseCollectionLock(w)
    \/ LeaseLost(w) \/ Raises(w)
    \/ Copy(w) \/ Build(w) \/ CheckBeforeWrite(w) \/ Publish(w) \/ PublishFails(w)
    \/ Verify(w) \/ Renew(w) \/ Report(w) \/ Fail(w)

TimePasses == \E j \in Jobs : LeaseExpires(j) \/ RetryFallsDue(j)

Next ==
    \/ SourceNext
    \/ \E w \in Workers : Works(w) \/ Heartbeat(w) \/ HeartbeatFails(w)
                            \/ LockSessionEnds(w) \/ Crash(w)
    \/ TimePasses

Spec == Init /\ [][Next]_vars

\* Workers are restarted and poll for ever, calls return or raise, time passes,
\* and the database does not refuse for ever to hand out a job.
FairSpec ==
    /\ Spec
    /\ \A w \in Workers : WF_vars(Works(w)) /\ SF_vars(Claim(w))
    /\ \A j \in Jobs : WF_vars(LeaseExpires(j)) /\ WF_vars(RetryFallsDue(j))

-----------------------------------------------------------------------------
(* Properties *)

TypeOK ==
    /\ files \subseteq Docs /\ generation \subseteq Docs
    /\ uploads \in [Docs -> {"new", "linked", "accepted", "failed", "withdrawn"}]
    /\ source \in Docs \union Jobs \union {None}
    /\ jobs \in [Jobs -> Job]
    /\ workers \in [Workers -> Worker]
    /\ lock \in Workers \union {None}
    /\ versions \subseteq Jobs
    /\ index \in versions \union {None}

\* A refresh sees every upload that was accepted before it was requested: the
\* snapshot of an enqueue and the generation it records cannot be torn apart by
\* an upload in between.
AcceptedUploadsSeen ==
    \A j \in Jobs : \A d \in jobs[j].generation :
        uploads[d] = "accepted" => d \in jobs[j].manifest

\* A job that reports success did publish its index, by one attempt or another.
SuccessIsPublished == \A j \in Jobs : jobs[j].status = "success" => j \in versions

\* A finished job stays as it is: no worker that lost it reopens or rewrites it.
FinishedIsFinal == [][\A j \in Jobs : Finished(j) => jobs'[j] = jobs[j]]_vars

\* What a job says is so, of the uploads it was asked to cover and of its index, and
\* stays so (knowledge_base_service.py:79-172, refresh_worker.py:60-135).
JobsAreHonest == [](AcceptedUploadsSeen /\ SuccessIsPublished) /\ FinishedIsFinal

\* Nobody takes a job from a worker that renews its lease in time.
LeaseRespected ==
    [][\A j \in Jobs : \A w \in Workers :
        jobs[j].owner = w /\ jobs'[j].owner # w =>
            jobs[j].expired \/ workers[w].pc \in {"reporting", "failing"}]_vars

\* Every refresh that was accepted ends, in success or with an error, whatever
\* crashes, expires or is retried.
JobsFinish == \A j \in Jobs : Active(j) ~> Finished(j)

\* "A stale owner cannot commit its results": whoever publishes an index owns
\* the running job that it was built for.
StaleOwnersPublishNothing ==
    [][\A w \in Workers : workers[w].pc = "embedding" /\ versions' # versions
                            /\ workers'[w].pc = "verifying" => Owned(w)]_vars
=============================================================================
