# Hommey: a verification development

Hommey plans business trips and answers questions about travel rules. A Spring
Boot service owns accounts, sessions and trips; a Python AI service runs the
agent turns; PostgreSQL and Redis are shared by several processes of each. This
directory holds TLA+ models of the parts of it that are hard to test, the TLC
configurations that check the models on small instances, and TLAPS proofs for
every instance. Paths below are relative to `src/` unless they start with it.

1. [Inventory](#1-inventory)
2. [Plan](#2-plan)
3. [The models](#3-the-models)
4. [The runs](#4-the-runs)
5. [Fairness](#5-fairness)
6. [The proofs](#6-the-proofs)
7. [Disagreements between code and documents](#7-disagreements-between-code-and-documents)
8. [What is not modelled](#8-what-is-not-modelled)

## 1. Inventory

### Parts, their state and their operations

| Part | Code | State | Operations | Module |
|---|---|---|---|---|
| Run store | `agent_runtime/store.py` | table `supervisor_runs`: one row per request with owner, status, cancel flag, checkpoint, retention | begin, check, save, stop, cancel, previous, expiry of old rows | `RunFence` |
| Turn execution | `agent_runtime/engine.py` | `Turn`: the state of one attempt, its durable results, its calls | load context, loop of model rounds, delegate to specialists, apply changes, checkpoint, monitor, finish, fall back, stop | `TurnPlan`, `AgentLoop`, `RunFence` |
| Context of a model | `agent_runtime/context_window.py` | none of its own; reads the messages and the checkpoints | history, window, compaction of tool results | `ContextWindow` |
| Execution plan | `agent_runtime/execution_plan.py` | steps and their states inside the turn's state | register, transition, complete, settle, resume | `TurnPlan`, `StepLedger` |
| Business mutation service | `backend/.../agent/MutationService.java`, `ai_service/business.py` | `business_operation_receipts`, `active_trip_contexts`, preferences | apply (one transaction), and the client that posts it and posts it again after a timeout | `RunFence` |
| Session tables | `backend/.../session/SessionRepository.java` | sessions, messages, trips, confirmations | require, append, list, delete, clear history | `SessionTables` |
| Session coordination | `webui_new/manager.py`, `utils/redis_coordination.py` | locks of each process; session, history and user leases, an activity set and a semaphore in Redis | enter a scope, acquire, renew by heartbeat, release, take a slot | `SessionCoordination` |
| Conversation of the monolith | `webui_new/manager.py`, `context/memory_repository.py`, `context/async_memory.py` | messages of a session, cards and documents, the stream of a request | validate, ask, replay, complete, answer, emit, cancel, read, delete | `Conversation` |
| Trip options | `agent_runtime/trip_options.py`, `core/integrations/places/amap.py`, `.../trains` | budget of calls, caches, coroutines under deadlines, the board | look up trains, hotels, origin, weather, commute; retry; report | `TripOptions` |
| Trip intake | `core/trip_intake.py`, `agent_runtime/validation.py`, `trip_intake_document.py` | the known fields of a trip | gate and merge of changes, the card that asks for the rest | `TripIntake` |
| Settings | `core/onboarding.py`, `context/user_profile_repository.py` | preferences, personal profile with a revision | onboarding answer, brands of a turn, settings page | `Profile` |
| RAG refresh jobs | `rag/refresh_jobs.py`, `rag/refresh_worker.py`, `webui_new/knowledge_base_service.py` | `rag_refresh_jobs`, `rag_source_generations`, the documents directory, two advisory locks | upload, enqueue, claim, recover, renew, progress, complete, fail | `RefreshJobs` |
| Knowledge base of one process | `webui_new/knowledge_base_service.py` without the control plane | a job in memory, two locks, the directory, the manifest | upload, refresh, library | `KnowledgeBase` |
| RAG chunking | `rag/chunker.py`, `rag/block_parser.py` | heading stack of a file | blocks to chunks | `Chunker` |
| RAG index and retrieval | `rag/postgres_vector_store.py`, `rag/embedder.py`, `rag/pipeline.py`, `rag/ocr.py` | `rag_index_versions`, chunks, cache of embeddings, BM25 index of a process | ingest, replace the active index, incremental changes, search, read pages | `VectorIndex`, `Extraction` |
| Attachments | `multimodal/*` | uploaded files with expiry, their objects and texts, a quota of the day | upload, extract, bind to a message, delete, expire | `Attachments`, `Extraction` |
| Accounts | `backend/.../auth` | users, invitations, e-mail codes, counters | request a code, register, log in | `Registration` |
| Evaluation | `evaluation/*` | outbox `evaluation_runs`, a bounded sink | capture, write, claim, recover, complete, reconcile | `Evaluation` |
| Blocking I/O | `utils/io_executor.py` | a pool of threads, a semaphore | run a blocking call for an awaiting task | `IoExecutor` |
| Circuit breaker | end of `utils/redis_coordination.py` | state, counter, probe of each upstream | allow, success, failure; called by tests only | none |
| Routes, gateway, page | `webui_new/routes`, `ai_service/server.py`, `backend/.../agent/ChatController.java`, `webui_new/static` | none that lasts | marshalling, authentication, streams and their cancellation | none |

### How they meet

    browser ──HTTP/SSE──> ChatController ──stream (150 s)──> ai_service/server
                                                                   │
                     _coordination_scope (manager) <───────────────┤
                        │  Lua scripts                             ▼
                        ▼                                      Supervisor / Turn ──> sink ──> evaluation_runs <── evaluators
                      Redis                                    │          │
                                    run_blocking (threads) ────┘          │ POST, again on timeout
                                        ▼                                 ▼
                              supervisor_runs  <───SELECT FOR UPDATE── MutationService.apply
                              (PostgreSQL)                        trips, receipts
    admin ──> KnowledgeBaseManagementService ──> rag_refresh_jobs <── refresh workers ──> index

Two facts carry the design. First, everything that excludes by time (Redis
leases, job leases) can be wrong: its holder may be paused and go on after the
lease has gone. Second, what must never be wrong is fenced in the database: the
`owner` column of a run, `lease_owner` of a job, the receipts of mutations, the
content version of a trip. The models keep both layers and the gap between them.

### What is hard

- A task that is cancelled leaves its database thread running (`run_blocking`
  shields it), so a save can land after its attempt is over, or after a later
  save of the same attempt; its place in the pool is taken until it returns.
- A mutation that timed out is posted again while the first copy is executed.
- A process dies between the business commit and the checkpoint that records it,
  or between a tool call and the checkpoint that has its output.
- A request is retried by its client while another process still runs it, or
  after a later message of the session has replaced it, or after the session was
  deleted, or after its row passed the retention of 14 days.
- A card is validated long before its submission is stored.
- The user clears the history in one process while turns run in others.
- A Redis script runs and its answer is lost; a heartbeat is late; a scope
  releases a lease another scope holds by now.
- A refresh worker loses its advisory lock (with its database session) and its
  lease (by time) independently, minutes before it publishes.
- An upload and the snapshot of a refresh interleave; so do the two readings of
  the directory in one refresh.
- Threads share a BM25 index that they rebuild when the collection has changed.
- Several lookups under one deadline and one budget, of which some fail.
- A code is used up by a registration that is rolled back.

PROJECT.json lists these as hazards, each at its line and with the properties that
would catch it.

### What makes each part correct

| Part | Properties |
|---|---|
| Runs and mutations | one running run per session, the youngest, and nothing twice (`RunsAreSound`); only the newest commits, and nothing that a deletion has found (`NewestCommits`); no conflict with itself (`ReplayMatches`); what a checkpoint calls saved was committed (`ClaimsAreCommitted`); one answer per request (`OneAnswer`); together: one ledger of changes (`ImplementsLedger`) |
| Plan of a turn | the plan shown of a request that has ended has no active step, whether the attempt settled it or a newer request fenced it (`EndedIsSettled`); a saved change is committed (`SavedIsCommitted`); steps end once, and only cancelled ones are reopened (`ImplementsLedger` of `TurnPlan`); every attempt ends (`TurnEnds`) |
| Specialist | a lookup is not sent twice unless its answer was lost (`LookupsAreSentOnce`) |
| Context of a model | calls with their results, requests once and in order, nothing of an expired question, nothing unread cleared (`ContextIsWhole`) |
| Coordination | work on time never overlaps, history and session leases exclude one another whatever the delays (`ScopesExclude`); nobody waits for ever (`ScopesEnd`) |
| Session tables | one run of a session at a time, deleted sessions are silent, answers are those of completed runs (`RequestsAreSound`); no message twice or unnumbered (`TranscriptIsDense`); locks in a circle only between two deletions (`OnlyDeletionsDeadlock`) |
| Conversation | a client told "done" has the answer that is stored (`DoneIsStored`); a card is answered at most once, in its turn (`CardsAreAnsweredInTurn`); deleted stays empty (`DeletedStaysEmpty`) |
| Trip and settings | what is stored of a trip can be planned with or completed (`TripCanBePlanned`); a save replaces what its author has read (`SavesKeepOthers`) |
| Trip options | the board says of each part what its own providers said, and only the end of the budget or of the deadline drops what a part has found (`BoardIsHonest`) |
| Refresh jobs | a refresh covers what was accepted before it, success means published, finished is final (`JobsAreHonest`); every accepted refresh ends (`JobsFinish`) |
| Knowledge base of one process | what is listed as indexed can be found, success covers what was asked (`ListedIsIndexed`) |
| Chunks and index | chunks are the page, in order and in their sections (`ChunksAreThePage`); what was ingested is searchable and searched (`IndexIsServed`); a page is told as it is or as an error (`PagesAreTold`) |
| Attachments | ready means readable and stored (`ReadyIsWhole`); no answer without a text it was to see (`AnswersSawTexts`); the quota (`QuotaHolds`) |
| Accounts | an account costs one invitation and one code (`AccountsArePaid`) |
| Evaluation | the last claim writes, verdicts are honest (`EvaluationsAreSound`); every run ends (`EvaluationsEnd`) |
| Blocking I/O | a permit for each call a thread runs or will run (`PermitsMatchCalls`) |

## 2. Plan

In order of what matters most to a user: their trips and answers first, then who
may run at the same time, then the knowledge base, then the rest.

| Step | Modules | Proofs | State |
|---|---|---|---|
| 1 | `RunFence`, `TripLedger` (abstract), `RunLedger` (refinement) | `RunFenceProofs` | proved |
| 2 | `SessionCoordination` | `SessionCoordinationProofs` | safety proved |
| 3 | `RefreshJobs`, `Evaluation` | `RefreshJobsProofs` | safety proved |
| 4 | `SessionTables`, `Profile` | `SessionTablesProofs` | proved |
| 5 | `TurnPlan` over `StepLedger` (abstract) | `TurnPlanProofs` | safety proved |
| 6 | `IoExecutor`, `AgentLoop`, `Attachments`, `Registration`, `TripOptions` | `PartsProofs` | proved |
| 7 | `Conversation`, `VectorIndex`, `Extraction`, `KnowledgeBase`, `TripIntake` | `MonolithProofs` | proved |
| 8 | `ContextWindow` | `MonolithProofs`, on the lemmas of `SequenceFacts` | proved |
| 9 | `Chunker` | `PartsProofs`, on the lemmas of `SequenceFacts` | proved |
| 10 | `TurnCoordination`: a turn under its scope, with a lease that is lost inside `_begin` | | planned |

How the modules are composed for checking: parts that share no state are checked in
one run, whose MC module has a variable `part`, chosen in the first state, that says
which of them moves. The properties of each part speak of its own variables only, so
that the run checks each part by itself. The proofs are about the specification of
each part, not about the composition.

## 3. The models

Every module names the code it stands for in its header; PROJECT.json maps each
definition to its lines. All take sets of model values as parameters, have one
action per operation and state their assumptions in a named `ASSUME`.

### RunFence, TripLedger, RunLedger

*State.* `runs` is the table, by request: session, hash of the input, owner,
cancel flag, position in `created_at` (`born`), status and checkpoint. `expired`
holds the rows past their retention, `open` the sessions that exist, `trips` the
active trips, `receipts` the committed operations, `attempts` the `Turn` objects.
What is under way is state of its own: `writes` are UPDATEs of a run that a
thread will execute, `posts` are mutation requests on the wire. Nothing makes
them arrive in order or at all. `applying` is the mutation whose transaction has
passed the fence, `deleting` how far the deletion of each session has come and which runs
it has found.

*Abstractions.* A trip is the set of facts merged into it and is its own version,
as `trip_version` is a hash of the content. A checkpoint is reduced to whether it
can be resumed (`form`), its trip version, the results it has (`made`), the
version each was based on (`base`) and the results it calls applied. The statuses
`interrupted` and `failed` are one, `stopped`; they differ on display only.

| Action | Code |
|---|---|
| `Begin`, `Replay` | `RunStore._begin`: expiry, insert, `SELECT ... FOR UPDATE`, refusal of a replaced request, interruption of the other runs, the new owner |
| `LoadContext`, `LoadFails` | `Turn.execute` until the first checkpoint |
| `Produce`, `Save` | a specialist's result and its checkpoint; any other checkpoint |
| `Reuse`, `Submit` | `apply_changes`: in the trip already, or posted up to `Copies` times by `BusinessClient.call` |
| `Check`, `Finish`, `Abort`, `Crash` | the monitor; the answer; cancellation, timeout, error; death of the process |
| `Land`, `Refuse` | `_save` and `_stop` executed by the database, with their WHERE clause |
| `ReturnReceipt`, `RejectStopped`, `RejectConflict` | `MutationService.apply` that ends at its fence |
| `Enter`, `Commit`, `RejectVersion` | `MutationService.apply` up to the fence it passes, and from the lock of the trip to the commit |
| `DeleteRuns`, `DeleteTrip`, `CommitDelete` | `SessionRepository.delete`: what each statement finds, and the commit that shows it |
| `Cancel`, `RetentionElapses` | interruption by the user; the clock |

*Transactions.* A change and a deletion are split where other transactions may come in
between and the order matters. What they have locked is `Held` (rows of runs) or
`TripHeld`, and whoever writes such a row waits: `Begin` and `Replay` (`Selectable`),
`Land`, `Cancel`, and the two against each other. Nothing holds a trip that does not
exist yet, nor a run that is inserted after the deletion has looked. `_begin` is one
step, as are the reads of a change up to its fence; `SessionTables` takes these
statement by statement, and has the begin that waits for a deletion and goes on
after it. `Deletable` bounds which sessions are deleted.

`TripLedger` is what this promises with attempts, messages and crashes hidden: a
session has at most one writer, a writer makes each change once, who was
answered writes no more. A deletion first finds requests (`fenced`), which make no change
from then on, and then closes the session; a change of a writer granted in between may
still come, once (`late`). `RunLedger` gives the refinement: the writer of a
session is its running, uncancelled run; the ledger is the receipts.

### TurnPlan, StepLedger

*State.* `turn` is the state of the attempt in its worker: round, calls of the round,
the public plan (`step`, by task) and the ledger of results. `disk` is the last
checkpoint, `status` the column beside it and `shown` the status of the public plan in
it, `co` the coroutine of each
call, `posts`, `receipts` and `trip` the mutations on their way and what they
committed.

*Abstractions.* What a model answers is a choice: any set of calls within the
limits. A task is one of a few names with a role and with tasks it needs. The code
between two awaits is one step and ends with the save it makes there. The attempts
of a request follow one another, and `RunFence` has those that overlap. The beginning
of a newer request fences the one modelled, `Supersede`: its row is "interrupted" in
the code and "superseded" here, no save of its attempt is taken any more, its stop
writes nothing, and the plan in its row keeps the active steps it had; `PublicPlan` is
what `_public_plans` makes of it. Inherited results of an earlier request and the
direct entrance for a completed trip are left out.

| Action | Code |
|---|---|
| `Begin`, `Degrade`, `StopTurn`, `Crash` | `Turn.execute` with its fallback and `stop`; death of the worker |
| `Supersede`, `PublicPlan` | `_begin` of a newer request; the plan that is read of a run |
| `RegisterForm`, `StartForm`, `FormApplied` | the entrance of a submitted form |
| `RegisterRoutes`, `AnswerRoutes`, `RouteRefused` | the entrance of a request whose deliverables are known, `direct_queries` |
| `ChooseBatch`, `EndRound`, `AskUser`, `Answer`, `Turned` | the rounds, `call_tools` and the final answer |
| `StartStep`, `StartRefused`, `ResumeChild`, `Report` | `_delegate` with its dependencies and role locks |
| `Delegate`, `Propose`, `ChangeApplied`, `ChangeRejected`, `Commit`, `Reject` | the change a specialist proposes, and its transaction |

`StepLedger` is the public life of a step: registered, started, ended once; only a
cancelled one is reopened, once. `TurnPlan` implements it with the plan on `disk`.

### SessionCoordination

*State.* `scopes` are the local variables of each call of `_coordination_scope`, by
its token: where it is, what it is for, `lost` (the event `lock_lost`), `beat`
(ticks since its last renewal) and whether it remembers a slot. `local` are the
asyncio locks of each process, `keys` the string keys of Redis with the ticks
they have left, `activity` and `slots` its sorted sets.

*Abstractions.* Time is a number of ticks; a lease has `TTL` of them, a heartbeat
is due after `Interval`. A scope is *on time* while its last renewal is at most
`Interval + Late` ticks old; a process may pause for longer, and its scopes go on
working, renew and release as if nothing had happened. The deployed values are
45 s and 12 s. The assumption `Interval + Late < TTL` is what the code relies on.
Deadlines of waits are not counted: a wait may be given up at each retry. The queue
of the user lock is fair in that nobody passes those who wait; its order inside the
queue is not kept.

| Action | Code |
|---|---|
| `Enter`, `Dequeue`, `LeaveQueue` | the local lock, refused when busy or awaited (settings) |
| `Lock`, `LockRefused`, `LockUnknown` | the acquire scripts: granted, refused, answered by an error that says nothing of the script |
| `TakeSlot`, `AwaitSlot`, `NoSlot` | the semaphore, its retry and its refusals |
| `Renew`, `LoseLock` | one round of the heartbeat: both renewals succeed, or one does not |
| `Leave`, `FreeSlot`, `Unlock`, `CancelRelease` | the end of the work and the chain of releases, or a cancellation inside it |
| `ProcessDies`, `Tick` | death of a process; the clock of Redis and of the heartbeats |

### RefreshJobs

*State.* `files` and `generation` (documents on disk and documents counted),
`uploads` and `source` (the advisory lock of the sources), `jobs`, `workers` (the
local variables of `run_once` and `_execute`), `lock` (advisory lock of the
collection), `versions` and `index` (what was published).

*Abstractions.* A lease is current or expired and may expire at any moment. A
retry is due or not. Parsing and embedding are single steps that succeed or do
not. An upload whose process dies is one that stays in `failed` and never
takes `Unlink`. A worker that dies before it has claimed, or after it has left its
job, looks like one whose claim failed, followed by the release of the lock.

| Action | Code |
|---|---|
| `Upload`, `UploadCommits`, `UploadFails`, `Unlink` | `KnowledgeBaseManagementService.upload` over `run_source_change` |
| `Snapshot`, `Enqueue`, `EnqueueFails` | the transaction of `enqueue` before and after its snapshot, and its rollback |
| `TryCollectionLock`, `Claim`, `ClaimFails`, `ReleaseCollectionLock` | `run_once`; `claim` recovers expired jobs first |
| `Heartbeat`, `HeartbeatFails`, `LeaseLost` | the renewal thread and `progress()` |
| `Copy`, `Build`, `CheckBeforeWrite`, `Publish`, `PublishFails`, `Verify` | `_execute` and `RAGPipeline.ingest`, with the error handler around the write |
| `Renew`, `Report`, `Fail`, `Raises` | completion, failure, retry |
| `LeaseExpires`, `RetryFallsDue`, `LockSessionEnds`, `Crash` | time and failures |

### SessionTables

*State.* The tables of a session as they are committed (`sessions`, `messages`,
`runs`, `trips`), `locks` on their rows, and `actors`: the transaction each turn or
deletion is in, by the statement it executes next, with the rows it has still to
lock (`todo`) and has locked to change (`touched`). What a transaction wrote
appears at its commit; a begin that has inserted its row remembers so.

*Abstractions.* A statement that reads rows and locks them is two steps: it finds the
rows that are committed, then locks them one by one in any order and looks at each
again. The row of a session is locked or not: the shared locks of foreign keys are
left out, which only an append waits for, and it holds nothing while it waits. The
advisory lock of `apply` and its receipt lookup are left out too, as they serialise
the commits of one user. A session is open or deleted. Counters of the user and
contents are not modelled. One turn of a session begins at a time (`Leased`): the
code says it relies on that lease.

| Action | Code |
|---|---|
| `Ask` | a turn starts, or starts again, in `_process_message_impl` |
| `LockSession`, `Write` | `SessionRepository.append` for the message, later for the answer |
| `Insert`, `Select`, `Newer`, `FindOthers`, `LockOther`, `TakeOver` | the statements of `RunStore._begin` and its commit |
| `Apply`, `RequireOpen`, `LockTrip`, `SaveTrip` | the statements of `MutationService.apply` |
| `Complete` | the `_save` that completes the run |
| `Delete`, `Check`, `FindRuns`, `LockRun`, `StopRuns`, `Close`, `DeleteTrip`, `CommitDelete` | the statements of `SessionRepository.delete` |
| `Abort` | a process dies or a call times out: rollback |

`RunFence` takes a begin for one step and has the attempts, the messages and the content
of the trips instead; `OneRunning` shows that the one step loses nothing for the runs of
a session. In both modules a run begun between two statements of a deletion may leave a
trip in the deleted session (finding 5).

### The other parts

| Module | Stands for | State in short | Actions | Left out |
|---|---|---|---|---|
| `AgentLoop` | the loop of one specialist, `engine.py` | messages, the ledger of calls, what is saved; ghosts count what was sent and lost | `EnterLoop`, `AskModel`, `TakeCalls`, `NoCalls`, `SendLookup`, `LookupAnswers`, `LookupIsRejected`, `AnswerCall`, `CloseBatch`, `ResumeBatch`, `GiveUp`, `Interrupted`, `SavedWithTurn`, `WorkerDies` | what lookups answer |
| `ContextWindow` | `context_window.py` | stored messages, expired rows, the checkpoint of each request | `BeginTurn`, `RetryTurn`, `CallTools`, `TakeResults`, `ReplyText`, `StoreAnswer`, `StopTurn`, `ExpireRow` | how cards and snapshots are written; the path for old callers that include the current message |
| `Conversation` | `manager.py`, `memory_repository.py`, the stream of a request | session and lease, transcript, runs, replies, the last attempt of each request, the screen of its client | `Enter`, `Validate`, `NothingToValidate`, `Normalize`, `Ask`, `AskAgain`, `Replay`, `Complete`, `RunFails`, `Interrupted`, `Answer`, `AnswerAgain`, `Emit`, `EmitInterrupted`, `Cancel`, `WorkerDies`, `Expire`, `ReadSession`, `DeleteMessages`, `CloseDeleted`, `DeleteDies` | lost leases (`SessionCoordination` has them), titles |
| `Profile` | `onboarding.py`, preferences, the settings page | brands, the user lease, what each writer has read, the profile with its revision | `AnswerComes`, `AnswerEnters`, `AnswerTimesOut`, `AnswerReads`, `AnswerWrites`, `AnswerFails`, `LeaseLapses`, `TurnStarts`, `TurnReadsProfile`, `TurnReadsBrands`, `TurnWrites`, `OpenPage`, `WriteProfile` | fields but one list and the profile |
| `TripIntake` | `trip_intake.py`, `validation.py`, the intake form | the fields of a trip that are known; the home city | `UpdateTrip`, `NewTrip`, `CancelTrip`, `SubmitForm`, `MoveHome` | recognition of words; an agent and a form in one turn |
| `TripOptions` | `trip_options.py`, `amap.py`, `trains.py`, the budget | lookups, caches, coroutines, the board | each lookup `Hit`, `Reply`, `Lost`, `Refused`, `Over`; trains from `TrainsBegin` to `TrainsEnd`; hotels, origin, weather and commute ask and end; `Deadline` | ranking and cuts; a request and its answer are one step |
| `VectorIndex` | `postgres_vector_store.py`, `embedder.py`, `hybrid.py` | the active version, rows and counts of each, cache, BM25 index | `Load`, `CheckActive`, `Embed`, `EmbedCached`, `EmbedFails`, `Publish`, `Insert`, `IngestDies`, `ReadRevision`, `UseSparse`, `LockSparse`, `BuildSparse` | scores; one collection |
| `Extraction` | `quota.py`, `multimodal/service.py`, `ocr.py`, `pipeline.py` | counters, the file each process reads page by page, chunks; ghosts count what was granted and paid | `TakeMetered`, `ConsumeShared`, `ConsumeLocal`, `CallAgain`, `MediaEnds`, `TakePdf`, `RenderPage`, `PageRead`, `PageFails`, `Collect`, `Restart` | the change of day |
| `Chunker` | `chunker.py`, `block_parser.py` | blocks of a page, heading stack, section carried over, chunks | `ChunkPage`, for one page after another | texts: a block has a number and a length |
| `KnowledgeBase` | `knowledge_base_service.py` in one process | uploads, directory, lock, refresh, index, manifest | `UploadEnters`, `UploadRefused`, `UploadPublished`, `StartRefresh`, `LoadSources`, `PublishIndex`, `WriteManifest`, `RefreshSucceeds`, `RefreshFails`, `ProcessRestarts` | several processes (`RefreshJobs` has them) |
| `Attachments` | `multimodal/service.py` and its repository | objects, rows, texts, chat requests, messages | `SaveObject`, `CreateRow`, `CreateFails`, `ParseFails`, `Complete`, `CompleteFails`, `PersistFailed`, `UploadDies`, `DeleteRow`, `DeleteObject`, `Expires`, `Normalize`, `ReadText`, `AppendMessage`, `BindingFails` | validation of types and sizes |
| `Registration` | `backend/.../auth` | cooldown, code and counter in Redis, mailboxes, transactions, accounts, invitations | `Decline`, `StartCooldown`, `StoreCode`, `ResetAttempts`, `SendMail`, `MailerFails`, `CheckInvite`, `VerifyCode`, `CreateUser`, `ConsumeInvite`, `CommitUser`, `RollBack`, `CooldownEnds`, `CodeExpires` | passwords and tokens |
| `Evaluation` | `evaluation/*` | the queue of the sink, inserts in threads, snapshots, rows with lease and attempts | the steps of a chat turn, of the writer and of the reconciler (`ChatNext`); of an evaluator (`Step`), `EvaluatorDies`, `RunExpires` | texts: an answer is the set of what the rules look for in it; scores |
| `IoExecutor` | `io_executor.py` | calls, callers, queue of the pool, permits | `RunBlocking`, `RefuseCall`, `CancelCaller`, `CallReturns`, `TakeJob` | what the calls do |

## 4. The runs

Deadlock is checked in `SessionTables_statements` and `SessionCoordination_releases`. In
the others the system does rest: when every request is answered or no job is left.
Symmetry is used where no liveness is checked, over sets whose elements no definition
tells apart.

| Run | Instance | Checks | Shows |
|---|---|---|---|
| `RunFence_newest` | 1 session, which may be deleted, 2 requests, 2 attempts, 1 update, 2 copies of each POST | `RunsAreSound`, `NewestCommits`, `ImplementsLedger` | only the newest request runs and commits, and none that a deletion has found; the whole is one ledger |
| `RunFence_changes` | 1 request, 2 attempts, 2 operations with the same fact, 2 saves in flight, retention | `ReplayMatches`, `ClaimsAreCommitted`, `OneAnswer` | resends match their receipts, nothing is claimed without a commit; every client of a request gets one answer |
| `RunFence_retryable` | 1 request, 2 attempts | `RetryFindsTranscript` (violated) | finding 1 |
| `RunFence_deleted` | 1 request, 1 attempt, 1 deletion | `ClosedHasNoTrip` (violated) | finding 5 |
| `Turns` | 3 tasks, one of which needs another, 2 attempts, 2 rounds; 2 processes, 1 session, 2 scopes of all four kinds, 1 slot, TTL 3 | `TypeOK`, `EndedIsSettled`, `SavedIsCommitted`, `ScopesExclude`, `ImplementsLedger`, `TurnEnds`, `ScopesEnd` | steps end once; an ended plan is shown settled, fenced or not; saved changes are committed; no attempt hangs on itself. Work on time excludes, Redis excludes whatever the delays, nobody waits for ever |
| `TurnPlan_delivered` | the tasks alone | `DeliveredIsSucceeded` (violated) | finding 4 |
| `SessionCoordination_releases` | 1 process, 1 session, 2 turns | `LocalLockReleased` (violated) | finding 2 |
| `RefreshJobs_jobs` | 2 workers, 1 refresh, 1 upload, 2 attempts; 2 turns, 2 evaluators, 2 attempts | `JobsAreHonest`, `JobsFinish`, `EvaluationsEnd` | jobs keep sound books; both queues of jobs end |
| `RefreshJobs_stale` | the refresh alone | `StaleOwnersPublishNothing` (violated) | finding 3 |
| `SessionTables_statements` | 1 session, 2 requests, 2 turns, 3 begins, 1 deletion at a time, or 2 begins, one after the other, and 2 deletions; 1 turn and 2 answers, or 1 turn and 2 pages at 3 revisions, over the settings; a trip of 2 cities and 3 days | `StoredTypes`, `RequestsAreSound`, `TranscriptIsDense`, `OnlyDeletionsDeadlock`, `TripCanBePlanned`, `SavesKeepOthers` | what is stored of a user, statement by statement; two deletions of one session can wait for each other, and nobody else waits in a circle |
| `Parts` | 2 files and 1 request; 2 registrations, 2 mailers, 1 invitation; pages of headings, prose, tables and code; 4 calls; 2 lookups over 2 attempts; 2 pairs of stations; 1 evaluated turn with each of 1,151 answers, 2 evaluators, 2 attempts | `TypeOK`, `ReadyIsWhole`, `AnswersSawTexts`, `AccountsArePaid`, `ChunksAreThePage`, `PermitsMatchCalls`, `LookupsAreSentOnce`, `BoardIsHonest`, `EvaluationsAreSound` | seven parts, each with its own races and faults |
| `Monolith` | 3 requests in 4 attempts, 1 file; 3 messages; 2 ingestions, 2 searches; 2 images and 1 PDF of 2 pages over 2 workers; 3 uploads | `TypeOK`, `DoneIsStored`, `CardsAreAnsweredInTurn`, `ContextIsWhole`, `QuotaHolds`, `PagesAreTold`, `ListedIsIndexed`, `DeletedStaysEmpty`, `IndexIsServed` | five parts of the monolith; 2,419,459 states |

`RunsAreSound` is `OnlyNewestRuns /\ OneReceipt`; `ScopesExclude` is `WorkExcludes /\
HistoryExcludes`; `JobsAreHonest` joins `AcceptedUploadsSeen`, `SuccessIsPublished`
and `FinishedIsFinal`; `RequestsAreSound` is `OneRunning /\ DeletedIsSilent /\
AnswersAreReal`. Properties that are proved and follow the same steps
(`CompletedIsFinal`, `TurnsBounded`, `SlotsBounded`,
`OwnReleaseOnly`, `LeaseRespected`, the type invariants of the first modules) need no
run of their own.

Why these bounds are enough to be interesting:

- Two requests in a session are what `OnlyNewestRuns` needs to fail; the second copy
  of a POST and the second attempt are what `OneReceipt` and `OneAnswer` need.
- One deletion beside two attempts puts its statements before, between and after the fence
  and the write of a change. With retention as well the run would be too large, so
  `RunFence_newest` has the first and `RunFence_changes` the second; the proofs have both.
- `MaxSaves = 2` lets a save of a cancelled task land after a later save, the order
  `ClaimsAreCommitted` is about. Two operations with one fact let a change be in
  the trip before it is submitted.
- Two scopes of all kinds over two processes let a clear meet a turn, and a scope
  take what a paused one lost. `TTL = 3, Interval = 1, Late = 1` is the smallest
  instance of the assumption in which a heartbeat can be late at all.
- Two workers and two attempts let a job be recovered, retried and completed by one
  while the other still works on it. One upload falls before, inside and after the
  transaction of the refresh.
- Two turns and three begins let a request be retried after a newer one, or after it
  was completed, while the other turn is at any statement. A second deletion makes
  that too large: beside two deletions turns follow one another and begin twice, enough
  for two rows that the deletions lock in opposite orders.
- Answers write the preferences and pages the profile, and a turn reads both, so each of
  the two pairs is explored without the other.
- Two attempts (`MaxOwners`) are a death and a takeover; a third adds an attempt that
  finds what the second found.
- Three requests in four attempts put a card, a newer message and a retry in every
  order. A cancellation comes once per attempt.
- `MaxExternal` and `MaxPerType` are below what all lookups need, so that the budget
  ends in each of them; `Flaky` and `Known` name lookups that are tried again or cached.
- Loads stop at `MaxCommits`, as stamps are numbers; three are one commit
  between two reads of a search, before and after a rebuild of its index.
- One day and one user are enough for the quota, as nothing is shared between them.

Each property is guarded by a mutation of the code's logic (`mutants` in PROJECT.json:
a dropped fence, a lock that ignores the history, a lease that never expires) that
the same run must find.

## 5. Fairness

*SessionCoordination.* Weak fairness of `Tick` (Redis expires keys), of `Goes(p)`
(every wait of a scope has a deadline, every call returns or raises) and of
`Beats(p)` (the timers of a live process run). New scopes need not come, and
`AwaitSlot`, the retry, is not fair.

*TurnPlan.* Weak fairness of `Segment`, the code between two awaits, which the event
loop runs, and of `Replies`, since every call to a model, a specialist or the
business service returns or times out. The timeout of the whole turn is not assumed:
`TurnEnds` shows that no attempt hangs on its own locks and dependencies without it.
The attempt of a superseded request is among the segments: its next save raises, and
`monitor` reads the row every half second.

*RefreshJobs.* Weak fairness of `Works(w)`: workers poll for ever and are restarted
by their supervisor. Strong fairness of `Claim(w)`: without it the model could let
every claim fail, which is a database that never answers. Weak fairness of the two
timers. A lease can be revived by `Heartbeat`, which is why `LeaseExpires` alone is
no promise that a job is recovered.

*Evaluation.* Weak fairness of `Step(w)` of each evaluator (one is always left) and of
`RunExpires(r)`, the clock.

The other specifications have no fairness: their properties are about safety.

## 6. The proofs

All theorems hold for every value of the constants that the named assumption of each
module admits (`FenceAssumption`, `CoordinationAssumption`, `RefreshAssumption`,
`TablesAssumption` and so on), which TLC evaluates in the runs. The assumptions say
what kind of thing a constant is and what the code guarantees of it: a lease is longer
than a heartbeat may be late, a limit is a number, the mailers are finitely many, at
most two preferred brands are looked up (`places/amap.py:133`). The theorems are about
specifications without fairness.

Each proof has an inductive invariant: the property and what else must be known for a
step to preserve it. TLC has checked these invariants on instances before they were
proved. Their parts are named in the module, with a comment that says what each is
about. The list below gives what they add and why it is needed.

### RunFenceProofs

`IInv == TypeOK /\ Assigned /\ InFlight /\ Ordered /\ OnlyNewestRuns /\ Fences`.

`OnlyNewestRuns` alone is not inductive: `_begin` refuses a replaced request by
comparing `created_at`, which decides only if the rows of a session are strictly
ordered (`Ordered`: `born` lies in `1..clock` and no two rows share it). `Land` and
`Commit` go through `attempts[o].req`, so what is in flight must come from an attempt
that has a request (`Assigned`, `InFlight`). Every action but `Begin` only makes rows
vanish or leave `running` (`Shrinks`), which preserves the order; `Begin` is the one
case with an argument.

`Fences` carries what a transaction has found to its later statements. At most one
mutation is past its fence, by the user's advisory lock; as long as it is, its run is
its attempt's, running, not cancelled, not yet receipted and not among the runs that a
deletion has found (`Entered`), since every step that would change the row waits for it
(`HeldRowsStay`). What a deletion has found is of its session until it commits
(`Deleting`). Without it `Commit` would know nothing of the run it commits for.

| Theorem | Says |
|---|---|
| `TypeCorrect` | `Spec => []TypeOK` |
| `RunsStaySound` | `Spec => []RunsAreSound`, from `NewestRunsAlone` and `ReceiptsAreUnique` |
| `OnlyNewestCommits` | `Spec => NewestCommits`: who commits still runs when it writes, who runs is the newest, and no deletion has found it |
| `AnswersAreFinal` | `Spec => CompletedIsFinal`: saves, cancels and commits need a running row; a row begun anew is younger (`Ordered`) |

*Claims and answers.* What attempts, checkpoints, writes and posts know of receipts.
Every snapshot of an attempt that is held anywhere after a step was held before it, or
*comes of* one that was: it is blank, or adds the trip, a result, the reuse of a fact
that is in the trip, or a receipt to it (`Comes`). So each claim has only to be shown
along these few ways.

- *Claims.* An operation is born at one version of the trip, which every snapshot with
  its result agrees about (`birth`, existentially quantified). What is claimed as applied
  has a receipt or was in the trip the snapshot was loaded with.
- *Order of saves.* The results of the stored checkpoint are among those of the attempt
  that works, and a save in flight has no more than the attempt (`Durables`).
- *Answers.* Owners know their answer, a completed row is final, and the answer of an
  attempt that wrote it stands (`OwnersKnow`, `Finals`, `Stands`).

| Theorem | Says |
|---|---|
| `ClaimsStaySound` | the invariant itself holds |
| `ClaimsHold` | `Spec => []ClaimsAreCommitted` |
| `ReplaysMatch` | `Spec => []ReplayMatches` |
| `AnswersStaySound`, `AnswersAgree` | `Spec => []OneAnswer` |
| `RunsImplementLedger` | `Spec => ImplementsLedger`, the refinement of `TripLedger` |

In the refinement `Begin` is `Grant`, `Replay` is `Recall`, `Land` is `Answer`,
`Release` or a stutter, `Cancel` is `Release`, `DeleteRuns` is `Fence`, `CommitDelete`
is `Close`, `Commit` is `Change`, `RejectVersion` is `Drop` where the session was
deleted meanwhile, and everything else, `Enter` and `DeleteTrip` among it, is a stutter.
That there is one writer to speak of is `OnlyNewestRuns`.

### SessionCoordinationProofs

`IInv == SCTypeOK /\ Known /\ LeasesSound /\ HistoryExcludes /\ SlotsSound /\ Timed`.

What a step that is no tick does is stated once for the leases (`LeaseStep`), the slots
(`SlotStep`) and a scope (`ScopeStep`), and the tick is a case of its own.

- `LeasesSound`: a held session key has its own entry, with the same time left, in
  the activity set. This is what lets a clear, which only looks at the set and at
  the history key, exclude the session leases (`HistoryExcludes`).
- `SlotsSound`: the set is finite; a renewal replaces a token that is there, even
  an expired one, so that it never grows the set.
- `Timed`: a scope that beats and is on time owns its lease (and its slot, if it works
  on a turn), and `left + beat >= TTL`. With `beat <= Interval + Late < TTL` a lease
  that is needed is never at its last tick. `WorkExcludes` and `TurnsBounded` follow:
  two working scopes would own one key, and working turns are at most the tokens in
  the set.

| Theorem | Says |
|---|---|
| `TypeCorrect` | `SCSpec => []SCTypeOK` |
| `ScopesStayExclusive` | `SCSpec => []ScopesExclude`, from `WorkIsExclusive` and `HistoryIsExclusive` |
| `SlotsAreBounded`, `TurnsAreBounded` | `SCSpec => []SlotsBounded`, `SCSpec => []TurnsBounded` |
| `ReleasesAreOwn` | `SCSpec => OwnReleaseOnly` |

### RefreshJobsProofs

*Refreshes.* `IInv` joins `TypeOK`, `RowsSound` (a job nobody runs has no owner, a
queued one has an attempt left), `WorkersSound` (who executes knows its job; who
reports success has published), `UploadsSound` and `RequestsSound` (who holds the lock
of the sources, and what a snapshot under that lock has) with the two invariants. The
actions are summed up in what they do to one row (`RowStep`) and one worker
(`WorkerStep`).

*Evaluations.* `EVInv` says what is offered to the sink, written or rebuilt was answered
and what is offered was not a replay (`Offered`), that each row fits its snapshot and the
answer of its turn (`Sound`: only the last claim wrote an end, who waits has an attempt
left, who is skipped was not eligible), and that who holds a row's lease works on its
last attempt (`Held`). The last is what makes a late `complete` of a recovered run a
write that finds no row. `SnapshotsShow` says what a snapshot keeps of the turn it was
taken of, `DecisionsAreHonest` follows the rules and the judge from there, and
`PoliciesAreJudged` the choice of what is skipped.

| Theorem | Says |
|---|---|
| `TypeCorrect` | `Spec => []TypeOK` |
| `JobsStayHonest` | `Spec => JobsAreHonest`, from `UploadsAreSeen`, `SuccessIsReal` and `FinishedStays` |
| `LeasesAreRespected` | `Spec => LeaseRespected` |
| `EvaluationsStaySound` | `EVSpec => []EvaluationsAreSound` |

### SessionTablesProofs

A step is one of one actor (`Acts`), which moves only itself (`Moves`) and takes no
lock from its holder (`LocksKept`). Five invariants are built on that.

- `IAlone`: a turn about to write holds the row of an open session (`Writing`), and a
  deletion holds it from its UPDATE to its commit (`Closing`). So no message is added
  between the two, and `DeletedIsSilent` follows.
- `IRunning`: begins of a session do not overlap (`OneBegins`, from `Leased`), so
  every run that runs is in the rows the begin has locked or has still to lock
  (`Accounted`), because only a begin makes a run run. Its commit then interrupts all
  of them: `OneRunning`.
- `IAnswers`: a turn between its SELECT and its commit holds a run that is not completed
  (`Holding`), hence completed runs stay so (`CompletedStays`); who stores an answer has
  such a run (`Answering`) and its question is stored (`Asked`) with a smaller number
  (`Numbered`).
- `TranscriptIsDense` is inductive with the types: each append holds the session's row
  when it takes the next number (`DenseStep`).
- `IOrder`: who waits for a lock does so for an actor that is nearer to a step that
  waits for nobody. `Distance` puts each actor at a number from 0 to 5: first who has
  nothing yet, then a begin that has other runs to lock, a deletion that has runs to
  lock, who wants the row of the session, and who wants the trip. It needs to be known
  which rows an actor can hold where it stands (`Rowed`), and that a begin only waits
  for other runs while its own row is new and seen by nobody (`Begins`, from `Ages`).

The last theorem, `WaitingEnds`, says `Spec => []OnlyDeletionsDeadlock`: every circle of
waiting transactions has two deletions of one session that both have runs of it left to
lock. Such a circle exists: `SessionRepository.java:123` locks the runs of a session
without an `ORDER BY`, and two overlapping deletions may come to two runs in opposite
orders (PostgreSQL then breaks the circle and refuses one of them). Where it does not,
who waits does so for somebody of a smaller `Distance` (`WaitsForNearer`).

The settings are apart. `PFInv` is `Serialised` (as long as no answer has gone on
without its lease and no turn has written, who is inside holds the lease and has read
what is stored) and `Shown` (a page whose revision is current shows what is saved).

| Theorem | Says |
|---|---|
| `TypeCorrect` | `Spec => []TypeOK` |
| `RequestsStaySound` | `Spec => []RequestsAreSound`, from `OneRequestRuns`, `DeletedSessionsAreSilent` and `AnswersAreThoseOfRuns` |
| `TranscriptsStayDense` | `Spec => []TranscriptIsDense` |
| `WaitingEnds` | `Spec => []OnlyDeletionsDeadlock` |
| `SavesKeep` | `PFSpec => SavesKeepOthers` |

### TurnPlanProofs

`IInv` joins twelve parts. `Ended` says that an attempt that ended by itself has settled
its plan, and that the stored plan of one that runs or was fenced says "running", so
that the reading settles it. `Phased` and `Executing` tie the phase of the attempt to
the calls of the round and their coroutines; `Same` says that the worker is ahead of the
checkpoint in the reports of its specialists only; `Truthful` says of worker and
checkpoint alike that a completed step has a result and its change is applied, and
`Receipted` that what is applied is committed; `FirstOnce`, `FormPosted`, `Numbered` and
`RoutedSteps` say which step a key, a call or a posted form belongs to. Each action
changes each saved step as `StepLedger` allows (`StepMoves`), which is both the
induction and the refinement.

| Theorem | Says |
|---|---|
| `TypeCorrect` | `Spec => []TypeOK` |
| `EndsAreSettled` | `Spec => []EndedIsSettled`, over `Supersede` too |
| `SavesAreCommitted` | `Spec => []SavedIsCommitted` |
| `PlansImplementLedger` | `Spec => ImplementsLedger`, the refinement of `StepLedger` |

### PartsProofs

| Theorem | Says | The invariant adds |
|---|---|---|
| `ExecutorIsSound`, `PermitsAreExact` | `IOSpec => []PermitsMatchCalls` | the types: a permit is returned only while a call has one |
| `RefusedAtCapacity` | a call is refused only while the limit of calls hold a permit | |
| `LookupsGoOnce` | `ALSpec => []LookupsAreSentOnce` | an answer enters worker and checkpoint at once (`LedgerIsSaved`), what is executed has no output yet (`WorkIsPending`), and every sending but one ended with its attempt (`Counted`) |
| `ReadyFilesAreWhole` | `ATSpec => []ReadyIsWhole` | only an upload makes a row, and its object is there until the row is told to be ready (`RowsSound`) |
| `AnswersReadAll` | `ATSpec => []AnswersSawTexts` | a request that reads was to see what was ready, and a text it missed is gone (`ReadingSound`) |
| `AccountsCostOne` | `RGSpec => []AccountsArePaid` | codes are numbered as they are given and used up when they admit (`Mailing`, `LiveCodes`, `Paying`); rows that are not committed keep others from writing (`Locks`, `Rows`) |
| `ChunksRead` | `CHSpec => []ChunksAreThePage` | see below |
| `BoardsStayHonest` | `TOSpec => []BoardIsHonest` | pairs of stations are asked in order (`TrainsTold`); a brand is asked when the one before has its answer or failed, so nobody waits when the hotels are given up (`InOrder`); what is looked up of an extra is wanted, and of the way from the station only once the trains have ended (`ExtrasTold`) |
| `BudgetIsKept` | `TOSpec => []TOTypeOK`, with the limits of the calls, the tries, the pairs and the paths | `BoardsStayHonest`'s; it assumes that what is cached is an answer to a lookup (`KnownAssumption`) |

*The chunks of a page.* `ChunkInv` says only that the blocks of the page know their
places, with no word twice in a text, and that the chunks are what `Chunked` makes of
them; the argument is about what `Chunked` computes, function by function, for every
page.

- *Units.* The blocks of the units, joined, are the page at every step: when a block is
  taken (`TakeBlockKeeps`), headings are attached (`AttachHeadingsAre`, which needs a
  page with content) and two units are merged (`MergeFirstKeeps`). So `BuildUnitsAre`.
- *Parts.* The parts of a unit, joined, are the unit, and a block over the limit that is
  no heading is the last of its part (`BlockPartsAre`). So when the one long block of a
  part is cut (`OneLong`), nothing that stood behind it is lost.
- *Pieces.* A piece that starts with the end of the one before repeats words. What makes
  this compose is `ReadsAs(s, w)`: `s` has the words of `w`, and what is new in it, for
  a reader who has seen none of `w`, is `w`. It is kept by joining (`ReadsConcat`,
  `ReadsAll`) and by repeating what was read (`ReadsOver`): `PiecesAre`,
  `SplitPartReads`, `SplitUnitReads`, `PartsRead`.
- *The page.* A word is a pair of its block's place and its number, so that none occurs
  twice (`PlacedDistinct`), and `ReadsFirst` turns `ReadsAs` into `NothingIsLost`.
- *Sections.* A longest common prefix exists, because the empty path is common and no
  common path is longer than any of the paths, and it is a prefix of each (`LongestIs`).

The hypothesis is `ChunkerAssumption`: words of one text are told apart by their numbers,
which is how the model writes a text down. The functions of `Chunker` are recursive
functions over positions, and each fact about one is an induction along its positions
(`Recursion`, `Steps`).

### MonolithProofs

| Theorem | Says | The invariant adds |
|---|---|---|
| `DoneStaysStored` | `CVSpec => []DoneIsStored` | who is under way holds the lease (`Leased`); what a turn has found out or stored stays true where it stands (`Turning`); a stored answer is what its run replied (`Answers`, `Screens`) |
| `CardsStayInTurn` | `CVSpec => []CardsAreAnsweredInTurn` | a question stands directly behind the card it answers (`Cards`), as the card a turn has validated is the last message until the turn stores its own (`Sure`) |
| `DeletedStay` | `CVSpec => DeletedStaysEmpty` | a deleted session has no turn and no row (`Leased`) |
| `IndexIsAlwaysServed` | `VISpec => IndexIsServed` | what each ingestion carries, by its step (`Carried`); a revision that was read before a commit is past and never current again (`Revised`) |
| `QuotasHold` | `EXSpec => []QuotaHolds` | what the counters may still grant and what granted calls may still cost, as finite sets whose sizes make up the balance (`Granting`, `Charging`) |
| `PagesStayTold` | `EXSpec => []PagesAreTold` | each page of a job has its own text or none, and a page that had its turn has it (`Paged`) |
| `LibraryIsHonest` | `KBSpec => []ListedIsIndexed` | no upload is inside while a refresh runs (`Excluded`), so that the directory it has read is the directory there is (`Known`, `Listed`) |
| `ContextTypes`, `ContextWhole` | `CWSpec => []CWTypeOK`, `CWSpec => []ContextIsWhole` | see below |
| `TripsCanBePlanned` | `TISpec => []TripCanBePlanned` | the fields agree (`TripIsSound`); that the card asks for just enough is shown by choosing two different cities and a start that agrees with end and length |

*The context of a model.* `WindowInv` joins what the rows are (a question and its answer,
request after request: `RowsHold`), what a transcript is (every call but those of its
last message is answered directly behind it: `RunsHold`), and that the history of a turn
that works is what `Window` would still make of both (`TurnHolds`). The last is the one
that needs steps compared: a turn extends the transcript of its own request only, and
that of no earlier one is read differently by it (`WindowKept`). The rest is about data.
A block of history (`FromRow`) keeps whole batches; joined blocks are in order, one form
to a request (`PastHolds`); an end of such a sequence that starts at a question is again
one (`Window`); `Compacted` empties results that a later batch proves read. Each is a
sequence joined of sequences, which `FlattenSeq` defines by recursion.

`SequenceFacts` proves what such definitions compute for every input: that the joined
sequence has each part where the lengths before it end (`Flattened`, `PlaceOf`), by an
induction over the set of the numbers where it fails, which has a least member (`Least`,
`UpTo`), and that a recursive function over positions exists and may be unfolded
(`Recursion`). The library's induction theorems take an operator as a parameter and are
of no use here; this form takes none.

The proof found a mistake of the model. A `CASE` of TLA+ whose guards overlap may take
any of its branches, although TLC takes the first. `FromRow` and `TurnPlan`'s `Outcome`
meant the first; they are nested conditions now, as the `if`s of the code are.

### What is only model-checked

- `TurnEnds`, `ScopesEnd`, `JobsFinish` and `EvaluationsEnd` are liveness under fairness,
  which the prover does not reach.
- `StoredTypes` and the `TypeOK` of `MCParts` and `MCMonolith` join types of parts. Those
  of the executor, the files, the accounts, the board and the context are proved as they
  stand. Of the others the proofs need and prove the types without the bounds, some of
  which are those of a run: `errors <= MaxRounds` of an agent is not true of batches of
  any length.

## 7. Disagreements between code and documents

These are runs that TLC ends with a counterexample.

1. `RunFence_retryable`: when the context of a request cannot be loaded, the stop stores
   a checkpoint that only holds a public plan (`agent_runtime/engine.py:400`). The retry
   takes it for a state to resume and fails each time.
2. `SessionCoordination_releases`: a comment in `webui_new/manager.py:844` promises that
   the local lock is always released; a cancellation that arrives inside the chain of
   releases skips it, because `CancelledError` is no `Exception`. The session stays busy
   in that process.
3. `RefreshJobs_stale`: the deployment plan says that a stale owner cannot commit its
   results. The check of the lease lies before minutes of embedding
   (`rag/pipeline.py:180`), and the transaction that publishes does not repeat it.
4. `TurnPlan_delivered`: the step of a routed answer is registered under a key without
   the user's profile and looked up under one with it (`agent_runtime/engine.py:574`).
   For a user with a profile an answer that was delivered is shown as failed and the
   outcome as degraded.
5. `RunFence_deleted`: the deletion of a session is to clear its active trip
   (`docs/plans/2026-09-08-supervisor-implementation-and-rollback.md:69`). A run begun
   after the deletion's UPDATE of the runs (`SessionRepository.java:128`) is not stopped by
   it, and inserts its trip after the deletion's DELETE (:143), which does not see it.

The rest was met while modelling or proving. No run is spent on it, either because the
model shows it by what it has to allow, or because it is outside the models.

*Sessions and turns.*

- The deployment plan says that a job past its attempts is failed and the old index
  stays. The index is published in a transaction before the one that ends the job; an
  error in between, on the last attempt, leaves a failed job with the new index.
- Two overlapping deletions of a session may wait for each other
  (`SessionRepository.java:123`, no `ORDER BY`); `OnlyDeletionsDeadlock` allows this circle
  and no other.
- A step that is settled while the turn waits for input is refused, although
  `docs/2026-09-10-execution-plan-and-multi-intent-report.md:23` says that all steps are
  settled; a cancelled routed step without a child is never reopened (same document, :24).
- `async_memory.py:24-25` says a cancelled caller waits for its write; a second
  cancellation ends the wait in line 26.
- `manager.py:686` says that settings are serialised across workers. An onboarding
  answer holds the user lease and a turn its session lease: a brand the turn has
  committed is lost to an answer that read the list before. A cancelled answer gives
  up the lease while its thread goes on.
- A message pushed late, after its lease was lost, can be twice in the cache of recent
  messages. A retry passes the check of bound attachments with fewer of them.
- With a home city equal to the destination the intake card reports a conflict and
  asks for the destination only.
- A window of history may begin with an answer whose question has expired.

*Knowledge base and files.*

- A heading at the end of a page becomes a chunk of its own (`rag/chunker.py:222`),
  contrary to :171, :222-223 and `tests/test_rag_phase1_regression.py:113`; pieces of a
  long block do not overlap by tokens (:372); `_page_open_stack` writes a heading twice.
- `chunk_hash` is that of the text alone (`chunker.py:409`), with a unique index and
  `ON CONFLICT DO NOTHING`: a document with two equal chunks fails a full rebuild
  (`postgres_vector_store.py:270-271`) and loses a row in an incremental one
  (`docs/plans/2026-08-09-rag-v2-audit-and-roadmap.md:591`).
- `hybrid.py:1` and `:43` speak of one active version snapshot; the two searches use a
  transaction each. The cache of the embedder is shared by threads between a check and
  a use (`embedder.py:148-149`).
- A blank page that went to OCR is an error and no `empty_ocr`, which the client makes
  unreachable (`rag/ocr.py:110-119`, `document_ocr_client.py:146`). A page whose text
  layer broke keeps its error when OCR reads it, so that a rebuild fails; a page without
  text whose OCR fails is not counted, so that a rebuild succeeds without it. The
  manifest lists a source that gave no chunk as indexed.
- The quota counts files, not calls (`quota.py:67`); an increment whose answer
  is lost is counted in Redis and in the process; pages of a PDF are not metered.
- A commit whose answer is lost leaves an attachment row without its file
  (`multimodal/service.py:133`).

*Lookups and evaluation.*

- The failure of a brand's lookup must not discard candidates near by (`amap.py:140`).
  Only `AMapError` is caught there: when the budget of external calls ends in the brand's
  lookup, or the deadline of 18 s passes during it, the board has no hotels although some
  were found. `BoardIsHonest` allows this and no other loss (`HotelsCut`).
- A weather query that is rejected is not kept in the ledger and is sent again
  (`services.py:154`), contrary to `engine.py:794-795`.
- The deadline of the trains, or the end of the budget, discards pairs that were
  answered; one pair's failure is told as "empty" when another
  has no trains; a weather report without data counts as weather; when one of two
  weather requests fails the other goes on for nobody.
- `trains.py` states a limit of 6 requests per type; the settings say 48, and one query
  may take 20.
- Comments in `io_executor.py:50-52` describe a release that the code does elsewhere.
- Of `docs/plans/2026-08-12-turn-level-agent-evaluation-mvp.md`: a leak of private data is
  not always critical (:592), as texts are redacted before the rule, which finds what the
  redaction leaves (a short secret, or one after a full-width colon); small talk is not
  skipped as such (:539), as no role is named so, but by the sample; a degraded fallback
  counts as completed and may be left out of the sample (:528); the writer never retries
  (:336).

## 8. What is not modelled

- *A begin without its lease.* `SessionTables` assumes one begin of a session at a time,
  which `SessionCoordination` shows while heartbeats are on time; the two are not
  composed (`TurnCoordination` in the plan).
- *Statements inside other transactions* than those of `SessionTables`: the clearing of a
  history, which deletes several sessions in one transaction.
- *Overlapping attempts of a plan*: `TurnPlan` has one attempt after the other, the fence
  between overlapping ones is that of `RunFence`.
- *The monolith's own* `RunStore._apply`: the deployed service commits through
  `MutationService`.
- *The work itself*: prompts, model answers, scoring, ranking, rendering, the words
  recognised in a message. A specialist's result is an operation with a fact; a model
  round is the freedom to take any action.
- *Retrieval*: fusion and scores; what is searched is whether a chunk is found.
- *The order in the queue of an asyncio lock*, and exact deadlines.
- *Initialisation of a user's instance* in the manager, with its own lock per process.
- *More than one refresh in one run*: the model allows it (`Jobs`) and the proofs cover
  it; the run has one, because `Snapshot` starts the next only when none is active.
- *Clean-up of old index versions and of orphaned vectors*: the code has none.
- *Code without callers*: `add_hotel_brand`, `add_airline`, `save_trip_history`,
  `increment_query_count`, `clear_history`, `delete_all`, `upsert_active_trip`,
  `get_recent_context`, `rebuild` of the retrieval facade; the circuit breaker, which
  only tests call.
- *Passwords and tokens, the page, the gateway*: library calls or marshalling.
