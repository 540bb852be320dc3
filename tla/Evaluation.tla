----------------------------- MODULE Evaluation -----------------------------
(***************************************************************************)
(* The evaluation of finished turns (evaluation/): the chat process offers *)
(* a snapshot of every answered turn to a bounded queue, one writer task   *)
(* inserts it through a thread it may abandon, and evaluator processes     *)
(* claim the runs under a lease, apply the rules and the judge and store a *)
(* verdict.  An evaluator started with --reconcile first rebuilds reduced  *)
(* snapshots of the turns that have none.  Names carry the prefix EV where *)
(* another module checked in the same run has its own Init or Next.        *)
(***************************************************************************)
EXTENDS Naturals, FiniteSets, Sequences

CONSTANTS
  Turns,        \* request ids, each the identity of one answered turn
  Evaluators,   \* evaluator processes; a restarted one has a fresh worker_id
  Answers,     \* what each turn may hold, as sets of TurnFacts
  QueueSize,    \* maxsize of the sink's queue
  Batch,        \* worker_concurrency, the rows one poll claims
  MaxTries,  \* max_attempts of a run
  Nothing

\* What the rules and the judge's eligibility tell apart in a turn, whose texts
\* are those the redaction and the length limits leave.
TurnFacts == {"policy",      \* a policy skill was selected
              "unfilled",    \* plan-trip was, and a specialist lacks a field
              "chitchat",    \* no other skill or intent (no role of profiles.py)
              "failed",      \* a specialist answered with status error
              "unavailable", \* or with status unavailable
              "asks",        \* the answer is a card that waits for the user
              "repeats",     \* it asks what an earlier answer asked
              "malformed",   \* the answer document breaks its schema
              "amount",      \* the answer states a definite amount
              "secret",      \* and a secret the user did not write
              "sources",     \* the answer document lists sources
              "evidence",    \* a specialist brought a policy source
              "truncated",   \* the collector cut a field
              "bare",        \* attachments without a text, no specialist asked
              "interrupted", "replayed",  \* what the request came to
              "sampled"}     \* the hash of the request is below sample_rate

\* create_subject_and_run stores one of a live or of a reconciled capture.
Snapshots == [capture : {"live", "reconciled"}, facts : SUBSET TurnFacts]

ASSUME EvaluationAssumption ==
  /\ Answers \in [Turns -> SUBSET SUBSET TurnFacts]
  /\ QueueSize \in Nat \ {0} /\ Batch \in Nat \ {0} /\ MaxTries \in Nat \ {0}
  /\ Nothing \notin Turns \cup Evaluators
  /\ Nothing \notin Snapshots /\ \A r \in Turns : Nothing \notin Answers[r]

VARIABLES
  turn,      \* the stored answer of each turn, Nothing before it
  queue,     \* the sink's queue
  writing,   \* the insert the writer task waits for
  threads,   \* inserts in progress, abandoned ones included
  subject,   \* evaluation_subjects: the snapshot of each turn
  run,       \* evaluation_runs: the row of each turn
  evaluator  \* the processes

evVars == <<turn, queue, writing, threads, subject, run, evaluator>>
chatVars == <<turn, queue, writing, threads>>

Verdicts == {"pass", "warning", "fail", "critical_fail", "unscored"}
Ended == {"completed", "failed", "skipped"}
Running == {"running"}

Rows == [status : {"none", "pending", "running"} \cup Ended,
         owner : Evaluators \cup {Nothing}, expired : BOOLEAN,
         attempts : 0..MaxTries, verdict : Verdicts \cup {Nothing},
         by : 0..MaxTries]      \* the attempt that wrote the end (history)
NoRow == [status |-> "none", owner |-> Nothing, expired |-> FALSE,
          attempts |-> 0, verdict |-> Nothing, by |-> 0]

Phases == {"off", "backfill", "polling", "claiming", "working", "dead"}
Process == [phase : Phases, missing : SUBSET Turns, hand : [Turns -> 0..MaxTries]]
Empty == [r \in Turns |-> 0]

EVTypeOK ==
  /\ turn \in [Turns -> (SUBSET TurnFacts) \cup {Nothing}]
  /\ \A r \in Turns : turn[r] \in Answers[r] \cup {Nothing}
  /\ threads \subseteq Turns
  /\ queue \in Seq(Turns) /\ Len(queue) <= QueueSize
  /\ writing \in Turns \cup {Nothing}
  /\ subject \in [Turns -> Snapshots \cup {Nothing}]
  /\ run \in [Turns -> Rows]
  /\ evaluator \in [Evaluators -> Process]

-----------------------------------------------------------------------------
(* The snapshots, the rules and the verdict.                               *)

\* freeze: the sources of the answer are evidence items too.
Frozen(c) ==
  [capture |-> "live", facts |-> c \cup IF "sources" \in c THEN {"evidence"} ELSE {}]

\* _metadata: what the message row keeps; no skills, no agent results, no
\* evidence and no earlier messages.
Rebuilt(c) ==
  [capture |-> "reconciled",
   facts |-> c \cap {"asks", "malformed", "amount", "secret", "sources", "sampled"}]

\* The terminal states, the first that applies: idempotent_replay and
\* interrupted, waiting_user, degraded, completed.
Unfinished(c) == c \cap {"interrupted", "replayed"} # {}
Waits(c) == "asks" \in c /\ ~Unfinished(c)
Concludes(c) == ~Waits(c) /\ ~Unfinished(c)
Degraded(c) == Concludes(c) /\ c \cap {"failed", "unavailable"} # {}

\* extract_facts: fewer than four of the five completeness checks hold for a
\* rebuilt snapshot, which has no intents and reduced quality.
Incomplete(s) == s.capture = "reconciled" \/ s.facts \cap {"truncated", "bare"} # {}

\* run_rules by the severity decide looks at.
NeedsEvidence(c) == "policy" \in c /\ Concludes(c)
Unsupported(c) == NeedsEvidence(c) /\ c \cap {"sources", "evidence"} = {}

Critical(s) == "secret" \in s.facts \/ (Unsupported(s.facts) /\ "amount" \in s.facts)
Hard(s) ==
  \/ Critical(s)
  \/ s.facts \cap {"failed", "malformed"} # {}
  \/ Unsupported(s.facts)
  \/ "unfilled" \in s.facts /\ Concludes(s.facts) /\ ~Degraded(s.facts)
Soft(s) ==
  \/ Incomplete(s)
  \/ NeedsEvidence(s.facts) /\ "sources" \in s.facts /\ "evidence" \notin s.facts
  \/ Waits(s.facts) /\ "repeats" \in s.facts

SampledOnly(s) ==
  ~Unfinished(s.facts) /\ "chitchat" \notin s.facts /\ "sampled" \in s.facts

\* _judge_eligibility: a policy or a degraded turn always, others by the sample.
Eligible(s) ==
  /\ ~Unfinished(s.facts) /\ "chitchat" \notin s.facts
  /\ s.facts \cap {"policy", "sampled"} # {} \/ Degraded(s.facts)

\* The judge is asked unless it is disabled or a hard rule fired; its agent
\* refuses to score a snapshot without context, and a call may fail.
JudgeAnswers(s) ==
  IF Hard(s) THEN {"unasked"}
  ELSE {"unasked", "unavailable"} \cup (IF Incomplete(s) THEN {"unscored"} ELSE Verdicts)

Decide(s, judge) ==
  CASE Critical(s)                  -> "critical_fail"
    [] Hard(s) /\ ~Critical(s)      -> "fail"
    [] Incomplete(s) /\ ~Hard(s)    -> "unscored"
    [] ~Incomplete(s) /\ ~Hard(s)   ->
         CASE judge = "unavailable" -> "unscored"
           [] judge = "unasked"     -> IF Soft(s) THEN "warning" ELSE "pass"
           [] OTHER                 -> judge

-----------------------------------------------------------------------------
(* The chat process.                                                       *)

EVInit ==
  /\ turn = [r \in Turns |-> Nothing]
  /\ threads = {} /\ queue = <<>> /\ writing = Nothing
  /\ subject = [r \in Turns |-> Nothing]
  /\ run = [r \in Turns |-> NoRow]
  /\ evaluator = [w \in Evaluators |-> [phase |-> "off", missing |-> {}, hand |-> Empty]]

\* An interrupted turn stores no answer.  Any other is stored, a replayed one too
\* when its first attempt had not; then try_emit offers the snapshot unless the
\* turn was replayed, without waiting: a full queue drops it, and so does a
\* process that stops in between.
Answer(r, c) ==
  /\ turn[r] = Nothing /\ "interrupted" \notin c
  /\ turn' = [turn EXCEPT ![r] = c]
  /\ \/ "replayed" \notin c /\ Len(queue) < QueueSize /\ queue' = Append(queue, r)
     \/ queue' = queue
  /\ UNCHANGED <<writing, threads, subject, run, evaluator>>

TakeEvent ==
  /\ writing = Nothing /\ queue # <<>>
  /\ writing' = Head(queue) /\ queue' = Tail(queue)
  /\ threads' = threads \cup {Head(queue)}
  /\ UNCHANGED <<turn, subject, run, evaluator>>

\* wait_for gives up the insert; its thread goes on.
WriterTimeout ==
  /\ writing # Nothing
  /\ writing' = Nothing
  /\ UNCHANGED <<turn, queue, threads, subject, run, evaluator>>

\* create_subject_and_run: the first snapshot of a request stays, and one run
\* per subject and evaluator version.
Stored(r, s) ==
  /\ subject' = IF subject[r] = Nothing THEN [subject EXCEPT ![r] = s] ELSE subject
  /\ run' = IF run[r].status = "none"
              THEN [run EXCEPT ![r].status = "pending"] ELSE run

ThreadEnds(r) ==
  /\ r \in threads
  /\ threads' = threads \ {r}
  /\ writing' = IF writing = r THEN Nothing ELSE writing
  /\ UNCHANGED <<turn, queue, evaluator>>

Insert(r) == ThreadEnds(r) /\ Stored(r, Frozen(turn[r]))

\* A database error: the writer drops the event.
InsertFails(r) == ThreadEnds(r) /\ UNCHANGED <<subject, run>>

\* The chat process stops: what is not in the database is lost.
ChatRestart ==
  /\ threads' = {} /\ queue' = <<>> /\ writing' = Nothing
  /\ UNCHANGED <<turn, subject, run, evaluator>>

-----------------------------------------------------------------------------
(* An evaluator process.                                                   *)

Enter(w, p) == evaluator' = [evaluator EXCEPT ![w] = p]

\* _main: with --reconcile it first lists the answers without a subject.
StartEvaluator(w) ==
  /\ evaluator[w].phase = "off"
  /\ \E missing \in {{}, {r \in Turns : turn[r] # Nothing /\ subject[r] = Nothing}} :
       Enter(w, [phase |-> "backfill", missing |-> missing, hand |-> Empty])
  /\ UNCHANGED <<chatVars, subject, run>>

Backfill(w, r) ==
  /\ evaluator[w].phase = "backfill" /\ r \in evaluator[w].missing
  /\ Stored(r, Rebuilt(turn[r]))
  /\ Enter(w, [evaluator[w] EXCEPT !.missing = @ \ {r}])
  /\ UNCHANGED chatVars

StartPolling(w) ==
  /\ evaluator[w].phase = "backfill" /\ evaluator[w].missing = {}
  /\ Enter(w, [evaluator[w] EXCEPT !.phase = "polling"])
  /\ UNCHANGED <<chatVars, subject, run>>

LeftAtTheLimit(row) ==
  IF row.attempts >= MaxTries THEN row
    ELSE [row EXCEPT !.status = "pending", !.owner = Nothing, !.expired = FALSE]

\* recover_expired_leases.
Reopened(row) ==
  IF row.attempts >= MaxTries
    THEN [row EXCEPT !.status = "failed", !.owner = Nothing, !.expired = FALSE]
    ELSE [row EXCEPT !.status = "pending", !.owner = Nothing, !.expired = FALSE]

Recover(w) ==
  /\ evaluator[w].phase = "polling"
  /\ run' = [r \in Turns |-> IF run[r].status \in Running /\ run[r].expired
                               THEN Reopened(run[r]) ELSE run[r]]
  /\ Enter(w, [evaluator[w] EXCEPT !.phase = "claiming"])
  /\ UNCHANGED <<chatVars, subject>>

\* claim_pending: at most Batch rows; a row another claim has locked is skipped.
Claimed(w, row) == [row EXCEPT !.status = "running", !.owner = w, !.expired = FALSE,
                               !.attempts = @ + 1]

ClaimRun(w) ==
  /\ evaluator[w].phase = "claiming"
  /\ \E rows \in SUBSET {r \in Turns : run[r].status = "pending"} :
       /\ Cardinality(rows) <= Batch
       /\ rows = {} => \A r \in Turns : run[r].status # "pending"
       /\ run' = [r \in Turns |-> IF r \in rows THEN Claimed(w, run[r]) ELSE run[r]]
       /\ Enter(w, [phase |-> IF rows = {} THEN "polling" ELSE "working", missing |-> {},
                    hand |-> [r \in Turns |-> IF r \in rows THEN run[r].attempts + 1 ELSE 0]])
  /\ UNCHANGED <<chatVars, subject>>

Unleased(row, w, status, verdict, attempt) ==
  IF row.status = "running"
    THEN [row EXCEPT !.status = status, !.verdict = verdict, !.owner = Nothing,
                     !.expired = FALSE, !.by = attempt]
    ELSE row

\* complete, skip and fail change the row only under the lease of this worker.
Concluded(row, w, status, verdict, attempt) ==
  IF row.status = "running" /\ row.owner = w
    THEN [row EXCEPT !.status = status, !.verdict = verdict, !.owner = Nothing,
                     !.expired = FALSE, !.by = attempt]
    ELSE row

\* run_once waits for the whole batch before it polls again.
Laid(w, r) ==
  LET hand == [evaluator[w].hand EXCEPT ![r] = 0]
  IN Enter(w, [evaluator[w] EXCEPT !.hand = hand,
                 !.phase = IF hand = Empty THEN "polling" ELSE "working"])

Conclude(w, r, status, verdict) ==
  /\ evaluator[w].hand[r] # 0
  /\ run' = [run EXCEPT ![r] = Concluded(@, w, status, verdict, evaluator[w].hand[r])]
  /\ Laid(w, r)
  /\ UNCHANGED <<chatVars, subject>>

\* _evaluate after the rules and, where one is due, the answer of the judge.
Judge(w, r) ==
  /\ evaluator[w].hand[r] # 0 /\ Eligible(subject[r])
  /\ \E judge \in JudgeAnswers(subject[r]) :
       Conclude(w, r, "completed", Decide(subject[r], judge))

Skip(w, r) ==
  /\ evaluator[w].hand[r] # 0 /\ ~Eligible(subject[r])
  /\ Conclude(w, r, "skipped", Nothing)

\* The payload of another release no longer validates.
FailToRead(w, r) == Conclude(w, r, "failed", Nothing)

Evaluate(w, r) == Judge(w, r) \/ Skip(w, r) \/ FailToRead(w, r)

\* A crash, or an exception of one row that ends the batch and the script.
EvaluatorDies(w) ==
  /\ evaluator[w].phase \notin {"off", "dead"}
  /\ \E other \in Evaluators \ {w} : evaluator[other].phase # "dead"
  /\ Enter(w, [phase |-> "dead", missing |-> {}, hand |-> Empty])
  /\ UNCHANGED <<chatVars, subject, run>>

\* lease_expires_at passes, of a dead evaluator or of a slow one.
RunExpires(r) ==
  /\ run[r].status = "running" /\ ~run[r].expired
  /\ run' = [run EXCEPT ![r].expired = TRUE]
  /\ UNCHANGED <<chatVars, subject, evaluator>>

ChatNext ==
  \/ \E r \in Turns : (\E c \in Answers[r] : Answer(r, c)) \/ Insert(r) \/ InsertFails(r)
  \/ TakeEvent \/ WriterTimeout \/ ChatRestart

Step(w) ==
  \/ StartEvaluator(w) \/ StartPolling(w) \/ Recover(w) \/ ClaimRun(w)
  \/ \E r \in Turns : Backfill(w, r) \/ Evaluate(w, r)

EVNext ==
  \/ ChatNext
  \/ \E w \in Evaluators : Step(w) \/ EvaluatorDies(w)
  \/ \E r \in Turns : RunExpires(r)

EVSpec == EVInit /\ [][EVNext]_evVars

\* The scheduler runs every evaluator that has not died, one is always left,
\* and the clock passes every lease.
EVFairness ==
  /\ \A w \in Evaluators : WF_evVars(Step(w))
  /\ \A r \in Turns : WF_evVars(RunExpires(r))

-----------------------------------------------------------------------------
\* An end of a run is written by its last claim: an evaluator whose lease was
\* recovered and given to another, or to itself, cannot write over it (the
\* fence of complete, skip and fail in evaluation/repository.py:161).
LastClaimWrites ==
  \A r \in Turns : run[r].by # 0 => run[r].status \in Ended /\ run[r].by = run[r].attempts

\* A stored verdict is honest about the turn, whoever inserted first and whatever
\* the judge says (evaluation/decision.py:14 after rules.py:18, facts.py:44 and
\* judge.py:30).  A turn passes, or passes with a warning, only on the snapshot
\* its own process took, uncut, of an answer that keeps its schema and whose
\* specialists did not fail; a policy answer that is no question needs a source.
\* Without one a definite amount is a critical failure, unless the skills were
\* lost, and a secret is one whatever was lost.  No policy turn is skipped whose
\* skills are known.
VerdictsAreHonest ==
  \A r \in Turns :
    LET c == turn[r]
        rebuilt == subject[r].capture = "reconciled"
        unproven == "policy" \in c /\ c \cap {"asks", "sources", "evidence"} = {}
    IN /\ run[r].status = "skipped" => rebuilt \/ c \cap {"policy", "chitchat"} # {"policy"}
       /\ run[r].verdict # Nothing =>
            /\ run[r].verdict \in {"pass", "warning"} =>
                 /\ ~rebuilt /\ ~unproven
                 /\ c \cap {"failed", "malformed", "truncated", "bare", "replayed"} = {}
            /\ "secret" \in c => run[r].verdict = "critical_fail"
            /\ unproven /\ "amount" \in c => run[r].verdict = "critical_fail" \/ rebuilt

\* What is stored of an evaluation is the result of its last claim, and honest
\* (evaluation/repository.py:161-207, decision.py:7-56).
EvaluationsAreSound == EVTypeOK /\ LastClaimWrites /\ VerdictsAreHonest

\* Every run ends, whatever evaluators die and however often a lease expires:
\* the attempts are bounded (evaluation/repository.py:112-159).
EvaluationsEnd ==
  \A r \in Turns : run[r].status = "pending" ~> run[r].status \in Ended
=============================================================================
