----------------------------- MODULE AgentLoop -----------------------------
(***************************************************************************)
(* The loop of one specialist (Turn.loop of agent_runtime/engine.py): ask  *)
(* the model, save the tool calls it wants, execute them, save each output *)
(* and close the batch, until it reports.  The attempt may be interrupted, *)
(* which saves its state, or its worker may die, which does not; the next  *)
(* attempt goes on from the checkpoint.                                    *)
(***************************************************************************)
EXTENDS Naturals, Sequences, FiniteSets

CONSTANTS
  Lookups,      \* the queries of the role's own tools, by fingerprint
  Weather,      \* those whose provider may know nothing of the place
  Batches,      \* the tool calls of a reply, as sequences of calls
  MaxRounds,    \* child_rounds
  ReportRound,  \* the first round that may only report
  MaxCalls,     \* the calls of a round (six in the code)
  MaxAttempts   \* bound: attempts of the request

ASSUME AgentAssumption == Batches \subseteq Seq(Lookups \cup {"skill", "report"})

\* A call is a lookup, "skill" for read_skill, or "report".
AgentCalls == Lookups \cup {"skill", "report"}
NoValue == "none"
\* found and empty are answers of a lookup, guide is one of read_skill; an error
\* may also be what the call raised.
Values == {"found", "empty", "guide", "repeated", "error", "unavailable", "terminal", NoValue}

VARIABLES
  agent,    \* the state of the loop in the worker
  saved,    \* the same in the checkpoint
  at,       \* where the loop is
  working,  \* the calls of the batch being executed, by position
  attempt,  \* the number of the attempt
  sent,     \* history: how often each lookup was sent to its provider
  lost      \* history: how often an attempt ended with the lookup on its way

alVars == <<agent, saved, at, working, attempt, sent, lost>>

Agent ==
  [round : 0..MaxRounds, stalled : 0..MaxRounds, forced : BOOLEAN, prepared : 0..3,
   errors : 0..MaxRounds, pending : Batches \cup {<<>>}, outputs : Seq(Values),
   operations : SUBSET Lookups, guided : BOOLEAN, terminal : BOOLEAN]

ALTypeOK ==
  /\ agent \in Agent /\ saved \in Agent
  /\ at \in {"out", "top", "asking", "batch", "reported", "failed"}
  /\ working \subseteq 1..MaxCalls
  /\ attempt \in 0..MaxAttempts
  /\ sent \in [Lookups -> Nat] /\ lost \in [Lookups -> 0..MaxAttempts]

NewAgent ==
  [round |-> 0, stalled |-> 0, forced |-> FALSE, prepared |-> 0, errors |-> 0,
   pending |-> <<>>, outputs |-> <<>>, operations |-> {}, guided |-> FALSE,
   terminal |-> FALSE]

ALInit ==
  /\ agent = NewAgent /\ saved = NewAgent /\ at = "out" /\ working = {} /\ attempt = 0
  /\ sent = [o \in Lookups |-> 0] /\ lost = [o \in Lookups |-> 0]

Keeps(s) == agent' = s /\ saved' = s
providers == <<sent, lost>>

-----------------------------------------------------------------------------
(* Attempts.                                                               *)

\* A stored terminal value is returned at once.
EnterLoop ==
  /\ at = "out" /\ attempt < MaxAttempts /\ attempt' = attempt + 1
  /\ at' = IF saved.terminal THEN "reported" ELSE "top"
  /\ agent' = saved
  /\ UNCHANGED <<saved, working, providers>>

Sending == {agent.pending[i] : i \in working} \cap Lookups
LeaveLoop ==
  /\ at # "out" /\ at' = "out" /\ working' = {}
  /\ lost' = [o \in Lookups |-> IF o \in Sending THEN lost[o] + 1 ELSE lost[o]]
  /\ UNCHANGED <<attempt, sent>>

\* A cancellation or an error elsewhere in the turn: its handler saves.
Interrupted == LeaveLoop /\ Keeps(agent)
\* Every save of the turn, also one of another specialist, saves this one too.
SavedWithTurn ==
  /\ at # "out" /\ saved # agent /\ saved' = agent
  /\ UNCHANGED <<agent, at, working, attempt, providers>>
WorkerDies == LeaveLoop /\ agent' = saved /\ UNCHANGED saved

-----------------------------------------------------------------------------
(* Asking the model.                                                       *)

ReportOnly(s) == s.round >= ReportRound \/ s.forced
Offered(s) == IF ReportOnly(s) THEN {"report"} ELSE AgentCalls

AskModel ==
  /\ at = "top" /\ agent.pending = <<>> /\ agent.round < MaxRounds /\ agent.errors < 2
  /\ agent' = [agent EXCEPT !.round = @ + 1, !.forced = @ \/ agent.stalled >= 3]
  /\ at' = "asking"
  /\ UNCHANGED <<saved, working, attempt, providers>>

\* The round limit, or the second report with errors.
GiveUp ==
  /\ at = "top" /\ agent.pending = <<>> /\ (agent.round = MaxRounds \/ agent.errors >= 2)
  /\ at' = "failed"
  /\ UNCHANGED <<agent, saved, working, attempt, providers>>

\* A malformed response, or one without a tool call.
NoCalls ==
  /\ at = "asking" /\ at' = "top"
  /\ Keeps([agent EXCEPT !.stalled = @ + 1])
  /\ UNCHANGED <<working, attempt, providers>>

\* The calls are saved before any of them is executed.
Blank(batch) == [i \in 1..Len(batch) |-> NoValue]
CallsAccepted(batch) ==
  [agent EXCEPT !.pending = batch, !.outputs = Blank(batch)]
TakeCalls(batch) ==
  /\ at = "asking" /\ at' = "batch"
  /\ Keeps(CallsAccepted(batch))
  /\ UNCHANGED <<working, attempt, providers>>

\* An attempt that finds calls pending goes on with them.
ResumeBatch ==
  /\ at = "top" /\ agent.pending # <<>> /\ at' = "batch"
  /\ UNCHANGED <<agent, saved, working, attempt, providers>>

-----------------------------------------------------------------------------
(* Executing a batch.                                                      *)

Whole(batch) == 1..Len(batch)
\* BATCH_LIMIT and EXCLUSIVE_TOOL: the batch is answered, not executed.
Malformed(batch) ==
  Len(batch) > MaxCalls \/ (Len(batch) > 1 /\ \E i \in Whole(batch) : batch[i] = "report")
\* Only lookups run side by side.
Parallel(batch) ==
  \A i \in Whole(batch) : batch[i] \in Offered(agent) => batch[i] \in Lookups

\* The output of a call; one that is not offered is answered when the batch is
\* closed.
OutputOf(i) ==
  IF agent.pending[i] \notin Offered(agent) THEN "unavailable" ELSE agent.outputs[i]
InTurn(i) ==
  /\ at = "batch" /\ ~Malformed(agent.pending)
  /\ i \in Whole(agent.pending) \ working /\ OutputOf(i) = NoValue
  /\ \/ Parallel(agent.pending)
     \/ working = {} /\ \A k \in 1..(i - 1) : OutputOf(k) # NoValue
\* tool_locks: equal calls of a batch one after the other.
Free(i) == \A k \in working : agent.pending[k] # agent.pending[i]

InThisBatch(o) ==
  \E i \in Whole(agent.pending) : agent.pending[i] = o /\ agent.outputs[i] # NoValue
Remembered(o) == o \in agent.operations

SendLookup(i) ==
  LET o == agent.pending[i] IN
  /\ InTurn(i) /\ Free(i) /\ o \in Lookups /\ ~Remembered(o)
  /\ working' = working \cup {i}
  /\ sent' = [sent EXCEPT ![o] = @ + 1]
  /\ UNCHANGED <<agent, saved, at, attempt, lost>>

\* The answer, the ledger of operations and the output are saved together.
LookupAnswers(i, value) ==
  /\ i \in working /\ working' = working \ {i}
  /\ Keeps([agent EXCEPT !.operations = @ \cup {agent.pending[i]}, !.outputs[i] = value])
  /\ UNCHANGED <<at, attempt, providers>>

\* A city without weather is a rejection, which the ledger does not keep.
LookupIsRejected(i) ==
  /\ i \in working /\ agent.pending[i] \in Weather /\ working' = working \ {i}
  /\ Keeps([agent EXCEPT !.outputs[i] = "error"])
  /\ UNCHANGED <<at, attempt, providers>>

\* The other calls: a lookup done before or rejected before it is sent, a guide,
\* a report that is accepted or has errors.
ValueOf(i, value) ==
  LET c == agent.pending[i] IN
  CASE c \in Lookups -> value = "error"
    [] c = "skill"   -> value \in {IF agent.guided THEN "repeated" ELSE "guide", "error"}
    [] OTHER         -> value \in {"terminal", "error"}
AnswerCall(i, value) ==
  /\ InTurn(i) /\ Free(i) /\ ValueOf(i, value)
  /\ Keeps([agent EXCEPT !.outputs[i] = value, !.guided = @ \/ value = "guide"])
  /\ UNCHANGED <<at, working, attempt, providers>>

\* What the batch adds to the limits of the loop.
Accounted(s, values) ==
  IF \E v \in values : v \in {"found", "terminal"} THEN [s EXCEPT !.stalled = 0]
  ELSE IF "guide" \in values /\ s.prepared < 3 THEN [s EXCEPT !.prepared = @ + 1]
  ELSE IF "unavailable" \in values THEN s
  ELSE [s EXCEPT !.stalled = @ + 1]
ReportErrors(s, values) ==
  IF Malformed(s.pending) THEN Cardinality({i \in Whole(s.pending) : s.pending[i] = "report"})
  ELSE Cardinality({i \in Whole(s.pending) : s.pending[i] = "report" /\ s.outputs[i] = "error"})

\* The outputs enter the transcript, and the batch is over.
CloseBatch ==
  LET values == IF Malformed(agent.pending) THEN {"error"}
                ELSE {OutputOf(i) : i \in Whole(agent.pending)}
      ends == values = {"terminal"}
  IN /\ at = "batch" /\ NoValue \notin values
     /\ Keeps([Accounted(agent, values) EXCEPT
                 !.errors = @ + ReportErrors(agent, values),
                 !.pending = <<>>, !.outputs = <<>>, !.terminal = ends])
     /\ at' = IF ends THEN "reported" ELSE "top"
     /\ UNCHANGED <<working, attempt, providers>>

ALNext ==
  \/ EnterLoop \/ Interrupted \/ SavedWithTurn \/ WorkerDies
  \/ AskModel \/ GiveUp \/ NoCalls \/ ResumeBatch \/ CloseBatch
  \/ \E batch \in Batches : TakeCalls(batch)
  \/ \E i \in 1..MaxCalls :
       \/ SendLookup(i) \/ LookupIsRejected(i)
       \/ \E value \in {"found", "empty", "error"} : LookupAnswers(i, value)
       \/ \E value \in Values : AnswerCall(i, value)

ALSpec == ALInit /\ [][ALNext]_alVars

-----------------------------------------------------------------------------
\* A query goes to its provider again only if an attempt ended before its
\* answer was saved: not for a synonymous call of the same batch or of a later
\* round, nor for a batch that is replayed, whichever of its calls were already
\* answered (engine.py:786-806).  What the provider rejects is not remembered.
LookupsAreSentOnce == \A o \in Lookups \ Weather : sent[o] <= 1 + lost[o]
=============================================================================
