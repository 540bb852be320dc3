------------------------------ MODULE PartsProofs ------------------------------
(***************************************************************************)
(* What is proved of six parts that share no state with another: the I/O   *)
(* executor, the loop of an agent, attachments, accounts, the board of     *)
(* trains and hotels, and the chunks of a page.  Each part has an          *)
(* inductive invariant of its own, and its specification implies the       *)
(* property for any values of its constants.                               *)
(***************************************************************************)
EXTENDS IoExecutor, AgentLoop, Attachments, Registration, TripOptions, Chunker,
        FiniteSetTheorems, SequenceFacts, TLAPS

-----------------------------------------------------------------------------
(* The I/O executor.  The type invariant needs the count (a permit is      *)
(* returned only while a call has one) and the count needs the types, so   *)
(* that both are proved together, for any calls, workers and places.       *)

Busy == In("queued") \cup In("running")
IOInv == IOTypeOK /\ PermitsMatchCalls

\* The calls with a permit are finitely many.
LEMMA BusyIsFinite == IsFiniteSet(Busy) /\ Cardinality(Busy) \in Nat
<1>1. Busy \subseteq Calls  BY DEF Busy, In
<1> QED  BY <1>1, FS_Subset, FS_CardinalityType, IoExecutorAssumption

LEMMA StartsSound == IOInit => IOInv
<1> SUFFICES ASSUME IOInit PROVE IOInv  OBVIOUS
<1> USE DEF IOInit
<1>1. Admission \in Nat  BY IoExecutorAssumption DEF Admission
<1>2. IOTypeOK  BY <1>1 DEF IOTypeOK, States
<1>3. Busy = {}  BY DEF Busy, In
<1>4. Cardinality(Busy) = 0  BY <1>3, FS_EmptySet
<1>5. PermitsMatchCalls  BY <1>1, <1>4 DEF PermitsMatchCalls, Busy
<1> QED  BY <1>2, <1>5 DEF IOInv

LEMMA StepKeepsSound == IOInv /\ [IONext]_ioVars => IOInv'
<1> SUFFICES ASSUME IOInv, [IONext]_ioVars PROVE IOInv'  OBVIOUS
<1> USE DEF IOInv
<1>1. Admission \in Nat  BY IoExecutorAssumption DEF Admission
<1>2. call \in [Calls -> States] /\ permits \in 0..Admission
        /\ callers \subseteq Calls /\ jobs \in Seq(Calls)
  BY DEF IOTypeOK
<1>3. permits + Cardinality(Busy) = Admission  BY DEF PermitsMatchCalls, Busy
<1>4. ASSUME call' \in [Calls -> States], callers' \subseteq Calls,
             jobs' \in Seq(Calls), permits' \in Nat,
             permits' + Cardinality(Busy') = Admission, Cardinality(Busy') \in Nat
      PROVE  IOInv'
  BY <1>1, <1>4 DEF IOTypeOK, PermitsMatchCalls, Busy
<1>5. Cardinality(Busy') \in Nat
  <2>1. Busy' \subseteq Calls  BY DEF Busy, In
  <2> QED  BY <2>1, FS_Subset, FS_CardinalityType, IoExecutorAssumption
<1>6. ASSUME NEW c \in Calls, RunBlocking(c) PROVE IOInv'
  <2>1. call' \in [Calls -> States] /\ callers' \subseteq Calls
    BY <1>2, <1>6 DEF RunBlocking, States
  <2>2. jobs' \in Seq(Calls)  BY <1>2, <1>6 DEF RunBlocking
  <2>3. c \notin Busy /\ Busy' = Busy \cup {c}
    BY <1>2, <1>6 DEF RunBlocking, Busy, In
  <2>4. permits' = permits - 1 /\ permits > 0  BY <1>6 DEF RunBlocking
  <2>5. Cardinality(Busy') = Cardinality(Busy) + 1  BY <2>3, BusyIsFinite, FS_AddElement
  <2> QED  BY <1>2, <1>3, <1>4, <1>5, <2>1, <2>2, <2>4, <2>5, BusyIsFinite
<1>7. ASSUME NEW c \in Calls, RefuseCall(c) PROVE IOInv'
  <2>1. call' \in [Calls -> States]  BY <1>2, <1>7 DEF RefuseCall, States
  <2>2. Busy' = Busy  BY <1>2, <1>7 DEF RefuseCall, Busy, In
  <2> QED  BY <1>2, <1>3, <1>4, <1>5, <1>7, <2>1, <2>2 DEF RefuseCall
<1>8. ASSUME NEW c \in Calls, CancelCaller(c) PROVE IOInv'
  <2>1. callers' \subseteq Calls /\ jobs' \in Seq(Calls)  BY <1>2, <1>8 DEF CancelCaller
  <2>2. CASE call[c] = "queued"
    <3>1. call' \in [Calls -> States]  BY <1>2, <1>8, <2>2 DEF CancelCaller, States
    <3>2. c \in Busy /\ Busy' = Busy \ {c}
      BY <1>2, <1>8, <2>2 DEF CancelCaller, Busy, In
    <3>3. permits' = permits + 1  BY <1>8, <2>2 DEF CancelCaller
    <3>4. Cardinality(Busy') = Cardinality(Busy) - 1
      BY <3>2, BusyIsFinite, FS_RemoveElement
    <3> QED  BY <1>2, <1>3, <1>4, <1>5, <2>1, <3>1, <3>3, <3>4, BusyIsFinite
  <2>3. CASE call[c] # "queued"
    <3>1. call' = call /\ permits' = permits  BY <1>8, <2>3 DEF CancelCaller
    <3>2. Busy' = Busy  BY <3>1 DEF Busy, In
    <3> QED  BY <1>2, <1>3, <1>4, <1>5, <2>1, <3>1, <3>2
  <2> QED  BY <2>2, <2>3
<1>9. ASSUME NEW c \in Calls, CallReturns(c) PROVE IOInv'
  <2>1. call' \in [Calls -> States] /\ callers' \subseteq Calls /\ jobs' \in Seq(Calls)
    BY <1>2, <1>9 DEF CallReturns, States
  <2>2. c \in Busy /\ Busy' = Busy \ {c}
    BY <1>2, <1>9 DEF CallReturns, Busy, In
  <2>3. permits' = permits + 1  BY <1>9 DEF CallReturns
  <2>4. Cardinality(Busy') = Cardinality(Busy) - 1
    BY <2>2, BusyIsFinite, FS_RemoveElement
  <2> QED  BY <1>2, <1>3, <1>4, <1>5, <2>1, <2>3, <2>4, BusyIsFinite
<1>10. ASSUME TakeJob PROVE IOInv'
  <2>1. Head(jobs) \in Calls /\ jobs' \in Seq(Calls)  BY <1>2, <1>10 DEF TakeJob
  <2>2. call' \in [Calls -> States]
    <3>1. CASE call[Head(jobs)] = "queued"
      BY <1>2, <1>10, <2>1, <3>1 DEF TakeJob, States
    <3>2. CASE call[Head(jobs)] # "queued"  BY <1>2, <1>10, <3>2 DEF TakeJob
    <3> QED  BY <3>1, <3>2
  <2>3. Busy' = Busy
    <3>1. CASE call[Head(jobs)] = "queued"
      BY <1>2, <1>10, <2>1, <3>1 DEF TakeJob, Busy, In
    <3>2. CASE call[Head(jobs)] # "queued"  BY <1>10, <3>2 DEF TakeJob, Busy, In
    <3> QED  BY <3>1, <3>2
  <2> QED  BY <1>2, <1>3, <1>4, <1>5, <1>10, <2>1, <2>2, <2>3 DEF TakeJob
<1>11. CASE UNCHANGED ioVars
  <2>1. Busy' = Busy  BY <1>11 DEF ioVars, Busy, In
  <2> QED  BY <1>2, <1>3, <1>4, <1>5, <1>11, <2>1 DEF ioVars
<1> QED  BY <1>6, <1>7, <1>8, <1>9, <1>10, <1>11 DEF IONext

\* Types and permits of the executor of utils/io_executor.py are sound
\* in every state, whatever its callers do.
THEOREM ExecutorIsSound == IOSpec => []IOInv
<1> QED  BY StartsSound, StepKeepsSound, PTL DEF IOSpec

\* No cancelled or finished call leaks a permit or gives one back twice
\* (utils/io_executor.py:77-85).
THEOREM PermitsAreExact == IOSpec => []PermitsMatchCalls
<1>1. IOInv => PermitsMatchCalls  BY DEF IOInv
<1> QED  BY <1>1, ExecutorIsSound, PTL

\* A call is refused only while as many calls as the limit allows hold a permit:
\* cancelled callers never starve a live one of the capacity there is.
THEOREM RefusedAtCapacity ==
  IOSpec => [][\A c \in Calls :
    call[c] = "new" /\ call'[c] = "refused" => Cardinality(Busy) = Admission]_ioVars
<1>1. ASSUME IOInv, [IONext]_ioVars
      PROVE  [\A c \in Calls : call[c] = "new" /\ call'[c] = "refused"
                                 => Cardinality(Busy) = Admission]_ioVars
  <2> SUFFICES ASSUME ioVars' # ioVars, NEW c \in Calls,
                      call[c] = "new", call'[c] = "refused"
               PROVE  Cardinality(Busy) = Admission
    OBVIOUS
  <2>1. call \in [Calls -> States] /\ jobs \in Seq(Calls)  BY <1>1 DEF IOInv, IOTypeOK
  <2>2. permits + Cardinality(Busy) = Admission  BY <1>1 DEF IOInv, PermitsMatchCalls, Busy
  <2>3. permits = 0
    <3>1. ASSUME NEW d \in Calls, RefuseCall(d) PROVE permits = 0  BY <3>1 DEF RefuseCall
    <3>2. ASSUME NEW d \in Calls, RunBlocking(d) \/ CancelCaller(d) \/ CallReturns(d)
          PROVE  FALSE
      <4>1. CASE RunBlocking(d)  BY <2>1, <4>1 DEF RunBlocking
      <4>2. CASE CancelCaller(d)  BY <2>1, <4>2 DEF CancelCaller
      <4>3. CASE CallReturns(d)  BY <2>1, <4>3 DEF CallReturns
      <4> QED  BY <3>2, <4>1, <4>2, <4>3
    <3>3. ASSUME TakeJob PROVE FALSE  BY <2>1, <3>3 DEF TakeJob
    <3> QED  BY <1>1, <3>1, <3>2, <3>3 DEF IONext
  <2> QED  BY <2>2, <2>3, BusyIsFinite
<1> QED  BY <1>1, ExecutorIsSound, PTL DEF IOSpec

-----------------------------------------------------------------------------
(* The loop of an agent.  Every sending of a lookup but one ended with its *)
(* attempt: its answer is in the ledger, which is saved before the worker  *)
(* goes on, or the attempt was lost with it.                               *)

\* The parts of a state the counts of the loop need; the limits of the rounds
\* are left open.
AgentShape ==
  [round : Nat, stalled : Nat, forced : BOOLEAN, prepared : Nat, errors : Nat,
   pending : Batches \cup {<<>>}, outputs : Seq(Values), operations : SUBSET Lookups,
   guided : BOOLEAN, terminal : BOOLEAN]

ALShapes ==
  /\ agent \in AgentShape /\ saved \in AgentShape
  /\ sent \in [Lookups -> Nat] /\ lost \in [Lookups -> Nat]

\* The ledger of the worker is the saved one: an answer enters both at once.
LedgerIsSaved == agent.operations = saved.operations

\* A call being executed is one of the batch that has no output yet.
WorkIsPending == \A i \in working :
  /\ at = "batch" /\ ~Malformed(agent.pending) /\ i \in Whole(agent.pending)
  /\ agent.pending[i] \in Lookups /\ OutputOf(i) = NoValue

\* Every sending but one ended with its attempt.
Counted == \A o \in Lookups \ Weather :
  /\ sent[o] <= 1 + lost[o]
  /\ o \notin Sending /\ o \notin agent.operations => sent[o] <= lost[o]

ALInv == ALShapes /\ LedgerIsSaved /\ WorkIsPending /\ Counted

\* The positions of a batch, and what is counted of them.
LEMMA Positions ==
  ASSUME NEW s \in AgentShape
  PROVE  /\ s.pending \in Seq(AgentCalls)
         /\ Len(s.pending) \in Nat
         /\ \A P : ReportErrors(s, P) \in Nat
<1>1. s.pending \in Seq(AgentCalls)
  <2>1. s.pending \in Batches \/ s.pending = <<>>  BY DEF AgentShape
  <2>2. <<>> \in Seq(AgentCalls)  OBVIOUS
  <2>3. s.pending \in Batches => s.pending \in Seq(AgentCalls)  BY AgentAssumption DEF AgentCalls
  <2>4. QED  BY <2>1, <2>2, <2>3
<1>2. Len(s.pending) \in Nat  BY <1>1
<1>3. ASSUME NEW T, T \subseteq Whole(s.pending) PROVE Cardinality(T) \in Nat
  <2>1. IsFiniteSet(Whole(s.pending))  BY <1>2, FS_Interval DEF Whole
  <2>2. IsFiniteSet(T)  BY <1>3, <2>1, FS_Subset
  <2>3. QED  BY <2>2, FS_CardinalityType
<1>4. \A P : ReportErrors(s, P) \in Nat
  <2>1. Cardinality({i \in Whole(s.pending) : s.pending[i] = "report"}) \in Nat  BY <1>3
  <2>2. Cardinality({i \in Whole(s.pending) : s.pending[i] = "report" /\ s.outputs[i] = "error"}) \in Nat
    BY <1>3
  <2>3. QED  BY <2>1, <2>2 DEF ReportErrors
<1>5. QED  BY <1>1, <1>2, <1>4

LEMMA BlankType ==
  ASSUME NEW batch \in Batches
  PROVE  Blank(batch) \in Seq(Values)
<1>1. Len(batch) \in Nat  BY AgentAssumption
<1>2. QED  BY <1>1 DEF Blank, Values, NoValue

LEMMA AccountedShape ==
  ASSUME NEW s \in AgentShape, NEW values
  PROVE  /\ Accounted(s, values) \in AgentShape
         /\ Accounted(s, values).operations = s.operations
         /\ Accounted(s, values).errors = s.errors
<1>1. [s EXCEPT !.stalled = 0] \in AgentShape  BY DEF AgentShape
<1>2. [s EXCEPT !.prepared = @ + 1] \in AgentShape  BY DEF AgentShape
<1>3. [s EXCEPT !.stalled = @ + 1] \in AgentShape  BY DEF AgentShape
<1>4. Accounted(s, values) \in {s, [s EXCEPT !.stalled = 0], [s EXCEPT !.prepared = @ + 1],
                                [s EXCEPT !.stalled = @ + 1]}
  BY DEF Accounted
<1> HIDE DEF Accounted
<1>5. \A t \in {s, [s EXCEPT !.stalled = 0], [s EXCEPT !.prepared = @ + 1],
                [s EXCEPT !.stalled = @ + 1]} : t.operations = s.operations /\ t.errors = s.errors
  BY DEF AgentShape
<1>6. QED  BY <1>1, <1>2, <1>3, <1>4, <1>5

\* An output is written at a place of the outputs, or nowhere.
Put(q, i, v) == [q EXCEPT ![i] = v]

LEMMA PutType ==
  ASSUME NEW q \in Seq(Values), NEW i, NEW v \in Values
  PROVE  /\ Put(q, i, v) \in Seq(Values)
         /\ \A k : k # i => Put(q, i, v)[k] = q[k]
<1>1. CASE i \in 1..Len(q)  BY <1>1 DEF Put
<1>2. CASE i \notin 1..Len(q)
  <2>1. Put(q, i, v) = q  BY <1>2 DEF Put
  <2>2. QED  BY <2>1
<1>3. QED  BY <1>1, <1>2

LEMMA ALStarts == ALInit => ALInv
<1> SUFFICES ASSUME ALInit PROVE ALInv  OBVIOUS
<1>1. NewAgent \in AgentShape  BY DEF NewAgent, AgentShape
<1>2. ALShapes  BY <1>1 DEF ALInit, ALShapes
<1>3. QED  BY <1>2 DEF ALInit, ALInv, LedgerIsSaved, WorkIsPending, Counted

\* A step that sends nothing, while nothing is being executed and the ledger stays.
LEMMA IdleStep ==
  ASSUME ALInv, agent' \in AgentShape, saved' \in AgentShape,
         agent'.operations = agent.operations, saved'.operations = saved.operations,
         working = {}, working' = {}, UNCHANGED providers
  PROVE  ALInv'
<1>1. ALShapes'  BY DEF ALInv, ALShapes, providers
<1>2. LedgerIsSaved' /\ WorkIsPending'  BY DEF ALInv, LedgerIsSaved, WorkIsPending
<1>3. Counted'  BY DEF ALInv, Counted, Sending, providers
<1>4. QED  BY <1>1, <1>2, <1>3 DEF ALInv

\* Whatever is on its way when the attempt ends is lost.
LEMMA LeaveStep ==
  ASSUME ALInv, LeaveLoop, agent' \in AgentShape, saved' \in AgentShape,
         agent'.operations = agent.operations, saved'.operations = saved.operations
  PROVE  ALInv'
<1>1. lost' \in [Lookups -> Nat] /\ sent' = sent /\ working' = {}
  BY DEF LeaveLoop, ALInv, ALShapes
<1>2. ALShapes' /\ LedgerIsSaved' /\ WorkIsPending'
  BY <1>1 DEF ALInv, ALShapes, LedgerIsSaved, WorkIsPending
<1>3. ASSUME NEW o \in Lookups \ Weather
      PROVE  sent[o] <= 1 + lost'[o] /\ (o \notin agent'.operations => sent[o] <= lost'[o])
  <2>1. /\ sent[o] <= 1 + lost[o] /\ sent[o] \in Nat /\ lost[o] \in Nat
        /\ o \notin Sending /\ o \notin agent.operations => sent[o] <= lost[o]
    BY DEF ALInv, ALShapes, Counted
  <2>2. lost'[o] = IF o \in Sending THEN lost[o] + 1 ELSE lost[o]  BY DEF LeaveLoop
  <2>3. QED  BY <2>1, <2>2
<1>4. Counted'  BY <1>1, <1>3 DEF Counted
<1>5. QED  BY <1>2, <1>4 DEF ALInv

\* The state after v is written as the output of position i.
Answered(s, W, i, v, g) ==
  [s EXCEPT !.operations = s.operations \cup W, !.outputs = Put(s.outputs, i, v), !.guided = g]

LEMMA AnsweredShape ==
  ASSUME NEW s \in AgentShape, NEW W \in SUBSET Lookups, NEW g \in BOOLEAN, NEW i, NEW v \in Values
  PROVE  /\ Answered(s, W, i, v, g) \in AgentShape
         /\ Answered(s, W, i, v, g).operations = s.operations \cup W
         /\ Answered(s, W, i, v, g).pending = s.pending
         /\ Answered(s, W, i, v, g).outputs = Put(s.outputs, i, v)
         /\ Answered(s, W, i, v, g).round = s.round /\ Answered(s, W, i, v, g).forced = s.forced
<1>1. s.outputs \in Seq(Values) /\ s.operations \cup W \in SUBSET Lookups  BY DEF AgentShape
<1>2. PICK q \in Seq(Values) : q = Put(s.outputs, i, v)  BY <1>1, PutType
<1>3. PICK ops \in SUBSET Lookups : ops = s.operations \cup W  BY <1>1
<1>4. Answered(s, W, i, v, g) = [s EXCEPT !.operations = ops, !.outputs = q, !.guided = g]
  BY <1>2, <1>3 DEF Answered
<1>5. [s EXCEPT !.operations = ops, !.outputs = q, !.guided = g] \in AgentShape  BY DEF AgentShape
<1>6. QED  BY <1>2, <1>3, <1>4, <1>5 DEF AgentShape

\* Position i leaves the calls being executed, or gets an output without having been one.
LEMMA AnswerStep ==
  ASSUME ALInv, NEW i, NEW value \in Values, at = "batch", at' = at, i \in Whole(agent.pending),
         NEW W \in SUBSET Lookups,
         agent' \in AgentShape, agent'.operations = agent.operations \cup W,
         agent'.pending = agent.pending, agent'.outputs = Put(agent.outputs, i, value),
         agent'.round = agent.round, agent'.forced = agent.forced,
         saved' = agent', UNCHANGED providers, working' = working \ {i},
         i \in working => agent.pending[i] \in W \cup Weather
  PROVE  ALInv'
<1>1. agent \in AgentShape  BY DEF ALInv, ALShapes
<1>3. /\ agent' \in AgentShape /\ agent'.operations = agent.operations \cup W
      /\ agent'.pending = agent.pending /\ agent'.outputs = Put(agent.outputs, i, value)
      /\ agent'.round = agent.round /\ agent'.forced = agent.forced
  OBVIOUS
<1>4. ALShapes' /\ LedgerIsSaved'  BY <1>3 DEF ALInv, ALShapes, LedgerIsSaved, providers
<1>5. Offered(agent)' = Offered(agent)  BY <1>3 DEF Offered, ReportOnly
<1>6. ASSUME NEW k \in working'
      PROVE  k \in Whole(agent'.pending) /\ agent'.pending[k] \in Lookups
               /\ ~Malformed(agent'.pending) /\ OutputOf(k)' = NoValue
  <2>1. /\ k \in working /\ k # i /\ k \in Whole(agent.pending) /\ agent.pending[k] \in Lookups
        /\ ~Malformed(agent.pending) /\ OutputOf(k) = NoValue
    BY <1>6 DEF ALInv, WorkIsPending
  <2>2. agent'.outputs[k] = agent.outputs[k]
    <3>1. agent.outputs \in Seq(Values)  BY <1>1 DEF AgentShape
    <3>2. QED  BY <1>3, <2>1, <3>1, PutType
  <2>3. QED  BY <1>3, <1>5, <2>1, <2>2 DEF OutputOf
<1>7. WorkIsPending'  BY <1>6 DEF WorkIsPending
<1>8. ASSUME NEW o \in Lookups \ Weather
      PROVE  /\ sent'[o] <= 1 + lost'[o]
             /\ o \notin Sending' /\ o \notin agent'.operations => sent'[o] <= lost'[o]
  <2>1. /\ sent[o] <= 1 + lost[o] /\ sent'[o] = sent[o] /\ lost'[o] = lost[o]
        /\ o \notin Sending /\ o \notin agent.operations => sent[o] <= lost[o]
    BY DEF ALInv, Counted, providers
  <2>2. ASSUME o \notin Sending', o \notin agent'.operations PROVE o \notin Sending
    <3>1. o \notin W /\ Sending' = {agent.pending[k] : k \in working \ {i}} \cap Lookups
      BY <1>3, <2>2 DEF Sending
    <3>2. QED  BY <2>2, <3>1 DEF Sending
  <2>3. QED  BY <1>3, <2>1, <2>2
<1>9. Counted'  BY <1>8 DEF Counted
<1>10. QED  BY <1>4, <1>7, <1>9 DEF ALInv

LEMMA SendStep ==
  ASSUME ALInv, NEW i, SendLookup(i)
  PROVE  ALInv'
<1> DEFINE o == agent.pending[i]
<1>1. /\ o \in Lookups /\ working' = working \cup {i} /\ sent' = [sent EXCEPT ![o] = @ + 1]
      /\ agent' = agent /\ saved' = saved /\ at' = at /\ lost' = lost
      /\ o \notin agent.operations /\ at = "batch" /\ ~Malformed(agent.pending)
      /\ i \in Whole(agent.pending) /\ OutputOf(i) = NoValue
      /\ \A k \in working : agent.pending[k] # o
  BY DEF SendLookup, InTurn, Free, Remembered
<1>2. ALShapes' /\ LedgerIsSaved'  BY <1>1 DEF ALInv, ALShapes, LedgerIsSaved
<1>3. WorkIsPending'  BY <1>1 DEF ALInv, WorkIsPending, OutputOf, Offered, ReportOnly
<1>4. o \notin Sending /\ Sending' = Sending \cup {o}  BY <1>1 DEF Sending
<1>5. ASSUME NEW x \in Lookups \ Weather
      PROVE  /\ sent'[x] <= 1 + lost'[x]
             /\ x \notin Sending' /\ x \notin agent'.operations => sent'[x] <= lost'[x]
  <2>1. /\ sent[x] <= 1 + lost[x] /\ sent[x] \in Nat /\ lost[x] \in Nat
        /\ x \notin Sending /\ x \notin agent.operations => sent[x] <= lost[x]
    BY DEF ALInv, ALShapes, Counted
  <2>2. sent'[x] = IF x = o THEN sent[x] + 1 ELSE sent[x]  BY <1>1 DEF ALInv, ALShapes
  <2> HIDE DEF o
  <2>3. QED  BY <1>1, <1>4, <2>1, <2>2
<1>6. Counted'  BY <1>5 DEF Counted
<1>7. QED  BY <1>2, <1>3, <1>6 DEF ALInv

LEMMA ALStepKeeps == ALInv /\ [ALNext]_alVars => ALInv'
<1> SUFFICES ASSUME ALInv, [ALNext]_alVars PROVE ALInv'  OBVIOUS
<1>1. agent \in AgentShape /\ saved \in AgentShape /\ agent.operations = saved.operations
  BY DEF ALInv, ALShapes, LedgerIsSaved
<1>2. at # "batch" => working = {}  BY DEF ALInv, WorkIsPending
<1>3. CASE EnterLoop
  BY <1>1, <1>2, <1>3, IdleStep DEF EnterLoop
<1>4. CASE Interrupted
  BY <1>1, <1>4, LeaveStep DEF Interrupted, Keeps
<1>5. CASE WorkerDies
  BY <1>1, <1>5, LeaveStep DEF WorkerDies
<1>6. CASE SavedWithTurn
  BY <1>1, <1>6 DEF SavedWithTurn, ALInv, ALShapes, LedgerIsSaved, WorkIsPending, Counted, Sending,
                    OutputOf, Offered, ReportOnly, providers
<1>7. CASE AskModel
  <2>1. /\ agent' = [agent EXCEPT !.round = @ + 1, !.forced = @ \/ agent.stalled >= 3]
        /\ saved' = saved /\ working' = working /\ UNCHANGED providers /\ at # "batch"
    BY <1>7 DEF AskModel
  <2>2. PICK b \in BOOLEAN : b = (agent.forced \/ agent.stalled >= 3)  OBVIOUS
  <2>3. agent.round + 1 \in Nat  BY <1>1 DEF AgentShape
  <2>4. agent' = [agent EXCEPT !.round = agent.round + 1, !.forced = b]  BY <2>1, <2>2
  <2>5. [agent EXCEPT !.round = agent.round + 1, !.forced = b] \in AgentShape
    BY <1>1, <2>3 DEF AgentShape
  <2>6. agent'.operations = agent.operations  BY <1>1, <2>4 DEF AgentShape
  <2>7. QED  BY <1>1, <1>2, <2>1, <2>4, <2>5, <2>6, IdleStep
<1>8. CASE GiveUp
  BY <1>1, <1>2, <1>8, IdleStep DEF GiveUp
<1>9. CASE NoCalls
  <2>1. /\ agent' = [agent EXCEPT !.stalled = @ + 1] /\ saved' = agent'
        /\ working' = working /\ UNCHANGED providers /\ at # "batch"
    BY <1>9 DEF NoCalls, Keeps
  <2> DEFINE s == agent
  <2>2. s \in AgentShape  BY <1>1
  <2> HIDE DEF s
  <2>3. [s EXCEPT !.stalled = @ + 1] \in AgentShape /\ [s EXCEPT !.stalled = @ + 1].operations = s.operations
    BY <2>2 DEF AgentShape
  <2>4. agent' \in AgentShape /\ agent'.operations = agent.operations
    BY <2>1, <2>3 DEF s
  <2>5. QED  BY <1>1, <1>2, <2>1, <2>4, IdleStep
<1>10. ASSUME NEW batch \in Batches, TakeCalls(batch) PROVE ALInv'
  <2>1. /\ agent' = [agent EXCEPT !.pending = batch, !.outputs = Blank(batch)] /\ saved' = agent'
        /\ working' = working /\ UNCHANGED providers /\ at # "batch"
    BY <1>10 DEF TakeCalls, Keeps, CallsAccepted
  <2>2. agent' \in AgentShape /\ agent'.operations = agent.operations
    BY <1>1, <2>1, BlankType DEF AgentShape
  <2>3. QED  BY <1>1, <1>2, <2>1, <2>2, IdleStep
<1>11. CASE ResumeBatch
  BY <1>1, <1>2, <1>11, IdleStep DEF ResumeBatch
<1>12. CASE CloseBatch
  <2> DEFINE values == IF Malformed(agent.pending) THEN {"error"}
                       ELSE {OutputOf(i) : i \in Whole(agent.pending)}
             ends == values = {"terminal"}
             s == Accounted(agent, values)
             n == ReportErrors(agent, values)
  <2>1. /\ at = "batch" /\ NoValue \notin values
        /\ agent' = [s EXCEPT !.errors = @ + n, !.pending = <<>>, !.outputs = <<>>, !.terminal = ends]
        /\ saved' = agent' /\ working' = working /\ UNCHANGED providers
    BY <1>12 DEF CloseBatch, Keeps
  <2>2. working = {}
    BY <2>1 DEF ALInv, WorkIsPending
  <2>3. s \in AgentShape /\ s.operations = agent.operations /\ n \in Nat /\ ends \in BOOLEAN
    BY <1>1, AccountedShape, Positions
  <2>4. PICK b \in BOOLEAN : b = ends  BY <2>3
  <2> HIDE DEF s, n, ends, values
  <2>5. s.errors + n \in Nat  BY <2>3 DEF AgentShape
  <2>6. PICK m \in Nat : m = s.errors + n  BY <2>5
  <2>7. agent' = [s EXCEPT !.errors = m, !.pending = <<>>, !.outputs = <<>>, !.terminal = b]
    BY <2>1, <2>4, <2>6, <2>3 DEF AgentShape
  <2>8. s \in AgentShape /\ <<>> \in Seq(Values)  BY <2>3
  <2>9. [s EXCEPT !.errors = m, !.pending = <<>>, !.outputs = <<>>, !.terminal = b] \in AgentShape
    BY <2>8 DEF AgentShape
  <2>10. agent' \in AgentShape  BY <2>7, <2>9
  <2>11. agent'.operations = agent.operations  BY <2>3, <2>7 DEF AgentShape
  <2>12. QED  BY <1>1, <2>1, <2>2, <2>10, <2>11, IdleStep
<1>13. ASSUME NEW i \in 1..MaxCalls, SendLookup(i) PROVE ALInv'
  BY <1>13, SendStep
<1>14. ASSUME NEW i \in 1..MaxCalls, LookupIsRejected(i) PROVE ALInv'
  <2>1. i \in working /\ agent.pending[i] \in Weather /\ working' = working \ {i}
          /\ agent' = [agent EXCEPT !.outputs[i] = "error"] /\ saved' = agent'
          /\ at' = at /\ UNCHANGED providers
    BY <1>14 DEF LookupIsRejected, Keeps
  <2>2. at = "batch" /\ i \in Whole(agent.pending)  BY <2>1 DEF ALInv, WorkIsPending
  <2>3. agent.guided \in BOOLEAN /\ "error" \in Values  BY <1>1 DEF AgentShape, Values
  <2>4. agent' = Answered(agent, {}, i, "error", agent.guided)
    BY <1>1, <2>1 DEF AgentShape, Answered, Put
  <2>5. PICK W \in SUBSET Lookups : W = {}  OBVIOUS
  <2>6. /\ agent' \in AgentShape /\ agent'.operations = agent.operations \cup W
        /\ agent'.pending = agent.pending /\ agent'.outputs = Put(agent.outputs, i, "error")
        /\ agent'.round = agent.round /\ agent'.forced = agent.forced
    <3>1. /\ Answered(agent, W, i, "error", agent.guided) \in AgentShape
          /\ Answered(agent, W, i, "error", agent.guided).operations = agent.operations \cup W
          /\ Answered(agent, W, i, "error", agent.guided).pending = agent.pending
          /\ Answered(agent, W, i, "error", agent.guided).outputs = Put(agent.outputs, i, "error")
          /\ Answered(agent, W, i, "error", agent.guided).round = agent.round /\ Answered(agent, W, i, "error", agent.guided).forced = agent.forced
      BY <1>1, <2>2, <2>3, AnsweredShape
    <3>2. agent' = Answered(agent, W, i, "error", agent.guided)  BY <2>4, <2>4, <2>5
    <3>3. QED  BY <3>1, <3>2
  <2>7. QED  BY <2>1, <2>2, <2>3, <2>6, AnswerStep
<1>15. ASSUME NEW i \in 1..MaxCalls, NEW value \in {"found", "empty", "error"}, LookupAnswers(i, value)
       PROVE  ALInv'
  <2>1. i \in working /\ working' = working \ {i} /\ saved' = agent' /\ at' = at /\ UNCHANGED providers
          /\ agent' = [agent EXCEPT !.operations = @ \cup {agent.pending[i]}, !.outputs[i] = value]
    BY <1>15 DEF LookupAnswers, Keeps
  <2>2. at = "batch" /\ i \in Whole(agent.pending) /\ agent.pending[i] \in Lookups
    BY <2>1 DEF ALInv, WorkIsPending
  <2>3. agent.guided \in BOOLEAN /\ value \in Values  BY <1>1 DEF AgentShape, Values
  <2>4. PICK W \in SUBSET Lookups : W = {agent.pending[i]}  BY <2>2
  <2>5. agent' = Answered(agent, W, i, value, agent.guided)
    BY <1>1, <2>1, <2>4 DEF AgentShape, Answered, Put
  <2>6. /\ agent' \in AgentShape /\ agent'.operations = agent.operations \cup W
        /\ agent'.pending = agent.pending /\ agent'.outputs = Put(agent.outputs, i, value)
        /\ agent'.round = agent.round /\ agent'.forced = agent.forced
    <3>1. /\ Answered(agent, W, i, value, agent.guided) \in AgentShape
          /\ Answered(agent, W, i, value, agent.guided).operations = agent.operations \cup W
          /\ Answered(agent, W, i, value, agent.guided).pending = agent.pending
          /\ Answered(agent, W, i, value, agent.guided).outputs = Put(agent.outputs, i, value)
          /\ Answered(agent, W, i, value, agent.guided).round = agent.round /\ Answered(agent, W, i, value, agent.guided).forced = agent.forced
      BY <1>1, <2>2, <2>3, AnsweredShape
    <3>2. agent' = Answered(agent, W, i, value, agent.guided)  BY <2>5, <2>4, <2>5
    <3>3. QED  BY <3>1, <3>2
  <2>7. QED  BY <2>1, <2>2, <2>3, <2>4, <2>6, AnswerStep
<1>16. ASSUME NEW i \in 1..MaxCalls, NEW value \in Values, AnswerCall(i, value) PROVE ALInv'
  <2>1. /\ i \notin working /\ i \in Whole(agent.pending) /\ at = "batch" /\ at' = at
        /\ working' = working /\ saved' = agent' /\ UNCHANGED providers
        /\ agent' = [agent EXCEPT !.outputs[i] = value, !.guided = @ \/ value = "guide"]
    BY <1>16 DEF AnswerCall, InTurn, Keeps
  <2>2. PICK g \in BOOLEAN : g = (agent.guided \/ value = "guide")  BY <1>1 DEF AgentShape
  <2>3. agent' = Answered(agent, {}, i, value, g)
    BY <1>1, <2>1, <2>2 DEF AgentShape, Answered, Put
  <2>4. working' = working \ {i}  BY <2>1
  <2>5. PICK W \in SUBSET Lookups : W = {}  OBVIOUS
  <2>6. /\ agent' \in AgentShape /\ agent'.operations = agent.operations \cup W
        /\ agent'.pending = agent.pending /\ agent'.outputs = Put(agent.outputs, i, value)
        /\ agent'.round = agent.round /\ agent'.forced = agent.forced
    <3>1. /\ Answered(agent, W, i, value, g) \in AgentShape
          /\ Answered(agent, W, i, value, g).operations = agent.operations \cup W
          /\ Answered(agent, W, i, value, g).pending = agent.pending
          /\ Answered(agent, W, i, value, g).outputs = Put(agent.outputs, i, value)
          /\ Answered(agent, W, i, value, g).round = agent.round /\ Answered(agent, W, i, value, g).forced = agent.forced
      BY <1>1, AnsweredShape
    <3>2. agent' = Answered(agent, W, i, value, g)  BY <2>3, <2>4, <2>5
    <3>3. QED  BY <3>1, <3>2
  <2>7. QED  BY <2>1, <2>2, <2>4, <2>6, AnswerStep
<1>17. CASE UNCHANGED alVars
  BY <1>17 DEF alVars, ALInv, ALShapes, LedgerIsSaved, WorkIsPending, Counted, Sending,
               OutputOf, Offered, ReportOnly
<1>18. QED
  BY <1>3, <1>4, <1>5, <1>6, <1>7, <1>8, <1>9, <1>10, <1>11, <1>12, <1>13, <1>14, <1>15, <1>16,
     <1>17 DEF ALNext

\* A query goes to its provider again only if an attempt ended before its answer was
\* saved, for any batches, rounds and number of attempts (engine.py:786-806).
THEOREM LookupsGoOnce == ALSpec => []LookupsAreSentOnce
<1>1. ALInv => LookupsAreSentOnce  BY DEF ALInv, Counted, LookupsAreSentOnce
<1>2. QED  BY <1>1, ALStarts, ALStepKeeps, PTL DEF ALSpec

-----------------------------------------------------------------------------
(* Attachments.  A ready attachment is whole and no answer misses a text:  *)
(* a row becomes ready once, from its own upload, and what was ready and   *)
(* is gone never returns.                                                  *)

\* Only an upload makes a row, so that a deleted one stays away; the object is
\* there until the upload has told its row to be ready.
RowsSound == \A f \in Files :
  /\ row[f] # "none" \/ f \in deleting => upload[f] \notin {"new", "saved"}
  /\ f \in deleting => row[f] = "none"
  /\ upload[f] = "saved" => f \in stored
  /\ row[f] = "processing" /\ upload[f] = "created" => f \in stored

\* Once ready, a file is ready or it has failed or is gone.
WasReady(f) == upload[f] \notin {"new", "saved"} /\ row[f] \in {"ready", "failed", "none"}
IsGone(f) == upload[f] \notin {"new", "saved"} /\ row[f] \in {"failed", "none"}

\* A request that reads was to see what was ready; a text it missed is gone.
Reads(s) ==
  IF s.at = "reading"
    THEN /\ s.todo \cup s.texts \subseteq s.ids
         /\ \A f \in s.ids : WasReady(f) /\ (f \notin s.todo \cup s.texts => IsGone(f))
    ELSE s.todo = {}
ReadingSound == \A q \in Sends : Reads(send[q])

ATInv == ATTypeOK /\ RowsSound /\ ReadyIsWhole /\ ReadingSound /\ AnswersSawTexts

LEMMA ATStarts == ATInit => ATInv
  BY DEF ATInit, ATInv, ATTypeOK, RowsSound, ReadyIsWhole, ReadingSound, AnswersSawTexts,
         Reads, Send, Message

-----------------------------------------------------------------------------
(* The steps of uploads, deletions and the clock.                          *)

FileStep(f) ==
  \/ SaveObject(f) \/ CreateRow(f) \/ CreateFails(f) \/ ParseFails(f)
  \/ Complete(f) \/ CompleteFails(f) \/ PersistFailed(f) \/ UploadDies(f)
  \/ DeleteRow(f) \/ DeleteObject(f) \/ Expires(f)

\* Whatever a step on a file does, it leaves the requests alone and does not bring back
\* what was ready.
LEMMA FileMoves ==
  ASSUME ATTypeOK, RowsSound, NEW f \in Files, FileStep(f)
  PROVE  /\ send' = send
         /\ \A g \in Files : (WasReady(g) => WasReady(g)') /\ (IsGone(g) => IsGone(g)')
<1>1. send' = send
  BY DEF FileStep, SaveObject, CreateRow, CreateFails, ParseFails, Complete, CompleteFails,
         PersistFailed, UploadDies, DeleteRow, DeleteObject, Expires, chat
<1>2. upload \in [Files -> {"new", "done", "dead"} \cup Uploading]
        /\ row \in [Files -> {"none", "processing", "ready", "failed"}]
  BY DEF ATTypeOK
<1> SUFFICES ASSUME NEW g \in Files
             PROVE  (WasReady(g) => WasReady(g)') /\ (IsGone(g) => IsGone(g)')
  BY <1>1
<1>3. CASE SaveObject(f)  BY <1>2, <1>3 DEF SaveObject, Goes, WasReady, IsGone
<1>4. CASE CreateRow(f)  BY <1>2, <1>4 DEF CreateRow, Goes, WasReady, IsGone
<1>5. CASE CreateFails(f)  BY <1>2, <1>5 DEF CreateFails, Goes, WasReady, IsGone
<1>6. CASE ParseFails(f)  BY <1>2, <1>6 DEF ParseFails, Goes, MarkedFailed, WasReady, IsGone
<1>7. CASE Complete(f)  BY <1>2, <1>7 DEF Complete, Goes, Completed, WasReady, IsGone
<1>8. CASE CompleteFails(f)
  BY <1>2, <1>8 DEF CompleteFails, Goes, Completed, WasReady, IsGone
<1>9. CASE PersistFailed(f)
  BY <1>2, <1>9 DEF PersistFailed, Goes, MarkedFailed, WasReady, IsGone
<1>10. CASE UploadDies(f)  BY <1>2, <1>10 DEF UploadDies, Uploading, WasReady, IsGone
<1>11. CASE DeleteRow(f)  BY <1>2, <1>11 DEF DeleteRow, WasReady, IsGone
<1>12. CASE DeleteObject(f)  BY <1>12 DEF DeleteObject, WasReady, IsGone
<1>13. CASE Expires(f)  BY <1>13 DEF Expires, WasReady, IsGone
<1> QED  BY <1>3, <1>4, <1>5, <1>6, <1>7, <1>8, <1>9, <1>10, <1>11, <1>12, <1>13
         DEF FileStep

\* ... keeps the types,
LEMMA FileTypes ==
  ASSUME ATTypeOK, NEW f \in Files, FileStep(f)
  PROVE  ATTypeOK'
<1>1. /\ upload \in [Files -> {"new", "done", "dead"} \cup Uploading]
      /\ row \in [Files -> {"none", "processing", "ready", "failed"}]
      /\ stored \subseteq Files /\ deleting \subseteq Files
      /\ text \subseteq Files /\ expired \subseteq Files
      /\ send \in [Sends -> Send] /\ message \in [Sends -> Message]
  BY DEF ATTypeOK
<1> USE DEF ATTypeOK, Uploading
<1>2. CASE SaveObject(f)  BY <1>1, <1>2 DEF SaveObject, Goes, chat
<1>3. CASE CreateRow(f)  BY <1>1, <1>3 DEF CreateRow, Goes, chat
<1>4. CASE CreateFails(f)  BY <1>1, <1>4 DEF CreateFails, Goes, chat
<1>5. CASE ParseFails(f)  BY <1>1, <1>5 DEF ParseFails, Goes, MarkedFailed, chat
<1>6. CASE Complete(f)  BY <1>1, <1>6 DEF Complete, Goes, Completed, chat
<1>7. CASE CompleteFails(f)  BY <1>1, <1>7 DEF CompleteFails, Goes, Completed, chat
<1>8. CASE PersistFailed(f)  BY <1>1, <1>8 DEF PersistFailed, Goes, MarkedFailed, chat
<1>9. CASE UploadDies(f)  BY <1>1, <1>9 DEF UploadDies, chat
<1>10. CASE DeleteRow(f)
  <2>1. \A q \in Sends : [message[q] EXCEPT !.bound = @ \ {f}] \in Message
    BY <1>1 DEF Message
  <2>2. message' \in [Sends -> Message]  BY <2>1, <1>10 DEF DeleteRow
  <2> QED  BY <1>1, <1>10, <2>2 DEF DeleteRow
<1>11. CASE DeleteObject(f)  BY <1>1, <1>11 DEF DeleteObject, chat
<1>12. CASE Expires(f)  BY <1>1, <1>12 DEF Expires, chat
<1> QED  BY <1>2, <1>3, <1>4, <1>5, <1>6, <1>7, <1>8, <1>9, <1>10, <1>11, <1>12
         DEF FileStep

\* ... and keeps rows, texts and objects together.
LEMMA FileRows ==
  ASSUME ATTypeOK, RowsSound, ReadyIsWhole, NEW f \in Files, FileStep(f)
  PROVE  RowsSound' /\ ReadyIsWhole'
<1>1. upload \in [Files -> {"new", "done", "dead"} \cup Uploading]
        /\ row \in [Files -> {"none", "processing", "ready", "failed"}]
  BY DEF ATTypeOK
<1> SUFFICES ASSUME NEW g \in Files
             PROVE  /\ row'[g] # "none" \/ g \in deleting' => upload'[g] \notin {"new", "saved"}
                    /\ g \in deleting' => row'[g] = "none"
                    /\ upload'[g] = "saved" => g \in stored'
                    /\ row'[g] = "processing" /\ upload'[g] = "created" => g \in stored'
                    /\ row'[g] = "ready" => g \in text' /\ g \in stored'
  BY DEF RowsSound, ReadyIsWhole
<1>2. /\ row[g] # "none" \/ g \in deleting => upload[g] \notin {"new", "saved"}
      /\ g \in deleting => row[g] = "none"
      /\ upload[g] = "saved" => g \in stored
      /\ row[g] = "processing" /\ upload[g] = "created" => g \in stored
      /\ row[g] = "ready" => g \in text /\ g \in stored
  BY DEF RowsSound, ReadyIsWhole
<1> USE <1>1, <1>2
<1>3. CASE SaveObject(f)  BY <1>3 DEF SaveObject, Goes
<1>4. CASE CreateRow(f)  BY <1>4 DEF CreateRow, Goes
<1>5. CASE CreateFails(f)  BY <1>5 DEF CreateFails, Goes
<1>6. CASE ParseFails(f)  BY <1>6 DEF ParseFails, Goes, MarkedFailed
<1>7. CASE Complete(f)  BY <1>7 DEF Complete, Goes, Completed
<1>8. CASE CompleteFails(f)  BY <1>8 DEF CompleteFails, Goes, Completed
<1>9. CASE PersistFailed(f)  BY <1>9 DEF PersistFailed, Goes, MarkedFailed
<1>10. CASE UploadDies(f)  BY <1>10 DEF UploadDies
<1>11. CASE DeleteRow(f)  BY <1>11 DEF DeleteRow
<1>12. CASE DeleteObject(f)  BY <1>12 DEF DeleteObject
<1>13. CASE Expires(f)  BY <1>13 DEF Expires
<1> QED  BY <1>3, <1>4, <1>5, <1>6, <1>7, <1>8, <1>9, <1>10, <1>11, <1>12, <1>13
         DEF FileStep

LEMMA FileStepSound ==
  ASSUME ATInv, NEW f \in Files, FileStep(f)
  PROVE  ATInv'
<1>1. ATTypeOK /\ RowsSound /\ ReadyIsWhole /\ ReadingSound /\ AnswersSawTexts  BY DEF ATInv
<1>2. ATTypeOK'  BY <1>1, FileTypes
<1>3. RowsSound' /\ ReadyIsWhole'  BY <1>1, FileRows
<1>4. send' = send
        /\ \A g \in Files : (WasReady(g) => WasReady(g)') /\ (IsGone(g) => IsGone(g)')
  BY <1>1, FileMoves
<1>5. ReadingSound'
  <2> SUFFICES ASSUME NEW q \in Sends PROVE Reads(send[q])'  BY DEF ReadingSound
  <2>1. send[q].ids \subseteq Files  BY <1>1 DEF ATTypeOK, Send
  <2>2. Reads(send[q])  BY <1>1 DEF ReadingSound
  <2> QED  BY <1>4, <2>1, <2>2 DEF Reads
<1>6. AnswersSawTexts'  BY <1>1, <1>4 DEF AnswersSawTexts
<1> QED  BY <1>2, <1>3, <1>5, <1>6 DEF ATInv

-----------------------------------------------------------------------------
(* The steps of a chat request.                                            *)

fileVars == <<upload, stored, deleting, row, text, expired>>

\* A request that is not at its answer, or reads soundly, keeps the rest sound.
LEMMA ChatStepSound ==
  ASSUME ATInv, UNCHANGED fileVars, NEW q \in Sends, NEW s \in Send, ToSend(q, s),
         message' \in [Sends -> Message],
         Reads(s), s.at = "answering" => s.texts = s.ids
  PROVE  ATInv'
<1>1. ATTypeOK /\ RowsSound /\ ReadyIsWhole /\ ReadingSound /\ AnswersSawTexts  BY DEF ATInv
<1>2. send \in [Sends -> Send] /\ send' = [send EXCEPT ![q] = s]
  BY <1>1 DEF ATTypeOK, ToSend
<1>3. send' \in [Sends -> Send] /\ send'[q] = s /\ \A o \in Sends \ {q} : send'[o] = send[o]
  BY <1>2
<1>4. ATTypeOK'  BY <1>1, <1>3 DEF ATTypeOK, fileVars
<1>5. RowsSound' /\ ReadyIsWhole'  BY <1>1 DEF RowsSound, ReadyIsWhole, fileVars
<1>6. \A f \in Files : WasReady(f)' = WasReady(f) /\ IsGone(f)' = IsGone(f)
  BY DEF WasReady, IsGone, fileVars
<1>7. ReadingSound'
  <2> SUFFICES ASSUME NEW o \in Sends PROVE Reads(send[o])'  BY DEF ReadingSound
  <2>1. send'[o].ids \subseteq Files  BY <1>3 DEF Send
  <2>2. Reads(send'[o])
    <3>1. CASE o = q  BY <1>3, <3>1
    <3>2. CASE o # q  BY <1>1, <1>3, <3>2 DEF ReadingSound
    <3> QED  BY <3>1, <3>2
  <2> QED  BY <1>6, <2>1, <2>2 DEF Reads
<1>8. AnswersSawTexts'  BY <1>1, <1>3 DEF AnswersSawTexts
<1> QED  BY <1>4, <1>5, <1>7, <1>8 DEF ATInv

LEMMA SendStepSound ==
  ASSUME ATInv, NEW q \in Sends,
         \/ \E ids \in SUBSET Files : Normalize(q, ids)
         \/ \E f \in Files : ReadText(q, f)
         \/ AppendMessage(q) \/ BindingFails(q)
  PROVE  ATInv'
<1>1. ATTypeOK /\ RowsSound /\ ReadyIsWhole /\ ReadingSound /\ AnswersSawTexts  BY DEF ATInv
<1>2. send[q] \in Send /\ message \in [Sends -> Message]  BY <1>1 DEF ATTypeOK
<1>3. Reads(send[q])  BY <1>1 DEF ReadingSound
<1>4. ASSUME NEW ids \in SUBSET Files, Normalize(q, ids) PROVE ATInv'
  <2> DEFINE s == [at |-> IF Usable(ids) THEN "reading" ELSE "refused", ids |-> ids,
                   todo |-> IF Usable(ids) THEN ids ELSE {}, texts |-> {}]
  <2>1. s \in Send /\ ToSend(q, s) /\ message' = message /\ UNCHANGED fileVars
    BY <1>4 DEF Normalize, Send, fileVars
  <2>2. Usable(ids) => \A f \in ids : WasReady(f)  BY <1>1 DEF Usable, WasReady, RowsSound
  <2>3. Reads(s) /\ s.at # "answering"  BY <2>2 DEF Reads
  <2> HIDE DEF s
  <2> QED  BY <1>2, <2>1, <2>3, ChatStepSound
<1>5. ASSUME NEW f \in Files, ReadText(q, f) PROVE ATInv'
  <2> DEFINE s == [send[q] EXCEPT !.todo = @ \ {f}, !.texts = @ \cup ({f} \cap text)]
  <2>1. s \in Send /\ ToSend(q, s) /\ message' = message /\ UNCHANGED fileVars
    BY <1>2, <1>5 DEF ReadText, Send, fileVars
  <2>2. s.at = send[q].at /\ s.ids = send[q].ids /\ s.todo = send[q].todo \ {f}
          /\ s.texts = send[q].texts \cup ({f} \cap text)
    BY <1>2 DEF Send
  <2>3. send[q].at = "reading"  BY <1>3, <1>5 DEF Reads, ReadText
  \* A text that is missing is that of a file that is not ready any more.
  <2>4. f \in send[q].ids /\ WasReady(f) /\ (f \notin text => IsGone(f))
    BY <1>1, <1>3, <1>5, <2>3 DEF Reads, ReadText, ReadyIsWhole, WasReady, IsGone
  <2>5. Reads(s)
    <3> HIDE DEF s
    <3> QED  BY <1>3, <2>2, <2>3, <2>4 DEF Reads
  <2> HIDE DEF s
  <2> QED  BY <1>2, <2>1, <2>2, <2>3, <2>5, ChatStepSound
<1>6. ASSUME AppendMessage(q) PROVE ATInv'
  <2>1. send[q].at = "reading" /\ send[q].todo = {} /\ Usable(send[q].ids)
    BY <1>6 DEF AppendMessage, Binds
  \* What was missed is gone, and what is bound is ready.
  <2>2. send[q].texts = send[q].ids  BY <1>3, <2>1 DEF Reads, Usable, IsGone
  <2>3. PICK end \in {"answering", "refused"} : ToSend(q, [send[q] EXCEPT !.at = end])
    BY <1>6 DEF AppendMessage
  <2> DEFINE s == [send[q] EXCEPT !.at = end]
  <2>4. s \in Send /\ s.at = end /\ s.todo = {} /\ s.texts = s.ids  BY <1>2, <2>1, <2>2 DEF Send
  <2>5. message' \in [Sends -> Message] /\ UNCHANGED fileVars
    BY <1>2, <1>6 DEF AppendMessage, Appended, Message, Send, fileVars
  <2>6. ToSend(q, s)  BY <2>3
  <2> HIDE DEF s
  <2>7. Reads(s)  BY <2>4 DEF Reads
  <2> QED  BY <2>4, <2>5, <2>6, <2>7, ChatStepSound
<1>7. ASSUME BindingFails(q) PROVE ATInv'
  <2> DEFINE s == [send[q] EXCEPT !.at = "refused"]
  <2>1. s \in Send /\ s.at = "refused" /\ s.todo = {}  BY <1>2, <1>7 DEF BindingFails, Send
  <2>2. ToSend(q, s) /\ message' \in [Sends -> Message] /\ UNCHANGED fileVars
    BY <1>2, <1>7 DEF BindingFails, fileVars
  <2> HIDE DEF s
  <2> QED  BY <2>1, <2>2, ChatStepSound DEF Reads
<1> QED  BY <1>4, <1>5, <1>6, <1>7

LEMMA ATStepKeeps == ATInv /\ [ATNext]_atVars => ATInv'
<1> SUFFICES ASSUME ATInv, [ATNext]_atVars PROVE ATInv'  OBVIOUS
<1>1. CASE UNCHANGED atVars
  BY <1>1 DEF ATInv, ATTypeOK, RowsSound, ReadyIsWhole, ReadingSound, AnswersSawTexts,
              Reads, WasReady, IsGone, atVars
<1>2. ASSUME NEW f \in Files, FileStep(f) PROVE ATInv'  BY <1>2, FileStepSound
<1>3. ASSUME NEW q \in Sends,
             \/ \E ids \in SUBSET Files : Normalize(q, ids)
             \/ \E f \in Files : ReadText(q, f)
             \/ AppendMessage(q) \/ BindingFails(q)
      PROVE  ATInv'
  BY <1>3, SendStepSound
<1>4. ATNext => \/ \E f \in Files : FileStep(f)
                \/ \E q \in Sends :
                     \/ \E ids \in SUBSET Files : Normalize(q, ids)
                     \/ \E f \in Files : ReadText(q, f)
                     \/ AppendMessage(q) \/ BindingFails(q)
  BY DEF ATNext, FileStep
<1> QED  BY <1>1, <1>2, <1>3, <1>4

-----------------------------------------------------------------------------
\* What is shown as ready has its text and its object, for any number of files,
\* uploads that die and deletions (multimodal/service.py:100-190).
THEOREM ReadyFilesAreWhole == ATSpec => []ReadyIsWhole
<1>1. ATInv => ReadyIsWhole  BY DEF ATInv
<1> QED  BY ATStarts, ATStepKeeps, <1>1, PTL DEF ATSpec

\* The Supervisor answers only with every text it was to see, however many requests
\* are repeated while files are deleted (multimodal/service.py, SessionRepository.java).
THEOREM AnswersReadAll == ATSpec => []AnswersSawTexts
<1>1. ATInv => AnswersSawTexts  BY DEF ATInv
<1> QED  BY ATStarts, ATStepKeeps, <1>1, PTL DEF ATSpec

-----------------------------------------------------------------------------
(* Accounts.  A code is numbered when it is stored and used up when it     *)
(* admits a registration, and a row of a transaction that is not committed *)
(* keeps the others from writing it.                                       *)

\* The requests that were given a code, which are numbered as they are given.
Given == {m \in Mailers : mailer[m].code # NoCode}

\* A request for a code has its email once it is admitted, and its code later.
Mailing == \A m \in Mailers :
  /\ mailer[m].at \in {"cooled", "stored", "reset"} => mailer[m].email \in Emails
  /\ mailer[m].at \in {"new", "cooled"} => mailer[m].code = NoCode
  /\ mailer[m].at = "reset" => mailer[m].code # NoCode
  /\ mailer[m].at = "stored" => mailer[m].code # NoCode
  /\ mailer[m].code <= Cardinality(Given)

\* A code that is still stored admitted nobody, and is stored once.
LiveCodes ==
  /\ \A e \in Emails : code[e] <= Cardinality(Given)
  /\ \A p \in verified : p[1] <= Cardinality(Given)
  /\ \A e, f \in Emails : code[e] = code[f] /\ code[e] # NoCode => e = f
  /\ \A e \in Emails : code[e] # NoCode => \A r \in Registrations : <<code[e], r>> \notin verified
  /\ \A p, q \in verified : p[1] = q[1] => p = q

\* A registration that got past the code has one that was mailed to it.
Paying == \A r \in Registrations :
  /\ reg[r].at # "new" => reg[r].email \in Emails /\ reg[r].invite \in Invites
  /\ reg[r].at \in {"verified", "created", "consumed", "done"} =>
       \E c \in Codes : <<reg[r].email, c>> \in mailed /\ <<c, r>> \in verified

\* The rows a transaction has written and not committed are its own.
Locks == \A r \in Registrations :
  /\ reg[r].at \in {"created", "consumed"} =>
       /\ account[reg[r].email] = NoOne
       /\ \A s \in Registrations \ {r} :
            reg[s].at \in {"created", "consumed"} => reg[s].email # reg[r].email
  /\ reg[r].at = "consumed" =>
       /\ used[reg[r].invite] = NoOne
       /\ \A s \in Registrations \ {r} : reg[s].at = "consumed" => reg[s].invite # reg[r].invite

\* The committed rows of an account name each other.
Rows ==
  /\ \A e \in Emails : account[e] # NoOne =>
       /\ reg[account[e]].at = "done" /\ reg[account[e]].email = e
       /\ used[reg[account[e]].invite] = account[e]
  /\ \A i \in Invites : used[i] # NoOne =>
       /\ reg[used[i]].at = "done" /\ reg[used[i]].invite = i
       /\ account[reg[used[i]].email] = used[i]

\* The inductive invariant of the accounts.
RGInv == RGTypeOK /\ Mailing /\ LiveCodes /\ Paying /\ Locks /\ Rows

\* The first state: nothing is given out.
LEMMA RGStarts == RGInit => RGInv
<1> SUFFICES ASSUME RGInit PROVE RGInv
    OBVIOUS
<1> USE DEF RGInit, NoCode
<1>1. Given = {}
    BY DEF Given
<1>2. Cardinality(Given) = 0
    BY <1>1, FS_EmptySet
<1>3. RGTypeOK
    BY RegistrationAssumption DEF RGTypeOK, Mailer, Registration
<1>4. Mailing /\ LiveCodes
    BY <1>2 DEF Mailing, LiveCodes
<1>5. Paying /\ Locks /\ Rows
    BY DEF Paying, Locks, Rows
<1> QED BY <1>3, <1>4, <1>5 DEF RGInv

\* The numbers of the codes: how many there are, and that a request without
\* one still finds a number (NextCode).
LEMMA GivenIsFinite ==
  /\ IsFiniteSet(Given)
  /\ Cardinality(Given) \in Nat
  /\ Codes \subseteq Nat \ {NoCode}
  /\ Cardinality(Mailers) \in Nat
  /\ NextCode = 1 + Cardinality(Given)
<1>1. Given \subseteq Mailers
    BY DEF Given
<1>2. IsFiniteSet(Given)
    BY <1>1, FS_Subset, RegistrationAssumption
<1> QED BY <1>2, FS_CardinalityType, RegistrationAssumption DEF Codes, NoCode, NextCode, Given

LEMMA CodesSuffice ==
  ASSUME NEW m \in Mailers, mailer[m].code = NoCode
  PROVE  NextCode \in Codes /\ Cardinality(Given \cup {m}) = NextCode
<1>1. m \notin Given
    BY DEF Given
<1>2. Cardinality(Given \cup {m}) = Cardinality(Given) + 1
    BY <1>1, GivenIsFinite, FS_AddElement
<1>3. Cardinality(Given \cup {m}) <= Cardinality(Mailers)
    BY FS_Subset, RegistrationAssumption DEF Given
<1> QED BY <1>2, <1>3, GivenIsFinite DEF Codes

\* What a request for a code does to the requests, when it gives out no code.
LEMMA MailerGoesOn ==
  ASSUME RGInv, NEW m \in Mailers, NEW a, NEW e,
         mailer' = [mailer EXCEPT ![m] = [@ EXCEPT !.at = a, !.email = e]],
         a \in {"cooled", "reset", "done"}, e \in Emails \/ (a = "done" /\ e \in Emails \cup {NoOne}),
         a = "cooled" => mailer[m].code = NoCode,
         a = "reset" => mailer[m].code # NoCode
  PROVE  mailer' \in [Mailers -> Mailer] /\ Mailing' /\ Given' = Given
<1>1. mailer \in [Mailers -> Mailer] /\ Mailing
    BY DEF RGInv, RGTypeOK
<1>2. PICK r \in Mailer : r = [mailer[m] EXCEPT !.at = a, !.email = e]
  <2>1. mailer[m] \in Mailer
      BY <1>1
  <2> QED BY <2>1 DEF Mailer
<1>3. r.at = a /\ r.email = e /\ r.code = mailer[m].code
    BY <1>1, <1>2 DEF Mailer
<1>4. mailer' = [mailer EXCEPT ![m] = r]
    BY <1>2
<1>5. mailer' \in [Mailers -> Mailer]
    BY <1>1, <1>4
<1>6. \A n \in Mailers : mailer'[n] = IF n = m THEN r ELSE mailer[n]
    BY <1>1, <1>4
<1>7. \A n \in Mailers : mailer'[n].code = mailer[n].code
    BY <1>3, <1>6
<1>8. Given' = Given
    BY <1>7 DEF Given
<1>9. Mailing'
  <2> SUFFICES ASSUME NEW n \in Mailers
               PROVE /\ mailer'[n].at \in {"cooled", "stored", "reset"} => mailer'[n].email \in Emails
                     /\ mailer'[n].at \in {"new", "cooled"} => mailer'[n].code = NoCode
                     /\ mailer'[n].at = "reset" => mailer'[n].code # NoCode
                     /\ mailer'[n].at = "stored" => mailer'[n].code # NoCode
                     /\ mailer'[n].code <= Cardinality(Given)
      BY <1>8 DEF Mailing
  <2>1. CASE n = m
      BY <2>1, <1>1, <1>3, <1>6 DEF Mailing
  <2>2. CASE n # m
      BY <2>2, <1>1, <1>6 DEF Mailing
  <2> QED BY <2>1, <2>2
<1> QED BY <1>5, <1>8, <1>9

\* A request for a code that gives out none leaves the accounts alone.
LEMMA MailersKeepAccounts ==
  ASSUME RGInv, mailer' \in [Mailers -> Mailer], Mailing', Given' = Given,
         UNCHANGED <<code, reg, tables, verified>>,
         cooldown' \subseteq Emails, attempts' \in [Emails -> 0..MaxEntries],
         mailed \subseteq mailed', mailed' \subseteq Emails \X Codes
  PROVE  RGInv'
<1> USE DEF tables
<1>1. RGTypeOK'
    BY DEF RGInv, RGTypeOK
<1>2. LiveCodes'
    BY DEF RGInv, LiveCodes
<1>3. Paying'
    BY DEF RGInv, Paying
<1>4. Locks' /\ Rows'
    BY DEF RGInv, Locks, Rows
<1> QED BY <1>1, <1>2, <1>3, <1>4 DEF RGInv

\* The requests for a code, but for the one step that stores a code.
LEMMA MailersAreSound ==
  ASSUME RGInv, NEW m \in Mailers,
         \/ Decline(m) \/ ResetAttempts(m) \/ SendMail(m) \/ MailerFails(m)
         \/ \E e \in Emails : StartCooldown(m, e)
  PROVE  RGInv'
<1>1. /\ mailer \in [Mailers -> Mailer] /\ cooldown \subseteq Emails /\ attempts \in [Emails -> 0..MaxEntries]
      /\ mailed \subseteq Emails \X Codes /\ Mailing /\ MaxEntries \in Nat
    BY RegistrationAssumption DEF RGInv, RGTypeOK
<1>2. mailer[m] \in Mailer
    BY <1>1
<1>3. mailer[m].email \in Emails \cup {NoOne}
    BY <1>2 DEF Mailer
<1>4. ASSUME NEW a, mailer' = [mailer EXCEPT ![m].at = a]
      PROVE  mailer' = [mailer EXCEPT ![m] = [@ EXCEPT !.at = a, !.email = mailer[m].email]]
  <2>1. [mailer[m] EXCEPT !.at = a] = [mailer[m] EXCEPT !.at = a, !.email = mailer[m].email]
      BY <1>2 DEF Mailer
  <2> QED BY <2>1, <1>4
<1>5. CASE Decline(m)
  <2>1. mailer' \in [Mailers -> Mailer] /\ Mailing' /\ Given' = Given
      BY <1>3, <1>4, <1>5, MailerGoesOn DEF Decline, MailerTo
  <2> QED BY <2>1, <1>1, <1>5, MailersKeepAccounts DEF Decline, redis
<1>6. CASE MailerFails(m)
  <2>1. mailer' \in [Mailers -> Mailer] /\ Mailing' /\ Given' = Given
      BY <1>3, <1>4, <1>6, MailerGoesOn DEF MailerFails, MailerTo
  <2> QED BY <2>1, <1>1, <1>6, MailersKeepAccounts DEF MailerFails, redis
<1>7. CASE ResetAttempts(m)
  <2>1. mailer[m].email \in Emails /\ mailer[m].code # NoCode
      BY <1>1, <1>7 DEF Mailing, ResetAttempts
  <2>2. mailer' \in [Mailers -> Mailer] /\ Mailing' /\ Given' = Given
      BY <2>1, <1>4, <1>7, MailerGoesOn DEF ResetAttempts, MailerTo
  <2>3. attempts' \in [Emails -> 0..MaxEntries]
      BY <1>1, <1>7, <2>1 DEF ResetAttempts
  <2> QED BY <2>2, <2>3, <1>1, <1>7, MailersKeepAccounts DEF ResetAttempts
<1>8. CASE SendMail(m)
  <2>1. mailer[m].email \in Emails /\ mailer[m].code \in Codes
      BY <1>1, <1>2, <1>8 DEF Mailing, SendMail, Mailer
  <2>2. mailer' \in [Mailers -> Mailer] /\ Mailing' /\ Given' = Given
      BY <1>3, <1>4, <1>8, MailerGoesOn DEF SendMail, MailerTo
  <2>3. mailed \subseteq mailed' /\ mailed' \subseteq Emails \X Codes
      BY <2>1, <1>1, <1>8 DEF SendMail
  <2> QED BY <2>2, <2>3, <1>1, <1>8, MailersKeepAccounts DEF SendMail, redis
<1>9. ASSUME NEW e \in Emails, StartCooldown(m, e) PROVE RGInv'
  <2>1. mailer[m].code = NoCode
      BY <1>1, <1>9 DEF Mailing, StartCooldown
  <2>2. mailer' \in [Mailers -> Mailer] /\ Mailing' /\ Given' = Given
      BY <2>1, <1>9, MailerGoesOn DEF StartCooldown
  <2> QED BY <2>2, <1>1, <1>9, MailersKeepAccounts DEF StartCooldown, redis
<1> QED BY <1>5, <1>6, <1>7, <1>8, <1>9

\* A code is new when it is stored.
LEMMA StoredCodesAreNew ==
  ASSUME RGInv, NEW m \in Mailers, StoreCode(m)
  PROVE  RGInv'
<1>1. /\ mailer \in [Mailers -> Mailer] /\ Mailing /\ code \in [Emails -> Codes \cup {NoCode}]
      /\ LiveCodes /\ verified \subseteq Codes \X Registrations
    BY DEF RGInv, RGTypeOK
<1>2. mailer[m] \in Mailer /\ mailer[m].email \in Emails /\ mailer[m].code = NoCode
    BY <1>1 DEF Mailing, StoreCode
<1>3. NextCode \in Codes /\ Cardinality(Given \cup {m}) = NextCode
    BY <1>2, CodesSuffice
<1>4. PICK c \in Codes : c = NextCode
    BY <1>3
<1>5. PICK e \in Emails : e = mailer[m].email
    BY <1>2
<1>6. PICK r \in Mailer : r = [mailer[m] EXCEPT !.at = "stored", !.code = c]
    BY <1>2 DEF Mailer
<1>7. r.at = "stored" /\ r.email = e /\ r.code = c
    BY <1>2, <1>5, <1>6 DEF Mailer
<1>8. mailer' = [mailer EXCEPT ![m] = r] /\ code' = [code EXCEPT ![e] = c]
    BY <1>4, <1>5, <1>6 DEF StoreCode
<1>9. \A n \in Mailers : mailer'[n] = IF n = m THEN r ELSE mailer[n]
    BY <1>1, <1>8
<1>10. \A f \in Emails : code'[f] = IF f = e THEN c ELSE code[f]
    BY <1>1, <1>8
<1>11. c # NoCode /\ c \in Nat /\ c = 1 + Cardinality(Given) /\ Cardinality(Given) \in Nat
    BY <1>4, GivenIsFinite
<1>18. Codes \subseteq Nat
    BY GivenIsFinite
<1>20. Codes \cup {NoCode} \subseteq Nat
    BY <1>18 DEF NoCode
<1>19. \A k, j \in Nat : k <= j => k < 1 + j
    OBVIOUS
<1>12. Given' = Given \cup {m}
    BY <1>7, <1>9, <1>11 DEF Given
<1>13. Cardinality(Given') = c
    BY <1>12, <1>3, <1>4
<1>14. RGTypeOK'
    BY <1>8 DEF RGInv, RGTypeOK, StoreCode, tables
<1>15. Mailing'
  <2>0. \A n \in Mailers : mailer[n].code \in Codes \cup {NoCode}
      BY <1>1 DEF Mailer
  <2>1. \A n \in Mailers : mailer[n].code \in Nat
      BY <2>0, <1>20
  <2>2. \A n \in Mailers : mailer'[n].code <= c
      BY <2>1, <1>1, <1>7, <1>9, <1>11 DEF Mailing
  <2> QED BY <2>2, <1>1, <1>7, <1>9, <1>11, <1>13 DEF Mailing
<1>16. LiveCodes'
  <2>1. verified' = verified
      BY DEF StoreCode
  <2>2. \A f \in Emails : code[f] \in Nat /\ code[f] < c
    <3>1. \A f \in Emails : code[f] \in Nat
        BY <1>1, <1>20
    <3> QED BY <3>1, <1>1, <1>11, <1>19 DEF LiveCodes
  <2>3. \A p \in verified : p[1] \in Nat /\ p[1] < c
    <3>1. \A p \in verified : p[1] \in Nat
        BY <1>1, <1>18
    <3> QED BY <3>1, <1>1, <1>11, <1>19 DEF LiveCodes
  <2>4. \A f \in Emails : code'[f] <= c
      BY <2>2, <1>10, <1>11
  <2>5. \A p \in verified : p[1] <= c
      BY <2>3, <1>11
  <2>6. \A f, g \in Emails : code'[f] = code'[g] /\ code'[f] # NoCode => f = g
      BY <2>2, <1>1, <1>10, <1>11 DEF LiveCodes
  <2>7. \A q \in Registrations : <<c, q>> \notin verified
      BY <2>3, <1>11
  <2>8. \A f \in Emails : code'[f] # NoCode => \A q \in Registrations : <<code'[f], q>> \notin verified
      BY <2>7, <1>1, <1>10 DEF LiveCodes
  <2> QED BY <2>1, <2>4, <2>5, <2>6, <2>8, <1>1, <1>13 DEF LiveCodes
<1>17. Paying' /\ Locks' /\ Rows'
    BY DEF RGInv, Paying, Locks, Rows, StoreCode, tables
<1> QED BY <1>14, <1>15, <1>16, <1>17 DEF RGInv

\* Expiry takes codes and cooldowns away, and adds nothing.
LEMMA ExpiryIsSound ==
  ASSUME RGInv, NEW e \in Emails, CooldownEnds(e) \/ CodeExpires(e)
  PROVE  RGInv'
<1>1. /\ cooldown' \subseteq Emails /\ mailer' = mailer /\ mailed' = mailed /\ reg' = reg
      /\ account' = account /\ used' = used /\ verified' = verified
    BY DEF RGInv, RGTypeOK, CooldownEnds, CodeExpires, mailing, redis, tables
<1>2. code' \in [Emails -> Codes \cup {NoCode}] /\ attempts' \in [Emails -> 0..MaxEntries]
    BY RegistrationAssumption DEF RGInv, RGTypeOK, CooldownEnds, CodeExpires, redis
<1>3. \A f \in Emails : code'[f] \in {code[f], NoCode}
    BY DEF RGInv, RGTypeOK, CooldownEnds, CodeExpires, redis
<1>4. Given' = Given
    BY <1>1 DEF Given
<1>5. RGTypeOK' /\ Mailing' /\ Paying' /\ Locks' /\ Rows'
    BY <1>1, <1>2, <1>4 DEF RGInv, RGTypeOK, Mailing, Paying, Locks, Rows
<1>6. LiveCodes'
    BY <1>1, <1>3, <1>4, GivenIsFinite DEF RGInv, LiveCodes, NoCode
<1> QED BY <1>5, <1>6 DEF RGInv

\* What moving a registration on does to the registrations.
LEMMA RegMoves ==
  ASSUME RGInv, NEW r \in Registrations,
         NEW a \in {"checked", "verified", "created", "consumed", "done", "failed"}, RegTo(r, a)
  PROVE  /\ reg' \in [Registrations -> Registration]
         /\ reg'[r].at = a
         /\ \A s \in Registrations : reg'[s].email = reg[s].email /\ reg'[s].invite = reg[s].invite
         /\ \A s \in Registrations \ {r} : reg'[s].at = reg[s].at
<1>1. reg \in [Registrations -> Registration]
    BY DEF RGInv, RGTypeOK
<1>2. PICK q \in Registration : q = [reg[r] EXCEPT !.at = a]
  <2>1. reg[r] \in Registration
      BY <1>1
  <2> QED BY <2>1 DEF Registration
<1>3. q.at = a /\ q.email = reg[r].email /\ q.invite = reg[r].invite
    BY <1>1, <1>2 DEF Registration
<1>4. reg' = [reg EXCEPT ![r] = q]
    BY <1>2 DEF RegTo
<1> QED BY <1>1, <1>3, <1>4

\* A registration that fails before it commits gives up what it wrote.
LEMMA FailuresAreSound ==
  ASSUME RGInv, NEW r \in Registrations, RegTo(r, "failed"), reg[r].at \notin {"new", "done"},
         UNCHANGED <<mailing, tables, verified>>,
         code' \in [Emails -> Codes \cup {NoCode}], attempts' \in [Emails -> 0..MaxEntries],
         \A f \in Emails : code'[f] \in {code[f], NoCode}
  PROVE  RGInv'
<1> USE DEF mailing, tables
<1>1. /\ reg' \in [Registrations -> Registration] /\ reg'[r].at = "failed"
      /\ \A s \in Registrations : reg'[s].email = reg[s].email /\ reg'[s].invite = reg[s].invite
      /\ \A s \in Registrations \ {r} : reg'[s].at = reg[s].at
    BY RegMoves
<1>2. Given' = Given
    BY DEF Given
<1>3. RGTypeOK' /\ Mailing'
    BY <1>1, <1>2 DEF RGInv, RGTypeOK, Mailing
<1>4. LiveCodes'
    BY <1>2, GivenIsFinite DEF RGInv, LiveCodes, NoCode
<1>5. Paying'
    BY <1>1 DEF RGInv, Paying
<1>6. Locks'
    BY <1>1 DEF RGInv, Locks
<1>7. Rows'
  <2>1. account \in [Emails -> Registrations \cup {NoOne}] /\ used \in [Invites -> Registrations \cup {NoOne}]
      BY DEF RGInv, RGTypeOK
  <2> QED BY <2>1, <1>1 DEF RGInv, Rows
<1> QED BY <1>3, <1>4, <1>5, <1>6, <1>7 DEF RGInv

\* A registration starts with an email and an invitation, and has written nothing.
LEMMA ChecksAreSound ==
  ASSUME RGInv, NEW r \in Registrations, NEW e \in Emails, NEW i \in Invites, CheckInvite(r, e, i)
  PROVE  RGInv'
<1>1. reg \in [Registrations -> Registration]
      /\ account \in [Emails -> Registrations \cup {NoOne}] /\ used \in [Invites -> Registrations \cup {NoOne}]
    BY DEF RGInv, RGTypeOK
<1>2. PICK q \in Registration :
        /\ q = [at |-> IF Available(i) THEN "checked" ELSE "failed", email |-> e, invite |-> i]
        /\ q.at \in {"checked", "failed"} /\ q.email = e /\ q.invite = i
  <2>1. PICK a \in {"checked", "failed"} : a = IF Available(i) THEN "checked" ELSE "failed"
      OBVIOUS
  <2>2. [at |-> a, email |-> e, invite |-> i] \in Registration
      BY DEF Registration
  <2> QED BY <2>1, <2>2
<1>3. reg' = [reg EXCEPT ![r] = q] /\ reg[r].at = "new"
    BY <1>2 DEF CheckInvite
<1>4. reg' \in [Registrations -> Registration] /\ reg'[r] = q /\ \A s \in Registrations \ {r} : reg'[s] = reg[s]
    BY <1>1, <1>3
<1>5. UNCHANGED <<mailer, cooldown, mailed, code, attempts, account, used, verified>>
    BY DEF CheckInvite, mailing, redis, tables
<1>6. Given' = Given
    BY <1>5 DEF Given
<1>7. RGTypeOK' /\ Mailing' /\ LiveCodes'
    BY <1>4, <1>5, <1>6 DEF RGInv, RGTypeOK, Mailing, LiveCodes
<1>8. Paying'
    BY <1>2, <1>4, <1>5 DEF RGInv, Paying
<1>9. Locks'
    BY <1>2, <1>4, <1>5 DEF RGInv, Locks
<1>10. Rows'
  <2>1. \A f \in Emails : account[f] # NoOne => account[f] \in Registrations \ {r}
      BY <1>1, <1>3 DEF RGInv, Rows
  <2>2. \A j \in Invites : used[j] # NoOne => used[j] \in Registrations \ {r}
      BY <1>1, <1>3 DEF RGInv, Rows
  <2> QED BY <2>1, <2>2, <1>4, <1>5 DEF RGInv, Rows
<1> QED BY <1>7, <1>8, <1>9, <1>10 DEF RGInv

\* A code is used up by the registration it admits.
LEMMA VerifiedCodesAreUsedUp ==
  ASSUME RGInv, NEW r \in Registrations, NEW typed \in Typed(reg[r].email), VerifyCode(r, typed)
  PROVE  RGInv'
<1>1. /\ code \in [Emails -> Codes \cup {NoCode}] /\ attempts \in [Emails -> 0..MaxEntries]
      /\ reg \in [Registrations -> Registration] /\ MaxEntries \in Nat
      /\ account \in [Emails -> Registrations \cup {NoOne}] /\ used \in [Invites -> Registrations \cup {NoOne}]
      /\ verified \subseteq Codes \X Registrations
    BY RegistrationAssumption DEF RGInv, RGTypeOK
<1>2. reg[r].at = "checked" /\ UNCHANGED <<mailing, tables>>
    BY DEF VerifyCode
<1>3. PICK e \in Emails : e = reg[r].email
    BY <1>2 DEF RGInv, Paying
<1>4. CASE RegTo(r, "failed") /\ UNCHANGED verified
  <2>1. \/ UNCHANGED redis
        \/ code' = [code EXCEPT ![e] = NoCode] /\ attempts' = [attempts EXCEPT ![e] = 0]
        \/ attempts' = [attempts EXCEPT ![e] = @ + 1] /\ UNCHANGED code /\ ~(attempts[e] >= MaxEntries)
    BY <1>1, <1>2, <1>3, <1>4, RegMoves DEF VerifyCode, TooMany, Admitted
  <2>2. code' \in [Emails -> Codes \cup {NoCode}] /\ \A f \in Emails : code'[f] \in {code[f], NoCode}
      BY <2>1, <1>1 DEF redis
  <2>3. attempts' \in [Emails -> 0..MaxEntries]
    <3>1. CASE attempts' = [attempts EXCEPT ![e] = @ + 1] /\ ~(attempts[e] >= MaxEntries)
      <4>1. attempts[e] \in 0..MaxEntries
          BY <1>1
      <4>2. attempts[e] + 1 \in 0..MaxEntries
          BY <4>1, <3>1, <1>1
      <4> QED BY <4>2, <3>1, <1>1
    <3> QED BY <3>1, <2>1, <1>1 DEF redis
  <2> QED BY <2>2, <2>3, <1>2, <1>4, FailuresAreSound
<1>5. CASE /\ code[e] # NoCode /\ code[e] = typed /\ Admitted(r, typed)
  <2>1. /\ reg' \in [Registrations -> Registration] /\ reg'[r].at = "verified"
        /\ \A s \in Registrations : reg'[s].email = reg[s].email /\ reg'[s].invite = reg[s].invite
        /\ \A s \in Registrations \ {r} : reg'[s].at = reg[s].at
      BY <1>5, RegMoves DEF Admitted
  <2>2. typed \in Codes /\ <<e, typed>> \in mailed
      BY <1>3, <1>5 DEF Typed
  <2>3. verified' = verified \cup {<<typed, r>>}
      BY <1>5 DEF Admitted
  <2>4. code' = [code EXCEPT ![e] = NoCode] /\ attempts' = [attempts EXCEPT ![e] = 0]
      BY <1>3, <1>5 DEF Admitted
  <2>5. UNCHANGED <<mailer, cooldown, mailed, account, used>>
      BY <1>2 DEF mailing, tables
  <2>6. Given' = Given
      BY <2>5 DEF Given
  <2>7. RGTypeOK' /\ Mailing'
      BY <2>1, <2>2, <2>3, <2>4, <2>5, <2>6, <1>1 DEF RGInv, RGTypeOK, Mailing
  <2>8. LiveCodes'
    <3>1. \A f \in Emails : code'[f] = IF f = e THEN NoCode ELSE code[f]
        BY <2>4, <1>1
    <3>2. \A f \in Emails : code[f] = typed => f = e
        BY <1>5 DEF RGInv, LiveCodes
    <3>3. \A s \in Registrations : <<typed, s>> \notin verified
        BY <1>5 DEF RGInv, LiveCodes
    <3>4. typed <= Cardinality(Given)
        BY <1>5 DEF RGInv, LiveCodes
    <3>5. \A f \in Emails : code'[f] <= Cardinality(Given)
        BY <3>1, GivenIsFinite DEF RGInv, LiveCodes, NoCode
    <3>6. \A f \in Emails : code'[f] # NoCode => \A s \in Registrations : <<code'[f], s>> \notin verified'
        BY <3>1, <3>2, <2>3 DEF RGInv, LiveCodes
    <3>7. \A p \in verified : p[1] # typed
        BY <3>3, <1>1
    <3>8. \A p, q \in verified' : p[1] = q[1] => p = q
        BY <3>7, <2>3 DEF RGInv, LiveCodes
    <3>9. \A p \in verified' : p[1] <= Cardinality(Given)
        BY <3>4, <2>3 DEF RGInv, LiveCodes
    <3>10. \A f, g \in Emails : code'[f] = code'[g] /\ code'[f] # NoCode => f = g
        BY <3>1 DEF RGInv, LiveCodes
    <3> QED BY <3>5, <3>6, <3>8, <3>9, <3>10, <2>6 DEF LiveCodes
  <2>9. Paying'
      BY <2>1, <2>2, <2>3, <2>5, <1>2, <1>3 DEF RGInv, Paying
  <2>10. Locks'
      BY <2>1, <2>5, <1>2 DEF RGInv, Locks
  <2>11. Rows'
      BY <2>1, <2>5, <1>1, <1>2 DEF RGInv, Rows
  <2> QED BY <2>7, <2>8, <2>9, <2>10, <2>11 DEF RGInv
<1> QED BY <1>3, <1>4, <1>5 DEF VerifyCode

\* A transaction writes a row only while nobody else's is pending or committed.
LEMMA WritesAreSound ==
  ASSUME RGInv, NEW r \in Registrations, CreateUser(r) \/ ConsumeInvite(r)
  PROVE  RGInv'
<1>1. /\ account \in [Emails -> Registrations \cup {NoOne}] /\ used \in [Invites -> Registrations \cup {NoOne}]
      /\ code \in [Emails -> Codes \cup {NoCode}] /\ attempts \in [Emails -> 0..MaxEntries]
    BY DEF RGInv, RGTypeOK
<1>2. /\ UNCHANGED <<mailer, cooldown, mailed, code, attempts, account, used, verified>>
      /\ reg[r].at \in {"verified", "created"}
    BY DEF CreateUser, ConsumeInvite, mailing, redis, tables
<1>3. CASE RegTo(r, "failed")
    BY <1>1, <1>2, <1>3, FailuresAreSound DEF mailing, tables
<1>4. ASSUME NEW a \in {"created", "consumed"}, RegTo(r, a), Locks' PROVE RGInv'
  <2>1. /\ reg' \in [Registrations -> Registration] /\ reg'[r].at = a
        /\ \A s \in Registrations : reg'[s].email = reg[s].email /\ reg'[s].invite = reg[s].invite
        /\ \A s \in Registrations \ {r} : reg'[s].at = reg[s].at
      BY <1>4, RegMoves
  <2>2. Given' = Given
      BY <1>2 DEF Given
  <2>3. RGTypeOK' /\ Mailing' /\ LiveCodes'
      BY <2>1, <2>2, <1>2 DEF RGInv, RGTypeOK, Mailing, LiveCodes
  <2>4. Paying'
      BY <2>1, <1>2, <1>4 DEF RGInv, Paying
  <2>5. Rows'
      BY <2>1, <1>1, <1>2 DEF RGInv, Rows
  <2> QED BY <2>3, <2>4, <2>5, <1>4 DEF RGInv
<1>5. CASE CreateUser(r) /\ account[reg[r].email] = NoOne
  <2>1. RegTo(r, "created") /\ Inserted(reg[r].email) = {}
      BY <1>5 DEF CreateUser
  <2>2. /\ reg'[r].at = "created"
        /\ \A s \in Registrations : reg'[s].email = reg[s].email /\ reg'[s].invite = reg[s].invite
        /\ \A s \in Registrations \ {r} : reg'[s].at = reg[s].at
      BY <2>1, RegMoves
  <2>3. \A s \in Registrations : reg[s].at \in {"created", "consumed"} => reg[s].email # reg[r].email
      BY <2>1 DEF Inserted
  <2>4. Locks'
      BY <2>2, <2>3, <1>2, <1>5 DEF RGInv, Locks
  <2> QED BY <2>1, <2>4, <1>4
<1>6. CASE ConsumeInvite(r) /\ used[reg[r].invite] = NoOne
  <2>1. RegTo(r, "consumed") /\ Writing(reg[r].invite) = {} /\ reg[r].at = "created"
      BY <1>6 DEF ConsumeInvite, Consumable, Available
  <2>2. /\ reg'[r].at = "consumed"
        /\ \A s \in Registrations : reg'[s].email = reg[s].email /\ reg'[s].invite = reg[s].invite
        /\ \A s \in Registrations \ {r} : reg'[s].at = reg[s].at
      BY <2>1, RegMoves
  <2>3. \A s \in Registrations : reg[s].at = "consumed" => reg[s].invite # reg[r].invite
      BY <2>1 DEF Writing
  <2>4. Locks'
      BY <2>1, <2>2, <2>3, <1>2, <1>6 DEF RGInv, Locks
  <2> QED BY <2>1, <2>4, <1>4
<1> QED BY <1>3, <1>5, <1>6 DEF CreateUser, ConsumeInvite, Consumable, Available

\* The commit makes both rows at once, and no other row names the registration yet.
LEMMA CommitsAreSound ==
  ASSUME RGInv, NEW r \in Registrations, CommitUser(r)
  PROVE  RGInv'
<1>1. /\ account \in [Emails -> Registrations \cup {NoOne}] /\ used \in [Invites -> Registrations \cup {NoOne}]
    BY DEF RGInv, RGTypeOK
<1>2. /\ UNCHANGED <<mailer, cooldown, mailed, code, attempts, verified>> /\ reg[r].at = "consumed"
      /\ RegTo(r, "done")
    BY DEF CommitUser, mailing, redis
<1>3. /\ reg' \in [Registrations -> Registration] /\ reg'[r].at = "done"
      /\ \A s \in Registrations : reg'[s].email = reg[s].email /\ reg'[s].invite = reg[s].invite
      /\ \A s \in Registrations \ {r} : reg'[s].at = reg[s].at
    BY <1>2, RegMoves
<1>4. PICK e \in Emails, i \in Invites : e = reg[r].email /\ i = reg[r].invite
    BY <1>2 DEF RGInv, Paying
<1>5. account' = [account EXCEPT ![e] = r] /\ used' = [used EXCEPT ![i] = r]
    BY <1>4 DEF CommitUser
<1>6. /\ \A f \in Emails : account'[f] = IF f = e THEN r ELSE account[f]
      /\ \A j \in Invites : used'[j] = IF j = i THEN r ELSE used[j]
    BY <1>1, <1>5
<1>7. /\ account[e] = NoOne /\ used[i] = NoOne
      /\ \A s \in Registrations \ {r} : reg[s].at \in {"created", "consumed"} => reg[s].email # e
      /\ \A s \in Registrations \ {r} : reg[s].at = "consumed" => reg[s].invite # i
    BY <1>2, <1>4 DEF RGInv, Locks
<1>8. Given' = Given
    BY <1>2 DEF Given
<1>9. RGTypeOK' /\ Mailing' /\ LiveCodes'
    BY <1>2, <1>3, <1>5, <1>8 DEF RGInv, RGTypeOK, Mailing, LiveCodes
<1>10. Paying'
    BY <1>2, <1>3 DEF RGInv, Paying
<1>11. Locks'
  <2>1. Locks
      BY DEF RGInv
  <2>2. \A s \in Registrations : reg'[s].at \in {"created", "consumed"} => s # r /\ reg[s].at = reg'[s].at
      BY <1>3
  <2>3. \A s \in Registrations : reg[s].at \in {"created", "consumed"} => reg[s].email \in Emails /\ reg[s].invite \in Invites
      BY DEF RGInv, Paying
  <2> QED BY <2>1, <2>2, <2>3, <1>3, <1>6, <1>7 DEF Locks
<1>12. Rows'
  <2>1. Rows
      BY DEF RGInv
  <2>2. \A f \in Emails : account[f] # NoOne => account[f] \in Registrations \ {r}
      BY <2>1, <1>1, <1>2 DEF Rows
  <2>3. \A j \in Invites : used[j] # NoOne => used[j] \in Registrations \ {r}
      BY <2>1, <1>1, <1>2 DEF Rows
  <2>4. \A f \in Emails : account'[f] # NoOne =>
          /\ reg'[account'[f]].at = "done" /\ reg'[account'[f]].email = f
          /\ used'[reg'[account'[f]].invite] = account'[f]
    <3> TAKE f \in Emails
    <3> HAVE account'[f] # NoOne
    <3>1. CASE f = e
        BY <3>1, <1>3, <1>4, <1>6
    <3>2. CASE f # e
      <4>1. PICK s \in Registrations \ {r} : s = account[f]
          BY <3>2, <2>2, <1>6
      <4>2. reg[s].at = "done" /\ reg[s].email = f /\ used[reg[s].invite] = s /\ reg[s].invite \in Invites
          BY <4>1, <3>2, <2>1, <1>6 DEF Rows, RGInv, Paying
      <4>3. reg[s].invite # i
          BY <4>1, <4>2, <1>7, RegistrationAssumption
      <4> QED BY <4>1, <4>2, <4>3, <3>2, <1>3, <1>6
    <3> QED BY <3>1, <3>2
  <2>5. \A j \in Invites : used'[j] # NoOne =>
          /\ reg'[used'[j]].at = "done" /\ reg'[used'[j]].invite = j
          /\ account'[reg'[used'[j]].email] = used'[j]
    <3> TAKE j \in Invites
    <3> HAVE used'[j] # NoOne
    <3>1. CASE j = i
        BY <3>1, <1>3, <1>4, <1>6
    <3>2. CASE j # i
      <4>1. PICK s \in Registrations \ {r} : s = used[j]
          BY <3>2, <2>3, <1>6
      <4>2. reg[s].at = "done" /\ reg[s].invite = j /\ account[reg[s].email] = s /\ reg[s].email \in Emails
          BY <4>1, <3>2, <2>1, <1>6 DEF Rows, RGInv, Paying
      <4>3. reg[s].email # e
          BY <4>1, <4>2, <1>7, RegistrationAssumption
      <4> QED BY <4>1, <4>2, <4>3, <3>2, <1>3, <1>6
    <3> QED BY <3>1, <3>2
  <2> QED BY <2>4, <2>5 DEF Rows
<1> QED BY <1>9, <1>10, <1>11, <1>12 DEF RGInv

\* A rollback leaves the code used up.
LEMMA RollBacksAreSound ==
  ASSUME RGInv, NEW r \in Registrations, RollBack(r)
  PROVE  RGInv'
<1>1. code \in [Emails -> Codes \cup {NoCode}] /\ attempts \in [Emails -> 0..MaxEntries]
    BY DEF RGInv, RGTypeOK
<1> QED BY <1>1, FailuresAreSound DEF RollBack, redis

\* Every command keeps the invariant.
LEMMA RGKeeps == RGInv /\ [RGNext]_rgVars => RGInv'
<1> SUFFICES ASSUME RGInv, [RGNext]_rgVars PROVE RGInv'
    OBVIOUS
<1>1. CASE UNCHANGED rgVars
    BY <1>1 DEF rgVars, RGInv, RGTypeOK, Mailing, Given, LiveCodes, Paying, Locks, Rows
<1>2. ASSUME NEW m \in Mailers, StoreCode(m) PROVE RGInv'
    BY <1>2, StoredCodesAreNew
<1>3. ASSUME NEW m \in Mailers,
             \/ Decline(m) \/ ResetAttempts(m) \/ SendMail(m) \/ MailerFails(m)
             \/ \E e \in Emails : StartCooldown(m, e)
      PROVE  RGInv'
    BY <1>3, MailersAreSound
<1>4. ASSUME NEW e \in Emails, CooldownEnds(e) \/ CodeExpires(e) PROVE RGInv'
    BY <1>4, ExpiryIsSound
<1>5. ASSUME NEW r \in Registrations, NEW e \in Emails, NEW i \in Invites, CheckInvite(r, e, i) PROVE RGInv'
    BY <1>5, ChecksAreSound
<1>6. ASSUME NEW r \in Registrations, NEW typed \in Typed(reg[r].email), VerifyCode(r, typed) PROVE RGInv'
    BY <1>6, VerifiedCodesAreUsedUp
<1>7. ASSUME NEW r \in Registrations, CreateUser(r) \/ ConsumeInvite(r) PROVE RGInv'
    BY <1>7, WritesAreSound
<1>8. ASSUME NEW r \in Registrations, CommitUser(r) PROVE RGInv'
    BY <1>8, CommitsAreSound
<1>9. ASSUME NEW r \in Registrations, RollBack(r) PROVE RGInv'
    BY <1>9, RollBacksAreSound
<1> QED BY <1>1, <1>2, <1>3, <1>4, <1>5, <1>6, <1>7, <1>8, <1>9 DEF RGNext

\* What the invariant says of an account.
LEMMA PaidByTheInvariant == RGInv => AccountsArePaid
<1> SUFFICES ASSUME RGInv PROVE AccountsArePaid
    OBVIOUS
<1>1. /\ account \in [Emails -> Registrations \cup {NoOne}] /\ used \in [Invites -> Registrations \cup {NoOne}]
      /\ Rows /\ Paying /\ LiveCodes
    BY DEF RGInv, RGTypeOK
<1>2. AccountsMatchInvites
  <2>1. \A e \in Emails : account[e] # NoOne => \E i \in Invites : used[i] = account[e]
      BY <1>1 DEF Rows, Paying
  <2>2. \A i \in Invites : used[i] # NoOne => \E e \in Emails : account[e] = used[i]
      BY <1>1 DEF Rows, Paying
  <2>3. \A i, j \in Invites : used[i] = used[j] /\ used[i] # NoOne => i = j
      BY <1>1 DEF Rows
  <2> QED BY <2>1, <2>2, <2>3 DEF AccountsMatchInvites
<1>3. CodesAdmitOnce
  <2> SUFFICES ASSUME NEW e \in Emails, account[e] # NoOne
               PROVE  \E c \in Codes : <<e, c>> \in mailed /\ {r \in Registrations : <<c, r>> \in verified} = {account[e]}
      BY DEF CodesAdmitOnce
  <2>1. PICK s \in Registrations : s = account[e]
      BY <1>1
  <2>2. reg[s].at = "done" /\ reg[s].email = e
      BY <2>1, <1>1 DEF Rows
  <2>3. PICK c \in Codes : <<e, c>> \in mailed /\ <<c, s>> \in verified
      BY <2>2, <1>1 DEF Paying
  <2>4. \A r \in Registrations : <<c, r>> \in verified => r = s
      BY <2>3, <1>1 DEF LiveCodes
  <2> QED BY <2>1, <2>3, <2>4
<1> QED BY <1>2, <1>3 DEF AccountsArePaid

\* An account costs one invitation and one mailed code of its own, whatever
\* registrations race for either and wherever they fail
\* (AuthService.java:43-58, RegistrationService.java:127-146).
THEOREM AccountsCostOne == RGSpec => []AccountsArePaid
BY RGStarts, RGKeeps, PaidByTheInvariant, PTL DEF RGSpec

-----------------------------------------------------------------------------
(* The board of trains and hotels.  Each part of it is told by the         *)
(* coroutine that ends last for it: before, the part is blank; after, it   *)
(* says what the lookups, which nobody touches any more, have said.        *)

LookedAt == {"none", "ask", "failed", "over"} \cup Said
Trains == [at : {"start", "warm", "stations", "pairs"}, tries : Nat, pair : Nat, suffix : Nat]
Statuses == {"needs_input", "excluded", "ready", "empty", "unavailable"}
Board == [train : Statuses, hotel : Statuses, trains : SUBSET (1..Pairs),
          hotels : SUBSET Range(Hotels), extras : SUBSET {"point", "weather", "commute"},
          notes : SUBSET {"weather", "commute"}]

\* The types the proof needs.
TOKinds ==
  /\ calls \in [{"amap", "train"} -> Nat]
  /\ \A l \in DOMAIN cache : cache[l] \in Said
  /\ look \in [Asks -> [at : LookedAt, tries : Nat]]
  /\ train \in Trains
  /\ answer \in [1..Pairs -> {"none", "rows", "empty", "failed"}]
  /\ task \in [Tasks -> {"running", "done", "late"}]
  /\ board \in Board

\* The pairs are asked in order, once the query has begun; then the board has the
\* rows of them.
TrainsTold ==
  /\ \A p \in 1..Pairs : answer[p] = "none" <=> p >= train.pair
  /\ train.pair >= 1 /\ (train.at # "pairs" => train.pair = 1)
  /\ train.at # "start" => Wants("train")
  /\ task["trains"] = "running" => board.train = "needs_input" /\ board.trains = {}
  /\ task["trains"] # "running" => HonestTrains /\ (board.train = "ready" <=> board.trains # {})

\* Around the place first, and a brand only after the last one was answered or
\* failed: where the budget ran out nothing was asked any more.
InOrder ==
  \A i, j \in DOMAIN Hotels : i < j /\ Hotels[i] # Hotels[j] /\ ~Is(Hotels[j], "none") =>
    HasAnswer(Hotels[i]) \/ (i > 1 /\ Is(Hotels[i], "failed"))

HotelsTold ==
  /\ InOrder
  /\ \A l \in Of("hotels") : /\ Is(l, "ask") => task["hotels"] = "running"
                             /\ ~Is(l, "none") => Wants("nearby_hotels")
  /\ task["hotels"] = "running" => board.hotel = "needs_input" /\ board.hotels = {}
  /\ task["hotels"] # "running" => HonestHotels /\ (board.hotel = "ready" <=> board.hotels # {})

Capability(k) == IF k = "commute" THEN "local_transport" ELSE k
Extras == {"weather", "commute"}

\* What is looked up after the first three is wanted, and the way from a station
\* only when there are trains.
ExtrasTold ==
  /\ \A k \in Extras : task[k] = "running" => k \notin board.extras \cup board.notes
  /\ \A k \in Extras : task[k] # "running" =>
       (k \in board.extras \cup board.notes <=> Wants(Capability(k)))
  /\ \A l \in Of("weather") : ~Is(l, "none") => Wants("weather")
  /\ \A l \in Of("commute") : ~Is(l, "none") =>
       /\ Wants("local_transport") /\ wish.anchor
       /\ board.trains # {} /\ task["trains"] # "running"
  /\ "commute" \in board.extras =>
       /\ task["commute"] # "running" /\ Is("route", "some")

TOInv == TOKinds /\ TrainsTold /\ HotelsTold /\ ExtrasTold

-----------------------------------------------------------------------------
(* The lookups of each coroutine.                                          *)

LEMMA HotelsAre ==
  /\ 1 \in DOMAIN Hotels /\ DOMAIN Hotels \subseteq Nat /\ Hotels[1] = "around"
  /\ \A i \in DOMAIN Hotels : i >= 1 /\ (i > 1 => i - 1 \in DOMAIN Hotels)
  /\ Range(Hotels) \cap {"origin", "adcode", "live", "forecast", "station", "route"} = {}
  /\ "around" \in Range(Hotels)
  /\ DOMAIN Hotels \subseteq 1..3 /\ \A i \in DOMAIN Hotels : Hotels[i] = "around" => i = 1
<1>1. Brands \in Seq(STRING)
  BY TripOptionsAssumption
<1>2. /\ DOMAIN Hotels = 1..(1 + Len(Brands)) /\ Len(Brands) \in Nat /\ Hotels[1] = "around"
      /\ DOMAIN Brands = 1..Len(Brands)
      /\ \A i \in 2..(1 + Len(Brands)) : i - 1 \in DOMAIN Brands /\ Hotels[i] = Brands[i - 1]
  BY <1>1 DEF Hotels
<1>3. \A i \in DOMAIN Hotels : Hotels[i] = "around" \/ \E k \in DOMAIN Brands : Hotels[i] = Brands[k]
  <2> TAKE i \in DOMAIN Hotels
  <2>1. i = 1 \/ i \in 2..(1 + Len(Brands))
    BY <1>2
  <2>2. QED  BY <1>2, <2>1
<1>4. \A x \in Range(Hotels) : x = "around" \/ x \in Range(Brands)
  BY <1>3 DEF Range
<1>5. Range(Hotels) \cap {"origin", "adcode", "live", "forecast", "station", "route"} = {}
  <2>1. "around" \notin {"origin", "adcode", "live", "forecast", "station", "route"}
    OBVIOUS
  <2>2. QED  BY <1>4, <2>1, TripOptionsAssumption
<1>6. "around" \in Range(Hotels)
  BY <1>2 DEF Range
<1>7. DOMAIN Hotels \subseteq 1..3
  BY <1>2, TripOptionsAssumption
<1>8. \A i \in DOMAIN Hotels : Hotels[i] = "around" => i = 1
  <2> TAKE i \in DOMAIN Hotels
  <2>1. i = 1 \/ i \in 2..(1 + Len(Brands))
    BY <1>2
  <2>2. CASE i \in 2..(1 + Len(Brands))
    <3>1. Hotels[i] \in Range(Brands)
      BY <1>2, <2>2 DEF Range
    <3>2. QED  BY <3>1, TripOptionsAssumption
  <2>3. QED  BY <2>1, <2>2
<1>9. QED  BY <1>2, <1>5, <1>6, <1>7, <1>8

LEMMA OfAre ==
  /\ Of("hotels") = Range(Hotels) /\ Of("origin") = {"origin"} /\ Of("trains") = {}
  /\ Of("weather") = {"adcode", "live", "forecast"} /\ Of("commute") = {"station", "route"}
  /\ Of("hotels") \cap (Of("origin") \cup Of("weather") \cup Of("commute")) = {}
  /\ Tasks = {"trains", "hotels", "origin", "weather", "commute"}
  /\ Of("hotels") \cup Of("origin") \cup Of("weather") \cup Of("commute") = Asks
<1>1. Tasks = {"trains", "hotels", "origin", "weather", "commute"}
  BY DEF Tasks, First
<1>2. /\ Of("hotels") = Range(Hotels) /\ Of("origin") = {"origin"} /\ Of("trains") = {}
      /\ Of("weather") = {"adcode", "live", "forecast"} /\ Of("commute") = {"station", "route"}
  BY DEF Of
<1>3. Asks = Of("trains") \cup Of("hotels") \cup Of("origin") \cup Of("weather") \cup Of("commute")
  BY <1>1 DEF Asks
<1>4. Of("hotels") \cap (Of("origin") \cup Of("weather") \cup Of("commute")) = {}
  BY <1>2, HotelsAre
<1>5. QED  BY <1>1, <1>2, <1>3, <1>4

LEMMA TOStarts == TOInit => TOInv
<1> SUFFICES ASSUME TOInit PROVE TOInv
  OBVIOUS
<1>1. TOKinds
  <2>1. \A l \in DOMAIN cache : cache[l] \in Said
    BY DEF TOInit
  <2>2. look \in [Asks -> [at : LookedAt, tries : Nat]]
    BY DEF TOInit, LookedAt
  <2>3. board \in Board
    BY DEF TOInit, Board, Statuses
  <2>4. train \in Trains
    BY DEF TOInit, Trains
  <2>5. QED  BY <2>1, <2>2, <2>3, <2>4 DEF TOInit, TOKinds
<1>2. \A l \in Asks : Is(l, "none")
  BY DEF TOInit, Is
<1>3. \A t \in Tasks : task[t] = "running"
  BY DEF TOInit
<1>4. /\ board.train = "needs_input" /\ board.hotel = "needs_input" /\ board.trains = {}
      /\ board.hotels = {} /\ board.extras = {} /\ board.notes = {}
  BY DEF TOInit
<1>5. TrainsTold
  <2>1. \A p \in 1..Pairs : answer[p] = "none" /\ p >= train.pair
    BY TripOptionsAssumption DEF TOInit
  <2>2. train.pair = 1 /\ train.at = "start"
    BY DEF TOInit
  <2>3. QED  BY <1>3, <1>4, <2>1, <2>2, OfAre DEF TrainsTold
<1>6. HotelsTold
  <2>1. \A i \in DOMAIN Hotels : Hotels[i] \in Asks
    BY OfAre DEF Range
  <2>2. InOrder
    BY <1>2, <2>1 DEF InOrder
  <2>3. \A l \in Of("hotels") : Is(l, "none") /\ ~Is(l, "ask")
    BY <1>2, OfAre DEF Is
  <2>4. QED  BY <1>3, <1>4, <2>2, <2>3, OfAre DEF HotelsTold
<1>7. ExtrasTold
  <2>1. \A l \in Of("weather") \cup Of("commute") : Is(l, "none")
    BY <1>2, OfAre
  <2>2. QED  BY <1>3, <1>4, <2>1, OfAre DEF ExtrasTold, Extras
<1>8. QED  BY <1>1, <1>5, <1>6, <1>7 DEF TOInv

-----------------------------------------------------------------------------
(* What a step leaves to the others.                                       *)

Dearer == calls' \in [{"amap", "train"} -> Nat]
          /\ calls'["amap"] >= calls["amap"] /\ calls'["train"] >= calls["train"]

LEMMA DearerStays ==
  ASSUME TOKinds, Dearer, ~Affordable("train")
  PROVE  ~Affordable("train")'
  BY TripOptionsAssumption DEF TOKinds, Dearer, Affordable

\* The trains are left alone.
LEMMA TrainsFrame ==
  ASSUME TOInv, Dearer, wish' = wish, train' = train, answer' = answer,
         task'["trains"] = task["trains"], board'.train = board.train,
         board'.trains = board.trains
  PROVE  TrainsTold'
<1>1. \A x : PairsWith(x)' = PairsWith(x)
  BY DEF PairsWith
<1>2. Wants("train")' <=> Wants("train")
  BY DEF Wants
<1>3. ~Affordable("train") => ~Affordable("train")'
  BY DearerStays DEF TOInv
<1>4. HonestTrains => HonestTrains'
  BY <1>1, <1>2, <1>3 DEF HonestTrains, TrainsCut
<1>5. QED  BY <1>2, <1>4 DEF TrainsTold, TOInv

\* The hotels are left alone.
LEMMA HotelsFrame ==
  ASSUME TOInv, wish' = wish, \A l \in Of("hotels") : look'[l].at = look[l].at,
         task'["hotels"] = task["hotels"], board'.hotel = board.hotel,
         board'.hotels = board.hotels
  PROVE  HotelsTold'
<1>1. \A i \in DOMAIN Hotels : Hotels[i] \in Of("hotels")
  BY OfAre DEF Range
<1>2. \A l \in Of("hotels") : /\ \A x : Is(l, x)' <=> Is(l, x)
                              /\ HasAnswer(l)' <=> HasAnswer(l)
  BY DEF Is, HasAnswer
<1>3. InOrder'
  BY <1>1, <1>2 DEF InOrder, TOInv, HotelsTold
<1>4. \A k : Wants(k)' <=> Wants(k)
  BY DEF Wants
<1>5. "around" \in Of("hotels")
  BY OfAre, HotelsAre
<1>6. HonestHotels => HonestHotels'
  <2>1. {l \in Of("hotels") : Is(l, "some")}' = {l \in Of("hotels") : Is(l, "some")}
    BY <1>2
  <2>2. QED  BY <1>2, <1>4, <1>5, <2>1 DEF HonestHotels, HotelsCut
<1>7. QED  BY <1>2, <1>3, <1>4, <1>6 DEF HotelsTold, TOInv

\* The weather and the way from the station are left alone, by whoever closes the
\* trains too: nobody has asked for the way yet.
LEMMA ExtrasFrame ==
  ASSUME TOInv, wish' = wish,
         \A l \in Of("weather") \cup Of("commute") : look'[l].at = look[l].at,
         \A k \in Extras : task'[k] = task[k],
         \A k \in Extras : k \in board'.extras <=> k \in board.extras,
         \A k \in Extras : k \in board'.notes <=> k \in board.notes,
         \/ task["trains"] = "running"
         \/ board'.trains = board.trains /\ task'["trains"] = task["trains"]
  PROVE  ExtrasTold'
<1>1. \A k : Wants(k)' <=> Wants(k)
  BY DEF Wants
<1>2. \A l \in Of("weather") \cup Of("commute") : \A x : Is(l, x)' <=> Is(l, x)
  BY DEF Is
<1>3. "route" \in Of("commute") /\ "commute" \in Extras
  BY OfAre DEF Extras
<1>4. \A l \in Of("commute") : ~Is(l, "none") =>
        task["trains"] # "running" /\ wish.anchor /\ Wants("local_transport") /\ board.trains # {}
  BY DEF TOInv, ExtrasTold
<1>5. \A l \in Of("commute") : ~Is(l, "none")' =>
        /\ Wants("local_transport")' /\ wish'.anchor
        /\ board'.trains # {} /\ task'["trains"] # "running"
  BY <1>1, <1>2, <1>4
<1>6. "commute" \in board'.extras => task'["commute"] # "running" /\ Is("route", "some")'
  BY <1>2, <1>3 DEF TOInv, ExtrasTold
<1>7. \A l \in Of("weather") : ~Is(l, "none")' => Wants("weather")'
  BY <1>1, <1>2 DEF TOInv, ExtrasTold
<1>8. \A k \in Extras :
        /\ task'[k] = "running" => k \notin board'.extras \cup board'.notes
        /\ task'[k] # "running" => (k \in board'.extras \cup board'.notes <=> Wants(Capability(k))')
  <2> TAKE k \in Extras
  <2>1. Wants(Capability(k))' <=> Wants(Capability(k))
    BY DEF Wants
  <2>2. QED  BY <2>1 DEF TOInv, ExtrasTold
<1>9. QED  BY <1>5, <1>6, <1>7, <1>8 DEF ExtrasTold

-----------------------------------------------------------------------------
(* Requests.                                                               *)

\* One request under way is answered, repeated or given up.
Looked(l, x) ==
  /\ Is(l, "ask") /\ x \in LookedAt \ {"none"}
  /\ look' \in [Asks -> [at : LookedAt, tries : Nat]]
  /\ \A m \in Asks : look'[m].at = IF m = l THEN x ELSE look[m].at
  /\ Dearer /\ \A k \in DOMAIN cache' : cache'[k] \in Said
  /\ UNCHANGED <<wish, train, answer, task, board>>

LEMMA PaysMore ==
  ASSUME TOKinds
  PROVE  /\ UNCHANGED calls => Dearer
         /\ \A type \in {"amap", "train"} : Consume(type) => Dearer
<1>1. calls["amap"] \in Nat /\ calls["train"] \in Nat
  BY DEF TOKinds
<1>2. UNCHANGED calls => Dearer
  BY <1>1 DEF Dearer, TOKinds
<1>3. ASSUME NEW type \in {"amap", "train"}, Consume(type) PROVE Dearer
  <2>1. calls' = [calls EXCEPT ![type] = calls[type] + 1]
    BY <1>3 DEF Consume
  <2>2. calls[type] + 1 \in Nat
    BY <1>1
  <2>3. calls' \in [{"amap", "train"} -> Nat]
    BY <2>1, <2>2 DEF TOKinds
  <2>4. \A k \in {"amap", "train"} : calls'[k] = IF k = type THEN calls[k] + 1 ELSE calls[k]
    BY <2>1 DEF TOKinds
  <2>5. QED  BY <1>1, <2>3, <2>4 DEF Dearer
<1>4. QED  BY <1>2, <1>3

LEMMA SetLookIs ==
  ASSUME TOKinds, NEW l \in Asks, NEW x \in LookedAt, SetLook(l, x)
  PROVE  /\ look' \in [Asks -> [at : LookedAt, tries : Nat]]
         /\ \A m \in Asks : look'[m].at = IF m = l THEN x ELSE look[m].at
<1>1. PICK entry \in [at : LookedAt, tries : Nat] : entry = look[l]
  BY DEF TOKinds
<1>2. PICK new \in [at : LookedAt, tries : Nat] : new = [entry EXCEPT !.at = x]
  OBVIOUS
<1>3. look' = [look EXCEPT ![l] = new]
  BY <1>1, <1>2 DEF SetLook, TOKinds
<1>4. new.at = x
  BY <1>2
<1>5. QED  BY <1>3, <1>4 DEF TOKinds

LEMMA LooksAre ==
  ASSUME TOInv, NEW l \in Asks, Hit(l) \/ Reply(l) \/ Lost(l) \/ Refused(l) \/ Over(l)
  PROVE  \E x : Looked(l, x)
<1> USE DEF TOInv
<1>0. Said \subseteq LookedAt \ {"none"} /\ {"ask", "failed", "over"} \subseteq LookedAt \ {"none"}
  BY DEF LookedAt, Said
<1>1. CASE Hit(l)
  <2>1. cache[l] \in Said /\ SetLook(l, cache[l]) /\ Is(l, "ask") /\ UNCHANGED <<calls, cache>>
        /\ UNCHANGED <<wish, train, answer, task, board>>
    BY <1>1 DEF Hit, TOKinds
  <2>2. PICK x \in Said : x = cache[l]
    BY <2>1
  <2>3. /\ look' \in [Asks -> [at : LookedAt, tries : Nat]]
        /\ \A m \in Asks : look'[m].at = IF m = l THEN x ELSE look[m].at
    BY <1>0, <2>1, <2>2, SetLookIs
  <2>4. Dearer
    BY <2>1, PaysMore
  <2>5. Looked(l, x)
    BY <1>0, <2>1, <2>3, <2>4 DEF Looked, TOKinds
  <2>6. QED  BY <2>5
<1>2. CASE Reply(l)
  <2>1. /\ Is(l, "ask") /\ Consume("amap")
        /\ UNCHANGED <<wish, train, answer, task, board>>
    BY <1>2 DEF Reply, Pays
  <2>2. PICK x \in Said : /\ SetLook(l, x)
                          /\ cache' = [k \in DOMAIN cache \cup {l} |-> IF k = l THEN x ELSE cache[k]]
    BY <1>2 DEF Reply
  <2>3. /\ look' \in [Asks -> [at : LookedAt, tries : Nat]]
        /\ \A m \in Asks : look'[m].at = IF m = l THEN x ELSE look[m].at
    BY <1>0, <2>2, SetLookIs
  <2>4. \A k \in DOMAIN cache' : cache'[k] \in Said
    BY <2>2 DEF TOKinds
  <2>5. Dearer
    BY <2>1, PaysMore
  <2>6. Looked(l, x)
    BY <1>0, <2>1, <2>3, <2>4, <2>5 DEF Looked
  <2>7. QED  BY <2>6
<1>3. CASE Lost(l)
  <2>1. /\ Is(l, "ask") /\ Consume("amap") /\ look' = [look EXCEPT ![l].tries = @ + 1]
        /\ UNCHANGED <<wish, train, answer, task, board, cache>>
    BY <1>3 DEF Lost, Pays
  <2>2. PICK entry \in [at : LookedAt, tries : Nat] : entry = look[l]
    BY DEF TOKinds
  <2>3. PICK new \in [at : LookedAt, tries : Nat] : new = [entry EXCEPT !.tries = entry.tries + 1]
    <3>1. entry.tries + 1 \in Nat
      OBVIOUS
    <3>2. [entry EXCEPT !.tries = entry.tries + 1] \in [at : LookedAt, tries : Nat]
      BY <3>1
    <3>3. QED  BY <3>2
  <2>4. look' = [look EXCEPT ![l] = new] /\ new.at = entry.at
    BY <2>1, <2>2, <2>3 DEF TOKinds
  <2>5. look' \in [Asks -> [at : LookedAt, tries : Nat]]
    BY <2>4 DEF TOKinds
  <2>6. \A m \in Asks : look'[m].at = IF m = l THEN "ask" ELSE look[m].at
    BY <2>1, <2>2, <2>4 DEF TOKinds, Is
  <2>7. Dearer
    BY <2>1, PaysMore
  <2>8. Looked(l, "ask")
    BY <1>0, <2>1, <2>5, <2>6, <2>7 DEF Looked, TOKinds
  <2>9. QED  BY <2>8
<1>4. CASE Refused(l)
  <2>1. /\ Is(l, "ask") /\ Consume("amap") /\ SetLook(l, "failed")
        /\ UNCHANGED <<wish, train, answer, task, board, cache>>
    BY <1>4 DEF Refused, Pays
  <2>2. /\ look' \in [Asks -> [at : LookedAt, tries : Nat]]
        /\ \A m \in Asks : look'[m].at = IF m = l THEN "failed" ELSE look[m].at
    BY <1>0, <2>1, SetLookIs
  <2>3. Dearer
    BY <2>1, PaysMore
  <2>4. Looked(l, "failed")
    BY <1>0, <2>1, <2>2, <2>3 DEF Looked, TOKinds
  <2>5. QED  BY <2>4
<1>5. CASE Over(l)
  <2>1. /\ Is(l, "ask") /\ SetLook(l, "over")
        /\ UNCHANGED <<wish, calls, train, answer, task, board, cache>>
    BY <1>5 DEF Over
  <2>2. /\ look' \in [Asks -> [at : LookedAt, tries : Nat]]
        /\ \A m \in Asks : look'[m].at = IF m = l THEN "over" ELSE look[m].at
    BY <1>0, <2>1, SetLookIs
  <2>3. Dearer
    BY <2>1, PaysMore
  <2>4. Looked(l, "over")
    BY <1>0, <2>1, <2>2, <2>3 DEF Looked, TOKinds
  <2>5. QED  BY <2>4
<1>6. QED  BY <1>1, <1>2, <1>3, <1>4, <1>5

\* No lookup is two things at once.
LEMMA OneAt ==
  ASSUME NEW l, NEW x, NEW y, Is(l, x), Is(l, y)
  PROVE  x = y
  BY DEF Is

LEMMA LookedKeeps ==
  ASSUME TOInv, NEW l \in Asks, NEW x, Looked(l, x)
  PROVE  TOInv'
<1>1. UNCHANGED <<wish, train, answer, task, board>> /\ Is(l, "ask") /\ x # "none"
  BY DEF Looked
<1>2. TOKinds'
  BY DEF Looked, TOInv, TOKinds, Dearer
<1>3. TrainsTold'
  BY <1>1, TrainsFrame DEF Looked
<1>4. \A m \in Asks : look'[m].at = IF m = l THEN x ELSE look[m].at
  BY DEF Looked
<1>5. \A m \in Asks : Is(m, "none")' <=> Is(m, "none")
  BY <1>1, <1>4 DEF Is
<1>6. HotelsTold'
  <2>1. CASE l \notin Of("hotels")
    BY <1>1, <1>4, <2>1, HotelsFrame, OfAre
  <2>2. CASE l \in Of("hotels")
    <3>1. task["hotels"] = "running"
      BY <1>1, <2>2 DEF TOInv, HotelsTold
    <3>2. InOrder'
      <4> SUFFICES ASSUME NEW i \in DOMAIN Hotels, NEW j \in DOMAIN Hotels,
                          i < j, Hotels[i] # Hotels[j], ~Is(Hotels[j], "none")'
                   PROVE  HasAnswer(Hotels[i])' \/ (i > 1 /\ Is(Hotels[i], "failed")')
        BY DEF InOrder
      <4>1. Hotels[i] \in Asks /\ Hotels[j] \in Asks
        BY OfAre DEF Range
      <4>2. ~Is(Hotels[j], "none")
        BY <1>5, <4>1
      <4>3. HasAnswer(Hotels[i]) \/ (i > 1 /\ Is(Hotels[i], "failed"))
        BY <4>2 DEF TOInv, HotelsTold, InOrder
      <4>4. Hotels[i] # l
        BY <1>1, <4>3 DEF Is, HasAnswer, Said
      <4>5. look'[Hotels[i]].at = look[Hotels[i]].at
        BY <1>4, <4>1, <4>4
      <4>6. QED  BY <4>3, <4>5 DEF HasAnswer, Is
    <3>3. \A m \in Of("hotels") : /\ Is(m, "ask")' => task'["hotels"] = "running"
                                  /\ ~Is(m, "none")' => Wants("nearby_hotels")'
      BY <1>1, <1>5, <3>1, OfAre DEF TOInv, HotelsTold, Wants
    <3>4. QED  BY <1>1, <3>1, <3>2, <3>3 DEF HotelsTold, TOInv
  <2>3. QED  BY <2>1, <2>2
<1>7. ExtrasTold'
  <2>1. \A k : Wants(k)' <=> Wants(k)
    BY <1>1 DEF Wants
  <2>2. "commute" \in board.extras => Is("route", "some")'
    <3>1. ASSUME "commute" \in board.extras PROVE Is("route", "some")'
      <4>1. Is("route", "some") /\ "route" \in Asks
        BY <3>1, OfAre DEF TOInv, ExtrasTold
      <4>2. l # "route"
        BY <1>1, <4>1, OneAt
      <4>3. QED  BY <1>4, <4>1, <4>2 DEF Is
    <3>2. QED  BY <3>1
  <2>3. \A m \in Of("weather") : ~Is(m, "none")' => Wants("weather")'
    BY <1>5, <2>1, OfAre DEF TOInv, ExtrasTold
  <2>4. \A m \in Of("commute") : ~Is(m, "none")' =>
          /\ Wants("local_transport")' /\ wish'.anchor
          /\ board'.trains # {} /\ task'["trains"] # "running"
    BY <1>1, <1>5, <2>1, OfAre DEF TOInv, ExtrasTold
  <2>5. \A k \in Extras :
        /\ task'[k] = "running" => k \notin board'.extras \cup board'.notes
        /\ task'[k] # "running" => (k \in board'.extras \cup board'.notes <=> Wants(Capability(k))')
    <3> TAKE k \in Extras
    <3>1. Wants(Capability(k))' <=> Wants(Capability(k))
      BY <1>1 DEF Wants
    <3>2. QED  BY <1>1, <3>1 DEF TOInv, ExtrasTold
  <2>6. QED  BY <1>1, <2>2, <2>3, <2>4, <2>5 DEF ExtrasTold, TOInv
<1>8. QED  BY <1>2, <1>3, <1>6, <1>7 DEF TOInv

-----------------------------------------------------------------------------
(* Trains.                                                                 *)

\* The query moves on.
Moving(new) ==
  /\ train' = new /\ new \in Trains /\ Runs("trains")
  /\ Dearer /\ UNCHANGED <<wish, cache, look, task, board>>

LEMMA MovesKeep ==
  ASSUME TOInv, NEW new, Moving(new),
         answer' \in [1..Pairs -> {"none", "rows", "empty", "failed"}],
         \A p \in 1..Pairs : answer'[p] = "none" <=> p >= new.pair,
         new.pair >= 1, new.at # "pairs" => new.pair = 1, Wants("train")
  PROVE  TOInv'
<1>1. UNCHANGED <<wish, cache, look, task, board>>
  BY DEF Moving
<1>2. TOKinds'
  BY <1>1 DEF Moving, TOInv, TOKinds, Dearer
<1>3. TrainsTold'
  <2>1. Wants("train")'
    BY <1>1 DEF Wants
  <2>2. task["trains"] = "running"
    BY DEF Moving, Runs
  <2>3. QED  BY <1>1, <2>1, <2>2 DEF TrainsTold, TOInv, Moving
<1>4. HotelsTold'
  BY <1>1, HotelsFrame
<1>5. ExtrasTold'
  BY <1>1, ExtrasFrame
<1>6. QED  BY <1>2, <1>3, <1>4, <1>5 DEF TOInv

LEMMA QueryKeeps ==
  ASSUME TOInv,
         TrainsBegin \/ Warmed \/ StationsRead \/ StationsLost \/ Tickets \/ NoTickets
  PROVE  TOInv'
<1> USE DEF TOInv
<1>1. PICK now \in Trains : now = train
  BY DEF TOKinds
<1>2. /\ \A p \in 1..Pairs : answer[p] = "none" <=> p >= now.pair
      /\ now.pair >= 1 /\ (now.at # "pairs" => now.pair = 1)
      /\ now.at # "start" => Wants("train")
      /\ answer \in [1..Pairs -> {"none", "rows", "empty", "failed"}] /\ now.pair \in Nat
      /\ now.tries \in Nat /\ now.suffix \in Nat
  BY <1>1 DEF TrainsTold, TOKinds, Trains
<1>3. CASE TrainsBegin
  <2>1. PICK stage \in {"start", "warm", "stations", "pairs"} : train' = [now EXCEPT !.at = stage]
    BY <1>1, <1>3 DEF TrainsBegin
  <2>2. PICK new \in Trains : new = [now EXCEPT !.at = stage]
    BY DEF Trains
  <2>3. new.pair = now.pair /\ now.at = "start"
    BY <1>1, <1>3, <2>2 DEF TrainsBegin, Trains
  <2>4. Moving(new)
    BY <1>3, <2>1, <2>2, PaysMore DEF Moving, TrainsBegin
  <2>5. answer' = answer /\ Wants("train")
    BY <1>3 DEF TrainsBegin
  <2>6. QED  BY <1>2, <2>3, <2>4, <2>5, MovesKeep
<1>4. CASE Warmed \/ StationsRead \/ StationsLost
  <2>1. PICK stage \in {"warm", "stations", "pairs"}, n \in Nat :
          train' = [now EXCEPT !.at = stage, !.tries = n]
    <3>1. CASE Warmed
      <4>1. train' = [now EXCEPT !.at = "stations", !.tries = now.tries]
        BY <1>1, <3>1 DEF Warmed, Trains
      <4>2. QED  BY <1>2, <4>1
    <3>2. CASE StationsRead
      <4>1. train' = [now EXCEPT !.at = "pairs", !.tries = now.tries]
        BY <1>1, <3>2 DEF StationsRead, Trains
      <4>2. QED  BY <1>2, <4>1
    <3>3. CASE StationsLost
      <4>1. train' = [now EXCEPT !.tries = now.tries + 1] /\ now.at = "stations"
        BY <1>1, <3>3 DEF StationsLost, Fetched, Fetching
      <4>2. train' = [now EXCEPT !.at = "stations", !.tries = now.tries + 1]
        BY <4>1 DEF Trains
      <4>3. now.tries + 1 \in Nat
        BY <1>2
      <4>4. QED  BY <4>2, <4>3
    <3>4. QED  BY <1>4, <3>1, <3>2, <3>3
  <2>2. PICK new \in Trains : new = [now EXCEPT !.at = stage, !.tries = n]
    BY DEF Trains
  <2>3. new.pair = now.pair /\ now.at \in {"warm", "stations"}
    BY <1>1, <1>4, <2>2 DEF Trains, Warmed, StationsRead, StationsLost, Fetched, Fetching
  <2>4. Runs("trains") /\ Consume("train") /\ answer' = answer
        /\ UNCHANGED <<wish, cache, look, task, board>>
    BY <1>4 DEF Warmed, StationsRead, StationsLost, Fetched, Fetching, GoesOn
  <2>5. Moving(new)
    BY <2>1, <2>2, <2>4, PaysMore DEF Moving
  <2>6. QED  BY <1>2, <2>3, <2>4, <2>5, MovesKeep
<1>5. CASE Tickets \/ NoTickets
  <2>1. Runs("trains") /\ Consume("train") /\ now.at = "pairs" /\ now.pair \in 1..Pairs
        /\ UNCHANGED <<wish, cache, look, task, board>>
    BY <1>1, <1>2, <1>5, TripOptionsAssumption DEF Tickets, NoTickets, Fetched, Fetching, GoesOn
  <2>2. CASE \E x \in {"rows", "empty", "failed"} : NextPair(x)
    <3>1. PICK x \in {"rows", "empty", "failed"} : NextPair(x)
      BY <2>2
    <3>2. answer' = [answer EXCEPT ![now.pair] = x]
          /\ train' = [now EXCEPT !.pair = now.pair + 1, !.suffix = 1]
      BY <1>1, <3>1 DEF NextPair, Trains
    <3>3. PICK new \in Trains : new = [now EXCEPT !.pair = now.pair + 1, !.suffix = 1]
      <4>1. now.pair + 1 \in Nat
        BY <1>2
      <4>2. [now EXCEPT !.pair = now.pair + 1, !.suffix = 1] \in Trains
        BY <4>1 DEF Trains
      <4>3. QED  BY <4>2
    <3>4. new.pair = now.pair + 1 /\ new.at = "pairs"
      BY <2>1, <3>3 DEF Trains
    <3>5. answer' \in [1..Pairs -> {"none", "rows", "empty", "failed"}]
      BY <1>2, <3>2
    <3>6. \A p \in 1..Pairs : answer'[p] = "none" <=> p >= new.pair
      BY <1>2, <2>1, <3>2, <3>4, TripOptionsAssumption
    <3>7. Moving(new)
      BY <2>1, <3>2, <3>3, PaysMore DEF Moving
    <3>8. QED  BY <1>2, <2>1, <3>4, <3>5, <3>6, <3>7, MovesKeep
  <2>3. CASE NoTickets /\ train.suffix < Endpoints
    <3>1. answer' = answer /\ train' = [now EXCEPT !.suffix = now.suffix + 1]
      BY <1>1, <2>3 DEF NoTickets, Trains
    <3>2. PICK new \in Trains : new = [now EXCEPT !.suffix = now.suffix + 1]
      <4>1. now.suffix + 1 \in Nat
        BY <1>2
      <4>2. [now EXCEPT !.suffix = now.suffix + 1] \in Trains
        BY <4>1 DEF Trains
      <4>3. QED  BY <4>2
    <3>3. new.pair = now.pair /\ new.at = "pairs"
      BY <2>1, <3>2 DEF Trains
    <3>4. Moving(new)
      BY <2>1, <3>1, <3>2, PaysMore DEF Moving
    <3>5. QED  BY <1>2, <2>1, <3>1, <3>3, <3>4, MovesKeep
  <2>4. QED  BY <1>5, <2>2, <2>3 DEF Tickets, NoTickets
<1>6. QED  BY <1>3, <1>4, <1>5

-----------------------------------------------------------------------------
(* Coroutines that end.                                                    *)

\* One coroutine ends, with its board.
Ended(t, as) ==
  /\ Runs(t) /\ t \in Tasks /\ as \in {"done", "late"}
  /\ task' = [task EXCEPT ![t] = as] /\ board' \in Board
  /\ Dearer /\ UNCHANGED <<wish, cache, train, answer>>
  /\ look' \in [Asks -> [at : LookedAt, tries : Nat]]

LEMMA EndedIs ==
  ASSUME TOInv, NEW t, NEW as, Ended(t, as)
  PROVE  /\ TOKinds' /\ Dearer /\ task[t] = "running" /\ task'[t] = as
         /\ \A k \in Tasks : k # t => task'[k] = task[k]
         /\ UNCHANGED <<wish, cache, train, answer>>
<1>1. /\ task \in [Tasks -> {"running", "done", "late"}] /\ t \in Tasks
      /\ task' = [task EXCEPT ![t] = as] /\ as \in {"done", "late"}
  BY DEF Ended, TOInv, TOKinds
<1>2. task' \in [Tasks -> {"running", "done", "late"}]
  BY <1>1
<1>3. TOKinds'
  BY <1>2 DEF Ended, TOInv, TOKinds, Dearer
<1>4. QED  BY <1>1, <1>3 DEF Ended, Runs

LEMMA TrainsEndKeeps ==
  ASSUME TOInv, NEW as, Ended("trains", as), look' = look,
         board'.hotel = board.hotel, board'.hotels = board.hotels,
         board'.extras = board.extras, board'.notes = board.notes,
         HonestTrains', board'.train = "ready" <=> board'.trains # {}
  PROVE  TOInv'
<1>1. /\ TOKinds' /\ Dearer /\ task["trains"] = "running" /\ task'["trains"] = as
      /\ \A k \in Tasks : k # "trains" => task'[k] = task[k]
      /\ UNCHANGED <<wish, cache, train, answer>>
  BY EndedIs
<1>2. task'["trains"] # "running"
  BY <1>1 DEF Ended
<1>3. TrainsTold'
  BY <1>1, <1>2 DEF TrainsTold, TOInv, Wants
<1>4. HotelsTold'
  BY <1>1, OfAre, HotelsFrame
<1>5. ExtrasTold'
  BY <1>1, OfAre, ExtrasFrame DEF Extras
<1>6. QED  BY <1>1, <1>3, <1>4, <1>5 DEF TOInv

\* Of hotels, no lookup is under way when the coroutine ends.
LEMMA HotelsEndKeeps ==
  ASSUME TOInv, NEW as, Ended("hotels", as),
         \A l \in Asks \ Of("hotels") : look'[l].at = look[l].at,
         \A l \in Of("hotels") : ~Is(l, "ask")' /\ (Is(l, "none")' \/ look'[l] = look[l]),
         look' = look \/ \A l \in Of("hotels") : Is(l, "none")',
         board'.train = board.train, board'.trains = board.trains,
         board'.extras = board.extras, board'.notes = board.notes,
         HonestHotels', board'.hotel = "ready" <=> board'.hotels # {}
  PROVE  TOInv'
<1>1. /\ TOKinds' /\ Dearer /\ task["hotels"] = "running" /\ task'["hotels"] = as
      /\ \A k \in Tasks : k # "hotels" => task'[k] = task[k]
      /\ UNCHANGED <<wish, cache, train, answer>>
  BY EndedIs
<1>2. task'["hotels"] # "running"
  BY <1>1 DEF Ended
<1>3. TrainsTold'
  BY <1>1, OfAre, TrainsFrame
<1>4. \A i \in DOMAIN Hotels : Hotels[i] \in Of("hotels")
  BY OfAre DEF Range
<1>5. InOrder'
  <2>1. CASE look' = look
    BY <2>1 DEF TOInv, HotelsTold, InOrder, Is, HasAnswer
  <2>2. CASE \A l \in Of("hotels") : Is(l, "none")'
    BY <1>4, <2>2 DEF InOrder
  <2>3. QED  BY <2>1, <2>2
<1>6. \A l \in Of("hotels") : ~Is(l, "none")' => Wants("nearby_hotels")'
  BY <1>1 DEF TOInv, HotelsTold, Is, Wants
<1>7. HotelsTold'
  BY <1>2, <1>5, <1>6 DEF HotelsTold
<1>8. \A l \in Of("weather") \cup Of("commute") : look'[l].at = look[l].at
  BY OfAre
<1>9. ExtrasTold'
  BY <1>1, <1>8, OfAre, ExtrasFrame DEF Extras
<1>10. QED  BY <1>1, <1>3, <1>7, <1>9 DEF TOInv

LEMMA OriginEndKeeps ==
  ASSUME TOInv, NEW as, Ended("origin", as),
         \A l \in Asks \ Of("origin") : look'[l].at = look[l].at,
         board'.train = board.train, board'.trains = board.trains,
         board'.hotel = board.hotel, board'.hotels = board.hotels,
         \A k \in Extras : k \in board'.extras <=> k \in board.extras,
         board'.notes = board.notes
  PROVE  TOInv'
<1>1. /\ TOKinds' /\ Dearer /\ \A k \in Tasks : k # "origin" => task'[k] = task[k]
      /\ UNCHANGED <<wish, cache, train, answer>>
  BY EndedIs
<1>2. TrainsTold'
  BY <1>1, OfAre, TrainsFrame
<1>3. HotelsTold'
  BY <1>1, OfAre, HotelsFrame
<1>4. \A l \in Of("weather") \cup Of("commute") : look'[l].at = look[l].at
  BY OfAre, HotelsAre
<1>5. ExtrasTold'
  BY <1>1, <1>4, OfAre, ExtrasFrame DEF Extras
<1>6. QED  BY <1>1, <1>2, <1>3, <1>5 DEF TOInv

\* An extra is there or noted if and only if it is wanted.
LEMMA ExtraEndKeeps ==
  ASSUME TOInv, NEW k \in Extras, NEW as, Ended(k, as),
         \A l \in Asks \ Of(k) : look'[l].at = look[l].at,
         \A l \in Of(k) : look'[l].at = look[l].at \/ Is(l, "none")',
         board'.train = board.train, board'.trains = board.trains,
         board'.hotel = board.hotel, board'.hotels = board.hotels,
         \A e \in Extras \ {k} : e \in board'.extras <=> e \in board.extras,
         \A e \in Extras \ {k} : e \in board'.notes <=> e \in board.notes,
         k \in board'.extras \cup board'.notes <=> Wants(Capability(k)),
         k = "commute" /\ "commute" \in board'.extras => Is("route", "some")'
  PROVE  TOInv'
<1>1. /\ TOKinds' /\ Dearer /\ task[k] = "running" /\ task'[k] = as
      /\ \A t \in Tasks : t # k => task'[t] = task[t]
      /\ UNCHANGED <<wish, cache, train, answer>>
  BY EndedIs
<1>2. k \in {"weather", "commute"} /\ task'[k] # "running"
  BY <1>1 DEF Extras, Ended
<1>3. TrainsTold'
  BY <1>1, <1>2, OfAre, TrainsFrame
<1>4. Of(k) \cap Of("hotels") = {} /\ Of("hotels") \subseteq Asks
  BY <1>2, OfAre
<1>5. HotelsTold'
  BY <1>1, <1>2, <1>4, OfAre, HotelsFrame
<1>6. \A x : Wants(x)' <=> Wants(x)
  BY <1>1 DEF Wants
<1>7. \A l \in Asks : ~Is(l, "none")' => ~Is(l, "none")
  BY DEF Is
<1>8. \A e \in Extras :
        /\ task'[e] = "running" => e \notin board'.extras \cup board'.notes
        /\ task'[e] # "running" => (e \in board'.extras \cup board'.notes <=> Wants(Capability(e))')
  <2> TAKE e \in Extras
  <2>1. Wants(Capability(e))' <=> Wants(Capability(e))
    BY <1>1 DEF Wants
  <2>2. CASE e = k
    BY <1>2, <2>1, <2>2
  <2>3. CASE e # k
    <3>1. task'[e] = task[e]
      BY <1>1, <2>3, OfAre DEF Extras
    <3>2. e \in board'.extras \cup board'.notes <=> e \in board.extras \cup board.notes
      BY <2>3
    <3>3. QED  BY <2>1, <3>1, <3>2 DEF TOInv, ExtrasTold
  <2>4. QED  BY <2>2, <2>3
<1>9. \A l \in Of("weather") : ~Is(l, "none")' => Wants("weather")'
  BY <1>6, <1>7, OfAre DEF TOInv, ExtrasTold
<1>10. \A l \in Of("commute") : ~Is(l, "none")' =>
        /\ Wants("local_transport")' /\ wish'.anchor
        /\ board'.trains # {} /\ task'["trains"] # "running"
  BY <1>1, <1>2, <1>6, <1>7, OfAre DEF TOInv, ExtrasTold
<1>11. "commute" \in board'.extras => task'["commute"] # "running" /\ Is("route", "some")'
  <2>1. CASE k = "commute"
    BY <1>2, <2>1
  <2>2. CASE k = "weather"
    <3>1. "commute" \in Extras \ {k} /\ "route" \in Asks \ Of(k)
      BY <2>2, OfAre DEF Extras
    <3>2. Is("route", "some")' <=> Is("route", "some")
      BY <3>1 DEF Is
    <3>3. task'["commute"] = task["commute"]
      BY <1>1, <2>2, OfAre
    <3>4. QED  BY <3>1, <3>2, <3>3 DEF TOInv, ExtrasTold
  <2>3. QED  BY <1>2, <2>1, <2>2
<1>12. ExtrasTold'
  BY <1>8, <1>9, <1>10, <1>11 DEF ExtrasTold
<1>13. QED  BY <1>1, <1>3, <1>5, <1>12 DEF TOInv

-----------------------------------------------------------------------------
(* Trains that end.                                                        *)

LEMMA BoardIs ==
  ASSUME TOInv
  PROVE  /\ board \in Board
         /\ board = [train |-> board.train, hotel |-> board.hotel, trains |-> board.trains,
                     hotels |-> board.hotels, extras |-> board.extras, notes |-> board.notes]
  BY DEF TOInv, TOKinds, Board

\* What each change of the board leaves alone.
LEMMA BoardsAre ==
  ASSUME TOInv
  PROVE  /\ \A x \in Statuses :
              LET new == [board EXCEPT !.train = x]
              IN  /\ new \in Board /\ new.train = x /\ new.hotel = board.hotel
                  /\ new.trains = board.trains /\ new.hotels = board.hotels
                  /\ new.extras = board.extras /\ new.notes = board.notes
         /\ \A x \in Statuses, S \in SUBSET (1..Pairs) :
              LET new == [board EXCEPT !.trains = S, !.train = x]
              IN  /\ new \in Board /\ new.train = x /\ new.hotel = board.hotel
                  /\ new.trains = S /\ new.hotels = board.hotels
                  /\ new.extras = board.extras /\ new.notes = board.notes
         /\ \A x \in Statuses :
              LET new == [board EXCEPT !.hotel = x]
              IN  /\ new \in Board /\ new.hotel = x /\ new.train = board.train
                  /\ new.trains = board.trains /\ new.hotels = board.hotels
                  /\ new.extras = board.extras /\ new.notes = board.notes
         /\ \A x \in Statuses, S \in SUBSET Range(Hotels) :
              LET new == [board EXCEPT !.hotels = S, !.hotel = x]
              IN  /\ new \in Board /\ new.hotel = x /\ new.train = board.train
                  /\ new.trains = board.trains /\ new.hotels = S
                  /\ new.extras = board.extras /\ new.notes = board.notes
         /\ \A k \in {"weather", "commute"} :
              /\ Note(k) \in Board /\ Note(k).notes = board.notes \cup {k}
              /\ Note(k).extras = board.extras /\ Note(k).train = board.train
              /\ Note(k).trains = board.trains /\ Note(k).hotel = board.hotel
              /\ Note(k).hotels = board.hotels
         /\ \A k \in {"point", "weather", "commute"} :
              /\ Extra(k) \in Board /\ Extra(k).extras = board.extras \cup {k}
              /\ Extra(k).notes = board.notes /\ Extra(k).train = board.train
              /\ Extra(k).trains = board.trains /\ Extra(k).hotel = board.hotel
              /\ Extra(k).hotels = board.hotels
<1>1. board \in Board
  BY BoardIs
<1>2. \A x \in Statuses : [board EXCEPT !.train = x] \in Board /\ [board EXCEPT !.hotel = x] \in Board
  BY <1>1 DEF Board
<1>3. \A x \in Statuses, S \in SUBSET (1..Pairs) : [board EXCEPT !.trains = S, !.train = x] \in Board
  BY <1>1 DEF Board
<1>4. \A x \in Statuses, S \in SUBSET Range(Hotels) : [board EXCEPT !.hotels = S, !.hotel = x] \in Board
  BY <1>1 DEF Board
<1>5. \A k \in {"weather", "commute"} : Note(k) \in Board
  <2> TAKE k \in {"weather", "commute"}
  <2>1. board.notes \cup {k} \in SUBSET {"weather", "commute"}
    BY <1>1 DEF Board
  <2>2. QED  BY <1>1, <2>1 DEF Board, Note
<1>6. \A k \in {"point", "weather", "commute"} : Extra(k) \in Board
  <2> TAKE k \in {"point", "weather", "commute"}
  <2>1. board.extras \cup {k} \in SUBSET {"point", "weather", "commute"}
    BY <1>1 DEF Board
  <2>2. QED  BY <1>1, <2>1 DEF Board, Extra
<1>7. QED  BY <1>1, <1>2, <1>3, <1>4, <1>5, <1>6 DEF Board, Note, Extra

LEMMA ClosesIs ==
  ASSUME TOInv, NEW t \in Tasks, NEW b \in Board, Closes(t, b),
         Dearer, UNCHANGED <<wish, cache, look, train, answer>>
  PROVE  Ended(t, "done") /\ board' = b
  BY DEF TOInv, TOKinds, Closes, Ended

LEMMA PairsAre ==
  ASSUME UNCHANGED answer
  PROVE  \A x : PairsWith(x)' = PairsWith(x)
  BY DEF PairsWith

\* Trains end "unavailable" only where no pair has rows or the budget is used up.
LEMMA NoTrainsKeeps ==
  ASSUME TOInv, NEW as, Ended("trains", as), look' = look, board' = NoTrains,
         Wants("train"),
         as = "late" \/ PairsWith("rows") = {} \/ (train.pair <= Pairs /\ ~Affordable("train"))
  PROVE  TOInv'
<1>1. "unavailable" \in Statuses
  BY DEF Statuses
<1>2. /\ board'.train = "unavailable" /\ board'.hotel = board.hotel
      /\ board'.trains = board.trains /\ board'.hotels = board.hotels
      /\ board'.extras = board.extras /\ board'.notes = board.notes
  BY <1>1, BoardsAre DEF NoTrains
<1>3. task["trains"] = "running" /\ task'["trains"] = as
      /\ Dearer /\ UNCHANGED <<wish, cache, train, answer>>
  BY EndedIs
<1>4. board.trains = {}
  BY <1>3 DEF TOInv, TrainsTold
<1>5. ~Affordable("train") => ~Affordable("train")'
  BY <1>3, DearerStays DEF TOInv
<1>6. Wants("train")'
  BY <1>3 DEF Wants
<1>7. PairsWith("rows")' = PairsWith("rows")
  BY <1>3, PairsAre
<1>8. HonestTrains'
  BY <1>2, <1>3, <1>5, <1>6, <1>7 DEF HonestTrains, TrainsCut
<1>9. QED  BY <1>2, <1>4, <1>8, TrainsEndKeeps

LEMMA TrainsCloseKeeps ==
  ASSUME TOInv, TrainsSkipped \/ TrainsFail \/ TrainsOver \/ TrainsEnd
  PROVE  TOInv'
<1>0. "trains" \in Tasks
  BY OfAre
<1>0a. {"excluded", "unavailable", "empty", "ready", "needs_input"} \subseteq Statuses
  BY DEF Statuses
<1>0b. train.pair \in Nat /\ train.pair >= 1
       /\ \A p \in 1..Pairs : answer[p] = "none" <=> p >= train.pair
  BY DEF TOInv, TOKinds, Trains, TrainsTold
<1>1. CASE TrainsSkipped
  <2>0. UNCHANGED <<wish, calls, cache, look, train, answer>> /\ Dearer
    BY <1>1, PaysMore DEF TrainsSkipped, TOInv
  <2>1. CASE ~Wants("train") /\ Closes("trains", [board EXCEPT !.train = "excluded"])
    <3>1. [board EXCEPT !.train = "excluded"] \in Board
      BY <1>0a, BoardsAre
    <3>2. Ended("trains", "done") /\ board' = [board EXCEPT !.train = "excluded"]
      BY <1>0, <2>0, <2>1, <3>1, ClosesIs
    <3>3. /\ board'.train = "excluded" /\ board'.hotel = board.hotel
          /\ board'.trains = board.trains /\ board'.hotels = board.hotels
          /\ board'.extras = board.extras /\ board'.notes = board.notes
      BY <1>0a, <3>2, BoardsAre
    <3>4. board.trains = {}
      BY <3>2, EndedIs DEF TOInv, TrainsTold
    <3>5. ~Wants("train")'
      BY <2>0, <2>1 DEF Wants
    <3>6. HonestTrains'
      BY <3>3, <3>5 DEF HonestTrains
    <3>7. QED  BY <2>0, <3>2, <3>3, <3>4, <3>6, TrainsEndKeeps
  <2>2. CASE Wants("train") /\ Closes("trains", board)
    <3>1. Ended("trains", "done") /\ board' = board
      BY <1>0, <2>0, <2>2, BoardIs, ClosesIs
    <3>2. board.train = "needs_input" /\ board.trains = {}
      BY <3>1, EndedIs DEF TOInv, TrainsTold
    <3>3. Wants("train")'
      BY <2>0, <2>2 DEF Wants
    <3>4. HonestTrains'
      BY <3>1, <3>2, <3>3 DEF HonestTrains
    <3>5. QED  BY <2>0, <3>1, <3>2, <3>4, TrainsEndKeeps
  <2>3. QED  BY <1>1, <2>1, <2>2 DEF TrainsSkipped
<1>2. CASE TrainsFail
  <2>1. Closes("trains", NoTrains) /\ UNCHANGED <<wish, cache, look, train, answer>>
        /\ Runs("trains") /\ Dearer
    <3>1. UNCHANGED calls \/ Consume("train")
      BY <1>2 DEF TrainsFail, Fetched
    <3>2. Dearer
      BY <3>1, PaysMore DEF TOInv
    <3>3. QED  BY <1>2, <3>2 DEF TrainsFail, Closes
  <2>2. train.at # "start" /\ train.pair = 1
    BY <1>2 DEF TrainsFail, Fetched, Fetching, TOInv, TrainsTold
  <2>3. Wants("train")
    BY <2>2 DEF TOInv, TrainsTold
  <2>4. PairsWith("rows") = {}
    BY <1>0b, <2>2 DEF PairsWith
  <2>5. NoTrains \in Board
    BY <1>0a, BoardsAre DEF NoTrains
  <2>6. Ended("trains", "done") /\ board' = NoTrains
    BY <1>0, <2>1, <2>5, ClosesIs
  <2>7. QED  BY <2>1, <2>3, <2>4, <2>6, NoTrainsKeeps
<1>3. CASE TrainsOver
  <2>1. UNCHANGED <<wish, calls, cache, look, train, answer>> /\ Closes("trains", NoTrains)
        /\ ~Affordable("train") /\ train.at # "start" /\ train.pair <= Pairs /\ Dearer
    BY <1>3, PaysMore DEF TrainsOver, Fetching, TOInv
  <2>2. NoTrains \in Board
    BY <1>0a, BoardsAre DEF NoTrains
  <2>3. Ended("trains", "done") /\ board' = NoTrains
    BY <1>0, <2>1, <2>2, ClosesIs
  <2>4. Wants("train")
    BY <2>1 DEF TOInv, TrainsTold
  <2>5. QED  BY <2>1, <2>3, <2>4, NoTrainsKeeps
<1>4. CASE TrainsEnd
  <2>1. UNCHANGED <<wish, calls, cache, look, train, answer>> /\ Closes("trains", TrainBoard)
        /\ train.pair > Pairs /\ Dearer
    BY <1>4, PaysMore DEF TrainsEnd, TOInv
  <2>2. train.at # "start" /\ Wants("train")
    BY <1>0b, <2>1, TripOptionsAssumption DEF TOInv, TrainsTold
  <2>3. \A p \in 1..Pairs : answer[p] \in {"rows", "empty", "failed"}
    BY <1>0b, <2>1, TripOptionsAssumption DEF TOInv, TOKinds
  <2>4. CASE PairsWith("failed") = 1..Pairs
    <3>1. TrainBoard = NoTrains /\ NoTrains \in Board
      BY <1>0a, <2>4, BoardsAre DEF TrainBoard, NoTrains
    <3>2. Ended("trains", "done") /\ board' = NoTrains
      BY <1>0, <2>1, <3>1, ClosesIs
    <3>3. PairsWith("rows") = {}
      BY <2>4 DEF PairsWith
    <3>4. QED  BY <2>1, <2>2, <3>2, <3>3, NoTrainsKeeps
  <2>5. CASE PairsWith("failed") # 1..Pairs
    <3>1. PICK x \in {"empty", "ready"} : x = IF PairsWith("rows") = {} THEN "empty" ELSE "ready"
      OBVIOUS
    <3>2. TrainBoard = [board EXCEPT !.trains = PairsWith("rows"), !.train = x]
      BY <2>5, <3>1 DEF TrainBoard
    <3>3. PairsWith("rows") \in SUBSET (1..Pairs)
      BY DEF PairsWith
    <3>4. TrainBoard \in Board
      BY <1>0a, <3>1, <3>2, <3>3, BoardsAre
    <3>5. Ended("trains", "done") /\ board' = TrainBoard
      BY <1>0, <2>1, <3>4, ClosesIs
    <3>6. /\ board'.train = x /\ board'.hotel = board.hotel
          /\ board'.trains = PairsWith("rows") /\ board'.hotels = board.hotels
          /\ board'.extras = board.extras /\ board'.notes = board.notes
      <4>1. PICK S \in SUBSET (1..Pairs) : S = PairsWith("rows")
        BY <3>3
      <4>2. x \in Statuses
        BY <1>0a, <3>1
      <4>3. board' = [board EXCEPT !.trains = S, !.train = x]
        BY <3>2, <3>5, <4>1
      <4>4. QED  BY <4>1, <4>2, <4>3, BoardsAre
    <3>7. PICK p \in 1..Pairs : answer[p] # "failed"
      BY <2>5 DEF PairsWith
    <3>8. PairsWith("rows") = {} => PairsWith("empty") # {}
      BY <2>3, <3>7 DEF PairsWith
    <3>9. PairsWith("rows")' = PairsWith("rows") /\ PairsWith("empty")' = PairsWith("empty")
      BY <2>1, PairsAre
    <3>10. Wants("train")'
      BY <2>1, <2>2 DEF Wants
    <3>11. HonestTrains'
      BY <3>1, <3>6, <3>8, <3>9, <3>10 DEF HonestTrains
    <3>12. QED  BY <2>1, <3>1, <3>5, <3>6, <3>11, TrainsEndKeeps
  <2>6. QED  BY <2>4, <2>5
<1>5. QED  BY <1>1, <1>2, <1>3, <1>4

-----------------------------------------------------------------------------
(* Hotels.                                                                 *)

LEMMA RequestIs ==
  ASSUME TOInv, NEW L \in SUBSET Asks, Request(L)
  PROVE  /\ look' \in [Asks -> [at : LookedAt, tries : Nat]]
         /\ \A l \in L : look'[l].at = "ask"
         /\ \A l \in Asks \ L : look'[l] = look[l]
<1>1. PICK new \in [at : LookedAt, tries : Nat] : new = [at |-> "ask", tries |-> 0]
  BY DEF LookedAt
<1>2. look' = [l \in Asks |-> IF l \in L THEN new ELSE look[l]]
  BY <1>1 DEF Request
<1>3. new.at = "ask"
  BY <1>1
<1>4. QED  BY <1>2, <1>3 DEF TOInv, TOKinds

\* What is asked now had its turn.
LEMMA HotelAsked ==
  ASSUME NEW i \in DOMAIN Hotels, HotelsGoOn(i),
         \A j \in 1 .. i - 1 : HasAnswer(Hotels[j]) \/ Broken(Hotels[j]),
         NEW a \in DOMAIN Hotels, NEW b \in DOMAIN Hotels, a < b,
         Hotels[a] # Hotels[b], Hotels[b] = Hotels[i]
  PROVE  HasAnswer(Hotels[a]) \/ (a > 1 /\ Is(Hotels[a], "failed"))
<1>1. a \in 1..3 /\ b \in 1..3 /\ i \in 1..3
  BY HotelsAre
<1>2. Hotels[1] = "around" /\ Hotels[b] # "around"
  BY <1>1, HotelsAre
<1>3. i > 1 /\ HasAnswer("around") /\ ~Is(Hotels[i - 1], "over")
  BY <1>1, <1>2 DEF HotelsGoOn
<1>4. CASE a = 1
  BY <1>2, <1>3, <1>4
<1>5. CASE a = 2
  <2>1. i = 3
    BY <1>1, <1>3, <1>5
  <2>2. HasAnswer(Hotels[2]) \/ Broken(Hotels[2])
    BY <2>1
  <2>3. ~Is(Hotels[2], "over")
    BY <1>3, <2>1
  <2>4. QED  BY <1>5, <2>2, <2>3 DEF Broken, Is
<1>6. QED  BY <1>1, <1>4, <1>5

LEMMA AsksKeep ==
  ASSUME TOInv, HotelsAsk
  PROVE  TOInv'
<1>1. PICK i \in DOMAIN Hotels :
        /\ Is(Hotels[i], "none") /\ HotelsGoOn(i) /\ Request({Hotels[i]})
        /\ \A j \in 1 .. i - 1 : HasAnswer(Hotels[j]) \/ Broken(Hotels[j])
  BY DEF HotelsAsk
<1>2. Runs("hotels") /\ Wants("nearby_hotels")
      /\ UNCHANGED <<wish, calls, cache, table, train, answer, task, board>>
  BY DEF HotelsAsk
<1>3. \A k \in DOMAIN Hotels : Hotels[k] \in Of("hotels") /\ Hotels[k] \in Asks
  BY OfAre DEF Range
<1>4. /\ look' \in [Asks -> [at : LookedAt, tries : Nat]]
      /\ look'[Hotels[i]].at = "ask"
      /\ \A l \in Asks : l # Hotels[i] => look'[l] = look[l]
  BY <1>1, <1>3, RequestIs
<1>5. Dearer
  BY <1>2, PaysMore DEF TOInv
<1>6. TOKinds'
  BY <1>2, <1>4 DEF TOInv, TOKinds
<1>7. TrainsTold'
  BY <1>2, <1>5, TrainsFrame
<1>8. HotelsTold'
  <2>1. InOrder'
    <3> SUFFICES ASSUME NEW a \in DOMAIN Hotels, NEW b \in DOMAIN Hotels,
                        a < b, Hotels[a] # Hotels[b], ~Is(Hotels[b], "none")'
                 PROVE  HasAnswer(Hotels[a])' \/ (a > 1 /\ Is(Hotels[a], "failed")')
      BY DEF InOrder
    <3>1. CASE Hotels[b] # Hotels[i]
      <4>1. ~Is(Hotels[b], "none")
        BY <1>3, <1>4, <3>1 DEF Is
      <4>2. HasAnswer(Hotels[a]) \/ (a > 1 /\ Is(Hotels[a], "failed"))
        BY <4>1 DEF TOInv, HotelsTold, InOrder
      <4>3. Hotels[a] # Hotels[i]
        BY <1>1, <4>2 DEF Is, HasAnswer, Said
      <4>4. look'[Hotels[a]] = look[Hotels[a]]
        BY <1>3, <1>4, <4>3
      <4>5. QED  BY <4>2, <4>4 DEF Is, HasAnswer
    <3>2. CASE Hotels[b] = Hotels[i]
      <4>1. look'[Hotels[a]] = look[Hotels[a]]
        BY <1>3, <1>4, <3>2
      <4>2. HasAnswer(Hotels[a]) \/ (a > 1 /\ Is(Hotels[a], "failed"))
        BY <1>1, <1>3, <3>2, HotelAsked
      <4>3. QED  BY <4>1, <4>2 DEF Is, HasAnswer
    <3>3. QED  BY <3>1, <3>2
  <2>2. task["hotels"] = "running"
    BY <1>2 DEF Runs
  <2>3. \A l \in Of("hotels") : /\ Is(l, "ask")' => task'["hotels"] = "running"
                                /\ ~Is(l, "none")' => Wants("nearby_hotels")'
    BY <1>2, <2>2 DEF Wants
  <2>4. QED  BY <1>2, <2>1, <2>2, <2>3 DEF HotelsTold, TOInv
<1>9. \A l \in Of("weather") \cup Of("commute") : look'[l].at = look[l].at
  BY <1>3, <1>4, OfAre
<1>10. ExtrasTold'
  BY <1>2, <1>9, ExtrasFrame
<1>11. QED  BY <1>6, <1>7, <1>8, <1>10 DEF TOInv

\* Who gives the hotels up has no lookup under way.
LEMMA BrokenEnds ==
  ASSUME TOInv, HotelsBroken
  PROVE  \A l \in Of("hotels") : ~Is(l, "ask")
<1> SUFFICES ASSUME NEW l \in Of("hotels"), Is(l, "ask") PROVE FALSE
  OBVIOUS
<1>1. PICK j \in DOMAIN Hotels : l = Hotels[j]
  BY OfAre DEF Range
<1>2. InOrder
  BY DEF TOInv, HotelsTold
<1>3. ~Is(l, "none") /\ ~HasAnswer(l) /\ ~Broken(l) /\ ~Is(l, "failed")
  BY DEF Is, HasAnswer, Broken, Said
<1>4. CASE Broken("around")
  <2>1. Hotels[1] = "around" /\ 1 \in DOMAIN Hotels /\ j \in 1..3
    BY HotelsAre
  <2>2. l # "around"
    BY <1>3, <1>4
  <2>3. 1 < j
    BY <1>1, <2>1, <2>2
  <2>4. HasAnswer("around")
    BY <1>1, <1>2, <1>3, <2>1, <2>2, <2>3 DEF InOrder
  <2>5. QED  BY <1>4, <2>4 DEF HasAnswer, Broken, Said
<1>5. CASE \E m \in Of("hotels") : Is(m, "over")
  <2>1. PICK m \in Of("hotels") : Is(m, "over")
    BY <1>5
  <2>2. PICK i \in DOMAIN Hotels : m = Hotels[i]
    BY OfAre DEF Range
  <2>3. m # l /\ ~Is(m, "none") /\ ~HasAnswer(m) /\ ~Is(m, "failed")
    BY <2>1 DEF Is, HasAnswer, Said
  <2>4. i \in 1..3 /\ j \in 1..3
    BY HotelsAre
  <2>5. i < j \/ j < i
    BY <1>1, <2>2, <2>3, <2>4
  <2>6. CASE i < j
    BY <1>1, <1>2, <1>3, <2>2, <2>3, <2>6 DEF InOrder
  <2>7. CASE j < i
    BY <1>1, <1>2, <1>3, <2>2, <2>3, <2>7 DEF InOrder
  <2>8. QED  BY <2>5, <2>6, <2>7
<1>6. QED  BY <1>4, <1>5 DEF HotelsBroken

LEMMA HotelsCloseKeeps ==
  ASSUME TOInv, HotelsSkipped \/ HotelsEnd
  PROVE  TOInv'
<1>0. "hotels" \in Tasks /\ {"excluded", "unavailable", "empty", "ready"} \subseteq Statuses
      /\ "around" \in Of("hotels")
  BY OfAre, HotelsAre DEF Statuses
<1>1. UNCHANGED <<wish, calls, cache, look, train, answer>> /\ Dearer
  BY PaysMore DEF HotelsSkipped, HotelsEnd, TOInv
<1>2. \A l, x : Is(l, x)' <=> Is(l, x)
  BY <1>1 DEF Is
<1>3. \A x : Wants(x)' <=> Wants(x)
  BY <1>1 DEF Wants
<1>4. ASSUME NEW x \in Statuses, NEW S \in SUBSET Range(Hotels),
             \/ (Closes("hotels", [board EXCEPT !.hotel = x]) /\ S = {})
             \/ Closes("hotels", [board EXCEPT !.hotels = S, !.hotel = x]),
             \A l \in Of("hotels") : ~Is(l, "ask"),
             x \in {"ready", "empty"} => S = {l \in Of("hotels") : Is(l, "some")},
             x = "unavailable" <=> Is("around", "failed") \/ \E l \in Of("hotels") : Is(l, "over"),
             x = "excluded" <=> ~Wants("nearby_hotels"),
             x = "ready" <=> S # {}
      PROVE  TOInv'
  <2>1. PICK b \in Board : /\ Closes("hotels", b) /\ b.hotel = x /\ b.train = board.train
                           /\ b.trains = board.trains /\ b.extras = board.extras
                           /\ b.notes = board.notes
                           /\ b.hotels = S \/ (b.hotels = board.hotels /\ S = {})
    <3>1. CASE Closes("hotels", [board EXCEPT !.hotel = x]) /\ S = {}
      <4>1. PICK b \in Board : b = [board EXCEPT !.hotel = x]
        BY BoardsAre
      <4>2. /\ b.hotel = x /\ b.train = board.train /\ b.trains = board.trains
            /\ b.hotels = board.hotels /\ b.extras = board.extras /\ b.notes = board.notes
        BY <4>1, BoardsAre
      <4>3. QED  BY <3>1, <4>1, <4>2
    <3>2. CASE Closes("hotels", [board EXCEPT !.hotels = S, !.hotel = x])
      <4>1. PICK b \in Board : b = [board EXCEPT !.hotels = S, !.hotel = x]
        BY BoardsAre
      <4>2. /\ b.hotel = x /\ b.train = board.train /\ b.trains = board.trains
            /\ b.hotels = S /\ b.extras = board.extras /\ b.notes = board.notes
        BY <4>1, BoardsAre
      <4>3. QED  BY <3>2, <4>1, <4>2
    <3>3. QED  BY <1>4, <3>1, <3>2
  <2>2. Ended("hotels", "done") /\ board' = b
    BY <1>0, <1>1, <2>1, ClosesIs
  <2>3. board.hotels = {}
    BY <2>2, EndedIs DEF TOInv, HotelsTold
  <2>4. board'.hotels = S /\ board'.hotel = x /\ task'["hotels"] = "done"
    BY <2>1, <2>2, <2>3, EndedIs
  <2>5. HonestHotels'
    <3>1. {l \in Of("hotels") : Is(l, "some")}' = {l \in Of("hotels") : Is(l, "some")}
      BY <1>2
    <3>2. QED  BY <1>2, <1>3, <1>4, <2>4, <3>1 DEF HonestHotels, HotelsCut
  <2>6. \A l \in Of("hotels") : ~Is(l, "ask")' /\ (Is(l, "none")' \/ look'[l] = look[l])
    BY <1>1, <1>2, <1>4
  <2>7. QED  BY <1>1, <1>4, <2>1, <2>2, <2>4, <2>5, <2>6, HotelsEndKeeps
<1>5. CASE HotelsSkipped
  <2>1. ~Wants("nearby_hotels") /\ Closes("hotels", [board EXCEPT !.hotel = "excluded"])
    BY <1>5 DEF HotelsSkipped
  <2>2. \A l \in Of("hotels") : Is(l, "none")
    BY <2>1 DEF TOInv, HotelsTold
  <2>3. \A l \in Of("hotels") : ~Is(l, "ask") /\ ~Is(l, "over") /\ ~Is(l, "failed")
    BY <2>2 DEF Is
  <2>4. {} \in SUBSET Range(Hotels)
    OBVIOUS
  <2>5. QED  BY <1>0, <1>4, <2>1, <2>3, <2>4
<1>6. CASE HotelsEnd /\ HotelsBroken
  <2>1. Closes("hotels", NoHotels)
    BY <1>6 DEF HotelsEnd
  <2>2. \A l \in Of("hotels") : ~Is(l, "ask")
    BY <1>6, BrokenEnds
  <2>3. PICK l \in Of("hotels") : Broken(l)
    BY <1>0, <1>6 DEF HotelsBroken, Broken, Is
  <2>4. ~Is(l, "none")
    BY <2>3 DEF Broken, Is
  <2>5. Wants("nearby_hotels")
    BY <2>4 DEF TOInv, HotelsTold
  <2>6. Is("around", "failed") \/ \E m \in Of("hotels") : Is(m, "over")
    BY <1>0, <1>6 DEF HotelsBroken, Broken, Is
  <2>7. {} \in SUBSET Range(Hotels)
    OBVIOUS
  <2>8. QED  BY <1>0, <1>4, <2>1, <2>2, <2>5, <2>6, <2>7 DEF NoHotels
<1>7. CASE HotelsEnd /\ ~HotelsBroken
  <2>1. Closes("hotels", HotelBoard) /\ \A l \in Of("hotels") : HasAnswer(l) \/ Broken(l)
    BY <1>7 DEF HotelsEnd
  <2>2. \A l \in Of("hotels") : ~Is(l, "ask") /\ ~Is(l, "none")
    BY <2>1 DEF HasAnswer, Broken, Is, Said
  <2>3. Wants("nearby_hotels")
    BY <1>0, <2>2 DEF TOInv, HotelsTold
  <2>4. ~Is("around", "failed") /\ ~\E m \in Of("hotels") : Is(m, "over")
    BY <1>7 DEF HotelsBroken, Broken, Is
  <2>5. PICK S \in SUBSET Range(Hotels) : S = {l \in Of("hotels") : Is(l, "some")}
    BY OfAre
  <2>6. PICK x \in {"empty", "ready"} : x = IF S = {} THEN "empty" ELSE "ready"
    OBVIOUS
  <2>7. HotelBoard = [board EXCEPT !.hotels = S, !.hotel = x]
    BY <2>5, <2>6 DEF HotelBoard
  <2>8. QED  BY <1>0, <1>4, <2>1, <2>2, <2>3, <2>4, <2>5, <2>6, <2>7
<1>8. QED  BY <1>5, <1>6, <1>7 DEF HotelsSkipped

-----------------------------------------------------------------------------
(* The origin and the extras.                                              *)

\* A request that is not of the hotels.
LEMMA RequestKeeps ==
  ASSUME TOInv, NEW L \in SUBSET (Asks \ Of("hotels")), Request(L),
         UNCHANGED <<wish, calls, cache, train, answer, task, board>>,
         \A l \in L : /\ l \in Of("weather") => Wants("weather")
                      /\ l \in Of("commute") =>
                           /\ Wants("local_transport") /\ wish.anchor
                           /\ board.trains # {} /\ task["trains"] # "running"
                           /\ task["commute"] = "running"
  PROVE  TOInv'
<1>1. /\ look' \in [Asks -> [at : LookedAt, tries : Nat]]
      /\ \A l \in Asks \ L : look'[l] = look[l]
  BY RequestIs
<1>2. Dearer
  BY PaysMore DEF TOInv
<1>3. TOKinds'
  BY <1>1 DEF TOInv, TOKinds
<1>4. TrainsTold'
  BY <1>2, TrainsFrame
<1>5. HotelsTold'
  BY <1>1, OfAre, HotelsFrame
<1>6. \A x : Wants(x)' <=> Wants(x)
  BY DEF Wants
<1>7. \A l \in Of("weather") : ~Is(l, "none")' => Wants("weather")'
  BY <1>1, <1>6, OfAre DEF TOInv, ExtrasTold, Is
<1>8. \A l \in Of("commute") : ~Is(l, "none")' =>
        /\ Wants("local_transport")' /\ wish'.anchor
        /\ board'.trains # {} /\ task'["trains"] # "running"
  <2> TAKE l \in Of("commute")
  <2>1. CASE l \in L
    BY <1>6, <2>1
  <2>2. CASE l \notin L
    <3>1. Is(l, "none")' <=> Is(l, "none")
      BY <1>1, <2>2, OfAre DEF Is
    <3>2. QED  BY <1>6, <3>1 DEF TOInv, ExtrasTold
  <2>3. QED  BY <2>1, <2>2
<1>9. "commute" \in board'.extras => task'["commute"] # "running" /\ Is("route", "some")'
  <2>1. ASSUME "commute" \in board.extras
        PROVE  task["commute"] # "running" /\ Is("route", "some")'
    <3>1. task["commute"] # "running" /\ Is("route", "some") /\ "route" \in Of("commute")
      BY <2>1, OfAre DEF TOInv, ExtrasTold
    <3>2. "route" \notin L
      BY <3>1
    <3>3. QED  BY <1>1, <3>1, <3>2, OfAre DEF Is
  <2>2. QED  BY <2>1
<1>10. \A k \in Extras :
        /\ task'[k] = "running" => k \notin board'.extras \cup board'.notes
        /\ task'[k] # "running" => (k \in board'.extras \cup board'.notes <=> Wants(Capability(k))')
  <2> TAKE k \in Extras
  <2>1. Wants(Capability(k))' <=> Wants(Capability(k))
    BY DEF Wants
  <2>2. QED  BY <2>1 DEF TOInv, ExtrasTold
<1>11. ExtrasTold'
  BY <1>7, <1>8, <1>9, <1>10 DEF ExtrasTold
<1>12. QED  BY <1>3, <1>4, <1>5, <1>11 DEF TOInv

LEMMA ExtraAsksKeep ==
  ASSUME TOInv, OriginAsk \/ WeatherAsk \/ CommuteAsk
  PROVE  TOInv'
<1>1. UNCHANGED <<wish, calls, cache, train, answer, task, board>>
  BY DEF OriginAsk, WeatherAsk, CommuteAsk
<1>2. CASE OriginAsk
  <2>1. {"origin"} \in SUBSET (Asks \ Of("hotels")) /\ Request({"origin"})
    BY <1>2, OfAre DEF OriginAsk
  <2>2. "origin" \notin Of("weather") /\ "origin" \notin Of("commute")
    BY OfAre
  <2>3. QED  BY <1>1, <2>1, <2>2, RequestKeeps
<1>3. CASE WeatherAsk
  <2>1. PICK L \in SUBSET {"adcode", "live", "forecast"} : Request(L) /\ Wants("weather")
    BY <1>3 DEF WeatherAsk
  <2>2. L \in SUBSET (Asks \ Of("hotels")) /\ \A l \in L : l \notin Of("commute")
    BY OfAre
  <2>3. QED  BY <1>1, <2>1, <2>2, RequestKeeps
<1>4. CASE CommuteAsk
  <2>1. PICK L \in SUBSET {"station", "route"} : Request(L)
    BY <1>4 DEF CommuteAsk
  <2>2. L \in SUBSET (Asks \ Of("hotels")) /\ \A l \in L : l \notin Of("weather")
    BY OfAre
  <2>3. /\ Wants("local_transport") /\ wish.anchor /\ board.trains # {}
        /\ task["trains"] # "running" /\ task["commute"] = "running"
    BY <1>4 DEF CommuteAsk, CanCommute, Runs, First
  <2>4. QED  BY <1>1, <2>1, <2>2, <2>3, RequestKeeps
<1>5. QED  BY <1>2, <1>3, <1>4

LEMMA OriginCloses ==
  ASSUME TOInv, OriginEnd
  PROVE  TOInv'
<1>1. UNCHANGED <<wish, calls, cache, look, train, answer>> /\ Dearer
  BY PaysMore DEF OriginEnd, TOInv
<1>2. PICK b \in {board, Extra("point")} : Closes("origin", b)
  BY DEF OriginEnd
<1>3. /\ b \in Board /\ b.train = board.train /\ b.trains = board.trains
      /\ b.hotel = board.hotel /\ b.hotels = board.hotels /\ b.notes = board.notes
      /\ \A k \in Extras : k \in b.extras <=> k \in board.extras
  <2>1. CASE b = board
    BY <2>1, BoardIs
  <2>2. CASE b = Extra("point")
    <3>1. \A k \in Extras : k # "point"
      BY DEF Extras
    <3>2. QED  BY <2>2, <3>1, BoardsAre
  <2>3. QED  BY <2>1, <2>2
<1>4. Ended("origin", "done") /\ board' = b
  BY <1>1, <1>2, <1>3, ClosesIs, OfAre
<1>5. QED  BY <1>1, <1>3, <1>4, OriginEndKeeps

\* An extra ends with nothing, where it is not wanted, noted or there.
LEMMA ExtraCloses ==
  ASSUME TOInv, NEW k \in Extras, NEW b \in {board, Note(k), Extra(k)}, Closes(k, b),
         UNCHANGED <<wish, calls, cache, look, train, answer>>,
         b # board <=> Wants(Capability(k)),
         b = Extra(k) /\ b # Note(k) /\ k = "commute" => Is("route", "some")
  PROVE  TOInv'
<1>1. k \in Tasks /\ Dearer /\ k \in {"weather", "commute"}
  BY PaysMore, OfAre DEF TOInv, Extras
<1>2. /\ b \in Board /\ b.train = board.train /\ b.trains = board.trains
      /\ b.hotel = board.hotel /\ b.hotels = board.hotels
      /\ \A e \in Extras \ {k} : (e \in b.notes <=> e \in board.notes)
                                 /\ (e \in b.extras <=> e \in board.extras)
  <2>1. CASE b = board
    BY <2>1, BoardIs
  <2>2. CASE b = Note(k)
    BY <1>1, <2>2, BoardsAre
  <2>3. CASE b = Extra(k)
    BY <1>1, <2>3, BoardsAre
  <2>4. QED  BY <2>1, <2>2, <2>3
<1>3. Ended(k, "done") /\ board' = b
  BY <1>1, <1>2, ClosesIs
<1>4. k \notin board.extras \cup board.notes
  BY <1>3, EndedIs DEF TOInv, ExtrasTold
<1>5. k \in b.extras \cup b.notes <=> Wants(Capability(k))
  <2>1. CASE b = board
    BY <1>4, <2>1
  <2>2. CASE b # board
    <3>1. k \in Note(k).notes /\ k \in Extra(k).extras
      BY <1>1, BoardsAre
    <3>2. b = Note(k) \/ b = Extra(k)
      BY <2>2
    <3>3. QED  BY <2>2, <3>1, <3>2
  <2>3. QED  BY <2>1, <2>2
<1>6. k = "commute" /\ "commute" \in b.extras => Is("route", "some")'
  <2>1. ASSUME k = "commute", "commute" \in b.extras PROVE Is("route", "some")
    <3>1. b # board /\ b # Note(k)
      BY <1>1, <1>4, <2>1, BoardsAre
    <3>2. QED  BY <2>1, <3>1
  <2>2. QED  BY <2>1 DEF Is
<1>7. QED  BY <1>2, <1>3, <1>5, <1>6, ExtraEndKeeps

LEMMA ExtrasClose ==
  ASSUME TOInv, WeatherEnd \/ CommuteEnd
  PROVE  TOInv'
<1>0. "weather" \in Extras /\ "commute" \in Extras
      /\ Capability("weather") = "weather" /\ Capability("commute") = "local_transport"
  BY DEF Extras, Capability
<1>1. UNCHANGED <<wish, calls, cache, look, train, answer>>
  BY DEF WeatherEnd, CommuteEnd
<1>2. ASSUME NEW k \in Extras, task[k] = "running" PROVE board # Note(k) /\ board # Extra(k)
  <2>1. k \notin board.extras /\ k \notin board.notes /\ k \in {"weather", "commute"}
    BY <1>2 DEF TOInv, ExtrasTold, Extras
  <2>2. k \in Note(k).notes /\ k \in Extra(k).extras
    BY <2>1, BoardsAre
  <2>3. QED  BY <2>1, <2>2
<1>3. ASSUME NEW k \in Extras, Closes(k, Note(k)) PROVE task[k] = "running"
  BY <1>3 DEF Closes, Runs
<1>4. CASE WeatherEnd
  <2>1. task["weather"] = "running"
    BY <1>4 DEF WeatherEnd, Closes, Runs
  <2>2. CASE ~Wants("weather") /\ Closes("weather", board)
    BY <1>0, <1>1, <1>2, <2>1, <2>2, ExtraCloses
  <2>3. ASSUME NEW l \in Of("weather"), ~Is(l, "none") PROVE Wants("weather")
    BY <2>3 DEF TOInv, ExtrasTold
  <2>4. CASE /\ Is("adcode", "nothing") \/ \E l \in Of("weather") : Broken(l)
             /\ Closes("weather", Note("weather"))
    <3>1. \E l \in Of("weather") : ~Is(l, "none")
      BY <2>4, OfAre DEF Is, Broken
    <3>2. Wants("weather")
      BY <2>3, <3>1
    <3>3. QED  BY <1>0, <1>1, <1>2, <2>1, <2>4, <3>2, ExtraCloses
  <2>5. CASE HasAnswer("live") /\ Closes("weather", Extra("weather"))
    <3>1. \E l \in Of("weather") : ~Is(l, "none")
      BY <2>5, OfAre DEF Is, HasAnswer, Said
    <3>2. Wants("weather")
      BY <2>3, <3>1
    <3>3. "weather" # "commute"
      OBVIOUS
    <3>4. QED  BY <1>0, <1>1, <1>2, <2>1, <2>5, <3>2, <3>3, ExtraCloses
  <2>6. QED  BY <1>4, <2>2, <2>4, <2>5 DEF WeatherEnd
<1>5. CASE CommuteEnd
  <2>1. task["commute"] = "running"
    BY <1>5 DEF CommuteEnd, Closes, Runs
  <2>2. CASE ~Wants("local_transport") /\ Closes("commute", board)
    BY <1>0, <1>1, <1>2, <2>1, <2>2, ExtraCloses
  <2>3. CASE Wants("local_transport") /\ Closes("commute", Note("commute"))
    BY <1>0, <1>1, <1>2, <2>1, <2>3, ExtraCloses
  <2>4. CASE Is("route", "some") /\ Closes("commute", Extra("commute"))
    <3>1. "route" \in Of("commute") /\ ~Is("route", "none")
      BY <2>4, OfAre DEF Is
    <3>2. Wants("local_transport")
      BY <3>1 DEF TOInv, ExtrasTold
    <3>3. QED  BY <1>0, <1>1, <1>2, <2>1, <2>4, <3>2, ExtraCloses
  <2>5. QED  BY <1>5, <2>2, <2>3, <2>4 DEF CommuteEnd
<1>6. QED  BY <1>4, <1>5

-----------------------------------------------------------------------------
(* Deadlines.                                                              *)

LEMMA DeadlineKeeps ==
  ASSUME TOInv, NEW t \in Tasks, Deadline(t)
  PROVE  TOInv'
<1>1. /\ Runs(t) /\ Started(t) /\ task' = [task EXCEPT ![t] = "late"]
      /\ UNCHANGED <<wish, calls, cache, train, answer>> /\ Dearer
  BY PaysMore DEF Deadline, TOInv
<1>2. /\ look' \in [Asks -> [at : LookedAt, tries : Nat]]
      /\ \A l \in Of(t) \cap Asks : Is(l, "none")'
      /\ \A l \in Asks \ Of(t) : look'[l] = look[l]
  <2>1. PICK new \in [at : LookedAt, tries : Nat] : new = [at |-> "none", tries |-> 0]
    BY DEF LookedAt
  <2>2. look' = [l \in Asks |-> IF l \in Of(t) THEN new ELSE look[l]] /\ new.at = "none"
    BY <2>1 DEF Deadline
  <2>3. QED  BY <2>2 DEF TOInv, TOKinds, Is
<1>3. Statuses = {"needs_input", "excluded", "ready", "empty", "unavailable"}
  BY DEF Statuses
<1>4. ASSUME board' \in Board PROVE Ended(t, "late")
  BY <1>1, <1>2, <1>4 DEF Ended
<1>5. CASE t = "trains"
  <2>1. board' = NoTrains /\ NoTrains \in Board
    BY <1>3, <1>5, BoardsAre DEF Deadline, NoTrains
  <2>2. look' = look
    <3>1. Of(t) = {}
      BY <1>5, OfAre
    <3>2. \A l \in Asks : look'[l] = look[l]
      BY <1>2, <3>1
    <3>3. QED  BY <1>2, <3>2 DEF TOInv, TOKinds
  <2>3. Wants("train")
    BY <1>1, <1>5, OfAre DEF Started, TOInv, TrainsTold
  <2>4. QED  BY <1>4, <1>5, <2>1, <2>2, <2>3, NoTrainsKeeps
<1>6. CASE t = "hotels"
  <2>1. board' = NoHotels /\ NoHotels \in Board
    BY <1>3, <1>6, BoardsAre DEF Deadline, NoHotels
  <2>2. Ended("hotels", "late")
    BY <1>4, <1>6, <2>1
  <2>3. /\ board'.hotel = "unavailable" /\ board'.train = board.train
        /\ board'.trains = board.trains /\ board'.hotels = board.hotels
        /\ board'.extras = board.extras /\ board'.notes = board.notes
    BY <1>3, <2>1, BoardsAre DEF NoHotels
  <2>4. board.hotels = {} /\ task'["hotels"] = "late"
    BY <2>2, EndedIs DEF TOInv, HotelsTold
  <2>5. \A l \in Of("hotels") : Is(l, "none")' /\ ~Is(l, "ask")'
    BY <1>2, <1>6, OfAre DEF Is
  <2>6. Wants("nearby_hotels")'
    <3>1. \E l \in Of("hotels") : ~Is(l, "none")
      BY <1>1, <1>6 DEF Started
    <3>2. QED  BY <1>1, <3>1 DEF TOInv, HotelsTold, Wants
  <2>7. HonestHotels'
    BY <2>3, <2>4, <2>6 DEF HonestHotels, HotelsCut
  <2>8. QED  BY <1>2, <1>6, <2>2, <2>3, <2>4, <2>5, <2>7, HotelsEndKeeps
<1>7. CASE t = "origin"
  <2>1. board' = board /\ board \in Board
    BY <1>7, BoardIs DEF Deadline
  <2>2. QED  BY <1>2, <1>4, <1>7, <2>1, OriginEndKeeps
<1>8. CASE t \in {"weather", "commute"}
  <2>1. board' = Note(t) /\ Note(t) \in Board
    BY <1>8, BoardsAre DEF Deadline
  <2>2. /\ board'.train = board.train /\ board'.trains = board.trains
        /\ board'.hotel = board.hotel /\ board'.hotels = board.hotels
        /\ board'.extras = board.extras /\ board'.notes = board.notes \cup {t}
    BY <1>8, <2>1, BoardsAre
  <2>3. Ended(t, "late") /\ t \in Extras
    BY <1>4, <1>8, <2>1 DEF Extras
  <2>4. \E l \in Of(t) : ~Is(l, "none")
    BY <1>1, <1>8 DEF Started
  <2>5. Wants(Capability(t))
    BY <1>8, <2>4 DEF TOInv, ExtrasTold, Capability
  <2>6. t \notin board.extras
    BY <2>3, EndedIs DEF TOInv, ExtrasTold
  <2>7. \A l \in Of(t) : l \in Asks
    BY <1>8, OfAre
  <2>8. QED  BY <1>2, <2>2, <2>3, <2>5, <2>6, <2>7, ExtraEndKeeps
<1>9. QED  BY <1>5, <1>6, <1>7, <1>8, OfAre

LEMMA TOStepKeeps == TOInv /\ [TONext]_toVars => TOInv'
<1> SUFFICES ASSUME TOInv, [TONext]_toVars PROVE TOInv'
  OBVIOUS
<1>1. CASE \E l \in Asks : Hit(l) \/ Reply(l) \/ Lost(l) \/ Refused(l) \/ Over(l)
  BY <1>1, LooksAre, LookedKeeps
<1>2. CASE \/ TrainsBegin \/ Warmed \/ StationsRead \/ StationsLost \/ Tickets \/ NoTickets
           \/ TrainsSkipped \/ TrainsFail \/ TrainsOver \/ TrainsEnd
  BY <1>2, QueryKeeps, TrainsCloseKeeps
<1>3. CASE HotelsSkipped \/ HotelsAsk \/ HotelsEnd
  BY <1>3, AsksKeep, HotelsCloseKeeps
<1>4. CASE OriginAsk \/ OriginEnd \/ WeatherAsk \/ WeatherEnd \/ CommuteAsk \/ CommuteEnd
  BY <1>4, ExtraAsksKeep, OriginCloses, ExtrasClose
<1>5. CASE \E t \in Tasks : Deadline(t)
  BY <1>5, DeadlineKeeps
<1>6. CASE UNCHANGED toVars
  <2>1. UNCHANGED <<wish, calls, cache, look, train, answer, task, board>>
    BY <1>6 DEF toVars
  <2>2. TOKinds'
    BY <2>1 DEF TOInv, TOKinds
  <2>3. Dearer
    BY <2>1, PaysMore DEF TOInv
  <2>4. TrainsTold' /\ HotelsTold' /\ ExtrasTold'
    BY <2>1, <2>3, TrainsFrame, HotelsFrame, ExtrasFrame
  <2>5. QED  BY <2>2, <2>4 DEF TOInv
<1>7. QED  BY <1>1, <1>2, <1>3, <1>4, <1>5, <1>6 DEF TONext

LEMMA HonestWhenFinished == TOInv => BoardIsHonest
<1> SUFFICES ASSUME TOInv, Finished PROVE BoardIsHonest
  BY DEF BoardIsHonest
<1>1. \A t \in {"trains", "hotels", "weather", "commute"} : task[t] # "running"
  BY OfAre DEF Finished
<1>2. HonestTrains /\ (board.train = "ready" <=> board.trains # {})
  BY <1>1 DEF TOInv, TrainsTold
<1>3. HonestHotels /\ (board.hotel = "ready" <=> board.hotels # {})
  BY <1>1 DEF TOInv, HotelsTold
<1>4. \A k \in {"weather", "commute"} :
        (k \in board.extras \/ k \in board.notes) <=>
          Wants(IF k = "commute" THEN "local_transport" ELSE k)
  BY <1>1 DEF TOInv, ExtrasTold, Extras, Capability
<1>5. "commute" \in board.extras => board.trains # {} /\ wish.anchor /\ Is("route", "some")
  BY OfAre DEF TOInv, ExtrasTold, Is
<1>6. board.train \in Statuses /\ board.hotel \in Statuses
  BY DEF TOInv, TOKinds, Board
<1>7. ASSUME Outcome = "completed"
      PROVE  /\ Wants("train") => board.trains # {}
             /\ Wants("nearby_hotels") => board.hotels # {}
  <2>1. board.train \in {"excluded", "ready"} /\ board.hotel \in {"excluded", "ready"}
    BY <1>6, <1>7 DEF Outcome, Statuses
  <2>2. QED  BY <1>2, <1>3, <2>1 DEF HonestTrains, HonestHotels
<1>8. QED  BY <1>2, <1>3, <1>4, <1>5, <1>7 DEF BoardIsHonest

\* The finished board has what its own providers found, whatever became of the
\* other parts, of refused brands and of failed pairs; a part whose lookups met
\* the end of the budget or of its deadline is unavailable and has nothing.  With
\* any number of pairs, tries and calls.
THEOREM BoardsStayHonest == TOSpec => []BoardIsHonest
<1>1. TOInit => TOInv
  BY TOStarts
<1>2. TOInv /\ [TONext]_toVars => TOInv'
  BY TOStepKeeps
<1>3. TOInv => BoardIsHonest
  BY HonestWhenFinished
<1>4. QED  BY <1>1, <1>2, <1>3, PTL DEF TOSpec

-----------------------------------------------------------------------------
(* The budget of the turn, which the board's lookups share.                *)

\* Whoever asks a provider pays first, and only what the budget of the turn still has.
LEMMA CallsArePaid ==
  ASSUME TONext
  PROVE  calls' = calls \/ \E type \in {"amap", "train"} : (Affordable(type) /\ Consume(type))
<1>1. ASSUME NEW l \in Asks, Hit(l) \/ Reply(l) \/ Lost(l) \/ Refused(l) \/ Over(l)
      PROVE  calls' = calls \/ (Affordable("amap") /\ Consume("amap"))
  <2>1. CASE Pays(l)
    BY <2>1 DEF Pays
  <2>2. CASE Hit(l) \/ Over(l)
    <3>1. calls' = calls
      BY <2>2 DEF Hit, Over
    <3>2. QED  BY <3>1
  <2>3. QED  BY <1>1, <2>1, <2>2 DEF Reply, Lost, Refused
<1>2. ASSUME \/ TrainsSkipped \/ TrainsBegin \/ Warmed \/ StationsRead \/ StationsLost
             \/ TrainsFail \/ TrainsOver \/ Tickets \/ NoTickets \/ TrainsEnd
      PROVE  calls' = calls \/ (Affordable("train") /\ Consume("train"))
  <2>1. CASE \E where \in {"warm", "stations", "pairs"} : Fetched(where)
    BY <2>1 DEF Fetched
  <2>2. CASE TrainsSkipped \/ TrainsBegin \/ TrainsOver \/ TrainsEnd
    <3>1. calls' = calls
      BY <2>2 DEF TrainsSkipped, TrainsBegin, TrainsOver, TrainsEnd
    <3>2. QED  BY <3>1
  <2>3. CASE TrainsFail
    <3>1. calls' = calls \/ Fetched("warm") \/ Fetched("stations")
      BY <2>3 DEF TrainsFail
    <3>2. QED  BY <2>1, <3>1
  <2>4. QED
    BY <1>2, <2>1, <2>2, <2>3 DEF Warmed, StationsRead, StationsLost, Tickets, NoTickets
<1>3. ASSUME \/ HotelsSkipped \/ HotelsAsk \/ HotelsEnd
             \/ OriginAsk \/ OriginEnd \/ WeatherAsk \/ WeatherEnd \/ CommuteAsk \/ CommuteEnd
      PROVE  calls' = calls
  BY <1>3 DEF HotelsSkipped, HotelsAsk, HotelsEnd, OriginAsk, OriginEnd, WeatherAsk, WeatherEnd,
              CommuteAsk, CommuteEnd
<1>4. ASSUME NEW t \in Tasks, Deadline(t) PROVE calls' = calls
  BY <1>4 DEF Deadline
<1>5. QED  BY <1>1, <1>2, <1>3, <1>4 DEF TONext

\* A lookup is tried again only while it has tries left.
LEMMA TriesAreLimited ==
  ASSUME TOInv, TONext, \A l \in Asks : look[l].tries < AMapTries
  PROVE  \A l \in Asks : look'[l].tries < AMapTries
<1>0. look \in [Asks -> [at : LookedAt, tries : Nat]] /\ 0 < AMapTries
  BY DEF TOInv, TOKinds, AMapTries
<1> TAKE k \in Asks
<1>1. ASSUME NEW l \in Asks, NEW x, SetLook(l, x) PROVE look'[k].tries = look[k].tries
  BY <1>0, <1>1 DEF SetLook
<1>2. ASSUME NEW L, Request(L) PROVE look'[k].tries < AMapTries
  BY <1>0, <1>2 DEF Request
<1>3. ASSUME NEW l \in Asks, Hit(l) \/ Reply(l) \/ Lost(l) \/ Refused(l) \/ Over(l)
      PROVE  look'[k].tries < AMapTries
  <2>1. CASE Lost(l)
    BY <1>0, <2>1 DEF Lost
  <2>2. CASE Hit(l) \/ Reply(l) \/ Refused(l) \/ Over(l)
    <3>1. \E x : SetLook(l, x)
      BY <2>2 DEF Hit, Reply, Refused, Over
    <3>2. QED  BY <1>1, <3>1
  <2>3. QED  BY <1>3, <2>1, <2>2
<1>4. ASSUME \/ TrainsSkipped \/ TrainsBegin \/ Warmed \/ StationsRead \/ StationsLost
             \/ TrainsFail \/ TrainsOver \/ Tickets \/ NoTickets \/ TrainsEnd
             \/ HotelsSkipped \/ HotelsEnd \/ OriginEnd \/ WeatherEnd \/ CommuteEnd
      PROVE  look' = look
  BY <1>4 DEF TrainsSkipped, TrainsBegin, Warmed, StationsRead, StationsLost, TrainsFail, TrainsOver,
              Tickets, NoTickets, TrainsEnd, GoesOn, HotelsSkipped, HotelsEnd, OriginEnd, WeatherEnd, CommuteEnd
<1>5. ASSUME HotelsAsk \/ OriginAsk \/ WeatherAsk \/ CommuteAsk
      PROVE  look'[k].tries < AMapTries
  <2>1. \E L : Request(L)
    BY <1>5 DEF HotelsAsk, OriginAsk, WeatherAsk, CommuteAsk
  <2>2. QED  BY <1>2, <2>1
<1>6. ASSUME NEW t \in Tasks, Deadline(t) PROVE look'[k].tries < AMapTries
  BY <1>0, <1>6 DEF Deadline
<1>7. QED  BY <1>3, <1>4, <1>5, <1>6 DEF TONext

\* The train query stays inside its tries, its pairs and its paths.
TrainIsLimited ==
  train.tries < StationTries /\ train.pair <= Pairs + 1 /\ train.suffix \in 1..Endpoints

LEMMA TrainsAreLimited ==
  ASSUME TOInv, TONext, TrainIsLimited
  PROVE  TrainIsLimited'
<1>0. train \in Trains /\ Pairs \in Nat /\ Endpoints \in Nat \ {0}
  BY TripOptionsAssumption DEF TOInv, TOKinds
<1>1. CASE Warmed \/ StationsRead \/ TrainsBegin
  BY <1>0, <1>1 DEF Warmed, StationsRead, TrainsBegin, TrainIsLimited, Trains
<1>2. CASE StationsLost
  BY <1>0, <1>2 DEF StationsLost, TrainIsLimited, Trains
<1>3. CASE Tickets \/ NoTickets
  <2>1. train.pair <= Pairs
    BY <1>3 DEF Tickets, NoTickets, Fetched, Fetching
  <2>2. CASE \E x : NextPair(x)
    BY <1>0, <2>1, <2>2 DEF NextPair, TrainIsLimited, Trains
  <2>3. CASE train.suffix < Endpoints /\ train' = [train EXCEPT !.suffix = @ + 1]
    BY <1>0, <2>3 DEF TrainIsLimited, Trains
  <2>4. QED  BY <1>3, <2>2, <2>3 DEF Tickets, NoTickets
<1>4. CASE \/ TrainsSkipped \/ TrainsFail \/ TrainsOver \/ TrainsEnd \/ HotelsSkipped \/ HotelsAsk \/ HotelsEnd
           \/ OriginAsk \/ OriginEnd \/ WeatherAsk \/ WeatherEnd \/ CommuteAsk \/ CommuteEnd
  <2>1. train' = train
    BY <1>4 DEF TrainsSkipped, TrainsFail, TrainsOver, TrainsEnd, HotelsSkipped, HotelsAsk, HotelsEnd,
                OriginAsk, OriginEnd, WeatherAsk, WeatherEnd, CommuteAsk, CommuteEnd
  <2>2. QED  BY <2>1 DEF TrainIsLimited
<1>5. CASE \E l \in Asks : Hit(l) \/ Reply(l) \/ Lost(l) \/ Refused(l) \/ Over(l)
  BY <1>5 DEF Hit, Reply, Lost, Refused, Over, Pays, TrainIsLimited
<1>6. CASE \E t \in Tasks : Deadline(t)
  BY <1>6 DEF Deadline, TrainIsLimited
<1>7. QED  BY <1>1, <1>2, <1>3, <1>4, <1>5, <1>6 DEF TONext

\* What the request wants stays as it is; only answers of AMap are cached.
LEMMA WishStays ==
  ASSUME TONext
  PROVE  /\ wish' = wish /\ (table' = table \/ table' \in {"warm", "full"})
         /\ cache' = cache \/ \E l \in Asks : DOMAIN cache' = DOMAIN cache \cup {l}
<1>1. ASSUME NEW l \in Asks, Hit(l) \/ Reply(l) \/ Lost(l) \/ Refused(l) \/ Over(l)
      PROVE  /\ wish' = wish /\ table' = table
             /\ cache' = cache \/ DOMAIN cache' = DOMAIN cache \cup {l}
  BY <1>1 DEF Hit, Reply, Lost, Refused, Over, Pays
<1>2. ASSUME \/ TrainsSkipped \/ TrainsBegin \/ Warmed \/ StationsRead \/ StationsLost
             \/ TrainsFail \/ TrainsOver \/ Tickets \/ NoTickets \/ TrainsEnd
      PROVE  wish' = wish /\ cache' = cache /\ (table' = table \/ table' \in {"warm", "full"})
  BY <1>2 DEF TrainsSkipped, TrainsBegin, Warmed, StationsRead, StationsLost, TrainsFail, TrainsOver,
              Tickets, NoTickets, TrainsEnd, GoesOn
<1>3. ASSUME \/ HotelsSkipped \/ HotelsAsk \/ HotelsEnd
             \/ OriginAsk \/ OriginEnd \/ WeatherAsk \/ WeatherEnd \/ CommuteAsk \/ CommuteEnd
      PROVE  wish' = wish /\ cache' = cache /\ table' = table
  BY <1>3 DEF HotelsSkipped, HotelsAsk, HotelsEnd, OriginAsk, OriginEnd, WeatherAsk, WeatherEnd,
              CommuteAsk, CommuteEnd
<1>4. ASSUME NEW t \in Tasks, Deadline(t) PROVE wish' = wish /\ cache' = cache /\ table' = table
  BY <1>4 DEF Deadline
<1>5. QED  BY <1>1, <1>2, <1>3, <1>4 DEF TONext

\* The types with their bounds hold at first, and each step keeps them.
LEMMA BudgetStarts == TOInit => TOTypeOK
<1> SUFFICES ASSUME TOInit PROVE TOTypeOK
  OBVIOUS
<1> USE DEF TOInit
<1>1. calls \in [{"amap", "train"} -> 0..MaxPerType] /\ calls.amap + calls.train <= MaxExternal
  BY TripOptionsAssumption
<1>2. DOMAIN cache \subseteq Asks /\ \A l \in DOMAIN cache : cache[l] \in Said
  BY KnownAssumption
<1>3. 0 \in 0 .. AMapTries - 1
  BY DEF AMapTries
<1>4. /\ train.tries \in 0 .. StationTries - 1 /\ train.pair \in 1..Pairs + 1 /\ train.suffix \in 1..Endpoints
  BY TripOptionsAssumption
<1>5. QED  BY <1>1, <1>2, <1>3, <1>4 DEF TOTypeOK

LEMMA BudgetKept == TOInv /\ TOTypeOK /\ [TONext]_toVars => TOTypeOK'
<1> SUFFICES ASSUME TOInv, TOTypeOK, [TONext]_toVars PROVE TOTypeOK'
  OBVIOUS
<1>1. CASE UNCHANGED toVars
  BY <1>1 DEF toVars, TOTypeOK
<1>2. CASE TONext
  <2>1. TOKinds' /\ train'.pair >= 1
    BY <1>2, TOStepKeeps DEF TOInv, TrainsTold
  <2>2. calls' \in [{"amap", "train"} -> 0..MaxPerType] /\ calls'.amap + calls'.train <= MaxExternal
    <3>1. calls \in [{"amap", "train"} -> 0..MaxPerType] /\ calls.amap + calls.train <= MaxExternal
      BY DEF TOTypeOK
    <3>2. CASE calls' = calls
      BY <3>1, <3>2
    <3>3. CASE Affordable("amap") /\ Consume("amap")
      BY <3>1, <3>3, TripOptionsAssumption DEF Affordable, Consume
    <3>4. CASE Affordable("train") /\ Consume("train")
      BY <3>1, <3>4, TripOptionsAssumption DEF Affordable, Consume
    <3>5. QED  BY <1>2, <3>2, <3>3, <3>4, CallsArePaid
  <2>3. /\ wish'.excluded \in Wishes /\ wish'.anchor \in BOOLEAN /\ wish'.past \in BOOLEAN
        /\ DOMAIN cache' \subseteq Asks /\ table' \in {"cold", "warm", "full"}
    BY <1>2, WishStays DEF TOTypeOK
  <2>4. look' \in [Asks -> [at : {"none", "ask", "failed", "over"} \cup Said, tries : 0 .. AMapTries - 1]]
    <3>1. \A l \in Asks : look[l].tries < AMapTries
      BY DEF TOTypeOK, AMapTries
    <3>2. \A l \in Asks : look'[l].tries < AMapTries
      BY <1>2, <3>1, TriesAreLimited
    <3>3. look' \in [Asks -> [at : LookedAt, tries : Nat]]
      BY <2>1 DEF TOKinds
    <3>4. \A l \in Asks : look'[l] \in [at : LookedAt, tries : 0 .. AMapTries - 1]
      BY <3>2, <3>3 DEF AMapTries
    <3>5. QED  BY <3>3, <3>4 DEF LookedAt
  <2>5. train' \in [at : {"start", "warm", "stations", "pairs"}, tries : 0 .. StationTries - 1,
                    pair : 1..Pairs + 1, suffix : 1..Endpoints]
    <3>1. TrainIsLimited
      BY TripOptionsAssumption DEF TOTypeOK, TrainIsLimited
    <3>2. TrainIsLimited'
      BY <1>2, <3>1, TrainsAreLimited
    <3>3. train' \in Trains
      BY <2>1 DEF TOKinds
    <3>4. QED  BY <2>1, <3>2, <3>3, TripOptionsAssumption DEF TrainIsLimited, Trains
  <2>6. QED  BY <2>1, <2>2, <2>3, <2>4, <2>5 DEF TOTypeOK, TOKinds, Board, Statuses
<1>3. QED  BY <1>1, <1>2

\* The lookups stay within the budget of the turn, the calls of each provider within
\* their share of it, and no lookup, pair or path is tried more often than it may be,
\* however the coroutines race for what is left (execution_budget.py:42-57).
THEOREM BudgetIsKept == TOSpec => []TOTypeOK
<1>1. TOInit => TOInv /\ TOTypeOK
  BY TOStarts, BudgetStarts
<1>2. TOInv /\ TOTypeOK /\ [TONext]_toVars => (TOInv /\ TOTypeOK)'
  BY TOStepKeeps, BudgetKept
<1>3. QED  BY <1>1, <1>2, PTL DEF TOSpec

-----------------------------------------------------------------------------
(* The chunks of a page (Chunker.tla): the elements at some positions.      *)

\* What Where joins.
Wheres(s, kept) == [i \in 1..Len(s) |-> IF i \in kept THEN <<s[i]>> ELSE <<>>]

\* Where is the joining of these.
LEMMA WheresAre ==
  ASSUME NEW S, NEW s \in Seq(S), NEW K
  PROVE  /\ Wheres(s, K) \in Seq(Seq(S)) /\ Len(Wheres(s, K)) = Len(s)
         /\ \A i \in 1..Len(s) : Wheres(s, K)[i] = IF i \in K THEN <<s[i]>> ELSE <<>>
         /\ Where(s, K) = FlattenSeq(Wheres(s, K)) /\ Where(s, K) \in Seq(S)
<1> DEFINE w == Wheres(s, K)
           n == Len(s)
<1>1. n \in Nat /\ \A i \in 1..n : s[i] \in S OBVIOUS
<1>2. w = [i \in 1..n |-> IF i \in K THEN <<s[i]>> ELSE <<>>] BY DEF Wheres
<1>3. ASSUME NEW i \in 1..n PROVE (IF i \in K THEN <<s[i]>> ELSE <<>>) \in Seq(S)
  <2>1. <<s[i]>> \in Seq(S) /\ <<>> \in Seq(S) BY <1>1
  <2> QED BY <2>1
<1> HIDE DEF n
<1>4. w \in [1..n -> Seq(S)] BY <1>2, <1>3
<1> HIDE DEF w
<1>5. w \in Seq(Seq(S)) /\ Len(w) = n BY <1>1, <1>4
<1>6. \A i \in 1..n : w[i] = IF i \in K THEN <<s[i]>> ELSE <<>> BY <1>2
<1>7. Where(s, K) = FlattenSeq(w) BY DEF Where, Wheres, w
<1>8. FlattenSeq(w) \in Seq(S)
  <2>1. <<>> \in Seq(S) OBVIOUS
  <2> QED BY <1>5, <2>1, FlatAppend
<1> QED BY <1>5, <1>6, <1>7, <1>8 DEF w, n

\* Nothing is anywhere in nothing.
LEMMA WhereNone ==
  ASSUME NEW K
  PROVE  Where(<<>>, K) = <<>>
<1>1. Wheres(<<>>, K) = <<>> BY DEF Wheres
<1> QED BY <1>1, FlatNone DEF Where, Wheres

\* What is kept of two sequences is what is kept of each.
LEMMA WhereConcat ==
  ASSUME NEW S, NEW s \in Seq(S), NEW t \in Seq(S), NEW K, NEW L, NEW M,
         \A i \in 1..Len(s) : i \in K <=> i \in L,
         \A k \in 1..Len(t) : Len(s) + k \in K <=> k \in M
  PROVE  Where(s \o t, K) = Where(s, L) \o Where(t, M)
<1> DEFINE u == s \o t
           a == Wheres(s, L)
           b == Wheres(t, M)
           c == Wheres(u, K)
           m == Len(s)
           n == Len(t)
<1>1. u \in Seq(S) /\ Len(u) = m + n /\ m \in Nat /\ n \in Nat
      /\ (\A i \in 1..m : u[i] = s[i]) /\ (\A k \in 1..n : u[m + k] = t[k])
  OBVIOUS
<1> HIDE DEF u
<1>2. a \in Seq(Seq(S)) /\ Len(a) = m /\ \A i \in 1..m : a[i] = IF i \in L THEN <<s[i]>> ELSE <<>>
  BY WheresAre
<1>3. b \in Seq(Seq(S)) /\ Len(b) = n /\ \A i \in 1..n : b[i] = IF i \in M THEN <<t[i]>> ELSE <<>>
  BY WheresAre
<1>4. c \in Seq(Seq(S)) /\ Len(c) = m + n /\ \A i \in 1 .. m + n : c[i] = IF i \in K THEN <<u[i]>> ELSE <<>>
  BY <1>1, WheresAre
<1> HIDE DEF a, b, c
<1> DEFINE X == Seq(S)
<1>x. a \in Seq(X) /\ b \in Seq(X) /\ c \in Seq(X) BY <1>2, <1>3, <1>4
<1> HIDE DEF X
<1>5. /\ a \o b \in Seq(X) /\ Len(a \o b) = m + n
      /\ \A i \in 1 .. m + n : (a \o b)[i] = IF i <= m THEN a[i] ELSE b[i - m]
  <2>1. /\ a \o b \in Seq(X) /\ Len(a \o b) = Len(a) + Len(b)
        /\ \A i \in 1 .. Len(a) + Len(b) : (a \o b)[i] = IF i <= Len(a) THEN a[i] ELSE b[i - Len(a)]
    BY <1>x, ConcatProperties
  <2> QED BY <2>1, <1>2, <1>3
<1> HIDE DEF m, n
<1>m. m = Len(s) /\ n = Len(t) BY DEF m, n
<1>6. ASSUME NEW i \in 1 .. m + n PROVE (a \o b)[i] = c[i]
  <2>1. CASE i <= m
    <3>1. i \in 1..m /\ i \in 1..Len(s) /\ i \in 1..Len(a) BY <2>1, <1>1, <1>2, <1>m
    <3>2. (a \o b)[i] = a[i] BY <2>1, <1>5
    <3>3. c[i] = a[i]
      <4>1. u[i] = s[i] /\ (i \in K <=> i \in L) BY <3>1, <1>1
      <4> QED BY <4>1, <3>1, <1>2, <1>4
    <3> QED BY <3>2, <3>3
  <2>2. CASE ~(i <= m)
    <3>0. PICK k \in 1..n : i = m + k
      <4>1. i - m \in 1..n /\ i = m + (i - m) BY <2>2, <1>1
      <4> QED BY <4>1
    <3>1. k \in 1..Len(t) /\ k \in 1..Len(b) BY <1>3, <1>m
    <3>2. (a \o b)[i] = b[k]
      <4>1. i - m = k BY <3>0, <1>1
      <4> QED BY <4>1, <2>2, <1>5
    <3>3. c[i] = b[k]
      <4>1. u[i] = t[k] /\ (i \in K <=> k \in M) BY <3>0, <3>1, <1>1, <1>m
      <4> QED BY <4>1, <1>3, <1>4
    <3> QED BY <3>2, <3>3
  <2> QED BY <2>1, <2>2
<1>7. a \o b = c BY <1>x, <1>4, <1>5, <1>6, SeqEqual
<1>8. FlattenSeq(a \o b) = FlattenSeq(a) \o FlattenSeq(b) BY <1>2, <1>3, FlatConcat
<1>9. Where(u, K) = FlattenSeq(c) /\ Where(s, L) = FlattenSeq(a) /\ Where(t, M) = FlattenSeq(b)
  BY <1>1, WheresAre DEF a, b, c
<1> QED BY <1>7, <1>8, <1>9 DEF u

\* All positions keep a sequence.
LEMMA WhereAll ==
  ASSUME NEW S, NEW s \in Seq(S), NEW K, \A i \in 1..Len(s) : i \in K
  PROVE  Where(s, K) = s
<1> DEFINE w == Wheres(s, K)
<1>1. w \in Seq(Seq(S)) /\ Len(w) = Len(s) /\ Where(s, K) = FlattenSeq(w)
      /\ \A i \in 1..Len(s) : w[i] = IF i \in K THEN <<s[i]>> ELSE <<>>
  BY WheresAre
<1> HIDE DEF w
<1>n. Len(s) \in Nat OBVIOUS
<1>2. ASSUME NEW i \in 1..Len(w) PROVE w[i] = IF i <= Len(s) THEN <<s[i]>> ELSE <<>>
  <2>1. i \in 1..Len(s) /\ i <= Len(s) BY <1>1, <1>n
  <2>2. w[i] = <<s[i]>> BY <2>1, <1>1
  <2> QED BY <2>1, <2>2
<1>3. Len(s) <= Len(w) BY <1>1
<1>4. FlattenSeq(w) = s BY <1>1, <1>2, <1>3, Singles
<1> QED BY <1>1, <1>4

\* No position keeps nothing.
LEMMA WhereNothing ==
  ASSUME NEW S, NEW s \in Seq(S), NEW K, \A i \in 1..Len(s) : i \notin K
  PROVE  Where(s, K) = <<>>
<1> DEFINE w == Wheres(s, K)
<1>1. w \in Seq(Seq(S)) /\ Len(w) = Len(s) /\ Where(s, K) = FlattenSeq(w)
      /\ \A i \in 1..Len(s) : w[i] = IF i \in K THEN <<s[i]>> ELSE <<>>
  BY WheresAre
<1> HIDE DEF w
<1>0. \E none \in Seq(S) : none = <<>>
  <2>1. <<>> \in Seq(S) OBVIOUS
  <2> QED BY <2>1, Zenon
<1>a. PICK none \in Seq(S) : none = <<>> BY <1>0
<1>b. Len(none) = 0 /\ Len(s) \in Nat BY <1>a
<1>2. ASSUME NEW i \in 1..Len(w) PROVE w[i] = IF i <= Len(none) THEN <<none[i]>> ELSE <<>>
  <2>1. i \in 1..Len(s) /\ ~(i <= Len(none)) BY <1>1, <1>b
  <2>2. w[i] = <<>> BY <2>1, <1>1
  <2> QED BY <2>1, <2>2
<1>3. Len(none) <= Len(w) BY <1>b, <1>1
<1>4. FlattenSeq(w) = none BY <1>1, <1>2, <1>3, Singles
<1> QED BY <1>a, <1>1, <1>4

\* What is kept are the elements at the positions.
LEMMA WhereRange ==
  ASSUME NEW S, NEW s \in Seq(S), NEW K, NEW x
  PROVE  x \in ToSet(Where(s, K)) <=> \E i \in 1..Len(s) : i \in K /\ x = s[i]
<1> DEFINE w == Wheres(s, K)
<1>1. w \in Seq(Seq(S)) /\ Len(w) = Len(s) /\ Where(s, K) = FlattenSeq(w)
      /\ \A i \in 1..Len(s) : w[i] = IF i \in K THEN <<s[i]>> ELSE <<>>
  BY WheresAre
<1> HIDE DEF w
<1>2. x \in ToSet(FlattenSeq(w)) <=> \E i \in 1..Len(w) : x \in ToSet(w[i]) BY <1>1, FlatRange
<1>3. ASSUME NEW i \in 1..Len(s) PROVE x \in ToSet(w[i]) <=> (i \in K /\ x = s[i])
  <2>1. CASE i \in K
    <3>1. w[i] = <<s[i]>> BY <2>1, <1>1
    <3>2. ToSet(<<s[i]>>) = {s[i]} BY DEF ToSet
    <3> QED BY <2>1, <3>1, <3>2
  <2>2. CASE i \notin K
    <3>1. w[i] = <<>> BY <2>2, <1>1
    <3>2. ToSet(<<>>) = {} BY DEF ToSet
    <3> QED BY <2>2, <3>1, <3>2
  <2> QED BY <2>1, <2>2
<1> QED BY <1>1, <1>2, <1>3

\* Elements that differ at the positions are kept once each.
LEMMA WhereDistinct ==
  ASSUME NEW S, NEW s \in Seq(S), NEW K,
         \A i, j \in 1..Len(s) : i \in K /\ j \in K /\ s[i] = s[j] => i = j
  PROVE  Distinct(Where(s, K))
<1> DEFINE w == Wheres(s, K)
<1>1. w \in Seq(Seq(S)) /\ Len(w) = Len(s) /\ Where(s, K) = FlattenSeq(w)
      /\ \A i \in 1..Len(s) : w[i] = IF i \in K THEN <<s[i]>> ELSE <<>>
  BY WheresAre
<1> HIDE DEF w
<1>2. ASSUME NEW i \in 1..Len(w), NEW k \in 1..Len(w[i]) PROVE i \in K /\ k = 1 /\ w[i][k] = s[i] /\ i \in 1..Len(s)
  <2>0. i \in 1..Len(s) BY <1>1
  <2>1. CASE i \in K
    <3>1. w[i] = <<s[i]>> BY <2>0, <2>1, <1>1
    <3>2. Len(<<s[i]>>) = 1 /\ <<s[i]>>[1] = s[i] OBVIOUS
    <3>3. k = 1
      <4>1. k \in 1..1 BY <3>1, <3>2
      <4> QED BY <4>1
    <3> QED BY <2>0, <2>1, <3>1, <3>2, <3>3
  <2>2. CASE i \notin K
    <3>1. w[i] = <<>> BY <2>0, <2>2, <1>1
    <3>2. Len(<<>>) = 0 OBVIOUS
    <3>3. k \in 1..0 BY <3>1, <3>2
    <3> QED BY <3>3
  <2> QED BY <2>1, <2>2
<1>3. \A i \in 1..Len(w) : Distinct(w[i])
  <2> SUFFICES ASSUME NEW i \in 1..Len(w), NEW k \in 1..Len(w[i]), NEW l \in 1..Len(w[i]) PROVE k = l
    BY DEF Distinct
  <2> QED BY <1>2
<1>4. ASSUME NEW i \in 1..Len(w), NEW j \in 1..Len(w), NEW k \in 1..Len(w[i]), NEW l \in 1..Len(w[j]), w[i][k] = w[j][l]
      PROVE i = j
  <2>1. i \in K /\ w[i][k] = s[i] /\ i \in 1..Len(s) BY <1>2
  <2>2. j \in K /\ w[j][l] = s[j] /\ j \in 1..Len(s) BY <1>2
  <2> QED BY <2>1, <2>2, <1>4
<1>5. Distinct(FlattenSeq(w)) BY <1>1, <1>3, <1>4, FlatDistinct
<1> QED BY <1>1, <1>5

-----------------------------------------------------------------------------
(* What a function makes of the elements of a sequence, joined.             *)

\* What holds of the empty sequence, and stays when something is appended, holds of all.
LEMMA SeqGrows ==
  ASSUME NEW S, NEW P, <<>> \in P, \A s \in Seq(S), x \in S : s \in P => Append(s, x) \in P
  PROVE  Seq(S) \subseteq P
<1> SUFFICES ASSUME NEW s \in Seq(S) PROVE s \in P OBVIOUS
<1> DEFINE T == {k \in 0..Len(s) : SubSeq(s, 1, k) \in P}
<1>1. 0 \in T
  <2>1. SubSeq(s, 1, 0) = <<>> BY SubSeqEmpty
  <2>2. Len(s) \in Nat OBVIOUS
  <2>3. 0 \in 0..Len(s) BY <2>2
  <2> QED BY <2>1, <2>3
<1>2. ASSUME NEW k \in 0 .. Len(s) - 1, k \in T PROVE k + 1 \in T
  <2>0. k \in Nat /\ k < Len(s) /\ s[k + 1] \in S /\ k + 1 \in 0..Len(s) OBVIOUS
  <2>1. SubSeq(s, 1, k + 1) = Append(SubSeq(s, 1, k), s[k + 1]) /\ SubSeq(s, 1, k) \in Seq(S)
    BY <2>0, PrefixGrows
  <2> QED BY <1>2, <2>0, <2>1
<1>3. Len(s) \in Nat OBVIOUS
<1>4. Len(s) \in T
  <2> HIDE DEF T
  <2>1. \A k \in 0..Len(s) : k \in T BY <1>1, <1>2, <1>3, UpTo
  <2> QED BY <2>1, <1>3
<1>5. SubSeq(s, 1, Len(s)) = s BY WholePiece
<1> QED BY <1>4, <1>5

\* What a function makes of the elements of a sequence, joined.
Mapped(f, s) == FlattenSeq([i \in 1..Len(s) |-> f[s[i]]])
\* A function of elements that makes sequences, and what it makes of each.
Makes(f, S, T) == f \in [S -> Seq(T)]
Maps(f, s) == [i \in 1..Len(s) |-> f[s[i]]]

MapsTo(f, s, T, w) ==
  /\ w \in Seq(Seq(T)) /\ Len(w) = Len(s)
  /\ \A i \in 1..Len(s) : w[i] = f[s[i]]
  /\ Mapped(f, s) = FlattenSeq(w) /\ Mapped(f, s) \in Seq(T)

\* What a function makes of a sequence is a joining.
LEMMA MapsAre ==
  ASSUME NEW S, NEW T, NEW f, Makes(f, S, T), NEW s \in Seq(S)
  PROVE  MapsTo(f, s, T, Maps(f, s))
<1> DEFINE w == Maps(f, s)
           n == Len(s)
<1>1. n \in Nat /\ \A i \in 1..n : s[i] \in S /\ f[s[i]] \in Seq(T) BY DEF Makes
<1>2. w = [i \in 1..n |-> f[s[i]]] BY DEF Maps
<1>3. Mapped(f, s) = FlattenSeq(w) BY DEF Mapped, Maps, w
<1> HIDE DEF n, w
<1>4. w \in [1..n -> Seq(T)] BY <1>2, <1>1
<1> DEFINE X == Seq(T)
<1>5. w \in Seq(X) /\ Len(w) = n
  <2>1. w \in [1..n -> X] BY <1>4
  <2> HIDE DEF X
  <2> QED BY <2>1, <1>1
<1>6. \A i \in 1..n : w[i] = f[s[i]] BY <1>2
<1>7. FlattenSeq(w) \in Seq(T)
  <2>1. <<>> \in Seq(T) OBVIOUS
  <2> QED BY <1>5, <2>1, FlatAppend
<1> QED BY <1>3, <1>5, <1>6, <1>7 DEF w, n, MapsTo

\* It makes of two sequences what it makes of each.
LEMMA MappedConcat ==
  ASSUME NEW S, NEW T, NEW f, Makes(f, S, T), NEW s \in Seq(S), NEW t \in Seq(S)
  PROVE  Mapped(f, s \o t) = Mapped(f, s) \o Mapped(f, t)
<1> DEFINE u == s \o t
           a == Maps(f, s)
           b == Maps(f, t)
           c == Maps(f, u)
           m == Len(s)
           n == Len(t)
           X == Seq(T)
<1>1. u \in Seq(S) /\ Len(u) = m + n /\ m \in Nat /\ n \in Nat
      /\ \A i \in 1 .. m + n : u[i] = IF i <= m THEN s[i] ELSE t[i - m]
  BY ConcatProperties
<1> HIDE DEF u
<1>2. a \in Seq(X) /\ Len(a) = m /\ (\A i \in 1..m : a[i] = f[s[i]]) /\ Mapped(f, s) = FlattenSeq(a)
  <2>1. MapsTo(f, s, T, a) BY MapsAre
  <2> QED BY <2>1 DEF MapsTo
<1>3. b \in Seq(X) /\ Len(b) = n /\ (\A i \in 1..n : b[i] = f[t[i]]) /\ Mapped(f, t) = FlattenSeq(b)
  <2>1. MapsTo(f, t, T, b) BY MapsAre
  <2> QED BY <2>1 DEF MapsTo
<1>4. c \in Seq(X) /\ Len(c) = m + n /\ (\A i \in 1 .. m + n : c[i] = f[u[i]]) /\ Mapped(f, u) = FlattenSeq(c)
  <2>1. c \in Seq(X) /\ Len(c) = Len(u) /\ (\A i \in 1..Len(u) : c[i] = f[u[i]]) /\ Mapped(f, u) = FlattenSeq(c)
    <3>1. MapsTo(f, u, T, c) BY <1>1, MapsAre
    <3> QED BY <3>1 DEF MapsTo
  <2> QED BY <2>1, <1>1
<1>8. FlattenSeq(a \o b) = FlattenSeq(a) \o FlattenSeq(b) BY <1>2, <1>3, FlatConcat
<1> HIDE DEF a, b, c, m, n, X
<1>5. /\ a \o b \in Seq(X) /\ Len(a \o b) = m + n
      /\ \A i \in 1 .. m + n : (a \o b)[i] = IF i <= m THEN a[i] ELSE b[i - m]
  <2>1. /\ a \o b \in Seq(X) /\ Len(a \o b) = Len(a) + Len(b)
        /\ \A i \in 1 .. Len(a) + Len(b) : (a \o b)[i] = IF i <= Len(a) THEN a[i] ELSE b[i - Len(a)]
    BY <1>2, <1>3, ConcatProperties
  <2> QED BY <2>1, <1>2, <1>3
<1>6. ASSUME NEW i \in 1 .. m + n PROVE (a \o b)[i] = c[i]
  <2>1. CASE i <= m
    <3>1. i \in 1..m BY <2>1, <1>1
    <3>2. (a \o b)[i] = a[i] /\ u[i] = s[i] BY <2>1, <1>1, <1>5
    <3> QED BY <3>1, <3>2, <1>2, <1>4
  <2>2. CASE ~(i <= m)
    <3>1. i - m \in 1..n BY <2>2, <1>1
    <3>2. (a \o b)[i] = b[i - m] /\ u[i] = t[i - m] BY <2>2, <1>1, <1>5
    <3> QED BY <3>1, <3>2, <1>3, <1>4
  <2> QED BY <2>1, <2>2
<1>7. a \o b = c BY <1>4, <1>5, <1>6, SeqEqual
<1> QED BY <1>2, <1>3, <1>4, <1>7, <1>8 DEF u

\* It makes nothing of nothing.
LEMMA MappedNone ==
  ASSUME NEW f
  PROVE  Mapped(f, <<>>) = <<>>
<1>1. [i \in 1..Len(<<>>) |-> f[<<>>[i]]] = <<>> OBVIOUS
<1> QED BY <1>1, FlatNone DEF Mapped

\* Of one element it makes its image.
LEMMA MappedOne ==
  ASSUME NEW S, NEW T, NEW f, Makes(f, S, T), NEW x \in S
  PROVE  Mapped(f, <<x>>) = f[x]
<1>1. [i \in 1..Len(<<x>>) |-> f[<<x>>[i]]] = <<f[x]>> OBVIOUS
<1>2. f[x] \in Seq(T) BY DEF Makes
<1>3. FlattenSeq(<<f[x]>>) = f[x] BY <1>2, FlatOne
<1> QED BY <1>1, <1>3 DEF Mapped

\* An element added adds its image.
LEMMA MappedAppend ==
  ASSUME NEW S, NEW T, NEW f, Makes(f, S, T), NEW s \in Seq(S), NEW x \in S
  PROVE  Mapped(f, Append(s, x)) = Mapped(f, s) \o f[x]
<1>1. Append(s, x) = s \o <<x>> /\ <<x>> \in Seq(S) BY AppendIsConcat
<1> DEFINE one == <<x>>
<1>2. Mapped(f, s \o one) = Mapped(f, s) \o Mapped(f, one)
  <2>1. one \in Seq(S) BY <1>1
  <2> HIDE DEF one
  <2> QED BY <2>1, MappedConcat
<1> QED BY <1>1, <1>2, MappedOne

\* Of a joining it makes the joining of what it makes of the parts.
LEMMA MappedFlat ==
  ASSUME NEW S, NEW T, NEW f, Makes(f, S, T), NEW F, Makes(F, Seq(S), T),
         \A s \in Seq(S) : F[s] = Mapped(f, s), NEW ss \in Seq(Seq(S))
  PROVE  Mapped(f, FlattenSeq(ss)) = Mapped(F, ss)
<1> DEFINE P == {tt \in Seq(Seq(S)) : Mapped(f, FlattenSeq(tt)) = Mapped(F, tt)}
           X == Seq(S)
<1>1. <<>> \in P
  <2>1. <<>> \in Seq(Seq(S)) OBVIOUS
  <2> QED BY <2>1, FlatNone, MappedNone
<1>2. ASSUME NEW tt \in Seq(X), NEW s \in X, tt \in P PROVE Append(tt, s) \in P
  <2>1. FlattenSeq(tt) \in Seq(S) /\ FlattenSeq(Append(tt, s)) = FlattenSeq(tt) \o s BY FlatAppend
  <2>2. Mapped(f, FlattenSeq(tt) \o s) = Mapped(f, FlattenSeq(tt)) \o Mapped(f, s)
    <3> DEFINE v == FlattenSeq(tt)
    <3>1. s \in Seq(S) /\ v \in Seq(S) BY <2>1
    <3> HIDE DEF v
    <3>2. Mapped(f, v \o s) = Mapped(f, v) \o Mapped(f, s) BY <3>1, MappedConcat
    <3> QED BY <3>2 DEF v
  <2>3. Mapped(F, Append(tt, s)) = Mapped(F, tt) \o F[s]
    <3>1. tt \in Seq(X) /\ s \in X /\ Makes(F, X, T) OBVIOUS
    <3> HIDE DEF X
    <3> QED BY <3>1, MappedAppend
  <2>4. Append(tt, s) \in Seq(X)
    <3>1. tt \in Seq(X) /\ s \in X OBVIOUS
    <3> HIDE DEF X
    <3> QED BY <3>1
  <2> QED BY <1>2, <2>1, <2>2, <2>3, <2>4
<1>3. Seq(X) \subseteq P
  <2> HIDE DEF P, X
  <2> QED BY <1>1, <1>2, SeqGrows
<1> QED BY <1>3

\* What it makes holds the elements of the images.
LEMMA MappedRange ==
  ASSUME NEW S, NEW T, NEW f, Makes(f, S, T), NEW s \in Seq(S), NEW x
  PROVE  x \in ToSet(Mapped(f, s)) <=> \E i \in 1..Len(s) : x \in ToSet(f[s[i]])
<1>1. /\ Maps(f, s) \in Seq(Seq(T)) /\ Len(Maps(f, s)) = Len(s) /\ Mapped(f, s) = FlattenSeq(Maps(f, s))
      /\ \A i \in 1..Len(s) : Maps(f, s)[i] = f[s[i]]
  <2>1. MapsTo(f, s, T, Maps(f, s)) BY MapsAre
  <2> QED BY <2>1 DEF MapsTo
<1>2. x \in ToSet(FlattenSeq(Maps(f, s))) <=> \E i \in 1..Len(Maps(f, s)) : x \in ToSet(Maps(f, s)[i])
  BY <1>1, FlatRange
<1> QED BY <1>1, <1>2

-----------------------------------------------------------------------------
(* Reading a sequence that repeats some of what it read.                    *)

\* The elements of two sequences in one.
LEMMA SetConcat ==
  ASSUME NEW S, NEW s \in Seq(S), NEW t \in Seq(S)
  PROVE  /\ s \o t \in Seq(S) /\ Len(s \o t) = Len(s) + Len(t)
         /\ ToSet(s) = {s[i] : i \in 1..Len(s)}
         /\ ToSet(s \o t) = ToSet(s) \cup ToSet(t)
         /\ \A i \in 1..Len(s) : (s \o t)[i] = s[i]
         /\ \A i \in 1..Len(t) : (s \o t)[Len(s) + i] = t[i]
<1> DEFINE m == Len(s)
           n == Len(t)
           u == s \o t
<1>1. /\ u \in Seq(S) /\ Len(u) = m + n /\ m \in Nat /\ n \in Nat
      /\ DOMAIN u = 1 .. m + n /\ DOMAIN s = 1..m /\ DOMAIN t = 1..n
      /\ \A i \in 1 .. m + n : u[i] = IF i <= m THEN s[i] ELSE t[i - m]
  BY ConcatProperties
<1> HIDE DEF m, n, u
<1>2. \A i \in 1..m : i \in 1 .. m + n /\ u[i] = s[i] BY <1>1
<1>3. ASSUME NEW i \in 1..n PROVE m + i \in 1 .. m + n /\ u[m + i] = t[i]
  <2>1. m + i \in 1 .. m + n /\ ~(m + i <= m) /\ (m + i) - m = i BY <1>1
  <2> QED BY <2>1, <1>1
<1>4. \A i \in 1 .. m + n : i \in 1..m \/ (i - m \in 1..n /\ m + (i - m) = i) BY <1>1
<1>5. ToSet(u) = ToSet(s) \cup ToSet(t)
  <2>1. ToSet(s) = {s[i] : i \in 1..m} /\ ToSet(t) = {t[i] : i \in 1..n} /\ ToSet(u) = {u[i] : i \in 1 .. m + n}
    BY <1>1 DEF ToSet
  <2>2. ASSUME NEW x \in ToSet(u) PROVE x \in ToSet(s) \cup ToSet(t)
    <3>1. PICK i \in 1 .. m + n : x = u[i] BY <2>1
    <3>2. CASE i \in 1..m BY <3>1, <3>2, <2>1, <1>2
    <3>3. CASE i \notin 1..m
      <4>1. i - m \in 1..n /\ m + (i - m) = i BY <3>3, <1>4
      <4>2. x = t[i - m] BY <4>1, <3>1, <1>3
      <4> QED BY <4>1, <4>2, <2>1
    <3> QED BY <3>2, <3>3
  <2>3. ToSet(s) \subseteq ToSet(u) BY <2>1, <1>2
  <2>4. ToSet(t) \subseteq ToSet(u) BY <2>1, <1>3
  <2> QED BY <2>2, <2>3, <2>4
<1>6. ToSet(s) = {s[i] : i \in 1..m} BY <1>1 DEF ToSet
<1> QED BY <1>1, <1>2, <1>3, <1>5, <1>6 DEF m, n, u

\* What of a sequence is new to one who knows d.
Fresh(d, s) == Where(s, {i \in 1..Len(s) : s[i] \notin d /\ \A k \in 1 .. i - 1 : s[k] # s[i]})

\* What is new in two sequences, the second after the first.
LEMMA FreshConcat ==
  ASSUME NEW S, NEW s \in Seq(S), NEW t \in Seq(S), NEW d
  PROVE  Fresh(d, s \o t) = Fresh(d, s) \o Fresh(d \cup ToSet(s), t)
<1> DEFINE u == s \o t
           m == Len(s)
           n == Len(t)
           K == {i \in 1..Len(u) : u[i] \notin d /\ \A k \in 1 .. i - 1 : u[k] # u[i]}
           L == {i \in 1..Len(s) : s[i] \notin d /\ \A k \in 1 .. i - 1 : s[k] # s[i]}
           M == {i \in 1..Len(t) : t[i] \notin (d \cup ToSet(s)) /\ \A k \in 1 .. i - 1 : t[k] # t[i]}
<1>0. m \in Nat /\ n \in Nat OBVIOUS
<1>1. /\ u \in Seq(S) /\ Len(u) = m + n /\ ToSet(s) = {s[i] : i \in 1..m}
      /\ (\A i \in 1..m : u[i] = s[i]) /\ (\A i \in 1..n : u[m + i] = t[i])
  BY SetConcat
<1> HIDE DEF u, m, n
<1>m. m = Len(s) /\ n = Len(t) BY DEF m, n
<1>2. ASSUME NEW i \in 1..m PROVE i \in K <=> i \in L
  <2>1. i \in 1 .. m + n /\ \A k \in 1 .. i - 1 : k \in 1..m BY <1>0
  <2>2. u[i] = s[i] /\ \A k \in 1 .. i - 1 : u[k] = s[k] BY <2>1, <1>1
  <2> QED BY <2>1, <2>2, <1>1, <1>m
<1>3. ASSUME NEW i \in 1..n PROVE m + i \in K <=> i \in M
  <2>1. m + i \in 1 .. m + n BY <1>0
  <2>2. u[m + i] = t[i] BY <1>1
  <2>3. ASSUME m + i \in K PROVE i \in M
    <3>1. t[i] \notin d BY <2>2, <2>3
    <3>2. t[i] \notin ToSet(s)
      <4>1. \A k \in 1..m : k \in 1 .. (m + i) - 1 BY <1>0
      <4>2. \A k \in 1..m : u[k] # u[m + i] BY <4>1, <2>3
      <4> QED BY <4>2, <2>2, <1>1
    <3>3. ASSUME NEW k \in 1 .. i - 1 PROVE t[k] # t[i]
      <4>1. m + k \in 1 .. (m + i) - 1 /\ k \in 1..n BY <1>0
      <4>2. u[m + k] # u[m + i] BY <4>1, <2>3
      <4> QED BY <4>1, <4>2, <2>2, <1>1
    <3> QED BY <3>1, <3>2, <3>3, <1>m
  <2>4. ASSUME i \in M PROVE m + i \in K
    <3>1. u[m + i] \notin d BY <2>2, <2>4
    <3>2. ASSUME NEW k \in 1 .. (m + i) - 1 PROVE u[k] # u[m + i]
      <4>1. CASE k <= m
        <5>1. k \in 1..m BY <4>1, <1>0
        <5>2. u[k] = s[k] /\ s[k] \in ToSet(s) BY <5>1, <1>1
        <5> QED BY <5>2, <2>2, <2>4
      <4>2. CASE ~(k <= m)
        <5>1. k - m \in 1 .. i - 1 /\ k - m \in 1..n /\ m + (k - m) = k BY <4>2, <1>0
        <5>2. u[k] = t[k - m] BY <5>1, <1>1
        <5> QED BY <5>1, <5>2, <2>2, <2>4
      <4> QED BY <4>1, <4>2
    <3> QED BY <3>1, <3>2, <2>1, <1>1
  <2> QED BY <2>3, <2>4
<1> HIDE DEF K, L, M
<1>4. Where(s \o t, K) = Where(s, L) \o Where(t, M) BY <1>2, <1>3, <1>m, WhereConcat
<1> QED BY <1>4 DEF Fresh, K, L, M, u

\* Nothing is new in what was read.
LEMMA FreshNothing ==
  ASSUME NEW S, NEW s \in Seq(S), NEW d, ToSet(s) \subseteq d
  PROVE  Fresh(d, s) = <<>>
<1> DEFINE K == {i \in 1..Len(s) : s[i] \notin d /\ \A k \in 1 .. i - 1 : s[k] # s[i]}
<1>1. \A i \in 1..Len(s) : s[i] \in d BY DEF ToSet
<1>2. \A i \in 1..Len(s) : i \notin K BY <1>1
<1> HIDE DEF K
<1>3. Where(s, K) = <<>> BY <1>2, WhereNothing
<1> QED BY <1>3 DEF Fresh, K

\* All is new in what differs and was not read.
LEMMA FreshAll ==
  ASSUME NEW S, NEW s \in Seq(S), NEW d, Distinct(s), ToSet(s) \cap d = {}
  PROVE  Fresh(d, s) = s
<1> DEFINE K == {i \in 1..Len(s) : s[i] \notin d /\ \A k \in 1 .. i - 1 : s[k] # s[i]}
<1>1. \A i \in 1..Len(s) : s[i] \in ToSet(s) BY DEF ToSet
<1>2. ASSUME NEW i \in 1..Len(s) PROVE i \in K
  <2>1. s[i] \notin d BY <1>1
  <2>2. ASSUME NEW k \in 1 .. i - 1 PROVE s[k] # s[i]
    <3>0. Len(s) \in Nat OBVIOUS
    <3>1. k \in 1..Len(s) /\ k # i BY <3>0
    <3> QED BY <3>1 DEF Distinct
  <2> QED BY <2>1, <2>2
<1> HIDE DEF K
<1>3. Where(s, K) = s BY <1>2, WhereAll
<1> QED BY <1>3 DEF Fresh, K

\* Two halves of a sequence without repetition have nothing in common.
LEMMA DistinctConcat ==
  ASSUME NEW S, NEW s \in Seq(S), NEW t \in Seq(S), Distinct(s \o t)
  PROVE  Distinct(s) /\ Distinct(t) /\ ToSet(s) \cap ToSet(t) = {}
<1> DEFINE u == s \o t
           m == Len(s)
           n == Len(t)
<1>0. m \in Nat /\ n \in Nat OBVIOUS
<1>1. /\ u \in Seq(S) /\ Len(u) = m + n /\ ToSet(s) = {s[i] : i \in 1..m}
      /\ (\A i \in 1..m : u[i] = s[i]) /\ (\A i \in 1..n : u[m + i] = t[i])
  BY SetConcat
<1>2. ToSet(t) = {t[i] : i \in 1..n} BY SetConcat
<1>3. \A i, j \in 1 .. m + n : u[i] = u[j] => i = j BY <1>1 DEF Distinct
<1> HIDE DEF u, m, n
<1>m. m = Len(s) /\ n = Len(t) BY DEF m, n
<1>4. Distinct(s)
  <2> SUFFICES ASSUME NEW i \in 1..m, NEW j \in 1..m, s[i] = s[j] PROVE i = j BY <1>m DEF Distinct
  <2>1. i \in 1 .. m + n /\ j \in 1 .. m + n BY <1>0
  <2> QED BY <2>1, <1>1, <1>3
<1>5. Distinct(t)
  <2> SUFFICES ASSUME NEW i \in 1..n, NEW j \in 1..n, t[i] = t[j] PROVE i = j BY <1>m DEF Distinct
  <2>1. m + i \in 1 .. m + n /\ m + j \in 1 .. m + n BY <1>0
  <2>2. m + i = m + j BY <2>1, <1>1, <1>3
  <2> QED BY <2>2, <1>0
<1>6. ASSUME NEW i \in 1..m, NEW j \in 1..n, s[i] = t[j] PROVE FALSE
  <2>1. i \in 1 .. m + n /\ m + j \in 1 .. m + n /\ i # m + j BY <1>0
  <2> QED BY <2>1, <1>1, <1>3, <1>6
<1> QED BY <1>1, <1>2, <1>4, <1>5, <1>6

\* Reading s is reading w, for one who knows nothing of it.
ReadsAs(s, w) ==
  /\ ToSet(s) = ToSet(w)
  /\ Distinct(w) => \A d : ToSet(w) \cap d = {} => Fresh(d, s) = w

\* A sequence reads as itself.
LEMMA ReadsSame ==
  ASSUME NEW S, NEW w \in Seq(S)
  PROVE  ReadsAs(w, w)
BY FreshAll DEF ReadsAs

\* Two readings, one after the other.
LEMMA ReadsConcat ==
  ASSUME NEW S, NEW s \in Seq(S), NEW w \in Seq(S), NEW t \in Seq(S), NEW v \in Seq(S), ReadsAs(s, w), ReadsAs(t, v)
  PROVE  ReadsAs(s \o t, w \o v)
<1>1. ToSet(s \o t) = ToSet(s) \cup ToSet(t) /\ ToSet(w \o v) = ToSet(w) \cup ToSet(v) BY SetConcat
<1>2. ASSUME Distinct(w \o v), NEW d, ToSet(w \o v) \cap d = {} PROVE Fresh(d, s \o t) = w \o v
  <2>1. Distinct(w) /\ Distinct(v) /\ ToSet(w) \cap ToSet(v) = {} BY <1>2, DistinctConcat
  <2>2. Fresh(d, s) = w BY <2>1, <1>1, <1>2 DEF ReadsAs
  <2> DEFINE e == d \cup ToSet(s)
  <2>3. ToSet(v) \cap e = {} BY <2>1, <1>1, <1>2 DEF ReadsAs
  <2>4. Fresh(e, t) = v
    <3> HIDE DEF e
    <3> QED BY <2>1, <2>3 DEF ReadsAs
  <2>5. Fresh(d, s \o t) = Fresh(d, s) \o Fresh(e, t) BY FreshConcat
  <2> QED BY <2>2, <2>4, <2>5
<1>3. ToSet(s \o t) = ToSet(w \o v) BY <1>1 DEF ReadsAs
<1> QED BY <1>2, <1>3 DEF ReadsAs

\* What was read may be read again.
LEMMA ReadsOver ==
  ASSUME NEW S, NEW s \in Seq(S), NEW w \in Seq(S), NEW o \in Seq(S), ReadsAs(s, w), ToSet(o) \subseteq ToSet(w)
  PROVE  ReadsAs(s \o o, w)
<1>1. ToSet(s \o o) = ToSet(s) \cup ToSet(o) BY SetConcat
<1>2. ASSUME Distinct(w), NEW d, ToSet(w) \cap d = {} PROVE Fresh(d, s \o o) = w
  <2>1. Fresh(d, s) = w BY <1>2 DEF ReadsAs
  <2> DEFINE e == d \cup ToSet(s)
  <2>2. ToSet(o) \subseteq e BY DEF ReadsAs
  <2>3. Fresh(e, o) = <<>>
    <3> HIDE DEF e
    <3> QED BY <2>2, FreshNothing
  <2>4. Fresh(d, s \o o) = Fresh(d, s) \o Fresh(e, o) BY FreshConcat
  <2>5. w \o <<>> = w OBVIOUS
  <2> QED BY <2>1, <2>3, <2>4, <2>5
<1> QED BY <1>1, <1>2 DEF ReadsAs

\* Reading one thing after the other.
LEMMA ReadsAll ==
  ASSUME NEW S, NEW ss \in Seq(Seq(S)), NEW ws \in Seq(Seq(S)), Len(ss) = Len(ws),
         \A i \in 1..Len(ss) : ReadsAs(ss[i], ws[i])
  PROVE  ReadsAs(FlattenSeq(ss), FlattenSeq(ws))
<1> DEFINE n == Len(ss)
           X == Seq(S)
           T == {k \in 0..n : ReadsAs(FlattenSeq(SubSeq(ss, 1, k)), FlattenSeq(SubSeq(ws, 1, k)))}
<1>0. n \in Nat /\ ss \in Seq(X) /\ ws \in Seq(X) OBVIOUS
<1>1. 0 \in T
  <2>1. SubSeq(ss, 1, 0) = <<>> /\ SubSeq(ws, 1, 0) = <<>> BY SubSeqEmpty
  <2>2. <<>> \in Seq(S) OBVIOUS
  <2>3. ReadsAs(<<>>, <<>>) BY <2>2, ReadsSame
  <2>4. ReadsAs(FlattenSeq(SubSeq(ss, 1, 0)), FlattenSeq(SubSeq(ws, 1, 0))) BY <2>1, <2>3, FlatNone
  <2>5. 0 \in 0..n
    <3> HIDE DEF n
    <3> QED BY <1>0
  <2> QED BY <2>4, <2>5
<1>2. ASSUME NEW k \in 0 .. n - 1, k \in T PROVE k + 1 \in T
  <2> DEFINE a == SubSeq(ss, 1, k)
             b == SubSeq(ws, 1, k)
  <2>1. k \in Nat /\ k < Len(ss) /\ k < Len(ws) /\ k + 1 \in 1..n /\ k + 1 \in 0..n BY <1>0
  <2>2. a \in Seq(X) /\ SubSeq(ss, 1, k + 1) = Append(a, ss[k + 1])
    <3> HIDE DEF X
    <3> QED BY <2>1, <1>0, PrefixGrows
  <2>3. b \in Seq(X) /\ SubSeq(ws, 1, k + 1) = Append(b, ws[k + 1])
    <3> HIDE DEF X
    <3> QED BY <2>1, <1>0, PrefixGrows
  <2>4. ss[k + 1] \in Seq(S) /\ ws[k + 1] \in Seq(S) BY <2>1, <1>0
  <2>5. ReadsAs(FlattenSeq(a), FlattenSeq(b)) /\ ReadsAs(ss[k + 1], ws[k + 1]) BY <1>2, <2>1
  <2> HIDE DEF a, b
  <2>6. FlattenSeq(a) \in Seq(S) /\ FlattenSeq(Append(a, ss[k + 1])) = FlattenSeq(a) \o ss[k + 1]
    BY <2>2, <2>4, FlatAppend
  <2>7. FlattenSeq(b) \in Seq(S) /\ FlattenSeq(Append(b, ws[k + 1])) = FlattenSeq(b) \o ws[k + 1]
    BY <2>3, <2>4, FlatAppend
  <2>8. ReadsAs(FlattenSeq(a) \o ss[k + 1], FlattenSeq(b) \o ws[k + 1])
    BY <2>4, <2>5, <2>6, <2>7, ReadsConcat
  <2> QED BY <2>1, <2>2, <2>3, <2>6, <2>7, <2>8
<1>3. n \in T
  <2> HIDE DEF T
  <2>1. \A k \in 0..n : k \in T BY <1>0, <1>1, <1>2, UpTo
  <2> QED BY <2>1, <1>0
<1>4. SubSeq(ss, 1, Len(ss)) = ss /\ SubSeq(ws, 1, Len(ws)) = ws
  <2> HIDE DEF X
  <2> QED BY <1>0, WholePiece
<1> QED BY <1>3, <1>4

\* A reading without what was read before is the text: this is FirstReadings.
LEMMA ReadsFirst ==
  ASSUME NEW s, NEW w, ReadsAs(s, w), Distinct(w)
  PROVE  FirstReadings(s) = w
<1> DEFINE none == {}
<1>1. ToSet(w) \cap none = {} OBVIOUS
<1>2. Fresh(none, s) = w
  <2> HIDE DEF none
  <2> QED BY <1>1 DEF ReadsAs
<1>3. {i \in 1..Len(s) : s[i] \notin {} /\ \A k \in 1..(i - 1) : s[k] # s[i]}
      = {i \in 1..Len(s) : \A k \in 1..(i - 1) : s[k] # s[i]} OBVIOUS
<1> QED BY <1>2, <1>3 DEF Fresh, FirstReadings

-----------------------------------------------------------------------------
(* The words of blocks.                                                     *)

\* The blocks a page is parsed to, the words of a block with the block, and units.
Kinds == {b.type : b \in Menu}
Titles == {b.name : b \in Menu}
BlockSet == [id : Nat, type : Kinds, text : Seq(Nat), rows : BOOLEAN, name : Titles, path : Seq(Titles)]
WordSet == Nat \X Nat
UnitSet == [blocks : Seq(BlockSet), atomic : BOOLEAN]

PairsOf(id, ws) == [k \in 1..Len(ws) |-> <<id, ws[k]>>]
WordsIn == [b \in BlockSet |-> PairsOf(b.id, Words(b.text))]

\* The words of a block are pairs.
LEMMA WordPairsAre ==
  ASSUME NEW id \in Nat, NEW ws \in Seq(Nat)
  PROVE  /\ PairsOf(id, ws) \in Seq(WordSet) /\ Len(PairsOf(id, ws)) = Len(ws)
         /\ \A k \in 1..Len(ws) : PairsOf(id, ws)[k] = <<id, ws[k]>>
<1> DEFINE n == Len(ws)
<1>1. n \in Nat /\ \A k \in 1..n : ws[k] \in Nat OBVIOUS
<1>2. PairsOf(id, ws) = [k \in 1..n |-> <<id, ws[k]>>] BY DEF PairsOf
<1> HIDE DEF n
<1>3. [k \in 1..n |-> <<id, ws[k]>>] \in [1..n -> WordSet] BY <1>1 DEF WordSet
<1> HIDE DEF WordSet
<1>4. PairsOf(id, ws) \in Seq(WordSet) /\ Len(PairsOf(id, ws)) = n BY <1>1, <1>2, <1>3
<1> QED BY <1>2, <1>4 DEF n

\* The pairs of two texts.
LEMMA PairsConcat ==
  ASSUME NEW id \in Nat, NEW v \in Seq(Nat), NEW w \in Seq(Nat)
  PROVE  PairsOf(id, v \o w) = PairsOf(id, v) \o PairsOf(id, w)
<1> DEFINE a == PairsOf(id, v)
           b == PairsOf(id, w)
           u == v \o w
           c == PairsOf(id, u)
           m == Len(v)
           n == Len(w)
<1>0. m \in Nat /\ n \in Nat OBVIOUS
<1>1. /\ u \in Seq(Nat) /\ Len(u) = m + n
      /\ \A i \in 1 .. m + n : u[i] = IF i <= m THEN v[i] ELSE w[i - m]
  BY ConcatProperties
<1>2. a \in Seq(WordSet) /\ Len(a) = m /\ \A k \in 1..m : a[k] = <<id, v[k]>> BY WordPairsAre
<1>3. b \in Seq(WordSet) /\ Len(b) = n /\ \A k \in 1..n : b[k] = <<id, w[k]>> BY WordPairsAre
<1> HIDE DEF u, a, b, m, n
<1>4. c \in Seq(WordSet) /\ Len(c) = m + n /\ \A k \in 1 .. m + n : c[k] = <<id, u[k]>>
  BY <1>1, WordPairsAre
<1> HIDE DEF c
<1>5. /\ a \o b \in Seq(WordSet) /\ Len(a \o b) = m + n
      /\ \A i \in 1 .. m + n : (a \o b)[i] = IF i <= m THEN a[i] ELSE b[i - m]
  <2>1. /\ a \o b \in Seq(WordSet) /\ Len(a \o b) = Len(a) + Len(b)
        /\ \A i \in 1 .. Len(a) + Len(b) : (a \o b)[i] = IF i <= Len(a) THEN a[i] ELSE b[i - Len(a)]
    BY <1>2, <1>3, ConcatProperties
  <2> QED BY <2>1, <1>2, <1>3
<1>6. ASSUME NEW i \in 1 .. m + n PROVE (a \o b)[i] = c[i]
  <2>1. CASE i <= m
    <3>1. i \in 1..m BY <2>1, <1>0
    <3>2. (a \o b)[i] = a[i] /\ u[i] = v[i] BY <2>1, <1>1, <1>5
    <3> QED BY <3>1, <3>2, <1>2, <1>4
  <2>2. CASE ~(i <= m)
    <3>1. i - m \in 1..n BY <2>2, <1>0
    <3>2. (a \o b)[i] = b[i - m] /\ u[i] = w[i - m] BY <2>2, <1>1, <1>5
    <3> QED BY <3>1, <3>2, <1>3, <1>4
  <2> QED BY <2>1, <2>2
<1>7. a \o b = c BY <1>4, <1>5, <1>6, SeqEqual
<1> QED BY <1>7 DEF a, b, c, u

\* The words of a text are a text.
LEMMA WordsAre ==
  ASSUME NEW txt \in Seq(Nat)
  PROVE  Words(txt) \in Seq(Nat) /\ Len(Words(txt)) \in Nat
<1> DEFINE K == {i \in 1..Len(txt) : txt[i] # Mark}
<1>1. Where(txt, K) \in Seq(Nat)
  <2> HIDE DEF K
  <2> QED BY WheresAre
<1>2. Words(txt) \in Seq(Nat) BY <1>1 DEF Words
<1> QED BY <1>2

\* The words of two texts.
LEMMA WordsConcat ==
  ASSUME NEW s \in Seq(Nat), NEW t \in Seq(Nat)
  PROVE  s \o t \in Seq(Nat) /\ Words(s \o t) = Words(s) \o Words(t)
<1> DEFINE u == s \o t
           K == {i \in 1..Len(u) : u[i] # Mark}
           L == {i \in 1..Len(s) : s[i] # Mark}
           M == {i \in 1..Len(t) : t[i] # Mark}
<1>1. /\ u \in Seq(Nat) /\ Len(u) = Len(s) + Len(t) /\ Len(s) \in Nat /\ Len(t) \in Nat
      /\ (\A i \in 1..Len(s) : u[i] = s[i]) /\ (\A i \in 1..Len(t) : u[Len(s) + i] = t[i])
  BY SetConcat
<1> HIDE DEF u
<1>2. \A i \in 1..Len(s) : i \in K <=> i \in L
  <2>1. \A i \in 1..Len(s) : i \in 1..Len(u) BY <1>1
  <2> QED BY <2>1, <1>1
<1>3. \A i \in 1..Len(t) : Len(s) + i \in K <=> i \in M
  <2>1. \A i \in 1..Len(t) : Len(s) + i \in 1..Len(u) BY <1>1
  <2> QED BY <2>1, <1>1
<1> HIDE DEF K, L, M
<1>4. Where(s \o t, K) = Where(s, L) \o Where(t, M) BY <1>2, <1>3, WhereConcat
<1> QED BY <1>1, <1>4 DEF Words, K, L, M, u

\* An empty text has no words.
LEMMA WordsNone == Words(<<>>) = <<>>
BY WhereNone DEF Words

\* The words of a text are what is no mark.
LEMMA WordsRange ==
  ASSUME NEW txt \in Seq(Nat), NEW x
  PROVE  x \in ToSet(Words(txt)) <=> \E i \in 1..Len(txt) : txt[i] # Mark /\ x = txt[i]
<1> DEFINE K == {i \in 1..Len(txt) : txt[i] # Mark}
<1>1. x \in ToSet(Where(txt, K)) <=> \E i \in 1..Len(txt) : i \in K /\ x = txt[i]
  <2> HIDE DEF K
  <2> QED BY WhereRange
<1> QED BY <1>1 DEF Words

\* The words of a block are a sequence of pairs.
LEMMA WordsInMakes == Makes(WordsIn, BlockSet, WordSet)
<1>1. ASSUME NEW b \in BlockSet PROVE PairsOf(b.id, Words(b.text)) \in Seq(WordSet)
  <2>1. b.id \in Nat /\ b.text \in Seq(Nat) BY DEF BlockSet
  <2>2. Words(b.text) \in Seq(Nat) BY <2>1, WordsAre
  <2> QED BY <2>1, <2>2, WordPairsAre
<1> QED BY <1>1 DEF Makes, WordsIn

\* WordsOf maps the blocks.
LEMMA WordsOfIs ==
  ASSUME NEW blocks \in Seq(BlockSet)
  PROVE  WordsOf(blocks) = Mapped(WordsIn, blocks) /\ WordsOf(blocks) \in Seq(WordSet)
<1>1. \A i \in 1..Len(blocks) : blocks[i] \in BlockSet OBVIOUS
<1>2. \A i \in 1..Len(blocks) : WordsIn[blocks[i]] = PairsOf(blocks[i].id, Words(blocks[i].text))
  BY <1>1 DEF WordsIn
<1>3. [i \in 1..Len(blocks) |-> WordsIn[blocks[i]]]
       = [i \in 1..Len(blocks) |-> PairsOf(blocks[i].id, Words(blocks[i].text))] BY <1>2
<1>4. WordsOf(blocks) = Mapped(WordsIn, blocks) BY <1>3 DEF WordsOf, Mapped, PairsOf
<1>5. MapsTo(WordsIn, blocks, WordSet, Maps(WordsIn, blocks)) BY WordsInMakes, MapsAre
<1> QED BY <1>4, <1>5 DEF MapsTo

\* The words of blocks one after the other.
LEMMA WordsOfConcat ==
  ASSUME NEW a \in Seq(BlockSet), NEW b \in Seq(BlockSet)
  PROVE  a \o b \in Seq(BlockSet) /\ WordsOf(a \o b) = WordsOf(a) \o WordsOf(b)
<1>1. a \o b \in Seq(BlockSet) OBVIOUS
<1>2. Mapped(WordsIn, a \o b) = Mapped(WordsIn, a) \o Mapped(WordsIn, b)
  BY WordsInMakes, MappedConcat
<1> QED BY <1>1, <1>2, WordsOfIs

\* The words of one block.
LEMMA WordsOfOne ==
  ASSUME NEW b \in BlockSet
  PROVE  /\ WordsOf(<<b>>) = PairsOf(b.id, Words(b.text)) /\ <<b>> \in Seq(BlockSet)
         /\ PairsOf(b.id, Words(b.text)) \in Seq(WordSet)
         /\ WordsOf(<<b>>) \in Seq(WordSet) /\ Len(WordsOf(<<b>>)) = Len(Words(b.text))
         /\ Words(b.text) \in Seq(Nat) /\ b.id \in Nat /\ b.text \in Seq(Nat)
<1>1. <<b>> \in Seq(BlockSet) OBVIOUS
<1>2. Mapped(WordsIn, <<b>>) = WordsIn[b] BY WordsInMakes, MappedOne
<1>3. WordsIn[b] = PairsOf(b.id, Words(b.text)) BY DEF WordsIn
<1>4. b.id \in Nat /\ b.text \in Seq(Nat) BY DEF BlockSet
<1>5. Words(b.text) \in Seq(Nat) BY <1>4, WordsAre
<1>6. WordsOf(<<b>>) = PairsOf(b.id, Words(b.text)) BY <1>1, <1>2, <1>3, WordsOfIs
<1>7. PairsOf(b.id, Words(b.text)) \in Seq(WordSet) /\ Len(PairsOf(b.id, Words(b.text))) = Len(Words(b.text))
  BY <1>4, <1>5, WordPairsAre
<1> QED BY <1>1, <1>4, <1>5, <1>6, <1>7

\* No blocks have no words.
LEMMA WordsOfNone == WordsOf(<<>>) = <<>>
<1>1. <<>> \in Seq(BlockSet) OBVIOUS
<1> QED BY <1>1, WordsOfIs, MappedNone

\* The words of one block more.
LEMMA WordsOfAppend ==
  ASSUME NEW a \in Seq(BlockSet), NEW b \in BlockSet
  PROVE  WordsOf(Append(a, b)) = WordsOf(a) \o WordsOf(<<b>>)
<1> DEFINE one == <<b>>
<1>1. one \in Seq(BlockSet) /\ Append(a, b) = a \o one BY AppendIsConcat
<1> HIDE DEF one
<1>2. WordsOf(a \o one) = WordsOf(a) \o WordsOf(one) BY <1>1, WordsOfConcat
<1> QED BY <1>1, <1>2 DEF one

\* The tokens of blocks are their words.
LEMMA TokensAre ==
  ASSUME NEW blocks \in Seq(BlockSet)
  PROVE  Tokens(blocks) = Len(WordsOf(blocks)) /\ Tokens(blocks) \in Nat
<1> DEFINE N == Len(blocks)
           step == [p \in (1..N) \X Nat |-> p[2] + Len(Words(blocks[p[1]].text))]
           sum == CHOOSE g : g = [n \in 0..N |-> IF n = 0 THEN 0 ELSE g[n - 1] + Len(Words(blocks[n].text))]
           G(g) == [n \in 0..N |-> IF n = 0 THEN 0 ELSE g[n - 1] + Len(Words(blocks[n].text))]
<1>1. N \in Nat /\ \A n \in 1..N : blocks[n] \in BlockSet /\ Len(Words(blocks[n].text)) \in Nat
  <2>0. \A n \in 1..N : blocks[n] \in BlockSet OBVIOUS
  <2>1. \A n \in 1..N : blocks[n] \in BlockSet /\ blocks[n].text \in Seq(Nat)
    <3> HIDE DEF N
    <3> QED BY <2>0 DEF BlockSet
  <2>2. \A n \in 1..N : Len(Words(blocks[n].text)) \in Nat BY <2>1, WordsAre
  <2> QED BY <2>1, <2>2
<1>2. Tokens(blocks) = sum[N] BY DEF Tokens
<1>n. N = Len(blocks) OBVIOUS
<1> HIDE DEF N
<1>3. step \in [(1..N) \X Nat -> Nat] /\ \A n \in 1..N, x \in Nat : step[<<n, x>>] = x + Len(Words(blocks[n].text))
  <2>1. \A n \in 1..N, x \in Nat : x + Len(Words(blocks[n].text)) \in Nat BY <1>1
  <2> QED BY <2>1
<1> HIDE DEF step
<1>4. \E g : Unfolds(Nat, N, 0, step, g) BY <1>1, <1>3, Recursion
<1>5. PICK g : Unfolds(Nat, N, 0, step, g) BY <1>4
<1>6. g = G(g)
  <2>1. g \in [0..N -> Nat] /\ g[0] = 0 /\ \A n \in 1..N : g[n] = step[<<n, g[n - 1]>>]
    BY <1>5 DEF Unfolds
  <2>2. ASSUME NEW n \in 0..N PROVE g[n] = IF n = 0 THEN 0 ELSE g[n - 1] + Len(Words(blocks[n].text))
    <3>1. CASE n = 0 BY <3>1, <2>1
    <3>2. CASE n # 0
      <4>1. n \in 1..N /\ n - 1 \in 0..N BY <3>2, <1>1
      <4>2. g[n - 1] \in Nat BY <4>1, <2>1
      <4> QED BY <3>2, <4>1, <4>2, <2>1, <1>3
    <3> QED BY <3>1, <3>2
  <2> QED BY <2>1, <2>2
<1>7. sum = G(sum)
  <2>1. \E x : x = G(x) BY <1>6, Zenon
  <2> QED BY <2>1, Zenon
<1> HIDE DEF sum
<1>8. sum[0] = 0 /\ \A n \in 1..N : sum[n] = sum[n - 1] + Len(Words(blocks[n].text))
  <2>1. 0 \in 0..N /\ \A n \in 1..N : n \in 0..N /\ n # 0 BY <1>1
  <2> QED BY <2>1, <1>7
<1> HIDE DEF G
<1> DEFINE T == {k \in 0..N : sum[k] = Len(WordsOf(SubSeq(blocks, 1, k)))}
<1>9. 0 \in T
  <2>1. SubSeq(blocks, 1, 0) = <<>> BY SubSeqEmpty
  <2>2. Len(WordsOf(SubSeq(blocks, 1, 0))) = 0
    <3>1. Len(<<>>) = 0 OBVIOUS
    <3> QED BY <2>1, <3>1, WordsOfNone
  <2> QED BY <2>2, <1>1, <1>8
<1>10. ASSUME NEW k \in 0 .. N - 1, k \in T PROVE k + 1 \in T
  <2> DEFINE a == SubSeq(blocks, 1, k)
             b == blocks[k + 1]
  <2>1. k \in Nat /\ k < Len(blocks) /\ k + 1 \in 1..N /\ k + 1 \in 0..N /\ (k + 1) - 1 = k
    BY <1>1, <1>n
  <2>2. a \in Seq(BlockSet) /\ SubSeq(blocks, 1, k + 1) = Append(a, b) BY <2>1, PrefixGrows
  <2>3. b \in BlockSet BY <2>1, <1>1
  <2>4. sum[k + 1] = Len(WordsOf(a)) + Len(Words(b.text)) BY <1>8, <1>10, <2>1
  <2> HIDE DEF a, b
  <2>5. WordsOf(Append(a, b)) = WordsOf(a) \o WordsOf(<<b>>) BY <2>2, <2>3, WordsOfAppend
  <2>6. WordsOf(<<b>>) \in Seq(WordSet) /\ Len(WordsOf(<<b>>)) = Len(Words(b.text))
    BY <2>3, WordsOfOne
  <2>7. WordsOf(a) \in Seq(WordSet) BY <2>2, WordsOfIs
  <2>8. Len(WordsOf(a) \o WordsOf(<<b>>)) = Len(WordsOf(a)) + Len(WordsOf(<<b>>)) BY <2>6, <2>7
  <2> QED BY <2>1, <2>2, <2>4, <2>5, <2>6, <2>8
<1>11. N \in T
  <2> HIDE DEF T
  <2>1. \A k \in 0..N : k \in T BY <1>1, <1>9, <1>10, UpTo
  <2> QED BY <2>1, <1>1
<1>12. SubSeq(blocks, 1, N) = blocks BY <1>n, WholePiece
<1>13. Len(WordsOf(blocks)) \in Nat
  <2>1. WordsOf(blocks) \in Seq(WordSet) BY WordsOfIs
  <2> QED BY <2>1
<1>14. sum[N] = Len(WordsOf(blocks)) BY <1>11, <1>12
<1> QED BY <1>2, <1>13, <1>14

\* The tokens of one block more.
LEMMA TokensAppend ==
  ASSUME NEW a \in Seq(BlockSet), NEW b \in BlockSet
  PROVE  /\ Append(a, b) \in Seq(BlockSet)
         /\ Tokens(Append(a, b)) = Tokens(a) + Tokens(<<b>>)
         /\ Tokens(a) \in Nat /\ Tokens(<<b>>) \in Nat /\ Tokens(<<b>>) = Len(Words(b.text))
<1>1. Append(a, b) \in Seq(BlockSet) /\ <<b>> \in Seq(BlockSet) OBVIOUS
<1>2. WordsOf(Append(a, b)) = WordsOf(a) \o WordsOf(<<b>>) BY WordsOfAppend
<1>3. WordsOf(a) \in Seq(WordSet) /\ WordsOf(<<b>>) \in Seq(WordSet) BY <1>1, WordsOfIs
<1>4. Len(WordsOf(a) \o WordsOf(<<b>>)) = Len(WordsOf(a)) + Len(WordsOf(<<b>>)) BY <1>3
<1>5. Len(WordsOf(<<b>>)) = Len(Words(b.text)) BY WordsOfOne
<1>6. Tokens(<<b>>) = Len(WordsOf(<<b>>)) /\ Tokens(<<b>>) \in Nat BY <1>1, TokensAre
<1>7. Tokens(a) = Len(WordsOf(a)) /\ Tokens(a) \in Nat BY TokensAre
<1>8. Tokens(Append(a, b)) = Len(WordsOf(Append(a, b))) BY <1>1, TokensAre
<1> QED BY <1>1, <1>2, <1>4, <1>5, <1>6, <1>7, <1>8

-----------------------------------------------------------------------------
(* Grouping: the units hold the blocks of the page in order.                *)

\* Induction along a recursion: P holds of its numbers with their values.
LEMMA Steps ==
  ASSUME NEW N \in Nat, NEW after, NEW P, <<0, after[0]>> \in P,
         \A n \in 1..N : <<n - 1, after[n - 1]>> \in P => <<n, after[n]>> \in P
  PROVE  <<N, after[N]>> \in P
<1> DEFINE T == {n \in 0..N : <<n, after[n]>> \in P}
<1>1. 0 \in T OBVIOUS
<1>2. ASSUME NEW k \in 0 .. N - 1, k \in T PROVE k + 1 \in T
  <2>1. k + 1 \in 1..N /\ k + 1 \in 0..N /\ (k + 1) - 1 = k OBVIOUS
  <2> QED BY <2>1, <1>2
<1>3. N \in T
  <2> HIDE DEF T
  <2>1. \A k \in 0..N : k \in T BY <1>1, <1>2, UpTo
  <2> QED BY <2>1
<1> QED BY <1>3

\* Joining is associative, said of four sequences.
Regroups(a, b, c, d) == (a \o (b \o c)) \o d = a \o (b \o (c \o d))

\* Four sequences are joined in any grouping.
LEMMA Regrouped ==
  ASSUME NEW S, NEW a \in Seq(S), NEW b \in Seq(S), NEW c \in Seq(S), NEW d \in Seq(S)
  PROVE  Regroups(a, b, c, d)
<1>1. b \o c \in Seq(S) BY ConcatProperties
<1> DEFINE e == b \o c
<1>2. (a \o e) \o d = a \o (e \o d)
  <2>1. e \in Seq(S) BY <1>1
  <2> HIDE DEF e
  <2> QED BY <2>1, ConcatAssociative, SMTT(30)
<1>3. (b \o c) \o d = b \o (c \o d) BY ConcatAssociative
<1> QED BY <1>2, <1>3 DEF Regroups

\* The blocks of units.
BlocksIn == [u \in UnitSet |-> u.blocks]
BlocksOf(units) == Mapped(BlocksIn, units)

\* The blocks of a unit are a sequence.
LEMMA BlocksInMakes == Makes(BlocksIn, UnitSet, BlockSet)
<1>1. \A u \in UnitSet : u.blocks \in Seq(BlockSet) BY DEF UnitSet
<1> QED BY <1>1 DEF Makes, BlocksIn

\* The blocks of units one after the other.
LEMMA BlocksOfConcat ==
  ASSUME NEW s \in Seq(UnitSet), NEW t \in Seq(UnitSet)
  PROVE  /\ s \o t \in Seq(UnitSet) /\ BlocksOf(s \o t) = BlocksOf(s) \o BlocksOf(t)
         /\ BlocksOf(s) \in Seq(BlockSet) /\ BlocksOf(t) \in Seq(BlockSet)
<1>1. s \o t \in Seq(UnitSet) OBVIOUS
<1>2. BlocksOf(s \o t) = BlocksOf(s) \o BlocksOf(t) BY BlocksInMakes, MappedConcat DEF BlocksOf
<1>3. MapsTo(BlocksIn, s, BlockSet, Maps(BlocksIn, s)) BY BlocksInMakes, MapsAre
<1>4. MapsTo(BlocksIn, t, BlockSet, Maps(BlocksIn, t)) BY BlocksInMakes, MapsAre
<1>5. BlocksOf(s) \in Seq(BlockSet) /\ BlocksOf(t) \in Seq(BlockSet)
  BY <1>3, <1>4 DEF MapsTo, BlocksOf
<1> QED BY <1>1, <1>2, <1>5

\* The blocks of one unit.
LEMMA BlocksOfOne ==
  ASSUME NEW u \in UnitSet
  PROVE  <<u>> \in Seq(UnitSet) /\ BlocksOf(<<u>>) = u.blocks /\ u.blocks \in Seq(BlockSet) /\ u.atomic \in BOOLEAN
<1>1. BlocksOf(<<u>>) = BlocksIn[u] BY BlocksInMakes, MappedOne DEF BlocksOf
<1>2. u.blocks \in Seq(BlockSet) /\ u.atomic \in BOOLEAN BY DEF UnitSet
<1> QED BY <1>1, <1>2 DEF BlocksIn

\* No units have no blocks.
LEMMA BlocksOfNone == BlocksOf(<<>>) = <<>> /\ <<>> \in Seq(UnitSet) /\ <<>> \in Seq(BlockSet)
BY MappedNone DEF BlocksOf

\* The blocks of one unit more.
LEMMA BlocksOfAppend ==
  ASSUME NEW s \in Seq(UnitSet), NEW u \in UnitSet
  PROVE  /\ Append(s, u) \in Seq(UnitSet) /\ BlocksOf(Append(s, u)) = BlocksOf(s) \o u.blocks
         /\ BlocksOf(s) \in Seq(BlockSet)
<1> DEFINE one == <<u>>
<1>1. one \in Seq(UnitSet) /\ Append(s, u) = s \o one /\ Append(s, u) \in Seq(UnitSet)
  BY AppendIsConcat
<1> HIDE DEF one
<1>2. BlocksOf(s \o one) = BlocksOf(s) \o BlocksOf(one) /\ BlocksOf(s) \in Seq(BlockSet)
  BY <1>1, BlocksOfConcat
<1> QED BY <1>1, <1>2, BlocksOfOne DEF one

\* A unit has its blocks.
LEMMA UnitIs ==
  ASSUME NEW blocks \in Seq(BlockSet), NEW atomic \in BOOLEAN
  PROVE  Unit(blocks, atomic) \in UnitSet /\ Unit(blocks, atomic).blocks = blocks
BY DEF Unit, UnitSet

\* Closing the unit being built keeps the blocks.
LEMMA ClosedIs ==
  ASSUME NEW units \in Seq(UnitSet), NEW current \in Seq(BlockSet)
  PROVE  Closed(units, current) \in Seq(UnitSet) /\ BlocksOf(Closed(units, current)) = BlocksOf(units) \o current
<1>1. CASE current = <<>>
  <2>1. BlocksOf(units) \in Seq(BlockSet) BY BlocksOfConcat
  <2>2. BlocksOf(units) \o current = BlocksOf(units) BY <1>1, <2>1, ConcatEmptySeq
  <2>3. Closed(units, current) = units BY <1>1 DEF Closed
  <2> QED BY <2>2, <2>3
<1>2. CASE current # <<>>
  <2> DEFINE u == Unit(current, FALSE)
  <2>1. u \in UnitSet /\ u.blocks = current BY UnitIs
  <2>2. Closed(units, current) = Append(units, u) BY <1>2 DEF Closed
  <2> HIDE DEF u
  <2> QED BY <2>1, <2>2, BlocksOfAppend
<1> QED BY <1>1, <1>2

\* What is being built of a page, and what it holds.
BuildSet == [units : Seq(UnitSet), current : Seq(BlockSet)]
Built(s) == BlocksOf(s.units) \o s.current

\* A block taken is added at the end.
LEMMA TakeBlockKeeps ==
  ASSUME NEW s \in BuildSet, NEW b \in BlockSet
  PROVE  TakeBlock(s, b) \in BuildSet /\ Built(TakeBlock(s, b)) = Append(Built(s), b) /\ Built(s) \in Seq(BlockSet)
<1> DEFINE units == s.units
           current == s.current
           one == <<b>>
           closed == Closed(units, current)
           before == BlocksOf(units)
<1>1. units \in Seq(UnitSet) /\ current \in Seq(BlockSet) /\ one \in Seq(BlockSet) BY DEF BuildSet
<1>2. closed \in Seq(UnitSet) /\ BlocksOf(closed) = before \o current BY <1>1, ClosedIs
<1>3. before \in Seq(BlockSet) BY <1>1, BlocksOfConcat
<1>w. Built(s) = before \o current BY DEF Built
<1>4. before \o current \in Seq(BlockSet)
  <2> HIDE DEF before, current
  <2> QED BY <1>1, <1>3, ConcatProperties
<1>5. Append(Built(s), b) = Built(s) \o one /\ Built(s) \in Seq(BlockSet)
  <2>1. Built(s) \in Seq(BlockSet) BY <1>4, <1>w
  <2> QED BY <2>1, AppendIsConcat
<1>6. CASE IsAtomic(b)
  <2> DEFINE u == Unit(one, TRUE)
             none == <<>>
  <2>1. u \in UnitSet /\ u.blocks = one BY <1>1, UnitIs
  <2>2. TakeBlock(s, b) = [units |-> Append(closed, u), current |-> none] BY <1>6 DEF TakeBlock
  <2>n. none \in Seq(BlockSet) OBVIOUS
  <2>3. Append(closed, u) \in Seq(UnitSet) /\ BlocksOf(Append(closed, u)) = BlocksOf(closed) \o one
        /\ BlocksOf(closed) \in Seq(BlockSet)
    <3> HIDE DEF u, closed
    <3> QED BY <2>1, <1>2, BlocksOfAppend
  <2>4. BlocksOf(Append(closed, u)) \o none = BlocksOf(Append(closed, u))
    <3>1. BlocksOf(Append(closed, u)) \in Seq(BlockSet)
      <4> HIDE DEF closed, u
      <4> QED BY <2>3, BlocksOfConcat
    <3> QED BY <3>1, ConcatEmptySeq
  <2>5. Built(TakeBlock(s, b)) = BlocksOf(Append(closed, u)) \o none BY <2>2 DEF Built
  <2>6. TakeBlock(s, b) \in BuildSet
    <3> HIDE DEF closed, u, none
    <3> QED BY <2>2, <2>3, <2>n DEF BuildSet
  <2> QED BY <2>3, <2>4, <2>5, <2>6, <1>2, <1>5, <1>w
<1>7. CASE ~IsAtomic(b) /\ IsHeading(b) /\ HasContent(current)
  <2>1. TakeBlock(s, b) = [units |-> closed, current |-> one] BY <1>7 DEF TakeBlock
  <2>2. TakeBlock(s, b) \in BuildSet
    <3> HIDE DEF closed, one
    <3> QED BY <2>1, <1>1, <1>2 DEF BuildSet
  <2>3. Built(TakeBlock(s, b)) = BlocksOf(closed) \o one BY <2>1 DEF Built
  <2> QED BY <2>2, <2>3, <1>2, <1>5, <1>w
<1>8. CASE ~IsAtomic(b) /\ ~(IsHeading(b) /\ HasContent(current))
  <2> DEFINE more == Append(current, b)
  <2>1. TakeBlock(s, b) = [units |-> units, current |-> more]
    <3>1. TakeBlock(s, b) = [s EXCEPT !.current = Append(@, b)] BY <1>8 DEF TakeBlock
    <3> QED BY <3>1 DEF BuildSet
  <2>2. more \in Seq(BlockSet) BY <1>1
  <2>3. TakeBlock(s, b) \in BuildSet
    <3> HIDE DEF more, units
    <3> QED BY <2>1, <2>2, <1>1 DEF BuildSet
  <2>4. Built(TakeBlock(s, b)) = before \o more
    <3>1. TakeBlock(s, b).units = units /\ TakeBlock(s, b).current = more BY <2>1
    <3> QED BY <3>1 DEF Built
  <2>5. before \o more = Append(before \o current, b)
    <3> HIDE DEF before, current
    <3> QED BY <1>1, <1>3, Behind
  <2> QED BY <2>3, <2>4, <2>5, <1>5, <1>w
<1> QED BY <1>6, <1>7, <1>8

\* Units are the page, in order.
LEMMA RawUnitsAre ==
  ASSUME NEW blocks \in Seq(BlockSet)
  PROVE  RawUnits(blocks) \in Seq(UnitSet) /\ BlocksOf(RawUnits(blocks)) = blocks
<1> DEFINE N == Len(blocks)
           base == [units |-> <<>>, current |-> <<>>]
           step == [p \in (1..N) \X BuildSet |-> TakeBlock(p[2], blocks[p[1]])]
           after == CHOOSE g : g = [n \in 0..N |-> IF n = 0 THEN [units |-> <<>>, current |-> <<>>]
                                                   ELSE TakeBlock(g[n - 1], blocks[n])]
           G(g) == [n \in 0..N |-> IF n = 0 THEN base ELSE TakeBlock(g[n - 1], blocks[n])]
<1>1. N \in Nat /\ N = Len(blocks) /\ \A n \in 1..N : blocks[n] \in BlockSet OBVIOUS
<1>2. RawUnits(blocks) = Closed(after[N].units, after[N].current) BY DEF RawUnits
<1>0. base \in BuildSet /\ Built(base) = <<>>
  <2>1. <<>> \o <<>> = <<>> OBVIOUS
  <2> QED BY <2>1, BlocksOfNone DEF BuildSet, Built
<1> HIDE DEF N
<1>3. step \in [(1..N) \X BuildSet -> BuildSet]
      /\ \A n \in 1..N, x \in BuildSet : step[<<n, x>>] = TakeBlock(x, blocks[n])
  <2>1. \A n \in 1..N, x \in BuildSet : TakeBlock(x, blocks[n]) \in BuildSet BY <1>1, TakeBlockKeeps
  <2> QED BY <2>1
<1> HIDE DEF step
<1>5. PICK g : Unfolds(BuildSet, N, base, step, g)
  <2> HIDE DEF base
  <2>1. \E g : Unfolds(BuildSet, N, base, step, g) BY <1>0, <1>1, <1>3, Recursion
  <2> QED BY <2>1
<1>6. g = G(g)
  <2>1. g \in [0..N -> BuildSet] /\ g[0] = base /\ \A n \in 1..N : g[n] = step[<<n, g[n - 1]>>]
    BY <1>5 DEF Unfolds
  <2>2. ASSUME NEW n \in 0..N PROVE g[n] = IF n = 0 THEN base ELSE TakeBlock(g[n - 1], blocks[n])
    <3>1. CASE n = 0 BY <3>1, <2>1
    <3>2. CASE n # 0
      <4>1. n \in 1..N /\ n - 1 \in 0..N BY <3>2, <1>1
      <4>2. g[n - 1] \in BuildSet BY <4>1, <2>1
      <4> QED BY <3>2, <4>1, <4>2, <2>1, <1>3
    <3> QED BY <3>1, <3>2
  <2> QED BY <2>1, <2>2
<1>7. after = G(after)
  <2>1. \E x : x = G(x) BY <1>6, Zenon
  <2> QED BY <2>1, Zenon
<1> HIDE DEF after
<1>8. after[0] = base /\ \A n \in 1..N : after[n] = TakeBlock(after[n - 1], blocks[n])
  <2>1. 0 \in 0..N /\ \A n \in 1..N : n \in 0..N /\ n # 0 BY <1>1
  <2> HIDE DEF base
  <2> QED BY <2>1, <1>7
<1> HIDE DEF G, base
<1> DEFINE Good(n, s) == s \in BuildSet /\ Built(s) = SubSeq(blocks, 1, n)
           P == {p \in (0..N) \X BuildSet : Good(p[1], p[2])}
<1>9. <<0, after[0]>> \in P
  <2>1. SubSeq(blocks, 1, 0) = <<>> BY SubSeqEmpty
  <2>2. Good(0, after[0]) BY <2>1, <1>0, <1>8
  <2>3. <<0, after[0]>> \in (0..N) \X BuildSet BY <1>0, <1>1, <1>8
  <2> QED BY <2>2, <2>3
<1>10. ASSUME NEW n \in 1..N, <<n - 1, after[n - 1]>> \in P PROVE <<n, after[n]>> \in P
  <2>1. n - 1 \in Nat /\ n - 1 < Len(blocks) /\ n \in 0..N /\ (n - 1) + 1 = n BY <1>1
  <2>2. after[n - 1] \in BuildSet /\ Built(after[n - 1]) = SubSeq(blocks, 1, n - 1) BY <1>10
  <2>3. SubSeq(blocks, 1, (n - 1) + 1) = Append(SubSeq(blocks, 1, n - 1), blocks[(n - 1) + 1])
    BY <2>1, PrefixGrows
  <2>4. blocks[n] \in BlockSet BY <1>1
  <2>5. after[n] \in BuildSet /\ Built(after[n]) = Append(Built(after[n - 1]), blocks[n])
    BY <2>2, <2>4, <1>8, TakeBlockKeeps
  <2> QED BY <2>1, <2>2, <2>3, <2>5
<1>11. <<N, after[N]>> \in P
  <2> HIDE DEF P
  <2> QED BY <1>1, <1>9, <1>10, Steps
<1>12. after[N] \in BuildSet /\ Built(after[N]) = blocks
  <2>1. SubSeq(blocks, 1, N) = blocks BY <1>1, WholePiece
  <2> QED BY <2>1, <1>11
<1>13. after[N].units \in Seq(UnitSet) /\ after[N].current \in Seq(BlockSet) BY <1>12 DEF BuildSet
<1> QED BY <1>2, <1>12, <1>13, ClosedIs DEF Built

-----------------------------------------------------------------------------
(* Attaching and merging keep them.                                         *)

\* A sequence is its front and its last element.
LEMMA FrontLast ==
  ASSUME NEW S, NEW s \in Seq(S), s # <<>>
  PROVE  Front(s) \in Seq(S) /\ Last(s) \in S /\ s = Append(Front(s), Last(s)) /\ s = Front(s) \o <<Last(s)>>
<1> DEFINE k == Len(s) - 1
<1>1. k \in Nat /\ k < Len(s) /\ k + 1 = Len(s) /\ s[Len(s)] \in S OBVIOUS
<1>2. SubSeq(s, 1, k) \in Seq(S) /\ SubSeq(s, 1, k + 1) = Append(SubSeq(s, 1, k), s[k + 1])
  <2> HIDE DEF k
  <2> QED BY <1>1, PrefixGrows
<1>3. SubSeq(s, 1, Len(s)) = s BY WholePiece
<1>4. s = Append(Front(s), Last(s)) /\ Front(s) \in Seq(S) /\ Last(s) \in S
  BY <1>1, <1>2, <1>3 DEF Front, Last
<1>5. Append(Front(s), Last(s)) = Front(s) \o <<Last(s)>> BY <1>4, AppendIsConcat
<1> QED BY <1>4, <1>5

\* Two sequences have content if one has.
LEMMA HasContentConcat ==
  ASSUME NEW a \in Seq(BlockSet), NEW b \in Seq(BlockSet)
  PROVE  HasContent(a \o b) <=> (HasContent(a) \/ HasContent(b))
<1> DEFINE u == a \o b
           m == Len(a)
           n == Len(b)
<1>1. m \in Nat /\ n \in Nat /\ Len(u) = m + n /\ (\A i \in 1..m : u[i] = a[i]) /\ \A i \in 1..n : u[m + i] = b[i]
  BY SetConcat
<1> HIDE DEF u, m, n
<1>2. ASSUME NEW i \in 1..Len(u), ~IsHeading(u[i])
      PROVE  (\E k \in 1..m : ~IsHeading(a[k])) \/ (\E k \in 1..n : ~IsHeading(b[k]))
  <2>1. CASE i <= m
    <3>1. i \in 1..m BY <2>1, <1>1
    <3> QED BY <3>1, <1>1, <1>2
  <2>2. CASE ~(i <= m)
    <3>1. i - m \in 1..n /\ m + (i - m) = i BY <2>2, <1>1
    <3>2. u[m + (i - m)] = b[i - m] BY <3>1, <1>1
    <3> QED BY <3>1, <3>2, <1>2
  <2> QED BY <2>1, <2>2
<1>3. ASSUME NEW k \in 1..m, ~IsHeading(a[k]) PROVE HasContent(u)
  <2>1. k \in 1..Len(u) BY <1>1
  <2> QED BY <2>1, <1>1, <1>3 DEF HasContent
<1>4. ASSUME NEW k \in 1..n, ~IsHeading(b[k]) PROVE HasContent(u)
  <2>1. m + k \in 1..Len(u) BY <1>1
  <2>2. ~IsHeading(u[m + k]) BY <1>1, <1>4
  <2> QED BY <2>1, <2>2 DEF HasContent
<1>5. HasContent(u) => HasContent(a) \/ HasContent(b) BY <1>2 DEF HasContent, m, n
<1>6. HasContent(a) \/ HasContent(b) => HasContent(u) BY <1>3, <1>4 DEF HasContent, m, n
<1> QED BY <1>5, <1>6 DEF u

\* A unit extended has the blocks of both.
LEMMA ExtendedIs ==
  ASSUME NEW u \in UnitSet, NEW blocks \in Seq(BlockSet)
  PROVE  /\ Extended(u, blocks) \in UnitSet /\ Extended(u, blocks).blocks = u.blocks \o blocks
         /\ u.blocks \in Seq(BlockSet)
<1>1. u.blocks \in Seq(BlockSet) BY DEF UnitSet
<1> DEFINE all == u.blocks \o blocks
<1>2. all \in Seq(BlockSet) BY <1>1, ConcatProperties
<1>3. Extended(u, blocks) = [u EXCEPT !.blocks = all] BY DEF Extended
<1> HIDE DEF all
<1>4. Extended(u, blocks) \in UnitSet /\ Extended(u, blocks).blocks = all BY <1>2, <1>3 DEF UnitSet
<1> QED BY <1>1, <1>4 DEF all

\* Attaching a unit to those before it keeps the blocks in order.
LEMMA AttachUnitKeeps ==
  ASSUME NEW done \in Seq(UnitSet), NEW u \in UnitSet
  PROVE  /\ AttachUnit(done, u) \in Seq(UnitSet)
         /\ BlocksOf(AttachUnit(done, u)) = BlocksOf(done) \o u.blocks
<1>1. CASE done # <<>> /\ ~HasContent(u.blocks)
  <2> DEFINE front == Front(done)
             last == Last(done)
             ext == Extended(last, u.blocks)
             one == <<ext>>
  <2>1. front \in Seq(UnitSet) /\ last \in UnitSet /\ done = Append(front, last) BY <1>1, FrontLast
  <2>0. u.blocks \in Seq(BlockSet) BY DEF UnitSet
  <2>2. AttachUnit(done, u) = front \o one BY <1>1 DEF AttachUnit
  <2> HIDE DEF front, last
  <2>3. ext \in UnitSet /\ ext.blocks = last.blocks \o u.blocks /\ last.blocks \in Seq(BlockSet)
    BY <2>0, <2>1, ExtendedIs
  <2> HIDE DEF ext
  <2>4. one \in Seq(UnitSet) /\ BlocksOf(one) = ext.blocks BY <2>3, BlocksOfOne
  <2> HIDE DEF one
  <2>5. front \o one \in Seq(UnitSet) /\ BlocksOf(front \o one) = BlocksOf(front) \o BlocksOf(one)
        /\ BlocksOf(front) \in Seq(BlockSet)
    BY <2>1, <2>4, BlocksOfConcat
  <2>6. BlocksOf(done) = BlocksOf(front) \o last.blocks BY <2>1, BlocksOfAppend
  <2> DEFINE x == BlocksOf(front)
             y == last.blocks
             z == u.blocks
  <2>7. (x \o y) \o z = x \o (y \o z)
    <3>1. x \in Seq(BlockSet) /\ y \in Seq(BlockSet) /\ z \in Seq(BlockSet) BY <2>0, <2>3, <2>5
    <3> HIDE DEF x, y, z
    <3> QED BY <3>1, ConcatAssociative
  <2> QED BY <2>2, <2>3, <2>4, <2>5, <2>6, <2>7
<1>2. CASE ~(done # <<>> /\ ~HasContent(u.blocks))
  <2>1. AttachUnit(done, u) = Append(done, u) BY <1>2 DEF AttachUnit
  <2> QED BY <2>1, BlocksOfAppend
<1> QED BY <1>1, <1>2

\* Two neighbours fused to one.
LEMMA Fused ==
  ASSUME NEW s \in Seq(UnitSet), NEW i \in 1 .. Len(s) - 1, NEW w \in UnitSet,
         w.blocks = s[i].blocks \o s[i + 1].blocks
  PROVE  /\ SubSeq(s, 1, i - 1) \o <<w>> \o SubSeq(s, i + 2, Len(s)) \in Seq(UnitSet)
         /\ BlocksOf(SubSeq(s, 1, i - 1) \o <<w>> \o SubSeq(s, i + 2, Len(s))) = BlocksOf(s)
<1> DEFINE n == Len(s)
           p == SubSeq(s, 1, i - 1)
           q == SubSeq(s, i, n)
           r == SubSeq(s, i + 2, n)
           m == SubSeq(s, i + 1, n)
           u == s[i]
           v == s[i + 1]
           ow == <<w>>
           ou == <<u>>
           ov == <<v>>
<1>0. n \in Nat /\ i \in 1..n /\ i + 1 \in 1..n /\ n \in i..n /\ n \in (i + 1)..n /\ (i + 1) + 1 = i + 2
  OBVIOUS
<1>1. q = ou \o m BY <1>0, SubSeqRecursiveFirst
<1>2. m = ov \o r
  <2>1. SubSeq(s, i + 1, n) = <<s[i + 1]>> \o SubSeq(s, (i + 1) + 1, n)
    BY <1>0, SubSeqRecursiveFirst
  <2> QED BY <2>1, <1>0
<1>3. s = p \o q
  <2>1. 1 \in 1 .. n + 1 /\ i - 1 \in (1 - 1) .. n /\ n \in (i - 1) .. n /\ (i - 1) + 1 = i BY <1>0
  <2>2. SubSeq(s, 1, i - 1) \o SubSeq(s, (i - 1) + 1, n) = SubSeq(s, 1, n)
    BY <2>1, ConcatAdjacentSubSeq
  <2> QED BY <2>1, <2>2, WholePiece
<1>4. u \in UnitSet /\ v \in UnitSet BY <1>0
<1>5. p \in Seq(UnitSet) /\ q \in Seq(UnitSet) /\ r \in Seq(UnitSet) /\ m \in Seq(UnitSet)
  <2>1. p \in Seq(UnitSet)
    <3>1. \A k \in 1 .. i - 1 : s[k] \in UnitSet BY <1>0
    <3> QED BY <3>1, <1>0, SubSeqProperties
  <2>2. q \in Seq(UnitSet)
    <3>1. \A k \in i .. n : s[k] \in UnitSet BY <1>0
    <3> QED BY <3>1, <1>0, SubSeqProperties
  <2>3. r \in Seq(UnitSet)
    <3>1. (\A k \in i + 2 .. n : s[k] \in UnitSet) /\ i + 2 \in Int /\ n \in Int BY <1>0
    <3> QED BY <3>1, SubSeqProperties
  <2>4. m \in Seq(UnitSet)
    <3>1. (\A k \in i + 1 .. n : s[k] \in UnitSet) /\ i + 1 \in Int /\ n \in Int BY <1>0
    <3> QED BY <3>1, SubSeqProperties
  <2> QED BY <2>1, <2>2, <2>3, <2>4
<1>6. ou \in Seq(UnitSet) /\ BlocksOf(ou) = u.blocks /\ u.blocks \in Seq(BlockSet)
  BY <1>4, BlocksOfOne
<1>7. ov \in Seq(UnitSet) /\ BlocksOf(ov) = v.blocks /\ v.blocks \in Seq(BlockSet)
  BY <1>4, BlocksOfOne
<1>8. ow \in Seq(UnitSet) /\ BlocksOf(ow) = w.blocks BY BlocksOfOne
<1>9. w.blocks = u.blocks \o v.blocks OBVIOUS
<1> HIDE DEF p, q, r, m, u, v, ow, ou, ov
<1>10. BlocksOf(s) = BlocksOf(p) \o BlocksOf(q) BY <1>3, <1>5, BlocksOfConcat
<1>11. BlocksOf(q) = BlocksOf(ou) \o BlocksOf(m) BY <1>1, <1>5, <1>6, BlocksOfConcat
<1>12. BlocksOf(m) = BlocksOf(ov) \o BlocksOf(r) BY <1>2, <1>5, <1>7, BlocksOfConcat
<1> DEFINE pw == p \o ow
<1>13. pw \in Seq(UnitSet) /\ BlocksOf(pw) = BlocksOf(p) \o BlocksOf(ow)
  BY <1>5, <1>8, BlocksOfConcat
<1> HIDE DEF pw
<1>14. pw \o r \in Seq(UnitSet) /\ BlocksOf(pw \o r) = BlocksOf(pw) \o BlocksOf(r)
  BY <1>5, <1>13, BlocksOfConcat
<1> DEFINE a == BlocksOf(p)
           b == u.blocks
           c == v.blocks
           d == BlocksOf(r)
<1>15. a \in Seq(BlockSet) /\ b \in Seq(BlockSet) /\ c \in Seq(BlockSet) /\ d \in Seq(BlockSet)
  BY <1>5, <1>6, <1>7, BlocksOfConcat
<1>16. BlocksOf(s) = a \o (b \o (c \o d)) BY <1>6, <1>7, <1>10, <1>11, <1>12
<1>17. BlocksOf(pw \o r) = (a \o (b \o c)) \o d BY <1>8, <1>9, <1>13, <1>14
<1> HIDE DEF a, b, c, d
<1>18. Regroups(a, b, c, d) BY <1>15, Regrouped
<1>19. BlocksOf(pw \o r) = BlocksOf(s) BY <1>16, <1>17, <1>18 DEF Regroups
<1> QED BY <1>14, <1>19 DEF pw, p, ow, r, n

\* Attaching the headings keeps the blocks of a page with content.
LEMMA AttachHeadingsAre ==
  ASSUME NEW units \in Seq(UnitSet)
  PROVE  /\ AttachHeadings(units) \in Seq(UnitSet)
         /\ HasContent(BlocksOf(units)) => BlocksOf(AttachHeadings(units)) = BlocksOf(units)
<1> DEFINE N == Len(units)
           X == Seq(UnitSet)
           base == <<>>
           step == [p \in (1..N) \X X |-> AttachUnit(p[2], units[p[1]])]
           after == CHOOSE g : g = [n \in 0..N |-> IF n = 0 THEN <<>> ELSE AttachUnit(g[n - 1], units[n])]
           G(g) == [n \in 0..N |-> IF n = 0 THEN base ELSE AttachUnit(g[n - 1], units[n])]
           done == after[N]
           fused == <<[done[2] EXCEPT !.blocks = done[1].blocks \o @]>> \o SubSeq(done, 3, Len(done))
<1>1. N \in Nat /\ N = Len(units) /\ \A n \in 1..N : units[n] \in UnitSet OBVIOUS
<1>2. AttachHeadings(units) = IF done = <<>> \/ HasContent(Head(done).blocks) THEN done
                              ELSE IF Len(done) = 1 THEN <<>> ELSE fused
  BY DEF AttachHeadings
<1>0. base \in X /\ BlocksOf(base) = <<>> BY BlocksOfNone
<1> HIDE DEF N
<1>3. step \in [(1..N) \X X -> X] /\ \A n \in 1..N, x \in X : step[<<n, x>>] = AttachUnit(x, units[n])
  <2>1. \A n \in 1..N, x \in X : AttachUnit(x, units[n]) \in X BY <1>1, AttachUnitKeeps
  <2> HIDE DEF X
  <2> QED BY <2>1
<1> HIDE DEF step
<1>5. PICK g : Unfolds(X, N, base, step, g)
  <2> HIDE DEF base, X
  <2>1. \E g : Unfolds(X, N, base, step, g) BY <1>0, <1>1, <1>3, Recursion
  <2> QED BY <2>1
<1>6. g = G(g)
  <2>1. g \in [0..N -> X] /\ g[0] = base /\ \A n \in 1..N : g[n] = step[<<n, g[n - 1]>>]
    BY <1>5 DEF Unfolds
  <2> HIDE DEF X, base
  <2>2. ASSUME NEW n \in 0..N PROVE g[n] = IF n = 0 THEN base ELSE AttachUnit(g[n - 1], units[n])
    <3>1. CASE n = 0 BY <3>1, <2>1
    <3>2. CASE n # 0
      <4>1. n \in 1..N /\ n - 1 \in 0..N BY <3>2, <1>1
      <4>2. g[n - 1] \in X BY <4>1, <2>1
      <4> QED BY <3>2, <4>1, <4>2, <2>1, <1>3
    <3> QED BY <3>1, <3>2
  <2> QED BY <2>1, <2>2
<1>7. after = G(after)
  <2>1. \E x : x = G(x) BY <1>6, Zenon
  <2> QED BY <2>1, Zenon
<1> HIDE DEF after
<1>8. after[0] = base /\ \A n \in 1..N : after[n] = AttachUnit(after[n - 1], units[n])
  <2>1. 0 \in 0..N /\ \A n \in 1..N : n \in 0..N /\ n # 0 BY <1>1
  <2> HIDE DEF base
  <2> QED BY <2>1, <1>7
<1> HIDE DEF G, base
<1> DEFINE Good(n, s) == BlocksOf(s) = BlocksOf(SubSeq(units, 1, n))
           P == {p \in (0..N) \X X : Good(p[1], p[2])}
<1>9. <<0, after[0]>> \in P
  <2>1. SubSeq(units, 1, 0) = <<>> BY SubSeqEmpty
  <2>2. Good(0, after[0]) BY <2>1, <1>0, <1>8 DEF base
  <2>3. <<0, after[0]>> \in (0..N) \X X BY <1>0, <1>1, <1>8
  <2> QED BY <2>2, <2>3
<1>10. ASSUME NEW n \in 1..N, <<n - 1, after[n - 1]>> \in P PROVE <<n, after[n]>> \in P
  <2>1. n - 1 \in Nat /\ n - 1 < Len(units) /\ n \in 0..N /\ (n - 1) + 1 = n BY <1>1
  <2> DEFINE before == SubSeq(units, 1, n - 1)
             u == units[n]
             s == after[n - 1]
  <2>2. s \in X /\ BlocksOf(s) = BlocksOf(before) BY <1>10
  <2>3. before \in X /\ SubSeq(units, 1, (n - 1) + 1) = Append(before, units[(n - 1) + 1])
    BY <2>1, PrefixGrows
  <2>4. u \in UnitSet BY <1>1
  <2>6. after[n] = AttachUnit(s, u) BY <1>8
  <2>7. SubSeq(units, 1, n) = Append(before, u) BY <2>1, <2>3
  <2> HIDE DEF before, u, s
  <2>5. after[n] \in X /\ BlocksOf(after[n]) = BlocksOf(s) \o u.blocks
    BY <2>2, <2>4, <2>6, AttachUnitKeeps
  <2>8. BlocksOf(Append(before, u)) = BlocksOf(before) \o u.blocks BY <2>3, <2>4, BlocksOfAppend
  <2> QED BY <2>1, <2>2, <2>5, <2>7, <2>8
<1>11. <<N, after[N]>> \in P
  <2> HIDE DEF P
  <2> QED BY <1>1, <1>9, <1>10, Steps
<1>12. done \in Seq(UnitSet) /\ BlocksOf(done) = BlocksOf(units)
  <2>1. SubSeq(units, 1, N) = units BY <1>1, WholePiece
  <2> QED BY <2>1, <1>11
<1> HIDE DEF done, P, X
<1>13. CASE done = <<>> \/ HasContent(Head(done).blocks) BY <1>2, <1>12, <1>13
<1>14. CASE ~(done = <<>> \/ HasContent(Head(done).blocks)) /\ Len(done) = 1
  <2> DEFINE u == Head(done)
             one == <<u>>
  <2>1. u \in UnitSet /\ done = one BY <1>12, <1>14
  <2>2. BlocksOf(done) = u.blocks
    <3> HIDE DEF u
    <3> QED BY <2>1, BlocksOfOne
  <2>3. AttachHeadings(units) = <<>> BY <1>2, <1>14
  <2> QED BY <2>2, <2>3, <1>12, <1>14, BlocksOfNone
<1>15. CASE ~(done = <<>> \/ HasContent(Head(done).blocks)) /\ Len(done) # 1
  <2>1. AttachHeadings(units) = fused BY <1>2, <1>15
  <2>2. Len(done) \in Nat /\ Len(done) >= 2
    <3>1. done # <<>> /\ Len(done) # 1 BY <1>15
    <3>2. Len(done) \in Nat \ {0} BY <1>12, <3>1, EmptySeq
    <3>3. \A k \in Nat \ {0} : k # 1 => k \in Nat /\ k >= 2 OBVIOUS
    <3> HIDE DEF done
    <3> QED BY <3>1, <3>2, <3>3
  <2>3. done[1] \in UnitSet /\ done[2] \in UnitSet /\ 1 \in 1 .. Len(done) - 1 BY <2>2, <1>12
  <2> DEFINE all == done[1].blocks \o done[2].blocks
             w == [done[2] EXCEPT !.blocks = all]
             tail == SubSeq(done, 3, Len(done))
             head == SubSeq(done, 1, 1 - 1)
             one == <<w>>
  <2>4. all \in Seq(BlockSet)
    <3>1. done[1].blocks \in Seq(BlockSet) /\ done[2].blocks \in Seq(BlockSet) BY <2>3 DEF UnitSet
    <3> QED BY <3>1, ConcatProperties
  <2>5. w \in UnitSet /\ w.blocks = all
    <3> HIDE DEF all
    <3> QED BY <2>3, <2>4 DEF UnitSet
  <2>6. head \o one \o tail \in Seq(UnitSet) /\ BlocksOf(head \o one \o tail) = BlocksOf(done)
    <3>0. 1 + 1 = 2 OBVIOUS
    <3>1. w.blocks = done[1].blocks \o done[1 + 1].blocks BY <3>0, <2>5
    <3> HIDE DEF w
    <3>2. 1 + 2 = 3 OBVIOUS
    <3>3. /\ SubSeq(done, 1, 1 - 1) \o <<w>> \o SubSeq(done, 1 + 2, Len(done)) \in Seq(UnitSet)
          /\ BlocksOf(SubSeq(done, 1, 1 - 1) \o <<w>> \o SubSeq(done, 1 + 2, Len(done))) = BlocksOf(done)
      BY <3>1, <2>3, <2>5, <1>12, Fused
    <3> QED BY <3>2, <3>3
  <2>7. head \o one = one
    <3>1. head = <<>> BY <2>2, SubSeqEmpty
    <3>2. one \in Seq(UnitSet)
      <4> HIDE DEF w
      <4> QED BY <2>5
    <3> HIDE DEF one, head
    <3> QED BY <3>1, <3>2, ConcatEmptySeq
  <2>8. fused = one \o tail OBVIOUS
  <2> QED BY <2>1, <2>6, <2>7, <2>8, <1>12
<1> QED BY <1>13, <1>14, <1>15

\* One pass of the merging keeps the blocks in order.
LEMMA MergeFirstKeeps ==
  ASSUME NEW units \in Seq(UnitSet)
  PROVE  MergeFirst(units) \in Seq(UnitSet) /\ BlocksOf(MergeFirst(units)) = BlocksOf(units)
<1> DEFINE pairs == {i \in 1..(Len(units) - 1) : Fits(units[i], units[i + 1])}
           i == CHOOSE n \in pairs : \A k \in pairs : n <= k
<1>1. CASE pairs = {}
  <2>1. MergeFirst(units) = units BY <1>1 DEF MergeFirst
  <2> QED BY <2>1
<1>2. CASE pairs # {}
  <2>1. \E n \in pairs : \A k \in pairs : n <= k
    <3>1. pairs \subseteq Nat OBVIOUS
    <3> HIDE DEF pairs
    <3> QED BY <3>1, <1>2, Least
  <2>2. i \in pairs
    <3> HIDE DEF pairs
    <3> QED BY <2>1
  <2>3. i \in 1 .. Len(units) - 1 BY <2>2
  <2>4. MergeFirst(units) = SubSeq(units, 1, i - 1) \o <<Extended(units[i], units[i + 1].blocks)>>
                              \o SubSeq(units, i + 2, Len(units))
    BY <1>2 DEF MergeFirst
  <2> HIDE DEF i
  <2>5. units[i] \in UnitSet /\ units[i + 1] \in UnitSet BY <2>3
  <2>6. units[i + 1].blocks \in Seq(BlockSet) BY <2>5 DEF UnitSet
  <2>7. Extended(units[i], units[i + 1].blocks) \in UnitSet
        /\ Extended(units[i], units[i + 1].blocks).blocks = units[i].blocks \o units[i + 1].blocks
    BY <2>5, <2>6, ExtendedIs
  <2> QED BY <2>3, <2>4, <2>7, Fused
<1> QED BY <1>1, <1>2

\* And so do all the passes.
LEMMA MergeUnitsAre ==
  ASSUME NEW units \in Seq(UnitSet)
  PROVE  MergeUnits(units) \in Seq(UnitSet) /\ BlocksOf(MergeUnits(units)) = BlocksOf(units)
<1> DEFINE N == Len(units)
           X == Seq(UnitSet)
           step == [p \in (1..N) \X X |-> MergeFirst(p[2])]
           after == CHOOSE g : g = [n \in 0..N |-> IF n = 0 THEN units ELSE MergeFirst(g[n - 1])]
           G(g) == [n \in 0..N |-> IF n = 0 THEN units ELSE MergeFirst(g[n - 1])]
<1>1. N \in Nat /\ units \in X OBVIOUS
<1>2. MergeUnits(units) = after[N] BY DEF MergeUnits
<1> HIDE DEF N
<1>3. step \in [(1..N) \X X -> X] /\ \A n \in 1..N, x \in X : step[<<n, x>>] = MergeFirst(x)
  <2>1. \A x \in X : MergeFirst(x) \in X BY MergeFirstKeeps
  <2> HIDE DEF X
  <2> QED BY <2>1
<1> HIDE DEF step
<1>5. PICK g : Unfolds(X, N, units, step, g)
  <2> HIDE DEF X
  <2>1. \E g : Unfolds(X, N, units, step, g) BY <1>1, <1>3, Recursion
  <2> QED BY <2>1
<1>6. g = G(g)
  <2>1. g \in [0..N -> X] /\ g[0] = units /\ \A n \in 1..N : g[n] = step[<<n, g[n - 1]>>]
    BY <1>5 DEF Unfolds
  <2> HIDE DEF X
  <2>2. ASSUME NEW n \in 0..N PROVE g[n] = IF n = 0 THEN units ELSE MergeFirst(g[n - 1])
    <3>1. CASE n = 0 BY <3>1, <2>1
    <3>2. CASE n # 0
      <4>1. n \in 1..N /\ n - 1 \in 0..N BY <3>2, <1>1
      <4>2. g[n - 1] \in X BY <4>1, <2>1
      <4> QED BY <3>2, <4>1, <4>2, <2>1, <1>3
    <3> QED BY <3>1, <3>2
  <2> QED BY <2>1, <2>2
<1>7. after = G(after)
  <2>1. \E x : x = G(x) BY <1>6, Zenon
  <2> QED BY <2>1, Zenon
<1> HIDE DEF after
<1>8. after[0] = units /\ \A n \in 1..N : after[n] = MergeFirst(after[n - 1])
  <2>1. 0 \in 0..N /\ \A n \in 1..N : n \in 0..N /\ n # 0 BY <1>1
  <2> QED BY <2>1, <1>7
<1> HIDE DEF G
<1> DEFINE P == {p \in (0..N) \X X : BlocksOf(p[2]) = BlocksOf(units)}
<1>9. <<0, after[0]>> \in P BY <1>1, <1>8
<1>10. ASSUME NEW n \in 1..N, <<n - 1, after[n - 1]>> \in P PROVE <<n, after[n]>> \in P
  <2>1. after[n - 1] \in Seq(UnitSet) /\ BlocksOf(after[n - 1]) = BlocksOf(units) BY <1>10
  <2>2. after[n] \in X /\ BlocksOf(after[n]) = BlocksOf(units) BY <2>1, <1>8, MergeFirstKeeps
  <2> HIDE DEF X
  <2> QED BY <2>2, <1>1
<1>11. <<N, after[N]>> \in P
  <2> HIDE DEF P
  <2> QED BY <1>1, <1>9, <1>10, Steps
<1> QED BY <1>2, <1>11

\* Attaching and merging lose nothing of a page with content.
LEMMA BuildUnitsAre ==
  ASSUME NEW blocks \in Seq(BlockSet)
  PROVE  /\ BuildUnits(blocks) \in Seq(UnitSet)
         /\ HasContent(blocks) => BlocksOf(BuildUnits(blocks)) = blocks
<1> DEFINE raw == RawUnits(blocks)
           attached == AttachHeadings(raw)
<1>1. raw \in Seq(UnitSet) /\ BlocksOf(raw) = blocks BY RawUnitsAre
<1>0. BuildUnits(blocks) = MergeUnits(attached) BY DEF BuildUnits
<1>2. attached \in Seq(UnitSet) /\ (HasContent(BlocksOf(raw)) => BlocksOf(attached) = BlocksOf(raw))
  <2> HIDE DEF raw
  <2> QED BY <1>1, AttachHeadingsAre
<1> HIDE DEF raw, attached
<1>3. MergeUnits(attached) \in Seq(UnitSet) /\ BlocksOf(MergeUnits(attached)) = BlocksOf(attached)
  BY <1>2, MergeUnitsAre
<1> QED BY <1>0, <1>1, <1>2, <1>3

-----------------------------------------------------------------------------
(* The words of parts, and of parts of parts.                               *)

\* What parts tell when they are read one after the other.
ReadIn == [p \in Seq(BlockSet) |-> WordsOf(p)]
ReadOf(ps) == Mapped(ReadIn, ps)
ReadsIn == [ps \in Seq(Seq(BlockSet)) |-> ReadOf(ps)]

\* The words of a part are a sequence of pairs.
LEMMA ReadInMakes == Makes(ReadIn, Seq(BlockSet), WordSet)
<1>1. \A p \in Seq(BlockSet) : WordsOf(p) \in Seq(WordSet) BY WordsOfIs
<1> QED BY <1>1 DEF Makes, ReadIn

\* ReadOf joins the words of the parts.
LEMMA ReadOfIs ==
  ASSUME NEW ps \in Seq(Seq(BlockSet))
  PROVE  /\ ReadOf(ps) = FlattenSeq([i \in 1..Len(ps) |-> WordsOf(ps[i])])
         /\ ReadOf(ps) \in Seq(WordSet)
<1>1. \A i \in 1..Len(ps) : ps[i] \in Seq(BlockSet) OBVIOUS
<1>2. \A i \in 1..Len(ps) : ReadIn[ps[i]] = WordsOf(ps[i]) BY <1>1 DEF ReadIn
<1>3. [i \in 1..Len(ps) |-> ReadIn[ps[i]]] = [i \in 1..Len(ps) |-> WordsOf(ps[i])] BY <1>2
<1>4. MapsTo(ReadIn, ps, WordSet, Maps(ReadIn, ps)) BY ReadInMakes, MapsAre
<1>5. Mapped(ReadIn, ps) = FlattenSeq([i \in 1..Len(ps) |-> WordsOf(ps[i])]) BY <1>3 DEF Mapped
<1> QED BY <1>4, <1>5 DEF MapsTo, ReadOf

\* One part reads as its words.
LEMMA ReadOfOne ==
  ASSUME NEW p \in Seq(BlockSet)
  PROVE  <<p>> \in Seq(Seq(BlockSet)) /\ ReadOf(<<p>>) = WordsOf(p) /\ WordsOf(p) \in Seq(WordSet)
<1>1. ReadOf(<<p>>) = ReadIn[p] BY ReadInMakes, MappedOne DEF ReadOf
<1>2. <<p>> \in Seq(Seq(BlockSet))
  <2> DEFINE X == Seq(BlockSet)
  <2>1. p \in X OBVIOUS
  <2> HIDE DEF X
  <2>2. <<p>> \in Seq(X) BY <2>1
  <2> QED BY <2>2 DEF X
<1> QED BY <1>1, <1>2, WordsOfIs DEF ReadIn

\* Reading parts is reading the blocks they join to.
LEMMA ReadFlat ==
  ASSUME NEW ps \in Seq(Seq(BlockSet))
  PROVE  FlattenSeq(ps) \in Seq(BlockSet) /\ WordsOf(FlattenSeq(ps)) = ReadOf(ps)
<1>1. FlattenSeq(ps) \in Seq(BlockSet)
  <2>1. <<>> \in Seq(BlockSet) OBVIOUS
  <2> QED BY <2>1, FlatAppend
<1>2. \A p \in Seq(BlockSet) : ReadIn[p] = Mapped(WordsIn, p) BY WordsOfIs DEF ReadIn
<1>3. Mapped(WordsIn, FlattenSeq(ps)) = Mapped(ReadIn, ps)
  BY <1>2, WordsInMakes, ReadInMakes, MappedFlat
<1> QED BY <1>1, <1>3, WordsOfIs DEF ReadOf

\* The words of parts are a sequence of pairs.
LEMMA ReadsInMakes == Makes(ReadsIn, Seq(Seq(BlockSet)), WordSet)
<1>1. \A ps \in Seq(Seq(BlockSet)) : ReadOf(ps) \in Seq(WordSet) BY ReadOfIs
<1> QED BY <1>1 DEF Makes, ReadsIn

\* Parts of parts read as the parts.
LEMMA ReadsFlat ==
  ASSUME NEW pss \in Seq(Seq(Seq(BlockSet)))
  PROVE  /\ FlattenSeq(pss) \in Seq(Seq(BlockSet)) /\ ReadOf(FlattenSeq(pss)) = Mapped(ReadsIn, pss)
<1> DEFINE X == Seq(BlockSet)
<1>1. FlattenSeq(pss) \in Seq(X)
  <2>1. pss \in Seq(Seq(X)) OBVIOUS
  <2> HIDE DEF X
  <2>2. <<>> \in Seq(X) OBVIOUS
  <2> QED BY <2>1, <2>2, FlatAppend
<1>2. \A ps \in Seq(X) : ReadsIn[ps] = Mapped(ReadIn, ps) BY DEF ReadsIn, ReadOf
<1>3. Mapped(ReadIn, FlattenSeq(pss)) = Mapped(ReadsIn, pss)
  <2>1. pss \in Seq(Seq(X)) /\ Makes(ReadIn, X, WordSet) /\ Makes(ReadsIn, Seq(X), WordSet)
    BY ReadInMakes, ReadsInMakes
  <2> HIDE DEF X
  <2> QED BY <2>1, <1>2, MappedFlat
<1> QED BY <1>1, <1>3 DEF ReadOf

\* Parts each cut in ways that read the same read the same together.
LEMMA CutAll ==
  ASSUME NEW pss \in Seq(Seq(Seq(BlockSet))), NEW ps \in Seq(Seq(BlockSet)), Len(pss) = Len(ps),
         \A i \in 1..Len(ps) : ReadsAs(ReadOf(pss[i]), WordsOf(ps[i]))
  PROVE  ReadsAs(ReadOf(FlattenSeq(pss)), WordsOf(FlattenSeq(ps)))
<1> DEFINE X == Seq(Seq(BlockSet))
           Y == Seq(BlockSet)
           a == Maps(ReadsIn, pss)
           b == Maps(ReadIn, ps)
<1>1. MapsTo(ReadsIn, pss, WordSet, a)
  <2>1. pss \in Seq(X) /\ Makes(ReadsIn, X, WordSet) BY ReadsInMakes
  <2> HIDE DEF X
  <2> QED BY <2>1, MapsAre
<1>2. MapsTo(ReadIn, ps, WordSet, b)
  <2>1. ps \in Seq(Y) /\ Makes(ReadIn, Y, WordSet) BY ReadInMakes
  <2> HIDE DEF Y
  <2> QED BY <2>1, MapsAre
<1> HIDE DEF a, b
<1>3. a \in Seq(Seq(WordSet)) /\ b \in Seq(Seq(WordSet)) /\ Len(a) = Len(b) /\ Len(a) = Len(ps)
  BY <1>1, <1>2 DEF MapsTo
<1>4. ASSUME NEW i \in 1..Len(ps) PROVE ReadsAs(a[i], b[i])
  <2>1. a[i] = ReadsIn[pss[i]] /\ b[i] = ReadIn[ps[i]] BY <1>1, <1>2 DEF MapsTo
  <2>2. pss[i] \in X /\ ps[i] \in Y
    <3>1. pss \in Seq(X) /\ ps \in Seq(Y) OBVIOUS
    <3> HIDE DEF X, Y
    <3> QED BY <3>1
  <2>3. a[i] = ReadOf(pss[i]) /\ b[i] = WordsOf(ps[i]) BY <2>1, <2>2 DEF ReadsIn, ReadIn
  <2> QED BY <2>3
<1>5. ReadsAs(FlattenSeq(a), FlattenSeq(b)) BY <1>3, <1>4, ReadsAll
<1>6. FlattenSeq(a) = ReadOf(FlattenSeq(pss)) BY <1>1, ReadsFlat DEF MapsTo
<1>7. FlattenSeq(b) = WordsOf(FlattenSeq(ps)) BY <1>2, ReadFlat DEF MapsTo, ReadOf
<1> QED BY <1>5, <1>6, <1>7

-----------------------------------------------------------------------------
(* Splitting: the sentences of a text and its overlap.                      *)

\* The sentences of a text are the text, in order.
TakenSet == [done : Seq(Seq(Nat)), open : Seq(Nat)]
Taken(s) == FlattenSeq(s.done) \o s.open

\* A word taken is added at the end.
LEMMA TakeWordKeeps ==
  ASSUME NEW s \in TakenSet, NEW w \in Nat
  PROVE  TakeWord(s, w) \in TakenSet /\ Taken(TakeWord(s, w)) = Append(Taken(s), w)
<1> DEFINE done == s.done
           open == s.open
           X == Seq(Nat)
           more == Append(open, w)
           before == FlattenSeq(done)
<1>1. done \in Seq(X) /\ open \in X BY DEF TakenSet
<1>2. more \in X
  <2> HIDE DEF open
  <2> QED BY <1>1
<1>3. before \in X
  <2> HIDE DEF done
  <2>1. <<>> \in Seq(Nat) OBVIOUS
  <2> QED BY <1>1, <2>1, FlatAppend
<1>w. Taken(s) = before \o open BY DEF Taken
<1>4. before \o more = Append(before \o open, w)
  <2> HIDE DEF before, open
  <2> QED BY <1>1, <1>3, Behind
<1>5. CASE w = Mark
  <2> DEFINE all == Append(done, more)
             none == <<>>
  <2>1. TakeWord(s, w) = [done |-> all, open |-> none] BY <1>5 DEF TakeWord
  <2>2. all \in Seq(X) /\ none \in X
    <3>1. none \in X OBVIOUS
    <3> HIDE DEF done, more, X
    <3> QED BY <3>1, <1>1, <1>2
  <2>3. FlattenSeq(all) = before \o more
    <3>1. done \in Seq(Seq(Nat)) /\ more \in Seq(Nat) BY <1>1, <1>2
    <3> HIDE DEF done, more
    <3> QED BY <3>1, FlatAppend
  <2>4. TakeWord(s, w) \in TakenSet
    <3> HIDE DEF all, none
    <3> QED BY <2>1, <2>2 DEF TakenSet
  <2>5. Taken(TakeWord(s, w)) = FlattenSeq(all) \o none BY <2>1 DEF Taken
  <2>6. FlattenSeq(all) \o none = FlattenSeq(all)
    <3>1. FlattenSeq(all) \in Seq(Nat)
      <4> HIDE DEF all
      <4>1. <<>> \in Seq(Nat) OBVIOUS
      <4> QED BY <2>2, <4>1, FlatAppend
    <3> QED BY <3>1, ConcatEmptySeq
  <2> QED BY <2>3, <2>4, <2>5, <2>6, <1>4, <1>w
<1>6. CASE w # Mark
  <2>1. TakeWord(s, w) = [done |-> done, open |-> more]
    <3>1. TakeWord(s, w) = [s EXCEPT !.open = Append(@, w)] BY <1>6 DEF TakeWord
    <3> QED BY <3>1 DEF TakenSet
  <2>2. TakeWord(s, w) \in TakenSet
    <3> HIDE DEF done, more
    <3> QED BY <2>1, <1>1, <1>2 DEF TakenSet
  <2>3. Taken(TakeWord(s, w)) = before \o more
    <3>1. TakeWord(s, w).done = done /\ TakeWord(s, w).open = more BY <2>1
    <3> QED BY <3>1 DEF Taken
  <2> QED BY <2>2, <2>3, <1>4, <1>w
<1> QED BY <1>5, <1>6

\* The sentences of a text are the text.
LEMMA SentencesAre ==
  ASSUME NEW txt \in Seq(Nat)
  PROVE  Sentences(txt) \in Seq(Seq(Nat)) /\ FlattenSeq(Sentences(txt)) = txt
<1> DEFINE N == Len(txt)
           base == [done |-> <<>>, open |-> <<>>]
           step == [p \in (1..N) \X TakenSet |-> TakeWord(p[2], txt[p[1]])]
           after == CHOOSE g : g = [n \in 0..N |-> IF n = 0 THEN [done |-> <<>>, open |-> <<>>]
                                                   ELSE TakeWord(g[n - 1], txt[n])]
           G(g) == [n \in 0..N |-> IF n = 0 THEN base ELSE TakeWord(g[n - 1], txt[n])]
<1>1. N \in Nat /\ N = Len(txt) /\ \A n \in 1..N : txt[n] \in Nat OBVIOUS
<1>2. Sentences(txt) = IF after[N].open = <<>> THEN after[N].done ELSE Append(after[N].done, after[N].open)
  BY DEF Sentences
<1>0. base \in TakenSet /\ Taken(base) = <<>>
  <2>1. <<>> \o <<>> = <<>> OBVIOUS
  <2> QED BY <2>1, FlatNone DEF TakenSet, Taken
<1> HIDE DEF N
<1>3. step \in [(1..N) \X TakenSet -> TakenSet]
      /\ \A n \in 1..N, x \in TakenSet : step[<<n, x>>] = TakeWord(x, txt[n])
  <2>1. \A n \in 1..N, x \in TakenSet : TakeWord(x, txt[n]) \in TakenSet BY <1>1, TakeWordKeeps
  <2> QED BY <2>1
<1> HIDE DEF step
<1>5. PICK g : Unfolds(TakenSet, N, base, step, g)
  <2> HIDE DEF base
  <2>1. \E g : Unfolds(TakenSet, N, base, step, g) BY <1>0, <1>1, <1>3, Recursion
  <2> QED BY <2>1
<1>6. g = G(g)
  <2>1. g \in [0..N -> TakenSet] /\ g[0] = base /\ \A n \in 1..N : g[n] = step[<<n, g[n - 1]>>]
    BY <1>5 DEF Unfolds
  <2> HIDE DEF base
  <2>2. ASSUME NEW n \in 0..N PROVE g[n] = IF n = 0 THEN base ELSE TakeWord(g[n - 1], txt[n])
    <3>1. CASE n = 0 BY <3>1, <2>1
    <3>2. CASE n # 0
      <4>1. n \in 1..N /\ n - 1 \in 0..N BY <3>2, <1>1
      <4>2. g[n - 1] \in TakenSet BY <4>1, <2>1
      <4> QED BY <3>2, <4>1, <4>2, <2>1, <1>3
    <3> QED BY <3>1, <3>2
  <2> QED BY <2>1, <2>2
<1>7. after = G(after)
  <2>1. \E x : x = G(x) BY <1>6, Zenon
  <2> QED BY <2>1, Zenon
<1> HIDE DEF after
<1>8. after[0] = base /\ \A n \in 1..N : after[n] = TakeWord(after[n - 1], txt[n])
  <2>1. 0 \in 0..N /\ \A n \in 1..N : n \in 0..N /\ n # 0 BY <1>1
  <2> HIDE DEF base
  <2> QED BY <2>1, <1>7
<1> HIDE DEF G, base
<1> DEFINE Good(n, s) == s \in TakenSet /\ Taken(s) = SubSeq(txt, 1, n)
           P == {p \in (0..N) \X TakenSet : Good(p[1], p[2])}
<1>9. <<0, after[0]>> \in P
  <2>1. SubSeq(txt, 1, 0) = <<>> BY SubSeqEmpty
  <2>2. Good(0, after[0]) BY <2>1, <1>0, <1>8
  <2>3. <<0, after[0]>> \in (0..N) \X TakenSet BY <1>0, <1>1, <1>8
  <2> QED BY <2>2, <2>3
<1>10. ASSUME NEW n \in 1..N, <<n - 1, after[n - 1]>> \in P PROVE <<n, after[n]>> \in P
  <2>1. n - 1 \in Nat /\ n - 1 < Len(txt) /\ n \in 0..N /\ (n - 1) + 1 = n BY <1>1
  <2>2. after[n - 1] \in TakenSet /\ Taken(after[n - 1]) = SubSeq(txt, 1, n - 1) BY <1>10
  <2>3. SubSeq(txt, 1, (n - 1) + 1) = Append(SubSeq(txt, 1, n - 1), txt[(n - 1) + 1])
    BY <2>1, PrefixGrows
  <2>4. txt[n] \in Nat BY <1>1
  <2>5. after[n] \in TakenSet /\ Taken(after[n]) = Append(Taken(after[n - 1]), txt[n])
    BY <2>2, <2>4, <1>8, TakeWordKeeps
  <2> QED BY <2>1, <2>2, <2>3, <2>5
<1>11. <<N, after[N]>> \in P
  <2> HIDE DEF P
  <2> QED BY <1>1, <1>9, <1>10, Steps
<1>12. after[N] \in TakenSet /\ Taken(after[N]) = txt
  <2>1. SubSeq(txt, 1, N) = txt BY <1>1, WholePiece
  <2> QED BY <2>1, <1>11
<1> DEFINE done == after[N].done
           open == after[N].open
<1>13. done \in Seq(Seq(Nat)) /\ open \in Seq(Nat) /\ txt = FlattenSeq(done) \o open
  BY <1>12 DEF TakenSet, Taken
<1>14. Sentences(txt) = IF open = <<>> THEN done ELSE Append(done, open) BY <1>2
<1> HIDE DEF done, open
<1>15. CASE open = <<>>
  <2>1. FlattenSeq(done) \in Seq(Nat) BY <1>13, FlatAppend
  <2>2. FlattenSeq(done) \o open = FlattenSeq(done) BY <1>15, <2>1, ConcatEmptySeq
  <2> QED BY <1>13, <1>14, <1>15, <2>2
<1>16. CASE open # <<>>
  <2>1. FlattenSeq(Append(done, open)) = FlattenSeq(done) \o open BY <1>13, FlatAppend
  <2>2. Append(done, open) \in Seq(Seq(Nat))
    <3> DEFINE X == Seq(Nat)
    <3>1. done \in Seq(X) /\ open \in X BY <1>13
    <3> HIDE DEF X
    <3>2. Append(done, open) \in Seq(X) BY <3>1
    <3> QED BY <3>2 DEF X
  <2> QED BY <1>13, <1>14, <1>16, <2>1, <2>2
<1> QED BY <1>15, <1>16

\* An overlap is of the text.
LEMMA TailOverlapIs ==
  ASSUME NEW txt \in Seq(Nat)
  PROVE  TailOverlap(txt) \in Seq(Nat) /\ ToSet(TailOverlap(txt)) \subseteq ToSet(txt)
<1> DEFINE n == Len(txt)
           a == IF n > 2 * Overlap THEN n - 2 * Overlap + 1 ELSE 1
           window == SubSeq(txt, a, n)
           marks == {i \in 1..Len(window) : window[i] = Mark}
           i == CHOOSE x \in marks : \A k \in marks : k <= x
<1>0. n \in Nat /\ Overlap \in Nat /\ 2 * Overlap \in Nat BY ChunkerAssumption
<1>1. a \in Nat \ {0} /\ a <= n + 1 BY <1>0
<1>2. TailOverlap(txt) = IF marks = {} THEN window ELSE SubSeq(window, i, Len(window))
  BY DEF TailOverlap
<1> HIDE DEF a
<1>3. ASSUME NEW s \in Seq(Nat), NEW b \in Nat \ {0}, b <= Len(s) + 1
      PROVE  SubSeq(s, b, Len(s)) \in Seq(Nat) /\ ToSet(SubSeq(s, b, Len(s))) \subseteq ToSet(s)
  <2> DEFINE m == Len(s)
             t == SubSeq(s, b, m)
  <2>1. m \in Nat /\ DOMAIN s = 1..m OBVIOUS
  <2>2. t \in Seq(Nat) /\ Len(t) = (m - b) + 1 /\ \A k \in 1 .. (m - b) + 1 : t[k] = s[(b + k) - 1]
    BY <2>1, <1>3, PieceIs
  <2>3. \A k \in 1 .. (m - b) + 1 : (b + k) - 1 \in 1..m BY <2>1, <1>3
  <2> HIDE DEF m, t
  <2>4. DOMAIN t = 1 .. (m - b) + 1 BY <2>2
  <2>5. ToSet(t) \subseteq ToSet(s)
    <3> SUFFICES ASSUME NEW x \in ToSet(t) PROVE x \in ToSet(s) OBVIOUS
    <3>1. PICK k \in 1 .. (m - b) + 1 : x = t[k] BY <2>4 DEF ToSet
    <3>2. (b + k) - 1 \in DOMAIN s /\ x = s[(b + k) - 1] BY <2>1, <2>2, <2>3, <3>1
    <3> QED BY <3>2 DEF ToSet
  <2> QED BY <2>2, <2>5 DEF m, t
<1>4. window \in Seq(Nat) /\ ToSet(window) \subseteq ToSet(txt) BY <1>1, <1>3
<1> HIDE DEF window
<1>5. CASE marks = {} BY <1>2, <1>4, <1>5
<1>6. CASE marks # {}
  <2> DEFINE l == Len(window)
  <2>1. l \in Nat /\ marks \subseteq 0..l BY <1>4
  <2>2. \E x \in marks : \A k \in marks : k <= x
    <3> HIDE DEF marks, l
    <3>1. Max(marks) \in marks /\ \A y \in marks : Max(marks) >= y BY <2>1, <1>6, MaxIs
    <3>2. \A y \in marks : y <= Max(marks)
      <4>1. \A x \in 0..l, y \in 0..l : x >= y => y <= x BY <2>1
      <4> QED BY <4>1, <3>1, <2>1
    <3> QED BY <3>1, <3>2
  <2>3. i \in marks
    <3> HIDE DEF marks
    <3> QED BY <2>2
  <2>4. i \in Nat \ {0} /\ i <= Len(window) + 1
    <3>1. i \in 1..l BY <2>3
    <3> HIDE DEF i, l
    <3>2. i \in Nat \ {0} /\ i <= l + 1 BY <2>1, <3>1
    <3> QED BY <3>2 DEF l
  <2> HIDE DEF i, marks
  <2>5. SubSeq(window, i, Len(window)) \in Seq(Nat) /\ ToSet(SubSeq(window, i, Len(window))) \subseteq ToSet(window)
    BY <2>4, <1>3, <1>4
  <2> QED BY <2>5, <1>2, <1>4, <1>6
<1> QED BY <1>5, <1>6

-----------------------------------------------------------------------------
(* The pieces of a text read as the text.                                   *)

\* What texts tell of the block id.
TextIn(id) == [t \in Seq(Nat) |-> PairsOf(id, Words(t))]
Tell(id, ts) == Mapped(TextIn(id), ts)

\* The words of a piece are a sequence of pairs.
LEMMA TextInMakes ==
  ASSUME NEW id \in Nat
  PROVE  Makes(TextIn(id), Seq(Nat), WordSet)
<1>1. ASSUME NEW t \in Seq(Nat) PROVE PairsOf(id, Words(t)) \in Seq(WordSet)
  <2>1. Words(t) \in Seq(Nat) BY WordsAre
  <2> QED BY <2>1, WordPairsAre
<1> QED BY <1>1 DEF Makes, TextIn

\* One piece more tells its words.
LEMMA TellAppend ==
  ASSUME NEW id \in Nat, NEW ts \in Seq(Seq(Nat)), NEW t \in Seq(Nat)
  PROVE  /\ Append(ts, t) \in Seq(Seq(Nat)) /\ Tell(id, ts) \in Seq(WordSet)
         /\ PairsOf(id, Words(t)) \in Seq(WordSet)
         /\ Tell(id, Append(ts, t)) = Tell(id, ts) \o PairsOf(id, Words(t))
<1> DEFINE X == Seq(Nat)
<1>1. Makes(TextIn(id), X, WordSet) /\ ts \in Seq(X) /\ t \in X BY TextInMakes
<1>2. TextIn(id)[t] = PairsOf(id, Words(t)) /\ PairsOf(id, Words(t)) \in Seq(WordSet)
  <2>1. Words(t) \in Seq(Nat) BY WordsAre
  <2> QED BY <2>1, WordPairsAre DEF TextIn
<1> HIDE DEF X
<1>3. MapsTo(TextIn(id), ts, WordSet, Maps(TextIn(id), ts)) BY <1>1, MapsAre
<1>4. Append(ts, t) \in Seq(X) BY <1>1
<1>5. Mapped(TextIn(id), Append(ts, t)) = Mapped(TextIn(id), ts) \o TextIn(id)[t]
  BY <1>1, MappedAppend
<1> QED BY <1>2, <1>3, <1>4, <1>5 DEF MapsTo, Tell, X

\* The pairs of the words of two texts.
LEMMA PairsOfConcat ==
  ASSUME NEW id \in Nat, NEW s \in Seq(Nat), NEW t \in Seq(Nat)
  PROVE  /\ PairsOf(id, Words(s \o t)) = PairsOf(id, Words(s)) \o PairsOf(id, Words(t))
         /\ PairsOf(id, Words(s)) \in Seq(WordSet) /\ PairsOf(id, Words(t)) \in Seq(WordSet)
<1>1. Words(s) \in Seq(Nat) /\ Words(t) \in Seq(Nat) BY WordsAre
<1>2. Words(s \o t) = Words(s) \o Words(t) BY WordsConcat
<1>3. PairsOf(id, Words(s) \o Words(t)) = PairsOf(id, Words(s)) \o PairsOf(id, Words(t))
  BY <1>1, PairsConcat
<1> QED BY <1>1, <1>2, <1>3, WordPairsAre

\* Texts tell what they join to tells.
LEMMA TellFlat ==
  ASSUME NEW id \in Nat, NEW ts \in Seq(Seq(Nat))
  PROVE  Tell(id, ts) = PairsOf(id, Words(FlattenSeq(ts))) /\ FlattenSeq(ts) \in Seq(Nat)
<1> DEFINE X == Seq(Nat)
           P == {us \in Seq(X) : Tell(id, us) = PairsOf(id, Words(FlattenSeq(us)))}
           none == <<>>
<1>1. none \in P
  <2>1. none \in Seq(X) OBVIOUS
  <2>2. PairsOf(id, none) = none BY DEF PairsOf
  <2>3. Tell(id, none) = none BY MappedNone DEF Tell
  <2> QED BY <2>1, <2>2, <2>3, FlatNone, WordsNone
<1>2. ASSUME NEW us \in Seq(X), NEW t \in X, us \in P PROVE Append(us, t) \in P
  <2>1. us \in Seq(Seq(Nat)) /\ t \in Seq(Nat) OBVIOUS
  <2>2. Append(us, t) \in Seq(X) /\ Tell(id, Append(us, t)) = Tell(id, us) \o PairsOf(id, Words(t))
    BY <2>1, TellAppend
  <2>3. FlattenSeq(us) \in Seq(Nat) /\ FlattenSeq(Append(us, t)) = FlattenSeq(us) \o t
    BY <2>1, FlatAppend
  <2>4. PairsOf(id, Words(FlattenSeq(us) \o t)) = PairsOf(id, Words(FlattenSeq(us))) \o PairsOf(id, Words(t))
    <3> DEFINE f == FlattenSeq(us)
    <3>1. f \in Seq(Nat) BY <2>3
    <3> HIDE DEF f
    <3>2. PairsOf(id, Words(f \o t)) = PairsOf(id, Words(f)) \o PairsOf(id, Words(t))
      BY <2>1, <3>1, PairsOfConcat
    <3> QED BY <3>2 DEF f
  <2> QED BY <1>2, <2>2, <2>3, <2>4
<1>3. Seq(X) \subseteq P
  <2> HIDE DEF P, X
  <2> QED BY <1>1, <1>2, SeqGrows DEF none
<1>4. FlattenSeq(ts) \in Seq(Nat)
  <2>1. <<>> \in Seq(Nat) OBVIOUS
  <2> QED BY <2>1, FlatAppend
<1> QED BY <1>3, <1>4

\* The words of a text that is of another are of it.
LEMMA PairsSubset ==
  ASSUME NEW id \in Nat, NEW s \in Seq(Nat), NEW t \in Seq(Nat), ToSet(s) \subseteq ToSet(t)
  PROVE  ToSet(PairsOf(id, Words(s))) \subseteq ToSet(PairsOf(id, Words(t)))
<1> DEFINE v == Words(s)
           w == Words(t)
<1>1. v \in Seq(Nat) /\ w \in Seq(Nat) BY WordsAre
<1>2. ASSUME NEW x \in ToSet(v) PROVE x \in ToSet(w)
  <2>1. PICK i \in 1..Len(s) : s[i] # Mark /\ x = s[i] BY WordsRange
  <2>2. x \in ToSet(s) BY <2>1 DEF ToSet
  <2>3. x \in ToSet(t) BY <2>2
  <2>4. PICK k \in 1..Len(t) : x = t[k] BY <2>3 DEF ToSet
  <2> QED BY <2>1, <2>4, WordsRange
<1> HIDE DEF v, w
<1>3. Len(PairsOf(id, v)) = Len(v) /\ (\A k \in 1..Len(v) : PairsOf(id, v)[k] = <<id, v[k]>>)
      /\ PairsOf(id, v) \in Seq(WordSet)
  BY <1>1, WordPairsAre
<1>4. Len(PairsOf(id, w)) = Len(w) /\ (\A k \in 1..Len(w) : PairsOf(id, w)[k] = <<id, w[k]>>)
      /\ PairsOf(id, w) \in Seq(WordSet)
  BY <1>1, WordPairsAre
<1>5. ToSet(PairsOf(id, v)) = {<<id, v[k]>> : k \in 1..Len(v)}
  <2>1. DOMAIN PairsOf(id, v) = 1..Len(v) BY <1>3
  <2> QED BY <2>1, <1>3 DEF ToSet
<1>6. ToSet(PairsOf(id, w)) = {<<id, w[k]>> : k \in 1..Len(w)}
  <2>1. DOMAIN PairsOf(id, w) = 1..Len(w) BY <1>4
  <2> QED BY <2>1, <1>4 DEF ToSet
<1>7. ASSUME NEW k \in 1..Len(v) PROVE \E l \in 1..Len(w) : v[k] = w[l]
  <2>1. v[k] \in ToSet(v) BY <1>1 DEF ToSet
  <2>2. v[k] \in ToSet(w) BY <2>1, <1>2
  <2>3. DOMAIN w = 1..Len(w) BY <1>1
  <2> QED BY <2>2, <2>3 DEF ToSet
<1> QED BY <1>5, <1>6, <1>7 DEF v, w

\* Pieces tell a text, some of it twice.
PieceSet == [pieces : Seq(Seq(Nat)), current : Seq(Nat)]
Told(id, s) == Tell(id, s.pieces) \o PairsOf(id, Words(s.current))

\* A sentence taken is told after what the pieces told, with the overlap or without it.
LEMMA TakeSentenceTells ==
  ASSUME NEW id \in Nat, NEW s \in PieceSet, NEW sentence \in Seq(Nat), NEW overlaps \in BOOLEAN,
         NEW w \in Seq(WordSet), ReadsAs(Told(id, s), w)
  PROVE  /\ TakeSentence(s, sentence, overlaps) \in PieceSet
         /\ ReadsAs(Told(id, TakeSentence(s, sentence, overlaps)), w \o PairsOf(id, Words(sentence)))
<1> DEFINE pieces == s.pieces
           current == s.current
           next == TakeSentence(s, sentence, overlaps)
           over == IF overlaps THEN TailOverlap(current) ELSE <<>>
           told == Told(id, s)
           anew == PairsOf(id, Words(sentence))
           again == PairsOf(id, Words(over))
           last == PairsOf(id, Words(current))
           before == Tell(id, pieces)
<1>1. pieces \in Seq(Seq(Nat)) /\ current \in Seq(Nat) BY DEF PieceSet
<1> HIDE DEF pieces, current
<1>2. over \in Seq(Nat) /\ ToSet(over) \subseteq ToSet(current)
  <2>1. CASE overlaps BY <2>1, <1>1, TailOverlapIs
  <2>2. CASE ~overlaps
    <3>1. over = <<>> BY <2>2
    <3>2. ToSet(<<>>) = {} BY DEF ToSet
    <3>3. <<>> \in Seq(Nat) OBVIOUS
    <3> HIDE DEF over
    <3> QED BY <3>1, <3>2, <3>3
  <2> QED BY <2>1, <2>2
<1>3. told = before \o last BY DEF Told, pieces, current
<1>4. CASE current # <<>> /\ Len(Words(current)) + Len(Words(sentence)) > MaxTokens
  <2> DEFINE all == Append(pieces, current)
             then == over \o sentence
  <2>1. next = [pieces |-> all, current |-> then]
    BY <1>4 DEF TakeSentence, pieces, current
  <2> HIDE DEF over
  <2>2. all \in Seq(Seq(Nat)) /\ Tell(id, all) = told /\ told \in Seq(WordSet)
    <3>1. all \in Seq(Seq(Nat)) /\ Tell(id, all) = before \o last /\ before \in Seq(WordSet) /\ last \in Seq(WordSet)
      BY <1>1, TellAppend
    <3> HIDE DEF before, last, told
    <3> QED BY <3>1, <1>3, ConcatProperties
  <2>3. then \in Seq(Nat) BY <1>2, ConcatProperties
  <2>4. PairsOf(id, Words(then)) = again \o anew /\ again \in Seq(WordSet) /\ anew \in Seq(WordSet)
    BY <1>2, PairsOfConcat
  <2>5. Told(id, next) = told \o (again \o anew)
    <3>1. next.pieces = all /\ next.current = then BY <2>1
    <3> QED BY <3>1, <2>2, <2>4 DEF Told
  <2>6. ToSet(again) \subseteq ToSet(w)
    <3>1. ToSet(again) \subseteq ToSet(last) BY <1>1, <1>2, PairsSubset
    <3>2. ToSet(before \o last) = ToSet(before) \cup ToSet(last)
      <4>1. before \in Seq(WordSet) /\ last \in Seq(WordSet) BY <1>1, TellAppend
      <4> HIDE DEF before, last
      <4> QED BY <4>1, SetConcat
    <3>3. ToSet(told) = ToSet(w) BY DEF ReadsAs
    <3> QED BY <3>1, <3>2, <3>3, <1>3
  <2>7. next \in PieceSet
    <3> HIDE DEF all, then
    <3> QED BY <2>1, <2>2, <2>3 DEF PieceSet
  <2> HIDE DEF told, again, anew, next
  <2>8. ReadsAs(told, w) BY DEF told
  <2>9. ReadsAs(told \o again, w) /\ told \o again \in Seq(WordSet)
    BY <2>2, <2>4, <2>6, <2>8, ReadsOver, ConcatProperties
  <2>10. ReadsAs(anew, anew) BY <2>4, ReadsSame
  <2>11. ReadsAs((told \o again) \o anew, w \o anew)
    <3> DEFINE x == told \o again
    <3>1. x \in Seq(WordSet) /\ ReadsAs(x, w) BY <2>9
    <3> HIDE DEF x
    <3>2. ReadsAs(x \o anew, w \o anew) BY <3>1, <2>4, <2>10, ReadsConcat
    <3> QED BY <3>2 DEF x
  <2>12. (told \o again) \o anew = told \o (again \o anew)
    BY <2>2, <2>4, ConcatAssociative, SMTT(30)
  <2> QED BY <2>5, <2>7, <2>11, <2>12 DEF next, anew
<1>5. CASE ~(current # <<>> /\ Len(Words(current)) + Len(Words(sentence)) > MaxTokens)
  <2> DEFINE then == current \o sentence
  <2>1. next = [pieces |-> pieces, current |-> then]
    <3>1. next = [s EXCEPT !.current = @ \o sentence] BY <1>5 DEF TakeSentence, current
    <3> QED BY <3>1 DEF PieceSet, pieces, current
  <2>2. before \in Seq(WordSet) /\ last \in Seq(WordSet) BY <1>1, TellAppend
  <2>3. then \in Seq(Nat) BY <1>1, ConcatProperties
  <2>4. PairsOf(id, Words(then)) = last \o anew /\ anew \in Seq(WordSet) BY <1>1, PairsOfConcat
  <2>5. Told(id, next) = before \o (last \o anew)
    <3>1. next.pieces = pieces /\ next.current = then BY <2>1
    <3> QED BY <3>1, <2>4 DEF Told
  <2>6. next \in PieceSet
    <3> HIDE DEF then
    <3> QED BY <2>1, <2>3, <1>1 DEF PieceSet
  <2>7. told \in Seq(WordSet)
    <3> HIDE DEF told, before, last
    <3> QED BY <2>2, <1>3, ConcatProperties
  <2> HIDE DEF told, anew, next, before, last
  <2>8. ReadsAs(told, w) BY DEF told
  <2>9. ReadsAs(anew, anew) BY <2>4, ReadsSame
  <2>10. ReadsAs(told \o anew, w \o anew) BY <2>4, <2>7, <2>8, <2>9, ReadsConcat
  <2>11. (before \o last) \o anew = before \o (last \o anew)
    <3>1. before \in Seq(WordSet) /\ last \in Seq(WordSet) /\ anew \in Seq(WordSet) BY <2>2, <2>4
    <3> QED BY <3>1, ConcatAssociative, SMTT(30)
  <2> QED BY <2>5, <2>6, <2>10, <2>11, <1>3 DEF next, anew
<1> QED BY <1>4, <1>5

\* The pieces of a text read as the text.
LEMMA PiecesAre ==
  ASSUME NEW txt \in Seq(Nat), NEW overlaps \in BOOLEAN, NEW id \in Nat
  PROVE  /\ Pieces(txt, overlaps) \in Seq(Seq(Nat)) /\ Len(Pieces(txt, overlaps)) > 0
         /\ ReadsAs(Tell(id, Pieces(txt, overlaps)), PairsOf(id, Words(txt)))
<1> DEFINE ss == Sentences(txt)
           N == Len(ss)
           base == [pieces |-> <<>>, current |-> <<>>]
           step == [p \in (1..N) \X PieceSet |-> TakeSentence(p[2], ss[p[1]], overlaps)]
           after == CHOOSE g : g = [n \in 0..N |-> IF n = 0 THEN [pieces |-> <<>>, current |-> <<>>]
                                                   ELSE TakeSentence(g[n - 1], ss[n], overlaps)]
           G(g) == [n \in 0..N |-> IF n = 0 THEN base ELSE TakeSentence(g[n - 1], ss[n], overlaps)]
           X == Seq(Nat)
<1>2. Pieces(txt, overlaps) = Append(after[N].pieces, after[N].current) BY DEF Pieces
<1>a. ss \in Seq(X) /\ FlattenSeq(ss) = txt BY SentencesAre
<1> HIDE DEF ss
<1>1. N \in Nat /\ N = Len(ss) /\ \A n \in 1..N : ss[n] \in X
  <2> HIDE DEF X
  <2> QED BY <1>a
<1>b. ASSUME NEW s \in PieceSet, NEW n \in 1..N PROVE TakeSentence(s, ss[n], overlaps) \in PieceSet
  <2>1. ss[n] \in Seq(Nat) BY <1>1
  <2>2. Told(id, s) \in Seq(WordSet)
    <3>1. s.pieces \in Seq(Seq(Nat)) /\ s.current \in Seq(Nat) BY DEF PieceSet
    <3>2. Tell(id, s.pieces) \in Seq(WordSet) /\ PairsOf(id, Words(s.current)) \in Seq(WordSet)
      BY <3>1, TellAppend
    <3> QED BY <3>2, ConcatProperties DEF Told
  <2>3. ReadsAs(Told(id, s), Told(id, s)) BY <2>2, ReadsSame
  <2> QED BY <2>1, <2>2, <2>3, TakeSentenceTells
<1>0. base \in PieceSet /\ Told(id, base) = <<>>
  <2> DEFINE none == <<>>
  <2>1. none \o none = none OBVIOUS
  <2>2. PairsOf(id, none) = none BY DEF PairsOf
  <2>3. Tell(id, none) = none BY MappedNone DEF Tell
  <2> QED BY <2>1, <2>2, <2>3, WordsNone DEF PieceSet, Told
<1> HIDE DEF N
<1>3. step \in [(1..N) \X PieceSet -> PieceSet]
      /\ \A n \in 1..N, x \in PieceSet : step[<<n, x>>] = TakeSentence(x, ss[n], overlaps)
  <2>1. \A n \in 1..N, x \in PieceSet : TakeSentence(x, ss[n], overlaps) \in PieceSet BY <1>b
  <2> QED BY <2>1
<1> HIDE DEF step
<1>5. PICK g : Unfolds(PieceSet, N, base, step, g)
  <2> HIDE DEF base
  <2>1. \E g : Unfolds(PieceSet, N, base, step, g) BY <1>0, <1>1, <1>3, Recursion
  <2> QED BY <2>1
<1>6. g = G(g)
  <2>1. g \in [0..N -> PieceSet] /\ g[0] = base /\ \A n \in 1..N : g[n] = step[<<n, g[n - 1]>>]
    BY <1>5 DEF Unfolds
  <2> HIDE DEF base
  <2>2. ASSUME NEW n \in 0..N PROVE g[n] = IF n = 0 THEN base ELSE TakeSentence(g[n - 1], ss[n], overlaps)
    <3>1. CASE n = 0 BY <3>1, <2>1
    <3>2. CASE n # 0
      <4>1. n \in 1..N /\ n - 1 \in 0..N BY <3>2, <1>1
      <4>2. g[n - 1] \in PieceSet BY <4>1, <2>1
      <4> QED BY <3>2, <4>1, <4>2, <2>1, <1>3
    <3> QED BY <3>1, <3>2
  <2> QED BY <2>1, <2>2
<1>7. after = G(after)
  <2>1. \E x : x = G(x) BY <1>6, Zenon
  <2> QED BY <2>1, Zenon
<1> HIDE DEF after
<1>8. after[0] = base /\ \A n \in 1..N : after[n] = TakeSentence(after[n - 1], ss[n], overlaps)
  <2>1. 0 \in 0..N /\ \A n \in 1..N : n \in 0..N /\ n # 0 BY <1>1
  <2> HIDE DEF base
  <2> QED BY <2>1, <1>7
<1> HIDE DEF G, base
<1> DEFINE Good(n, s) == ReadsAs(Told(id, s), Tell(id, SubSeq(ss, 1, n)))
           P == {p \in (0..N) \X PieceSet : Good(p[1], p[2])}
<1>9. <<0, after[0]>> \in P
  <2> DEFINE none == <<>>
  <2>1. SubSeq(ss, 1, 0) = none BY SubSeqEmpty
  <2>2. Tell(id, none) = none BY MappedNone DEF Tell
  <2>3. none \in Seq(WordSet) OBVIOUS
  <2>4. ReadsAs(none, none)
    <3> HIDE DEF none
    <3> QED BY <2>3, ReadsSame
  <2>5. Good(0, after[0]) BY <2>1, <2>2, <2>4, <1>0, <1>8
  <2>6. <<0, after[0]>> \in (0..N) \X PieceSet BY <1>0, <1>1, <1>8
  <2> QED BY <2>5, <2>6
<1>10. ASSUME NEW n \in 1..N, <<n - 1, after[n - 1]>> \in P PROVE <<n, after[n]>> \in P
  <2>1. n - 1 \in Nat /\ n - 1 < Len(ss) /\ n \in 0..N /\ (n - 1) + 1 = n BY <1>1
  <2> DEFINE s == after[n - 1]
             before == SubSeq(ss, 1, n - 1)
             t == ss[n]
  <2>2. s \in PieceSet /\ ReadsAs(Told(id, s), Tell(id, before)) BY <1>10
  <2>3. before \in Seq(X) /\ SubSeq(ss, 1, (n - 1) + 1) = Append(before, ss[(n - 1) + 1])
    <3> HIDE DEF X
    <3> QED BY <2>1, <1>a, PrefixGrows
  <2>4. t \in Seq(Nat) BY <1>1
  <2>5. after[n] = TakeSentence(s, t, overlaps) BY <1>8
  <2>6. SubSeq(ss, 1, n) = Append(before, t) BY <2>1, <2>3
  <2> HIDE DEF s, before, t
  <2>7. Tell(id, Append(before, t)) = Tell(id, before) \o PairsOf(id, Words(t)) /\ Tell(id, before) \in Seq(WordSet)
    BY <2>3, <2>4, TellAppend
  <2>8. TakeSentence(s, t, overlaps) \in PieceSet
        /\ ReadsAs(Told(id, TakeSentence(s, t, overlaps)), Tell(id, before) \o PairsOf(id, Words(t)))
    <3> DEFINE w == Tell(id, before)
    <3>1. w \in Seq(WordSet) /\ ReadsAs(Told(id, s), w) BY <2>2, <2>7
    <3> HIDE DEF w
    <3>2. TakeSentence(s, t, overlaps) \in PieceSet
          /\ ReadsAs(Told(id, TakeSentence(s, t, overlaps)), w \o PairsOf(id, Words(t)))
      BY <3>1, <2>2, <2>4, TakeSentenceTells
    <3> QED BY <3>2 DEF w
  <2> QED BY <2>1, <2>5, <2>6, <2>7, <2>8
<1>11. <<N, after[N]>> \in P
  <2> HIDE DEF P
  <2> QED BY <1>1, <1>9, <1>10, Steps
<1>12. after[N] \in PieceSet /\ ReadsAs(Told(id, after[N]), Tell(id, ss))
  <2>1. SubSeq(ss, 1, N) = ss
    <3> HIDE DEF X
    <3> QED BY <1>1, <1>a, WholePiece
  <2> QED BY <2>1, <1>11
<1> DEFINE pieces == after[N].pieces
           current == after[N].current
<1>13. pieces \in Seq(Seq(Nat)) /\ current \in Seq(Nat) BY <1>12 DEF PieceSet
<1>14. Told(id, after[N]) = Tell(id, pieces) \o PairsOf(id, Words(current)) BY DEF Told
<1>15. Pieces(txt, overlaps) = Append(pieces, current) BY <1>2
<1> HIDE DEF pieces, current
<1>16. Append(pieces, current) \in Seq(Seq(Nat))
       /\ Tell(id, Append(pieces, current)) = Tell(id, pieces) \o PairsOf(id, Words(current))
  BY <1>13, TellAppend
<1>17. Len(Append(pieces, current)) > 0
  <2>0. pieces \in Seq(X) /\ current \in X BY <1>13
  <2> HIDE DEF X
  <2>1. Len(pieces) \in Nat /\ Len(Append(pieces, current)) = Len(pieces) + 1 BY <2>0
  <2> QED BY <2>1
<1>18. Tell(id, ss) = PairsOf(id, Words(txt)) BY <1>a, TellFlat
<1> QED BY <1>12, <1>14, <1>15, <1>16, <1>17, <1>18

-----------------------------------------------------------------------------
(* The parts of a unit.                                                     *)

\* A block has no more tokens than the blocks it is one of.
LEMMA MemberTokens ==
  ASSUME NEW c \in Seq(BlockSet), NEW j \in 1..Len(c)
  PROVE  Len(Words(c[j].text)) <= Tokens(c)
<1> DEFINE P == {s \in Seq(BlockSet) : \A k \in 1..Len(s) : Len(Words(s[k].text)) <= Tokens(s)}
<1>1. <<>> \in P OBVIOUS
<1>2. ASSUME NEW s \in Seq(BlockSet), NEW b \in BlockSet, s \in P PROVE Append(s, b) \in P
  <2> DEFINE t == Append(s, b)
  <2>1. t \in Seq(BlockSet) /\ Tokens(t) = Tokens(s) + Tokens(<<b>>) /\ Tokens(s) \in Nat /\ Tokens(<<b>>) \in Nat
        /\ Tokens(<<b>>) = Len(Words(b.text))
    BY TokensAppend
  <2>2. Len(s) \in Nat /\ Len(t) = Len(s) + 1 /\ (\A k \in 1..Len(s) : t[k] = s[k]) /\ t[Len(s) + 1] = b
    BY AppendProperties
  <2>5. \A k \in 1..Len(s) : Len(Words(s[k].text)) <= Tokens(s) BY <1>2
  <2> HIDE DEF t, P
  <2>3. ASSUME NEW k \in 1..Len(t) PROVE Len(Words(t[k].text)) <= Tokens(t)
    <3>1. CASE k = Len(s) + 1
      <4>1. t[k] = b BY <3>1, <2>2
      <4>2. Len(Words(t[k].text)) = Tokens(<<b>>) BY <4>1, <2>1
      <4>3. Tokens(<<b>>) <= Tokens(t)
        <5> DEFINE x == Tokens(<<b>>)
                   y == Tokens(s)
        <5>1. x \in Nat /\ y \in Nat /\ Tokens(t) = y + x BY <2>1
        <5> HIDE DEF x, y
        <5>2. x <= y + x BY <5>1
        <5> QED BY <5>1, <5>2 DEF x
      <4> QED BY <4>2, <4>3
    <3>2. CASE k # Len(s) + 1
      <4>1. k \in 1..Len(s) BY <3>2, <2>2
      <4>2. t[k] = s[k] BY <4>1, <2>2
      <4>3. Len(Words(s[k].text)) <= Tokens(s) BY <4>1, <2>5
      <4>4. Len(Words(s[k].text)) \in Nat
        <5>1. s[k] \in BlockSet BY <4>1
        <5>2. s[k].text \in Seq(Nat) BY <5>1 DEF BlockSet
        <5> QED BY <5>2, WordsAre
      <4> DEFINE x == Tokens(<<b>>)
                 y == Tokens(s)
                 z == Len(Words(s[k].text))
      <4>5. x \in Nat /\ y \in Nat /\ z \in Nat /\ z <= y /\ Tokens(t) = y + x BY <2>1, <4>3, <4>4
      <4> HIDE DEF x, y, z
      <4>6. z <= Tokens(t) BY <4>5
      <4> QED BY <4>2, <4>6 DEF z
    <3> QED BY <3>1, <3>2
  <2> QED BY <2>1, <2>3 DEF t, P
<1>3. Seq(BlockSet) \subseteq P
  <2> HIDE DEF P
  <2> QED BY <1>1, <1>2, SeqGrows
<1> QED BY <1>3

\* A block with content that is too long is the last of its part.
LongEnds(p) == \A j \in 1..Len(p) : ~IsHeading(p[j]) /\ Len(Words(p[j].text)) > MaxTokens => j = Len(p)

\* The parts made so far and the one being made.
PartSet == [parts : Seq(Seq(BlockSet)), current : Seq(BlockSet)]
Held(s) == FlattenSeq(s.parts) \o s.current
AllEnd(s) == (\A i \in 1..Len(s.parts) : LongEnds(s.parts[i])) /\ LongEnds(s.current)

\* A block taken is added at the end, and a long one with content before it ends its part.
LEMMA TakePartKeeps ==
  ASSUME NEW s \in PartSet, NEW b \in BlockSet
  PROVE  /\ TakePart(s, b) \in PartSet /\ Held(TakePart(s, b)) = Append(Held(s), b)
         /\ AllEnd(s) => AllEnd(TakePart(s, b))
<1> DEFINE parts == s.parts
           current == s.current
           next == TakePart(s, b)
           X == Seq(BlockSet)
           before == FlattenSeq(parts)
           one == <<b>>
<1>1. parts \in Seq(X) /\ current \in X /\ one \in X BY DEF PartSet
<1>h. Held(s) = before \o current BY DEF Held
<1> HIDE DEF parts, current
<1>2. before \in X
  <2>1. <<>> \in Seq(BlockSet) OBVIOUS
  <2> QED BY <1>1, <2>1, FlatAppend
<1>3. AllEnd(s) => (\A i \in 1..Len(parts) : LongEnds(parts[i])) /\ LongEnds(current)
  BY DEF AllEnd, parts, current
<1>4. CASE HasContent(current) /\ Tokens(current) + Tokens(one) > MaxTokens
  <2> DEFINE all == Append(parts, current)
  <2>1. next = [parts |-> all, current |-> one] BY <1>4 DEF TakePart, parts, current
  <2>2. all \in Seq(X) /\ Len(all) = Len(parts) + 1 /\ Len(parts) \in Nat
        /\ (\A i \in 1..Len(parts) : all[i] = parts[i]) /\ all[Len(parts) + 1] = current
    <3> HIDE DEF X
    <3> QED BY <1>1, AppendProperties
  <2>3. FlattenSeq(all) = before \o current BY <1>1, FlatAppend
  <2>4. before \o current \in X BY <1>1, <1>2, ConcatProperties
  <2>5. Append(before \o current, b) = (before \o current) \o one BY <2>4, AppendIsConcat
  <2> HIDE DEF all, one
  <2>6. next \in PartSet BY <2>1, <2>2, <1>1 DEF PartSet
  <2>7. Held(next) = Append(Held(s), b)
    <3>1. next.parts = all /\ next.current = one BY <2>1
    <3> QED BY <3>1, <2>3, <2>5, <1>h DEF Held
  <2>8. LongEnds(one)
    <3>1. Len(one) = 1 BY DEF one
    <3>2. \A j \in 1..Len(one) : j = Len(one) BY <3>1
    <3> QED BY <3>2 DEF LongEnds
  <2>9. ASSUME AllEnd(s), NEW i \in 1..Len(all) PROVE LongEnds(all[i])
    <3>1. CASE i = Len(parts) + 1 BY <3>1, <2>2, <2>9, <1>3
    <3>2. CASE i # Len(parts) + 1
      <4>1. i \in 1..Len(parts) BY <3>2, <2>2
      <4> QED BY <4>1, <2>2, <2>9, <1>3
    <3> QED BY <3>1, <3>2
  <2>10. AllEnd(s) => AllEnd(next) BY <2>1, <2>8, <2>9 DEF AllEnd
  <2> QED BY <2>6, <2>7, <2>10
<1>5. CASE ~(HasContent(current) /\ Tokens(current) + Tokens(one) > MaxTokens)
  <2> DEFINE more == Append(current, b)
  <2>1. next = [parts |-> parts, current |-> more]
    <3>1. next = [s EXCEPT !.current = Append(@, b)] BY <1>5 DEF TakePart, current
    <3> QED BY <3>1 DEF PartSet, parts, current
  <2>2. more \in X /\ Len(more) = Len(current) + 1 /\ Len(current) \in Nat
        /\ (\A i \in 1..Len(current) : more[i] = current[i])
    BY <1>1, AppendProperties
  <2> HIDE DEF more
  <2>3. next \in PartSet BY <2>1, <2>2, <1>1 DEF PartSet
  <2>4. before \o more = Append(before \o current, b)
    <3> HIDE DEF before
    <3> QED BY <1>1, <1>2, Behind DEF more
  <2>5. Held(next) = Append(Held(s), b)
    <3>1. next.parts = parts /\ next.current = more BY <2>1
    <3> QED BY <3>1, <2>4, <1>h DEF Held
  <2>6. ASSUME AllEnd(s), NEW j \in 1..Len(more), ~IsHeading(more[j]), Len(Words(more[j].text)) > MaxTokens
        PROVE  j = Len(more)
    <3> SUFFICES ASSUME j # Len(more) PROVE FALSE OBVIOUS
    <3>1. j \in 1..Len(current) /\ more[j] = current[j] BY <2>2
    <3>2. HasContent(current) BY <3>1, <2>6 DEF HasContent
    <3>3. Tokens(current) \in Nat /\ Tokens(one) \in Nat BY <1>1, TokensAre
    <3>4. ~(Tokens(current) + Tokens(one) > MaxTokens) BY <3>2, <1>5
    <3>5. Len(Words(current[j].text)) <= Tokens(current) BY <3>1, <1>1, MemberTokens
    <3>6. Len(Words(current[j].text)) > MaxTokens BY <3>1, <2>6
    <3>7. Len(Words(current[j].text)) \in Nat
      <4>1. current[j] \in BlockSet BY <3>1, <1>1
      <4>2. current[j].text \in Seq(Nat) BY <4>1 DEF BlockSet
      <4> QED BY <4>2, WordsAre
    <3>8. MaxTokens \in Nat BY ChunkerAssumption
    <3> DEFINE x == Tokens(current)
               y == Tokens(one)
               z == Len(Words(current[j].text))
    <3>9. x \in Nat /\ y \in Nat /\ z \in Nat /\ z <= x /\ z > MaxTokens /\ ~(x + y > MaxTokens) /\ MaxTokens \in Nat
      BY <3>3, <3>4, <3>5, <3>6, <3>7, <3>8
    <3> HIDE DEF x, y, z
    <3> QED BY <3>9
  <2>7. AllEnd(s) => AllEnd(next)
    <3>1. next.parts = parts /\ next.current = more BY <2>1
    <3>2. AllEnd(s) => LongEnds(more) BY <2>6 DEF LongEnds
    <3> QED BY <3>1, <3>2, <1>3 DEF AllEnd
  <2> QED BY <2>3, <2>5, <2>7
<1> QED BY <1>4, <1>5

\* The parts of a unit are the unit, and a long block is the last of its part.
LEMMA BlockPartsAre ==
  ASSUME NEW blocks \in Seq(BlockSet)
  PROVE  /\ BlockParts(blocks) \in Seq(Seq(BlockSet)) /\ FlattenSeq(BlockParts(blocks)) = blocks
         /\ \A i \in 1..Len(BlockParts(blocks)) : LongEnds(BlockParts(blocks)[i])
<1> DEFINE N == Len(blocks)
           base == [parts |-> <<>>, current |-> <<>>]
           step == [p \in (1..N) \X PartSet |-> TakePart(p[2], blocks[p[1]])]
           after == CHOOSE g : g = [n \in 0..N |-> IF n = 0 THEN [parts |-> <<>>, current |-> <<>>]
                                                   ELSE TakePart(g[n - 1], blocks[n])]
           G(g) == [n \in 0..N |-> IF n = 0 THEN base ELSE TakePart(g[n - 1], blocks[n])]
           X == Seq(BlockSet)
<1>1. N \in Nat /\ N = Len(blocks) /\ \A n \in 1..N : blocks[n] \in BlockSet OBVIOUS
<1>2. BlockParts(blocks)
        = IF after[N].current = <<>> THEN after[N].parts ELSE Append(after[N].parts, after[N].current)
  BY DEF BlockParts
<1>0. base \in PartSet /\ Held(base) = <<>> /\ AllEnd(base)
  <2>1. <<>> \o <<>> = <<>> OBVIOUS
  <2>2. base \in PartSet BY DEF PartSet
  <2>3. AllEnd(base)
    <3>1. 1..Len(<<>>) = {} OBVIOUS
    <3> QED BY <3>1 DEF AllEnd, LongEnds
  <2> QED BY <2>1, <2>2, <2>3, FlatNone DEF Held
<1> HIDE DEF N
<1>3. step \in [(1..N) \X PartSet -> PartSet]
      /\ \A n \in 1..N, x \in PartSet : step[<<n, x>>] = TakePart(x, blocks[n])
  <2>1. \A n \in 1..N, x \in PartSet : TakePart(x, blocks[n]) \in PartSet BY <1>1, TakePartKeeps
  <2> QED BY <2>1
<1> HIDE DEF step
<1>5. PICK g : Unfolds(PartSet, N, base, step, g)
  <2> HIDE DEF base
  <2>1. \E g : Unfolds(PartSet, N, base, step, g) BY <1>0, <1>1, <1>3, Recursion
  <2> QED BY <2>1
<1>6. g = G(g)
  <2>1. g \in [0..N -> PartSet] /\ g[0] = base /\ \A n \in 1..N : g[n] = step[<<n, g[n - 1]>>]
    BY <1>5 DEF Unfolds
  <2> HIDE DEF base
  <2>2. ASSUME NEW n \in 0..N PROVE g[n] = IF n = 0 THEN base ELSE TakePart(g[n - 1], blocks[n])
    <3>1. CASE n = 0 BY <3>1, <2>1
    <3>2. CASE n # 0
      <4>1. n \in 1..N /\ n - 1 \in 0..N BY <3>2, <1>1
      <4>2. g[n - 1] \in PartSet BY <4>1, <2>1
      <4> QED BY <3>2, <4>1, <4>2, <2>1, <1>3
    <3> QED BY <3>1, <3>2
  <2> QED BY <2>1, <2>2
<1>7. after = G(after)
  <2>1. \E x : x = G(x) BY <1>6, Zenon
  <2> QED BY <2>1, Zenon
<1> HIDE DEF after
<1>8. after[0] = base /\ \A n \in 1..N : after[n] = TakePart(after[n - 1], blocks[n])
  <2>1. 0 \in 0..N /\ \A n \in 1..N : n \in 0..N /\ n # 0 BY <1>1
  <2> HIDE DEF base
  <2> QED BY <2>1, <1>7
<1> HIDE DEF G, base
<1> DEFINE Good(n, s) == Held(s) = SubSeq(blocks, 1, n) /\ AllEnd(s)
           P == {p \in (0..N) \X PartSet : Good(p[1], p[2])}
<1>9. <<0, after[0]>> \in P
  <2>1. SubSeq(blocks, 1, 0) = <<>> BY SubSeqEmpty
  <2>2. Good(0, after[0]) BY <2>1, <1>0, <1>8
  <2>3. <<0, after[0]>> \in (0..N) \X PartSet BY <1>0, <1>1, <1>8
  <2> QED BY <2>2, <2>3
<1>10. ASSUME NEW n \in 1..N, <<n - 1, after[n - 1]>> \in P PROVE <<n, after[n]>> \in P
  <2>1. n - 1 \in Nat /\ n - 1 < Len(blocks) /\ n \in 0..N /\ (n - 1) + 1 = n BY <1>1
  <2>2. after[n - 1] \in PartSet /\ Held(after[n - 1]) = SubSeq(blocks, 1, n - 1) /\ AllEnd(after[n - 1])
    BY <1>10
  <2>3. SubSeq(blocks, 1, (n - 1) + 1) = Append(SubSeq(blocks, 1, n - 1), blocks[(n - 1) + 1])
    BY <2>1, PrefixGrows
  <2>4. blocks[n] \in BlockSet BY <1>1
  <2>5. after[n] \in PartSet /\ Held(after[n]) = Append(Held(after[n - 1]), blocks[n]) /\ AllEnd(after[n])
    BY <2>2, <2>4, <1>8, TakePartKeeps
  <2> QED BY <2>1, <2>2, <2>3, <2>5
<1>11. <<N, after[N]>> \in P
  <2> HIDE DEF P
  <2> QED BY <1>1, <1>9, <1>10, Steps
<1>12. after[N] \in PartSet /\ Held(after[N]) = blocks /\ AllEnd(after[N])
  <2>1. SubSeq(blocks, 1, N) = blocks BY <1>1, WholePiece
  <2> QED BY <2>1, <1>11
<1> DEFINE parts == after[N].parts
           current == after[N].current
<1>13. parts \in Seq(X) /\ current \in X /\ blocks = FlattenSeq(parts) \o current
       /\ (\A i \in 1..Len(parts) : LongEnds(parts[i])) /\ LongEnds(current)
  BY <1>12 DEF PartSet, Held, AllEnd
<1>14. BlockParts(blocks) = IF current = <<>> THEN parts ELSE Append(parts, current) BY <1>2
<1> HIDE DEF parts, current
<1>15. CASE current = <<>>
  <2>1. FlattenSeq(parts) \in Seq(BlockSet) BY <1>13, FlatAppend
  <2>2. FlattenSeq(parts) \o current = FlattenSeq(parts) BY <1>15, <2>1, ConcatEmptySeq
  <2> QED BY <1>13, <1>14, <1>15, <2>2
<1>16. CASE current # <<>>
  <2> DEFINE all == Append(parts, current)
  <2>1. FlattenSeq(all) = FlattenSeq(parts) \o current BY <1>13, FlatAppend
  <2>2. all \in Seq(X) /\ Len(all) = Len(parts) + 1 /\ Len(parts) \in Nat
        /\ (\A i \in 1..Len(parts) : all[i] = parts[i]) /\ all[Len(parts) + 1] = current
    <3> HIDE DEF X
    <3> QED BY <1>13, AppendProperties
  <2> HIDE DEF all
  <2>3. ASSUME NEW i \in 1..Len(all) PROVE LongEnds(all[i])
    <3>1. CASE i = Len(parts) + 1 BY <3>1, <2>2, <1>13
    <3>2. CASE i # Len(parts) + 1
      <4>1. i \in 1..Len(parts) BY <3>2, <2>2
      <4> QED BY <4>1, <2>2, <1>13
    <3> QED BY <3>1, <3>2
  <2>4. BlockParts(blocks) = all BY <1>14, <1>16 DEF all
  <2> QED BY <1>13, <2>1, <2>2, <2>3, <2>4
<1> QED BY <1>15, <1>16

-----------------------------------------------------------------------------
(* One long block under its headings is cut.                                *)

\* The first piece of a sequence is its first element.
LEMMA FirstPiece ==
  ASSUME NEW S, NEW s \in Seq(S), 1 <= Len(s)
  PROVE  SubSeq(s, 1, 1) = <<s[1]>>
<1> DEFINE p == SubSeq(s, 1, 1)
<1>1. 1 \in Nat \ {0} /\ 1 \in Nat /\ 1 <= 1 + 1 /\ (1 - 1) + 1 = 1 OBVIOUS
<1>2. p \in Seq(S) /\ Len(p) = (1 - 1) + 1 /\ \A i \in 1 .. (1 - 1) + 1 : p[i] = s[(1 + i) - 1]
  BY <1>1, PieceIs
<1> HIDE DEF p
<1>3. Len(p) = 1 /\ p[1] = s[1] BY <1>2
<1>4. p = <<p[1]>> BY <1>2, <1>3
<1> QED BY <1>3, <1>4 DEF p

\* The content of blocks are those that are no headings.
LEMMA ContentsAre ==
  ASSUME NEW blocks \in Seq(BlockSet)
  PROVE  /\ Contents(blocks) \in Seq(BlockSet)
         /\ \A x : x \in ToSet(Contents(blocks)) <=> \E i \in 1..Len(blocks) : ~IsHeading(blocks[i]) /\ x = blocks[i]
<1> DEFINE K == {i \in 1..Len(blocks) : ~IsHeading(blocks[i])}
<1>1. Contents(blocks) = Where(blocks, K) BY DEF Contents
<1>2. \A i \in 1..Len(blocks) : i \in K <=> ~IsHeading(blocks[i]) OBVIOUS
<1> HIDE DEF K
<1>3. Where(blocks, K) \in Seq(BlockSet) BY WheresAre
<1>4. ASSUME NEW x PROVE x \in ToSet(Where(blocks, K)) <=> \E i \in 1..Len(blocks) : i \in K /\ x = blocks[i]
  BY WhereRange
<1> QED BY <1>1, <1>2, <1>3, <1>4

\* The content and the headings of blocks one after the other.
LEMMA ContentsConcat ==
  ASSUME NEW s \in Seq(BlockSet), NEW t \in Seq(BlockSet)
  PROVE  /\ Contents(s \o t) = Contents(s) \o Contents(t)
         /\ Headings(s \o t) = Headings(s) \o Headings(t)
<1> DEFINE u == s \o t
           K == {i \in 1..Len(u) : ~IsHeading(u[i])}
           L == {i \in 1..Len(s) : ~IsHeading(s[i])}
           M == {i \in 1..Len(t) : ~IsHeading(t[i])}
           Kh == {i \in 1..Len(u) : IsHeading(u[i])}
           Lh == {i \in 1..Len(s) : IsHeading(s[i])}
           Mh == {i \in 1..Len(t) : IsHeading(t[i])}
<1>1. /\ Len(u) = Len(s) + Len(t) /\ Len(s) \in Nat /\ Len(t) \in Nat
      /\ (\A i \in 1..Len(s) : u[i] = s[i]) /\ (\A i \in 1..Len(t) : u[Len(s) + i] = t[i])
  BY SetConcat
<1> HIDE DEF u
<1>2. \A i \in 1..Len(s) : (i \in K <=> i \in L) /\ (i \in Kh <=> i \in Lh)
  <2>1. \A i \in 1..Len(s) : i \in 1..Len(u) BY <1>1
  <2> QED BY <2>1, <1>1
<1>3. \A i \in 1..Len(t) : (Len(s) + i \in K <=> i \in M) /\ (Len(s) + i \in Kh <=> i \in Mh)
  <2>1. \A i \in 1..Len(t) : Len(s) + i \in 1..Len(u) BY <1>1
  <2> QED BY <2>1, <1>1
<1> HIDE DEF K, L, M, Kh, Lh, Mh
<1>4. Where(s \o t, K) = Where(s, L) \o Where(t, M) BY <1>2, <1>3, WhereConcat
<1>5. Where(s \o t, Kh) = Where(s, Lh) \o Where(t, Mh)
  <2>1. \A i \in 1..Len(s) : i \in Kh <=> i \in Lh BY <1>2
  <2>2. \A i \in 1..Len(t) : Len(s) + i \in Kh <=> i \in Mh BY <1>3
  <2> QED BY <2>1, <2>2, WhereConcat
<1> QED BY <1>4, <1>5 DEF Contents, Headings, K, L, M, Kh, Lh, Mh, u

\* A part without content is its headings.
LEMMA OnlyHeadings ==
  ASSUME NEW s \in Seq(BlockSet), ~HasContent(s)
  PROVE  Headings(s) = s
<1> DEFINE K == {i \in 1..Len(s) : IsHeading(s[i])}
<1>1. \A i \in 1..Len(s) : i \in K BY DEF HasContent
<1> HIDE DEF K
<1>2. Where(s, K) = s BY <1>1, WhereAll
<1> QED BY <1>2 DEF Headings, K

\* And one of content alone has none.
LEMMA NoHeadings ==
  ASSUME NEW b \in BlockSet, ~IsHeading(b)
  PROVE  Headings(<<b>>) = <<>> /\ Contents(<<b>>) = <<b>>
<1> DEFINE s == <<b>>
           K == {i \in 1..Len(s) : ~IsHeading(s[i])}
           Kh == {i \in 1..Len(s) : IsHeading(s[i])}
<1>1. s \in Seq(BlockSet) /\ Len(s) = 1 /\ s[1] = b OBVIOUS
<1> HIDE DEF s
<1>2. \A i \in 1..Len(s) : i \in K /\ i \notin Kh
  <2>1. \A i \in 1..Len(s) : s[i] = b BY <1>1
  <2> QED BY <2>1
<1> HIDE DEF K, Kh
<1>3. Where(s, K) = s BY <1>1, <1>2, WhereAll
<1>4. Where(s, Kh) = <<>> BY <1>1, <1>2, WhereNothing
<1> QED BY <1>3, <1>4 DEF Contents, Headings, K, Kh, s

\* The one long block of a part is the last: what is before it are headings.
LEMMA OneLong ==
  ASSUME NEW part \in Seq(BlockSet), LongEnds(part), Len(Contents(part)) = 1, Tokens(Contents(part)) > MaxTokens
  PROVE  \E front \in Seq(BlockSet), b \in BlockSet :
           /\ part = front \o <<b>> /\ Contents(part) = <<b>> /\ Headings(part) = front
<1> DEFINE content == Contents(part)
           b == content[1]
           front == Front(part)
           one == <<b>>
<1>1. content \in Seq(BlockSet) /\ (\A x : x \in ToSet(content) <=> \E i \in 1..Len(part) : ~IsHeading(part[i]) /\ x = part[i])
  BY ContentsAre
<1>2. Len(content) = 1 /\ Tokens(content) > MaxTokens OBVIOUS
<1> HIDE DEF content
<1>3. b \in BlockSet /\ content = one /\ b \in ToSet(content)
  <2>0. DOMAIN content = 1..Len(content) BY <1>1, LenProperties
  <2>3. 1 \in DOMAIN content BY <1>2, <2>0
  <2>4. content[1] \in BlockSet
    <3>1. content \in Seq(BlockSet) BY <1>1
    <3>2. 1 \in 1..Len(content) BY <2>0, <2>3
    <3> QED BY <3>1, <3>2, ElementOfSeq
  <2>1. b \in BlockSet /\ 1 \in DOMAIN content BY <2>3, <2>4
  <2>2. content = one BY <1>1, <1>2
  <2> QED BY <2>1, <2>2 DEF ToSet
<1>4. PICK j \in 1..Len(part) : ~IsHeading(part[j]) /\ b = part[j] BY <1>1, <1>3
<1>5. Tokens(one) = Len(Words(b.text)) BY <1>3, TokensAppend
<1>6. j = Len(part) BY <1>2, <1>3, <1>4, <1>5 DEF LongEnds
<1>7. part # <<>> BY <1>4
<1>8. front \in Seq(BlockSet) /\ part = front \o <<Last(part)>> BY <1>7, FrontLast
<1>9. Last(part) = b BY <1>4, <1>6 DEF Last
<1> HIDE DEF b, front
<1>10. part = front \o one BY <1>8, <1>9
<1>11. one \in Seq(BlockSet) /\ ~IsHeading(b) BY <1>3, <1>4
<1>12. Headings(one) = <<>> /\ Contents(one) = one BY <1>3, <1>11, NoHeadings
<1> HIDE DEF one
<1>13. Contents(front \o one) = Contents(front) \o Contents(one) /\ Headings(front \o one) = Headings(front) \o Headings(one)
  BY <1>8, <1>11, ContentsConcat
<1>14. Contents(front) \in Seq(BlockSet) /\ (\A x : x \in ToSet(Contents(front)) <=> \E i \in 1..Len(front) : ~IsHeading(front[i]) /\ x = front[i])
  BY <1>8, ContentsAre
<1>15. Contents(front) = <<>>
  <2>1. Contents(front) \o one = one BY <1>3, <1>10, <1>12, <1>13 DEF content
  <2> QED BY <2>1, <1>11, <1>14, ConcatEqualIffEmpty
<1>16. ~HasContent(front)
  <2> SUFFICES ASSUME NEW i \in 1..Len(front), ~IsHeading(front[i]) PROVE FALSE BY DEF HasContent
  <2>1. front[i] \in ToSet(Contents(front)) BY <1>14
  <2>2. ToSet(<<>>) = {} BY DEF ToSet
  <2> QED BY <2>1, <2>2, <1>15
<1>17. Headings(front) = front BY <1>8, <1>16, OnlyHeadings
<1>18. Headings(part) = front
  <2>1. front \o <<>> = front BY <1>8, ConcatEmptySeq
  <2> QED BY <2>1, <1>10, <1>12, <1>13, <1>17
<1> QED BY <1>3, <1>8, <1>10, <1>18 DEF one, content

\* Splitting a part reads as the part.
LEMMA SplitPartReads ==
  ASSUME NEW part \in Seq(BlockSet), LongEnds(part)
  PROVE  SplitPart(part) \in Seq(Seq(BlockSet)) /\ ReadsAs(ReadOf(SplitPart(part)), WordsOf(part))
<1> DEFINE content == Contents(part)
           whole == Len(content) # 1 \/ Tokens(content) <= MaxTokens \/ (IsAtomic(content[1]) /\ ~content[1].rows)
<1>1. CASE whole
  <2>1. SplitPart(part) = <<part>> BY <1>1 DEF SplitPart
  <2>2. <<part>> \in Seq(Seq(BlockSet)) /\ ReadOf(<<part>>) = WordsOf(part) /\ WordsOf(part) \in Seq(WordSet)
    BY ReadOfOne
  <2> QED BY <2>1, <2>2, ReadsSame
<1>2. CASE ~whole
  <2>0. Len(content) = 1 /\ Tokens(content) > MaxTokens
    <3>1. Len(content) = 1 /\ ~(Tokens(content) <= MaxTokens) BY <1>2
    <3>2. content \in Seq(BlockSet) BY ContentsAre
    <3> HIDE DEF content
    <3>3. Tokens(content) \in Nat /\ MaxTokens \in Nat BY <3>2, TokensAre, ChunkerAssumption
    <3> QED BY <3>1, <3>3
  <2>1. PICK front \in Seq(BlockSet), b \in BlockSet :
          part = front \o <<b>> /\ content = <<b>> /\ Headings(part) = front
    BY <2>0, OneLong
  <2> DEFINE pieces == Pieces(b.text, ~IsAtomic(b))
             split == SplitPart(part)
             n == Len(pieces)
             X == Seq(BlockSet)
             Cut(t) == [b EXCEPT !.text = t]
  <2>2. content[1] = b BY <2>1
  <2>3. split = [i \in 1..n |-> (IF i = 1 THEN front ELSE <<>>) \o <<Cut(pieces[i])>>]
    BY <1>2, <2>1, <2>2 DEF SplitPart
  <2>4. b.text \in Seq(Nat) /\ b.id \in Nat /\ (~IsAtomic(b)) \in BOOLEAN BY DEF BlockSet
  <2>5. pieces \in Seq(Seq(Nat)) /\ n > 0 /\ ReadsAs(Tell(b.id, pieces), PairsOf(b.id, Words(b.text)))
    BY <2>4, PiecesAre
  <2>6. n \in Nat /\ \A i \in 1..n : pieces[i] \in Seq(Nat)
    <3> DEFINE Y == Seq(Nat)
    <3>1. pieces \in Seq(Y) BY <2>5
    <3> HIDE DEF Y, pieces
    <3>2. n \in Nat /\ \A i \in 1..n : pieces[i] \in Y BY <3>1
    <3> QED BY <3>2 DEF Y
  <2> HIDE DEF pieces, split, n
  <2>n. n = Len(pieces) BY DEF n
  <2>7. ASSUME NEW t \in Seq(Nat)
        PROVE  Cut(t) \in BlockSet /\ <<Cut(t)>> \in X /\ WordsOf(<<Cut(t)>>) = PairsOf(b.id, Words(t))
    <3>1. Cut(t) \in BlockSet /\ Cut(t).id = b.id /\ Cut(t).text = t BY DEF BlockSet
    <3> DEFINE c == Cut(t)
    <3>2. c \in BlockSet /\ c.id = b.id /\ c.text = t BY <3>1
    <3> HIDE DEF c
    <3>3. WordsOf(<<c>>) = PairsOf(c.id, Words(c.text)) /\ <<c>> \in X BY <3>2, WordsOfOne
    <3> QED BY <3>2, <3>3 DEF c
  <2> DEFINE tail == [i \in 1..n |-> <<Cut(pieces[i])>>]
             heads == [i \in 1..n |-> IF i = 1 THEN front ELSE <<>>]
  <2>8. ASSUME NEW i \in 1..n
        PROVE  /\ <<Cut(pieces[i])>> \in X /\ (IF i = 1 THEN front ELSE <<>>) \in X
               /\ (IF i = 1 THEN front ELSE <<>>) \o <<Cut(pieces[i])>> \in X
    <3> DEFINE h == IF i = 1 THEN front ELSE <<>>
               o == <<Cut(pieces[i])>>
    <3>1. o \in X BY <2>6, <2>7
    <3>2. h \in X
      <4>1. <<>> \in X OBVIOUS
      <4> QED BY <4>1
    <3> HIDE DEF h, o
    <3>3. h \o o \in X BY <3>1, <3>2, ConcatProperties
    <3> QED BY <3>1, <3>2, <3>3 DEF h, o
  <2>9. split \in Seq(X) /\ Len(split) = n
    <3>1. split \in [1..n -> X] BY <2>3, <2>8
    <3> HIDE DEF X
    <3> QED BY <3>1, <2>6
  \* What is read of the pieces with their block, and of the first with the headings.
  <2> DEFINE anew(k) == WordsOf(FlattenSeq(SubSeq(split, 1, k)))
             T == {k \in 1..n : ReadOf(SubSeq(split, 1, k)) = WordsOf(front) \o Tell(b.id, SubSeq(pieces, 1, k))}
  <2>10. n \in T
    <3> DEFINE U == {k \in 0 .. n - 1 : k + 1 \in T}
               Z == Seq(Nat)
               none == <<>>
    <3>0. pieces \in Seq(Z) /\ none \in Seq(Z) /\ none \in Seq(X) /\ WordsOf(front) \in Seq(WordSet)
      <4>1. none \in Seq(Z) /\ none \in Seq(X) OBVIOUS
      <4> QED BY <4>1, <2>5, WordsOfIs
    <3>1. 0 \in U
      <4> DEFINE t == pieces[1]
                 o == <<Cut(t)>>
                 p == split[1]
      <4>1. 1 \in 1..n /\ 0 \in 0 .. n - 1 BY <2>5, <2>6
      <4>2. t \in Seq(Nat) BY <4>1, <2>6
      <4>3. p = front \o o BY <4>1, <2>3
      <4>4. o \in X /\ WordsOf(o) = PairsOf(b.id, Words(t)) BY <4>2, <2>7
      <4>5. SubSeq(split, 1, 1) = <<p>>
        <5> HIDE DEF X
        <5>1. Len(split) \in Nat /\ 1 <= Len(split) BY <4>1, <2>6, <2>9
        <5> QED BY <5>1, <2>9, FirstPiece
      <4>6. SubSeq(pieces, 1, 1) = Append(none, t)
        <5>1. SubSeq(pieces, 1, 1) = <<t>>
          <6> HIDE DEF Z
          <6>1. Len(pieces) \in Nat /\ 1 <= Len(pieces) BY <4>1, <2>6, <2>n
          <6> QED BY <6>1, <3>0, FirstPiece
        <5> QED BY <5>1
      <4> HIDE DEF t, o, p
      <4>7. WordsOf(front \o o) = WordsOf(front) \o WordsOf(o) /\ front \o o \in X
        BY <4>4, WordsOfConcat
      <4>8. ReadOf(<<p>>) = WordsOf(p) BY <4>3, <4>7, ReadOfOne
      <4>9. Tell(b.id, Append(none, t)) = Tell(b.id, none) \o PairsOf(b.id, Words(t))
            /\ PairsOf(b.id, Words(t)) \in Seq(WordSet)
        BY <2>4, <3>0, <4>2, TellAppend
      <4>10. Tell(b.id, none) = none BY MappedNone DEF Tell
      <4>11. none \o PairsOf(b.id, Words(t)) = PairsOf(b.id, Words(t)) BY <4>9, ConcatEmptySeq
      <4> HIDE DEF none
      <4>12. ReadOf(SubSeq(split, 1, 1)) = WordsOf(front) \o Tell(b.id, SubSeq(pieces, 1, 1))
        BY <4>3, <4>4, <4>5, <4>6, <4>7, <4>8, <4>9, <4>10, <4>11
      <4>13. 0 + 1 = 1 OBVIOUS
      <4> QED BY <4>1, <4>12, <4>13
    <3>2. ASSUME NEW k \in 0 .. n - 2, k \in U PROVE k + 1 \in U
      <4> DEFINE m == k + 1
                 t == pieces[m + 1]
                 o == <<Cut(t)>>
                 p == split[m + 1]
                 sp == SubSeq(split, 1, m)
                 pp == SubSeq(pieces, 1, m)
      <4>1. m \in Nat /\ m < n /\ m + 1 \in 1..n /\ m + 1 # 1 /\ m \in 0 .. n - 1 BY <2>6
      <4>2. t \in Seq(Nat) BY <4>1, <2>6
      <4>3. p = none \o o BY <4>1, <2>3
      <4>4. o \in X /\ WordsOf(o) = PairsOf(b.id, Words(t)) BY <4>2, <2>7
      <4>5. sp \in Seq(X) /\ SubSeq(split, 1, m + 1) = Append(sp, p)
        <5> HIDE DEF X, m
        <5> QED BY <4>1, <2>9, PrefixGrows
      <4>6. pp \in Seq(Z) /\ SubSeq(pieces, 1, m + 1) = Append(pp, t)
        <5> HIDE DEF Z, m
        <5> QED BY <4>1, <3>0, <2>n, PrefixGrows
      <4>7. ReadOf(sp) = WordsOf(front) \o Tell(b.id, pp) BY <3>2
      <4> HIDE DEF t, o, p, sp, pp, m
      <4>8. p = o BY <4>3, <4>4, ConcatEmptySeq
      <4>9. Tell(b.id, Append(pp, t)) = Tell(b.id, pp) \o PairsOf(b.id, Words(t))
            /\ PairsOf(b.id, Words(t)) \in Seq(WordSet) /\ Tell(b.id, pp) \in Seq(WordSet)
        BY <2>4, <4>2, <4>6, TellAppend
      <4>10. ReadOf(Append(sp, p)) = ReadOf(sp) \o WordsOf(p)
        <5>1. sp \in Seq(X) /\ p \in X /\ Makes(ReadIn, X, WordSet) BY <4>4, <4>5, <4>8, ReadInMakes
        <5>2. ReadIn[p] = WordsOf(p) BY <5>1 DEF ReadIn
        <5> HIDE DEF X
        <5>3. Mapped(ReadIn, Append(sp, p)) = Mapped(ReadIn, sp) \o ReadIn[p] BY <5>1, MappedAppend
        <5> QED BY <5>2, <5>3 DEF ReadOf
      <4> DEFINE x == WordsOf(front)
                 y == Tell(b.id, pp)
                 z == PairsOf(b.id, Words(t))
      <4>11. (x \o y) \o z = x \o (y \o z)
        <5>1. x \in Seq(WordSet) /\ y \in Seq(WordSet) /\ z \in Seq(WordSet) BY <3>0, <4>9
        <5> HIDE DEF x, y, z
        <5> QED BY <5>1, ConcatAssociative
      <4>12. ReadOf(SubSeq(split, 1, m + 1)) = WordsOf(front) \o Tell(b.id, SubSeq(pieces, 1, m + 1))
        BY <4>4, <4>5, <4>6, <4>7, <4>8, <4>9, <4>10, <4>11
      <4>13. m + 1 \in T BY <4>1, <4>12
      <4> HIDE DEF T
      <4> QED BY <4>1, <4>13 DEF m
    <3>3. n - 1 \in U
      <4> HIDE DEF U
      <4>1. n - 1 \in Nat /\ (n - 1) - 1 = n - 2 BY <2>5, <2>6
      <4>2. \A k \in 0 .. (n - 1) - 1 : k \in U => k + 1 \in U BY <3>2, <4>1
      <4>3. \A k \in 0 .. n - 1 : k \in U BY <3>1, <4>1, <4>2, UpTo
      <4> QED BY <4>1, <4>3
    <3>4. (n - 1) + 1 = n BY <2>6
    <3> HIDE DEF T
    <3> QED BY <3>3, <3>4
  <2>11. ReadOf(split) = WordsOf(front) \o Tell(b.id, pieces)
    <3>1. SubSeq(split, 1, n) = split
      <4> HIDE DEF X
      <4> QED BY <2>9, WholePiece
    <3>2. SubSeq(pieces, 1, n) = pieces BY <2>5, <2>n, WholePiece
    <3> QED BY <2>10, <3>1, <3>2
  <2> DEFINE one == <<b>>
  <2>12. one \in X /\ WordsOf(one) = PairsOf(b.id, Words(b.text)) /\ PairsOf(b.id, Words(b.text)) \in Seq(WordSet)
    BY WordsOfOne
  <2>13. part = front \o one BY <2>1
  <2> HIDE DEF one
  <2>14. WordsOf(part) = WordsOf(front) \o WordsOf(one) BY <2>12, <2>13, WordsOfConcat
  <2>15. WordsOf(front) \in Seq(WordSet) BY WordsOfIs
  <2>16. Tell(b.id, pieces) \in Seq(WordSet)
    <3> DEFINE Z == Seq(Nat)
    <3>1. Makes(TextIn(b.id), Z, WordSet) /\ pieces \in Seq(Z) BY <2>4, <2>5, TextInMakes
    <3> HIDE DEF Z
    <3>2. MapsTo(TextIn(b.id), pieces, WordSet, Maps(TextIn(b.id), pieces)) BY <3>1, MapsAre
    <3> QED BY <3>2 DEF MapsTo, Tell
  <2>17. ReadsAs(WordsOf(front) \o Tell(b.id, pieces), WordsOf(front) \o PairsOf(b.id, Words(b.text)))
    <3> DEFINE x == WordsOf(front)
               y == Tell(b.id, pieces)
               z == PairsOf(b.id, Words(b.text))
    <3>1. x \in Seq(WordSet) /\ y \in Seq(WordSet) /\ z \in Seq(WordSet) /\ ReadsAs(y, z)
      BY <2>5, <2>12, <2>15, <2>16
    <3> HIDE DEF x, y, z
    <3>2. ReadsAs(x, x) BY <3>1, ReadsSame
    <3>3. ReadsAs(x \o y, x \o z) BY <3>1, <3>2, ReadsConcat
    <3> QED BY <3>3 DEF x, y, z
  <2> QED BY <2>9, <2>11, <2>12, <2>14, <2>17 DEF split
<1> QED BY <1>1, <1>2

-----------------------------------------------------------------------------
(* The parts of a page read as the page.                                    *)

\* Splitting a unit reads as the unit.
LEMMA SplitUnitReads ==
  ASSUME NEW u \in UnitSet
  PROVE  SplitUnit(u) \in Seq(Seq(BlockSet)) /\ ReadsAs(ReadOf(SplitUnit(u)), WordsOf(u.blocks))
<1> DEFINE blocks == u.blocks
           parts == BlockParts(blocks)
           n == Len(parts)
           split == [i \in 1..n |-> SplitPart(parts[i])]
           X == Seq(BlockSet)
           Y == Seq(X)
<1>0. blocks \in X BY DEF UnitSet
<1>1. CASE Tokens(u.blocks) <= MaxTokens
  <2>1. SplitUnit(u) = <<blocks>> BY <1>1 DEF SplitUnit
  <2>2. <<blocks>> \in Seq(Seq(BlockSet)) /\ ReadOf(<<blocks>>) = WordsOf(blocks) /\ WordsOf(blocks) \in Seq(WordSet)
    BY <1>0, ReadOfOne
  <2> QED BY <2>1, <2>2, ReadsSame
<1>2. CASE ~(Tokens(u.blocks) <= MaxTokens)
  <2>1. SplitUnit(u) = FlattenSeq(split) BY <1>2 DEF SplitUnit
  <2>2. parts \in Seq(Seq(BlockSet)) /\ FlattenSeq(parts) = blocks /\ (\A i \in 1..n : LongEnds(parts[i]))
    BY <1>0, BlockPartsAre
  <2>3. n \in Nat /\ \A i \in 1..n : parts[i] \in X
    <3>1. parts \in Seq(X) BY <2>2
    <3> HIDE DEF X, parts
    <3> QED BY <3>1
  <2>4. ASSUME NEW i \in 1..n
        PROVE  SplitPart(parts[i]) \in Y /\ ReadsAs(ReadOf(SplitPart(parts[i])), WordsOf(parts[i]))
    <3>1. parts[i] \in Seq(BlockSet) /\ LongEnds(parts[i]) BY <2>2, <2>3
    <3> QED BY <3>1, SplitPartReads
  <2> HIDE DEF parts, n
  <2>n. n = Len(parts) BY DEF n
  <2>5. split \in Seq(Y) /\ Len(split) = n /\ \A i \in 1..n : split[i] = SplitPart(parts[i])
    <3>1. split \in [1..n -> Y] BY <2>4
    <3> HIDE DEF Y
    <3> QED BY <3>1, <2>3
  <2> HIDE DEF split
  <2>6. split \in Seq(Seq(Seq(BlockSet))) BY <2>5
  <2>7. \A i \in 1..Len(parts) : ReadsAs(ReadOf(split[i]), WordsOf(parts[i])) BY <2>4, <2>5, <2>n
  <2>8. ReadsAs(ReadOf(FlattenSeq(split)), WordsOf(FlattenSeq(parts)))
    BY <2>2, <2>5, <2>6, <2>7, <2>n, CutAll
  <2>9. FlattenSeq(split) \in Seq(Seq(BlockSet)) BY <2>6, ReadsFlat
  <2> QED BY <2>1, <2>2, <2>8, <2>9
<1> QED BY <1>1, <1>2

\* The parts of a page: what Chunked gives a path each.
PartsOf(blocks) ==
  FlattenSeq([i \in 1..Len(BuildUnits(blocks)) |-> SplitUnit(BuildUnits(blocks)[i])])

\* The parts of a page read as the page.
LEMMA PartsRead ==
  ASSUME NEW blocks \in Seq(BlockSet)
  PROVE  /\ PartsOf(blocks) \in Seq(Seq(BlockSet))
         /\ HasContent(blocks) => ReadsAs(ReadOf(PartsOf(blocks)), WordsOf(blocks))
<1> DEFINE units == BuildUnits(blocks)
           n == Len(units)
           split == [i \in 1..n |-> SplitUnit(units[i])]
           ps == [i \in 1..n |-> BlocksIn[units[i]]]
           X == Seq(BlockSet)
           Y == Seq(X)
<1>1. units \in Seq(UnitSet) /\ (HasContent(blocks) => BlocksOf(units) = blocks) BY BuildUnitsAre
<1>2. PartsOf(blocks) = FlattenSeq(split) BY DEF PartsOf
<1>3. BlocksOf(units) = FlattenSeq(ps) BY DEF BlocksOf, Mapped
<1> HIDE DEF units
<1>4. n \in Nat /\ \A i \in 1..n : units[i] \in UnitSet BY <1>1
<1>5. ASSUME NEW i \in 1..n
      PROVE  /\ SplitUnit(units[i]) \in Y /\ BlocksIn[units[i]] \in X
             /\ ReadsAs(ReadOf(SplitUnit(units[i])), WordsOf(BlocksIn[units[i]]))
  <2>1. units[i] \in UnitSet BY <1>4
  <2>2. SplitUnit(units[i]) \in Seq(Seq(BlockSet)) /\ ReadsAs(ReadOf(SplitUnit(units[i])), WordsOf(units[i].blocks))
    BY <2>1, SplitUnitReads
  <2>3. BlocksIn[units[i]] = units[i].blocks BY <2>1 DEF BlocksIn
  <2>4. units[i].blocks \in Seq(BlockSet) BY <2>1 DEF UnitSet
  <2> QED BY <2>2, <2>3, <2>4
<1> HIDE DEF n
<1>6. split \in Seq(Y) /\ Len(split) = n /\ \A i \in 1..n : split[i] = SplitUnit(units[i])
  <2>1. split \in [1..n -> Y] BY <1>5
  <2> HIDE DEF Y
  <2> QED BY <2>1, <1>4
<1>7. ps \in Seq(X) /\ Len(ps) = n /\ \A i \in 1..n : ps[i] = BlocksIn[units[i]]
  <2>1. ps \in [1..n -> X] BY <1>5
  <2> HIDE DEF X
  <2> QED BY <2>1, <1>4
<1> HIDE DEF split, ps
<1>8. split \in Seq(Seq(Seq(BlockSet))) /\ ps \in Seq(Seq(BlockSet)) BY <1>6, <1>7
<1>9. \A i \in 1..Len(ps) : ReadsAs(ReadOf(split[i]), WordsOf(ps[i])) BY <1>5, <1>6, <1>7
<1>10. Len(split) = Len(ps) BY <1>6, <1>7
<1>11. ReadsAs(ReadOf(FlattenSeq(split)), WordsOf(FlattenSeq(ps))) BY <1>8, <1>9, <1>10, CutAll
<1>12. FlattenSeq(split) \in Seq(Seq(BlockSet)) BY <1>8, ReadsFlat
<1> QED BY <1>1, <1>2, <1>3, <1>11, <1>12

ChunkSet == [blocks : Seq(BlockSet), path : Seq(Titles)]

\* The chunks of a page are its parts.
LEMMA ChunkedIs ==
  ASSUME NEW blocks \in Seq(BlockSet), NEW before
  PROVE  /\ Len(Chunked(blocks, before)) = Len(PartsOf(blocks)) /\ Len(PartsOf(blocks)) \in Nat
         /\ DOMAIN Chunked(blocks, before) = 1..Len(PartsOf(blocks))
         /\ \A i \in 1..Len(PartsOf(blocks)) :
              /\ PartsOf(blocks)[i] \in Seq(BlockSet)
              /\ Chunked(blocks, before)[i].blocks = PartsOf(blocks)[i]
              /\ Chunked(blocks, before)[i].path = EffectivePath(PartsOf(blocks)[i], before)
<1> DEFINE parts == PartsOf(blocks)
           c == Chunked(blocks, before)
           n == Len(parts)
           X == Seq(BlockSet)
<1>1. c = [i \in 1..n |-> [blocks |-> parts[i], path |-> EffectivePath(parts[i], before)]]
  BY DEF Chunked, PartsOf
<1>2. parts \in Seq(X) BY PartsRead
<1> HIDE DEF X, c, parts
<1>3. n \in Nat /\ \A i \in 1..n : parts[i] \in X BY <1>2
<1> HIDE DEF n
<1>4. DOMAIN c = 1..n /\ Len(c) = n BY <1>1, <1>3
<1>5. \A i \in 1..n : c[i].blocks = parts[i] /\ c[i].path = EffectivePath(parts[i], before) BY <1>1
<1> QED BY <1>3, <1>4, <1>5 DEF X, c, parts, n

\* The chunks of a page with content read as the page.
LEMMA ChunkedReads ==
  ASSUME NEW blocks \in Seq(BlockSet), NEW before, HasContent(blocks)
  PROVE  LET c == Chunked(blocks, before)
         IN ReadsAs(FlattenSeq([i \in 1..Len(c) |-> WordsOf(c[i].blocks)]), WordsOf(blocks))
<1> DEFINE parts == PartsOf(blocks)
           c == Chunked(blocks, before)
<1>1. parts \in Seq(Seq(BlockSet)) /\ ReadsAs(ReadOf(parts), WordsOf(blocks)) BY PartsRead
<1>2. Len(c) = Len(parts) /\ \A i \in 1..Len(parts) : c[i].blocks = parts[i] BY ChunkedIs
<1> HIDE DEF c, parts
<1>3. [i \in 1..Len(c) |-> WordsOf(c[i].blocks)] = [i \in 1..Len(parts) |-> WordsOf(parts[i])]
  BY <1>2
<1>4. ReadOf(parts) = FlattenSeq([i \in 1..Len(parts) |-> WordsOf(parts[i])]) BY <1>1, ReadOfIs
<1> QED BY <1>1, <1>3, <1>4 DEF c

-----------------------------------------------------------------------------
(* No word occurs twice on a page; the path of a chunk.                     *)

\* A word is marked with the place of its block and, in its text, with its number.
Numbered(txt) == \A i, j \in 1..Len(txt) : txt[i] # Mark /\ txt[i] = txt[j] => i = j
Placed(blocks) == \A i \in 1..Len(blocks) : blocks[i].id = i /\ Numbered(blocks[i].text)

\* No word occurs twice in blocks told apart by their places.
LEMMA PlacedDistinct ==
  ASSUME NEW blocks \in Seq(BlockSet), Placed(blocks)
  PROVE  Distinct(WordsOf(blocks))
<1> DEFINE n == Len(blocks)
           ss == [i \in 1..n |-> [k \in 1..Len(Words(blocks[i].text)) |-> <<blocks[i].id, Words(blocks[i].text)[k]>>]]
           X == Seq(WordSet)
<1>1. WordsOf(blocks) = FlattenSeq(ss) BY DEF WordsOf
<1>2. n \in Nat OBVIOUS
<1>3. ASSUME NEW i \in 1..n
      PROVE  /\ ss[i] = PairsOf(i, Words(blocks[i].text)) /\ i \in Nat
             /\ blocks[i].text \in Seq(Nat) /\ Words(blocks[i].text) \in Seq(Nat) /\ Distinct(Words(blocks[i].text))
             /\ ss[i] \in X /\ Len(ss[i]) = Len(Words(blocks[i].text))
             /\ \A k \in 1..Len(ss[i]) : ss[i][k] = <<i, Words(blocks[i].text)[k]>>
  <2> DEFINE b == blocks[i]
             txt == b.text
             K == {k \in 1..Len(txt) : txt[k] # Mark}
  <2>0. i \in Nat OBVIOUS
  <2>1. b \in BlockSet OBVIOUS
  <2>2. b.id = i /\ Numbered(b.text) BY DEF Placed
  <2> HIDE DEF b
  <2>3. b.text \in Seq(Nat) BY <2>1 DEF BlockSet
  <2>4. Words(txt) = Where(txt, K) BY DEF Words
  <2>5. \A k, l \in 1..Len(txt) : k \in K /\ l \in K /\ txt[k] = txt[l] => k = l
    BY <2>2 DEF Numbered
  <2> HIDE DEF K
  <2>6. Distinct(Words(txt)) BY <2>3, <2>4, <2>5, WhereDistinct
  <2>7. ss[i] = PairsOf(i, Words(txt)) BY <2>2 DEF PairsOf, b
  <2>8. Words(txt) \in Seq(Nat) BY <2>3, WordsAre
  <2>9. /\ PairsOf(i, Words(txt)) \in Seq(WordSet) /\ Len(PairsOf(i, Words(txt))) = Len(Words(txt))
        /\ \A k \in 1..Len(Words(txt)) : PairsOf(i, Words(txt))[k] = <<i, Words(txt)[k]>>
    BY <2>0, <2>8, WordPairsAre
  <2> HIDE DEF ss
  <2> QED BY <2>0, <2>3, <2>6, <2>7, <2>8, <2>9 DEF b
<1>4. ss \in Seq(X) /\ Len(ss) = n
  <2>1. \A i \in 1..n : ss[i] \in X BY <1>3
  <2>2. ss \in [1..n -> X] BY <2>1
  <2> HIDE DEF X, n
  <2> QED BY <2>2, <1>2
<1> HIDE DEF ss, n
<1>5. ASSUME NEW i \in 1..n PROVE Distinct(ss[i])
  <2> DEFINE w == Words(blocks[i].text)
             p == ss[i]
  <2>1. Len(p) = Len(w) /\ Distinct(w) /\ \A k \in 1..Len(p) : p[k] = <<i, w[k]>> BY <1>3
  <2> HIDE DEF w, p
  <2>2. ASSUME NEW k \in 1..Len(p), NEW l \in 1..Len(p), p[k] = p[l] PROVE k = l
    <3>1. p[k] = <<i, w[k]>> /\ p[l] = <<i, w[l]>> BY <2>1
    <3>2. w[k] = w[l] BY <3>1, <2>2
    <3> QED BY <3>2, <2>1 DEF Distinct
  <2>3. Distinct(p) BY <2>2 DEF Distinct
  <2> QED BY <2>3 DEF p
<1>6. ASSUME NEW i \in 1..n, NEW j \in 1..n, NEW k \in 1..Len(ss[i]), NEW l \in 1..Len(ss[j]), ss[i][k] = ss[j][l]
      PROVE  i = j
  <2>1. ss[i][k] = <<i, Words(blocks[i].text)[k]>> BY <1>3
  <2>2. ss[j][l] = <<j, Words(blocks[j].text)[l]>> BY <1>3
  <2> QED BY <2>1, <2>2, <1>6
<1>7. ss \in Seq(Seq(WordSet)) BY <1>4
<1> HIDE DEF X
<1>8. Distinct(FlattenSeq(ss)) BY <1>4, <1>5, <1>6, <1>7, FlatDistinct
<1> QED BY <1>1, <1>8

\* The chunks of a page, read without what they overlap, are the page.
LEMMA PageIsRead ==
  ASSUME NEW blocks \in Seq(BlockSet), NEW before, Placed(blocks), HasContent(blocks)
  PROVE  LET c == Chunked(blocks, before)
         IN FirstReadings(FlattenSeq([i \in 1..Len(c) |-> WordsOf(c[i].blocks)])) = WordsOf(blocks)
<1> DEFINE c == Chunked(blocks, before)
           s == FlattenSeq([i \in 1..Len(c) |-> WordsOf(c[i].blocks)])
<1>1. ReadsAs(s, WordsOf(blocks)) BY ChunkedReads
<1>2. Distinct(WordsOf(blocks)) BY PlacedDistinct
<1> HIDE DEF s, c
<1>3. FirstReadings(s) = WordsOf(blocks) BY <1>1, <1>2, ReadsFirst
<1> QED BY <1>3 DEF s, c

\* A longest common prefix is a prefix of each.
LEMMA LongestIs ==
  ASSUME NEW S, NEW P \in SUBSET Seq(S), P # {}
  PROVE  LongestCommonPrefix(P) \in Seq(S) /\ \A t \in P : IsPrefix(LongestCommonPrefix(P), t)
<1> DEFINE C == CommonPrefixes(P)
           none == <<>>
<1>1. ASSUME NEW t \in P, NEW x \in Prefixes(t)
      PROVE  x \in Seq(S)
  <2>1. t \in Seq(S) /\ Len(t) \in Nat OBVIOUS
  <2>2. PICK l \in 0..Len(t) : x = SubSeq(t, 1, l) BY DEF Prefixes
  <2>3. l \in Nat /\ l <= Len(t) /\ 1 \in Nat \ {0} /\ 1 <= l + 1 BY <2>1
  <2>4. SubSeq(t, 1, l) \in Seq(S) BY <2>1, <2>3, PieceIs
  <2> QED BY <2>2, <2>4
<1>2. \A x \in C : x \in Seq(S) /\ \A t \in P : IsPrefix(x, t) BY <1>1 DEF CommonPrefixes
<1>3. none \in C
  <2>1. PICK t \in P : TRUE OBVIOUS
  <2>2. t \in Seq(S) /\ Len(t) \in Nat BY <2>1
  <2>3. SubSeq(t, 1, 0) = none BY SubSeqEmpty
  <2>4. none \in Prefixes(t) BY <2>2, <2>3 DEF Prefixes
  <2>5. ASSUME NEW v \in P PROVE IsPrefix(none, v)
    <3>1. v \in Seq(S) /\ Len(v) \in Nat /\ Len(none) = 0 OBVIOUS
    <3>2. SubSeq(none, 1, 0) = none /\ SubSeq(v, 1, 0) = none BY SubSeqEmpty
    <3> QED BY <3>1, <3>2 DEF IsPrefix
  <2> QED BY <2>1, <2>4, <2>5 DEF CommonPrefixes
<1>4. PICK t \in P : TRUE OBVIOUS
<1> DEFINE L == {Len(x) : x \in C}
           n == Len(t)
<1>5. n \in Nat /\ L \subseteq 0..n /\ L # {}
  <2>1. n \in Nat BY <1>4
  <2>2. ASSUME NEW x \in C PROVE Len(x) \in 0..n
    <3>1. x \in Seq(S) /\ IsPrefix(x, t) BY <1>2
    <3> QED BY <3>1, <2>1 DEF IsPrefix
  <2> HIDE DEF C, n
  <2> QED BY <2>1, <2>2, <1>3
<1> HIDE DEF C
<1>6. \E longest \in C : \A other \in C : Len(other) <= Len(longest)
  <2> DEFINE m == Max(L)
  <2>0. Max(L) \in L /\ \A y \in L : Max(L) >= y
    <3> HIDE DEF L, n
    <3> QED BY <1>5, MaxIs
  <2> HIDE DEF m
  <2>1. m \in L /\ \A y \in L : m >= y BY <2>0 DEF m
  <2>2. PICK longest \in C : m = Len(longest) BY <2>1
  <2>3. ASSUME NEW other \in C PROVE Len(other) <= Len(longest)
    <3>1. Len(other) \in L /\ Len(other) \in Nat /\ m \in Nat BY <1>2, <2>2
    <3> QED BY <3>1, <2>1, <2>2
  <2> QED BY <2>3
<1>7. LongestCommonPrefix(P) \in C BY <1>6 DEF LongestCommonPrefix, C
<1> QED BY <1>2, <1>7

\* A chunk's path is common to the paths of its content.
LEMMA PathIs ==
  ASSUME NEW blocks \in Seq(BlockSet), NEW before
  PROVE  /\ before \in Seq(Titles) => EffectivePath(blocks, before) \in Seq(Titles)
         /\ \A b \in ToSet(Contents(blocks)) : b.path # <<>> => IsPrefix(EffectivePath(blocks, before), b.path)
<1> DEFINE content == ToSet(Contents(blocks))
           all == {b.path : b \in content}
           paths == all \ {<<>>}
<1>1. \A b \in content : b \in BlockSet
  <2>1. \A i \in 1..Len(blocks) : blocks[i] \in BlockSet OBVIOUS
  <2> QED BY <2>1, ContentsAre
<1>2. \A b \in content : b.path \in Seq(Titles) BY <1>1 DEF BlockSet
<1>3. PathOf(blocks) = IF paths = {} THEN <<>> ELSE LongestCommonPrefix(paths) BY DEF PathOf
<1>4. EffectivePath(blocks, before) = IF \E b \in content : b.path # <<>> THEN PathOf(blocks) ELSE before
  BY DEF EffectivePath
<1> HIDE DEF content
<1>5. CASE \E b \in content : b.path # <<>>
  <2>1. PICK b \in content : b.path # <<>> BY <1>5
  <2>2. paths # {} /\ paths \in SUBSET Seq(Titles) BY <2>1, <1>2
  <2>3. EffectivePath(blocks, before) = LongestCommonPrefix(paths) BY <2>2, <1>3, <1>4, <1>5
  <2>4. \A c \in content : c.path # <<>> => c.path \in paths OBVIOUS
  <2> HIDE DEF paths
  <2>5. LongestCommonPrefix(paths) \in Seq(Titles) /\ \A t \in paths : IsPrefix(LongestCommonPrefix(paths), t)
    BY <2>2, LongestIs
  <2> QED BY <2>3, <2>4, <2>5 DEF content
<1>6. CASE ~\E b \in content : b.path # <<>>
  <2>1. EffectivePath(blocks, before) = before BY <1>4, <1>6
  <2> QED BY <2>1, <1>6 DEF content
<1> QED BY <1>5, <1>6

-----------------------------------------------------------------------------
(* The inductive invariant and the property.                                *)

\* The headings open on a page.
Levels == {b.level : b \in Menu}
OpenSet == [level : Levels, name : Titles]

\* A heading leaves a stack of open headings.
LEMMA PushIs ==
  ASSUME NEW open \in Seq(OpenSet), NEW b \in Menu
  PROVE  Push(open, b) \in Seq(OpenSet)
<1> DEFINE K == {i \in 1..Len(open) : open[i].level < b.level}
           w == Where(open, K)
           o == [level |-> b.level, name |-> b.name]
<1>1. w \in Seq(OpenSet)
  <2> HIDE DEF K
  <2> QED BY WheresAre
<1>2. o \in OpenSet BY DEF OpenSet, Levels, Titles
<1>3. Push(open, b) = Append(w, o) BY DEF Push
<1> HIDE DEF w, o
<1> QED BY <1>1, <1>2, <1>3

\* And so do the blocks of a page.
LEMMA OpenedIs ==
  ASSUME NEW open \in Seq(OpenSet), NEW kinds \in Seq(Menu)
  PROVE  Opened(open, kinds) \in Seq(OpenSet)
<1> DEFINE N == Len(kinds)
           X == Seq(OpenSet)
           Next(n, x) == IF kinds[n].type = "heading" THEN Push(x, kinds[n]) ELSE x
           step == [p \in (1..N) \X X |-> Next(p[1], p[2])]
           after == CHOOSE g : g = [n \in 0..N |-> IF n = 0 THEN open
                                      ELSE IF kinds[n].type = "heading" THEN Push(g[n - 1], kinds[n]) ELSE g[n - 1]]
           G(g) == [n \in 0..N |-> IF n = 0 THEN open ELSE Next(n, g[n - 1])]
<1>1. N \in Nat /\ \A n \in 1..N : kinds[n] \in Menu OBVIOUS
<1>2. Opened(open, kinds) = after[N] BY DEF Opened
<1>0. open \in X OBVIOUS
<1> HIDE DEF N
<1>3. \A n \in 1..N, x \in X : Next(n, x) \in X BY <1>1, PushIs
<1>4. after = CHOOSE g : g = G(g) OBVIOUS
<1> HIDE DEF X, Next, after
<1>5. step \in [(1..N) \X X -> X] /\ \A n \in 1..N, x \in X : step[<<n, x>>] = Next(n, x) BY <1>3
<1> HIDE DEF step
<1>6. PICK g : Unfolds(X, N, open, step, g)
  <2>1. \E g : Unfolds(X, N, open, step, g) BY <1>0, <1>1, <1>5, Recursion
  <2> QED BY <2>1
<1>7. g \in [0..N -> X] /\ g[0] = open /\ \A n \in 1..N : g[n] = step[<<n, g[n - 1]>>]
  BY <1>6 DEF Unfolds
<1>8. g = G(g)
  <2>1. ASSUME NEW n \in 0..N PROVE g[n] = IF n = 0 THEN open ELSE Next(n, g[n - 1])
    <3>1. CASE n = 0 BY <3>1, <1>7
    <3>2. CASE n # 0
      <4>1. n \in 1..N /\ n - 1 \in 0..N BY <3>2, <1>1
      <4>2. g[n - 1] \in X BY <4>1, <1>7
      <4> QED BY <3>2, <4>1, <4>2, <1>5, <1>7
    <3> QED BY <3>1, <3>2
  <2> QED BY <2>1, <1>7
<1>9. after = G(after)
  <2>1. \E x : x = G(x) BY <1>8, Zenon
  <2> QED BY <2>1, <1>4, Zenon
<1>10. after[0] = open /\ \A n \in 1..N : after[n] = Next(n, after[n - 1])
  <2>1. 0 \in 0..N /\ \A n \in 1..N : n \in 0..N /\ n # 0 BY <1>1
  <2> QED BY <2>1, <1>9
<1> HIDE DEF G
<1> DEFINE P == (0..N) \X X
<1>11. <<0, after[0]>> \in P BY <1>0, <1>1, <1>10
<1>12. ASSUME NEW n \in 1..N, <<n - 1, after[n - 1]>> \in P PROVE <<n, after[n]>> \in P
  <2>1. after[n - 1] \in X /\ n \in 0..N BY <1>1, <1>12
  <2> QED BY <2>1, <1>3, <1>10
<1>13. <<N, after[N]>> \in P
  <2> HIDE DEF P
  <2> QED BY <1>1, <1>11, <1>12, Steps
<1> QED BY <1>2, <1>13 DEF X

\* The blocks of a page know their places.
LEMMA ParsedIs ==
  ASSUME NEW open \in Seq(OpenSet), NEW kinds \in Seq(Menu)
  PROVE  Parsed(kinds, open) \in Seq(BlockSet) /\ Placed(Parsed(kinds, open))
<1> DEFINE n == Len(kinds)
           page1 == Parsed(kinds, open)
           At(i) == [id |-> i, type |-> kinds[i].type, text |-> kinds[i].text, rows |-> kinds[i].rows,
                     name |-> kinds[i].name, path |-> Names(Opened(open, SubSeq(kinds, 1, i)))]
<1>1. n \in Nat /\ \A i \in 1..n : kinds[i] \in Menu OBVIOUS
<1>2. page1 = [i \in 1..n |-> At(i)] BY DEF Parsed
<1>3. ASSUME NEW i \in 1..n
      PROVE  At(i) \in BlockSet /\ At(i).id = i /\ Numbered(At(i).text)
  <2> DEFINE b == kinds[i]
             before == SubSeq(kinds, 1, i)
             stack1 == Opened(open, before)
             path == Names(stack1)
  <2>1. b \in Menu BY <1>1
  <2>2. before \in Seq(Menu)
    <3>1. i \in Nat /\ i <= Len(kinds) /\ 1 \in Nat \ {0} /\ 1 <= i + 1 BY <1>1
    <3> QED BY <3>1, PieceIs
  <2> HIDE DEF before
  <2>3. stack1 \in Seq(OpenSet) BY <2>2, OpenedIs
  <2> HIDE DEF stack1
  <2>4. path \in Seq(Titles)
    <3>0. Len(stack1) \in Nat /\ \A k \in 1..Len(stack1) : stack1[k] \in OpenSet BY <2>3
    <3>1. Len(stack1) \in Nat /\ \A k \in 1..Len(stack1) : stack1[k].name \in Titles
      BY <3>0 DEF OpenSet
    <3> QED BY <3>1 DEF Names
  <2> HIDE DEF path
  <2>5. b.text \in Seq(Nat) /\ b.rows \in BOOLEAN /\ (\A k, l \in DOMAIN b.text : k # l /\ b.text[k] = b.text[l] => b.text[k] = Mark)
    BY <2>1, ChunkerAssumption
  <2>6. DOMAIN b.text = 1..Len(b.text) BY <2>5, LenProperties
  <2>7. Numbered(b.text) BY <2>5, <2>6 DEF Numbered
  <2>8. b.type \in Kinds /\ b.name \in Titles BY <2>1 DEF Kinds, Titles
  <2> DEFINE c == [id |-> i, type |-> b.type, text |-> b.text, rows |-> b.rows, name |-> b.name, path |-> path]
  <2>9. c = At(i) BY DEF path, stack1, before
  <2>10. i \in Nat BY <1>1
  <2> HIDE DEF b
  <2>11. c \in BlockSet /\ c.id = i /\ c.text = b.text BY <2>4, <2>5, <2>8, <2>10 DEF BlockSet
  <2> HIDE DEF c
  <2> QED BY <2>7, <2>9, <2>11
<1> HIDE DEF At, page1, n
<1>4. page1 \in [1..n -> BlockSet] BY <1>2, <1>3
<1>5. page1 \in Seq(BlockSet) /\ Len(page1) = n BY <1>1, <1>4
<1>6. \A i \in 1..n : page1[i] = At(i) BY <1>2
<1>7. Placed(page1) BY <1>3, <1>5, <1>6 DEF Placed
<1> QED BY <1>5, <1>7 DEF page1

\* The section open at the end of a page.
LEMMA OpenStackIs ==
  ASSUME NEW blocks \in Seq(BlockSet), NEW before \in Seq(Titles)
  PROVE  OpenStack(blocks, before) \in Seq(Titles)
<1>1. CASE blocks = <<>> \/ Last(blocks).path = <<>> BY <1>1 DEF OpenStack
<1>2. CASE ~(blocks = <<>> \/ Last(blocks).path = <<>>)
  <2>1. Last(blocks) \in BlockSet BY <1>2, FrontLast
  <2>2. Last(blocks).path \in Seq(Titles) /\ Last(blocks).name \in Titles BY <2>1 DEF BlockSet
  <2>3. Append(Last(blocks).path, Last(blocks).name) \in Seq(Titles) BY <2>2
  <2> QED BY <1>2, <2>2, <2>3 DEF OpenStack
<1> QED BY <1>1, <1>2

\* The blocks of the page know their places and no word is twice in a text; the
\* stack and the section carried over are paths; and the chunks are those of the
\* page under a section carried over, or there is neither page nor chunk.
ChunkInv ==
  /\ page \in Seq(BlockSet) /\ Placed(page)
  /\ stack \in Seq(OpenSet) /\ carried \in Seq(Titles)
  /\ (chunks = <<>> /\ page = <<>>) \/ \E before \in Seq(Titles) : chunks = Chunked(page, before)

\* The invariant is inductive.
LEMMA ChunkInvHolds == CHSpec => []ChunkInv
<1>1. CHInit => ChunkInv
  <2> SUFFICES ASSUME CHInit PROVE ChunkInv OBVIOUS
  <2>1. page = <<>> /\ stack = <<>> /\ carried = <<>> /\ chunks = <<>> BY DEF CHInit
  <2>2. page \in Seq(BlockSet) /\ stack \in Seq(OpenSet) /\ carried \in Seq(Titles) BY <2>1
  <2>3. Placed(page)
    <3>1. Len(page) = 0 BY <2>1
    <3> QED BY <3>1 DEF Placed
  <2> QED BY <2>1, <2>2, <2>3 DEF ChunkInv
<1>2. ChunkInv /\ [CHNext]_chVars => ChunkInv'
  <2> SUFFICES ASSUME ChunkInv, [CHNext]_chVars PROVE ChunkInv' OBVIOUS
  <2>1. ASSUME NEW m \in Nat, NEW kinds \in Pages(m), NEW ocr \in BOOLEAN, ChunkPage(kinds, ocr)
        PROVE  ChunkInv'
    <3> DEFINE open == IF ocr THEN <<>> ELSE stack
               blocks == Parsed(kinds, open)
    <3>1. kinds \in Seq(Menu)
      <4>1. PICK k \in 0..m : kinds \in [1..k -> Menu] BY <2>1 DEF Pages
      <4>2. k \in Nat BY <2>1
      <4> QED BY <4>1, <4>2
    <3>2. open \in Seq(OpenSet)
      <4>1. <<>> \in Seq(OpenSet) /\ stack \in Seq(OpenSet) BY DEF ChunkInv
      <4> QED BY <4>1
    <3>3. /\ page' = blocks /\ (stack' = IF ocr THEN stack ELSE Opened(open, kinds))
          /\ carried' = OpenStack(blocks, carried) /\ chunks' = Chunked(blocks, carried)
      BY <2>1 DEF ChunkPage
    <3> HIDE DEF open
    <3>4. blocks \in Seq(BlockSet) /\ Placed(blocks) BY <3>1, <3>2, ParsedIs
    <3>5. Opened(open, kinds) \in Seq(OpenSet) /\ stack \in Seq(OpenSet)
      BY <3>1, <3>2, OpenedIs DEF ChunkInv
    <3> HIDE DEF blocks
    <3>6. carried \in Seq(Titles) BY DEF ChunkInv
    <3>7. OpenStack(blocks, carried) \in Seq(Titles) BY <3>4, <3>6, OpenStackIs
    <3>8. page' \in Seq(BlockSet) /\ Placed(page)' BY <3>3, <3>4 DEF Placed
    <3>9. stack' \in Seq(OpenSet) BY <3>3, <3>5
    <3>10. carried' \in Seq(Titles) BY <3>3, <3>7
    <3>11. \E before \in Seq(Titles) : chunks' = Chunked(page', before) BY <3>3, <3>6
    <3>12. (\E before \in Seq(Titles) : chunks = Chunked(page, before))' BY <3>11
    <3> QED BY <3>8, <3>9, <3>10, <3>12 DEF ChunkInv
  <2>2. CASE number = 0 /\ \E kinds \in Pages(MaxBlocks) : ChunkPage(kinds, FALSE)
    BY <2>1, <2>2, ChunkerAssumption
  <2>3. CASE number = 1 /\ \E kinds \in Pages(MaxMore), ocr \in BOOLEAN : ChunkPage(kinds, ocr)
    BY <2>1, <2>3, ChunkerAssumption
  <2>4. CASE UNCHANGED chVars
    <3>1. page' = page /\ stack' = stack /\ carried' = carried /\ chunks' = chunks
      BY <2>4 DEF chVars
    <3>2. Placed(page)' BY <3>1 DEF ChunkInv
    <3>3. ((chunks = <<>> /\ page = <<>>) \/ \E before \in Seq(Titles) : chunks = Chunked(page, before))'
      BY <3>1 DEF ChunkInv
    <3> QED BY <3>1, <3>2, <3>3 DEF ChunkInv
  <2> QED BY <2>2, <2>3, <2>4 DEF CHNext
<1> QED BY <1>1, <1>2, PTL DEF CHSpec

\* ChunksAreThePage for any menu of blocks and any sizes: read without what they
\* overlap the chunks of a page are its words, each once and in order, and no chunk
\* has a path its content does not have (chunker.py:91-462).
THEOREM ChunksRead == CHSpec => []ChunksAreThePage
<1>1. ChunkInv => NothingIsLost
  <2> SUFFICES ASSUME ChunkInv, HasContent(page)
               PROVE  FirstReadings(FlattenSeq([i \in 1..Len(chunks) |-> WordsOf(chunks[i].blocks)])) = WordsOf(page)
    BY DEF NothingIsLost
  <2>1. page # <<>>
    <3>1. Len(<<>>) = 0 /\ 1..0 = {} OBVIOUS
    <3> QED BY <3>1 DEF HasContent
  <2>2. PICK before \in Seq(Titles) : chunks = Chunked(page, before) BY <2>1 DEF ChunkInv
  <2>3. page \in Seq(BlockSet) /\ Placed(page) BY DEF ChunkInv
  <2> QED BY <2>2, <2>3, PageIsRead
<1>2. ChunkInv => PathsHold
  <2> SUFFICES ASSUME ChunkInv, NEW i \in 1..Len(chunks), NEW b \in ToSet(Contents(chunks[i].blocks)), b.path # <<>>
               PROVE  IsPrefix(chunks[i].path, b.path)
    BY DEF PathsHold
  <2>1. chunks # <<>>
    <3>1. Len(<<>>) = 0 /\ 1..0 = {} OBVIOUS
    <3> QED BY <3>1
  <2>2. PICK before \in Seq(Titles) : chunks = Chunked(page, before) BY <2>1 DEF ChunkInv
  <2>3. page \in Seq(BlockSet) BY DEF ChunkInv
  <2> DEFINE part == PartsOf(page)[i]
  <2>4. part \in Seq(BlockSet) /\ chunks[i].blocks = part /\ chunks[i].path = EffectivePath(part, before)
    BY <2>2, <2>3, ChunkedIs
  <2> HIDE DEF part
  <2>5. \A c \in ToSet(Contents(part)) : c.path # <<>> => IsPrefix(EffectivePath(part, before), c.path)
    BY <2>4, PathIs
  <2> QED BY <2>4, <2>5
<1>3. ChunkInv => ChunksAreThePage BY <1>1, <1>2 DEF ChunksAreThePage
<1> QED BY <1>3, ChunkInvHolds, PTL
=============================================================================
