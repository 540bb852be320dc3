---------------------------- MODULE ContextWindow ----------------------------
(***************************************************************************)
(* What the main model is shown of a session (agent_runtime/               *)
(* context_window.py): the rows that are still visible, each request in the *)
(* transcript of its run or else as it was displayed, a window of whole     *)
(* turns, the messages of the turn itself, with old observations cleared.   *)
(* The turns here are those of AgentLoop's supervisor: they ask, call tools *)
(* and reply, and may stop anywhere.                                        *)
(***************************************************************************)
EXTENDS Naturals, Sequences, FiniteSets, FiniteSetsExt, SequencesExt, Functions

CONSTANTS
  MaxTurns,   \* bound: requests
  MaxBatches, \* bound: tool batches in all of them
  RowLimit,   \* the newest rows that are read
  Budget,     \* of the window
  Target      \* of the compaction

ASSUME ContextWindowAssumption ==
  MaxTurns \in Nat /\ MaxBatches \in Nat /\ RowLimit \in Nat \ {0} /\ Budget \in Nat /\ Target \in Nat

VARIABLES
  stored,  \* conversation_messages in order
  expired, \* how many of the first are past their retention
  run,     \* the messages in the checkpoint of each request
  phase,   \* where the turn of the last request is
  history  \* what its attempt took from the session

cwVars == <<stored, expired, run, phase, history>>

Turns == 1..MaxTurns
\* calls is the number of tool calls of a message, answers the one it replies to.
Text(req, role, origin) ==
  [req |-> req, role |-> role, from |-> origin, calls |-> 0, answers |-> 0, body |-> "text"]
Calls(req, n, body) == [Text(req, "assistant", "run") EXCEPT !.calls = n, !.body = body]
Result(req, k, body) == [Text(req, "tool", "run") EXCEPT !.answers = k, !.body = body]

Weight(m) == IF m.body = "bulky" THEN 3 ELSE 1
Size(s) ==
  LET sum[n \in 0..Len(s)] == IF n = 0 THEN 0 ELSE sum[n - 1] + Weight(s[n]) IN sum[Len(s)]
\* Requests are numbered as they come.
Now == IF stored = <<>> THEN 0 ELSE Last(stored).req

CWTypeOK ==
  /\ expired \in 0..Len(stored) /\ Now \in 0..MaxTurns
  /\ \A i \in DOMAIN stored : stored[i].from = "row" /\ stored[i].calls = 0
  /\ DOMAIN run = Turns
  /\ \A r \in Turns : \A i \in DOMAIN run[r] :
       /\ run[r][i].req = r /\ run[r][i].from = "run" /\ run[r][i].calls \in 0..2
       /\ run[r][i].role \in {"user", "assistant", "tool"}
       /\ run[r][i].body \in {"text", "none", "bulky", "plain", "card"}
  /\ phase \in {"idle", "asking", "acting", "answering"}

CWInit ==
  /\ stored = <<>> /\ expired = 0 /\ run = [r \in Turns |-> <<>>]
  /\ phase = "idle" /\ history = <<>>
-----------------------------------------------------------------------------
(* The transcript, the rows and the window.                               *)

\* The tool messages directly after message i.
Batch(s, i) == {j \in i + 1 .. Len(s) : \A k \in i + 1 .. j : s[k].role = "tool"}
\* A mutant of Executed: calls are kept whether they were executed or not.
AnyBatch(s, i) == TRUE
Executed(s, i) ==
  Cardinality(Batch(s, i)) = s[i].calls /\ {s[j].answers : j \in Batch(s, i)} = 1 .. s[i].calls

\* settled_messages: prose that came with calls that were not executed is kept.
Kept(s, i) ==
  CASE s[i].role = "tool" ->
         IF \E c \in 1 .. i - 1 : s[c].calls > 0 /\ i \in Batch(s, c) /\ Executed(s, c)
           THEN <<s[i]>> ELSE <<>>
    [] s[i].calls > 0 /\ ~Executed(s, i) ->
         IF s[i].body = "text" THEN <<[s[i] EXCEPT !.calls = 0]>> ELSE <<>>
    [] OTHER -> <<s[i]>>
Settled(s) == FlattenSeq([i \in DOMAIN s |-> Kept(s, i)])

\* Services.context: the newest rows of other requests.
Others(rows, now) ==
  FlattenSeq([i \in DOMAIN rows |-> IF rows[i].req = now THEN <<>> ELSE <<rows[i]>>])
Visible(now) ==
  LET all == Others(SubSeq(stored, expired + 1, Len(stored)), now)
  IN  SubSeq(all, IF Len(all) > RowLimit THEN Len(all) - RowLimit + 1 ELSE 1, Len(all))
Native(seen, r) ==
  /\ run[r] # <<>>
  /\ \E i \in DOMAIN seen : seen[i].req = r /\ seen[i].role = "user"
  /\ \A i \in 1..expired : stored[i].req # r

\* history_from_rows: a request of which both rows are read is there once.
FromRow(seen, i) ==
  LET r == seen[i].req
      again == \E j \in 1 .. i - 1 : seen[j].req = r
  IN  CASE ~Native(seen, r) -> <<seen[i]>>
        [] Native(seen, r) /\ again -> <<>>
        [] OTHER -> Settled(run[r])
Past(now) == LET seen == Visible(now) IN FlattenSeq([i \in DOMAIN seen |-> FromRow(seen, i)])

\* conversation_window, without the question of this turn at its end.
Window(now) ==
  LET s == Append(Settled(Past(now)), Text(now, "user", "run"))
      starts == {i \in DOMAIN s : s[i].role = "user"}
      before == starts \ {Len(s)}
      fitting == {i \in before : Size(SubSeq(s, i, Len(s))) <= Budget}
      start == IF before = {} THEN 1 ELSE Min(fitting \cup {Max(before)})
  IN  SubSeq(s, start, Len(s) - 1)

\* compact_tool_history: in order, until the rest fits.  The results of the last
\* batch, which the model has not seen, are left.
Compacted(s) ==
  LET newest == Max({i \in DOMAIN s : s[i].calls > 0} \cup {0})
      old == {i \in 1 .. newest - 1 : s[i].body = "bulky"}
      Cleared(i) == Size(s) - 2 * Cardinality({j \in old : j < i}) > Target
  IN  [i \in DOMAIN s |-> IF i \in old /\ Cleared(i) THEN [s[i] EXCEPT !.body = "cleared"] ELSE s[i]]

-----------------------------------------------------------------------------
(* The turns.                                                              *)

Extend(s) == run' = [run EXCEPT ![Now] = @ \o s]
Attempt(to, now) == phase' = to /\ history' = Window(now)

\* A request of before context_version 2, or that failed early, has no transcript.
BeginTurn ==
  /\ phase = "idle" /\ Now < MaxTurns
  /\ stored' = Append(stored, Text(Now + 1, "user", "row"))
  /\ \/ run' = [run EXCEPT ![Now + 1] = <<Text(Now + 1, "user", "run")>>] /\ Attempt("asking", Now + 1)
     \/ UNCHANGED <<run, phase, history>>
  /\ UNCHANGED expired

\* The same request again: its checkpoint goes on where it was.
Unanswered == Now > 0 /\ Last(stored).role = "user"
Terminal(s) == (Last(s).role = "assistant" /\ Last(s).calls = 0) \/ Last(s).body = "card"
RetryTurn ==
  /\ phase = "idle" /\ Unanswered /\ run[Now] # <<>>
  /\ Attempt(CASE Terminal(run[Now]) -> "answering" [] Last(run[Now]).calls > 0 -> "acting"
               [] OTHER -> "asking", Now)
  /\ UNCHANGED <<stored, expired, run>>

Batches == FoldSeq(LAMBDA m, n : n + (IF m.calls > 0 THEN 1 ELSE 0), 0, FlattenSeq(run))
CallTools ==
  /\ phase = "asking" /\ Batches < MaxBatches /\ phase' = "acting"
  /\ \E n \in 1..2, body \in {"text", "none"} : Extend(<<Calls(Now, n, body)>>)
  /\ UNCHANGED <<stored, expired, history>>

\* finish and the cards end the turn; they are called alone.
TakeResults ==
  /\ phase = "acting"
  /\ LET n == Last(run[Now]).calls
     IN  \/ /\ \E body \in {"bulky", "plain"} : Extend([k \in 1..n |-> Result(Now, k, body)])
            /\ phase' = "asking"
         \/ n = 1 /\ Extend(<<Result(Now, 1, "card")>>) /\ phase' = "answering"
  /\ UNCHANGED <<stored, expired, history>>

ReplyText ==
  /\ phase = "asking" /\ Extend(<<Text(Now, "assistant", "run")>>) /\ phase' = "answering"
  /\ UNCHANGED <<stored, expired, history>>

StoreAnswer ==
  /\ phase = "answering" /\ phase' = "idle"
  /\ stored' = Append(stored, Text(Now, "assistant", "row"))
  /\ history' = <<>> /\ UNCHANGED <<expired, run>>

\* A crash, a cancellation or a limit; what was saved stays.
StopTurn ==
  /\ phase # "idle" /\ phase' = "idle" /\ history' = <<>> /\ UNCHANGED <<stored, expired, run>>

\* Two weeks after it was written, so between turns and in their order.
ExpireRow ==
  /\ phase = "idle" /\ expired < Len(stored) /\ expired' = expired + 1
  /\ UNCHANGED <<stored, run, phase, history>>

CWNext ==
  \/ BeginTurn \/ RetryTurn \/ CallTools \/ TakeResults \/ ReplyText \/ StoreAnswer
  \/ StopTurn \/ ExpireRow

CWSpec == CWInit /\ [][CWNext]_cwVars
-----------------------------------------------------------------------------
(* Properties.                                                             *)

Paired(s) ==
  /\ \A i \in DOMAIN s : s[i].calls > 0 =>
       /\ i + s[i].calls <= Len(s)
       /\ \A k \in 1 .. s[i].calls : s[i + k].answers = k /\ s[i + k].req = s[i].req
  /\ \A j \in DOMAIN s : s[j].role = "tool" => \E i \in 1 .. j - 1 : s[i].calls >= j - i

\* Requests in their order, in one form each, and nothing of what has expired.
Lawful(s) ==
  /\ \A i, j \in DOMAIN s : i < j =>
       s[i].req < s[j].req \/ (s[i].req = s[j].req /\ s[j].role # "user")
  /\ \A i, j \in DOMAIN s : s[i].req = s[j].req => s[i].from = s[j].from
  /\ \A i \in DOMAIN s, j \in 1..expired :
       s[i].req = stored[j].req /\ s[i].req # Now =>
         s[i].from = "row" /\ stored[j].role # s[i].role

\* The longest end of the session that starts with a question and fits, but at
\* least the last exchange.
WholeTurns(s) ==
  LET all == Past(Now)
      end(k) == SubSeq(all, k, Len(all))
      asked == {k \in DOMAIN all : all[k].role = "user"}
  IN  \/ asked = {} /\ s = all
      \/ \E k \in asked :
           /\ s = end(k)
           /\ k # Max(asked) => Size(s) < Budget
           /\ \A j \in asked : j < k => Size(end(j)) >= Budget

\* A request to the model has every tool call with its results and no result
\* without its call, whatever attempts have crashed; it holds a request once, in
\* order, and nothing of an expired question; it keeps the last exchange whole;
\* and results the model has not read yet are never cleared (context_window.py:1,
\* settled_messages, history_from_rows, compact_tool_history).
ContextIsWhole ==
  phase = "asking" =>
    LET shown == Compacted(history \o run[Now])
        newest == Max({i \in DOMAIN shown : shown[i].calls > 0} \cup {0})
    IN  /\ Paired(shown) /\ Lawful(shown) /\ WholeTurns(history)
        /\ \A i \in newest + 1 .. Len(shown) : shown[i].body # "cleared"
        /\ (\E i \in DOMAIN shown : shown[i].body = "cleared") =>
             Size(history \o run[Now]) > Target
=============================================================================
