---------------------------- MODULE Conversation ----------------------------
(***************************************************************************)
(* One chat session of the monolith: the turns of HommeyWebInstance        *)
(* (webui_new/manager.py) over the messages of context/memory_repository.py. *)
(* A turn holds the lease of the session (SessionCoordination), validates  *)
(* the card it answers, stores the question, runs the supervisor, stores   *)
(* the answer and streams it.  Its database writes run in threads that a   *)
(* cancellation does not stop.  The session may be deleted under the same  *)
(* lease (clearing the history does the same to every session); reading it *)
(* repairs old messages without one.                                       *)
(***************************************************************************)
EXTENDS Naturals, Sequences, SequencesExt

CONSTANTS
  Requests,    \* request ids, each of one text
  Files,       \* attachments
  MaxAttempts, \* bound: how often the client sends one of them
  Replies,     \* the kinds of answers, of those below
  Nobody

ASSUME ConversationAssumption ==
  /\ Nobody \notin Requests \cup {"operation"} /\ "operation" \notin Requests
  /\ MaxAttempts \in Nat
  /\ Replies \subseteq {"text", "recoverable", "card", "document"}

VARIABLES
  session,  \* status and close_reason of the row
  lease,    \* who holds the session
  log,      \* conversation_messages, by sequence_no
  runs,     \* supervisor_runs: requests in the order of created_at
  reply,    \* what a completed run replied
  ready,    \* the attachments that are ready and not expired
  turn,     \* the last attempt of each request
  attempts, \* how many there were
  op,       \* the session operation under way, and how many rows it has deleted
  screen    \* what the client of each request has at the end

cvVars == <<session, lease, log, runs, reply, ready, turn, attempts, op, screen>>

\* An answer is plain text, a card to fill in, or a document; a recoverable text
\* is one the reader takes for a card of before migration 0016.
Documents == {"card", "document"}

Message == [req : Requests, role : {"user", "assistant"}, card : Requests \cup {Nobody},
            files : SUBSET Files, body : Replies \cup {"question"},
            doc : Documents \cup {"none"}]
Places == {"out", "entered", "valid", "asking", "running", "answering", "emitting", "stopping"}
Turn == [at : Places, sent : BOOLEAN, cancelled : BOOLEAN,
         card : Requests \cup {Nobody}, files : SUBSET Files, shown : {"blank", "part", "draft"}]

CVTypeOK ==
  /\ session \in {"active", "closed", "deleted"}
  /\ lease \in Requests \cup {Nobody, "operation"}
  /\ log \in Seq(Message)
  /\ runs \in Seq(Requests)
  /\ reply \in [Requests -> Replies \cup {"none"}]
  /\ ready \subseteq Files
  /\ turn \in [Requests -> Turn]
  /\ attempts \in 0..MaxAttempts
  /\ op \in [at : {"none", "deleting"}, seen : Nat]
  /\ screen \in [Requests -> {"none", "done", "wrong"}]

CVInit ==
  /\ session \in {"active", "closed"}
  /\ lease = Nobody /\ log = <<>> /\ runs = <<>>
  /\ reply = [r \in Requests |-> "none"]
  /\ ready = Files
  /\ turn = [r \in Requests |-> [at |-> "out", sent |-> FALSE, cancelled |-> FALSE,
                                 card |-> Nobody, files |-> {}, shown |-> "blank"]]
  /\ attempts = 0
  /\ op = [at |-> "none", seen |-> 0]
  /\ screen = [r \in Requests |-> "none"]
-----------------------------------------------------------------------------
(* The log.                                                                *)

Stored(r, role) == {i \in DOMAIN log : log[i].req = r /\ log[i].role = role}

Asked(r) == [req |-> r, role |-> "user", card |-> turn[r].card, files |-> turn[r].files,
             body |-> "question", doc |-> "none"]
Answered(r) == [req |-> r, role |-> "assistant", card |-> Nobody, files |-> {}, body |-> reply[r],
                doc |-> IF reply[r] \in Documents THEN reply[r] ELSE "none"]

\* What a reader makes of a message, and writes back.
Repaired(m) ==
  IF m.role = "assistant" /\ m.body = "recoverable" THEN [m EXCEPT !.doc = "card"] ELSE m
RepairedLog == [i \in DOMAIN log |-> Repaired(log[i])]

Rest == <<runs, reply, ready, attempts, op>>

-----------------------------------------------------------------------------
(* A turn.                                                                 *)

Goes(r, from, to) ==
  /\ turn[r].at = from /\ turn' = [turn EXCEPT ![r].at = to] /\ UNCHANGED lease
Ends(r) ==
  /\ turn' = [turn EXCEPT ![r] = [@ EXCEPT !.at = "out", !.cancelled = FALSE, !.files = {},
                                          !.shown = "blank"]]
  /\ lease' = Nobody

\* A retry keeps its text and so the card it answers; the client may send other
\* attachments with it.  A deleted session is not resumed.
Enter(r) ==
  /\ lease = Nobody /\ session # "deleted" /\ turn[r].at = "out"
  /\ attempts < MaxAttempts /\ attempts' = attempts + 1
  /\ \E card \in IF turn[r].sent THEN {turn[r].card} ELSE (Requests \ {r}) \cup {Nobody},
        files \in SUBSET Files :
       turn' = [turn EXCEPT ![r] = [@ EXCEPT !.at = "entered", !.sent = TRUE,
                                            !.card = card, !.files = files]]
  /\ lease' = r /\ session' = "active"
  /\ screen' = [screen EXCEPT ![r] = "none"]
  /\ UNCHANGED <<log, runs, reply, ready, op>>

\* A mutant of CardOpen: what came after the card is not looked at.
CardThere(r, messages) ==
  \E i \in DOMAIN messages :
    messages[i].role = "assistant" /\ messages[i].doc = "card" /\ messages[i].req = turn[r].card

\* The card is there and nothing came after it but this same submission.
CardOpen(r, messages) ==
  \E i \in DOMAIN messages :
    /\ messages[i].role = "assistant" /\ messages[i].doc = "card" /\ messages[i].req = turn[r].card
    /\ LET following == {messages[j] : j \in i + 1 .. Len(messages)}
       IN  \/ following = {}
           \/ /\ \A m \in following : m.req = r
              /\ \E m \in following : m.role = "user" /\ m.card = turn[r].card

\* The repair of an old message may fail; the card is recognised all the same.
Validate(r) ==
  /\ turn[r].card # Nobody
  /\ IF CardOpen(r, RepairedLog) THEN Goes(r, "entered", "valid")
                                 ELSE turn[r].at = "entered" /\ Ends(r)
  /\ log' \in {log, RepairedLog}
  /\ UNCHANGED <<session, screen, Rest>>

NothingToValidate(r) ==
  /\ turn[r].card = Nobody /\ Goes(r, "entered", "valid")
  /\ UNCHANGED <<session, log, screen, Rest>>

Normalize(r) ==
  /\ IF turn[r].files \subseteq ready THEN Goes(r, "valid", "asking")
                                      ELSE turn[r].at = "valid" /\ Ends(r)
  /\ UNCHANGED <<session, log, screen, Rest>>

\* What a write leads to: a cancelled attempt ends when its write has ended.
Written(r, from, to) ==
  IF ~turn[r].cancelled THEN Goes(r, from, to) ELSE turn[r].at = from /\ Ends(r)

\* _bind_ready_attachments on a message that is there: the ids must be bound.
Bindable(i, files) == files \subseteq ready /\ files \subseteq log[i].files

AskAgain(r) ==
  \E i \in Stored(r, "user") :
    /\ IF Bindable(i, turn[r].files)
         THEN /\ Written(r, "asking", "running")
              /\ log' = [log EXCEPT ![i].files = @ \cup turn[r].files]
         ELSE /\ turn[r].at = "asking" /\ Ends(r) /\ UNCHANGED log
    /\ UNCHANGED <<session, screen, Rest>>

Ask(r) ==
  /\ Stored(r, "user") = {}
  /\ IF session = "active" /\ turn[r].files \subseteq ready
       THEN Written(r, "asking", "running") /\ log' = Append(log, Asked(r))
       ELSE turn[r].at = "asking" /\ Ends(r) /\ UNCHANGED log
  /\ UNCHANGED <<session, screen, Rest>>

Ran == Range(runs)
Superseded(r) == r \in Ran /\ Last(runs) # r

\* supervisor.run: a completed run replies again; an older one is refused; any
\* other is begun, streams what it drafts and completes.
Replay(r) ==
  /\ reply[r] # "none" /\ Goes(r, "running", "answering")
  /\ UNCHANGED <<session, log, screen, Rest>>

Begun(r) == runs' = IF r \in Ran THEN runs ELSE Append(runs, r)
Begins(r) == reply[r] = "none" /\ ~Superseded(r) /\ Begun(r)

Complete(r) ==
  /\ Begins(r) /\ turn[r].at = "running"
  /\ reply' \in {[reply EXCEPT ![r] = x] : x \in Replies}
  /\ turn' \in {[turn EXCEPT ![r] = [@ EXCEPT !.at = "answering", !.shown = x]] :
                x \in {"blank", "part", "draft"}}
  /\ UNCHANGED <<session, lease, log, screen, ready, attempts, op>>

Interrupted(r) ==
  /\ Begins(r) /\ Goes(r, "running", "stopping")
  /\ UNCHANGED <<session, log, screen, reply, ready, attempts, op>>

RunFails(r) ==
  /\ turn[r].at = "running" /\ Ends(r)
  /\ IF reply[r] = "none" /\ ~Superseded(r) THEN Begun(r) \/ UNCHANGED runs ELSE UNCHANGED runs
  /\ UNCHANGED <<session, log, screen, reply, ready, attempts, op>>

\* The documents of a message that is there are filled in, never replaced.
AnswerAgain(r) ==
  \E i \in Stored(r, "assistant") :
    /\ Written(r, "answering", "emitting")
    /\ log' = [log EXCEPT ![i].doc = IF @ = "none" THEN Answered(r).doc ELSE @]
    /\ UNCHANGED <<session, screen, Rest>>

Answer(r) ==
  /\ Stored(r, "assistant") = {}
  /\ IF session = "active"
       THEN Written(r, "answering", "emitting") /\ log' = Append(log, Answered(r))
       ELSE turn[r].at = "answering" /\ Ends(r) /\ UNCHANGED log
  /\ UNCHANGED <<session, screen, Rest>>

\* The last events of instance.stream_message, after what was streamed live: a
\* draft that is not the answer, or stands beside a document, is taken back.
\* NoReset is a mutant of AfterReset.
NoReset(shown, body) == shown
AfterReset(shown, body) ==
  IF shown # "blank" /\ (body \in Documents \/ shown # "draft") THEN "blank" ELSE shown
LastEvents(shown, body) ==
  CASE body \in Documents -> IF shown = "blank" THEN "done" ELSE "wrong"
    [] shown = "part"     -> "wrong"
    [] OTHER              -> "done"

Emit(r) ==
  /\ turn[r].at = "emitting" /\ Ends(r)
  /\ screen' = [screen EXCEPT ![r] = LastEvents(AfterReset(turn[r].shown, reply[r]), reply[r])]
  /\ UNCHANGED <<session, log, Rest>>

EmitInterrupted(r) ==
  /\ turn[r].at = "stopping" /\ Ends(r)
  /\ UNCHANGED <<session, log, screen, Rest>>

\* The client goes, the deadline of the request passes or the lease is lost.
\* AsyncMemoryFacade.add_message awaits its write first.
Writing(r) == turn[r].at \in {"asking", "answering"}
Cancel(r) ==
  /\ turn[r].at # "out" /\ ~turn[r].cancelled
  /\ IF Writing(r)
       THEN turn' = [turn EXCEPT ![r].cancelled = TRUE] /\ UNCHANGED lease
       ELSE Ends(r)
  /\ UNCHANGED <<session, log, screen, Rest>>

\* The server dies: its transaction is rolled back and its lease expires.
WorkerDies(r) ==
  /\ turn[r].at # "out" /\ Ends(r)
  /\ UNCHANGED <<session, log, screen, Rest>>

-----------------------------------------------------------------------------
(* Everything else.                                                        *)

Expire(f) ==
  /\ f \in ready /\ ready' = ready \ {f}
  /\ UNCHANGED <<session, lease, log, runs, reply, turn, attempts, op, screen>>

\* get_chat_session; a row a deletion has locked is not written.
ReadSession ==
  /\ op.at # "deleting" /\ log # RepairedLog /\ log' = RepairedLog
  /\ UNCHANGED <<session, lease, turn, screen, Rest>>

\* A mutant of DeleteMessages: the lease of the session is not taken.
DeleteUnleased ==
  /\ session # "deleted" /\ op.at = "none"
  /\ op' = [at |-> "deleting", seen |-> Len(log)]
  /\ UNCHANGED <<session, lease, log, runs, reply, ready, turn, attempts, screen>>

\* The messages go before the row of the session is locked, in one transaction.
DeleteMessages ==
  /\ lease = Nobody /\ session # "deleted" /\ lease' = "operation"
  /\ op' = [at |-> "deleting", seen |-> Len(log)]
  /\ UNCHANGED <<session, log, runs, reply, ready, turn, attempts, screen>>

CloseDeleted ==
  /\ op.at = "deleting" /\ op' = [at |-> "none", seen |-> 0] /\ lease' = Nobody
  /\ log' = SubSeq(log, op.seen + 1, Len(log))
  /\ session' = "deleted"
  /\ runs' = <<>> /\ reply' = [r \in Requests |-> "none"]
  /\ UNCHANGED <<ready, turn, attempts, screen>>

DeleteDies ==
  /\ op.at = "deleting" /\ op' = [at |-> "none", seen |-> 0] /\ lease' = Nobody
  /\ UNCHANGED <<session, log, runs, reply, ready, turn, attempts, screen>>

CVNext ==
  \/ \E r \in Requests :
       \/ Enter(r) \/ Validate(r) \/ NothingToValidate(r) \/ Normalize(r)
       \/ AskAgain(r) \/ Ask(r) \/ Replay(r) \/ Complete(r) \/ Interrupted(r) \/ RunFails(r)
       \/ AnswerAgain(r) \/ Answer(r) \/ Emit(r) \/ EmitInterrupted(r)
       \/ Cancel(r) \/ WorkerDies(r)
  \/ \E f \in Files : Expire(f)
  \/ ReadSession \/ DeleteMessages \/ CloseDeleted \/ DeleteDies

CVSpec == CVInit /\ [][CVNext]_cvVars

-----------------------------------------------------------------------------
(* Properties.                                                             *)

\* A client told that its turn is done was shown the whole answer and nothing
\* else, and question and answer are in the transcript, in this order, unless the
\* session was deleted since (stream_message, AsyncMemoryFacade.add_message).
DoneIsStored ==
  \A r \in Requests :
    /\ screen[r] # "wrong"
    /\ screen[r] = "done" /\ session # "deleted" =>
         \E i \in Stored(r, "user"), j \in Stored(r, "assistant") :
           i < j /\ log[j].body = reply[r] /\ (reply[r] \in Documents => log[j].doc = reply[r])

\* A card is answered at most once, and only while it is the last message of the
\* session, although it is looked at long before the submission is stored
\* (_validate_intake_submission).
CardsAreAnsweredInTurn ==
  \A i \in DOMAIN log :
    log[i].card # Nobody =>
      /\ i > 1 /\ log[i - 1].req = log[i].card
      /\ Repaired(log[i - 1]).doc = "card"

\* A deleted session stays deleted, and no message is left in it or comes back:
\* the messages are deleted before the session is closed (delete_chat_session).
DeletedStaysEmpty ==
  [][/\ session = "deleted" => session' = "deleted"
     /\ session' = "deleted" => log' = <<>>]_cvVars
=============================================================================
